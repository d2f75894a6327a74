-------------------------- MODULE SystemTimeProofs --------------------------
(***************************************************************************)
(* For every length of the minute, the hour and the day: the calendar      *)
(* fields of SysWorkTime always add up to its count of seconds.  For every *)
(* period and every width of the tick count: no second is lost or counted  *)
(* early across its wraps, and the two displays agree before the first.    *)
(***************************************************************************)
EXTENDS SystemTime, TLAPS

\* The ticks since the wake time on record, as a plain integer.
Ago == IF pc = "delay" THEN Late + Period ELSE Late

\* The two tick counts are that far apart, up to one wrap.
Apart ==
    \/ xTickCount = xLastWakeTime + Ago
    \/ xTickCount = xLastWakeTime + Ago - TickMod
    \/ xTickCount = xLastWakeTime + Ago + TickMod

\* Where the thread is tells how late it can be.
Paced ==
    /\ pc = "update" => Late \in 0 .. MaxLag
    /\ pc = "delay" => Late \in -Period .. MaxLag
    /\ pc = "blocked" => Late \in -Period .. -1

\* Calendar needs the ranges in TypeOK; NoSecondLost and NeverAhead need
\* Apart, from which MustWait reads the true distance, and Paced.
IInv == TypeOK /\ Calendar /\ Apart /\ Paced

\* Carrying one into the next unit adds the length of the unit.
LEMMA Carry ==
    ASSUME NEW n \in Nat, NEW unit \in Nat
    PROVE  (n + 1) * unit = n * unit + unit /\ n * unit \in Nat
OBVIOUS

\* A wrap takes off TickMod, once.
LEMMA WrapsOnce ==
    ASSUME NEW n \in 0 .. TickMod - 1, NEW k \in 0 .. TickMod
    PROVE  (n + k) % TickMod = IF n + k < TickMod THEN n + k ELSE n + k - TickMod
BY TicksAssumption

LEMMA InitInv == Init => IInv
<1> SUFFICES ASSUME Init PROVE IInv
  OBVIOUS
<1>1. TypeOK
  BY UnitsAssumption, TicksAssumption DEF Init, TypeOK, TimeWorkType, Zero
<1>2. Calendar
  BY UnitsAssumption DEF Init, Calendar, Total, Zero
<1>3. Late = 0 /\ Ago = 0
  BY TicksAssumption DEF Init, Zero, Late, Ago
<1>4. Apart /\ Paced
  BY <1>3, TicksAssumption DEF Init, Apart, Paced
<1> QED BY <1>1, <1>2, <1>4 DEF IInv

\* Counting one second keeps the ranges and the sum: one case for each carry.
LEMMA CountedAdds ==
    ASSUME NEW t \in TimeWorkType, t.all_second = Total(t)
    PROVE  Counted(t) \in TimeWorkType /\ Counted(t).all_second = Total(Counted(t))
<1> DEFINE u == Counted(t)
           hours == t.day * Hrs + t.hour
           minutes == hours * Min + t.minute
<1>1. /\ t.all_second \in Nat /\ t.day \in Nat /\ t.hour \in 0 .. Hrs - 1
      /\ t.minute \in 0 .. Min - 1 /\ t.second \in 0 .. Sec - 1
  BY DEF TimeWorkType
<1>2. t.day * Hrs \in Nat /\ hours \in Nat /\ hours * Min \in Nat /\ minutes \in Nat
  <2>1. t.day * Hrs \in Nat
    BY <1>1, Carry, UnitsAssumption
  <2>2. hours \in Nat
    BY <1>1, <2>1, UnitsAssumption
  <2>3. hours * Min \in Nat
    BY <2>2, Carry, UnitsAssumption
  <2> QED BY <1>1, <2>1, <2>2, <2>3, UnitsAssumption
<1>3. /\ (minutes + 1) * Sec = minutes * Sec + Sec /\ minutes * Sec \in Nat
      /\ (hours + 1) * Min = hours * Min + Min
      /\ (t.day + 1) * Hrs = t.day * Hrs + Hrs
  BY <1>1, <1>2, Carry, UnitsAssumption
<1>4. u \in TimeWorkType
  BY <1>1, UnitsAssumption DEF Counted, TimeWorkType
<1>5. u.all_second = minutes * Sec + t.second + 1
  BY DEF Counted, Total
<1>6. CASE t.second <= Sec - 2
  <2>1. Total(u) = minutes * Sec + (t.second + 1)
    BY <1>1, <1>6, UnitsAssumption DEF Counted, Total
  <2> QED BY <1>1, <1>3, <1>4, <1>5, <2>1
<1>7. CASE ~(t.second <= Sec - 2) /\ t.minute <= Min - 2
  <2>1. t.second = Sec - 1
    BY <1>1, <1>7, UnitsAssumption
  <2>2. Total(u) = (hours * Min + (t.minute + 1)) * Sec + 0
    BY <1>1, <1>7, UnitsAssumption DEF Counted, Total
  <2>3. hours * Min + (t.minute + 1) = minutes + 1
    BY <1>1, <1>2
  <2> QED BY <1>3, <1>4, <1>5, <2>1, <2>2, <2>3, UnitsAssumption
<1>8. CASE ~(t.second <= Sec - 2) /\ ~(t.minute <= Min - 2) /\ t.hour <= Hrs - 2
  <2>1. t.second = Sec - 1 /\ t.minute = Min - 1
    BY <1>1, <1>8, UnitsAssumption
  <2>2. Total(u) = ((t.day * Hrs + (t.hour + 1)) * Min + 0) * Sec + 0
    BY <1>1, <1>8, UnitsAssumption DEF Counted, Total
  <2>3. t.day * Hrs + (t.hour + 1) = hours + 1
    BY <1>1, <1>2
  <2>4. (hours + 1) * Min + 0 = minutes + 1
    BY <1>2, <1>3, <2>1, UnitsAssumption
  <2> QED BY <1>3, <1>4, <1>5, <2>1, <2>2, <2>3, <2>4, UnitsAssumption
<1>9. CASE ~(t.second <= Sec - 2) /\ ~(t.minute <= Min - 2) /\ ~(t.hour <= Hrs - 2)
  <2>1. t.second = Sec - 1 /\ t.minute = Min - 1 /\ t.hour = Hrs - 1
    BY <1>1, <1>9, UnitsAssumption
  <2>2. Total(u) = (((t.day + 1) * Hrs + 0) * Min + 0) * Sec + 0
    BY <1>1, <1>9, UnitsAssumption DEF Counted, Total
  <2>3. (t.day + 1) * Hrs + 0 = hours + 1
    BY <1>2, <1>3, <2>1, UnitsAssumption
  <2>4. (hours + 1) * Min + 0 = minutes + 1
    BY <1>2, <1>3, <2>1, UnitsAssumption
  <2> QED BY <1>3, <1>4, <1>5, <2>1, <2>2, <2>3, <2>4, UnitsAssumption
<1> QED BY <1>6, <1>7, <1>8, <1>9

\* Late is an integer, and one more second takes a period off it.
LEMMA LateType ==
    ASSUME TypeOK
    PROVE  Late \in Int /\ Period * SysWorkTime.all_second \in Nat
           /\ Period * (SysWorkTime.all_second + 1) = Period * SysWorkTime.all_second + Period
<1>1. SysWorkTime.all_second \in Nat
  BY DEF TypeOK, TimeWorkType
<1>2. Period * SysWorkTime.all_second = SysWorkTime.all_second * Period
      /\ Period * (SysWorkTime.all_second + 1) = (SysWorkTime.all_second + 1) * Period
  BY <1>1, TicksAssumption
<1>3. /\ Period * SysWorkTime.all_second \in Nat
      /\ Period * (SysWorkTime.all_second + 1) = Period * SysWorkTime.all_second + Period
  BY <1>1, <1>2, Carry, TicksAssumption
<1> QED BY <1>3 DEF Late, TypeOK

\* MustWait sees through the wraps: it is true exactly while the wake time
\* is still to come.
LEMMA MustWaitSees ==
    ASSUME TypeOK, Apart, Paced, pc = "delay",
           NEW wake, wake = (xLastWakeTime + Period) % TickMod
    PROVE  /\ wake \in 0 .. TickMod - 1
           /\ MustWait(wake) <=> Late < 0
           /\ \/ xTickCount = wake + Late
              \/ xTickCount = wake + Late - TickMod
              \/ xTickCount = wake + Late + TickMod
<1>1. Late \in -Period .. MaxLag /\ Ago = Late + Period
  BY DEF Paced, Ago
<1>2. /\ xTickCount \in 0 .. TickMod - 1 /\ xLastWakeTime \in 0 .. TickMod - 1
      /\ Period \in 0 .. TickMod
  BY TicksAssumption DEF TypeOK
<1>3. wake = IF xLastWakeTime + Period < TickMod
             THEN xLastWakeTime + Period ELSE xLastWakeTime + Period - TickMod
  BY <1>2, WrapsOnce
<1>4. wake \in 0 .. TickMod - 1
  BY <1>2, <1>3, TicksAssumption
<1>5. \/ xTickCount = xLastWakeTime + (Late + Period)
      \/ xTickCount = xLastWakeTime + (Late + Period) - TickMod
  BY <1>1, <1>2, LateType, TicksAssumption DEF Apart
<1>6. MustWait(wake) <=> Late < 0
  BY <1>1, <1>2, <1>3, <1>5, LateType, TicksAssumption DEF MustWait
<1>7. (xTickCount = wake + Late \/ xTickCount = wake + Late - TickMod
           \/ xTickCount = wake + Late + TickMod)
  BY <1>1, <1>2, <1>3, <1>5, LateType, TicksAssumption
<1> QED BY <1>4, <1>6, <1>7

LEMMA UpdateInv == IInv /\ Update => IInv'
<1> SUFFICES ASSUME IInv, Update PROVE IInv'
  OBVIOUS
<1>1. TypeOK' /\ Calendar'
  BY CountedAdds DEF Update, IInv, TypeOK, Calendar
<1>2. SysWorkTime'.all_second = SysWorkTime.all_second + 1
  BY DEF Update, Counted
<1>3. Late' = Late - Period
  BY <1>2, LateType, TicksAssumption DEF Update, Late, IInv, TypeOK
<1>4. Ago' = Ago /\ Paced'
  BY <1>3, LateType, TicksAssumption DEF Update, IInv, Ago, Paced
<1>5. Apart'
  BY <1>4 DEF Update, IInv, Apart
<1> QED BY <1>1, <1>4, <1>5 DEF IInv

LEMMA DelayUntilInv == IInv /\ DelayUntil => IInv'
<1> SUFFICES ASSUME IInv, DelayUntil PROVE IInv'
  OBVIOUS
<1> DEFINE wake == (xLastWakeTime + Period) % TickMod
<1>1. /\ wake \in 0 .. TickMod - 1
      /\ MustWait(wake) <=> Late < 0
      /\ (xTickCount = wake + Late \/ xTickCount = wake + Late - TickMod
           \/ xTickCount = wake + Late + TickMod)
  BY MustWaitSees DEF IInv, DelayUntil
<1>2. /\ xLastWakeTime' = wake
      /\ pc' = IF MustWait(wake) THEN "blocked" ELSE "update"
      /\ pc = "delay" /\ UNCHANGED <<xTickCount, SysWorkTime, elapsed>>
  BY DEF DelayUntil
<1> HIDE DEF wake
<1>3. Late' = Late
  BY <1>2 DEF Late
<1>4. TypeOK' /\ Calendar'
  BY <1>1, <1>2 DEF IInv, TypeOK, Calendar
<1>5. Paced'
  BY <1>1, <1>2, <1>3, LateType, TicksAssumption DEF IInv, Paced
<1>6. Apart'
  BY <1>1, <1>2, <1>3 DEF Apart, Ago
<1> QED BY <1>4, <1>5, <1>6 DEF IInv

\* The kernel wakes the thread on the tick at which Late becomes 0.
LEMMA TickInv == IInv /\ Tick => IInv'
<1> SUFFICES ASSUME IInv, Tick PROVE IInv'
  OBVIOUS
<1>1. /\ xTickCount \in 0 .. TickMod - 1 /\ xLastWakeTime \in 0 .. TickMod - 1
      /\ 1 \in 0 .. TickMod
  BY TicksAssumption DEF IInv, TypeOK
<1>2. xTickCount' = IF xTickCount + 1 < TickMod THEN xTickCount + 1 ELSE xTickCount + 1 - TickMod
  BY <1>1, WrapsOnce DEF Tick
<1>3. Late' = Late + 1 /\ Late \in Int
  BY LateType DEF Tick, Late, IInv, TypeOK
<1>4. xTickCount' \in 0 .. TickMod - 1
  BY <1>1, <1>2, TicksAssumption
<1>5. TypeOK' /\ Calendar'
  BY <1>4 DEF Tick, IInv, TypeOK, Calendar
<1>0. xLastWakeTime' = xLastWakeTime
  BY DEF Tick
<1>6. CASE pc = "blocked"
  <2>1. Late \in -Period .. -1 /\ Ago = Late
    BY <1>6 DEF IInv, Paced, Ago
  <2>2. xTickCount' = xLastWakeTime <=> Late = -1
    BY <1>1, <1>2, <1>3, <2>1, TicksAssumption DEF IInv, Apart
  <2>3. pc' = IF Late = -1 THEN "update" ELSE "blocked"
    BY <1>6, <2>2 DEF Tick
  <2>4. Paced'
    BY <1>3, <2>1, <2>3, TicksAssumption DEF Paced
  <2>5. Ago' = Late + 1
    BY <1>3, <2>3 DEF Ago
  <2>6. \/ xTickCount' = xLastWakeTime + (Late + 1)
        \/ xTickCount' = xLastWakeTime + (Late + 1) - TickMod
        \/ xTickCount' = xLastWakeTime + (Late + 1) + TickMod
    BY <1>1, <1>2, <1>3, <2>1, TicksAssumption DEF IInv, Apart
  <2>7. Apart'
    BY <1>0, <2>5, <2>6 DEF Apart
  <2> QED BY <1>5, <2>4, <2>7 DEF IInv
<1>7. CASE pc # "blocked"
  <2>1. pc' = pc /\ Late < MaxLag
    BY <1>7 DEF Tick
  <2>2. Paced'
    BY <1>3, <1>7, <2>1, TicksAssumption DEF IInv, Paced
  <2>3. Ago' = Ago + 1 /\ Ago \in Int /\ Ago >= 0 /\ Ago < MaxLag + Period
    BY <1>3, <1>7, <2>1, TicksAssumption DEF Ago, IInv, Paced, TypeOK
  <2>4. \/ xTickCount' = xLastWakeTime + (Ago + 1)
        \/ xTickCount' = xLastWakeTime + (Ago + 1) - TickMod
        \/ xTickCount' = xLastWakeTime + (Ago + 1) + TickMod
    BY <1>1, <1>2, <2>3, TicksAssumption DEF IInv, Apart
  <2>5. Apart'
    BY <1>0, <2>3, <2>4 DEF Apart
  <2> QED BY <1>5, <2>2, <2>5 DEF IInv
<1> QED BY <1>6, <1>7

LEMMA StepInv == IInv /\ [Next]_vars => IInv'
<1> SUFFICES ASSUME IInv, [Next]_vars PROVE IInv'
  OBVIOUS
<1>1. CASE UNCHANGED vars
  BY <1>1 DEF vars, IInv, TypeOK, Calendar, Apart, Ago, Paced, Late
<1> QED BY <1>1, UpdateInv, DelayUntilInv, TickInv DEF Next

-----------------------------------------------------------------------------
(* What the displays show, from the division by the units.                  *)

\* Quotient and remainder.
LEMMA Divides ==
    ASSUME NEW n \in Nat, NEW d \in Nat \ {0}
    PROVE  /\ n \div d \in Nat /\ n % d \in 0 .. d - 1 /\ n = d * (n \div d) + (n % d)
BY SMT

\* Only the quotient and the remainder are so.
LEMMA DividesOnly ==
    ASSUME NEW n \in Nat, NEW d \in Nat \ {0}, NEW q \in Nat, NEW r \in 0 .. d - 1, n = d * q + r
    PROVE  q = n \div d /\ r = n % d
<1> DEFINE p == n \div d
           s == n % d
<1>1. p \in Nat /\ s \in 0 .. d - 1 /\ n = d * p + s
  BY Divides
<1> HIDE DEF p, s
<1>2. d * p \in Int /\ d * q \in Int /\ d * (p - q) = d * p - d * q
  BY <1>1
<1>3. ~(p > q)
  <2>1. p > q => d * (p - q) >= d
    BY <1>1
  <2> QED BY <1>1, <1>2, <2>1
<1>4. ~(q > p)
  <2>1. q > p => d * (q - p) >= d /\ d * (q - p) = d * q - d * p
    BY <1>1
  <2> QED BY <1>1, <1>2, <2>1
<1>5. p = q
  BY <1>1, <1>3, <1>4
<1>6. s = r
  BY <1>1, <1>2, <1>5
<1> QED BY <1>5, <1>6 DEF p, s

\* What counting in units of d * e has to do with counting in units of d.
Nested(n, d, e) ==
    /\ d * e \in Nat \ {0}
    /\ n \div (d * e) = (n \div d) \div e
    /\ (n % (d * e)) \div d = (n \div d) % e

\* A count of a larger unit can be taken from that of a smaller one.
LEMMA DividesTwice ==
    ASSUME NEW n \in Nat, NEW d \in Nat \ {0}, NEW e \in Nat \ {0}
    PROVE  Nested(n, d, e)
<1> DEFINE q == n \div d
           r == n % d
           u == q \div e
           v == q % e
<1>1. q \in Nat /\ r \in 0 .. d - 1 /\ n = d * q + r
  BY Divides
<1>2. u \in Nat /\ v \in 0 .. e - 1 /\ q = e * u + v
  BY <1>1, Divides
<1> HIDE DEF q, r, u, v
<1>3. d * e \in Nat \ {0}
  <2>1. d * e >= d
    OBVIOUS
  <2> QED BY <2>1
<1>4. d * v \in Nat /\ d * v + r <= d * e - 1
  <2>1. d * v \in Nat /\ d * (e - v) >= d /\ d * (e - v) = d * e - d * v
    BY <1>2
  <2> QED BY <1>1, <1>3, <2>1
<1>5. n = (d * e) * u + (d * v + r)
  <2>1. d * (e * u + v) = d * (e * u) + d * v /\ d * (e * u) = (d * e) * u
    BY <1>2
  <2> QED BY <1>1, <1>2, <2>1
<1>6. d * v + r \in 0 .. d * e - 1
  BY <1>1, <1>3, <1>4
<1>7. u = n \div (d * e) /\ d * v + r = n % (d * e)
  BY <1>2, <1>3, <1>5, <1>6, DividesOnly
<1>8. v = (d * v + r) \div d
  BY <1>1, <1>2, <1>4, DividesOnly
<1> QED BY <1>3, <1>7, <1>8 DEF q, u, v, Nested

\* Until it wraps, the tick count is the ticks of the loop and those before it.
Fresh == xTickCount < elapsed \/ xTickCount - elapsed <= Period

\* A step keeps that: when the count wraps it falls behind the ticks of the loop.
LEMMA FreshStays == TypeOK /\ Fresh /\ [Next]_vars => Fresh'
<1> SUFFICES ASSUME TypeOK, Fresh, [Next]_vars PROVE Fresh'
  OBVIOUS
<1>1. CASE Tick
  <2>1. xTickCount \in 0 .. TickMod - 1 /\ 1 \in 0 .. TickMod /\ elapsed \in Nat
    BY TicksAssumption DEF TypeOK
  <2>2. xTickCount' = IF xTickCount + 1 < TickMod THEN xTickCount + 1 ELSE xTickCount + 1 - TickMod
    BY <1>1, <2>1, WrapsOnce DEF Tick
  <2> QED BY <1>1, <2>1, <2>2, TicksAssumption DEF Tick, Fresh
<1>2. CASE Update \/ DelayUntil \/ UNCHANGED vars
  BY <1>2 DEF Update, DelayUntil, vars, Fresh
<1> QED BY <1>1, <1>2 DEF Next

\* The terminal shows the whole periods of the tick count.
LEMMA TerminalShows ==
    ASSUME TypeOK
    PROVE  Total(TerminalTime) = xTickCount \div Period
<1> DEFINE x == xTickCount
           s == x \div Period
           m == s \div Sec
           h == m \div Min
           perMin == Period * Sec
           perHour == perMin * Min
           perDay == perHour * Hrs
<1>1. x \in Nat /\ Period \in Nat \ {0} /\ Sec \in Nat \ {0} /\ Min \in Nat \ {0} /\ Hrs \in Nat \ {0}
  BY TicksAssumption, UnitsAssumption DEF TypeOK
<1> HIDE DEF x
<1>2. perMin \in Nat \ {0} /\ x \div perMin = m /\ (x % perMin) \div Period = s % Sec
  <2>1. Nested(x, Period, Sec)
    BY <1>1, DividesTwice
  <2> QED BY <1>1, <2>1 DEF Nested
<1> HIDE DEF perMin, s
<1>3. perHour \in Nat \ {0} /\ x \div perHour = h /\ (x % perHour) \div perMin = m % Min
  <2>1. Nested(x, perMin, Min)
    BY <1>1, <1>2, DividesTwice
  <2> QED BY <1>1, <1>2, <2>1 DEF Nested
<1> HIDE DEF perHour, m
<1>4. x \div perDay = h \div Hrs /\ (x % perDay) \div perHour = h % Hrs
  <2>1. Nested(x, perHour, Hrs)
    BY <1>1, <1>3, DividesTwice
  <2> QED BY <1>1, <1>3, <2>1 DEF Nested
<1> USE DEF s, m
<1>5. /\ s \in Nat /\ m \in Nat /\ h \in Nat
      /\ s = Sec * m + (s % Sec) /\ m = Min * h + (m % Min) /\ h = Hrs * (h \div Hrs) + (h % Hrs)
      /\ s % Sec \in Nat /\ m % Min \in Nat /\ h % Hrs \in Nat /\ h \div Hrs \in Nat
  <2>1. s \in Nat
    BY <1>1, Divides
  <2>2. m \in Nat /\ s = Sec * m + (s % Sec) /\ s % Sec \in Nat
    BY <1>1, <2>1, Divides
  <2>3. h \in Nat /\ m = Min * h + (m % Min) /\ m % Min \in Nat
    BY <1>1, <2>2, Divides
  <2>4. h = Hrs * (h \div Hrs) + (h % Hrs) /\ h % Hrs \in Nat /\ h \div Hrs \in Nat
    BY <1>1, <2>3, Divides
  <2> QED BY <2>1, <2>2, <2>3, <2>4
<1> DEFINE day == h \div Hrs
           hour == h % Hrs
           minute == m % Min
           second == s % Sec
<1>6. TerminalTime = [day |-> day, hour |-> hour, minute |-> minute, second |-> second]
  BY <1>2, <1>3, <1>4 DEF TerminalTime, x, perMin, perHour
<1>7. Total(TerminalTime) = ((day * Hrs + hour) * Min + minute) * Sec + second
  BY <1>6 DEF Total
<1> HIDE DEF s, m, h, day, hour, minute, second
<1>8. h = Hrs * day + hour /\ m = Min * h + minute /\ s = Sec * m + second /\ day \in Nat
      /\ h \in Nat /\ m \in Nat
  BY <1>5 DEF day, hour, minute, second
<1>9. Hrs * day = day * Hrs /\ Min * h = h * Min /\ Sec * m = m * Sec
  BY <1>1, <1>8
<1>10. h = day * Hrs + hour /\ m = h * Min + minute /\ s = m * Sec + second
  BY <1>8, <1>9
<1>11. Total(TerminalTime) = s
  BY <1>7, <1>10
<1> QED BY <1>11 DEF s, x

\* The digit in front of n, whose place has the weight d, leaves less than d.
Leads(n, d) ==
    LET q == (n \div d) % 256
    IN  q \in 0 .. Base - 1 /\ n - q * d \in 0 .. d - 1

\* A digit is the quotient of what is left of the number, and fits its char.
LEMMA DigitOf ==
    ASSUME NEW n \in Nat, NEW d \in Nat \ {0}, n < Base * d
    PROVE  Leads(n, d)
<1> DEFINE q == n \div d
           r == n % d
<1>1. q \in Nat /\ r \in 0 .. d - 1 /\ n = d * q + r /\ Base \in 1 .. 256
  BY Divides, BaseAssumption
<1>2. q < Base
  <2> HIDE DEF q, r
  <2>1. q >= Base => d * (q - Base) >= 0 /\ d * (q - Base) = d * q - Base * d
    BY <1>1
  <2> QED BY <1>1, <2>1
<1>3. q % 256 = q
  <2> HIDE DEF q
  <2> QED BY <1>1, <1>2
<1> HIDE DEF q, r
<1>4. q * d = d * q
  BY <1>1
<1>5. n - q * d \in 0 .. d - 1
  BY <1>1, <1>4
<1> QED BY <1>1, <1>2, <1>3, <1>5 DEF q, Leads

\* Four digits show a number that has no more.
LEMMA PageShows ==
    ASSUME TypeOK, SysWorkTime.all_second < Base * Base * Base * Base
    PROVE  /\ \A d \in {Digit1, Digit2, Digit3, Digit4} : d \in 0 .. Base - 1
           /\ ((Digit1 * Base + Digit2) * Base + Digit3) * Base + Digit4 = SysWorkTime.all_second
<1> DEFINE n == SysWorkTime.all_second
           n1 == n - Digit1 * (Base * Base * Base)
           n2 == n1 - Digit2 * (Base * Base)
           n3 == n2 - Digit3 * Base
<1>1. n \in Nat /\ Base \in Nat \ {0}
  BY BaseAssumption DEF TypeOK, TimeWorkType
<1>2. Base * Base \in Nat \ {0}
  BY <1>1, DividesTwice DEF Nested
<1>3. Base * Base * Base \in Nat \ {0}
  BY <1>1, <1>2, DividesTwice DEF Nested
<1>4. /\ Base * (Base * Base) = Base * Base * Base
      /\ Base * (Base * Base * Base) = Base * Base * Base * Base
  BY <1>1, <1>2, <1>3
<1>5. Digit1 \in 0 .. Base - 1 /\ n1 \in 0 .. Base * Base * Base - 1
  <2>1. n < Base * (Base * Base * Base)
    BY <1>4
  <2>2. Leads(n, Base * Base * Base)
    BY <1>1, <1>3, <2>1, DigitOf, Zenon
  <2> QED BY <2>2 DEF Leads, Digit1
<1>6. Digit1 * Base * Base * Base = Digit1 * (Base * Base * Base)
  <2> HIDE DEF n
  <2> QED BY <1>1, <1>2, <1>5
<1>7. Digit2 = (n1 \div (Base * Base)) % 256
  BY <1>6 DEF Digit2
<1> HIDE DEF n1
<1>8. Digit2 \in 0 .. Base - 1 /\ n2 \in 0 .. Base * Base - 1
  <2>1. n1 \in Nat /\ n1 < Base * (Base * Base)
    BY <1>3, <1>4, <1>5
  <2>2. Leads(n1, Base * Base)
    BY <1>2, <2>1, DigitOf, Zenon
  <2> QED BY <1>7, <2>2 DEF Leads
<1>9. Digit2 * Base * Base = Digit2 * (Base * Base)
  BY <1>1, <1>8
<1>10. Digit3 = (n2 \div Base) % 256
  BY <1>6, <1>9 DEF Digit3, n1
<1> HIDE DEF n2
<1>11. Digit3 \in 0 .. Base - 1 /\ n3 \in 0 .. Base - 1
  <2>1. n2 \in Nat /\ n2 < Base * Base
    BY <1>2, <1>8 DEF n2
  <2>2. Leads(n2, Base)
    BY <1>1, <2>1, DigitOf, Zenon
  <2> QED BY <1>10, <2>2 DEF Leads
<1>12. Digit4 = n3 % 256
  BY <1>6, <1>9 DEF Digit4, n1, n2
<1> HIDE DEF n3
<1>13. Digit4 = n3
  BY <1>11, <1>12, BaseAssumption
<1>14. n1 = n - Digit1 * (Base * Base * Base) /\ n2 = n1 - Digit2 * (Base * Base) /\ n3 = n2 - Digit3 * Base
  BY DEF n1, n2, n3
<1> DEFINE d1 == Digit1
           d2 == Digit2
           d3 == Digit3
<1>15. d1 \in Nat /\ d2 \in Nat /\ d3 \in Nat
  BY <1>5, <1>8, <1>11
<1> HIDE DEF n, d1, d2, d3
<1>16. ((d1 * Base + d2) * Base + d3) * Base = d1 * (Base * Base * Base) + d2 * (Base * Base) + d3 * Base
  BY <1>1, <1>15
<1>17. n = d1 * (Base * Base * Base) + d2 * (Base * Base) + d3 * Base + n3
  BY <1>1, <1>5, <1>8, <1>11, <1>14 DEF d1, d2, d3
<1>18. ((Digit1 * Base + Digit2) * Base + Digit3) * Base + Digit4 = n
  BY <1>13, <1>16, <1>17 DEF d1, d2, d3
<1>19. Digit4 \in 0 .. Base - 1
  BY <1>11, <1>13
<1> QED BY <1>5, <1>8, <1>11, <1>18, <1>19 DEF n

\* A thread that has caught up is at most a second ahead of the tick count.
LEMMA CountsAgree ==
    ASSUME IInv, Fresh, pc = "blocked", xTickCount >= elapsed
    PROVE  SysWorkTime.all_second - (xTickCount \div Period) \in {0, 1}
<1> DEFINE n == SysWorkTime.all_second
           q == xTickCount \div Period
           r == xTickCount % Period
<1>1. n \in Nat /\ xTickCount \in Nat /\ elapsed \in Nat /\ Period \in Nat \ {0}
  BY TicksAssumption DEF IInv, TypeOK, TimeWorkType
<1>2. q \in Nat /\ r \in 0 .. Period - 1 /\ xTickCount = Period * q + r
  BY <1>1, Divides
<1>3. Period * n \in Nat /\ Period * n - Period <= elapsed /\ elapsed < Period * n
  BY <1>1, LateType DEF IInv, Paced, Late
<1>4. xTickCount <= elapsed + Period
  BY <1>1 DEF Fresh
<1> HIDE DEF n, q, r
<1>5. Period * (q - n) < Period
  <2>1. Period * (q - n) = Period * q - Period * n
    BY <1>1, <1>2
  <2> QED BY <1>1, <1>2, <1>3, <1>4, <2>1
<1>6. Period * (n - 1 - q) < Period
  <2>1. Period * (n - 1 - q) = Period * n - Period - Period * q
    BY <1>1, <1>2
  <2> QED BY <1>1, <1>2, <1>3, <2>1
<1>7. \A k \in Int : Period * k < Period => k < 1
  <2>1. ASSUME NEW k \in Int, k >= 1 PROVE Period * k >= Period
    BY <1>1, <2>1
  <2> QED BY <1>1, <2>1
<1>8. q - n < 1 /\ n - 1 - q < 1
  BY <1>1, <1>2, <1>5, <1>6, <1>7
<1> QED BY <1>1, <1>2, <1>8 DEF n, q

-----------------------------------------------------------------------------
\* Every field of SysWorkTime stays in its range, whatever the call count.
THEOREM TimeTypeCorrect == Spec => []TypeOK
<1>1. IInv => TypeOK
  BY DEF IInv
<1> QED BY <1>1, InitInv, StepInv, PTL DEF Spec

\* The calendar of update_time_work agrees with its total after any number
\* of calls.
THEOREM CalendarAgrees == Spec => []Calendar
<1>1. IInv => Calendar
  BY DEF IInv
<1> QED BY <1>1, InitInv, StepInv, PTL DEF Spec

\* vTaskDelayUntil paces system_thread without losing a second, also across
\* wraps of the tick count, while it is kept waiting less than a wrap.
THEOREM SecondsNotLost == Spec => []NoSecondLost
<1>1. IInv => NoSecondLost
  BY DEF IInv, Paced, NoSecondLost
<1> QED BY <1>1, InitInv, StepInv, PTL DEF Spec

\* system_thread never counts a second before it begins.
THEOREM SecondsNotEarly == Spec => []NeverAhead
<1>1. IInv => NeverAhead
  BY LateType, TicksAssumption DEF IInv, TypeOK, Paced, NeverAhead
<1> QED BY <1>1, InitInv, StepInv, PTL DEF Spec

\* The web page and the terminal show the same uptime, for every choice of
\* the units, until a display is full or the tick count wraps.
THEOREM DisplaysTheSame == Spec => []DisplaysAgree
<1>1. Init => Fresh
  BY DEF Init, Fresh
<1>2. IInv /\ Fresh /\ [Next]_vars => Fresh'
  BY FreshStays DEF IInv
<1>3. IInv /\ Fresh => DisplaysAgree
  <2> SUFFICES ASSUME IInv, Fresh, pc = "blocked", xTickCount >= elapsed,
                      SysWorkTime.all_second < Base * Base * Base * Base
               PROVE  /\ \A d \in {Digit1, Digit2, Digit3, Digit4} : d \in 0 .. Base - 1
                      /\ ((Digit1 * Base + Digit2) * Base + Digit3) * Base + Digit4
                           - Total(TerminalTime) \in {0, 1}
    BY DEF DisplaysAgree
  <2>1. TypeOK
    BY DEF IInv
  <2>2. Total(TerminalTime) = xTickCount \div Period
    BY <2>1, TerminalShows
  <2>3. SysWorkTime.all_second - (xTickCount \div Period) \in {0, 1}
    BY CountsAgree
  <2>4. /\ \A d \in {Digit1, Digit2, Digit3, Digit4} : d \in 0 .. Base - 1
        /\ ((Digit1 * Base + Digit2) * Base + Digit3) * Base + Digit4 = SysWorkTime.all_second
    BY <2>1, PageShows
  <2> DEFINE high == ((Digit1 * Base + Digit2) * Base + Digit3) * Base
             shown == Total(TerminalTime)
  <2>5. high \in Int /\ Digit4 \in Int /\ shown \in Int
    <3>1. Digit1 \in Int /\ Digit2 \in Int /\ Digit3 \in Int /\ Digit4 \in Int /\ Base \in Int
      BY <2>4, BaseAssumption
    <3> HIDE DEF shown
    <3>2. xTickCount \div Period \in Int
      BY <2>1, TicksAssumption DEF TypeOK
    <3> QED BY <2>2, <3>1, <3>2 DEF shown
  <2>6. high + Digit4 = SysWorkTime.all_second
    BY <2>4
  <2> HIDE DEF high, shown
  <2>7. high + (Digit4 - shown) \in {0, 1}
    BY <2>2, <2>3, <2>5, <2>6 DEF shown
  <2> QED BY <2>4, <2>7 DEF high, shown
<1> QED BY <1>1, <1>2, <1>3, InitInv, StepInv, PTL DEF Spec
=============================================================================
