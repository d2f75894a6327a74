---------------------------- MODULE ConsoleProofs ---------------------------
(***************************************************************************)
(* For every size of the ring and of the queue and every length of a line: *)
(* characters are read in order, only a lap lets the terminal run a line   *)
(* nobody typed, every command is accounted for, and only a flood or an    *)
(* early command is dropped.                                               *)
(***************************************************************************)
EXTENDS Console, SequenceTheorems, TLAPS

-----------------------------------------------------------------------------
(* The ring.                                                               *)

\* The first unread place: the character at rd is read before rd moves.
Base == IF term = "advance" THEN NextSlot(rd) ELSE rd

\* What the indices say is unread, and where its k-th character is.
Unread == IF wr >= Base THEN wr - Base ELSE wr - Base + Size
SlotAt(k) == IF Base + k >= Size THEN Base + k - Size ELSE Base + k

\* The character read last, 0 before the first.
LastRead == IF took = <<>> THEN 0 ELSE took[Len(took)]

\* The unread part of the ring holds the characters typed last.
HoldsLast ==
  /\ Unread <= typed
  /\ \A k \in 0 .. Unread - 1 : buf[SlotAt(k)] = typed - Unread + 1 + k

\* The reader has not got beyond them, and not behind them without a lap.
ReaderBehind ==
  /\ LastRead <= typed - Unread
  /\ ~lapped => Unread = typed - Len(took)

RingInv == HoldsLast /\ ReaderBehind /\ ReadInOrder

-----------------------------------------------------------------------------
(* The lines.                                                              *)

\* The line that is open began with a character that was read.
OpenLine ==
  word # <<>> => word[1] \in 1 .. LastRead

\* Without a lap it is all of its line, as far as it was read.
WholeSoFar ==
  ~lapped /\ word # <<>> =>
    /\ Len(word) = PosOf(Len(took)) /\ Len(word) < LineLen
    /\ \A i \in DOMAIN word : word[i] = word[1] + i - 1
    /\ word[1] + Len(word) - 1 = Len(took)

LineInv == OpenLine /\ WholeSoFar /\ OnlyTyped

-----------------------------------------------------------------------------
(* The commands.                                                           *)

\* The commands of s began, one after the other, before the line that is open.
Before(s) ==
  /\ \A i \in 1 .. Len(s) :
       /\ s[i][1] \in Nat /\ s[i][1] <= LastRead
       /\ word # <<>> => s[i][1] < word[1]
  /\ \A i \in 2 .. Len(s) : s[i][1] > s[i - 1][1]

CommandInv == Accounted /\ Before(sent) /\ Before(dropped)

\* There are not more commands than lines, and never more unfinished than
\* flood tells.
CountInv ==
  /\ Len(called) <= (IF word = <<>> THEN LastRead ELSE word[1] - 1) \div LineLen
  /\ flood \/ Unfinished(typed) <= QueueLen
  /\ DropNeedsFlood

IInv == TypeOK /\ RingInv /\ LineInv /\ CommandInv /\ CountInv

-----------------------------------------------------------------------------
(* Division by the length of a line.                                       *)

\* Quotient and remainder.
LEMMA DivMod ==
  ASSUME NEW L \in Nat \ {0}, NEW n \in Nat
  PROVE  n \div L \in Nat /\ n % L \in 0 .. L - 1 /\ n = L * (n \div L) + (n % L)
OBVIOUS

LEMMA DivMonotonic ==
  ASSUME NEW L \in Nat \ {0}, NEW m \in Nat, NEW n \in Nat, m <= n
  PROVE  m \div L <= n \div L
BY DivMod

LEMMA DivUnique ==
  ASSUME NEW L \in Nat \ {0},
         NEW q \in Int, NEW r \in 0 .. L - 1, NEW p \in Int, NEW s \in 0 .. L - 1,
         L * q + r = L * p + s
  PROVE  q = p /\ r = s
OBVIOUS

\* Counting one on: the remainder wraps, and the quotient grows when it does.
LEMMA DivNext ==
  ASSUME NEW L \in Nat \ {0}, NEW n \in Nat
  PROVE  /\ n % L < L - 1 => (n + 1) % L = (n % L) + 1 /\ (n + 1) \div L = n \div L
         /\ n % L = L - 1 => (n + 1) % L = 0 /\ (n + 1) \div L = n \div L + 1
<1> DEFINE m == n + 1
           q == n \div L
           r == n % L
           p == m \div L
           s == m % L
<1>1. q \in Nat /\ r \in 0 .. L - 1 /\ n = L * q + r
  BY DivMod
<1>2. m \in Nat /\ m = n + 1
  OBVIOUS
<1> HIDE DEF m
<1>3. p \in Nat /\ s \in 0 .. L - 1 /\ m = L * p + s
  BY <1>2, DivMod
<1> HIDE DEF q, r, p, s
<1>4. r < L - 1 => p = q /\ s = r + 1
  <2> SUFFICES ASSUME r < L - 1 PROVE p = q /\ s = r + 1
    OBVIOUS
  <2>1. L * p + s = L * q + (r + 1) /\ r + 1 \in 0 .. L - 1
    BY <1>1, <1>2, <1>3
  <2> QED BY <1>1, <1>3, <2>1, DivUnique
<1>5. r = L - 1 => p = q + 1 /\ s = 0
  <2> SUFFICES ASSUME r = L - 1 PROVE p = q + 1 /\ s = 0
    OBVIOUS
  <2>1. L * (q + 1) = L * q + L
    BY <1>1
  <2>2. L * p + s = L * (q + 1) + 0
    BY <1>1, <1>2, <1>3, <2>1
  <2> QED BY <1>1, <1>3, <2>2, DivUnique
<1> QED BY <1>4, <1>5 DEF m, q, r, p, s

\* A character that ends no line is followed by the next of its line; one that
\* ends a line is followed by a first one, and adds a line.
LEMMA Positions ==
  ASSUME NEW n \in Nat \ {0}
  PROVE  /\ PosOf(n) \in 1 .. LineLen
         /\ PosOf(n) # LineLen =>
              PosOf(n + 1) = PosOf(n) + 1 /\ n \div LineLen = (n - 1) \div LineLen
         /\ PosOf(n) = LineLen =>
              PosOf(n + 1) = 1 /\ n \div LineLen = (n - 1) \div LineLen + 1
<1>1. LineLen \in Nat \ {0} /\ n - 1 \in Nat /\ (n - 1) + 1 = n /\ (n + 1) - 1 = n
  BY LineAssumption
<1>2. (n - 1) % LineLen \in 0 .. LineLen - 1
  BY <1>1, DivMod
<1>3. /\ (n - 1) % LineLen < LineLen - 1 =>
           n % LineLen = ((n - 1) % LineLen) + 1 /\ n \div LineLen = (n - 1) \div LineLen
      /\ (n - 1) % LineLen = LineLen - 1 =>
           n % LineLen = 0 /\ n \div LineLen = (n - 1) \div LineLen + 1
  BY <1>1, DivNext
<1> QED BY <1>1, <1>2, <1>3 DEF PosOf

-----------------------------------------------------------------------------
(* Types.                                                                  *)

\* The sizes are numbers and the places are those of the ring.
LEMMA Sizes ==
  /\ Size \in Nat /\ Size >= 2 /\ QueueLen \in Nat /\ QueueLen >= 1
  /\ LineLen \in Nat /\ LineLen >= 2 /\ MaxTyped \in Nat
  /\ 0 \in Slots /\ \A i \in Slots : i \in 0 .. Size - 1 /\ NextSlot(i) \in Slots
BY SizeAssumption, QueueAssumption, LineAssumption DEF Slots, NextSlot

LEMMA InitType == Init => TypeOK
BY Sizes DEF Init, TypeOK

\* What SendCmdBox does, without the reason.
Taken(w) ==
  /\ Len(queue) < QueueLen
  /\ queue' = Append(queue, w) /\ sent' = Append(sent, w) /\ dropped' = dropped

Dropped(w) ==
  /\ dropped' = Append(dropped, w) /\ queue' = queue /\ sent' = sent

LEMMA SendCases ==
  ASSUME NEW w, SendCmdBox(w)
  PROVE  Taken(w) \/ Dropped(w)
BY Zenon DEF SendCmdBox, Taken, Dropped

\* A command of characters goes to the queue, if there is room, or is dropped.
LEMMA SendType ==
  ASSUME TypeOK, NEW w \in Seq(Nat), SendCmdBox(w)
  PROVE  /\ {queue', sent', dropped'} \subseteq Seq(Seq(Nat))
         /\ Len(queue') <= QueueLen
<1>1. {queue, sent, dropped} \subseteq Seq(Seq(Nat)) /\ Len(queue) <= QueueLen
  BY DEF TypeOK
<1>2. CASE Taken(w)
  BY <1>1, <1>2, Sizes DEF Taken
<1>3. CASE Dropped(w)
  BY <1>1, <1>3 DEF Dropped
<1> QED BY <1>2, <1>3, SendCases

LEMMA LineEndsType ==
  ASSUME TypeOK, NEW w \in Seq(Nat), LineEnds(w)
  PROVE  /\ {called', queue', sent', dropped'} \subseteq Seq(Seq(Nat))
         /\ Len(queue') <= QueueLen
         /\ early' \in BOOLEAN
<1>1. {called', queue', sent', dropped'} \subseteq Seq(Seq(Nat)) /\ Len(queue') <= QueueLen
  <2>1. {called, queue, sent, dropped} \subseteq Seq(Seq(Nat)) /\ Len(queue) <= QueueLen
    BY DEF TypeOK
  <2>2. CASE called' = Append(called, w) /\ SendCmdBox(w)
    BY <2>1, <2>2, SendType
  <2>3. CASE UNCHANGED <<called, early, sent, dropped, queue>>
    BY <2>1, <2>3
  <2> QED BY <2>2, <2>3, Zenon DEF LineEnds
<1>2. early' \in BOOLEAN
  BY Zenon DEF LineEnds, TypeOK
<1> QED BY <1>1, <1>2

LEMMA ProcessType == TypeOK /\ Process => TypeOK'
<1> SUFFICES ASSUME TypeOK, Process PROVE TypeOK'
  OBVIOUS
<1> DEFINE ch == buf[rd]
<1>1. ch \in Nat
  BY Sizes DEF TypeOK
<1>2. /\ term' = "advance" /\ UNCHANGED <<buf, wr, rd, typed, lapped, flood, made, timer, note, flash, cmd, done>>
      /\ took' \in Seq(Nat)
  BY <1>1 DEF Process, TypeOK, ring, task
<1>3. word' \in Seq(Nat)
  BY <1>1 DEF Process, TypeOK
<1>4. /\ {called', queue', sent', dropped'} \subseteq Seq(Seq(Nat))
      /\ Len(queue') <= QueueLen
      /\ early' \in BOOLEAN
  <2>1. word \in Seq(Nat) /\ Append(word, ch) \in Seq(Nat)
    BY <1>1 DEF TypeOK
  <2>2. LineEnds(word) \/ LineEnds(Append(word, ch)) \/ UNCHANGED <<called, early, sent, dropped, queue>>
    BY DEF Process
  <2>3. CASE LineEnds(word)
    BY <2>1, <2>3, LineEndsType
  <2>4. CASE LineEnds(Append(word, ch))
    BY <2>1, <2>4, LineEndsType
  <2>5. CASE UNCHANGED <<called, early, sent, dropped, queue>>
    BY <2>5 DEF TypeOK
  <2> QED BY <2>2, <2>3, <2>4, <2>5
<1> QED BY <1>2, <1>3, <1>4 DEF TypeOK

LEMMA NextType == TypeOK /\ [Next]_vars => TypeOK'
<1> SUFFICES ASSUME TypeOK, [Next]_vars PROVE TypeOK'
  OBVIOUS
<1> USE DEF TypeOK, ring, reader, task
<1>1. CASE RxIrq
  BY <1>1, Sizes DEF RxIrq
<1>2. CASE PollStarts
  BY <1>2 DEF PollStarts
<1>3. CASE PollEnds
  BY <1>3 DEF PollEnds
<1>4. CASE Process
  BY <1>4, ProcessType
<1>5. CASE Advance
  BY <1>5, Sizes DEF Advance
<1>6. CASE FlashStarts
  BY <1>6 DEF FlashStarts
<1>7. CASE TimerFires
  BY <1>7 DEF TimerFires
<1>8. CASE FlashIdle
  BY <1>8 DEF FlashIdle
<1>9. CASE FlashTakes
  <2>1. queue # <<>> /\ queue \in Seq(Seq(Nat)) /\ Len(queue) <= QueueLen
    BY <1>9 DEF FlashTakes
  <2>2. Head(queue) \in Seq(Nat) /\ Tail(queue) \in Seq(Seq(Nat)) /\ Len(Tail(queue)) <= QueueLen
    BY <2>1, Sizes, HeadTailProperties, LenProperties
  <2> QED BY <1>9, <2>2 DEF FlashTakes
<1>10. CASE FlashDone
  BY <1>10 DEF FlashDone
<1>11. CASE UNCHANGED vars
  BY <1>11 DEF vars
<1> QED
  BY <1>1, <1>2, <1>3, <1>4, <1>5, <1>6, <1>7, <1>8, <1>9, <1>10, <1>11
  DEF Next, Terminal, Flash

-----------------------------------------------------------------------------
(* Reading in order.                                                       *)

LEMMA InitRing == Init => RingInv
BY Sizes DEF Init, RingInv, HoldsLast, ReaderBehind, ReadInOrder, Unread, Base, LastRead

\* The indices tell of less than a whole ring, and wr is the first place that
\* is not unread.
LEMMA Places ==
  ASSUME TypeOK
  PROVE  /\ Base \in Slots /\ Unread \in 0 .. Size - 1 /\ SlotAt(Unread) = wr
         /\ \A k \in 0 .. Size - 1 : SlotAt(k) \in Slots
         /\ \A k \in 0 .. Unread - 1 : SlotAt(k) # wr
<1>1. /\ Size \in Nat /\ Size >= 2 /\ Slots = 0 .. Size - 1 /\ wr \in Slots /\ Base \in Slots
  BY Sizes DEF TypeOK, Slots, Base
<1>2. Unread \in 0 .. Size - 1
  BY <1>1 DEF Unread
<1>3. SlotAt(Unread) = wr
  BY <1>1 DEF Unread, SlotAt
<1>4. \A k \in 0 .. Size - 1 : SlotAt(k) \in Slots
  BY <1>1 DEF SlotAt
<1>5. \A k \in 0 .. Unread - 1 : SlotAt(k) # wr
  BY <1>1 DEF Unread, SlotAt
<1> QED BY <1>1, <1>2, <1>3, <1>4, <1>5

\* A step that leaves ring and reader alone.
LEMMA RingStutter ==
  ASSUME RingInv, Base' = Base, UNCHANGED <<buf, wr, typed, lapped, took>>
  PROVE  RingInv'
BY DEF RingInv, HoldsLast, ReaderBehind, ReadInOrder, Unread, SlotAt, LastRead

LEMMA RxRing == TypeOK /\ RingInv /\ RxIrq => RingInv'
<1> SUFFICES ASSUME TypeOK, RingInv, RxIrq PROVE RingInv'
  OBVIOUS
<1>1. /\ typed \in Nat /\ typed' = typed + 1 /\ took' = took /\ wr' = NextSlot(wr)
      /\ buf' = [buf EXCEPT ![wr] = typed'] /\ buf \in [Slots -> Nat]
      /\ Base' = Base /\ took \in Seq(Nat) /\ Len(took) \in Nat
  <2>1. /\ typed' = typed + 1 /\ wr' = NextSlot(wr) /\ buf' = [buf EXCEPT ![wr] = typed']
        /\ took' = took /\ rd' = rd /\ term' = term
    BY DEF RxIrq, reader
  <2>2. typed \in Nat /\ buf \in [Slots -> Nat] /\ took \in Seq(Nat)
    BY DEF TypeOK
  <2>3. Len(took) \in Nat
    BY <2>2
  <2>4. Base' = Base
    BY <2>1 DEF Base
  <2> QED BY <2>1, <2>2, <2>3, <2>4
<1>2. wr \in Slots /\ Base \in Slots
  BY Places DEF TypeOK
<1>3. LastRead' = LastRead /\ LastRead <= typed - Unread /\ LastRead \in Nat
  BY <1>1 DEF LastRead, RingInv, ReaderBehind
<1>4. Unread' = IF Unread = Size - 1 THEN 0 ELSE Unread + 1
  BY <1>1, <1>2, Sizes DEF Unread, NextSlot, Slots
<1>5. HoldsLast'
  <2>1. CASE Unread = Size - 1
    BY <1>1, <1>4, <2>1 DEF HoldsLast
  <2>2. CASE Unread # Size - 1
    <3>1. Unread' = Unread + 1 /\ Unread' <= typed'
      BY <1>1, <1>4, <2>2, Places DEF RingInv, HoldsLast
    <3>2. ASSUME NEW k \in 0 .. Unread' - 1
          PROVE  buf'[SlotAt(k)'] = typed' - Unread' + 1 + k
      <4>1. SlotAt(k)' = SlotAt(k)
        BY <1>1 DEF SlotAt
      <4>2. CASE k = Unread
        BY <1>1, <1>2, <3>1, <4>1, <4>2, Places
      <4>3. CASE k # Unread
        <5>0. Unread \in 0 .. Size - 1
          BY Places
        <5>1. k \in 0 .. Unread - 1 /\ k \in 0 .. Size - 1
          BY <3>1, <4>3, <5>0, Sizes
        <5>2. SlotAt(k) \in Slots /\ SlotAt(k) # wr
          BY <5>1, Places
        <5>3. buf[SlotAt(k)] = typed - Unread + 1 + k
          BY <5>1 DEF RingInv, HoldsLast
        <5> QED BY <1>1, <1>2, <3>1, <4>1, <5>2, <5>3, Places
      <4> QED BY <4>2, <4>3
    <3> QED BY <3>1, <3>2 DEF HoldsLast
  <2> QED BY <2>1, <2>2
<1>6. ReaderBehind'
  <2>1. LastRead' <= typed' - Unread'
    <3>1. Unread \in 0 .. Size - 1 /\ Size \in Nat
      BY Places, Sizes
    <3>2. Unread' <= Unread + 1 /\ Unread' \in Nat /\ typed' = typed + 1
      BY <1>1, <1>4, <3>1
    <3>3. typed \in Nat /\ Unread \in Nat /\ LastRead \in Nat /\ LastRead <= typed - Unread
      BY <1>1, <1>3, <3>1
    <3>4. LastRead <= (typed + 1) - Unread'
      <4>1. ASSUME NEW l \in Nat, NEW t \in Nat, NEW u \in Nat, NEW v \in Nat,
                   l <= t - u, v <= u + 1
            PROVE  l <= (t + 1) - v
        BY ONLY <4>1
      <4> QED BY <3>2, <3>3, <4>1
    <3> QED BY <1>3, <3>2, <3>4
  <2>2. lapped' <=> lapped \/ typed' - Len(took) >= Size
    BY Zenon DEF RxIrq
  <2>3. ~lapped => Unread = typed - Len(took)
    BY DEF RingInv, ReaderBehind
  <2>4. typed - Len(took) = Size - 1 => typed' - Len(took) >= Size
    BY <1>1, Sizes
  <2>5. ~lapped' => ~lapped /\ typed - Len(took) # Size - 1
    BY <2>2, <2>4
  <2>6. ~lapped' => Unread' = typed' - Len(took)
    BY <1>1, <1>4, <2>3, <2>5, Places
  <2> QED BY <1>1, <2>1, <2>6 DEF ReaderBehind
<1>7. ReadInOrder'
  <2>1. lapped => lapped'
    BY Zenon DEF RxIrq
  <2> QED BY <1>1, <2>1 DEF RingInv, ReadInOrder
<1> QED BY <1>5, <1>6, <1>7 DEF RingInv

\* The character that is read is the oldest unread one.
LEMMA Oldest ==
  ASSUME TypeOK, RingInv, Process
  PROVE  /\ Unread >= 1 /\ Unread \in Nat /\ Base = rd
         /\ buf[rd] = typed - Unread + 1 /\ buf[rd] \in Nat
         /\ LastRead \in Nat /\ buf[rd] > LastRead
         /\ took \in Seq(Nat) /\ took' = Append(took, buf[rd]) /\ LastRead' = buf[rd]
         /\ ~lapped => buf[rd] = Len(took) + 1
<1>1. term = "check" /\ wr # rd /\ took' = Append(took, buf[rd])
  BY DEF Process
<1>2. Base = rd /\ SlotAt(0) = rd /\ Unread \in Nat /\ Unread >= 1
  <2>1. Base = rd /\ wr \in 0 .. Size - 1 /\ rd \in 0 .. Size - 1
    BY <1>1, Sizes DEF Base, TypeOK
  <2> QED BY <1>1, <2>1, Sizes DEF SlotAt, Unread
<1>3. buf[rd] = typed - Unread + 1
  <2>1. \A k \in 0 .. Unread - 1 : buf[SlotAt(k)] = typed - Unread + 1 + k
    BY DEF RingInv, HoldsLast
  <2>2. typed \in Nat /\ 0 \in 0 .. Unread - 1
    BY <1>2 DEF TypeOK
  <2>3. buf[SlotAt(0)] = typed - Unread + 1 + 0
    BY <2>1, <2>2
  <2> QED BY <1>2, <2>2, <2>3
<1>4. buf[rd] \in Nat /\ took \in Seq(Nat) /\ Len(took) \in Nat /\ typed \in Nat
  BY DEF TypeOK
<1>5. LastRead \in Nat
  BY <1>4 DEF LastRead
<1>6. LastRead <= typed - Unread /\ (~lapped => Unread = typed - Len(took))
  BY DEF RingInv, ReaderBehind
<1>7. LastRead' = buf[rd]
  BY <1>1, <1>4 DEF LastRead
<1>8. ~lapped => buf[rd] = Len(took) + 1
  BY <1>2, <1>3, <1>4, <1>6
<1> QED BY <1>1, <1>2, <1>3, <1>4, <1>5, <1>6, <1>7, <1>8

\* What Append does.
LEMMA Appended ==
  ASSUME NEW S, NEW s \in Seq(S), NEW e \in S
  PROVE  /\ Append(s, e) \in Seq(S) /\ Append(s, e) # <<>>
         /\ Len(s) \in Nat /\ Len(Append(s, e)) = Len(s) + 1
         /\ \A i \in 1 .. Len(s) : Append(s, e)[i] = s[i]
         /\ Append(s, e)[Len(s) + 1] = e
         /\ DOMAIN s = 1 .. Len(s) /\ DOMAIN Append(s, e) = 1 .. Len(s) + 1
OBVIOUS

\* It leaves the first element, if there is one.
LEMMA FirstKept ==
  ASSUME NEW S, NEW s \in Seq(S), NEW e \in S, s # <<>>
  PROVE  Append(s, e) # <<>> /\ Append(s, e)[1] = s[1] /\ Len(s) \in Nat \ {0}
<1>1. Len(s) \in Nat \ {0}
  BY EmptySeq
<1> QED BY <1>1, Appended

LEMMA ProcessRing == TypeOK /\ RingInv /\ Process => RingInv'
<1> SUFFICES ASSUME TypeOK, RingInv, Process PROVE RingInv'
  OBVIOUS
<1> DEFINE ch == buf[rd]
<1>1. /\ term' = "advance" /\ UNCHANGED <<buf, wr, rd, typed, lapped>>
      /\ Len(took) \in Nat /\ typed \in Nat
  BY DEF Process, TypeOK, ring
<1>2. /\ Base' = NextSlot(Base) /\ Unread' = Unread - 1
      /\ \A k \in 0 .. Unread' - 1 : SlotAt(k)' = SlotAt(k + 1)
  <2>1. term = "check" /\ wr # rd /\ wr \in 0 .. Size - 1 /\ rd \in 0 .. Size - 1
    BY Sizes DEF Process, TypeOK
  <2>2. Base = rd /\ Base' = NextSlot(rd)
    BY <1>1, <2>1 DEF Base
  <2>3. Unread' = Unread - 1 /\ Unread \in 1 .. Size - 1
    BY <1>1, <2>1, <2>2, Sizes DEF Unread, NextSlot
  <2>4. ASSUME NEW k \in 0 .. Unread' - 1
        PROVE  SlotAt(k)' = SlotAt(k + 1)
    BY <2>1, <2>2, <2>3, Sizes DEF SlotAt, NextSlot
  <2> QED BY <2>2, <2>3, <2>4
<1>3. HoldsLast'
  <2>1. Unread' <= typed'
    BY <1>1, <1>2, Oldest DEF RingInv, HoldsLast
  <2>2. ASSUME NEW k \in 0 .. Unread' - 1
        PROVE  buf'[SlotAt(k)'] = typed' - Unread' + 1 + k
    <3>1. k + 1 \in 0 .. Unread - 1
      BY <1>2, Oldest
    <3>2. buf[SlotAt(k + 1)] = typed - Unread + 1 + (k + 1)
      BY <3>1 DEF RingInv, HoldsLast
    <3>3. buf'[SlotAt(k)'] = buf[SlotAt(k + 1)]
      BY <1>1, <1>2
    <3>4. typed' = typed /\ Unread' = Unread - 1 /\ Unread \in Nat /\ typed \in Nat
      BY <1>1, <1>2, Oldest
    <3> QED BY <3>2, <3>3, <3>4
  <2> QED BY <2>1, <2>2 DEF HoldsLast
<1>4. /\ Len(took') = Len(took) + 1 /\ took'[Len(took) + 1] = ch
      /\ \A i \in 1 .. Len(took) : took'[i] = took[i]
      /\ DOMAIN took = 1 .. Len(took) /\ DOMAIN took' = 1 .. Len(took) + 1
  <2>1. took' = Append(took, ch) /\ took \in Seq(Nat) /\ ch \in Nat
    BY Oldest
  <2> QED BY <2>1, Appended
<1>5. ReaderBehind'
  <2>1. LastRead' <= typed' - Unread'
    BY <1>1, <1>2, Oldest
  <2>2. ~lapped => Unread = typed - Len(took)
    BY DEF RingInv, ReaderBehind
  <2>3. ~lapped' => Unread' = typed' - Len(took')
    BY <1>1, <1>2, <1>4, <2>2, Oldest
  <2> QED BY <2>1, <2>3 DEF ReaderBehind
<1>6. ReadInOrder'
  <2>1. \A i \in 2 .. Len(took') : took'[i] > took'[i - 1]
    <3> SUFFICES ASSUME NEW i \in 2 .. Len(took') PROVE took'[i] > took'[i - 1]
      OBVIOUS
    <3>1. CASE i = Len(took')
      <4>1. took'[i] = ch /\ took'[i - 1] = took[Len(took)]
        BY <1>1, <1>4, <3>1
      <4>2. took[Len(took)] = LastRead
        BY <1>1, <1>4, <3>1 DEF LastRead
      <4> QED BY <4>1, <4>2, Oldest
    <3>2. CASE i # Len(took')
      <4>1. i \in 2 .. Len(took) /\ took[i] > took[i - 1]
        BY <1>1, <1>4, <3>2 DEF RingInv, ReadInOrder
      <4>2. took'[i] = took[i] /\ took'[i - 1] = took[i - 1]
        BY <1>1, <1>4, <4>1
      <4> QED BY <4>1, <4>2
    <3> QED BY <3>1, <3>2
  <2>2. ~lapped => \A i \in DOMAIN took' : took'[i] = i
    <3> SUFFICES ASSUME ~lapped, NEW i \in DOMAIN took' PROVE took'[i] = i
      OBVIOUS
    <3>1. \A j \in DOMAIN took : took[j] = j
      BY DEF RingInv, ReadInOrder
    <3>2. CASE i = Len(took) + 1
      BY <1>4, <3>2, Oldest
    <3>3. CASE i # Len(took) + 1
      BY <1>1, <1>4, <3>1, <3>3
    <3> QED BY <3>2, <3>3
  <2> QED BY <1>1, <2>1, <2>2 DEF ReadInOrder
<1> QED BY <1>3, <1>5, <1>6 DEF RingInv

LEMMA NextRing == TypeOK /\ RingInv /\ [Next]_vars => RingInv'
<1> SUFFICES ASSUME TypeOK, RingInv, [Next]_vars PROVE RingInv'
  OBVIOUS
<1>1. CASE RxIrq
  BY <1>1, RxRing
<1>2. CASE PollStarts
  BY <1>2, RingStutter DEF PollStarts, ring, Base
<1>3. CASE PollEnds
  BY <1>3, RingStutter DEF PollEnds, ring, Base
<1>4. CASE Process
  BY <1>4, ProcessRing
<1>5. CASE Advance
  BY <1>5, RingStutter DEF Advance, Base
<1>6. CASE TimerFires \/ Flash \/ UNCHANGED vars
  BY <1>6, RingStutter
  DEF TimerFires, Flash, FlashStarts, FlashIdle, FlashTakes, FlashDone, vars, ring, reader, Base
<1> QED BY <1>1, <1>2, <1>3, <1>4, <1>5, <1>6 DEF Next, Terminal

-----------------------------------------------------------------------------
(* Lines as they were typed.                                               *)

\* What a character can be to the line: its first, one in the middle, its end,
\* or none of a line that is open.
Quiet == UNCHANGED <<called, early, sent, dropped, queue>>

IsFirst(ch) ==
  /\ PosOf(ch) = 1 /\ word' = <<ch>>
  /\ (word # <<>> /\ LineEnds(word)) \/ Quiet

IsMiddle(ch) ==
  /\ PosOf(ch) # 1 /\ PosOf(ch) # LineLen /\ word # <<>> /\ word' = Append(word, ch)
  /\ Quiet

IsLast(ch) ==
  /\ PosOf(ch) = LineLen /\ word # <<>> /\ word' = <<>>
  /\ LineEnds(Append(word, ch))

IsSkipped == word = <<>> /\ word' = <<>> /\ Quiet

LEMMA ProcessCases ==
  ASSUME Process
  PROVE  IsFirst(buf[rd]) \/ IsMiddle(buf[rd]) \/ IsLast(buf[rd]) \/ IsSkipped
<1> DEFINE ch == buf[rd]
<1>1. LineLen # 1
  BY Sizes
<1>2. /\ word' = IF PosOf(ch) = 1 THEN <<ch>>
                 ELSE IF PosOf(ch) = LineLen \/ word = <<>> THEN <<>> ELSE Append(word, ch)
      /\ CASE word # <<>> /\ PosOf(ch) = 1 -> LineEnds(word)
           [] word # <<>> /\ PosOf(ch) = LineLen -> LineEnds(Append(word, ch))
           [] OTHER -> Quiet
  BY DEF Process, Quiet
<1> HIDE DEF ch
<1>3. ASSUME PosOf(ch) = 1 PROVE IsFirst(ch)
  <2>1. word' = <<ch>>
    BY <1>1, <1>2, <1>3
  <2>2. word # <<>> => LineEnds(word)
    BY <1>1, <1>2, <1>3
  <2>3. word = <<>> => Quiet
    BY <1>1, <1>2, <1>3
  <2> QED BY <1>3, <2>1, <2>2, <2>3 DEF IsFirst
<1>4. ASSUME PosOf(ch) # 1, word = <<>> PROVE IsSkipped
  BY <1>2, <1>4 DEF IsSkipped
<1>5. ASSUME PosOf(ch) = LineLen, word # <<>> PROVE IsLast(ch)
  BY <1>1, <1>2, <1>5 DEF IsLast
<1>6. ASSUME PosOf(ch) # 1, PosOf(ch) # LineLen, word # <<>> PROVE IsMiddle(ch)
  BY <1>2, <1>6 DEF IsMiddle
<1> QED BY <1>3, <1>4, <1>5, <1>6 DEF ch

LEMMA InitLine == Init => LineInv
BY DEF Init, LineInv, OpenLine, WholeSoFar, OnlyTyped

LEMMA LineStutter ==
  ASSUME LineInv, UNCHANGED <<word, took, called>>, lapped => lapped'
  PROVE  LineInv'
BY DEF LineInv, OpenLine, WholeSoFar, OnlyTyped, LastRead

LEMMA ProcessLine == TypeOK /\ RingInv /\ LineInv /\ Process => LineInv'
<1> SUFFICES ASSUME TypeOK, RingInv, LineInv, Process PROVE LineInv'
  OBVIOUS
<1> DEFINE ch == buf[rd]
           n == Len(took)
<1>1. /\ ch \in Nat /\ LastRead \in Nat /\ ch > LastRead /\ LastRead' = ch
      /\ ~lapped => ch = n + 1
  BY Oldest
<1>2. n \in Nat /\ Len(took') = n + 1 /\ lapped' = lapped
  <2>1. took' = Append(took, ch) /\ took \in Seq(Nat)
    BY Oldest
  <2> QED BY <1>1, <2>1, Appended DEF Process, ring
<1>3. /\ word \in Seq(Nat) /\ called \in Seq(Seq(Nat)) /\ Append(word, ch) \in Seq(Nat)
      /\ LineLen \in Nat /\ LineLen >= 2
  <2>1. word \in Seq(Nat) /\ called \in Seq(Seq(Nat)) /\ LineLen \in Nat /\ LineLen >= 2
    BY Sizes DEF TypeOK
  <2> QED BY <1>1, <2>1, Appended
<1>5. word # <<>> => word[1] \in 1 .. LastRead
  BY DEF LineInv, OpenLine
<1>4. word # <<>> => n >= 1
  <2>1. word # <<>> => took # <<>>
    BY <1>5 DEF LastRead
  <2>2. took \in Seq(Nat)
    BY DEF TypeOK
  <2> QED BY <2>1, <2>2
<1>6. ~lapped /\ word # <<>> =>
        /\ Len(word) = PosOf(n) /\ Len(word) < LineLen
        /\ \A i \in DOMAIN word : word[i] = word[1] + i - 1
        /\ word[1] + Len(word) - 1 = n
        /\ PosOf(n + 1) = Len(word) + 1
  <2> SUFFICES ASSUME ~lapped, word # <<>> PROVE PosOf(n + 1) = Len(word) + 1
    BY DEF LineInv, WholeSoFar
  <2>1. Len(word) = PosOf(n) /\ Len(word) < LineLen
    BY DEF LineInv, WholeSoFar
  <2>2. n \in Nat \ {0}
    BY <1>2, <1>4
  <2> QED BY <1>3, <2>1, <2>2, Positions
<1> HIDE DEF ch, n
<1>7. ASSUME word # <<>>
      PROVE  /\ Len(word) \in Nat \ {0} /\ Len(Append(word, ch)) = Len(word) + 1
             /\ Append(word, ch) # <<>> /\ Append(word, ch)[1] = word[1]
             /\ \A i \in 1 .. Len(word) : Append(word, ch)[i] = word[i]
             /\ Append(word, ch)[Len(word) + 1] = ch
             /\ DOMAIN word = 1 .. Len(word) /\ DOMAIN Append(word, ch) = 1 .. Len(word) + 1
             /\ word[1] \in Nat
  <2>1. word \in Seq(Nat) /\ ch \in Nat
    BY <1>1, <1>3
  <2>2. /\ Len(word) \in Nat \ {0}
        /\ Append(word, ch) # <<>> /\ Append(word, ch)[1] = word[1]
    BY <1>7, <2>1, FirstKept
  <2>3. /\ Len(Append(word, ch)) = Len(word) + 1
        /\ \A i \in 1 .. Len(word) : Append(word, ch)[i] = word[i]
        /\ Append(word, ch)[Len(word) + 1] = ch
        /\ DOMAIN word = 1 .. Len(word) /\ DOMAIN Append(word, ch) = 1 .. Len(word) + 1
    BY <2>1, Appended
  <2>4. word[1] \in Nat
    BY <1>1, <1>5, <1>7
  <2> QED BY <2>2, <2>3, <2>4
<1>8. ~lapped /\ word # <<>> =>
        \A i \in DOMAIN Append(word, ch) : Append(word, ch)[i] = Append(word, ch)[1] + i - 1
  <2> SUFFICES ASSUME ~lapped, word # <<>>, NEW i \in DOMAIN Append(word, ch)
               PROVE  Append(word, ch)[i] = word[1] + i - 1
    BY <1>7
  <2>1. CASE i = Len(word) + 1
    <3>1. ch = n + 1 /\ n = word[1] + Len(word) - 1
      BY <1>1, <1>6
    <3>2. Append(word, ch)[i] = ch /\ Len(word) \in Nat /\ word[1] \in Nat
      BY <1>7, <2>1
    <3> QED BY <2>1, <3>1, <3>2
  <2>2. CASE i # Len(word) + 1
    BY <1>6, <1>7, <2>2
  <2> QED BY <2>1, <2>2
<1>9. IsFirst(ch) \/ IsMiddle(ch) \/ IsLast(ch) \/ IsSkipped
  BY ProcessCases DEF ch
<1>10. OpenLine'
  <2>1. CASE word' = <<>>
    BY <2>1 DEF OpenLine
  <2>2. CASE word' = <<ch>>
    BY <1>1, <2>2 DEF OpenLine
  <2>3. CASE word # <<>> /\ word' = Append(word, ch)
    BY <1>1, <1>5, <1>7, <2>3 DEF OpenLine
  <2> QED BY <1>9, <2>1, <2>2, <2>3 DEF IsFirst, IsMiddle, IsLast, IsSkipped
<1>11. WholeSoFar'
  <2> SUFFICES ASSUME ~lapped PROVE WholeSoFar'
    BY <1>2 DEF WholeSoFar
  <2>1. CASE word' = <<>>
    BY <2>1 DEF WholeSoFar
  <2>2. CASE word' = <<ch>> /\ PosOf(ch) = 1
    BY <1>1, <1>2, <1>3, <2>2 DEF WholeSoFar
  <2>3. CASE word # <<>> /\ word' = Append(word, ch) /\ PosOf(ch) # LineLen
    <3>1. Len(word') = PosOf(Len(took')) /\ Len(word') < LineLen
      BY <1>1, <1>2, <1>3, <1>6, <1>7, <2>3
    <3>2. \A i \in DOMAIN word' : word'[i] = word'[1] + i - 1
      BY <1>8, <2>3
    <3>3. word'[1] + Len(word') - 1 = Len(took')
      BY <1>2, <1>6, <1>7, <2>3
    <3> QED BY <3>1, <3>2, <3>3 DEF WholeSoFar
  <2> QED BY <1>9, <2>1, <2>2, <2>3 DEF IsFirst, IsMiddle, IsLast, IsSkipped
<1>12. OnlyTyped'
  <2> SUFFICES ASSUME ~lapped, NEW i \in DOMAIN called' PROVE AsTyped(called'[i])
    BY <1>2 DEF OnlyTyped
  <2>1. CASE called' = called
    BY <2>1 DEF LineInv, OnlyTyped
  <2>2. ASSUME NEW w \in Seq(Nat), called' = Append(called, w), AsTyped(w)
        PROVE  AsTyped(called'[i])
    <3>1. /\ DOMAIN called = 1 .. Len(called) /\ DOMAIN called' = 1 .. Len(called) + 1
          /\ \A j \in 1 .. Len(called) : called'[j] = called[j]
          /\ called'[Len(called) + 1] = w /\ Len(called) \in Nat
      BY <1>3, <2>2, Appended
    <3>2. CASE i = Len(called) + 1
      BY <2>2, <3>1, <3>2
    <3>3. CASE i # Len(called) + 1
      <4>1. i \in DOMAIN called /\ called'[i] = called[i]
        BY <3>1, <3>3
      <4> QED BY <4>1 DEF LineInv, OnlyTyped
    <3> QED BY <3>2, <3>3
  <2>3. CASE IsFirst(ch)
    <3>1. ~(word # <<>> /\ PosOf(ch) = 1)
      BY <1>1, <1>6, <1>7
    <3> QED BY <2>1, <2>3, <3>1 DEF IsFirst, Quiet
  <2>4. CASE IsLast(ch)
    <3>1. AsTyped(Append(word, ch))
      <4>1. Len(Append(word, ch)) = LineLen
        BY <1>1, <1>6, <1>7, <2>4 DEF IsLast
      <4> QED BY <1>8, <2>4, <4>1 DEF IsLast, AsTyped
    <3> QED BY <1>3, <2>2, <2>4, <3>1 DEF IsLast, LineEnds
  <2> QED BY <1>9, <2>1, <2>3, <2>4 DEF IsMiddle, IsSkipped, Quiet
<1> QED BY <1>10, <1>11, <1>12 DEF LineInv

LEMMA NextLine == TypeOK /\ RingInv /\ LineInv /\ [Next]_vars => LineInv'
<1> SUFFICES ASSUME TypeOK, RingInv, LineInv, [Next]_vars PROVE LineInv'
  OBVIOUS
<1>1. CASE RxIrq
  <2>1. lapped => lapped'
    BY <1>1, Zenon DEF RxIrq
  <2> QED BY <1>1, <2>1, LineStutter DEF RxIrq, reader
<1>2. CASE Process
  BY <1>2, ProcessLine
<1>3. CASE PollStarts \/ PollEnds \/ Advance
  BY <1>3, LineStutter DEF PollStarts, PollEnds, Advance, ring
<1>4. CASE TimerFires \/ Flash \/ UNCHANGED vars
  BY <1>4, LineStutter
  DEF TimerFires, Flash, FlashStarts, FlashIdle, FlashTakes, FlashDone, vars, ring, reader
<1> QED BY <1>1, <1>2, <1>3, <1>4 DEF Next, Terminal

-----------------------------------------------------------------------------
(* Every command accounted for.                                            *)

\* The command under way, if there is one.
UnderWay == IF flash = "run" THEN <<cmd>> ELSE <<>>

\* What was read went one of two ways.
Split ==
  /\ sent = done \o UnderWay \o queue
  /\ Len(called) = Len(sent) + Len(dropped)

\* Appending to a concatenation appends to its second part.
LEMMA ConcatAppend ==
  ASSUME NEW S, NEW s \in Seq(S), NEW t \in Seq(S), NEW e \in S
  PROVE  s \o Append(t, e) = Append(s \o t, e)
<1> DEFINE u == s \o Append(t, e)
           v == Append(s \o t, e)
<1>1. Append(t, e) \in Seq(S) /\ s \o t \in Seq(S)
  BY Appended, ConcatProperties
<1>2. /\ Len(s) \in Nat /\ Len(t) \in Nat /\ Len(s \o t) = Len(s) + Len(t)
      /\ Len(Append(t, e)) = Len(t) + 1
  BY <1>1, Appended, ConcatProperties
<1>3. u \in Seq(S) /\ v \in Seq(S) /\ Len(u) = Len(v) /\ Len(v) = Len(s) + Len(t) + 1
  BY <1>1, <1>2, Appended, ConcatProperties
<1>4. ASSUME NEW i \in 1 .. Len(u) PROVE u[i] = v[i]
  <2>1. u[i] = IF i <= Len(s) THEN s[i] ELSE Append(t, e)[i - Len(s)]
    <3>1. i \in 1 .. Len(s) + Len(Append(t, e))
      BY <1>2, <1>3
    <3> HIDE DEF v
    <3>2. \A j \in 1 .. Len(s) + Len(Append(t, e)) :
            u[j] = IF j <= Len(s) THEN s[j] ELSE Append(t, e)[j - Len(s)]
      BY <1>1, ConcatProperties
    <3> QED BY <3>1, <3>2
  <2>2. CASE i = Len(u)
    <3>1. v[i] = e
      BY <1>1, <1>2, <1>3, <2>2, Appended
    <3>2. i - Len(s) = Len(t) + 1 /\ ~(i <= Len(s))
      BY <1>2, <1>3, <2>2
    <3> QED BY <2>1, <3>1, <3>2, Appended
  <2>3. CASE i # Len(u)
    <3>1. i \in 1 .. Len(s) + Len(t)
      BY <1>2, <1>3, <2>3
    <3>2. v[i] = (s \o t)[i]
      BY <1>1, <1>2, <3>1, Appended
    <3>3. v[i] = IF i <= Len(s) THEN s[i] ELSE t[i - Len(s)]
      BY <3>1, <3>2, ConcatProperties
    <3>4. ~(i <= Len(s)) => i - Len(s) \in 1 .. Len(t)
      BY <1>2, <3>1
    <3> QED BY <2>1, <3>3, <3>4, Appended
  <2> QED BY <2>2, <2>3
<1> HIDE DEF u, v
<1>5. u = v
  BY <1>3, <1>4, SeqEqual
<1> QED BY <1>5 DEF u, v

LEMMA InitCommand == Init => CommandInv
BY DEF Init, CommandInv, Accounted, Before

\* Accounted says no more than Split, and an order that Before keeps.
LEMMA SplitOf ==
  ASSUME CommandInv
  PROVE  Split /\ Before(sent) /\ Before(dropped)
BY DEF CommandInv, Accounted, Split, UnderWay

\* What a line that ends does to the counts and to the sequences.
LEMMA LineEndsCases ==
  ASSUME NEW w, LineEnds(w)
  PROVE  \/ called' = Append(called, w) /\ (Taken(w) \/ Dropped(w))
         \/ UNCHANGED <<called, sent, dropped, queue>>
BY SendCases, Zenon DEF LineEnds

LEMMA ProcessSplit == TypeOK /\ RingInv /\ Split /\ Process => Split'
<1> SUFFICES ASSUME TypeOK, RingInv, Split, Process PROVE Split'
  OBVIOUS
<1> DEFINE ch == buf[rd]
<1>1. done' = done /\ UnderWay' = UnderWay
  BY DEF Process, task, UnderWay
<1>2. /\ {called, sent, dropped, done, queue, UnderWay} \subseteq Seq(Seq(Nat))
      /\ word \in Seq(Nat) /\ Append(word, ch) \in Seq(Nat)
  <2>1. ch \in Nat
    BY Oldest
  <2> QED BY <2>1 DEF TypeOK, UnderWay
<1>3. ASSUME NEW w \in Seq(Nat), called' = Append(called, w), Taken(w)
      PROVE  Split'
  <2>1. done \o UnderWay \in Seq(Seq(Nat))
    BY <1>2
  <2>2. (done \o UnderWay) \o Append(queue, w) = Append((done \o UnderWay) \o queue, w)
    <3> DEFINE d == done \o UnderWay
               C == Seq(Nat)
    <3>1. d \in Seq(C) /\ queue \in Seq(C) /\ w \in C
      BY <1>2, <2>1
    <3> HIDE DEF d, C
    <3>2. d \o Append(queue, w) = Append(d \o queue, w)
      BY <3>1, ConcatAppend
    <3> QED BY <3>2 DEF d
  <2>3. sent' = done' \o UnderWay' \o queue'
    BY <1>1, <1>3, <2>2 DEF Split, Taken
  <2>4. Len(called') = Len(sent') + Len(dropped')
    <3>1. /\ Len(called') = Len(called) + 1 /\ Len(sent') = Len(sent) + 1
          /\ Len(called) \in Nat /\ Len(sent) \in Nat /\ Len(dropped) \in Nat
      BY <1>2, <1>3, Appended DEF Taken
    <3> QED BY <1>3, <3>1 DEF Split, Taken
  <2> QED BY <2>3, <2>4 DEF Split
<1>4. ASSUME NEW w \in Seq(Nat), called' = Append(called, w), Dropped(w)
      PROVE  Split'
  BY <1>1, <1>2, <1>4, Appended DEF Split, Dropped
<1>5. CASE UNCHANGED <<called, sent, dropped, queue>>
  BY <1>1, <1>5 DEF Split
<1>6. ASSUME NEW w \in Seq(Nat), LineEnds(w)
      PROVE  Split'
  BY <1>3, <1>4, <1>5, <1>6, LineEndsCases
<1> QED BY <1>2, <1>5, <1>6, ProcessCases DEF IsFirst, IsMiddle, IsLast, IsSkipped, Quiet

\* The order of a sequence survives a character, and a command added to it.
LEMMA BeforeKept ==
  ASSUME TypeOK, RingInv, LineInv, Process, NEW s \in Seq(Seq(Nat)), Before(s)
  PROVE  /\ \A i \in 1 .. Len(s) :
              /\ s[i][1] \in Nat /\ s[i][1] <= LastRead'
              /\ word' # <<>> => s[i][1] < word'[1]
         /\ \A i \in 2 .. Len(s) : s[i][1] > s[i - 1][1]
<1> DEFINE ch == buf[rd]
<1>1. ch \in Nat /\ LastRead \in Nat /\ ch > LastRead /\ LastRead' = ch
  BY Oldest
<1>2. \A i \in 2 .. Len(s) : s[i][1] > s[i - 1][1]
  BY DEF Before
<1> SUFFICES ASSUME NEW i \in 1 .. Len(s)
             PROVE  /\ s[i][1] \in Nat /\ s[i][1] <= LastRead'
                    /\ word' # <<>> => s[i][1] < word'[1]
  BY <1>2
<1>3. /\ s[i][1] \in Nat /\ s[i][1] <= LastRead
      /\ word # <<>> => s[i][1] < word[1]
  BY DEF Before
<1>8. s[i][1] \in Nat /\ s[i][1] < ch /\ s[i][1] <= ch
  <2>1. PICK x : x = s[i][1]
    OBVIOUS
  <2>2. PICK y : y = LastRead
    OBVIOUS
  <2>3. PICK z : z = ch
    OBVIOUS
  <2>4. x \in Nat /\ x <= y /\ y \in Nat /\ z \in Nat /\ z > y
    BY <1>1, <1>3, <2>1, <2>2, <2>3
  <2>5. x \in Nat /\ x < z /\ x <= z
    BY ONLY <2>4
  <2> QED BY <2>1, <2>3, <2>5
<1>4. CASE word' = <<>>
  BY <1>1, <1>4, <1>8
<1>5. CASE word' = <<ch>>
  <2>1. word'[1] = ch
    BY <1>5
  <2> QED BY <1>1, <1>8, <2>1
<1>6. CASE word # <<>> /\ word' = Append(word, ch)
  <2>1. word \in Seq(Nat) /\ ch \in Nat
    BY <1>1 DEF TypeOK
  <2>2. word'[1] = word[1]
    BY <1>6, <2>1, FirstKept
  <2>3. s[i][1] < word'[1]
    BY <1>3, <1>6, <2>2
  <2> QED BY <1>1, <1>8, <2>3
<1> HIDE DEF ch
<1>7. IsFirst(ch) \/ IsMiddle(ch) \/ IsLast(ch) \/ IsSkipped
  BY ProcessCases DEF ch
<1> QED BY <1>4, <1>5, <1>6, <1>7 DEF IsFirst, IsMiddle, IsLast, IsSkipped

\* The line that ends began after all that began before it.
LEMMA BeforeAdded ==
  ASSUME TypeOK, RingInv, LineInv, Process, NEW s \in Seq(Seq(Nat)), Before(s),
         NEW w \in Seq(Nat), word # <<>>, w[1] = word[1],
         word' = <<>> \/ word' = <<buf[rd]>>
  PROVE  LET t == Append(s, w)
         IN /\ \A i \in 1 .. Len(t) :
                 /\ t[i][1] \in Nat /\ t[i][1] <= LastRead'
                 /\ word' # <<>> => t[i][1] < word'[1]
            /\ \A i \in 2 .. Len(t) : t[i][1] > t[i - 1][1]
<1> DEFINE t == Append(s, w)
           ch == buf[rd]
<1>1. ch \in Nat /\ LastRead \in Nat /\ ch > LastRead /\ LastRead' = ch
  BY Oldest
<1>2. w[1] \in 1 .. LastRead
  BY DEF LineInv, OpenLine
<1>3. /\ Len(s) \in Nat /\ Len(t) = Len(s) + 1 /\ t[Len(s) + 1] = w
      /\ \A i \in 1 .. Len(s) : t[i] = s[i]
  BY Appended
<1> HIDE DEF t, ch
<1>4. ASSUME NEW i \in 1 .. Len(t)
      PROVE  /\ t[i][1] \in Nat /\ t[i][1] <= LastRead'
             /\ word' # <<>> => t[i][1] < word'[1]
  <2>1. CASE i = Len(s) + 1
    <3>1. t[i][1] = w[1]
      BY <1>3, <2>1
    <3>2. word' # <<>> => word'[1] = ch
      BY DEF ch
    <3> QED BY <1>1, <1>2, <3>1, <3>2
  <2>2. CASE i # Len(s) + 1
    <3>1. i \in 1 .. Len(s) /\ t[i] = s[i]
      BY <1>3, <2>2
    <3> QED BY <3>1, BeforeKept
  <2> QED BY <2>1, <2>2
<1>5. ASSUME NEW i \in 2 .. Len(t)
      PROVE  t[i][1] > t[i - 1][1]
  <2>1. CASE i = Len(s) + 1
    <3>1. t[i] = w /\ i - 1 \in 1 .. Len(s) /\ t[i - 1] = s[i - 1]
      BY <1>3, <2>1
    <3>2. s[i - 1][1] \in Nat /\ s[i - 1][1] < word[1]
      BY <3>1 DEF Before
    <3> QED BY <1>2, <3>1, <3>2
  <2>2. CASE i # Len(s) + 1
    <3>1. i \in 2 .. Len(s) /\ i - 1 \in 1 .. Len(s) /\ t[i] = s[i] /\ t[i - 1] = s[i - 1]
      <4>1. i \in 2 .. Len(s) /\ i - 1 \in 1 .. Len(s) /\ i \in 1 .. Len(s)
        BY <1>3, <2>2
      <4> QED BY <1>3, <4>1
    <3> QED BY <3>1 DEF Before
  <2> QED BY <2>1, <2>2
<1> QED BY <1>4, <1>5 DEF t

\* A sequence that stays, or takes the line that ends, keeps its order.
LEMMA ProcessBefore ==
  ASSUME TypeOK, RingInv, LineInv, CommandInv, Process
  PROVE  Before(sent)' /\ Before(dropped)'
<1> DEFINE ch == buf[rd]
<1>1. /\ ch \in Nat /\ word \in Seq(Nat) /\ Append(word, ch) \in Seq(Nat)
      /\ sent \in Seq(Seq(Nat)) /\ dropped \in Seq(Seq(Nat))
  <2>1. ch \in Nat
    BY Oldest
  <2> QED BY <2>1 DEF TypeOK
<1>2. Before(sent) /\ Before(dropped)
  BY SplitOf
<1>3. sent' = sent => Before(sent)'
  BY <1>1, <1>2, BeforeKept DEF Before
<1>4. dropped' = dropped => Before(dropped)'
  BY <1>1, <1>2, BeforeKept DEF Before
<1>5. ASSUME NEW w \in Seq(Nat), word # <<>>, w[1] = word[1], LineEnds(w),
             word' = <<>> \/ word' = <<ch>>
      PROVE  Before(sent)' /\ Before(dropped)'
  <2>1. CASE Taken(w)
    <3>1. Before(sent)'
      BY <1>1, <1>2, <1>5, <2>1, BeforeAdded DEF Taken, Before
    <3> QED BY <1>4, <2>1, <3>1 DEF Taken
  <2>2. CASE Dropped(w)
    <3>1. Before(dropped)'
      BY <1>1, <1>2, <1>5, <2>2, BeforeAdded DEF Dropped, Before
    <3> QED BY <1>3, <2>2, <3>1 DEF Dropped
  <2>3. CASE UNCHANGED <<called, sent, dropped, queue>>
    BY <1>3, <1>4, <2>3
  <2> QED BY <1>5, <2>1, <2>2, <2>3, LineEndsCases
<1>6. word # <<>> => Append(word, ch)[1] = word[1]
  BY <1>1, FirstKept
<1>7. IsFirst(ch) \/ IsMiddle(ch) \/ IsLast(ch) \/ IsSkipped
  BY ProcessCases
<1> HIDE DEF ch
<1>8. CASE Quiet
  BY <1>3, <1>4, <1>8 DEF Quiet
<1>9. CASE word # <<>> /\ word' = <<ch>> /\ LineEnds(word)
  BY <1>1, <1>5, <1>9
<1>10. CASE word # <<>> /\ word' = <<>> /\ LineEnds(Append(word, ch))
  BY <1>1, <1>5, <1>6, <1>10
<1> QED BY <1>7, <1>8, <1>9, <1>10 DEF IsFirst, IsMiddle, IsLast, IsSkipped

\* The steps of the flash move a command from the queue to done.
LEMMA TakesSplit == TypeOK /\ Split /\ FlashTakes => Split'
<1> SUFFICES ASSUME TypeOK, Split, FlashTakes PROVE Split'
  OBVIOUS
<1> DEFINE C == Seq(Nat)
           h == Head(queue)
           t == Tail(queue)
<1>1. done \in Seq(C) /\ queue \in Seq(C) /\ queue # <<>>
  BY DEF TypeOK, FlashTakes
<1>2. UnderWay = <<>> /\ UnderWay' = <<h>> /\ queue' = t
      /\ UNCHANGED <<done, sent, called, dropped>>
  BY DEF FlashTakes, UnderWay, reader
<1> HIDE DEF C
<1>3. h \in C /\ t \in Seq(C) /\ Len(queue) \in Nat \ {0} /\ Len(t) = Len(queue) - 1
      /\ \A i \in 1 .. Len(t) : t[i] = queue[i + 1]
  BY <1>1, HeadTailProperties, EmptySeq
<1>4. h = queue[1]
  BY <1>1
<1> HIDE DEF h, t
<1>5. <<h>> \in Seq(C) /\ Len(<<h>>) = 1 /\ <<h>>[1] = h
  BY <1>3
<1>6. <<h>> \o t = queue
  <2> DEFINE u == <<h>> \o t
  <2>1. u \in Seq(C) /\ Len(u) = Len(queue)
    BY <1>3, <1>5, ConcatProperties
  <2>2. \A i \in 1 .. 1 + Len(t) : u[i] = IF i <= 1 THEN <<h>>[i] ELSE t[i - 1]
    BY <1>3, <1>5, ConcatProperties
  <2> HIDE DEF u
  <2>3. ASSUME NEW i \in 1 .. Len(u) PROVE u[i] = queue[i]
    <3>1. CASE i = 1
      BY <1>3, <1>4, <1>5, <2>2, <3>1
    <3>2. CASE i # 1
      <4>1. i - 1 \in 1 .. Len(t) /\ i \in 1 .. 1 + Len(t)
        BY <1>3, <2>1, <3>2
      <4>2. t[i - 1] = queue[(i - 1) + 1]
        BY <1>3, <4>1
      <4> QED BY <2>2, <3>2, <4>1, <4>2
    <3> QED BY <3>1, <3>2
  <2>4. u = queue
    BY <1>1, <2>1, <2>3, SeqEqual
  <2> QED BY <2>4 DEF u
<1>7. done \o <<>> \o queue = done \o <<h>> \o t
  <2>1. done \o <<>> = done
    BY <1>1, ConcatEmptySeq
  <2>2. (done \o <<h>>) \o t = done \o (<<h>> \o t)
    BY <1>1, <1>3, <1>5, ConcatAssociative
  <2> QED BY <1>6, <2>1, <2>2
<1> QED BY <1>2, <1>7 DEF Split

LEMMA DoneSplit == TypeOK /\ Split /\ FlashDone => Split'
<1> SUFFICES ASSUME TypeOK, Split, FlashDone PROVE Split'
  OBVIOUS
<1> DEFINE C == Seq(Nat)
           e == Append(done, cmd)
<1>1. done \in Seq(C) /\ queue \in Seq(C) /\ cmd \in C
  BY DEF TypeOK
<1>2. UnderWay = <<cmd>> /\ UnderWay' = <<>> /\ done' = e
      /\ UNCHANGED <<queue, sent, called, dropped>>
  BY DEF FlashDone, UnderWay, reader
<1> HIDE DEF C
<1>3. e = done \o <<cmd>> /\ e \in Seq(C)
  <2>1. done \o Append(<<>>, cmd) = Append(done \o <<>>, cmd)
    BY <1>1, EmptySeq, ConcatAppend
  <2>2. Append(<<>>, cmd) = <<cmd>> /\ done \o <<>> = done
    BY <1>1, ConcatEmptySeq
  <2> QED BY <1>1, <2>1, <2>2, Appended
<1>4. e \o <<>> = e
  BY <1>3, ConcatEmptySeq
<1> HIDE DEF e
<1> QED BY <1>2, <1>3, <1>4 DEF Split

LEMMA CommandStutter ==
  ASSUME CommandInv,
         UNCHANGED <<sent, dropped, called, done, queue, word, took>>, UnderWay' = UnderWay
  PROVE  CommandInv'
BY DEF CommandInv, Accounted, Before, LastRead, UnderWay

LEMMA NextCommand ==
  TypeOK /\ RingInv /\ LineInv /\ CommandInv /\ [Next]_vars => CommandInv'
<1> SUFFICES ASSUME TypeOK, RingInv, LineInv, CommandInv, [Next]_vars PROVE CommandInv'
  OBVIOUS
<1>1. Split /\ Before(sent) /\ Before(dropped)
  BY SplitOf
<1>2. UNCHANGED <<sent, dropped, word, took>> => Before(sent)' /\ Before(dropped)'
  BY <1>1 DEF Before, LastRead
<1>3. CASE Process
  <2>1. Split'
    BY <1>1, <1>3, ProcessSplit
  <2>2. Before(sent)' /\ Before(dropped)'
    BY <1>3, ProcessBefore
  <2> QED BY <2>1, <2>2 DEF Split, Before, CommandInv, Accounted, UnderWay
<1>4. CASE FlashTakes
  <2>1. Split'
    BY <1>1, <1>4, TakesSplit
  <2>2. Before(sent)' /\ Before(dropped)'
    BY <1>2, <1>4 DEF FlashTakes, reader
  <2> QED BY <2>1, <2>2 DEF Split, Before, CommandInv, Accounted, UnderWay
<1>5. CASE FlashDone
  <2>1. Split'
    BY <1>1, <1>5, DoneSplit
  <2>2. Before(sent)' /\ Before(dropped)'
    BY <1>2, <1>5 DEF FlashDone, reader
  <2> QED BY <2>1, <2>2 DEF Split, Before, CommandInv, Accounted, UnderWay
<1>6. CASE RxIrq \/ PollStarts \/ PollEnds \/ Advance
  BY <1>6, CommandStutter DEF RxIrq, PollStarts, PollEnds, Advance, ring, reader, task, UnderWay
<1>7. CASE FlashStarts \/ TimerFires \/ FlashIdle \/ UNCHANGED vars
  BY <1>7, CommandStutter
  DEF FlashStarts, TimerFires, FlashIdle, vars, ring, reader, task, UnderWay
<1> QED BY <1>3, <1>4, <1>5, <1>6, <1>7 DEF Next, Terminal, Flash

-----------------------------------------------------------------------------
(* What is dropped.                                                        *)

\* The last character of the lines that may have been commands.
Covered == IF word = <<>> THEN LastRead ELSE word[1] - 1

LEMMA InitCount == Init => CountInv
<1> SUFFICES ASSUME Init PROVE CountInv
  OBVIOUS
<1>1. 0 \div LineLen \in Nat /\ 0 \div LineLen <= 0
  <2>1. LineLen \in Nat \ {0}
    BY Sizes
  <2>2. 0 \div LineLen \in Nat /\ 0 % LineLen \in 0 .. LineLen - 1 /\ 0 = LineLen * (0 \div LineLen) + (0 % LineLen)
    BY <2>1, DivMod
  <2>3. LineLen * (0 \div LineLen) >= 0 \div LineLen
    BY <2>1, <2>2
  <2> QED BY <2>1, <2>2, <2>3
<1> QED BY <1>1, Sizes DEF Init, CountInv, LastRead, Unfinished, DropNeedsFlood

\* A line that ends with this character was not counted yet.
LEMMA OneMoreLine ==
  ASSUME TypeOK, RingInv, LineInv, CountInv, Process, word # <<>>
  PROVE  /\ PosOf(buf[rd]) = LineLen => Len(called) + 1 <= buf[rd] \div LineLen
         /\ PosOf(buf[rd]) = 1 => Len(called) + 1 <= (buf[rd] - 1) \div LineLen
         /\ (buf[rd] - 1) \div LineLen <= typed \div LineLen
         /\ buf[rd] \div LineLen <= typed \div LineLen
<1> DEFINE ch == buf[rd]
           w == word[1]
<1>1. /\ ch \in Nat /\ LastRead \in Nat /\ ch > LastRead /\ typed \in Nat /\ ch <= typed
      /\ w \in 1 .. LastRead /\ LineLen \in Nat \ {0} /\ LineLen # 1
      /\ Len(called) \in Nat
  <2>1. typed \in Nat /\ called \in Seq(Seq(Nat))
    BY DEF TypeOK
  <2> QED BY <2>1, Oldest, Sizes DEF LineInv, OpenLine
<1>2. Len(called) <= (w - 1) \div LineLen
  BY DEF CountInv
<1> HIDE DEF ch, w
<1>3. ch - 1 \in Nat \ {0} /\ ch \in Nat \ {0} /\ ch - 2 \in Nat /\ w - 1 \in Nat
      /\ w - 1 <= ch - 2 /\ w - 1 <= ch - 1 /\ ch - 1 <= typed
  BY <1>1
<1>4. /\ (w - 1) \div LineLen <= (ch - 2) \div LineLen
      /\ (w - 1) \div LineLen <= (ch - 1) \div LineLen
      /\ (ch - 1) \div LineLen <= typed \div LineLen
      /\ ch \div LineLen <= typed \div LineLen
      /\ (w - 1) \div LineLen \in Nat /\ (ch - 1) \div LineLen \in Nat /\ (ch - 2) \div LineLen \in Nat
  BY <1>1, <1>3, DivMonotonic, DivMod
<1>5. PosOf(ch) = LineLen => ch \div LineLen = (ch - 1) \div LineLen + 1
  BY <1>3, Positions
<1>6. PosOf(ch) = 1 => (ch - 1) \div LineLen = (ch - 2) \div LineLen + 1
  <2>1. (ch - 1) + 1 = ch /\ (ch - 1) - 1 = ch - 2
    BY <1>1
  <2>2. PosOf(ch - 1) \in 1 .. LineLen /\ (PosOf(ch - 1) # LineLen => PosOf(ch) = PosOf(ch - 1) + 1)
    BY <1>3, <2>1, Positions
  <2>3. PosOf(ch) = 1 => PosOf(ch - 1) = LineLen
    BY <2>2
  <2> QED BY <1>3, <2>1, <2>3, Positions
<1>7. PosOf(ch) = LineLen => Len(called) + 1 <= ch \div LineLen
  BY <1>1, <1>2, <1>4, <1>5
<1>8. PosOf(ch) = 1 => Len(called) + 1 <= (ch - 1) \div LineLen
  BY <1>1, <1>2, <1>4, <1>6
<1> QED BY <1>4, <1>7, <1>8 DEF ch, w

\* A command finds the queue full only in a flood.
LEMMA FullInFlood ==
  ASSUME TypeOK, CommandInv, CountInv, Len(queue) >= QueueLen, Len(called) + 1 <= typed \div LineLen
  PROVE  flood
<1>1. done \in Seq(Seq(Nat)) /\ queue \in Seq(Seq(Nat)) /\ UnderWay \in Seq(Seq(Nat))
      /\ dropped \in Seq(Seq(Nat)) /\ called \in Seq(Seq(Nat))
  BY DEF TypeOK, UnderWay
<1>2. sent = (done \o UnderWay) \o queue /\ Len(called) = Len(sent) + Len(dropped)
  BY SplitOf DEF Split
<1>3. Len(sent) = Len(done) + Len(UnderWay) + Len(queue)
  <2> DEFINE C == Seq(Nat)
  <2>1. done \in Seq(C) /\ queue \in Seq(C) /\ UnderWay \in Seq(C)
    BY <1>1
  <2> HIDE DEF C
  <2>2. done \o UnderWay \in Seq(C) /\ Len(done \o UnderWay) = Len(done) + Len(UnderWay)
    BY <2>1, ConcatProperties
  <2>3. Len((done \o UnderWay) \o queue) = Len(done \o UnderWay) + Len(queue)
    BY <2>1, <2>2, ConcatProperties
  <2> QED BY <1>2, <2>2, <2>3
<1>4. /\ Len(done) \in Nat /\ Len(queue) \in Nat /\ Len(UnderWay) \in Nat
      /\ Len(dropped) \in Nat /\ Len(called) \in Nat
  BY <1>1
<1>5. typed \div LineLen \in Nat
  <2>1. typed \in Nat /\ LineLen \in Nat \ {0}
    BY Sizes DEF TypeOK
  <2> QED BY <2>1, DivMod
<1>6. Unfinished(typed) > QueueLen
  BY <1>2, <1>3, <1>4, <1>5, Sizes DEF Unfinished
<1>7. flood \/ Unfinished(typed) <= QueueLen
  BY DEF CountInv
<1>8. Unfinished(typed) \in Int
  BY <1>4, <1>5 DEF Unfinished
<1> QED BY <1>6, <1>7, <1>8, Sizes

\* A command that does not get a place had none, or came before the queue.
LEMMA DropCases ==
  ASSUME NEW w, LineEnds(w)
  PROVE  \/ called' = Append(called, w) /\ Taken(w)
         \/ /\ called' = Append(called, w) /\ Dropped(w)
            /\ early' \/ ~(Len(queue) < QueueLen)
         \/ UNCHANGED <<called, early, sent, dropped, queue>>
BY Zenon DEF LineEnds, SendCmdBox, Taken, Dropped

LEMMA ProcessCount ==
  ASSUME TypeOK, RingInv, LineInv, CommandInv, CountInv, Process
  PROVE  CountInv'
<1> DEFINE ch == buf[rd]
<1>1. /\ ch \in Nat /\ LastRead \in Nat /\ ch > LastRead /\ LastRead' = ch
      /\ word \in Seq(Nat) /\ Append(word, ch) \in Seq(Nat)
      /\ called \in Seq(Seq(Nat)) /\ dropped \in Seq(Seq(Nat)) /\ done \in Seq(Seq(Nat))
      /\ queue \in Seq(Seq(Nat))
      /\ Len(called) \in Nat /\ Len(dropped) \in Nat /\ Len(done) \in Nat /\ Len(queue) \in Nat
      /\ UNCHANGED <<typed, flood, done>>
  <2>1. ch \in Nat /\ LastRead \in Nat /\ ch > LastRead /\ LastRead' = ch
    BY Oldest
  <2>2. /\ word \in Seq(Nat) /\ called \in Seq(Seq(Nat)) /\ dropped \in Seq(Seq(Nat))
        /\ done \in Seq(Seq(Nat)) /\ queue \in Seq(Seq(Nat))
    BY DEF TypeOK
  <2>3. Append(word, ch) \in Seq(Nat)
    BY <2>1, <2>2, Appended
  <2>4. UNCHANGED <<typed, flood, done>>
    BY DEF Process, ring, task
  <2>5. Len(called) \in Nat /\ Len(dropped) \in Nat /\ Len(done) \in Nat /\ Len(queue) \in Nat
    BY <2>2
  <2> QED BY <2>1, <2>2, <2>3, <2>4, <2>5
<1>2. LineLen \in Nat \ {0} /\ typed \in Nat /\ typed \div LineLen \in Nat /\ QueueLen \in Nat
  <2>1. LineLen \in Nat \ {0} /\ typed \in Nat
    BY Sizes DEF TypeOK
  <2> QED BY <2>1, DivMod, Sizes
<1>3. /\ Len(called) <= Covered \div LineLen
      /\ flood \/ Unfinished(typed) <= QueueLen
      /\ dropped # <<>> => flood \/ early
  <2>1. Len(called) <= Covered \div LineLen
    BY Zenon DEF CountInv, Covered
  <2>2. flood \/ Unfinished(typed) <= QueueLen
    BY Zenon DEF CountInv
  <2>3. dropped # <<>> => flood \/ early
    BY Zenon DEF CountInv, DropNeedsFlood
  <2> QED BY <2>1, <2>2, <2>3
<1>4. IsFirst(ch) \/ IsMiddle(ch) \/ IsLast(ch) \/ IsSkipped
  BY ProcessCases
<1>5. Covered \in Nat /\ Covered <= ch - 1 /\ Covered <= ch /\ ch - 1 \in Nat
  <2>1. word # <<>> => word[1] \in 1 .. LastRead
    BY DEF LineInv, OpenLine
  <2>2. Covered = LastRead \/ (word # <<>> /\ Covered = word[1] - 1)
    BY DEF Covered
  <2> HIDE DEF ch
  <2> QED BY <1>1, <2>1, <2>2
<1>6. /\ Covered \div LineLen <= (ch - 1) \div LineLen
      /\ Covered \div LineLen <= ch \div LineLen
      /\ Covered \div LineLen \in Nat /\ ch \div LineLen \in Nat /\ (ch - 1) \div LineLen \in Nat
  BY <1>1, <1>2, <1>5, DivMonotonic, DivMod
<1>7. word # <<>> =>
        /\ PosOf(ch) = LineLen => Len(called) + 1 <= ch \div LineLen
        /\ PosOf(ch) = 1 => Len(called) + 1 <= (ch - 1) \div LineLen
        /\ (ch - 1) \div LineLen <= typed \div LineLen
        /\ ch \div LineLen <= typed \div LineLen
  BY OneMoreLine
<1>8. word # <<>> => Append(word, ch)[1] = word[1] /\ Append(word, ch) # <<>>
  <2>1. word \in Seq(Nat) /\ ch \in Nat
    BY <1>1
  <2> QED BY <2>1, FirstKept
<1> HIDE DEF ch
\* What a line that ends adds to the count, and does to the user.
<1>9. ASSUME NEW w \in Seq(Nat), LineEnds(w), Len(called) + 1 <= typed \div LineLen
      PROVE  /\ Len(called') <= Len(called) + 1
             /\ flood \/ Unfinished(typed)' <= QueueLen
             /\ DropNeedsFlood'
  <2>1. Unfinished(typed)' = typed \div LineLen - Len(done) - Len(dropped')
    BY <1>1 DEF Unfinished
  <2>2. CASE called' = Append(called, w) /\ Taken(w)
    <3>1. early => early'
      BY <1>9, Zenon DEF LineEnds
    <3>2. Len(called') = Len(called) + 1
      BY <1>1, <2>2, Appended
    <3>3. Unfinished(typed)' = Unfinished(typed)
      BY <2>1, <2>2 DEF Unfinished, Taken
    <3> QED BY <1>1, <1>3, <2>2, <3>1, <3>2, <3>3 DEF Taken, DropNeedsFlood
  <2>3. CASE /\ called' = Append(called, w) /\ Dropped(w)
             /\ early' \/ ~(Len(queue) < QueueLen)
    <3>1. Len(called') = Len(called) + 1 /\ Len(dropped') = Len(dropped) + 1
      BY <1>1, <2>3, Appended DEF Dropped
    <3>2. flood \/ Unfinished(typed)' <= QueueLen
      BY <1>1, <1>2, <1>3, <2>1, <3>1 DEF Unfinished
    <3>3. flood \/ early'
      BY <1>1, <1>2, <1>9, <2>3, FullInFlood
    <3> QED BY <1>1, <3>1, <3>2, <3>3 DEF DropNeedsFlood
  <2>4. CASE UNCHANGED <<called, early, sent, dropped, queue>>
    BY <1>1, <1>3, <2>1, <2>4 DEF Unfinished, DropNeedsFlood
  <2> QED BY <1>9, <2>2, <2>3, <2>4, DropCases
<1>10. CASE Quiet
  <2>1. flood' \/ Unfinished(typed)' <= QueueLen
    BY <1>1, <1>3, <1>10 DEF Unfinished, Quiet
  <2>2. DropNeedsFlood'
    BY <1>1, <1>3, <1>10 DEF DropNeedsFlood, Quiet
  <2>3. Len(called) <= (ch - 1) \div LineLen /\ Len(called) <= ch \div LineLen
    BY <1>1, <1>3, <1>6
  <2>4. Covered' = Covered \/ Covered' = ch \/ Covered' = ch - 1
    <3>1. CASE word' = <<>>
      BY <1>1, <3>1 DEF Covered
    <3>2. CASE word' = <<ch>>
      BY <1>1, <3>2 DEF Covered
    <3>3. CASE word # <<>> /\ word' = Append(word, ch)
      BY <1>8, <3>3 DEF Covered
    <3> QED BY <1>4, <3>1, <3>2, <3>3 DEF IsFirst, IsMiddle, IsLast, IsSkipped
  <2>5. Len(called') <= Covered' \div LineLen
    BY <1>3, <1>10, <2>3, <2>4 DEF Quiet
  <2> QED BY <2>1, <2>2, <2>5 DEF CountInv, Covered
<1>11. CASE PosOf(ch) = 1 /\ word' = <<ch>> /\ word # <<>> /\ LineEnds(word)
  <2>1. Len(called) + 1 <= (ch - 1) \div LineLen /\ Len(called) + 1 <= typed \div LineLen
    BY <1>1, <1>2, <1>6, <1>7, <1>11
  <2>2. Covered' = ch - 1
    BY <1>11 DEF Covered
  <2>3. /\ Len(called') <= Len(called) + 1
        /\ flood' \/ Unfinished(typed)' <= QueueLen
        /\ DropNeedsFlood'
    BY <1>1, <1>9, <1>11, <2>1
  <2>4. called' \in Seq(Seq(Nat))
    BY <1>1, <1>11, LineEndsType
  <2>5. Len(called') <= Covered' \div LineLen
    BY <1>1, <1>6, <2>1, <2>2, <2>3, <2>4
  <2> QED BY <2>3, <2>5 DEF CountInv, Covered
<1>12. CASE IsLast(ch)
  <2>1. Len(called) + 1 <= ch \div LineLen /\ Len(called) + 1 <= typed \div LineLen
    BY <1>1, <1>2, <1>6, <1>7, <1>12 DEF IsLast
  <2>2. Covered' = ch
    BY <1>1, <1>12 DEF Covered, IsLast
  <2>3. /\ Len(called') <= Len(called) + 1
        /\ flood' \/ Unfinished(typed)' <= QueueLen
        /\ DropNeedsFlood'
    BY <1>1, <1>9, <1>12, <2>1 DEF IsLast
  <2>4. called' \in Seq(Seq(Nat))
    BY <1>1, <1>12, LineEndsType DEF IsLast
  <2>5. Len(called') <= Covered' \div LineLen
    BY <1>1, <1>6, <2>1, <2>2, <2>3, <2>4
  <2> QED BY <2>3, <2>5 DEF CountInv, Covered
<1> QED BY <1>4, <1>10, <1>11, <1>12 DEF IsFirst, IsMiddle, IsSkipped

\* The other steps leave the count of lines alone.
LEMMA CoveredStutter ==
  ASSUME CountInv, UNCHANGED <<word, took, called>>
  PROVE  Len(called') <= Covered' \div LineLen
BY DEF CountInv, Covered, LastRead

LEMMA NextCount ==
  TypeOK /\ RingInv /\ LineInv /\ CommandInv /\ CountInv /\ [Next]_vars => CountInv'
<1> SUFFICES ASSUME TypeOK, RingInv, LineInv, CommandInv, CountInv, [Next]_vars
             PROVE  CountInv'
  OBVIOUS
<1>1. CASE RxIrq
  <2>1. UNCHANGED <<word, took, called, dropped, done, early>>
    BY <1>1 DEF RxIrq, reader, task
  <2>2. flood' <=> flood \/ Unfinished(typed') > QueueLen
    BY <1>1, Zenon DEF RxIrq
  <2>3. Unfinished(typed)' = Unfinished(typed')
    BY <2>1 DEF Unfinished
  <2>4. Unfinished(typed') \in Int
    <3>1. /\ done \in Seq(Seq(Nat)) /\ dropped \in Seq(Seq(Nat)) /\ typed' \in Nat
          /\ LineLen \in Nat \ {0}
      BY <1>1, Sizes DEF TypeOK, RxIrq
    <3> QED BY <3>1, DivMod DEF Unfinished
  <2>5. flood' \/ Unfinished(typed)' <= QueueLen
    BY <2>2, <2>3, <2>4, Sizes
  <2>6. flood => flood'
    BY <2>2
  <2>7. DropNeedsFlood'
    BY <2>1, <2>6 DEF CountInv, DropNeedsFlood
  <2> QED BY <2>1, <2>5, <2>7, CoveredStutter DEF CountInv, Covered
<1>2. CASE Process
  BY <1>2, ProcessCount
<1>3. CASE FlashDone
  <2>1. UNCHANGED <<word, took, called, dropped, early, flood, typed>>
    BY <1>3 DEF FlashDone, reader, ring
  <2>2. /\ done \in Seq(Seq(Nat)) /\ dropped \in Seq(Seq(Nat)) /\ cmd \in Seq(Nat)
        /\ typed \in Nat /\ LineLen \in Nat \ {0} /\ done' = Append(done, cmd)
    BY <1>3, Sizes DEF TypeOK, FlashDone
  <2>3. Len(done') = Len(done) + 1 /\ Len(done) \in Nat /\ Len(dropped) \in Nat
        /\ typed \div LineLen \in Nat
    <3>1. typed \div LineLen \in Nat
      BY <2>2, DivMod
    <3>2. Len(Append(done, cmd)) = Len(done) + 1 /\ Len(done) \in Nat /\ Len(dropped) \in Nat
      BY <2>2
    <3> QED BY <2>2, <3>1, <3>2
  <2>4. flood' \/ Unfinished(typed)' <= QueueLen
    <3>1. Unfinished(typed)' = typed \div LineLen - (Len(done) + 1) - Len(dropped)
      BY <2>1, <2>3 DEF Unfinished
    <3>2. flood \/ typed \div LineLen - Len(done) - Len(dropped) <= QueueLen
      BY DEF CountInv, Unfinished
    <3>3. QueueLen \in Nat /\ flood' = flood
      BY <2>1, Sizes
    <3> QED BY <2>3, <3>1, <3>2, <3>3
  <2>5. DropNeedsFlood'
    BY <2>1 DEF CountInv, DropNeedsFlood
  <2> QED BY <2>1, <2>4, <2>5, CoveredStutter DEF CountInv, Covered
<1>4. ASSUME UNCHANGED <<word, took, called, dropped, early, flood, typed, done>>
      PROVE  CountInv'
  BY <1>4, CoveredStutter DEF CountInv, Covered, Unfinished, DropNeedsFlood
<1>5. CASE PollStarts \/ PollEnds \/ Advance
  BY <1>4, <1>5 DEF PollStarts, PollEnds, Advance, ring, task
<1>6. CASE FlashStarts \/ TimerFires \/ FlashIdle \/ FlashTakes \/ UNCHANGED vars
  BY <1>4, <1>6
  DEF FlashStarts, TimerFires, FlashIdle, FlashTakes, vars, ring, reader, task
<1> QED BY <1>1, <1>2, <1>3, <1>5, <1>6 DEF Next, Terminal, Flash

-----------------------------------------------------------------------------
(* The theorems.                                                           *)

\* All of it together is inductive.
THEOREM ConsoleInvariant == Spec => []IInv
<1>1. Init => IInv
  BY InitType, InitRing, InitLine, InitCommand, InitCount DEF IInv
<1>2. IInv /\ [Next]_vars => IInv'
  BY NextType, NextRing, NextLine, NextCommand, NextCount DEF IInv
<1> QED BY <1>1, <1>2, PTL DEF Spec

\* DBG_UART_IRQHandler, terminal_cntrl and qFlashCntrl keep the indices in
\* the ring and the queue within its places.
THEOREM ConsoleTypeCorrect == Spec => []TypeOK
<1>1. IInv => TypeOK
  BY DEF IInv
<1> QED BY <1>1, ConsoleInvariant, PTL

\* terminal_cntrl reads what DBG_UART_IRQHandler stored in order and, short of
\* a lap, completely, although the interrupt comes between any two steps.
THEOREM ReadsInOrder == Spec => []ReadInOrder
<1>1. IInv => ReadInOrder
  BY DEF IInv, RingInv
<1> QED BY <1>1, ConsoleInvariant, PTL

\* command_processing runs no line that nobody typed, short of a lap.
THEOREM RunsWhatWasTyped == Spec => []OnlyTyped
<1>1. IInv => OnlyTyped
  BY DEF IInv, LineInv
<1> QED BY <1>1, ConsoleInvariant, PTL

\* send_cmd_box, qFlashTimCallback and qFlashCntrl lose no command the queue
\* took, do none twice and none out of order.
THEOREM AllAccounted == Spec => []Accounted
<1>1. IInv => Accounted
  BY DEF IInv, CommandInv
<1> QED BY <1>1, ConsoleInvariant, PTL

\* send_cmd_box drops a command only before qFlash_Task made its queue, or when
\* the user had more unfinished than it holds.
THEOREM DropsOnlyInFlood == Spec => []DropNeedsFlood
<1>1. IInv => DropNeedsFlood
  BY DEF IInv, CountInv
<1> QED BY <1>1, ConsoleInvariant, PTL

=============================================================================
