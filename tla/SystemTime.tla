----------------------------- MODULE SystemTime -----------------------------
(***************************************************************************)
(* The uptime of the board (Core/Scr/main.c): system_thread calls          *)
(* update_time_work once a second, paced by vTaskDelayUntil over a tick    *)
(* count that wraps.  The scheduler is cooperative, so the thread can be   *)
(* late by as long as another task keeps the processor.  Two other places  *)
(* show an uptime: the web page (httpd_cgi_ssi.c) prints SysWorkTime, the  *)
(* terminal (cmd_freertos_cntrl.c) decodes the tick count itself.          *)
(***************************************************************************)
EXTENDS Integers

CONSTANTS
    TickMod,            \* 2^32: the tick count is a TickType_t
    Period,             \* 1000 ticks, the second
    Sec, Min, Hrs,      \* 60, 60, 24
    Base,               \* 10, the base of the digits on the page
    MaxLag,             \* bound: ticks the thread is kept waiting
    MaxTicks            \* bound: ticks the model runs for

ASSUME UnitsAssumption == Sec \in Nat \ {0} /\ Min \in Nat \ {0} /\ Hrs \in Nat \ {0}
ASSUME TicksAssumption == /\ Period \in Nat \ {0} /\ TickMod \in Nat /\ MaxLag \in Nat
                          /\ Period + MaxLag < TickMod
ASSUME BaseAssumption == Base \in 1 .. 256       \* a digit fits into its char

VARIABLES
    xTickCount,
    xLastWakeTime,      \* of system_thread
    pc,                 \* where system_thread is: "update", "delay", "blocked"
    SysWorkTime,
    elapsed             \* history: ticks since system_thread entered its loop

vars == <<xTickCount, xLastWakeTime, pc, SysWorkTime, elapsed>>

Zero == [all_second |-> 0, day |-> 0, hour |-> 0, minute |-> 0, second |-> 0]

Init ==
    /\ xTickCount \in 0 .. Period
    /\ xLastWakeTime = xTickCount
    /\ pc = "update"
    /\ SysWorkTime = Zero
    /\ elapsed = 0

-----------------------------------------------------------------------------
\* Mutant of Counted: the hour rolls over one too late.
CountedLateDay(t) ==
    LET fullMinute == t.second > Sec - 2
        fullHour == fullMinute /\ t.minute > Min - 2
        fullDay == fullHour /\ t.hour > Hrs - 1
    IN  [all_second |-> t.all_second + 1,
         second |-> IF fullMinute THEN 0 ELSE t.second + 1,
         minute |-> IF fullHour THEN 0 ELSE IF fullMinute THEN t.minute + 1 ELSE t.minute,
         hour |-> IF fullDay THEN 0 ELSE IF fullHour THEN t.hour + 1 ELSE t.hour,
         day |-> IF fullDay THEN t.day + 1 ELSE t.day]

\* update_time_work: one more second, with its carries.
Counted(t) ==
    LET fullMinute == t.second > Sec - 2
        fullHour == fullMinute /\ t.minute > Min - 2
        fullDay == fullHour /\ t.hour > Hrs - 2
    IN  [all_second |-> t.all_second + 1,
         second |-> IF fullMinute THEN 0 ELSE t.second + 1,
         minute |-> IF fullHour THEN 0 ELSE IF fullMinute THEN t.minute + 1 ELSE t.minute,
         hour |-> IF fullDay THEN 0 ELSE IF fullHour THEN t.hour + 1 ELSE t.hour,
         day |-> IF fullDay THEN t.day + 1 ELSE t.day]

Update ==
    /\ pc = "update"
    /\ SysWorkTime' = Counted(SysWorkTime)
    /\ pc' = "delay"
    /\ UNCHANGED <<xTickCount, xLastWakeTime, elapsed>>

\* Mutant of MustWait: the tick count is compared as if it never wrapped.
MustWaitNoWrap(wake) == wake > xTickCount

\* vTaskDelayUntil: whether the wake time is still ahead, read from three
\* tick counts that may have wrapped since the last call.
MustWait(wake) ==
    IF xTickCount < xLastWakeTime
    THEN wake < xLastWakeTime /\ wake > xTickCount
    ELSE wake < xLastWakeTime \/ wake > xTickCount

\* Mutant of DelayUntil: the next period starts at the present tick (vTaskDelay).
DelayFromNow ==
    /\ pc = "delay"
    /\ xLastWakeTime' = (xTickCount + Period) % TickMod
    /\ pc' = "blocked"
    /\ UNCHANGED <<xTickCount, SysWorkTime, elapsed>>

\* The call of vTaskDelayUntil: a late thread does not block at all.
DelayUntil ==
    /\ pc = "delay"
    /\ LET wake == (xLastWakeTime + Period) % TickMod
       IN  /\ pc' = IF MustWait(wake) THEN "blocked" ELSE "update"
           /\ xLastWakeTime' = wake
    /\ UNCHANGED <<xTickCount, SysWorkTime, elapsed>>

\* How long the next second has been due; negative while it is to come.
Late == elapsed - Period * SysWorkTime.all_second

\* The tick interrupt: a thread that is not blocked waits for the task that
\* has the processor, for at most MaxLag ticks; a blocked one is readied by
\* the kernel at its wake time.
Tick ==
    /\ elapsed < MaxTicks
    /\ pc # "blocked" => Late < MaxLag
    /\ elapsed' = elapsed + 1
    /\ xTickCount' = (xTickCount + 1) % TickMod
    /\ pc' = IF pc = "blocked" /\ xTickCount' = xLastWakeTime THEN "update" ELSE pc
    /\ UNCHANGED <<xLastWakeTime, SysWorkTime>>

Next == Update \/ DelayUntil \/ Tick

Spec == Init /\ [][Next]_vars

\* Every task blocks in its loop, and the tick interrupt is hardware.
FairSpec == Spec /\ WF_vars(Update) /\ WF_vars(DelayUntil) /\ WF_vars(Tick)

-----------------------------------------------------------------------------
(* What the two displays show.                                             *)

\* Time_Handler: the four characters, as counts above '0'; a char has 8 bits.
Digit1 == (SysWorkTime.all_second \div (Base * Base * Base)) % 256
Digit2 == ((SysWorkTime.all_second - Digit1 * Base * Base * Base) \div (Base * Base)) % 256
Digit3 == ((SysWorkTime.all_second - Digit1 * Base * Base * Base - Digit2 * Base * Base)
               \div Base) % 256
Digit4 == (SysWorkTime.all_second - Digit1 * Base * Base * Base - Digit2 * Base * Base
               - Digit3 * Base) % 256

\* Mutant of TerminalTime: the minutes are not taken from the rest of the hour.
TerminalTimeNoRest ==
    [day |-> xTickCount \div (Period * Sec * Min * Hrs),
     hour |-> (xTickCount % (Period * Sec * Min * Hrs)) \div (Period * Sec * Min),
     minute |-> xTickCount \div (Period * Sec),
     second |-> (xTickCount % (Period * Sec)) \div Period]

\* data_time_work: the calendar fields, decoded from the tick count.
TerminalTime ==
    [day |-> xTickCount \div (Period * Sec * Min * Hrs),
     hour |-> (xTickCount % (Period * Sec * Min * Hrs)) \div (Period * Sec * Min),
     minute |-> (xTickCount % (Period * Sec * Min)) \div (Period * Sec),
     second |-> (xTickCount % (Period * Sec)) \div Period]

-----------------------------------------------------------------------------
\* TimeWorkTypeDef, with the range of each field.
TimeWorkType == [all_second : Nat, day : Nat, hour : 0 .. Hrs - 1,
                 minute : 0 .. Min - 1, second : 0 .. Sec - 1]

\* The types and ranges of the fields of SysWorkTime (main.h:54-61).
TypeOK ==
    /\ xTickCount \in 0 .. TickMod - 1 /\ xLastWakeTime \in 0 .. TickMod - 1
    /\ pc \in {"update", "delay", "blocked"}
    /\ SysWorkTime \in TimeWorkType
    /\ elapsed \in Nat

\* The seconds in the calendar fields.
Total(t) == ((t.day * Hrs + t.hour) * Min + t.minute) * Sec + t.second

\* The calendar fields and the total never disagree: the carries of
\* update_time_work drop no second and count none twice.
Calendar == SysWorkTime.all_second = Total(SysWorkTime)

\* A thread that has caught up has counted every period that began, also
\* across a wrap of the tick count and after being kept waiting for several
\* periods (system_thread, vTaskDelayUntil).
NoSecondLost == pc = "blocked" => Late \in -Period .. -1

\* However late the thread runs, it never counts a second that has not begun.
NeverAhead == Late >= -Period

\* Every second that begins is counted in the end.
EverySecondCounted ==
    \A n \in 0 .. MaxTicks \div Period :
        (elapsed >= n * Period) ~> (SysWorkTime.all_second > n)

\* While four digits hold the seconds and the tick count has not wrapped, the
\* page and the terminal show the same uptime, but for the second that
\* system_thread counts when it begins and the ticks before its loop
\* (Time_Handler, data_time_work).
DisplaysAgree ==
    pc = "blocked" /\ xTickCount >= elapsed /\ SysWorkTime.all_second < Base * Base * Base * Base =>
        /\ \A d \in {Digit1, Digit2, Digit3, Digit4} : d \in 0 .. Base - 1
        /\ ((Digit1 * Base + Digit2) * Base + Digit3) * Base + Digit4
             - Total(TerminalTime) \in {0, 1}
=============================================================================
