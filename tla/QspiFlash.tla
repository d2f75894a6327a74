----------------------------- MODULE QspiFlash ------------------------------
(***************************************************************************)
(* The NOR flash behind the file system: the drive of FatFs                *)
(* (w25qxx_diskio.c), the commands of the qFlash task (test_qspi_flash.c), *)
(* the driver both call without a lock (drv_qspi_w25q128.c, w25q128fv.c)   *)
(* and the chip.  The kernel is cooperative: a task gives up the processor *)
(* only in the vTaskDelay of W25Q128FV_SoftPollingCheckLoMask and between  *)
(* two calls; cpu names the task in the middle of such a segment.          *)
(* The chip (erases to "FF", a page programmed twice is a mixture, commands*)
(* are ignored while it is busy or when they come in the other bus mode)   *)
(* is external.                                                            *)
(***************************************************************************)
EXTENDS Integers

CONSTANTS
    Tasks,
    Ops,                \* what each task does: "write", "read" as FatFs does,
                        \* "erase", "program", "chip" as the qFlash task does
    Sectors, Data,
    Pages,              \* pages of a sector (16)
    BusyCheck, BusyTimeout,         \* W25Q128FV_BUSY_* (1, 5000 ms)
    EraseCheck, EraseTimeout,       \* W25Q128FV_SECTOR_ERASE_* (10, 400 ms)
    ProgramCheck, ProgramTimeout,   \* W25Q128FV_PAGE_PROGRAM_* (1, 3 ms)
    EraseMax, ProgramMax,           \* bounds: how long the chip takes, in ticks
    Resets              \* whether the board may restart

Unknown == "unknown"
Erased == "FF"
Mixed == "mixed"
Contents == Data \cup {Erased, Mixed, "noise"}

ASSUME TimesAssumption ==
    /\ \A x \in {BusyCheck, EraseCheck, ProgramCheck, Pages, EraseMax, ProgramMax} : x \in Nat \ {0}
    /\ \A x \in {BusyTimeout, EraseTimeout, ProgramTimeout} : x \in Nat \ {0}
ASSUME NamesAssumption ==
    /\ Data \cap {Erased, Mixed, "noise", Unknown} = {} /\ "none" \notin Tasks
\* One millisecond against five seconds: a chip that recovers from RESET is seen.
ASSUME PollAssumption == BusyCheck < BusyTimeout
ASSUME OpsAssumption == Ops \in [Tasks -> SUBSET {"write", "read", "erase", "program", "chip"}]

VARIABLES
    chip,               \* bus mode, ticks until ready, what it stores then and where
    mem,                \* the pages of every sector
    is_initialized,     \* disk.is_initialized[0]
    InterfaceMode,      \* pqspi.InterfaceMode
    task,               \* where each task is in its call
    cpu,                \* the task inside a segment, or "none"
    got,                \* what the last read returned
    stored,             \* history: what a sector must hold, Unknown when unsettled
    trusted             \* history: the drive was initialised undisturbed

drv == <<is_initialized, InterfaceMode>>
vars == <<chip, mem, drv, task, cpu, got, stored, trusted>>

Idle == [pc |-> "idle", op |-> "none", sector |-> Unknown, data |-> Unknown, page |-> 1,
         cnt |-> 0, delay |-> 0, mode |-> "SPI", sound |-> TRUE, base |-> Unknown]

Nothing == [sectors |-> {}, pages |-> {}, val |-> Mixed]

Init ==
    /\ chip = [mode |-> "SPI", busy |-> 0, op |-> Nothing]
    /\ mem = [s \in Sectors |-> [p \in 1 .. Pages |-> Erased]]
    /\ is_initialized = FALSE /\ InterfaceMode = "SPI"
    /\ task = [t \in Tasks |-> Idle]
    /\ cpu = "none"
    /\ got = Erased
    /\ stored = [s \in Sectors |-> Erased]
    /\ trusted = FALSE

-----------------------------------------------------------------------------
(* The chip.                                                               *)

\* A command reaches the chip when it is ready and speaks the same mode.
Accepted == chip.busy = 0 /\ chip.mode = InterfaceMode

\* What an erase or program command leaves in the pages while it works.
Working(op) ==
    [s \in Sectors |-> [p \in 1 .. Pages |->
        IF s \in op.sectors /\ p \in op.pages THEN Mixed ELSE mem[s][p]]]

Finished(op) ==
    [s \in Sectors |-> [p \in 1 .. Pages |->
        IF s \in op.sectors /\ p \in op.pages THEN op.val ELSE mem[s][p]]]

\* Programming only clears bits.
Programmed(old, new) == IF old \in {Erased, new} THEN new ELSE Mixed

Start(op, ticks) ==
    IF Accepted
    THEN chip' = [chip EXCEPT !.busy = ticks, !.op = op] /\ mem' = Working(op)
    ELSE UNCHANGED <<chip, mem>>

\* RESET in the given mode aborts what the chip does; it recovers in 30 us.
ResetChip(mode) ==
    IF chip.mode = mode
    THEN \E b \in 0 .. 1 : chip' = [mode |-> "SPI", busy |-> b, op |-> Nothing]
    ELSE UNCHANGED chip

\* A tick: delays run, and so does the chip.
Tick ==
    /\ cpu = "none"
    /\ chip.busy > 0 \/ \E t \in Tasks : task[t].delay > 0
    /\ task' = [t \in Tasks |->
                  [task[t] EXCEPT !.delay = IF @ > 0 THEN @ - 1 ELSE 0]]
    /\ IF chip.busy = 1
       THEN chip' = [chip EXCEPT !.busy = 0, !.op = Nothing] /\ mem' = Finished(chip.op)
       ELSE chip' = [chip EXCEPT !.busy = IF @ > 0 THEN @ - 1 ELSE 0] /\ UNCHANGED mem
    /\ UNCHANGED <<drv, cpu, got, stored, trusted>>

-----------------------------------------------------------------------------
(* W25Q128FV_SoftPollingCheckLoMask.                                       *)

Check(pc) == CASE pc = "eraseWait" -> EraseCheck
               [] pc = "pageWait" -> ProgramCheck
               [] OTHER -> BusyCheck

Timeout(pc) == CASE pc = "eraseWait" -> EraseTimeout
                 [] pc = "pageWait" -> ProgramTimeout
                 [] OTHER -> BusyTimeout

\* A poll starts with the mode of its call, and keeps it.
Polls(t, pc) ==
    [task[t] EXCEPT !.pc = pc, !.cnt = 0, !.delay = 0, !.mode = InterfaceMode]

Runs(t) == task[t].pc # "idle" /\ task[t].delay = 0 /\ cpu \in {"none", t}

\* The status register, as noise when it is read in the other mode.
BusyRead(t) == IF task[t].mode = chip.mode THEN {chip.busy > 0} ELSE BOOLEAN

Ready(t) == Runs(t) /\ task[t].cnt < Timeout(task[t].pc) /\ FALSE \in BusyRead(t)

\* After the last delay the status is not read again.
GaveUp(t) == Runs(t) /\ task[t].cnt >= Timeout(task[t].pc)

\* Mutant of PollBusy: the delay does not count.
PollBusyForever(t) ==
    /\ Runs(t) /\ task[t].cnt < Timeout(task[t].pc) /\ TRUE \in BusyRead(t)
    /\ task' = [task EXCEPT ![t].delay = Check(task[t].pc)]
    /\ cpu' = "none"
    /\ UNCHANGED <<chip, mem, drv, got, stored, trusted>>

PollBusy(t) ==
    /\ Runs(t) /\ task[t].cnt < Timeout(task[t].pc) /\ TRUE \in BusyRead(t)
    /\ task' = [task EXCEPT ![t].delay = Check(task[t].pc),
                            ![t].cnt = @ + Check(task[t].pc)]
    /\ cpu' = "none"
    /\ UNCHANGED <<chip, mem, drv, got, stored, trusted>>

\* The longest the chip may still be busy for a poll to see it ready.
Patience(check, timeout) == ((timeout - 1) \div check) * check

\* A command of t spoils the calls the other tasks are in (history).
Goes(t, rec) ==
    task' = [o \in Tasks |-> IF o = t THEN rec
                             ELSE IF task[o].pc = "idle" THEN task[o]
                             ELSE [task[o] EXCEPT !.sound = FALSE]]

-----------------------------------------------------------------------------
(* disk_initialize, w25qxx_initialize, BSP_QSPI_Init, BSP_QSPI_ConfigFlash.*)

Mount(t) ==
    /\ cpu = "none" /\ task[t].pc = "idle" /\ ~is_initialized
    /\ is_initialized' = TRUE
    /\ ResetChip("QPI")
    /\ Goes(t, [Polls(t, "resetPoll") EXCEPT
                  !.sound = chip.mode = "QPI" \/ chip.busy <= Patience(BusyCheck, BusyTimeout)])
    /\ cpu' = t
    /\ UNCHANGED <<mem, InterfaceMode, got, stored, trusted>>

SecondReset(t) ==
    /\ task[t].pc = "resetPoll" /\ Ready(t)
    /\ ResetChip("SPI")
    /\ InterfaceMode' = "SPI"
    /\ Goes(t, Polls(t, "initPoll"))
    /\ cpu' = t
    /\ UNCHANGED <<mem, is_initialized, got, stored, trusted>>

\* Mutant of Configure: the mode is recorded, the command forgotten.
ConfigureSilently(t) ==
    /\ \/ task[t].pc = "initPoll" /\ (Ready(t) \/ GaveUp(t))
       \/ task[t].pc = "resetPoll" /\ GaveUp(t)
    /\ InterfaceMode' = "QPI"
    /\ trusted' = task[t].sound
    /\ task' = [task EXCEPT ![t] = Idle]
    /\ cpu' = "none"
    /\ UNCHANGED <<chip, mem, is_initialized, got, stored>>

\* Whatever BSP_QSPI_Init returned, the chip is told to enter QPI.
Configure(t) ==
    /\ \/ task[t].pc = "initPoll" /\ (Ready(t) \/ GaveUp(t))
       \/ task[t].pc = "resetPoll" /\ GaveUp(t)
    /\ chip' = [chip EXCEPT !.mode = IF Accepted THEN "QPI" ELSE @]
    /\ InterfaceMode' = "QPI"
    /\ trusted' = task[t].sound
    /\ task' = [task EXCEPT ![t] = Idle]
    /\ cpu' = "none"
    /\ UNCHANGED <<mem, is_initialized, got, stored>>

-----------------------------------------------------------------------------
(* w25qxx_write and the commands of the qFlash task.                       *)

Touches(op, s) == IF op = "chip" THEN Sectors ELSE {s}

\* A call starts with the poll of BSP_QSPI_EraseBlock, or of BSP_QSPI_Write.
Begin(t, op, s, d) ==
    /\ cpu = "none" /\ task[t].pc = "idle" /\ is_initialized
    /\ op \in Ops[t] \ {"read"}
    /\ task' = [task EXCEPT ![t] =
         [Polls(t, IF op = "program" THEN "pagePoll" ELSE "erasePoll") EXCEPT
            !.op = op, !.sector = s, !.data = d, !.base = stored[s],
            !.sound = trusted /\ chip.busy <= Patience(BusyCheck, BusyTimeout)]]
    /\ stored' = [x \in Sectors |-> IF x \in Touches(op, s) THEN Unknown ELSE stored[x]]
    /\ cpu' = t
    /\ UNCHANGED <<chip, mem, drv, got, trusted>>

\* What a call that nothing spoiled has left in its sectors (history).
Result(c) ==
    IF ~c.sound THEN Unknown
    ELSE CASE c.op = "write" -> c.data
           [] c.op = "program" -> IF c.base = Erased THEN c.data ELSE Unknown
           [] OTHER -> Erased

\* Another task is in a call on the same sector.
Contested(t, s) ==
    \E o \in Tasks \ {t} : task[o].pc # "idle" /\ s \in Touches(task[o].op, task[o].sector)

\* The call returns; only cmd_chip_erase looks at the result, to print it.
Return(t) ==
    /\ task' = [task EXCEPT ![t] = Idle]
    /\ stored' = [s \in Sectors |->
                    IF s \notin Touches(task[t].op, task[t].sector) THEN stored[s]
                    ELSE IF Contested(t, s) THEN Unknown ELSE Result(task[t])]
    /\ cpu' = "none"
    /\ UNCHANGED <<chip, mem, drv, got, trusted>>

\* How long an erase may take: the write after it waits once more.
EraseLimit(op) ==
    IF op = "write" THEN EraseTimeout + Patience(BusyCheck, BusyTimeout)
                    ELSE Patience(EraseCheck, EraseTimeout)

SendErase(t) ==
    /\ task[t].pc = "erasePoll" /\ Ready(t)
    /\ \E n \in 1 .. EraseMax :
         /\ Start([sectors |-> Touches(task[t].op, task[t].sector),
                   pages |-> 1 .. Pages, val |-> Erased], n)
         /\ Goes(t, [Polls(t, "eraseWait") EXCEPT
                       !.sound = @ /\ n <= EraseLimit(task[t].op)])
    /\ cpu' = t
    /\ UNCHANGED <<drv, got, stored, trusted>>

\* Ready, or given up: w25qxx_write goes on to BSP_QSPI_Write all the same.
EraseOver(t) ==
    /\ \/ task[t].pc = "erasePoll" /\ GaveUp(t)
       \/ task[t].pc = "eraseWait" /\ (Ready(t) \/ GaveUp(t))
    /\ IF task[t].op = "write"
       THEN /\ task' = [task EXCEPT ![t] = Polls(t, "pagePoll")]
            /\ cpu' = t
            /\ UNCHANGED <<chip, mem, drv, got, stored, trusted>>
       ELSE Return(t)

\* Mutant of SendPage: the page is programmed whatever the poll said.
SendPageUnpolled(t) ==
    /\ task[t].pc = "pagePoll" /\ Runs(t)
    /\ LET c == task[t]
       IN  \E n \in 1 .. ProgramMax :
             /\ Start([sectors |-> {c.sector}, pages |-> {c.page},
                       val |-> Programmed(mem[c.sector][c.page], c.data)], n)
             /\ Goes(t, [Polls(t, "pageWait") EXCEPT
                           !.sound = @ /\ n <= Patience(ProgramCheck, ProgramTimeout)])
    /\ cpu' = t
    /\ UNCHANGED <<drv, got, stored, trusted>>

SendPage(t) ==
    /\ task[t].pc = "pagePoll" /\ Ready(t)
    /\ LET c == task[t]
       IN  \E n \in 1 .. ProgramMax :
             /\ Start([sectors |-> {c.sector}, pages |-> {c.page},
                       val |-> Programmed(mem[c.sector][c.page], c.data)], n)
             /\ Goes(t, [Polls(t, "pageWait") EXCEPT
                           !.sound = @ /\ n <= Patience(ProgramCheck, ProgramTimeout)])
    /\ cpu' = t
    /\ UNCHANGED <<drv, got, stored, trusted>>

\* Mutant of PageStored: the loop ends a page early.
PageStoredShort(t) ==
    /\ task[t].pc = "pageWait" /\ Ready(t)
    /\ IF task[t].page < Pages - 1
       THEN /\ task' = [task EXCEPT ![t] = [Polls(t, "pagePoll") EXCEPT !.page = @ + 1]]
            /\ cpu' = t
            /\ UNCHANGED <<chip, mem, drv, got, stored, trusted>>
       ELSE Return(t)

PageStored(t) ==
    /\ task[t].pc = "pageWait" /\ Ready(t)
    /\ IF task[t].page < Pages
       THEN /\ task' = [task EXCEPT ![t] = [Polls(t, "pagePoll") EXCEPT !.page = @ + 1]]
            /\ cpu' = t
            /\ UNCHANGED <<chip, mem, drv, got, stored, trusted>>
       ELSE Return(t)

\* BSP_QSPI_Write stops at the page it gave up on.
WriteFails(t) ==
    /\ task[t].pc \in {"pagePoll", "pageWait"} /\ GaveUp(t)
    /\ Return(t)

\* The content of a sector, as one value.
Content(s) ==
    IF \E d \in Data \cup {Erased} : \A p \in 1 .. Pages : mem[s][p] = d
    THEN mem[s][1] ELSE Mixed

\* w25qxx_read: the chip is not asked whether it is busy.
Read(t, s) ==
    /\ cpu = "none" /\ task[t].pc = "idle" /\ is_initialized
    /\ "read" \in Ops[t]
    /\ got' = IF Accepted THEN Content(s) ELSE "noise"
    /\ UNCHANGED <<chip, mem, drv, task, cpu, stored, trusted>>

\* The processor restarts at any moment; the chip does so with the power.
Crash ==
    /\ Resets
    /\ task' = [t \in Tasks |-> Idle] /\ cpu' = "none"
    /\ is_initialized' = FALSE /\ InterfaceMode' = "SPI" /\ trusted' = FALSE
    /\ \/ UNCHANGED chip
       \/ chip' = [mode |-> "SPI", busy |-> 0, op |-> Nothing]
    /\ UNCHANGED <<mem, got, stored>>

\* A step of a call, up to its next delay, call of the driver or return.
Step(t) ==
    \/ PollBusy(t) \/ SecondReset(t) \/ Configure(t)
    \/ SendErase(t) \/ EraseOver(t) \/ SendPage(t) \/ PageStored(t) \/ WriteFails(t)

Next ==
    \/ Tick \/ Crash
    \/ \E t \in Tasks :
         \/ Mount(t) \/ Step(t)
         \/ \E s \in Sectors : Read(t, s) \/ \E op \in Ops[t], d \in Data : Begin(t, op, s, d)

Spec == Init /\ [][Next]_vars

\* Ticks are hardware.  A task that is ready runs again and again: the
\* others block in their polls, and nothing makes a task call.
FairSpec == Spec /\ SF_vars(Tick) /\ \A t \in Tasks : SF_vars(Step(t))

-----------------------------------------------------------------------------
\* Types; a task inside a segment is one that runs (all functions above).
TypeOK ==
    /\ chip \in [mode : {"SPI", "QPI"}, busy : Nat,
                 op : [sectors : SUBSET Sectors, pages : SUBSET (1 .. Pages),
                       val : Data \cup {Erased, Mixed}]]
    /\ mem \in [Sectors -> [1 .. Pages -> Data \cup {Erased, Mixed}]]
    /\ is_initialized \in BOOLEAN /\ InterfaceMode \in {"SPI", "QPI"}
    /\ \A t \in Tasks :
         /\ task[t].page \in 1 .. Pages
         /\ task[t].delay <= task[t].cnt
         /\ task[t].cnt < Timeout(task[t].pc) + Check(task[t].pc)
    /\ cpu # "none" => task[cpu].pc # "idle" /\ task[cpu].delay = 0
    /\ got \in Contents
    /\ stored \in [Sectors -> Data \cup {Erased, Unknown}]
    /\ trusted \in BOOLEAN

\* A sector holds what the last call that changed it was to leave there,
\* whatever other tasks do to other sectors and whenever the board restarts;
\* the exceptions are calls that a restart cut off, that shared the driver
\* with another task's command, or whose chip was slower than the driver's
\* patience - and a slow erase is made up for by the poll of the write
\* (w25qxx_write, BSP_QSPI_EraseBlock, BSP_QSPI_Write, QSPI_ResetMemory).
StoredIsThere ==
    \A s \in Sectors : stored[s] # Unknown => \A p \in 1 .. Pages : mem[s][p] = stored[s]

\* After an initialisation nobody disturbed, driver and chip agree on the bus
\* mode, whatever mode and operation the restart left the chip in
\* (QSPI_ResetMemory resets it in both modes, BSP_QSPI_ConfigFlash).
ModeAgrees == trusted => chip.mode = "QPI" /\ InterfaceMode = "QPI"

-----------------------------------------------------------------------------
\* The call under way, as the file system sees it.
Writing ==
    IF \E t \in Tasks : task[t].op = "write"
    THEN LET t == CHOOSE t \in Tasks : task[t].op = "write"
         IN  [sector |-> task[t].sector, data |-> task[t].data]
    ELSE [sector |-> Unknown, data |-> Unknown]

FatFsDisk == INSTANCE Disk WITH disk <- stored, writing <- Writing

\* For a single task, with a chip within the driver's patience, the drive is
\* the disk FatFs relies on (diskio.c, w25qxx_diskio.c): what was written is
\* read back, a restart costs only the sector being written, and every write
\* returns.
IsDisk == FatFsDisk!Spec
=============================================================================
