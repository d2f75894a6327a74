----------------------------- MODULE QspiProofs -----------------------------
(***************************************************************************)
(* For any number of tasks, sectors and pages, any times of the polls and  *)
(* any durations of the chip: a sector holds what the last call that       *)
(* nothing spoiled was to leave there, and an initialisation nobody        *)
(* disturbed leaves driver and chip in the same bus mode.  For the file    *)
(* system alone, the drive implements the disk FatFs relies on.            *)
(***************************************************************************)
EXTENDS QspiFlash, TLAPS

Mounting == {"resetPoll", "initPoll"}
Calling == {"erasePoll", "eraseWait", "pagePoll", "pageWait"}
Modes == {"SPI", "QPI"}
Stored == Data \cup {Erased, Mixed}
OpType == [sectors : SUBSET Sectors, pages : SUBSET (1 .. Pages), val : Stored]

TaskType ==
    [pc : {"idle"} \cup Mounting \cup Calling,
     op : {"none", "write", "program", "erase", "chip"},
     sector : Sectors \cup {Unknown}, data : Data \cup {Unknown}, page : 1 .. Pages,
     cnt : Nat, delay : Nat, mode : Modes, sound : BOOLEAN,
     base : Data \cup {Erased, Unknown}]

\* The calls that program pages.
Programs(t) == task[t].op \in {"write", "program"}

\* A call has the operation its place belongs to.
TaskOK(t) ==
    /\ task[t].pc \in Calling =>
         task[t].op # "none" /\ task[t].sector \in Sectors /\ task[t].data \in Data
    /\ task[t].pc \in {"erasePoll", "eraseWait"} => task[t].op # "program"
    /\ task[t].pc \in {"pagePoll", "pageWait"} => Programs(t)
    /\ task[t].pc \notin Calling => task[t].op = "none"
    /\ task[t].pc \notin {"pagePoll", "pageWait"} => task[t].page = 1
    /\ task[t].delay <= task[t].cnt
    /\ task[t].cnt < Timeout(task[t].pc) + Check(task[t].pc)

\* Every variable and every field has its type.
Typed ==
    /\ TypeOK
    /\ task \in [Tasks -> TaskType]
    /\ cpu \in Tasks \cup {"none"}
    /\ \A t \in Tasks : TaskOK(t)

\* Only one task initialises; calls that nothing spoiled need an initialisation
\* that nothing spoiled, and found both sides in QPI.
ModeInv ==
    /\ ~is_initialized =>
         InterfaceMode = "SPI" /\ ~trusted /\ \A t \in Tasks : task[t].pc = "idle"
    /\ trusted =>
         ModeAgrees /\ \A t \in Tasks : task[t].pc \notin Mounting
    /\ \A t \in Tasks :
         /\ task[t].pc \in Mounting =>
              /\ chip.mode = "SPI" /\ InterfaceMode = "SPI" /\ task[t].mode = "SPI"
              /\ \A o \in Tasks \ {t} : task[o].pc \notin Mounting
         /\ task[t].pc \in Calling /\ task[t].sound => trusted /\ task[t].mode = "QPI"

\* A poll that nothing spoiled sees the chip ready in time: the counter is a
\* number of checks, and the chip is not busy for longer than what is left.
\* The wait of a write for its erase may end early, not too early for the next.
Left(t, limit) == chip.busy = 0 \/ chip.busy + task[t].cnt <= limit + task[t].delay

Cap(pc) == Patience(Check(pc), Timeout(pc))

Counted(t) ==
    \E k \in 0 .. (Timeout(task[t].pc) - 1) \div Check(task[t].pc) :
        task[t].cnt = k * Check(task[t].pc)

InTime(t) ==
    IF task[t].pc = "eraseWait" /\ task[t].op = "write"
    THEN Left(t, EraseTimeout + Cap("pagePoll"))
    ELSE Left(t, Cap(task[t].pc)) /\ Counted(t)

TimeInv == \A t \in Tasks : task[t].pc # "idle" /\ task[t].sound => InTime(t)

\* What a page will hold when the chip is ready.
Pending(s) == chip.busy > 0 /\ s \in chip.op.sectors
Eventually(s, p) ==
    IF Pending(s) /\ p \in chip.op.pages THEN chip.op.val ELSE mem[s][p]

\* A settled sector is not worked on, by the chip or by a call.
SettledInv ==
    /\ \A s \in Sectors : stored[s] # Unknown =>
         /\ ~Pending(s)
         /\ \A p \in 1 .. Pages : mem[s][p] = stored[s]
    /\ \A t \in Tasks : task[t].pc \in Calling =>
         \A s \in Touches(task[t].op, task[t].sector) : stored[s] = Unknown

\* How far a call that nothing spoiled has come.
Written(t, done) ==
    \A p \in 1 .. Pages :
        Eventually(task[t].sector, p) = IF p <= done THEN task[t].data ELSE Erased

Progress(t) ==
    /\ task[t].pc = "eraseWait" =>
         \A s \in Touches(task[t].op, task[t].sector), p \in 1 .. Pages :
             Eventually(s, p) = Erased
    /\ task[t].op = "write" \/ task[t].base = Erased =>
         /\ task[t].pc = "pagePoll" => Written(t, task[t].page - 1)
         /\ task[t].pc = "pageWait" => Written(t, task[t].page)

ProgressInv == \A t \in Tasks : task[t].sound => Progress(t)

IInv == Typed /\ ModeInv /\ TimeInv /\ SettledInv /\ ProgressInv
-----------------------------------------------------------------------------
(* Types.                                                                  *)

LEMMA Constants ==
    /\ \A x \in {BusyCheck, EraseCheck, ProgramCheck, Pages, EraseMax, ProgramMax,
                 BusyTimeout, EraseTimeout, ProgramTimeout} : x \in Nat /\ x >= 1
    /\ \A pc : Check(pc) \in Nat /\ Check(pc) >= 1 /\ Timeout(pc) \in Nat /\ Timeout(pc) >= 1
    /\ 1 \in 1 .. Pages
    /\ Erased \in Stored /\ Mixed \in Stored /\ Data \subseteq Stored
    /\ Unknown \notin Stored /\ "none" \notin Tasks
<1>1. \A x \in {BusyCheck, EraseCheck, ProgramCheck, Pages, EraseMax, ProgramMax,
                BusyTimeout, EraseTimeout, ProgramTimeout} : x \in Nat /\ x >= 1
  BY TimesAssumption
<1>2. ASSUME NEW pc
      PROVE  Check(pc) \in Nat /\ Check(pc) >= 1 /\ Timeout(pc) \in Nat /\ Timeout(pc) >= 1
  <2>1. CASE pc = "eraseWait"
    BY <1>1, <2>1 DEF Check, Timeout
  <2>2. CASE pc = "pageWait"
    BY <1>1, <2>2 DEF Check, Timeout
  <2>3. CASE pc \notin {"eraseWait", "pageWait"}
    BY <1>1, <2>3 DEF Check, Timeout
  <2> QED BY <2>1, <2>2, <2>3
<1>3. Unknown \notin Stored
  BY NamesAssumption DEF Stored, Unknown, Erased, Mixed
<1> QED BY <1>1, <1>2, <1>3, NamesAssumption DEF Stored

\* A poll is a call at its place with the counter and the delay reset.
LEMMA PollsType ==
    ASSUME NEW t \in Tasks, task[t] \in TaskType, InterfaceMode \in Modes,
           NEW pc \in Mounting \cup Calling
    PROVE  /\ Polls(t, pc) \in TaskType
           /\ Polls(t, pc).pc = pc /\ Polls(t, pc).cnt = 0 /\ Polls(t, pc).delay = 0
           /\ Polls(t, pc).mode = InterfaceMode
           /\ Polls(t, pc).op = task[t].op /\ Polls(t, pc).sector = task[t].sector
           /\ Polls(t, pc).data = task[t].data /\ Polls(t, pc).page = task[t].page
           /\ Polls(t, pc).sound = task[t].sound /\ Polls(t, pc).base = task[t].base
BY DEF Polls, TaskType

\* The history mark of a call changes nothing else.
LEMMA SoundType ==
    ASSUME NEW rec \in TaskType, NEW b \in BOOLEAN
    PROVE  LET r == [rec EXCEPT !.sound = b]
           IN  /\ r \in TaskType /\ r.sound = b
               /\ r.pc = rec.pc /\ r.cnt = rec.cnt /\ r.delay = rec.delay /\ r.mode = rec.mode
               /\ r.op = rec.op /\ r.sector = rec.sector /\ r.data = rec.data
               /\ r.page = rec.page /\ r.base = rec.base
BY DEF TaskType

LEMMA IdleType == Idle \in TaskType
BY Constants DEF Idle, TaskType, Modes

\* Every field of o but sound is as it was, and sound at most is lost.
Same(o) ==
    /\ task'[o] \in TaskType
    /\ task'[o].pc = task[o].pc /\ task'[o].op = task[o].op
    /\ task'[o].sector = task[o].sector /\ task'[o].data = task[o].data
    /\ task'[o].page = task[o].page /\ task'[o].cnt = task[o].cnt
    /\ task'[o].delay = task[o].delay /\ task'[o].mode = task[o].mode
    /\ task'[o].base = task[o].base
    /\ task'[o].sound => task[o].sound

\* What an action of t does to the others: nothing, or it spoils their calls.
LEMMA OneMoves ==
    ASSUME task \in [Tasks -> TaskType], NEW t \in Tasks, NEW rec \in TaskType,
           task' = [task EXCEPT ![t] = rec]
    PROVE  /\ task' \in [Tasks -> TaskType] /\ task'[t] = rec
           /\ \A o \in Tasks \ {t} : Same(o) /\ task'[o] = task[o]
BY DEF Same

LEMMA GoesSpoils ==
    ASSUME task \in [Tasks -> TaskType], NEW t \in Tasks, NEW rec \in TaskType, Goes(t, rec)
    PROVE  /\ task' \in [Tasks -> TaskType] /\ task'[t] = rec
           /\ \A o \in Tasks \ {t} : Same(o) /\ (task[o].pc # "idle" => ~task'[o].sound)
<1>1. ASSUME NEW o \in Tasks \ {t}
      PROVE  Same(o) /\ (task[o].pc # "idle" => ~task'[o].sound)
  <2>1. task[o] \in TaskType
    OBVIOUS
  <2>2. CASE task[o].pc = "idle"
    <3>1. task'[o] = task[o]
      BY <2>2 DEF Goes
    <3> QED BY <2>1, <2>2, <3>1 DEF Same
  <2>3. CASE task[o].pc # "idle"
    <3>1. task'[o] = [task[o] EXCEPT !.sound = FALSE]
      BY <2>3 DEF Goes
    <3> QED BY <2>1, <3>1 DEF Same, TaskType
  <2> QED BY <2>2, <2>3
<1>2. task'[t] = rec /\ task' = [o \in Tasks |-> task'[o]]
  BY DEF Goes
<1>3. \A o \in Tasks : task'[o] \in TaskType
  BY <1>1, <1>2 DEF Same
<1> QED BY <1>1, <1>2, <1>3

ChipType == [mode : Modes, busy : Nat, op : OpType]
MemType == [Sectors -> [1 .. Pages -> Stored]]

LEMMA TypedParts ==
    ASSUME Typed
    PROVE  /\ chip \in ChipType /\ mem \in MemType
           /\ is_initialized \in BOOLEAN /\ InterfaceMode \in Modes
           /\ task \in [Tasks -> TaskType] /\ \A t \in Tasks : TaskOK(t)
           /\ cpu \in Tasks \cup {"none"}
           /\ cpu # "none" => task[cpu].pc # "idle" /\ task[cpu].delay = 0
           /\ got \in Contents /\ stored \in [Sectors -> Data \cup {Erased, Unknown}]
           /\ trusted \in BOOLEAN
BY DEF Typed, TypeOK, ChipType, MemType, OpType, Modes, Stored

\* Typed from its parts after a step.
LEMMA TypedFrom ==
    ASSUME chip' \in ChipType, mem' \in MemType,
           is_initialized' \in BOOLEAN, InterfaceMode' \in Modes,
           task' \in [Tasks -> TaskType], \A t \in Tasks : TaskOK(t)',
           cpu' \in Tasks \cup {"none"},
           cpu' # "none" => task'[cpu'].pc # "idle" /\ task'[cpu'].delay = 0,
           got' \in Contents, stored' \in [Sectors -> Data \cup {Erased, Unknown}],
           trusted' \in BOOLEAN
    PROVE  Typed'
BY DEF Typed, TypeOK, ChipType, MemType, OpType, Modes, Stored, TaskOK, TaskType

LEMMA NothingType == Nothing \in OpType
BY Constants DEF Nothing, OpType

LEMMA StartType ==
    ASSUME Typed, NEW op \in OpType, NEW n \in Nat, Start(op, n)
    PROVE  chip' \in ChipType /\ mem' \in MemType
<1>1. chip \in ChipType /\ mem \in MemType
  BY TypedParts
<1>2. CASE Accepted
  <2>1. chip' = [chip EXCEPT !.busy = n, !.op = op] /\ mem' = Working(op)
    BY <1>2 DEF Start
  <2>2. chip' \in ChipType
    BY <1>1, <2>1 DEF ChipType
  <2>3. mem' \in MemType
    BY <1>1, <2>1, Constants DEF MemType, Working
  <2> QED BY <2>2, <2>3
<1>3. CASE ~Accepted
  BY <1>1, <1>3 DEF Start
<1> QED BY <1>2, <1>3

LEMMA ResetType ==
    ASSUME Typed, NEW mode, ResetChip(mode)
    PROVE  chip' \in ChipType
<1>1. chip \in ChipType
  BY TypedParts
<1>2. CASE chip.mode = mode
  <2>1. PICK b \in 0 .. 1 : chip' = [mode |-> "SPI", busy |-> b, op |-> Nothing]
    BY <1>2 DEF ResetChip
  <2> QED BY <2>1, NothingType DEF ChipType, Modes
<1>3. CASE chip.mode # mode
  BY <1>1, <1>3 DEF ResetChip
<1> QED BY <1>2, <1>3

\* A task outside a call.
LEMMA IdleOK ==
    ASSUME NEW t, task[t] = Idle
    PROVE  TaskOK(t)
<1>1. /\ task[t].pc = "idle" /\ task[t].op = "none" /\ task[t].page = 1
      /\ task[t].delay = 0 /\ task[t].cnt = 0
  BY DEF Idle
<1>2. 0 < Timeout("idle") + Check("idle")
  BY Constants
<1> QED BY <1>1, <1>2 DEF TaskOK, Calling, Programs

LEMMA IdleOKNext ==
    ASSUME NEW t, task'[t] = Idle
    PROVE  TaskOK(t)'
<1>1. /\ task'[t].pc = "idle" /\ task'[t].op = "none" /\ task'[t].page = 1
      /\ task'[t].delay = 0 /\ task'[t].cnt = 0
  BY DEF Idle
<1>2. 0 < Timeout("idle") + Check("idle")
  BY Constants
<1> QED BY <1>1, <1>2 DEF TaskOK, Calling, Programs

\* The others keep what they had.
LEMMA SameOK ==
    ASSUME NEW o \in Tasks, TaskOK(o), Same(o)
    PROVE  TaskOK(o)'
BY DEF Same, TaskOK, Programs

\* A poll of t that begins: what t must bring along.
LEMMA TypedPoll ==
    ASSUME Typed, NEW t \in Tasks, task' \in [Tasks -> TaskType],
           \A o \in Tasks \ {t} : Same(o),
           task'[t].pc \in Mounting \cup Calling, task'[t].cnt = 0, task'[t].delay = 0,
           TaskOK(t)',
           chip' \in ChipType, mem' \in MemType, is_initialized' \in BOOLEAN,
           InterfaceMode' \in Modes, cpu' = t, got' = got, trusted' = trusted,
           stored' \in [Sectors -> Data \cup {Erased, Unknown}]
    PROVE  Typed'
<1>1. \A o \in Tasks : TaskOK(o)'
  BY SameOK, TypedParts
<1>2. t # "none" /\ task'[t].pc # "idle"
  BY Constants DEF Mounting, Calling
<1> QED BY <1>1, <1>2, TypedParts, TypedFrom

LEMMA InitTyped == Init => Typed
<1> SUFFICES ASSUME Init PROVE Typed
  OBVIOUS
<1>1. task \in [Tasks -> TaskType] /\ \A t \in Tasks : task[t] = Idle
  BY IdleType DEF Init
<1>2. \A t \in Tasks : TaskOK(t)
  <2> SUFFICES ASSUME NEW t \in Tasks PROVE TaskOK(t)
    OBVIOUS
  <2>1. task[t] = Idle
    BY <1>1
  <2> QED BY <2>1, IdleOK
<1>3. TypeOK
  <2>1. \A t \in Tasks : /\ task[t].page \in 1 .. Pages
                         /\ task[t].delay <= task[t].cnt
                         /\ task[t].cnt < Timeout(task[t].pc) + Check(task[t].pc)
    BY <1>1, <1>2, Constants DEF TaskOK, TaskType
  <2>2. chip \in ChipType
    BY NothingType DEF Init, ChipType, Modes
  <2> QED BY <2>1, <2>2, Constants DEF Init, TypeOK, ChipType, OpType, Modes, Stored, Contents
<1> QED BY <1>1, <1>2, <1>3 DEF Typed, Init

LEMMA TickTyped == Typed /\ Tick => Typed'
<1> SUFFICES ASSUME Typed, Tick PROVE Typed'
  OBVIOUS
<1>1. /\ chip \in ChipType /\ mem \in MemType /\ task \in [Tasks -> TaskType]
      /\ \A t \in Tasks : TaskOK(t)
  BY TypedParts
<1>2. chip' \in ChipType /\ mem' \in MemType
  <2>1. CASE chip.busy = 1
    <3>1. chip' = [chip EXCEPT !.busy = 0, !.op = Nothing] /\ mem' = Finished(chip.op)
      BY <2>1 DEF Tick
    <3> QED BY <1>1, <3>1, NothingType DEF ChipType, MemType, Finished, OpType
  <2>2. CASE chip.busy # 1
    <3>1. chip' = [chip EXCEPT !.busy = IF @ > 0 THEN @ - 1 ELSE 0] /\ mem' = mem
      BY <2>2 DEF Tick
    <3> QED BY <1>1, <3>1 DEF ChipType
  <2> QED BY <2>1, <2>2
<1>3. ASSUME NEW t \in Tasks
      PROVE  task'[t] \in TaskType /\ TaskOK(t)'
  <2>1. task'[t] = [task[t] EXCEPT !.delay = IF @ > 0 THEN @ - 1 ELSE 0] /\ task[t] \in TaskType
    BY <1>1 DEF Tick
  <2>2. /\ task'[t] \in TaskType
        /\ task'[t].pc = task[t].pc /\ task'[t].op = task[t].op
        /\ task'[t].sector = task[t].sector /\ task'[t].data = task[t].data
        /\ task'[t].page = task[t].page /\ task'[t].cnt = task[t].cnt
        /\ task'[t].delay <= task[t].delay
        /\ task'[t].delay \in Nat /\ task[t].delay \in Nat /\ task[t].cnt \in Nat
    BY <2>1 DEF TaskType
  <2>3. TaskOK(t)
    BY <1>1
  <2> QED BY <2>2, <2>3 DEF TaskOK, Programs
<1>4. task' \in [Tasks -> TaskType]
  BY <1>3 DEF Tick
<1>5. UNCHANGED <<is_initialized, InterfaceMode, cpu, got, stored, trusted>> /\ cpu = "none"
  BY DEF Tick, drv
<1> QED BY <1>2, <1>3, <1>4, <1>5, TypedParts, TypedFrom

LEMMA CrashTyped == Typed /\ Crash => Typed'
<1> SUFFICES ASSUME Typed, Crash PROVE Typed'
  OBVIOUS
<1>1. task' \in [Tasks -> TaskType] /\ \A t \in Tasks : task'[t] = Idle
  BY IdleType DEF Crash
<1>2. \A t \in Tasks : TaskOK(t)'
  BY <1>1, IdleOKNext
<1>3. chip' \in ChipType
  <2>1. CASE chip' = chip
    BY <2>1, TypedParts
  <2>2. CASE chip' = [mode |-> "SPI", busy |-> 0, op |-> Nothing]
    BY <2>2, NothingType DEF ChipType, Modes
  <2> QED BY <2>1, <2>2 DEF Crash
<1>4. UNCHANGED <<mem, got, stored>> /\ cpu' = "none" /\ is_initialized' = FALSE
      /\ InterfaceMode' = "SPI" /\ trusted' = FALSE
  BY DEF Crash
<1> QED BY <1>1, <1>2, <1>3, <1>4, TypedParts, TypedFrom DEF Modes

LEMMA ReadTyped ==
    ASSUME Typed, NEW t \in Tasks, NEW s \in Sectors, Read(t, s)
    PROVE  Typed'
<1>1. got' \in Contents
  <2>1. mem[s][1] \in Stored
    BY TypedParts, Constants DEF MemType
  <2>2. Content(s) \in Stored
    BY <2>1, Constants DEF Content
  <2> QED BY <2>2 DEF Read, Contents, Stored
<1>2. UNCHANGED <<chip, mem, is_initialized, InterfaceMode, task, cpu, stored, trusted>>
  BY DEF Read, drv
<1>3. \A o \in Tasks : TaskOK(o)'
  BY <1>2, TypedParts DEF TaskOK, Programs
<1> QED BY <1>1, <1>2, <1>3, TypedParts, TypedFrom

(* What each step of a call does to the task that takes it and to the others. *)

\* t alone moves on; the others keep their places.
Moved(t) == task' \in [Tasks -> TaskType] /\ \A o \in Tasks \ {t} : Same(o)

\* t is at the beginning of a poll of the same call.
AtPoll(t, pc) ==
    /\ task'[t].pc = pc /\ task'[t].cnt = 0 /\ task'[t].delay = 0
    /\ task'[t].mode = InterfaceMode
    /\ task'[t].op = task[t].op /\ task'[t].sector = task[t].sector
    /\ task'[t].data = task[t].data /\ task'[t].base = task[t].base

\* The calls of the others are spoiled, or none of them is touched.
Spoiled(t) == \A o \in Tasks \ {t} : task[o].pc # "idle" => ~task'[o].sound
Spared(t) == \A o \in Tasks \ {t} : task'[o] = task[o]

\* Three actions send a command and begin a poll with a new mark.
LEMMA CommandPoll ==
    ASSUME Typed, NEW t \in Tasks, NEW pc \in Mounting \cup Calling, NEW b \in BOOLEAN,
           Goes(t, [Polls(t, pc) EXCEPT !.sound = b])
    PROVE  /\ Moved(t) /\ Spoiled(t) /\ AtPoll(t, pc) /\ task'[t].page = task[t].page
           /\ task'[t].sound <=> b
<1> DEFINE old == Polls(t, pc)
           rec == [old EXCEPT !.sound = b]
<1>1. /\ old \in TaskType /\ old.pc = pc /\ old.cnt = 0
      /\ old.delay = 0 /\ old.mode = InterfaceMode
      /\ old.op = task[t].op /\ old.sector = task[t].sector
      /\ old.data = task[t].data /\ old.page = task[t].page /\ old.base = task[t].base
  BY TypedParts, PollsType
<1>2. Goes(t, rec)
  OBVIOUS
<1> HIDE DEF old
<1>3. /\ rec \in TaskType /\ rec.sound = b /\ rec.pc = old.pc /\ rec.cnt = old.cnt
      /\ rec.delay = old.delay /\ rec.mode = old.mode /\ rec.op = old.op
      /\ rec.sector = old.sector /\ rec.data = old.data /\ rec.page = old.page
      /\ rec.base = old.base
  BY <1>1, SoundType
<1> HIDE DEF rec
<1>4. /\ task' \in [Tasks -> TaskType] /\ task'[t] = rec
      /\ \A o \in Tasks \ {t} : Same(o) /\ (task[o].pc # "idle" => ~task'[o].sound)
  BY <1>2, <1>3, TypedParts, GoesSpoils
<1>5. task'[t].sound <=> b
  BY <1>3, <1>4
<1> QED BY <1>1, <1>3, <1>4, <1>5 DEF Moved, Spoiled, AtPoll

\* Two actions begin the next poll without a command.
LEMMA MovePoll ==
    ASSUME Typed, NEW t \in Tasks, NEW pc \in Mounting \cup Calling, NEW n \in 1 .. Pages,
           \/ n = task[t].page /\ task' = [task EXCEPT ![t] = Polls(t, pc)]
           \/ task' = [task EXCEPT ![t] = [Polls(t, pc) EXCEPT !.page = n]]
    PROVE  /\ Moved(t) /\ Spared(t) /\ AtPoll(t, pc) /\ task'[t].page = n
           /\ task'[t].sound = task[t].sound
<1> DEFINE old == Polls(t, pc)
           rec == [old EXCEPT !.page = n]
<1>1. /\ old \in TaskType /\ old.pc = pc /\ old.cnt = 0
      /\ old.delay = 0 /\ old.mode = InterfaceMode /\ old.sound = task[t].sound
      /\ old.op = task[t].op /\ old.sector = task[t].sector
      /\ old.data = task[t].data /\ old.page = task[t].page /\ old.base = task[t].base
  BY TypedParts, PollsType
<1>2. \/ task' = [task EXCEPT ![t] = old] /\ n = task[t].page
      \/ task' = [task EXCEPT ![t] = rec]
  OBVIOUS
<1> HIDE DEF old
<1>3. /\ rec \in TaskType /\ rec.page = n /\ rec.pc = old.pc /\ rec.cnt = old.cnt
      /\ rec.delay = old.delay /\ rec.mode = old.mode /\ rec.op = old.op
      /\ rec.sector = old.sector /\ rec.data = old.data /\ rec.sound = old.sound
      /\ rec.base = old.base
  BY <1>1 DEF TaskType
<1> HIDE DEF rec
<1>4. \/ task'[t] = rec
      \/ task'[t] = old /\ n = task[t].page
  BY <1>2, TypedParts
<1>5. task' \in [Tasks -> TaskType] /\ \A o \in Tasks \ {t} : Same(o) /\ task'[o] = task[o]
  <2>1. CASE task' = [task EXCEPT ![t] = rec]
    BY <2>1, <1>3, TypedParts, OneMoves
  <2>2. CASE task' = [task EXCEPT ![t] = old]
    BY <2>2, <1>1, TypedParts, OneMoves
  <2> QED BY <1>2, <2>1, <2>2
<1> QED BY <1>1, <1>3, <1>4, <1>5 DEF Moved, Spared, AtPoll

LEMMA MountDoes ==
    ASSUME Typed, NEW t \in Tasks, Mount(t)
    PROVE  /\ Moved(t) /\ Spoiled(t) /\ AtPoll(t, "resetPoll") /\ task'[t].page = task[t].page
           /\ task'[t].sound <=> (chip.mode = "QPI" \/ chip.busy <= Patience(BusyCheck, BusyTimeout))
BY CommandPoll DEF Mount, Mounting

LEMMA SecondResetDoes ==
    ASSUME Typed, NEW t \in Tasks, SecondReset(t)
    PROVE  /\ Moved(t) /\ Spoiled(t) /\ AtPoll(t, "initPoll")
           /\ task'[t].page = task[t].page /\ task'[t].sound = task[t].sound
<1>1. /\ Polls(t, "initPoll") \in TaskType /\ Polls(t, "initPoll").pc = "initPoll"
      /\ Polls(t, "initPoll").cnt = 0 /\ Polls(t, "initPoll").delay = 0
      /\ Polls(t, "initPoll").mode = InterfaceMode
      /\ Polls(t, "initPoll").op = task[t].op /\ Polls(t, "initPoll").sector = task[t].sector
      /\ Polls(t, "initPoll").data = task[t].data /\ Polls(t, "initPoll").page = task[t].page
      /\ Polls(t, "initPoll").sound = task[t].sound /\ Polls(t, "initPoll").base = task[t].base
  BY TypedParts, PollsType DEF Mounting
<1>2. Goes(t, Polls(t, "initPoll"))
  BY DEF SecondReset
<1>3. /\ task' \in [Tasks -> TaskType] /\ task'[t] = Polls(t, "initPoll")
      /\ \A o \in Tasks \ {t} : Same(o) /\ (task[o].pc # "idle" => ~task'[o].sound)
  BY <1>1, <1>2, TypedParts, GoesSpoils
<1> QED BY <1>1, <1>3 DEF Moved, Spoiled, AtPoll

LEMMA SendEraseDoes ==
    ASSUME Typed, NEW t \in Tasks, SendErase(t)
    PROVE  \E n \in 1 .. EraseMax :
             /\ Start([sectors |-> Touches(task[t].op, task[t].sector),
                       pages |-> 1 .. Pages, val |-> Erased], n)
             /\ Moved(t) /\ Spoiled(t) /\ AtPoll(t, "eraseWait") /\ task'[t].page = task[t].page
             /\ task'[t].sound <=> (task[t].sound /\ n <= EraseLimit(task[t].op))
<1>1. PICK n \in 1 .. EraseMax :
        /\ Start([sectors |-> Touches(task[t].op, task[t].sector),
                  pages |-> 1 .. Pages, val |-> Erased], n)
        /\ Goes(t, [Polls(t, "eraseWait") EXCEPT !.sound = @ /\ n <= EraseLimit(task[t].op)])
  BY DEF SendErase
<1> DEFINE b == Polls(t, "eraseWait").sound /\ n <= EraseLimit(task[t].op)
<1>2. Goes(t, [Polls(t, "eraseWait") EXCEPT !.sound = b]) /\ b \in BOOLEAN
  BY <1>1
<1>3. Polls(t, "eraseWait").sound = task[t].sound
  BY TypedParts, PollsType DEF Calling
<1>4. b <=> (task[t].sound /\ n <= EraseLimit(task[t].op))
  BY <1>3
<1> HIDE DEF b
<1>5. /\ Moved(t) /\ Spoiled(t) /\ AtPoll(t, "eraseWait") /\ task'[t].page = task[t].page
      /\ task'[t].sound <=> b
  BY <1>2, CommandPoll DEF Calling
<1> QED BY <1>1, <1>4, <1>5

LEMMA SendPageDoes ==
    ASSUME Typed, NEW t \in Tasks, SendPage(t)
    PROVE  \E n \in 1 .. ProgramMax :
             /\ Start([sectors |-> {task[t].sector}, pages |-> {task[t].page},
                       val |-> Programmed(mem[task[t].sector][task[t].page], task[t].data)], n)
             /\ Moved(t) /\ Spoiled(t) /\ AtPoll(t, "pageWait") /\ task'[t].page = task[t].page
             /\ task'[t].sound <=> (task[t].sound /\ n <= Patience(ProgramCheck, ProgramTimeout))
<1>1. PICK n \in 1 .. ProgramMax :
        /\ Start([sectors |-> {task[t].sector}, pages |-> {task[t].page},
                  val |-> Programmed(mem[task[t].sector][task[t].page], task[t].data)], n)
        /\ Goes(t, [Polls(t, "pageWait") EXCEPT
                      !.sound = @ /\ n <= Patience(ProgramCheck, ProgramTimeout)])
  BY DEF SendPage
<1> DEFINE b == Polls(t, "pageWait").sound /\ n <= Patience(ProgramCheck, ProgramTimeout)
<1>2. Goes(t, [Polls(t, "pageWait") EXCEPT !.sound = b]) /\ b \in BOOLEAN
  BY <1>1
<1>3. Polls(t, "pageWait").sound = task[t].sound
  BY TypedParts, PollsType DEF Calling
<1>4. b <=> (task[t].sound /\ n <= Patience(ProgramCheck, ProgramTimeout))
  BY <1>3
<1> HIDE DEF b
<1>5. /\ Moved(t) /\ Spoiled(t) /\ AtPoll(t, "pageWait") /\ task'[t].page = task[t].page
      /\ task'[t].sound <=> b
  BY <1>2, CommandPoll DEF Calling
<1> QED BY <1>1, <1>4, <1>5

\* The end of an initialisation or of a call.
LEMMA EndsDoes ==
    ASSUME Typed, NEW t \in Tasks, task' = [task EXCEPT ![t] = Idle]
    PROVE  Moved(t) /\ Spared(t) /\ task'[t] = Idle
BY IdleType, TypedParts, OneMoves DEF Moved, Spared

LEMMA PollBusyDoes ==
    ASSUME Typed, NEW t \in Tasks, PollBusy(t)
    PROVE  /\ Moved(t) /\ Spared(t)
           /\ task'[t].pc = task[t].pc /\ task'[t].op = task[t].op
           /\ task'[t].sector = task[t].sector /\ task'[t].data = task[t].data
           /\ task'[t].page = task[t].page /\ task'[t].mode = task[t].mode
           /\ task'[t].sound = task[t].sound /\ task'[t].base = task[t].base
           /\ task'[t].delay = Check(task[t].pc)
           /\ task'[t].cnt = task[t].cnt + Check(task[t].pc)
<1> DEFINE old == task[t]
           n == Check(old.pc)
           rec == [old EXCEPT !.delay = n, !.cnt = old.cnt + n]
<1>1. old \in TaskType /\ n \in Nat
  BY TypedParts, Constants
<1>2. task' = [task EXCEPT ![t] = rec]
  BY TypedParts DEF PollBusy
<1>3. /\ old.pc = task[t].pc /\ old.op = task[t].op
      /\ old.sector = task[t].sector /\ old.data = task[t].data
      /\ old.page = task[t].page /\ old.mode = task[t].mode
      /\ old.sound = task[t].sound /\ old.base = task[t].base
      /\ n = Check(task[t].pc) /\ old.cnt = task[t].cnt
  OBVIOUS
<1> HIDE DEF old, n
<1> DEFINE mid == [old EXCEPT !.delay = n]
<1>4. /\ mid \in TaskType /\ mid.pc = old.pc /\ mid.op = old.op
      /\ mid.sector = old.sector /\ mid.data = old.data
      /\ mid.page = old.page /\ mid.mode = old.mode
      /\ mid.sound = old.sound /\ mid.base = old.base
      /\ mid.delay = n /\ mid.cnt = old.cnt
  BY <1>1 DEF TaskType
<1>5. rec = [mid EXCEPT !.cnt = old.cnt + n]
  BY <1>1 DEF TaskType
<1>6. old.cnt + n \in Nat
  BY <1>1 DEF TaskType
<1> HIDE DEF mid, rec
<1>7. /\ rec \in TaskType /\ rec.pc = old.pc /\ rec.op = old.op
      /\ rec.sector = old.sector /\ rec.data = old.data
      /\ rec.page = old.page /\ rec.mode = old.mode
      /\ rec.sound = old.sound /\ rec.base = old.base
      /\ rec.delay = n /\ rec.cnt = old.cnt + n
  BY <1>4, <1>5, <1>6 DEF TaskType
<1>8. /\ task' \in [Tasks -> TaskType] /\ task'[t] = rec
      /\ \A o \in Tasks \ {t} : Same(o) /\ task'[o] = task[o]
  BY <1>2, <1>7, TypedParts, OneMoves
<1> QED BY <1>3, <1>7, <1>8 DEF Moved, Spared

LEMMA BeginDoes ==
    ASSUME Typed, NEW t \in Tasks, NEW op, NEW s \in Sectors, NEW d \in Data, Begin(t, op, s, d)
    PROVE  /\ op \in {"write", "program", "erase", "chip"}
           /\ Moved(t) /\ Spared(t)
           /\ task'[t].pc = IF op = "program" THEN "pagePoll" ELSE "erasePoll"
           /\ task'[t].op = op /\ task'[t].sector = s /\ task'[t].data = d
           /\ task'[t].page = task[t].page /\ task'[t].base = stored[s]
           /\ task'[t].cnt = 0 /\ task'[t].delay = 0 /\ task'[t].mode = InterfaceMode
           /\ task'[t].sound <=> (trusted /\ chip.busy <= Patience(BusyCheck, BusyTimeout))
<1> DEFINE pc == IF op = "program" THEN "pagePoll" ELSE "erasePoll"
           b == trusted /\ chip.busy <= Patience(BusyCheck, BusyTimeout)
           old == Polls(t, pc)
           mid == [old EXCEPT !.op = op, !.sector = s, !.data = d, !.base = stored[s]]
           rec == [old EXCEPT !.op = op, !.sector = s, !.data = d, !.base = stored[s], !.sound = b]
<1>1. op \in {"write", "program", "erase", "chip"}
  BY OpsAssumption DEF Begin
<1>2. task' = [task EXCEPT ![t] = rec] /\ b \in BOOLEAN
  BY TypedParts DEF Begin
<1>3. pc \in Calling
  BY DEF Calling
<1> HIDE DEF b, pc
<1>4. /\ old \in TaskType /\ old.pc = pc /\ old.cnt = 0 /\ old.delay = 0
      /\ old.mode = InterfaceMode /\ old.page = task[t].page
  BY <1>3, TypedParts, PollsType
<1>5. stored[s] \in Data \cup {Erased, Unknown}
  BY TypedParts
<1> HIDE DEF old
<1>6. /\ mid \in TaskType /\ mid.pc = pc /\ mid.cnt = 0 /\ mid.delay = 0
      /\ mid.mode = InterfaceMode /\ mid.page = task[t].page
      /\ mid.op = op /\ mid.sector = s /\ mid.data = d /\ mid.base = stored[s]
  BY <1>1, <1>4, <1>5 DEF TaskType
<1>7. rec = [mid EXCEPT !.sound = b]
  BY <1>4 DEF TaskType
<1> HIDE DEF mid, rec
<1>8. /\ rec \in TaskType /\ rec.pc = pc /\ rec.cnt = 0 /\ rec.delay = 0 /\ rec.sound = b
      /\ rec.mode = InterfaceMode /\ rec.page = task[t].page
      /\ rec.op = op /\ rec.sector = s /\ rec.data = d /\ rec.base = stored[s]
  BY <1>2, <1>6, <1>7, SoundType
<1>9. task' \in [Tasks -> TaskType] /\ task'[t] = rec /\ Moved(t) /\ Spared(t)
  BY <1>2, <1>8, TypedParts, OneMoves DEF Moved, Spared
<1>10. task'[t].sound <=> b
  BY <1>8, <1>9
<1> QED BY <1>1, <1>8, <1>9, <1>10 DEF b, pc
-----------------------------------------------------------------------------
(* Type correctness, action by action.                                     *)

\* A poll begins in a call of its kind.
LEMMA PollOK ==
    ASSUME NEW t \in Tasks, NEW pc \in Mounting \cup Calling,
           task'[t].pc = pc, task'[t].cnt = 0, task'[t].delay = 0,
           pc \in Mounting => task'[t].op = "none",
           pc \in Calling => /\ task'[t].op # "none"
                             /\ task'[t].sector \in Sectors /\ task'[t].data \in Data,
           pc \in {"erasePoll", "eraseWait"} => task'[t].op # "program",
           pc \in {"pagePoll", "pageWait"} => task'[t].op \in {"write", "program"},
           pc \notin {"pagePoll", "pageWait"} => task'[t].page = 1
    PROVE  TaskOK(t)'
<1>1. 0 < Timeout(pc) + Check(pc)
  BY Constants
<1> QED BY <1>1 DEF TaskOK, Programs, Mounting, Calling

LEMMA MountTyped ==
    ASSUME Typed, NEW t \in Tasks, Mount(t)
    PROVE  Typed'
<1>1. Moved(t) /\ AtPoll(t, "resetPoll") /\ task'[t].page = task[t].page
  BY MountDoes
<1>2. TaskOK(t)'
  <2>1. task[t].op = "none" /\ task[t].page = 1
    BY TypedParts DEF Mount, TaskOK, Calling
  <2> QED BY <1>1, <2>1, PollOK DEF AtPoll, Mounting, Calling
<1>3. chip' \in ChipType
  BY ResetType DEF Mount
<1>4. UNCHANGED <<mem, InterfaceMode, got, stored, trusted>> /\ cpu' = t /\ is_initialized' = TRUE
  BY DEF Mount
<1> QED BY <1>1, <1>2, <1>3, <1>4, TypedParts, TypedPoll DEF Moved, AtPoll, Mounting

LEMMA SecondResetTyped ==
    ASSUME Typed, NEW t \in Tasks, SecondReset(t)
    PROVE  Typed'
<1>1. Moved(t) /\ AtPoll(t, "initPoll") /\ task'[t].page = task[t].page
  BY SecondResetDoes
<1>2. TaskOK(t)'
  <2>1. task[t].op = "none" /\ task[t].page = 1
    BY TypedParts DEF SecondReset, TaskOK, Calling
  <2> QED BY <1>1, <2>1, PollOK DEF AtPoll, Mounting, Calling
<1>3. chip' \in ChipType
  BY ResetType DEF SecondReset
<1>4. /\ UNCHANGED <<mem, is_initialized, got, stored, trusted>>
      /\ cpu' = t /\ InterfaceMode' = "SPI"
  BY DEF SecondReset
<1> QED BY <1>1, <1>2, <1>3, <1>4, TypedParts, TypedPoll DEF Moved, AtPoll, Mounting, Modes

LEMMA BeginTyped ==
    ASSUME Typed, NEW t \in Tasks, NEW op, NEW s \in Sectors, NEW d \in Data, Begin(t, op, s, d)
    PROVE  Typed'
<1>1. /\ op \in {"write", "program", "erase", "chip"} /\ Moved(t)
      /\ task'[t].pc = IF op = "program" THEN "pagePoll" ELSE "erasePoll"
      /\ task'[t].op = op /\ task'[t].sector = s /\ task'[t].data = d
      /\ task'[t].page = task[t].page /\ task'[t].cnt = 0 /\ task'[t].delay = 0
  BY BeginDoes
<1>2. TaskOK(t)'
  <2>1. task[t].page = 1
    BY TypedParts DEF Begin, TaskOK
  <2> QED BY <1>1, <2>1, PollOK DEF Mounting, Calling
<1>3. stored' \in [Sectors -> Data \cup {Erased, Unknown}]
  BY TypedParts DEF Begin
<1>4. UNCHANGED <<chip, mem, is_initialized, InterfaceMode, got, trusted>> /\ cpu' = t
  BY DEF Begin, drv
<1> QED BY <1>1, <1>2, <1>3, <1>4, TypedParts, TypedPoll DEF Moved, Calling

LEMMA PollBusyTyped ==
    ASSUME Typed, NEW t \in Tasks, PollBusy(t)
    PROVE  Typed'
<1>1. /\ Moved(t)
      /\ task'[t].pc = task[t].pc /\ task'[t].op = task[t].op
      /\ task'[t].sector = task[t].sector /\ task'[t].data = task[t].data
      /\ task'[t].page = task[t].page
      /\ task'[t].delay = Check(task[t].pc)
      /\ task'[t].cnt = task[t].cnt + Check(task[t].pc)
  BY PollBusyDoes
<1>2. TaskOK(t)'
  <2>1. /\ task[t].cnt \in Nat /\ Check(task[t].pc) \in Nat /\ Timeout(task[t].pc) \in Nat
        /\ task[t].cnt < Timeout(task[t].pc) /\ TaskOK(t)
    BY TypedParts, Constants DEF TaskType, PollBusy
  <2> QED BY <1>1, <2>1 DEF TaskOK, Programs
<1>3. \A o \in Tasks : TaskOK(o)'
  BY <1>1, <1>2, SameOK, TypedParts DEF Moved
<1>4. UNCHANGED <<chip, mem, is_initialized, InterfaceMode, got, stored, trusted>> /\ cpu' = "none"
  BY DEF PollBusy, drv
<1> QED BY <1>1, <1>3, <1>4, TypedParts, TypedFrom DEF Moved

LEMMA EndsTyped ==
    ASSUME Typed, NEW t \in Tasks, task' = [task EXCEPT ![t] = Idle], chip' \in ChipType,
           InterfaceMode' \in Modes, trusted' \in BOOLEAN, cpu' = "none",
           stored' \in [Sectors -> Data \cup {Erased, Unknown}],
           UNCHANGED <<mem, is_initialized, got>>
    PROVE  Typed'
<1>1. Moved(t) /\ task'[t] = Idle
  BY EndsDoes
<1>2. \A o \in Tasks : TaskOK(o)'
  BY <1>1, IdleOKNext, SameOK, TypedParts DEF Moved
<1> QED BY <1>1, <1>2, TypedParts, TypedFrom DEF Moved

LEMMA ConfigureTyped ==
    ASSUME Typed, NEW t \in Tasks, Configure(t)
    PROVE  Typed'
<1>1. chip' \in ChipType
  BY TypedParts DEF Configure, ChipType, Modes
<1>2. trusted' \in BOOLEAN
  BY TypedParts DEF Configure, TaskType
<1>3. /\ task' = [task EXCEPT ![t] = Idle] /\ InterfaceMode' = "QPI" /\ cpu' = "none"
      /\ UNCHANGED <<mem, is_initialized, got, stored>>
  BY DEF Configure
<1> QED BY <1>1, <1>2, <1>3, TypedParts, EndsTyped DEF Modes

LEMMA ReturnTyped ==
    ASSUME Typed, NEW t \in Tasks, task[t].pc \in Calling, Return(t)
    PROVE  Typed'
<1>1. Result(task[t]) \in Data \cup {Erased, Unknown}
  BY TypedParts DEF TaskOK, Result
<1>2. stored' \in [Sectors -> Data \cup {Erased, Unknown}]
  BY <1>1, TypedParts DEF Return
<1>3. /\ task' = [task EXCEPT ![t] = Idle] /\ cpu' = "none"
      /\ UNCHANGED <<chip, mem, is_initialized, InterfaceMode, got, trusted>>
  BY DEF Return, drv
<1> QED BY <1>2, <1>3, TypedParts, EndsTyped

LEMMA SendEraseTyped ==
    ASSUME Typed, NEW t \in Tasks, SendErase(t)
    PROVE  Typed'
<1>1. PICK n \in 1 .. EraseMax :
        /\ Start([sectors |-> Touches(task[t].op, task[t].sector),
                  pages |-> 1 .. Pages, val |-> Erased], n)
        /\ Moved(t) /\ AtPoll(t, "eraseWait") /\ task'[t].page = task[t].page
  BY SendEraseDoes
<1>2. task[t].pc = "erasePoll" /\ TaskOK(t)
  BY TypedParts DEF SendErase
<1>3. TaskOK(t)'
  BY <1>1, <1>2, PollOK DEF AtPoll, TaskOK, Mounting, Calling
<1>4. chip' \in ChipType /\ mem' \in MemType
  <2>1. [sectors |-> Touches(task[t].op, task[t].sector), pages |-> 1 .. Pages, val |-> Erased]
          \in OpType
    BY <1>2, Constants DEF OpType, Touches, TaskOK, Calling
  <2>2. n \in Nat
    BY Constants
  <2> QED BY <1>1, <2>1, <2>2, StartType
<1>5. UNCHANGED <<is_initialized, InterfaceMode, got, stored, trusted>> /\ cpu' = t
  BY DEF SendErase, drv
<1> QED BY <1>1, <1>3, <1>4, <1>5, TypedParts, TypedPoll DEF Moved, AtPoll, Calling

LEMMA SendPageTyped ==
    ASSUME Typed, NEW t \in Tasks, SendPage(t)
    PROVE  Typed'
<1> DEFINE val == Programmed(mem[task[t].sector][task[t].page], task[t].data)
<1>1. PICK n \in 1 .. ProgramMax :
        /\ Start([sectors |-> {task[t].sector}, pages |-> {task[t].page}, val |-> val], n)
        /\ Moved(t) /\ AtPoll(t, "pageWait") /\ task'[t].page = task[t].page
  BY SendPageDoes
<1>2. task[t].pc = "pagePoll" /\ TaskOK(t) /\ task[t].page \in 1 .. Pages
  BY TypedParts DEF SendPage, TaskType
<1>3. TaskOK(t)'
  BY <1>1, <1>2, PollOK DEF AtPoll, TaskOK, Programs, Mounting, Calling
<1>4. chip' \in ChipType /\ mem' \in MemType
  <2>1. val \in Stored
    BY <1>2, Constants DEF Programmed, TaskOK, Calling
  <2>2. [sectors |-> {task[t].sector}, pages |-> {task[t].page}, val |-> val] \in OpType
    BY <1>2, <2>1 DEF OpType, TaskOK, Calling
  <2>3. n \in Nat
    BY Constants
  <2> QED BY <1>1, <2>2, <2>3, StartType
<1>5. UNCHANGED <<is_initialized, InterfaceMode, got, stored, trusted>> /\ cpu' = t
  BY DEF SendPage, drv
<1> QED BY <1>1, <1>3, <1>4, <1>5, TypedParts, TypedPoll DEF Moved, AtPoll, Calling

\* The next poll of a call that goes on.
LEMMA OnwardTyped ==
    ASSUME Typed, NEW t \in Tasks, NEW n \in 1 .. Pages,
           Moved(t), AtPoll(t, "pagePoll"), task'[t].page = n,
           task[t].pc \in Calling, task[t].op \in {"write", "program"},
           cpu' = t, UNCHANGED <<chip, mem, is_initialized, InterfaceMode, got, stored, trusted>>
    PROVE  Typed'
<1>1. TaskOK(t)'
  BY TypedParts, PollOK DEF AtPoll, TaskOK, Mounting, Calling
<1> QED BY <1>1, TypedParts, TypedPoll DEF Moved, AtPoll, Calling

\* Whether EraseOver goes on or returns.
LEMMA EraseOverDoes ==
    ASSUME Typed, NEW t \in Tasks, EraseOver(t)
    PROVE  \/ /\ task[t].op = "write" /\ Moved(t) /\ Spared(t) /\ AtPoll(t, "pagePoll")
              /\ task'[t].page = 1 /\ task'[t].sound = task[t].sound /\ cpu' = t
              /\ UNCHANGED <<chip, mem, is_initialized, InterfaceMode, got, stored, trusted>>
           \/ task[t].op # "write" /\ Return(t)
<1>1. CASE task[t].op = "write"
  <2>1. task[t].page = 1
    BY TypedParts DEF EraseOver, TaskOK
  <2>2. /\ task' = [task EXCEPT ![t] = Polls(t, "pagePoll")] /\ cpu' = t
        /\ UNCHANGED <<chip, mem, is_initialized, InterfaceMode, got, stored, trusted>>
    BY <1>1 DEF EraseOver, drv
  <2>3. "pagePoll" \in Mounting \cup Calling /\ 1 \in 1 .. Pages
    BY Constants DEF Calling
  <2>4. /\ Moved(t) /\ Spared(t) /\ AtPoll(t, "pagePoll") /\ task'[t].page = 1
        /\ task'[t].sound = task[t].sound
    BY <2>1, <2>2, <2>3, MovePoll
  <2> QED BY <1>1, <2>2, <2>4
<1>2. CASE task[t].op # "write"
  BY <1>2 DEF EraseOver
<1> QED BY <1>1, <1>2

LEMMA PageStoredDoes ==
    ASSUME Typed, NEW t \in Tasks, PageStored(t)
    PROVE  \/ /\ task[t].page < Pages /\ Moved(t) /\ Spared(t) /\ AtPoll(t, "pagePoll")
              /\ task[t].page + 1 \in 1 .. Pages
              /\ task'[t].page = task[t].page + 1 /\ task'[t].sound = task[t].sound /\ cpu' = t
              /\ UNCHANGED <<chip, mem, is_initialized, InterfaceMode, got, stored, trusted>>
           \/ task[t].page = Pages /\ Return(t)
<1>0. task[t].page \in 1 .. Pages /\ Pages \in Nat
  BY TypedParts, Constants DEF TaskType
<1>1. CASE task[t].page < Pages
  <2> DEFINE n == task[t].page + 1
  <2>1. Polls(t, "pagePoll").page = task[t].page
    BY TypedParts, PollsType DEF Calling
  <2>2. /\ task' = [task EXCEPT ![t] = [Polls(t, "pagePoll") EXCEPT !.page = n]]
        /\ cpu' = t
        /\ UNCHANGED <<chip, mem, is_initialized, InterfaceMode, got, stored, trusted>>
    BY <1>1, <2>1 DEF PageStored, drv
  <2>3. n \in 1 .. Pages
    BY <1>0, <1>1
  <2> HIDE DEF n
  <2>4. /\ Moved(t) /\ Spared(t) /\ AtPoll(t, "pagePoll") /\ task'[t].page = n
        /\ task'[t].sound = task[t].sound
    BY <2>2, <2>3, MovePoll DEF Calling
  <2> QED BY <1>1, <2>2, <2>3, <2>4 DEF n
<1>2. CASE ~(task[t].page < Pages)
  <2>1. task[t].page = Pages
    BY <1>0, <1>2
  <2>2. Return(t)
    BY <1>2 DEF PageStored
  <2> QED BY <2>1, <2>2
<1> QED BY <1>1, <1>2

LEMMA EraseOverTyped ==
    ASSUME Typed, NEW t \in Tasks, EraseOver(t)
    PROVE  Typed'
<1>1. task[t].pc \in Calling
  BY DEF EraseOver, Calling
<1> QED BY <1>1, EraseOverDoes, OnwardTyped, ReturnTyped, Constants

LEMMA PageStoredTyped ==
    ASSUME Typed, NEW t \in Tasks, PageStored(t)
    PROVE  Typed'
<1>1. task[t].pc \in Calling /\ task[t].op \in {"write", "program"}
  BY TypedParts DEF PageStored, Calling, TaskOK, Programs
<1> QED BY <1>1, PageStoredDoes, OnwardTyped, ReturnTyped

LEMMA WriteFailsTyped ==
    ASSUME Typed, NEW t \in Tasks, WriteFails(t)
    PROVE  Typed'
BY ReturnTyped DEF WriteFails, Calling

LEMMA StutterTyped == Typed /\ UNCHANGED vars => Typed'
BY TypedParts, TypedFrom DEF vars, drv, TaskOK, Programs

LEMMA NextTyped == Typed /\ [Next]_vars => Typed'
BY StutterTyped, TickTyped, CrashTyped, ReadTyped, MountTyped, SecondResetTyped, BeginTyped,
   PollBusyTyped, ConfigureTyped, SendEraseTyped, EraseOverTyped, SendPageTyped,
   PageStoredTyped, WriteFailsTyped
DEF Next, Step
-----------------------------------------------------------------------------
(* Times.                                                                  *)

LEMMA DivBound ==
    ASSUME NEW m \in Nat, NEW c \in Nat, c >= 1
    PROVE  (m \div c) \in Nat /\ (m \div c) * c \in Nat /\ (m \div c) * c <= m
OBVIOUS

LEMMA ProductOrder ==
    ASSUME NEW k \in Nat, NEW q \in Nat, NEW c \in Nat, c >= 1
    PROVE  /\ k * c \in Nat /\ q * c \in Nat
           /\ k <= q => k * c <= q * c
           /\ k * c < q * c => k + 1 <= q
           /\ (k + 1) * c = k * c + c
OBVIOUS

\* A poll waits for at least one check.
LEMMA CapFacts ==
    /\ \A pc : Cap(pc) \in Nat
    /\ Cap("resetPoll") >= 1 /\ Cap("initPoll") >= 1
    /\ \A pc \in {"resetPoll", "initPoll", "erasePoll", "pagePoll"} :
         Cap(pc) = Patience(BusyCheck, BusyTimeout)
    /\ Cap("eraseWait") = Patience(EraseCheck, EraseTimeout)
    /\ Cap("pageWait") = Patience(ProgramCheck, ProgramTimeout)
<1>1. ASSUME NEW pc
      PROVE  Cap(pc) \in Nat
  <2>1. Timeout(pc) - 1 \in Nat /\ Check(pc) \in Nat /\ Check(pc) >= 1
    BY Constants
  <2> QED BY <2>1, DivBound DEF Cap, Patience
<1>2. \A pc \in {"resetPoll", "initPoll", "erasePoll", "pagePoll"} :
         Check(pc) = BusyCheck /\ Timeout(pc) = BusyTimeout
  BY DEF Check, Timeout
<1>3. /\ Check("eraseWait") = EraseCheck /\ Timeout("eraseWait") = EraseTimeout
      /\ Check("pageWait") = ProgramCheck /\ Timeout("pageWait") = ProgramTimeout
  BY DEF Check, Timeout
<1>4. Patience(BusyCheck, BusyTimeout) >= 1
  <2> DEFINE m == BusyTimeout - 1
             q == m \div BusyCheck
  <2>1. m \in Nat /\ BusyCheck \in Nat /\ BusyCheck >= 1 /\ BusyCheck <= m
    BY Constants, PollAssumption
  <2>2. q \in Nat /\ q >= 1
    <3> HIDE DEF m
    <3> QED BY <2>1
  <2>3. q * BusyCheck >= 1
    <3> HIDE DEF q
    <3> QED BY <2>1, <2>2
  <2> QED BY <2>3 DEF Patience
<1> QED BY <1>1, <1>2, <1>3, <1>4 DEF Cap

\* A poll that nothing spoiled reads the status truly and does not give up;
\* but the wait of a write for its erase may, soon enough for the next poll.
LEMMA SoundPoll ==
    ASSUME Typed, ModeInv, TimeInv, NEW t \in Tasks, task[t].pc # "idle", task[t].sound
    PROVE  /\ task[t].mode = chip.mode
           /\ task[t].pc \in Calling => chip.mode = "QPI" /\ InterfaceMode = "QPI"
           /\ Ready(t) => chip.busy = 0
           /\ GaveUp(t) => /\ task[t].pc = "eraseWait" /\ task[t].op = "write"
                           /\ chip.busy <= Cap("pagePoll")
<1>1. task[t].pc \in Mounting \cup Calling /\ chip.busy \in Nat
  BY TypedParts DEF TaskType, ChipType
<1>2. /\ task[t].mode = chip.mode
      /\ task[t].pc \in Calling => chip.mode = "QPI" /\ InterfaceMode = "QPI"
  BY <1>1 DEF ModeInv, ModeAgrees
<1>3. Ready(t) => chip.busy = 0
  <2> SUFFICES ASSUME Ready(t) PROVE chip.busy = 0
    OBVIOUS
  <2>1. ~(chip.busy > 0)
    <3>1. FALSE \in {chip.busy > 0}
      BY <1>2, Zenon DEF Ready, BusyRead
    <3> QED BY <3>1, Zenon
  <2> QED BY <1>1, <2>1
<1>4. ASSUME GaveUp(t)
      PROVE  /\ task[t].pc = "eraseWait" /\ task[t].op = "write"
             /\ chip.busy <= Cap("pagePoll")
  <2>1. /\ task[t].cnt \in Nat /\ task[t].delay = 0 /\ task[t].cnt >= Timeout(task[t].pc)
        /\ Timeout(task[t].pc) \in Nat /\ Timeout(task[t].pc) >= 1
    BY <1>4, TypedParts, Constants DEF GaveUp, Runs, TaskType
  <2>2. InTime(t)
    BY DEF TimeInv
  <2>3. ~Counted(t)
    <3> SUFFICES ASSUME Counted(t) PROVE FALSE
      OBVIOUS
    <3> DEFINE c == Check(task[t].pc)
               m == Timeout(task[t].pc) - 1
    <3>1. c \in Nat /\ c >= 1 /\ m \in Nat /\ m < task[t].cnt
      BY <2>1, Constants
    <3>2. PICK k \in 0 .. (m \div c) : task[t].cnt = k * c
      BY DEF Counted
    <3> HIDE DEF c, m
    <3>3. (m \div c) \in Nat /\ (m \div c) * c <= m
      BY <3>1, DivBound
    <3>4. k * c <= (m \div c) * c /\ k * c \in Nat /\ (m \div c) * c \in Nat
      BY <3>1, <3>2, <3>3, ProductOrder
    <3> QED BY <3>1, <3>2, <3>3, <3>4
  <2>4. /\ task[t].pc = "eraseWait" /\ task[t].op = "write"
        /\ Left(t, EraseTimeout + Cap("pagePoll"))
    BY <2>2, <2>3 DEF InTime
  <2>5. Timeout(task[t].pc) = EraseTimeout /\ EraseTimeout \in Nat /\ Cap("pagePoll") \in Nat
    BY <2>4, Constants, CapFacts DEF Timeout
  <2>6. chip.busy <= Cap("pagePoll")
    BY <1>1, <2>1, <2>4, <2>5 DEF Left
  <2> QED BY <2>4, <2>6
<1> QED BY <1>2, <1>3, <1>4

\* The time a poll has left when it begins.
LEMMA FreshInTime ==
    ASSUME NEW t \in Tasks, task'[t].cnt = 0, task'[t].delay = 0, chip'.busy \in Nat,
           chip'.busy = 0 \/ chip'.busy <= (IF task'[t].pc = "eraseWait" /\ task'[t].op = "write"
                                           THEN EraseTimeout + Cap("pagePoll")
                                           ELSE Cap(task'[t].pc))
    PROVE  InTime(t)'
<1>1. Cap(task'[t].pc) \in Nat /\ Cap("pagePoll") \in Nat /\ EraseTimeout \in Nat
  BY CapFacts, Constants
<1>2. Counted(t)'
  <2> DEFINE c == Check(task'[t].pc)
             m == Timeout(task'[t].pc) - 1
  <2>1. c \in Nat /\ c >= 1 /\ m \in Nat
    BY Constants
  <2>2. 0 * c = 0 /\ 0 \in 0 .. (m \div c)
    <3> HIDE DEF c, m
    <3>1. (m \div c) \in Nat
      BY <2>1, DivBound
    <3> QED BY <2>1, <3>1
  <2>3. \E k \in 0 .. (m \div c) : task'[t].cnt = k * c
    BY <2>2
  <2> QED BY <2>3 DEF Counted
<1> QED BY <1>1, <1>2 DEF InTime, Left

\* What the step of one task leaves of the times of the others.
LEMMA TimeStep ==
    ASSUME Typed, TimeInv, NEW t \in Tasks, Moved(t), Spoiled(t) \/ chip'.busy = chip.busy,
           task'[t].pc # "idle" /\ task'[t].sound => InTime(t)'
    PROVE  TimeInv'
<1> SUFFICES ASSUME NEW o \in Tasks \ {t}, task'[o].pc # "idle", task'[o].sound
             PROVE  InTime(o)'
  BY DEF TimeInv
<1>1. Same(o)
  BY DEF Moved
<1>2. task[o].pc # "idle" /\ task[o].sound /\ chip'.busy = chip.busy
  BY <1>1 DEF Same, Spoiled
<1>3. InTime(o)
  BY <1>2 DEF TimeInv
<1> QED BY <1>1, <1>2, <1>3 DEF Same, InTime, Left, Counted

\* A command that is accepted, one that is not, and a tick, as the chip sees them.
LEMMA StartDoes ==
    ASSUME Typed, NEW op, NEW n, Start(op, n)
    PROVE  /\ chip'.mode = chip.mode
           /\ Accepted => chip'.busy = n /\ chip'.op = op /\ mem' = Working(op)
           /\ ~Accepted => chip' = chip /\ mem' = mem
<1>1. chip \in ChipType
  BY TypedParts
<1>2. CASE Accepted
  <2>1. chip' = [chip EXCEPT !.busy = n, !.op = op] /\ mem' = Working(op)
    BY <1>2 DEF Start
  <2> QED BY <1>1, <1>2, <2>1 DEF ChipType
<1>3. CASE ~Accepted
  BY <1>3 DEF Start
<1> QED BY <1>2, <1>3

LEMMA TickDoes ==
    ASSUME Typed, Tick
    PROVE  /\ chip.busy \in Nat /\ chip'.mode = chip.mode
           /\ chip'.busy = IF chip.busy > 0 THEN chip.busy - 1 ELSE 0
           /\ chip.busy = 1 => mem' = Finished(chip.op)
           /\ chip.busy # 1 => mem' = mem /\ chip'.op = chip.op
<1>1. chip \in ChipType /\ chip.busy \in Nat
  BY TypedParts DEF ChipType
<1>2. CASE chip.busy = 1
  <2>1. chip' = [chip EXCEPT !.busy = 0, !.op = Nothing] /\ mem' = Finished(chip.op)
    BY <1>2 DEF Tick
  <2> QED BY <1>1, <1>2, <2>1 DEF ChipType
<1>3. CASE chip.busy # 1
  <2>1. chip' = [chip EXCEPT !.busy = IF chip.busy > 0 THEN chip.busy - 1 ELSE 0] /\ mem' = mem
    BY <1>3 DEF Tick
  <2> QED BY <1>1, <1>3, <2>1 DEF ChipType
<1> QED BY <1>2, <1>3

LEMMA InitTime == Init => TimeInv
BY DEF Init, TimeInv, Idle

LEMMA CrashTime == Crash => TimeInv'
BY DEF Crash, TimeInv, Idle

LEMMA TickTime == Typed /\ TimeInv /\ Tick => TimeInv'
<1> SUFFICES ASSUME Typed, TimeInv, Tick, NEW t \in Tasks, task'[t].pc # "idle", task'[t].sound
             PROVE  InTime(t)'
  BY DEF TimeInv
<1>1. chip.busy \in Nat /\ chip'.busy = IF chip.busy > 0 THEN chip.busy - 1 ELSE 0
  BY TickDoes
<1>2. task[t] \in TaskType /\ task'[t] = [task[t] EXCEPT !.delay = IF @ > 0 THEN @ - 1 ELSE 0]
  BY TypedParts DEF Tick
<1>3. /\ task[t].delay \in Nat /\ task[t].cnt \in Nat
      /\ task'[t].delay = IF task[t].delay > 0 THEN task[t].delay - 1 ELSE 0
      /\ task'[t].cnt = task[t].cnt /\ task'[t].pc = task[t].pc /\ task'[t].op = task[t].op
      /\ task'[t].sound = task[t].sound
  BY <1>2 DEF TaskType
<1>4. InTime(t)
  BY <1>3 DEF TimeInv
<1>5. ASSUME NEW limit \in Nat, Left(t, limit)
      PROVE  Left(t, limit)'
  BY <1>1, <1>3, <1>5 DEF Left
<1>6. Cap(task[t].pc) \in Nat /\ EraseTimeout + Cap("pagePoll") \in Nat
  BY CapFacts, Constants
<1> QED BY <1>3, <1>4, <1>5, <1>6 DEF InTime, Counted

LEMMA MountTime ==
    ASSUME Typed, TimeInv, NEW t \in Tasks, Mount(t)
    PROVE  TimeInv'
<1>1. /\ Moved(t) /\ Spoiled(t) /\ AtPoll(t, "resetPoll")
      /\ task'[t].sound <=> (chip.mode = "QPI" \/ chip.busy <= Patience(BusyCheck, BusyTimeout))
  BY MountDoes
<1>2. ASSUME task'[t].sound
      PROVE  InTime(t)'
  <2>1. chip'.busy \in Nat /\ chip'.busy <= Cap("resetPoll")
    <3>1. CASE chip.mode = "QPI"
      <4>1. chip'.busy \in 0 .. 1
        BY <3>1 DEF Mount, ResetChip
      <4> QED BY <4>1, CapFacts
    <3>2. CASE chip.mode # "QPI"
      <4>1. chip' = chip
        BY <3>2 DEF Mount, ResetChip
      <4> QED BY <1>1, <1>2, <3>2, <4>1, TypedParts, CapFacts DEF ChipType
    <3> QED BY <3>1, <3>2
  <2> QED BY <1>1, <2>1, FreshInTime DEF AtPoll
<1> QED BY <1>1, <1>2, TimeStep

LEMMA SecondResetTime ==
    ASSUME Typed, ModeInv, TimeInv, NEW t \in Tasks, SecondReset(t)
    PROVE  TimeInv'
<1>1. Moved(t) /\ Spoiled(t) /\ AtPoll(t, "initPoll")
  BY SecondResetDoes
<1>2. chip.mode = "SPI"
  BY DEF SecondReset, ModeInv, Mounting
<1>3. chip'.busy \in 0 .. 1
  BY <1>2 DEF SecondReset, ResetChip
<1>4. chip'.busy \in Nat /\ chip'.busy <= Cap("initPoll")
  BY <1>3, CapFacts
<1>5. InTime(t)'
  BY <1>1, <1>4, FreshInTime DEF AtPoll
<1> QED BY <1>1, <1>5, TimeStep

LEMMA EndsTime ==
    ASSUME Typed, TimeInv, NEW t \in Tasks, task' = [task EXCEPT ![t] = Idle],
           chip'.busy = chip.busy
    PROVE  TimeInv'
<1>1. Moved(t) /\ task'[t] = Idle
  BY EndsDoes
<1>2. task'[t].pc = "idle"
  BY <1>1 DEF Idle
<1> QED BY <1>1, <1>2, TimeStep

LEMMA ConfigureTime ==
    ASSUME Typed, TimeInv, NEW t \in Tasks, Configure(t)
    PROVE  TimeInv'
<1>1. chip'.busy = chip.busy
  BY TypedParts DEF Configure, ChipType
<1> QED BY <1>1, EndsTime DEF Configure

LEMMA ReturnTime ==
    ASSUME Typed, TimeInv, NEW t \in Tasks, Return(t)
    PROVE  TimeInv'
BY EndsTime DEF Return

LEMMA BeginTime ==
    ASSUME Typed, TimeInv, NEW t \in Tasks, NEW op, NEW s \in Sectors, NEW d \in Data,
           Begin(t, op, s, d)
    PROVE  TimeInv'
<1>1. /\ Moved(t)
      /\ task'[t].pc = IF op = "program" THEN "pagePoll" ELSE "erasePoll"
      /\ task'[t].cnt = 0 /\ task'[t].delay = 0
      /\ task'[t].sound <=> (trusted /\ chip.busy <= Patience(BusyCheck, BusyTimeout))
  BY BeginDoes
<1>2. chip' = chip /\ chip.busy \in Nat
  BY TypedParts DEF Begin, ChipType
<1>3. ASSUME task'[t].sound
      PROVE  InTime(t)'
  BY <1>1, <1>2, <1>3, FreshInTime, CapFacts
<1> QED BY <1>1, <1>2, <1>3, TimeStep

LEMMA PollBusyTime ==
    ASSUME Typed, ModeInv, TimeInv, NEW t \in Tasks, PollBusy(t)
    PROVE  TimeInv'
<1> DEFINE c == Check(task[t].pc)
           q == (Timeout(task[t].pc) - 1) \div c
<1>1. /\ Moved(t) /\ task'[t].pc = task[t].pc /\ task'[t].op = task[t].op
      /\ task'[t].sound = task[t].sound
      /\ task'[t].delay = c /\ task'[t].cnt = task[t].cnt + c
  BY PollBusyDoes
<1>2. /\ task[t].pc # "idle" /\ task[t].delay = 0 /\ TRUE \in BusyRead(t)
      /\ chip' = chip /\ chip.busy \in Nat
      /\ task[t].cnt \in Nat /\ c \in Nat /\ c >= 1 /\ q \in Nat
  <2>1. Timeout(task[t].pc) - 1 \in Nat /\ c \in Nat /\ c >= 1
    BY Constants
  <2>2. q \in Nat
    BY <2>1, DivBound
  <2> QED BY <2>1, <2>2, TypedParts DEF PollBusy, Runs, ChipType, TaskType
<1>3. ASSUME task'[t].sound
      PROVE  InTime(t)'
  <2>1. task[t].sound
    BY <1>1, <1>3
  <2>2. task[t].mode = chip.mode
    BY <1>2, <2>1, SoundPoll
  <2>3. chip.busy > 0
    <3>1. TRUE \in {chip.busy > 0}
      BY <1>2, <2>2, Zenon DEF BusyRead
    <3> QED BY <3>1, Zenon
  <2>4. InTime(t)
    BY <1>2, <2>1 DEF TimeInv
  <2>5. ASSUME NEW limit \in Nat, Left(t, limit)
        PROVE  Left(t, limit)'
    <3> HIDE DEF c
    <3> QED BY <1>1, <1>2, <2>5 DEF Left
  <2>6. Cap(task[t].pc) \in Nat /\ EraseTimeout + Cap("pagePoll") \in Nat
    BY CapFacts, Constants
  <2>7. ASSUME Left(t, Cap(task[t].pc)), Counted(t)
        PROVE  Counted(t)'
    <3>1. PICK k \in 0 .. q : task[t].cnt = k * c
      BY <2>7 DEF Counted
    <3>2. Cap(task[t].pc) = q * c
      BY DEF Cap, Patience
    <3> HIDE DEF c, q
    <3>3. k * c < q * c
      <4>1. k * c \in Nat /\ q * c \in Nat
        BY <1>2, <3>1, ProductOrder
      <4> QED BY <1>2, <2>3, <2>7, <3>1, <3>2, <4>1 DEF Left
    <3>4. k + 1 \in 0 .. q /\ task'[t].cnt = (k + 1) * c
      BY <1>1, <1>2, <3>1, <3>3, ProductOrder
    <3>5. \E j \in 0 .. q : task'[t].cnt = j * c
      BY <3>4
    <3> QED BY <1>1, <3>5 DEF Counted, c, q
  <2> QED BY <1>1, <2>4, <2>5, <2>6, <2>7 DEF InTime
<1> QED BY <1>1, <1>2, <1>3, TimeStep

\* A command of a call that nothing spoiled is accepted.
LEMMA SoundAccepted ==
    ASSUME Typed, ModeInv, TimeInv, NEW t \in Tasks, task[t].pc \in Calling, task[t].sound,
           Ready(t)
    PROVE  Accepted /\ chip.busy = 0
BY SoundPoll DEF Accepted, Calling

LEMMA SendEraseTime ==
    ASSUME Typed, ModeInv, TimeInv, NEW t \in Tasks, SendErase(t)
    PROVE  TimeInv'
<1>1. PICK n \in 1 .. EraseMax :
        /\ Start([sectors |-> Touches(task[t].op, task[t].sector),
                  pages |-> 1 .. Pages, val |-> Erased], n)
        /\ Moved(t) /\ Spoiled(t) /\ AtPoll(t, "eraseWait")
        /\ task'[t].sound <=> (task[t].sound /\ n <= EraseLimit(task[t].op))
  BY SendEraseDoes
<1>2. ASSUME task'[t].sound
      PROVE  InTime(t)'
  <2>1. chip'.busy = n /\ n \in Nat
    <3>1. Accepted
      BY <1>1, <1>2, SoundAccepted DEF SendErase, Calling
    <3> QED BY <1>1, <3>1, StartDoes, Constants
  <2>2. n <= (IF task[t].op = "write" THEN EraseTimeout + Cap("pagePoll") ELSE Cap("eraseWait"))
    BY <1>1, <1>2, CapFacts DEF EraseLimit
  <2> QED BY <1>1, <2>1, <2>2, FreshInTime DEF AtPoll
<1> QED BY <1>1, <1>2, TimeStep

LEMMA SendPageTime ==
    ASSUME Typed, ModeInv, TimeInv, NEW t \in Tasks, SendPage(t)
    PROVE  TimeInv'
<1>1. PICK n \in 1 .. ProgramMax :
        /\ Start([sectors |-> {task[t].sector}, pages |-> {task[t].page},
                  val |-> Programmed(mem[task[t].sector][task[t].page], task[t].data)], n)
        /\ Moved(t) /\ Spoiled(t) /\ AtPoll(t, "pageWait")
        /\ task'[t].sound <=> (task[t].sound /\ n <= Patience(ProgramCheck, ProgramTimeout))
  BY SendPageDoes
<1>2. ASSUME task'[t].sound
      PROVE  InTime(t)'
  <2>1. chip'.busy = n /\ n \in Nat
    <3>1. Accepted
      BY <1>1, <1>2, SoundAccepted DEF SendPage, Calling
    <3> QED BY <1>1, <3>1, StartDoes, Constants
  <2>2. n <= Cap("pageWait")
    BY <1>1, <1>2, CapFacts
  <2> QED BY <1>1, <2>1, <2>2, FreshInTime DEF AtPoll
<1> QED BY <1>1, <1>2, TimeStep

LEMMA EraseOverTime ==
    ASSUME Typed, ModeInv, TimeInv, NEW t \in Tasks, EraseOver(t)
    PROVE  TimeInv'
<1>1. CASE /\ Moved(t) /\ AtPoll(t, "pagePoll") /\ task'[t].sound = task[t].sound
           /\ chip' = chip
  <2>1. ASSUME task'[t].sound
        PROVE  InTime(t)'
    <3>1. chip.busy \in Nat /\ chip.busy <= Cap("pagePoll")
      <4>1. chip.busy \in Nat /\ Cap("pagePoll") \in Nat
        BY TypedParts, CapFacts DEF ChipType
      <4>2. task[t].pc # "idle" /\ (Ready(t) \/ GaveUp(t))
        BY DEF EraseOver
      <4>3. chip.busy = 0 \/ chip.busy <= Cap("pagePoll")
        BY <1>1, <2>1, <4>2, SoundPoll
      <4> QED BY <4>1, <4>3
    <3> QED BY <1>1, <3>1, FreshInTime DEF AtPoll
  <2> QED BY <1>1, <2>1, TimeStep
<1>2. CASE Return(t)
  BY <1>2, ReturnTime
<1> QED BY <1>1, <1>2, EraseOverDoes

LEMMA PageStoredTime ==
    ASSUME Typed, ModeInv, TimeInv, NEW t \in Tasks, PageStored(t)
    PROVE  TimeInv'
<1>1. CASE /\ Moved(t) /\ AtPoll(t, "pagePoll") /\ task'[t].sound = task[t].sound
           /\ chip' = chip
  <2>1. ASSUME task'[t].sound
        PROVE  InTime(t)'
    <3>1. chip.busy = 0
      BY <1>1, <2>1, SoundPoll DEF PageStored
    <3> QED BY <1>1, <3>1, FreshInTime DEF AtPoll
  <2> QED BY <1>1, <2>1, TimeStep
<1>2. CASE Return(t)
  BY <1>2, ReturnTime
<1> QED BY <1>1, <1>2, PageStoredDoes

LEMMA StillTime == TimeInv /\ UNCHANGED <<task, chip>> => TimeInv'
BY DEF TimeInv, InTime, Left, Counted

LEMMA NextTime == Typed /\ ModeInv /\ TimeInv /\ [Next]_vars => TimeInv'
<1>1. ASSUME NEW t \in Tasks, NEW s \in Sectors, Read(t, s)
      PROVE  UNCHANGED <<task, chip>>
  BY <1>1 DEF Read
<1>2. UNCHANGED vars => UNCHANGED <<task, chip>>
  BY DEF vars
<1>3. ASSUME NEW t \in Tasks, WriteFails(t)
      PROVE  Return(t)
  BY <1>3 DEF WriteFails
<1> QED BY <1>1, <1>2, <1>3, StillTime, TickTime, CrashTime, MountTime, SecondResetTime, BeginTime,
   PollBusyTime, ConfigureTime, SendEraseTime, EraseOverTime, SendPageTime,
   PageStoredTime, ReturnTime
DEF Next, Step
-----------------------------------------------------------------------------
(* Bus modes.                                                              *)

LEMMA InitMode == Init => ModeInv
BY DEF Init, ModeInv, Idle, Mounting, Calling

LEMMA CrashMode == Crash => ModeInv'
BY DEF Crash, ModeInv, ModeAgrees, Idle, Mounting, Calling

\* Without a change of mode, a step of t matters only for the call of t.
LEMMA ModeStep ==
    ASSUME Typed, ModeInv, NEW t \in Tasks, Moved(t), is_initialized, is_initialized',
           chip'.mode = chip.mode, UNCHANGED <<InterfaceMode, trusted>>,
           task'[t].pc \in Mounting => task[t].pc \in Mounting /\ task'[t].mode = task[t].mode,
           task'[t].pc \in Calling /\ task'[t].sound => trusted /\ task'[t].mode = "QPI"
    PROVE  ModeInv'
<1>1. \A o \in Tasks : task'[o].pc \in Mounting =>
         task[o].pc \in Mounting /\ task'[o].mode = task[o].mode
  BY DEF Moved, Same
<1>2. \A o \in Tasks : task'[o].pc \in Calling /\ task'[o].sound =>
         trusted /\ task'[o].mode = "QPI"
  BY DEF Moved, Same, ModeInv
<1> QED BY <1>1, <1>2 DEF ModeInv, ModeAgrees

LEMMA TickMode == Typed /\ ModeInv /\ Tick => ModeInv'
<1> SUFFICES ASSUME Typed, ModeInv, Tick PROVE ModeInv'
  OBVIOUS
<1>1. chip'.mode = chip.mode /\ UNCHANGED <<is_initialized, InterfaceMode, trusted>>
  BY TickDoes DEF Tick, drv
<1>2. \A o \in Tasks : /\ task'[o].pc = task[o].pc /\ task'[o].mode = task[o].mode
                       /\ task'[o].sound = task[o].sound
  <2> SUFFICES ASSUME NEW o \in Tasks
               PROVE  /\ task'[o].pc = task[o].pc /\ task'[o].mode = task[o].mode
                      /\ task'[o].sound = task[o].sound
    OBVIOUS
  <2>1. task'[o] = [task[o] EXCEPT !.delay = IF @ > 0 THEN @ - 1 ELSE 0]
    BY DEF Tick
  <2> QED BY <2>1, TypedParts DEF TaskType
<1> QED BY <1>1, <1>2 DEF ModeInv, ModeAgrees

LEMMA MountMode ==
    ASSUME Typed, ModeInv, NEW t \in Tasks, Mount(t)
    PROVE  ModeInv'
<1>1. Moved(t) /\ AtPoll(t, "resetPoll")
  BY MountDoes
<1>2. InterfaceMode = "SPI" /\ ~trusted /\ \A o \in Tasks : task[o].pc = "idle"
  BY DEF Mount, ModeInv
<1>3. \A o \in Tasks \ {t} : task'[o].pc = "idle"
  BY <1>1, <1>2 DEF Moved, Same
<1>4. chip'.mode = "SPI"
  BY TypedParts DEF Mount, ResetChip, ChipType, Modes
<1>5. is_initialized' /\ UNCHANGED <<InterfaceMode, trusted>>
  BY DEF Mount
<1> QED BY <1>1, <1>2, <1>3, <1>4, <1>5 DEF ModeInv, AtPoll, Mounting, Calling

LEMMA SecondResetMode ==
    ASSUME Typed, ModeInv, NEW t \in Tasks, SecondReset(t)
    PROVE  ModeInv'
<1>1. Moved(t) /\ Spoiled(t) /\ AtPoll(t, "initPoll")
  BY SecondResetDoes
<1>2. /\ chip.mode = "SPI" /\ InterfaceMode = "SPI" /\ is_initialized /\ ~trusted
      /\ \A o \in Tasks \ {t} : task[o].pc \notin Mounting
  BY TypedParts DEF SecondReset, ModeInv, Mounting
<1>3. chip'.mode = "SPI" /\ InterfaceMode' = "SPI" /\ is_initialized' /\ ~trusted'
  BY <1>2 DEF SecondReset, ResetChip
<1>4. \A o \in Tasks \ {t} : /\ task'[o].pc \notin Mounting
                             /\ task'[o].pc \in Calling => ~task'[o].sound
  BY <1>1, <1>2 DEF Moved, Same, Spoiled, Calling
<1>5. task'[t].pc = "initPoll" /\ task'[t].mode = "SPI"
  BY <1>1, <1>2 DEF AtPoll
<1> QED BY <1>3, <1>4, <1>5 DEF ModeInv, Mounting, Calling

LEMMA ConfigureMode ==
    ASSUME Typed, ModeInv, TimeInv, NEW t \in Tasks, Configure(t)
    PROVE  ModeInv'
<1>1. Moved(t) /\ task'[t] = Idle
  BY EndsDoes DEF Configure
<1>2. /\ task[t].pc \in Mounting
      /\ chip.mode = "SPI" /\ InterfaceMode = "SPI" /\ is_initialized /\ ~trusted
      /\ \A o \in Tasks \ {t} : task[o].pc \notin Mounting
  BY TypedParts DEF Configure, ModeInv, Mounting
<1>3. \A o \in Tasks : /\ task'[o].pc \notin Mounting
                       /\ task'[o].pc \in Calling => ~task'[o].sound
  BY <1>1, <1>2 DEF Moved, Same, ModeInv, Idle, Mounting, Calling
<1>4. task[t].sound => Accepted
  <2> SUFFICES ASSUME task[t].sound PROVE Accepted
    OBVIOUS
  <2>1. chip.busy = 0
    BY SoundPoll DEF Configure
  <2> QED BY <1>2, <2>1 DEF Accepted
<1>5. /\ Accepted => chip'.mode = "QPI"
      /\ InterfaceMode' = "QPI" /\ (trusted' <=> task[t].sound) /\ is_initialized'
  BY <1>2, TypedParts DEF Configure, ChipType
<1> QED BY <1>3, <1>4, <1>5 DEF ModeInv, ModeAgrees

LEMMA EndsMode ==
    ASSUME Typed, ModeInv, NEW t \in Tasks, task[t].pc # "idle",
           task' = [task EXCEPT ![t] = Idle],
           chip'.mode = chip.mode, UNCHANGED <<is_initialized, InterfaceMode, trusted>>
    PROVE  ModeInv'
<1>1. Moved(t) /\ task'[t].pc = "idle"
  <2>1. Moved(t) /\ task'[t] = Idle
    BY EndsDoes
  <2> QED BY <2>1 DEF Idle
<1>2. is_initialized /\ is_initialized'
  BY DEF ModeInv
<1> QED BY <1>1, <1>2, ModeStep DEF Mounting, Calling

LEMMA ReturnMode ==
    ASSUME Typed, ModeInv, NEW t \in Tasks, task[t].pc # "idle", Return(t)
    PROVE  ModeInv'
BY EndsMode DEF Return, drv

LEMMA BeginMode ==
    ASSUME Typed, ModeInv, NEW t \in Tasks, NEW op, NEW s \in Sectors, NEW d \in Data,
           Begin(t, op, s, d)
    PROVE  ModeInv'
<1>1. /\ Moved(t)
      /\ task'[t].pc = IF op = "program" THEN "pagePoll" ELSE "erasePoll"
      /\ task'[t].mode = InterfaceMode
      /\ task'[t].sound => trusted
  BY BeginDoes
<1>2. trusted => InterfaceMode = "QPI"
  BY DEF ModeInv, ModeAgrees
<1>3. is_initialized /\ UNCHANGED <<chip, is_initialized, InterfaceMode, trusted>>
  BY DEF Begin, drv
<1> QED BY <1>1, <1>2, <1>3, ModeStep DEF Mounting

LEMMA PollBusyMode ==
    ASSUME Typed, ModeInv, NEW t \in Tasks, PollBusy(t)
    PROVE  ModeInv'
<1>1. /\ Moved(t) /\ task'[t].pc = task[t].pc /\ task'[t].mode = task[t].mode
      /\ task'[t].sound = task[t].sound
  BY PollBusyDoes
<1>2. is_initialized /\ UNCHANGED <<chip, is_initialized, InterfaceMode, trusted>>
  BY DEF PollBusy, Runs, drv, ModeInv
<1>3. task'[t].pc \in Calling /\ task'[t].sound => trusted /\ task'[t].mode = "QPI"
  BY <1>1 DEF ModeInv
<1> QED BY <1>1, <1>2, <1>3, ModeStep

\* A call that nothing spoiled goes on to a poll in QPI.
LEMMA OnwardMode ==
    ASSUME Typed, ModeInv, NEW t \in Tasks, NEW pc \in Calling, task[t].pc \in Calling,
           Moved(t), AtPoll(t, pc), task'[t].sound => task[t].sound,
           chip'.mode = chip.mode, UNCHANGED <<is_initialized, InterfaceMode, trusted>>
    PROVE  ModeInv'
<1>1. is_initialized /\ is_initialized'
  BY DEF ModeInv, Calling
<1>2. task'[t].pc \notin Mounting
  BY DEF AtPoll, Calling, Mounting
<1>3. task'[t].sound => trusted /\ task'[t].mode = "QPI"
  BY DEF ModeInv, ModeAgrees, AtPoll
<1> QED BY <1>1, <1>2, <1>3, ModeStep

LEMMA SendEraseMode ==
    ASSUME Typed, ModeInv, NEW t \in Tasks, SendErase(t)
    PROVE  ModeInv'
<1>1. PICK n \in 1 .. EraseMax :
        /\ Start([sectors |-> Touches(task[t].op, task[t].sector),
                  pages |-> 1 .. Pages, val |-> Erased], n)
        /\ Moved(t) /\ AtPoll(t, "eraseWait") /\ (task'[t].sound => task[t].sound)
  BY SendEraseDoes
<1>2. chip'.mode = chip.mode
  BY <1>1, StartDoes
<1>3. task[t].pc \in Calling /\ UNCHANGED <<is_initialized, InterfaceMode, trusted>>
  BY DEF SendErase, Calling, drv
<1> QED BY <1>1, <1>2, <1>3, OnwardMode DEF Calling

LEMMA SendPageMode ==
    ASSUME Typed, ModeInv, NEW t \in Tasks, SendPage(t)
    PROVE  ModeInv'
<1>1. PICK n \in 1 .. ProgramMax :
        /\ Start([sectors |-> {task[t].sector}, pages |-> {task[t].page},
                  val |-> Programmed(mem[task[t].sector][task[t].page], task[t].data)], n)
        /\ Moved(t) /\ AtPoll(t, "pageWait") /\ (task'[t].sound => task[t].sound)
  BY SendPageDoes
<1>2. chip'.mode = chip.mode
  BY <1>1, StartDoes
<1>3. task[t].pc \in Calling /\ UNCHANGED <<is_initialized, InterfaceMode, trusted>>
  BY DEF SendPage, Calling, drv
<1> QED BY <1>1, <1>2, <1>3, OnwardMode DEF Calling

LEMMA EraseOverMode ==
    ASSUME Typed, ModeInv, NEW t \in Tasks, EraseOver(t)
    PROVE  ModeInv'
<1>1. task[t].pc \in Calling /\ task[t].pc # "idle"
  BY DEF EraseOver, Calling
<1> QED BY <1>1, EraseOverDoes, OnwardMode, ReturnMode DEF Calling

LEMMA PageStoredMode ==
    ASSUME Typed, ModeInv, NEW t \in Tasks, PageStored(t)
    PROVE  ModeInv'
<1>1. task[t].pc \in Calling /\ task[t].pc # "idle"
  BY DEF PageStored, Calling
<1> QED BY <1>1, PageStoredDoes, OnwardMode, ReturnMode DEF Calling

LEMMA StillMode ==
    ModeInv /\ UNCHANGED <<task, chip, is_initialized, InterfaceMode, trusted>> => ModeInv'
BY DEF ModeInv, ModeAgrees

LEMMA NextMode == Typed /\ ModeInv /\ TimeInv /\ [Next]_vars => ModeInv'
<1>1. ASSUME NEW t \in Tasks, NEW s \in Sectors, Read(t, s)
      PROVE  UNCHANGED <<task, chip, is_initialized, InterfaceMode, trusted>>
  BY <1>1 DEF Read, drv
<1>2. UNCHANGED vars => UNCHANGED <<task, chip, is_initialized, InterfaceMode, trusted>>
  BY DEF vars, drv
<1>3. ASSUME NEW t \in Tasks, WriteFails(t)
      PROVE  Return(t) /\ task[t].pc # "idle"
  BY <1>3 DEF WriteFails
<1> QED BY <1>1, <1>2, <1>3, StillMode, TickMode, CrashMode, MountMode, SecondResetMode, BeginMode,
   PollBusyMode, ConfigureMode, SendEraseMode, EraseOverMode, SendPageMode,
   PageStoredMode, ReturnMode
DEF Next, Step
-----------------------------------------------------------------------------
(* What the sectors hold.                                                  *)

LEMMA InitSettled == Init => SettledInv
<1> SUFFICES ASSUME Init PROVE SettledInv
  OBVIOUS
<1>1. \A s \in Sectors : ~Pending(s) /\ \A p \in 1 .. Pages : mem[s][p] = stored[s]
  BY DEF Init, Pending
<1>2. \A t \in Tasks : task[t].pc \notin Calling
  BY DEF Init, Idle, Calling
<1> QED BY <1>1, <1>2 DEF SettledInv

\* A step that settles nothing and leaves the settled sectors alone.
LEMMA SettledStep ==
    ASSUME Typed, SettledInv, NEW t \in Tasks, Moved(t), stored' = stored,
           \A s \in Sectors : stored[s] # Unknown =>
               /\ Pending(s)' => Pending(s)
               /\ \A p \in 1 .. Pages : mem'[s][p] = mem[s][p],
           task'[t].pc \in Calling => /\ task[t].pc \in Calling /\ task'[t].op = task[t].op
                                     /\ task'[t].sector = task[t].sector
    PROVE  SettledInv'
<1>1. \A s \in Sectors : stored'[s] # Unknown =>
         /\ ~Pending(s)'
         /\ \A p \in 1 .. Pages : mem'[s][p] = stored'[s]
  BY DEF SettledInv
<1>2. \A o \in Tasks : task'[o].pc \in Calling =>
         \A s \in Touches(task'[o].op, task'[o].sector) : stored'[s] = Unknown
  BY DEF SettledInv, Moved, Same
<1> QED BY <1>1, <1>2 DEF SettledInv

LEMMA CrashSettled == Typed /\ SettledInv /\ Crash => SettledInv'
<1> SUFFICES ASSUME Typed, SettledInv, Crash PROVE SettledInv'
  OBVIOUS
<1>1. stored' = stored /\ mem' = mem /\ \A t \in Tasks : task'[t].pc \notin Calling
  BY DEF Crash, Idle, Calling
<1>2. \A s \in Sectors : Pending(s)' => Pending(s)
  BY DEF Crash, Pending
<1> QED BY <1>1, <1>2 DEF SettledInv

LEMMA TickSettled == Typed /\ SettledInv /\ Tick => SettledInv'
<1> SUFFICES ASSUME Typed, SettledInv, Tick PROVE SettledInv'
  OBVIOUS
<1>1. stored' = stored
  BY DEF Tick
<1>2. \A t \in Tasks : /\ task'[t].pc = task[t].pc /\ task'[t].op = task[t].op
                       /\ task'[t].sector = task[t].sector
  <2> SUFFICES ASSUME NEW t \in Tasks
               PROVE  /\ task'[t].pc = task[t].pc /\ task'[t].op = task[t].op
                      /\ task'[t].sector = task[t].sector
    OBVIOUS
  <2>1. task'[t] = [task[t] EXCEPT !.delay = IF @ > 0 THEN @ - 1 ELSE 0]
    BY DEF Tick
  <2> QED BY <2>1, TypedParts DEF TaskType
<1>3. ASSUME NEW s \in Sectors, stored[s] # Unknown
      PROVE  ~Pending(s)' /\ \A p \in 1 .. Pages : mem'[s][p] = mem[s][p]
  <2>1. ~Pending(s)
    BY <1>3 DEF SettledInv
  <2>2. CASE chip.busy = 1
    <3>1. mem' = Finished(chip.op) /\ chip'.busy = 0 /\ s \notin chip.op.sectors
      BY <2>1, <2>2, TickDoes DEF Pending
    <3> QED BY <3>1 DEF Finished, Pending
  <2>3. CASE chip.busy # 1
    BY <2>1, <2>3, TickDoes DEF Pending
  <2> QED BY <2>2, <2>3
<1> QED BY <1>1, <1>2, <1>3 DEF SettledInv

LEMMA ResetPending ==
    ASSUME NEW mode, ResetChip(mode)
    PROVE  \A s : Pending(s)' => Pending(s)
<1>1. CASE chip.mode = mode
  <2>1. chip'.op = Nothing
    BY <1>1 DEF ResetChip
  <2> QED BY <2>1 DEF Pending, Nothing
<1>2. CASE chip.mode # mode
  BY <1>2 DEF ResetChip, Pending
<1> QED BY <1>1, <1>2

LEMMA MountSettled ==
    ASSUME Typed, SettledInv, NEW t \in Tasks, Mount(t)
    PROVE  SettledInv'
<1>1. Moved(t) /\ task'[t].pc \notin Calling
  BY MountDoes DEF AtPoll, Calling
<1> QED BY <1>1, ResetPending, SettledStep DEF Mount

LEMMA SecondResetSettled ==
    ASSUME Typed, SettledInv, NEW t \in Tasks, SecondReset(t)
    PROVE  SettledInv'
<1>1. Moved(t) /\ task'[t].pc \notin Calling
  BY SecondResetDoes DEF AtPoll, Calling
<1> QED BY <1>1, ResetPending, SettledStep DEF SecondReset

LEMMA ConfigureSettled ==
    ASSUME Typed, SettledInv, NEW t \in Tasks, Configure(t)
    PROVE  SettledInv'
<1>1. Moved(t) /\ task'[t].pc \notin Calling
  <2>1. Moved(t) /\ task'[t] = Idle
    BY EndsDoes DEF Configure
  <2> QED BY <2>1 DEF Idle, Calling
<1>2. chip'.busy = chip.busy /\ chip'.op = chip.op
  BY TypedParts DEF Configure, ChipType
<1>3. \A s : Pending(s)' => Pending(s)
  BY <1>2 DEF Pending
<1> QED BY <1>1, <1>3, SettledStep DEF Configure

LEMMA PollBusySettled ==
    ASSUME Typed, SettledInv, NEW t \in Tasks, PollBusy(t)
    PROVE  SettledInv'
<1>1. /\ Moved(t) /\ task'[t].pc = task[t].pc /\ task'[t].op = task[t].op
      /\ task'[t].sector = task[t].sector
  BY PollBusyDoes
<1>2. UNCHANGED <<chip, mem, stored>>
  BY DEF PollBusy
<1> QED BY <1>1, <1>2, SettledStep DEF Pending

LEMMA BeginSettled ==
    ASSUME Typed, SettledInv, NEW t \in Tasks, NEW op, NEW s \in Sectors, NEW d \in Data,
           Begin(t, op, s, d)
    PROVE  SettledInv'
<1>1. Moved(t) /\ task'[t].op = op /\ task'[t].sector = s
  BY BeginDoes
<1>2. /\ UNCHANGED <<chip, mem>>
      /\ \A x \in Sectors : stored'[x] = IF x \in Touches(op, s) THEN Unknown ELSE stored[x]
  BY DEF Begin
<1>3. ASSUME NEW o \in Tasks, task'[o].pc \in Calling,
             NEW x \in Touches(task'[o].op, task'[o].sector)
      PROVE  stored'[x] = Unknown
  <2>1. TaskOK(o)'
    BY BeginTyped, TypedParts DEF Typed
  <2>2. x \in Sectors
    BY <1>3, <2>1 DEF TaskOK, Touches
  <2>3. CASE o = t
    BY <1>1, <1>2, <1>3, <2>2, <2>3
  <2>4. CASE o # t
    <3>1. /\ task[o].pc \in Calling /\ task'[o].op = task[o].op
          /\ task'[o].sector = task[o].sector
      BY <1>1, <1>3, <2>4 DEF Moved, Same
    <3>2. stored[x] = Unknown
      BY <1>3, <3>1 DEF SettledInv
    <3> QED BY <1>2, <2>2, <3>2
  <2> QED BY <2>3, <2>4
<1>4. \A x \in Sectors : stored'[x] # Unknown =>
         /\ ~Pending(x)'
         /\ \A p \in 1 .. Pages : mem'[x][p] = stored'[x]
  BY <1>2 DEF SettledInv, Pending
<1> QED BY <1>3, <1>4 DEF SettledInv

\* A command works on the sectors of its call, which are not settled.
LEMMA CommandSettled ==
    ASSUME Typed, SettledInv, NEW t \in Tasks, NEW op, NEW n, Start(op, n), Moved(t),
           stored' = stored, task[t].pc \in Calling,
           op.sectors = Touches(task[t].op, task[t].sector),
           task'[t].op = task[t].op, task'[t].sector = task[t].sector
    PROVE  SettledInv'
<1>1. ASSUME NEW s \in Sectors, stored[s] # Unknown
      PROVE  (Pending(s)' => Pending(s)) /\ \A p \in 1 .. Pages : mem'[s][p] = mem[s][p]
  <2>1. s \notin op.sectors
    BY <1>1 DEF SettledInv
  <2>2. CASE Accepted
    <3>1. chip'.op = op /\ mem' = Working(op)
      BY <2>2, StartDoes
    <3> QED BY <2>1, <3>1 DEF Pending, Working
  <2>3. CASE ~Accepted
    <3>1. chip' = chip /\ mem' = mem
      BY <2>3, StartDoes
    <3> QED BY <3>1 DEF Pending
  <2> QED BY <2>2, <2>3
<1> QED BY <1>1, SettledStep

LEMMA SendEraseSettled ==
    ASSUME Typed, SettledInv, NEW t \in Tasks, SendErase(t)
    PROVE  SettledInv'
<1> DEFINE op == [sectors |-> Touches(task[t].op, task[t].sector),
                  pages |-> 1 .. Pages, val |-> Erased]
<1>1. PICK n \in 1 .. EraseMax : Start(op, n) /\ Moved(t) /\ AtPoll(t, "eraseWait")
  BY SendEraseDoes
<1>2. op.sectors = Touches(task[t].op, task[t].sector)
  OBVIOUS
<1>3. stored' = stored /\ task[t].pc \in Calling
  BY DEF SendErase, Calling
<1> HIDE DEF op
<1> QED BY <1>1, <1>2, <1>3, CommandSettled DEF AtPoll

LEMMA SendPageSettled ==
    ASSUME Typed, SettledInv, NEW t \in Tasks, SendPage(t)
    PROVE  SettledInv'
<1> DEFINE op == [sectors |-> {task[t].sector}, pages |-> {task[t].page},
                  val |-> Programmed(mem[task[t].sector][task[t].page], task[t].data)]
<1>1. PICK n \in 1 .. ProgramMax : Start(op, n) /\ Moved(t) /\ AtPoll(t, "pageWait")
  BY SendPageDoes
<1>2. op.sectors = Touches(task[t].op, task[t].sector)
  BY TypedParts DEF SendPage, TaskOK, Programs, Touches
<1>3. stored' = stored /\ task[t].pc \in Calling
  BY DEF SendPage, Calling
<1> HIDE DEF op
<1> QED BY <1>1, <1>2, <1>3, CommandSettled DEF AtPoll

\* The next poll of a call touches nothing.
LEMMA OnwardSettled ==
    ASSUME Typed, SettledInv, NEW t \in Tasks, task[t].pc \in Calling,
           Moved(t), AtPoll(t, "pagePoll"), UNCHANGED <<chip, mem, stored>>
    PROVE  SettledInv'
BY SettledStep DEF Pending, AtPoll

\* A call that returns settles what it is sure of.
LEMMA ReturnSettled ==
    ASSUME Typed, SettledInv, NEW t \in Tasks, task[t].pc \in Calling, Return(t),
           Result(task[t]) # Unknown =>
               \A s \in Touches(task[t].op, task[t].sector) :
                   ~Pending(s) /\ \A p \in 1 .. Pages : mem[s][p] = Result(task[t])
    PROVE  SettledInv'
<1>1. Moved(t) /\ Spared(t) /\ task'[t].pc \notin Calling
  <2>1. Moved(t) /\ Spared(t) /\ task'[t] = Idle
    BY EndsDoes DEF Return
  <2> QED BY <2>1 DEF Idle, Calling
<1>2. /\ UNCHANGED <<chip, mem>>
      /\ \A s \in Sectors : stored'[s] =
           IF s \notin Touches(task[t].op, task[t].sector) THEN stored[s]
           ELSE IF Contested(t, s) THEN Unknown ELSE Result(task[t])
  BY DEF Return
<1>3. \A s \in Sectors : stored'[s] # Unknown =>
         /\ ~Pending(s)'
         /\ \A p \in 1 .. Pages : mem'[s][p] = stored'[s]
  <2> SUFFICES ASSUME NEW s \in Sectors, stored'[s] # Unknown
               PROVE  ~Pending(s)' /\ \A p \in 1 .. Pages : mem'[s][p] = stored'[s]
    OBVIOUS
  <2>1. CASE s \in Touches(task[t].op, task[t].sector)
    <3>1. stored'[s] = Result(task[t])
      BY <1>2, <2>1
    <3> QED BY <1>2, <2>1, <3>1 DEF Pending
  <2>2. CASE s \notin Touches(task[t].op, task[t].sector)
    BY <1>2, <2>2 DEF SettledInv, Pending
  <2> QED BY <2>1, <2>2
<1>4. ASSUME NEW o \in Tasks, task'[o].pc \in Calling,
             NEW s \in Touches(task'[o].op, task'[o].sector)
      PROVE  stored'[s] = Unknown
  <2>1. o # t /\ task'[o] = task[o]
    BY <1>1, <1>4 DEF Spared
  <2>2. s \in Sectors /\ stored[s] = Unknown /\ task[o].pc # "idle"
    BY <1>4, <2>1, TypedParts DEF SettledInv, TaskOK, Touches, Calling
  <2>3. Contested(t, s)
    BY <1>4, <2>1, <2>2 DEF Contested
  <2> QED BY <1>2, <2>2, <2>3
<1> QED BY <1>3, <1>4 DEF SettledInv
-----------------------------------------------------------------------------
(* How far the calls have come.                                            *)

\* No page changes what it will hold.
Still == \A s \in Sectors, p \in 1 .. Pages : Eventually(s, p)' = Eventually(s, p)

LEMMA IdleProgress ==
    ASSUME NEW t, task'[t].pc \notin {"eraseWait", "pagePoll", "pageWait"}
    PROVE  Progress(t)'
BY DEF Progress

LEMMA SameProgress ==
    ASSUME Typed, NEW t \in Tasks, Progress(t), Still,
           task'[t].pc = task[t].pc, task'[t].op = task[t].op,
           task'[t].sector = task[t].sector, task'[t].data = task[t].data,
           task'[t].page = task[t].page, task'[t].base = task[t].base
    PROVE  Progress(t)'
<1>1. CASE task[t].pc \in Calling
  <2>1. task[t].sector \in Sectors
    BY <1>1, TypedParts DEF TaskOK
  <2>2. Touches(task[t].op, task[t].sector) \subseteq Sectors
    BY <2>1 DEF Touches
  <2>3. \A n : Written(t, n) => Written(t, n)'
    BY <2>1 DEF Written, Still
  <2> QED BY <2>2, <2>3 DEF Progress, Still
<1>2. CASE task[t].pc \notin Calling
  BY <1>2, IdleProgress DEF Calling
<1> QED BY <1>1, <1>2

\* What the step of one task leaves of the progress of the others.
LEMMA ProgressStep ==
    ASSUME Typed, ProgressInv, NEW t \in Tasks, Moved(t), Spoiled(t) \/ Still,
           task'[t].sound => Progress(t)'
    PROVE  ProgressInv'
<1> SUFFICES ASSUME NEW o \in Tasks \ {t}, task'[o].sound
             PROVE  Progress(o)'
  BY DEF ProgressInv
<1>1. Same(o)
  BY DEF Moved
<1>2. CASE task[o].pc = "idle"
  BY <1>1, <1>2, IdleProgress DEF Same
<1>3. CASE Still
  <2>1. Progress(o)
    BY <1>1 DEF Same, ProgressInv
  <2> QED BY <1>1, <1>3, <2>1, SameProgress DEF Same
<1> QED BY <1>2, <1>3 DEF Spoiled

LEMMA StillUnchanged == UNCHANGED <<chip, mem>> => Still
BY DEF Still, Eventually, Pending

LEMMA InitProgress == Init => ProgressInv
<1> SUFFICES ASSUME Init, NEW t \in Tasks PROVE Progress(t)
  BY DEF ProgressInv
<1>1. task[t].pc = "idle"
  BY DEF Init, Idle
<1> QED BY <1>1 DEF Progress

LEMMA CrashProgress == Crash => ProgressInv'
<1> SUFFICES ASSUME Crash, NEW t \in Tasks PROVE Progress(t)'
  BY DEF ProgressInv
<1>1. task'[t].pc = "idle"
  BY DEF Crash, Idle
<1> QED BY <1>1, IdleProgress

LEMMA TickStill == Typed /\ Tick => Still
<1> SUFFICES ASSUME Typed, Tick, NEW s \in Sectors, NEW p \in 1 .. Pages
             PROVE  Eventually(s, p)' = Eventually(s, p)
  BY DEF Still
<1>1. chip.busy \in Nat /\ chip'.busy = IF chip.busy > 0 THEN chip.busy - 1 ELSE 0
  BY TickDoes
<1>2. CASE chip.busy = 1
  <2>1. mem' = Finished(chip.op) /\ ~(chip'.busy > 0) /\ chip.busy > 0
    BY <1>1, <1>2, TickDoes
  <2> QED BY <2>1 DEF Eventually, Pending, Finished
<1>3. CASE chip.busy # 1
  <2>1. mem' = mem /\ chip'.op = chip.op /\ (chip'.busy > 0 <=> chip.busy > 0)
    BY <1>1, <1>3, TickDoes
  <2> QED BY <2>1 DEF Eventually, Pending
<1> QED BY <1>2, <1>3

LEMMA TickProgress == Typed /\ ProgressInv /\ Tick => ProgressInv'
<1> SUFFICES ASSUME Typed, ProgressInv, Tick, NEW t \in Tasks, task'[t].sound
             PROVE  Progress(t)'
  BY DEF ProgressInv
<1>1. task'[t] = [task[t] EXCEPT !.delay = IF @ > 0 THEN @ - 1 ELSE 0]
  BY DEF Tick
<1>2. task[t] \in TaskType
  BY TypedParts
<1>3. /\ task'[t].pc = task[t].pc /\ task'[t].op = task[t].op
      /\ task'[t].sector = task[t].sector /\ task'[t].data = task[t].data
      /\ task'[t].page = task[t].page /\ task'[t].base = task[t].base
      /\ task'[t].sound = task[t].sound
  BY <1>1, <1>2 DEF TaskType
<1>4. Progress(t)
  BY <1>3 DEF ProgressInv
<1> QED BY <1>3, <1>4, TickStill, SameProgress

LEMMA MountProgress ==
    ASSUME Typed, ProgressInv, NEW t \in Tasks, Mount(t)
    PROVE  ProgressInv'
<1>1. Moved(t) /\ Spoiled(t) /\ task'[t].pc = "resetPoll"
  BY MountDoes DEF AtPoll
<1> QED BY <1>1, IdleProgress, ProgressStep

LEMMA SecondResetProgress ==
    ASSUME Typed, ProgressInv, NEW t \in Tasks, SecondReset(t)
    PROVE  ProgressInv'
<1>1. Moved(t) /\ Spoiled(t) /\ task'[t].pc = "initPoll"
  BY SecondResetDoes DEF AtPoll
<1> QED BY <1>1, IdleProgress, ProgressStep

LEMMA EndsProgress ==
    ASSUME Typed, ProgressInv, NEW t \in Tasks, task' = [task EXCEPT ![t] = Idle], Still
    PROVE  ProgressInv'
<1>1. Moved(t) /\ task'[t] = Idle
  BY EndsDoes
<1>2. task'[t].pc = "idle"
  BY <1>1 DEF Idle
<1> QED BY <1>1, <1>2, IdleProgress, ProgressStep

LEMMA ConfigureProgress ==
    ASSUME Typed, ProgressInv, NEW t \in Tasks, Configure(t)
    PROVE  ProgressInv'
<1>1. chip'.busy = chip.busy /\ chip'.op = chip.op /\ mem' = mem
  BY TypedParts DEF Configure, ChipType
<1>2. Still
  BY <1>1 DEF Still, Eventually, Pending
<1> QED BY <1>2, EndsProgress DEF Configure

LEMMA ReturnProgress ==
    ASSUME Typed, ProgressInv, NEW t \in Tasks, Return(t)
    PROVE  ProgressInv'
BY StillUnchanged, EndsProgress DEF Return

LEMMA PollBusyProgress ==
    ASSUME Typed, ProgressInv, NEW t \in Tasks, PollBusy(t)
    PROVE  ProgressInv'
<1>1. /\ Moved(t) /\ task'[t].pc = task[t].pc /\ task'[t].op = task[t].op
      /\ task'[t].sector = task[t].sector /\ task'[t].data = task[t].data
      /\ task'[t].page = task[t].page /\ task'[t].base = task[t].base
      /\ task'[t].sound = task[t].sound
  BY PollBusyDoes
<1>2. Still
  BY StillUnchanged DEF PollBusy
<1>3. task'[t].sound => Progress(t)'
  BY <1>1, <1>2, SameProgress DEF ProgressInv
<1> QED BY <1>1, <1>2, <1>3, ProgressStep

LEMMA BeginProgress ==
    ASSUME Typed, SettledInv, ProgressInv, NEW t \in Tasks, NEW op, NEW s \in Sectors,
           NEW d \in Data, Begin(t, op, s, d)
    PROVE  ProgressInv'
<1>1. /\ Moved(t)
      /\ task'[t].pc = IF op = "program" THEN "pagePoll" ELSE "erasePoll"
      /\ task'[t].op = op /\ task'[t].sector = s /\ task'[t].page = task[t].page
      /\ task'[t].base = stored[s]
  BY BeginDoes
<1>2. Still /\ task[t].page = 1
  BY StillUnchanged, TypedParts DEF Begin, TaskOK
<1>3. CASE op = "program" /\ stored[s] = Erased
  <2>1. \A p \in 1 .. Pages : Eventually(s, p) = Erased
    BY <1>3, Constants DEF SettledInv, Eventually
  <2>2. \A p \in 1 .. Pages : Eventually(s, p)' = Erased
    BY <1>2, <2>1 DEF Still
  <2>3. \A p \in 1 .. Pages : ~(p <= task'[t].page - 1)
    BY <1>1, <1>2, Constants
  <2>4. Written(t, task[t].page - 1)'
    BY <1>1, <2>2, <2>3 DEF Written
  <2>5. Progress(t)'
    BY <1>1, <1>3, <2>4 DEF Progress
  <2> QED BY <1>1, <1>2, <2>5, ProgressStep
<1>4. CASE op = "program" /\ stored[s] # Erased
  <2>1. Progress(t)'
    BY <1>1, <1>4 DEF Progress
  <2> QED BY <1>1, <1>2, <2>1, ProgressStep
<1>5. CASE op # "program"
  BY <1>1, <1>2, <1>5, IdleProgress, ProgressStep
<1> QED BY <1>3, <1>4, <1>5

LEMMA SendEraseProgress ==
    ASSUME Typed, ModeInv, TimeInv, ProgressInv, NEW t \in Tasks, SendErase(t)
    PROVE  ProgressInv'
<1> DEFINE op == [sectors |-> Touches(task[t].op, task[t].sector),
                  pages |-> 1 .. Pages, val |-> Erased]
<1>1. PICK n \in 1 .. EraseMax :
        /\ Start(op, n) /\ Moved(t) /\ Spoiled(t) /\ AtPoll(t, "eraseWait")
        /\ (task'[t].sound => task[t].sound)
  BY SendEraseDoes
<1>2. /\ op.sectors = Touches(task[t].op, task[t].sector)
      /\ op.pages = 1 .. Pages /\ op.val = Erased
  OBVIOUS
<1> HIDE DEF op
<1>3. ASSUME task'[t].sound
      PROVE  Progress(t)'
  <2>1. Accepted
    BY <1>1, <1>3, SoundAccepted DEF SendErase, Calling
  <2>2. chip'.busy = n /\ n > 0 /\ chip'.op = op
    BY <1>1, <2>1, StartDoes, Constants
  <2>3. \A s \in Touches(task[t].op, task[t].sector), p \in 1 .. Pages : Eventually(s, p)' = Erased
    BY <1>2, <2>2 DEF Eventually, Pending
  <2> QED BY <1>1, <2>3 DEF Progress, AtPoll
<1> QED BY <1>1, <1>3, ProgressStep

LEMMA SendPageProgress ==
    ASSUME Typed, ModeInv, TimeInv, ProgressInv, NEW t \in Tasks, SendPage(t)
    PROVE  ProgressInv'
<1> DEFINE c == task[t]
           op == [sectors |-> {c.sector}, pages |-> {c.page},
                  val |-> Programmed(mem[c.sector][c.page], c.data)]
<1>1. PICK n \in 1 .. ProgramMax :
        /\ Start(op, n) /\ Moved(t) /\ Spoiled(t) /\ AtPoll(t, "pageWait")
        /\ task'[t].page = c.page
        /\ (task'[t].sound => task[t].sound)
  BY SendPageDoes
<1>2. /\ op.sectors = {c.sector} /\ op.pages = {c.page}
      /\ op.val = Programmed(mem[c.sector][c.page], c.data)
  OBVIOUS
<1> HIDE DEF op
<1>3. c.sector \in Sectors /\ c.page \in 1 .. Pages /\ Pages \in Nat
  BY TypedParts, Constants DEF SendPage, TaskOK, TaskType, Calling
<1>4. ASSUME task'[t].sound, c.op = "write" \/ c.base = Erased
      PROVE  Written(t, task[t].page)'
  <2>1. Accepted /\ chip.busy = 0
    BY <1>1, <1>4, SoundAccepted DEF SendPage, Calling
  <2>2. chip'.busy = n /\ n > 0 /\ chip'.op = op /\ mem' = Working(op)
    BY <1>1, <2>1, StartDoes, Constants
  <2>3. Written(t, c.page - 1)
    BY <1>1, <1>4 DEF SendPage, ProgressInv, Progress
  <2>4. \A p \in 1 .. Pages : mem[c.sector][p] = IF p <= c.page - 1 THEN c.data ELSE Erased
    BY <2>1, <2>3 DEF Written, Eventually, Pending
  <2>5. op.val = c.data
    BY <1>2, <1>3, <2>4 DEF Programmed
  <2>6. ASSUME NEW p \in 1 .. Pages
        PROVE  Eventually(c.sector, p)' = IF p <= c.page THEN c.data ELSE Erased
    <3>1. CASE p = c.page
      BY <1>1, <1>2, <1>3, <2>2, <2>5, <3>1 DEF Eventually, Pending, AtPoll
    <3>2. CASE p # c.page
      <4>1. Eventually(c.sector, p)' = mem'[c.sector][p]
        BY <1>1, <1>2, <2>2, <3>2 DEF Eventually, AtPoll
      <4>2. mem'[c.sector][p] = mem[c.sector][p]
        BY <1>2, <1>3, <2>2, <3>2 DEF Working
      <4>3. p <= c.page - 1 <=> p <= c.page
        BY <1>3, <3>2
      <4> QED BY <2>4, <4>1, <4>2, <4>3
    <3> QED BY <3>1, <3>2
  <2> QED BY <1>1, <2>6 DEF Written, AtPoll
<1>5. ASSUME task'[t].sound
      PROVE  Progress(t)'
  BY <1>1, <1>4, <1>5 DEF Progress, AtPoll
<1> QED BY <1>1, <1>5, ProgressStep

\* What a wait that ends without being spoiled has found.
LEMMA EraseDone ==
    ASSUME Typed, ModeInv, TimeInv, ProgressInv, NEW t \in Tasks, EraseOver(t), task[t].sound
    PROVE  /\ task[t].pc = "eraseWait"
           /\ task[t].op # "write" => Ready(t) /\ chip.busy = 0
           /\ \A s \in Touches(task[t].op, task[t].sector), p \in 1 .. Pages :
                 Eventually(s, p) = Erased
<1>1. task[t].pc # "idle"
  BY DEF EraseOver
<1>2. task[t].pc = "eraseWait"
  BY <1>1, SoundPoll DEF EraseOver
<1>3. task[t].op # "write" => Ready(t) /\ chip.busy = 0
  BY <1>1, <1>2, SoundPoll DEF EraseOver
<1> QED BY <1>2, <1>3 DEF ProgressInv, Progress

LEMMA PageDone ==
    ASSUME Typed, ModeInv, TimeInv, ProgressInv, NEW t \in Tasks, PageStored(t), task[t].sound
    PROVE  /\ chip.busy = 0
           /\ task[t].op = "write" \/ task[t].base = Erased => Written(t, task[t].page)
BY SoundPoll DEF PageStored, ProgressInv, Progress

LEMMA EraseOverProgress ==
    ASSUME Typed, ModeInv, TimeInv, ProgressInv, NEW t \in Tasks, EraseOver(t)
    PROVE  ProgressInv'
<1>1. CASE /\ task[t].op = "write" /\ Moved(t) /\ AtPoll(t, "pagePoll")
           /\ task'[t].page = 1 /\ task'[t].sound = task[t].sound
           /\ UNCHANGED <<chip, mem>>
  <2>1. Still
    BY <1>1, StillUnchanged
  <2>2. ASSUME task'[t].sound
        PROVE  Progress(t)'
    <3>1. task[t].sector \in Sectors
      BY TypedParts DEF EraseOver, TaskOK, Calling
    <3>2. \A p \in 1 .. Pages : Eventually(task[t].sector, p) = Erased
      BY <1>1, <2>2, EraseDone DEF Touches
    <3>3. \A p \in 1 .. Pages : Eventually(task[t].sector, p)' = Erased
      BY <1>1, <3>2 DEF Eventually, Pending, AtPoll
    <3>4. \A p \in 1 .. Pages : ~(p <= task'[t].page - 1)
      BY <1>1, Constants
    <3>5. Written(t, task[t].page - 1)'
      BY <1>1, <3>3, <3>4 DEF Written, AtPoll
    <3> QED BY <1>1, <3>5 DEF Progress, AtPoll
  <2> QED BY <1>1, <2>1, <2>2, ProgressStep
<1>2. CASE Return(t)
  BY <1>2, ReturnProgress
<1> QED BY <1>1, <1>2, EraseOverDoes

LEMMA PageStoredProgress ==
    ASSUME Typed, ModeInv, TimeInv, ProgressInv, NEW t \in Tasks, PageStored(t)
    PROVE  ProgressInv'
<1>1. CASE /\ Moved(t) /\ AtPoll(t, "pagePoll")
           /\ task'[t].page = task[t].page + 1 /\ task'[t].sound = task[t].sound
           /\ UNCHANGED <<chip, mem>>
  <2>1. Still
    BY <1>1, StillUnchanged
  <2>2. task[t].sector \in Sectors /\ task[t].page \in Nat
    BY TypedParts DEF PageStored, TaskOK, TaskType, Calling
  <2>3. ASSUME task'[t].sound, task[t].op = "write" \/ task[t].base = Erased
        PROVE  Written(t, task[t].page - 1)'
    <3>1. Written(t, task[t].page)
      BY <1>1, <2>3, PageDone
    <3>2. task'[t].page - 1 = task[t].page
      BY <1>1, <2>2
    <3> QED BY <1>1, <2>1, <2>2, <3>1, <3>2 DEF Written, Still, AtPoll
  <2>4. ASSUME task'[t].sound
        PROVE  Progress(t)'
    BY <1>1, <2>3, <2>4 DEF Progress, AtPoll
  <2> QED BY <1>1, <2>1, <2>4, ProgressStep
<1>2. CASE Return(t)
  BY <1>2, ReturnProgress
<1> QED BY <1>1, <1>2, PageStoredDoes

LEMMA NextProgress ==
    Typed /\ ModeInv /\ TimeInv /\ SettledInv /\ ProgressInv /\ [Next]_vars => ProgressInv'
<1>1. ASSUME Typed, ProgressInv, UNCHANGED <<task, chip, mem>>
      PROVE  ProgressInv'
  BY <1>1, StillUnchanged, SameProgress DEF ProgressInv
<1>2. ASSUME NEW t \in Tasks, NEW s \in Sectors, Read(t, s)
      PROVE  UNCHANGED <<task, chip, mem>>
  BY <1>2 DEF Read
<1>3. UNCHANGED vars => UNCHANGED <<task, chip, mem>>
  BY DEF vars
<1>4. ASSUME NEW t \in Tasks, WriteFails(t)
      PROVE  Return(t)
  BY <1>4 DEF WriteFails
<1> QED BY <1>1, <1>2, <1>3, <1>4, TickProgress, CrashProgress, MountProgress, SecondResetProgress,
   BeginProgress, PollBusyProgress, ConfigureProgress, SendEraseProgress, EraseOverProgress,
   SendPageProgress, PageStoredProgress, ReturnProgress
DEF Next, Step
-----------------------------------------------------------------------------
(* What a call that returns has left.                                      *)

LEMMA EraseOverSettled ==
    ASSUME Typed, ModeInv, TimeInv, SettledInv, ProgressInv, NEW t \in Tasks, EraseOver(t)
    PROVE  SettledInv'
<1>1. task[t].pc \in Calling
  BY DEF EraseOver, Calling
<1>2. CASE /\ Moved(t) /\ AtPoll(t, "pagePoll") /\ UNCHANGED <<chip, mem, stored>>
  BY <1>1, <1>2, OnwardSettled
<1>3. CASE task[t].op # "write" /\ Return(t)
  <2>1. ASSUME task[t].sound
        PROVE  /\ Result(task[t]) = Erased
               /\ \A s \in Touches(task[t].op, task[t].sector) :
                     ~Pending(s) /\ \A p \in 1 .. Pages : mem[s][p] = Erased
    <3>1. /\ task[t].pc = "eraseWait" /\ ~(chip.busy > 0)
          /\ \A s \in Touches(task[t].op, task[t].sector), p \in 1 .. Pages :
                Eventually(s, p) = Erased
      BY <1>3, <2>1, EraseDone
    <3>2. task[t].op # "program"
      BY <3>1, TypedParts DEF TaskOK
    <3> QED BY <1>3, <2>1, <3>1, <3>2 DEF Result, Eventually, Pending
  <2>2. ~task[t].sound => Result(task[t]) = Unknown
    BY DEF Result
  <2> QED BY <1>1, <1>3, <2>1, <2>2, ReturnSettled
<1> QED BY <1>2, <1>3, EraseOverDoes

LEMMA PageStoredSettled ==
    ASSUME Typed, ModeInv, TimeInv, SettledInv, ProgressInv, NEW t \in Tasks, PageStored(t)
    PROVE  SettledInv'
<1>1. task[t].pc \in Calling /\ task[t].op \in {"write", "program"}
  BY TypedParts DEF PageStored, Calling, TaskOK, Programs
<1>2. CASE /\ Moved(t) /\ AtPoll(t, "pagePoll") /\ UNCHANGED <<chip, mem, stored>>
  BY <1>1, <1>2, OnwardSettled
<1>3. CASE task[t].page = Pages /\ Return(t)
  <2>1. ASSUME Result(task[t]) # Unknown
        PROVE  \A s \in Touches(task[t].op, task[t].sector) :
                 ~Pending(s) /\ \A p \in 1 .. Pages : mem[s][p] = Result(task[t])
    <3>1. /\ task[t].sound /\ Result(task[t]) = task[t].data
          /\ (task[t].op = "write" \/ task[t].base = Erased)
      BY <1>1, <2>1 DEF Result
    <3>2. ~(chip.busy > 0) /\ Written(t, Pages)
      BY <1>3, <3>1, PageDone
    <3>3. \A p \in 1 .. Pages : mem[task[t].sector][p] = task[t].data
      BY <3>2, Constants DEF Written, Eventually, Pending
    <3>4. Touches(task[t].op, task[t].sector) = {task[t].sector}
      BY <1>1 DEF Touches
    <3> QED BY <3>1, <3>2, <3>3, <3>4 DEF Pending
  <2> QED BY <1>1, <1>3, <2>1, ReturnSettled
<1> QED BY <1>2, <1>3, PageStoredDoes

LEMMA WriteFailsSettled ==
    ASSUME Typed, ModeInv, TimeInv, SettledInv, NEW t \in Tasks, WriteFails(t)
    PROVE  SettledInv'
<1>1. task[t].pc \in Calling /\ Return(t) /\ GaveUp(t)
      /\ task[t].pc # "idle" /\ task[t].pc # "eraseWait"
  BY DEF WriteFails, Calling
<1>2. ~task[t].sound
  BY <1>1, SoundPoll
<1>3. Result(task[t]) = Unknown
  BY <1>2 DEF Result
<1> QED BY <1>1, <1>3, ReturnSettled

LEMMA NextSettled ==
    Typed /\ ModeInv /\ TimeInv /\ SettledInv /\ ProgressInv /\ [Next]_vars => SettledInv'
<1>1. ASSUME SettledInv, UNCHANGED <<task, chip, mem, stored>>
      PROVE  SettledInv'
  BY <1>1 DEF SettledInv, Pending
<1>2. ASSUME NEW t \in Tasks, NEW s \in Sectors, Read(t, s)
      PROVE  UNCHANGED <<task, chip, mem, stored>>
  BY <1>2 DEF Read
<1>3. UNCHANGED vars => UNCHANGED <<task, chip, mem, stored>>
  BY DEF vars
<1> QED BY <1>1, <1>2, <1>3, TickSettled, CrashSettled, MountSettled, SecondResetSettled,
   BeginSettled, PollBusySettled, ConfigureSettled, SendEraseSettled, EraseOverSettled,
   SendPageSettled, PageStoredSettled, WriteFailsSettled
DEF Next, Step
-----------------------------------------------------------------------------
LEMMA Invariance == Spec => []IInv
<1>1. Init => IInv
  BY InitTyped, InitMode, InitTime, InitSettled, InitProgress DEF IInv
<1>2. IInv /\ [Next]_vars => IInv'
  BY NextTyped, NextMode, NextTime, NextSettled, NextProgress DEF IInv
<1> QED BY <1>1, <1>2, PTL DEF Spec

\* Every variable keeps its type, the bookkeeping of the polls its bounds, and
\* the processor stays with a task that runs (w25q128fv.c, drv_qspi_w25q128.c).
THEOREM QspiTypeCorrect == Spec => []TypeOK
<1>1. IInv => TypeOK
  BY DEF IInv, Typed
<1> QED BY <1>1, Invariance, PTL

\* Once the drive is initialised undisturbed, driver and chip are both in QPI,
\* whatever the restart left in the chip and however many tasks call (QSPI_ResetMemory,
\* BSP_QSPI_ConfigFlash).
THEOREM ModesAgree == Spec => []ModeAgrees
<1>1. IInv => ModeAgrees
  BY DEF IInv, ModeInv, ModeAgrees
<1> QED BY <1>1, Invariance, PTL

\* A sector holds what the last call that nothing spoiled left there, for any
\* number of tasks, sectors and pages and any times of the chip (w25qxx_write,
\* BSP_QSPI_EraseBlock, BSP_QSPI_Write).
THEOREM StoredStays == Spec => []StoredIsThere
<1>1. IInv => StoredIsThere
  BY DEF IInv, SettledInv, StoredIsThere
<1> QED BY <1>1, Invariance, PTL
-----------------------------------------------------------------------------
(* The drive as FatFs sees it.                                             *)

\* The file system is the only task, and the chip within the driver's patience.
FileSystemAlone(fs) ==
    /\ Tasks = {fs} /\ Ops[fs] \subseteq {"write", "read"}
    /\ EraseMax <= EraseLimit("write")
    /\ ProgramMax <= Patience(ProgramCheck, ProgramTimeout)

\* Nothing ever spoils its calls, and between them the chip is ready.
Undisturbed(fs) ==
    /\ task[fs].sound /\ task[fs].op \in {"none", "write"}
    /\ chip.mode = "SPI" => chip.busy <= 1
    /\ is_initialized /\ task[fs].pc = "idle" => trusted /\ chip.busy = 0

LEMMA InitUndisturbed ==
    ASSUME NEW fs, FileSystemAlone(fs), Init
    PROVE  Undisturbed(fs)
BY DEF FileSystemAlone, Init, Idle, Undisturbed

LEMMA TickUndisturbed ==
    ASSUME Typed, NEW fs, FileSystemAlone(fs), Undisturbed(fs), Tick
    PROVE  Undisturbed(fs)'
<1>1. chip.busy \in Nat /\ chip'.mode = chip.mode
      /\ chip'.busy = (IF chip.busy > 0 THEN chip.busy - 1 ELSE 0)
  BY TickDoes
<1>2. fs \in Tasks /\ task[fs] \in TaskType
  BY TypedParts DEF FileSystemAlone
<1>3. task'[fs] = [task[fs] EXCEPT !.delay = IF @ > 0 THEN @ - 1 ELSE 0]
  BY <1>2 DEF Tick
<1>4. /\ task'[fs].sound = task[fs].sound /\ task'[fs].op = task[fs].op
      /\ task'[fs].pc = task[fs].pc
  BY <1>2, <1>3 DEF TaskType
<1>5. UNCHANGED <<is_initialized, trusted>>
  BY DEF Tick, drv
<1> QED BY <1>1, <1>4, <1>5 DEF Undisturbed

LEMMA CrashUndisturbed ==
    ASSUME NEW fs, FileSystemAlone(fs), Undisturbed(fs), Crash
    PROVE  Undisturbed(fs)'
<1>1. task'[fs] = Idle /\ ~is_initialized'
  BY DEF FileSystemAlone, Crash
<1>2. chip' = chip \/ (chip'.mode = "SPI" /\ chip'.busy = 0)
  BY DEF Crash
<1>3. chip'.mode = "SPI" => chip'.busy <= 1
  BY <1>2 DEF Undisturbed
<1>4. task'[fs].sound /\ task'[fs].op = "none"
  BY <1>1 DEF Idle
<1> QED BY <1>1, <1>3, <1>4 DEF Undisturbed

LEMMA ResetQuick ==
    ASSUME NEW mode, ResetChip(mode)
    PROVE  \/ chip' = chip /\ chip.mode # mode
           \/ chip'.mode = "SPI" /\ chip'.busy <= 1
BY DEF ResetChip

LEMMA MountUndisturbed ==
    ASSUME Typed, NEW fs, FileSystemAlone(fs), Undisturbed(fs), Mount(fs)
    PROVE  Undisturbed(fs)'
<1>1. fs \in Tasks
  BY DEF FileSystemAlone
<1>2. /\ AtPoll(fs, "resetPoll")
      /\ task'[fs].sound <=> (chip.mode = "QPI" \/ chip.busy <= Patience(BusyCheck, BusyTimeout))
  BY <1>1, MountDoes
<1>3. chip.mode \in {"SPI", "QPI"} /\ chip.busy \in Nat
  BY TypedParts DEF ChipType, Modes
<1>4. Patience(BusyCheck, BusyTimeout) \in Nat /\ Patience(BusyCheck, BusyTimeout) >= 1
  BY CapFacts
<1>5. chip.mode = "QPI" \/ chip.busy <= Patience(BusyCheck, BusyTimeout)
  BY <1>3, <1>4 DEF Undisturbed
<1>6. /\ task'[fs].pc = "resetPoll" /\ task'[fs].op = task[fs].op
      /\ task'[fs].sound
  BY <1>2, <1>5 DEF AtPoll
<1>7. chip'.mode = "SPI" => chip'.busy <= 1
  BY ResetQuick DEF Mount, Undisturbed
<1> QED BY <1>6, <1>7 DEF Undisturbed

LEMMA SecondResetUndisturbed ==
    ASSUME Typed, NEW fs, FileSystemAlone(fs), Undisturbed(fs), SecondReset(fs)
    PROVE  Undisturbed(fs)'
<1>1. AtPoll(fs, "initPoll") /\ task'[fs].sound = task[fs].sound
  BY SecondResetDoes DEF FileSystemAlone
<1>2. task'[fs].pc = "initPoll" /\ task'[fs].op = task[fs].op
  BY <1>1 DEF AtPoll
<1>3. chip'.mode = "SPI" => chip'.busy <= 1
  BY ResetQuick DEF SecondReset, Undisturbed
<1> QED BY <1>1, <1>2, <1>3 DEF Undisturbed

\* A sound poll that is over outside the wait for an erase has seen the chip ready.
LEMMA OverReady ==
    ASSUME Typed, ModeInv, TimeInv, NEW fs, FileSystemAlone(fs), Undisturbed(fs),
           task[fs].pc \notin {"idle", "eraseWait"}, Ready(fs) \/ GaveUp(fs)
    PROVE  chip.busy = 0
BY SoundPoll DEF FileSystemAlone, Undisturbed

LEMMA ConfigureUndisturbed ==
    ASSUME Typed, ModeInv, TimeInv, NEW fs, FileSystemAlone(fs), Undisturbed(fs), Configure(fs)
    PROVE  Undisturbed(fs)'
<1>1. chip.busy = 0
  BY OverReady DEF Configure
<1>2. chip'.busy = 0
  BY <1>1, TypedParts DEF Configure, ChipType
<1>3. trusted' = TRUE /\ task'[fs] = Idle
  BY TypedParts DEF Configure, Undisturbed, FileSystemAlone
<1> QED BY <1>2, <1>3 DEF Undisturbed, Idle

LEMMA BeginUndisturbed ==
    ASSUME Typed, NEW fs, FileSystemAlone(fs), Undisturbed(fs),
           NEW op, NEW s \in Sectors, NEW d \in Data, Begin(fs, op, s, d)
    PROVE  Undisturbed(fs)' /\ op = "write"
<1>1. op = "write"
  BY DEF Begin, FileSystemAlone
<1>2. /\ task'[fs].pc = "erasePoll" /\ task'[fs].op = "write"
      /\ task'[fs].sound <=> (trusted /\ chip.busy <= Patience(BusyCheck, BusyTimeout))
  BY <1>1, BeginDoes DEF FileSystemAlone
<1>3. trusted /\ chip.busy = 0 /\ chip' = chip
  BY DEF Begin, Undisturbed
<1>4. Patience(BusyCheck, BusyTimeout) \in Nat
  BY CapFacts
<1>5. task'[fs].sound
  BY <1>2, <1>3, <1>4
<1> QED BY <1>1, <1>2, <1>3, <1>5 DEF Undisturbed

LEMMA PollBusyUndisturbed ==
    ASSUME Typed, NEW fs, FileSystemAlone(fs), Undisturbed(fs), PollBusy(fs)
    PROVE  Undisturbed(fs)'
<1>1. /\ task'[fs].pc = task[fs].pc /\ task'[fs].op = task[fs].op
      /\ task'[fs].sound = task[fs].sound
  BY PollBusyDoes DEF FileSystemAlone
<1>2. task[fs].pc # "idle" /\ UNCHANGED <<chip, is_initialized, trusted>>
  BY DEF PollBusy, Runs, drv
<1> QED BY <1>1, <1>2 DEF Undisturbed

\* A command goes to a chip in QPI, and the chip is quick enough for its poll.
LEMMA CommandUndisturbed ==
    ASSUME Typed, ModeInv, TimeInv, NEW fs, FileSystemAlone(fs), Undisturbed(fs),
           task[fs].pc \in Calling, Ready(fs), NEW op, NEW n, Start(op, n),
           NEW pc \in Calling, AtPoll(fs, pc), task'[fs].sound
    PROVE  Undisturbed(fs)'
<1>1. fs \in Tasks
  BY DEF FileSystemAlone
<1>2. chip.mode = "QPI"
  BY <1>1, SoundPoll DEF Undisturbed, Calling
<1>3. chip'.mode = "QPI"
  BY <1>2, StartDoes
<1>4. task'[fs].op \in {"none", "write"} /\ task'[fs].pc # "idle"
  BY DEF AtPoll, Undisturbed, Calling
<1> QED BY <1>3, <1>4 DEF Undisturbed

LEMMA SendEraseUndisturbed ==
    ASSUME Typed, ModeInv, TimeInv, NEW fs, FileSystemAlone(fs), Undisturbed(fs), SendErase(fs)
    PROVE  Undisturbed(fs)'
<1> DEFINE op == [sectors |-> Touches(task[fs].op, task[fs].sector),
                  pages |-> 1 .. Pages, val |-> Erased]
<1>1. fs \in Tasks /\ task[fs].pc \in Calling /\ "eraseWait" \in Calling
  BY DEF FileSystemAlone, SendErase, Calling
<1>2. PICK n \in 1 .. EraseMax :
        /\ Start(op, n) /\ AtPoll(fs, "eraseWait")
        /\ task'[fs].sound <=> (task[fs].sound /\ n <= EraseLimit(task[fs].op))
  BY <1>1, SendEraseDoes
<1>3. task[fs].op = "write"
  BY <1>1, TypedParts DEF TaskOK, Undisturbed
<1>4. n <= EraseLimit("write")
  <2>1. n \in Nat /\ n <= EraseMax /\ EraseMax \in Nat
    BY Constants
  <2>2. EraseLimit("write") \in Nat
    BY CapFacts, Constants DEF EraseLimit
  <2> QED BY <2>1, <2>2 DEF FileSystemAlone
<1>5. task'[fs].sound
  BY <1>2, <1>3, <1>4 DEF Undisturbed
<1>6. Ready(fs)
  BY DEF SendErase
<1> HIDE DEF op
<1> QED BY <1>1, <1>2, <1>5, <1>6, CommandUndisturbed

LEMMA SendPageUndisturbed ==
    ASSUME Typed, ModeInv, TimeInv, NEW fs, FileSystemAlone(fs), Undisturbed(fs), SendPage(fs)
    PROVE  Undisturbed(fs)'
<1> DEFINE op == [sectors |-> {task[fs].sector}, pages |-> {task[fs].page},
                  val |-> Programmed(mem[task[fs].sector][task[fs].page], task[fs].data)]
<1>1. fs \in Tasks /\ task[fs].pc \in Calling /\ "pageWait" \in Calling
  BY DEF FileSystemAlone, SendPage, Calling
<1>2. PICK n \in 1 .. ProgramMax :
        /\ Start(op, n) /\ AtPoll(fs, "pageWait")
        /\ task'[fs].sound <=> (task[fs].sound /\ n <= Patience(ProgramCheck, ProgramTimeout))
  BY <1>1, SendPageDoes
<1>3. n <= Patience(ProgramCheck, ProgramTimeout)
  <2>1. n \in Nat /\ n <= ProgramMax /\ ProgramMax \in Nat
    BY Constants
  <2>2. Patience(ProgramCheck, ProgramTimeout) \in Nat
    BY CapFacts
  <2> QED BY <2>1, <2>2 DEF FileSystemAlone
<1>4. task'[fs].sound
  BY <1>2, <1>3 DEF Undisturbed
<1>5. Ready(fs)
  BY DEF SendPage
<1> HIDE DEF op
<1> QED BY <1>1, <1>2, <1>4, <1>5, CommandUndisturbed

\* A write goes on to its next page, or returns when the chip is ready.
LEMMA OnwardUndisturbed ==
    ASSUME NEW fs, Undisturbed(fs), AtPoll(fs, "pagePoll"), task'[fs].sound = task[fs].sound,
           UNCHANGED <<chip, is_initialized, trusted>>
    PROVE  Undisturbed(fs)'
BY DEF Undisturbed, AtPoll

LEMMA ReturnUndisturbed ==
    ASSUME Typed, ModeInv, NEW fs, FileSystemAlone(fs), Undisturbed(fs),
           task[fs].pc \in Calling, chip.busy = 0, Return(fs)
    PROVE  Undisturbed(fs)'
<1>1. fs \in Tasks /\ task \in [Tasks -> TaskType]
  BY TypedParts DEF FileSystemAlone
<1>2. task'[fs] = Idle /\ UNCHANGED <<chip, is_initialized, trusted>>
  BY <1>1 DEF Return, drv
<1>3. trusted
  BY <1>1 DEF ModeInv, Undisturbed
<1> QED BY <1>2, <1>3 DEF Undisturbed, Idle

LEMMA EraseOverUndisturbed ==
    ASSUME Typed, NEW fs, FileSystemAlone(fs), Undisturbed(fs), EraseOver(fs)
    PROVE  Undisturbed(fs)' /\ task[fs].op = "write" /\ AtPoll(fs, "pagePoll")
           /\ UNCHANGED <<got, stored>>
<1>1. fs \in Tasks /\ task[fs].pc \in Calling
  BY DEF FileSystemAlone, EraseOver, Calling
<1>2. task[fs].op = "write"
  BY <1>1, TypedParts DEF TaskOK, Undisturbed
<1>3. /\ AtPoll(fs, "pagePoll") /\ task'[fs].sound = task[fs].sound
      /\ UNCHANGED <<chip, is_initialized, trusted, got, stored>>
  BY <1>1, <1>2, EraseOverDoes
<1> QED BY <1>2, <1>3, OnwardUndisturbed

\* The last page is stored, and the call returns.
LEMMA PageStoredUndisturbed ==
    ASSUME Typed, ModeInv, TimeInv, NEW fs, FileSystemAlone(fs), Undisturbed(fs), PageStored(fs)
    PROVE  /\ Undisturbed(fs)'
           /\ \/ AtPoll(fs, "pagePoll") /\ UNCHANGED <<got, stored>>
              \/ Return(fs)
<1>1. fs \in Tasks /\ task[fs].pc \in Calling /\ task[fs].pc \notin {"idle", "eraseWait"}
  BY DEF FileSystemAlone, PageStored, Calling
<1>2. CASE /\ AtPoll(fs, "pagePoll") /\ task'[fs].sound = task[fs].sound
           /\ UNCHANGED <<chip, is_initialized, got, stored, trusted>>
  BY <1>2, OnwardUndisturbed
<1>3. CASE Return(fs)
  <2>1. chip.busy = 0
    BY <1>1, OverReady DEF PageStored
  <2> QED BY <1>1, <1>3, <2>1, ReturnUndisturbed
<1> QED BY <1>1, <1>2, <1>3, PageStoredDoes

\* A chip within the driver's patience is not given up on.
LEMMA NeverFails ==
    ASSUME Typed, ModeInv, TimeInv, NEW fs, FileSystemAlone(fs), Undisturbed(fs)
    PROVE  ~WriteFails(fs)
<1> SUFFICES ASSUME WriteFails(fs) PROVE FALSE
  OBVIOUS
<1>1. fs \in Tasks /\ task[fs].pc \notin {"idle", "eraseWait"} /\ GaveUp(fs)
  BY DEF FileSystemAlone, WriteFails
<1> QED BY <1>1, SoundPoll DEF Undisturbed

LEMMA StillUndisturbed ==
    ASSUME NEW fs, Undisturbed(fs), UNCHANGED <<chip, is_initialized, task, trusted>>
    PROVE  Undisturbed(fs)'
BY DEF Undisturbed

\* What the only task does, from Next.
Acts(fs) ==
    \/ Tick \/ Crash \/ Mount(fs) \/ PollBusy(fs) \/ SecondReset(fs) \/ Configure(fs)
    \/ SendErase(fs) \/ EraseOver(fs) \/ SendPage(fs) \/ PageStored(fs) \/ WriteFails(fs)
    \/ \E s \in Sectors : Read(fs, s) \/ \E op \in Ops[fs], d \in Data : Begin(fs, op, s, d)
    \/ UNCHANGED vars

LEMMA NextActs ==
    ASSUME NEW fs, FileSystemAlone(fs), [Next]_vars
    PROVE  Acts(fs)
<1>1. \A t \in Tasks : t = fs
  BY DEF FileSystemAlone
<1>2. CASE \E t \in Tasks : Mount(t) \/ Step(t)
  BY <1>1, <1>2 DEF Step, Acts
<1>3. CASE \E t \in Tasks : \E s \in Sectors :
             Read(t, s) \/ \E op \in Ops[t], d \in Data : Begin(t, op, s, d)
  <2>1. \E s \in Sectors : Read(fs, s) \/ \E op \in Ops[fs], d \in Data : Begin(fs, op, s, d)
    BY <1>1, <1>3
  <2> QED BY <2>1 DEF Acts
<1>4. CASE Tick \/ Crash \/ UNCHANGED vars
  BY <1>4 DEF Acts
<1> QED BY <1>2, <1>3, <1>4 DEF Next

LEMMA NextUndisturbed ==
    ASSUME IInv, NEW fs, FileSystemAlone(fs), Undisturbed(fs), [Next]_vars
    PROVE  Undisturbed(fs)'
<1>1. Acts(fs)
  BY NextActs
<1>2. Typed /\ ModeInv /\ TimeInv
  BY DEF IInv
<1>3. ASSUME NEW s \in Sectors, Read(fs, s)
      PROVE  Undisturbed(fs)'
  BY <1>3, StillUndisturbed DEF Read, drv
<1>4. UNCHANGED vars => Undisturbed(fs)'
  BY StillUndisturbed DEF vars, drv
<1> QED BY <1>1, <1>2, <1>3, <1>4, TickUndisturbed, CrashUndisturbed, MountUndisturbed,
   SecondResetUndisturbed, ConfigureUndisturbed, BeginUndisturbed, PollBusyUndisturbed,
   SendEraseUndisturbed, EraseOverUndisturbed, SendPageUndisturbed, PageStoredUndisturbed,
   NeverFails DEF Acts
-----------------------------------------------------------------------------
(* Every step is one of the disk, or none.                                 *)

\* The disk's view of a call.
Slot(c) ==
    IF c.op = "write" THEN [sector |-> c.sector, data |-> c.data]
    ELSE [sector |-> Unknown, data |-> Unknown]

LEMMA WritingIs ==
    ASSUME NEW fs, Tasks = {fs}
    PROVE  Writing = Slot(task[fs]) /\ Writing' = Slot(task'[fs])
<1>1. Writing = Slot(task[fs])
  BY DEF Writing, Slot
<1>2. Writing' = Slot(task'[fs])
  BY DEF Writing, Slot
<1> QED BY <1>1, <1>2

LEMMA AtPollSlot ==
    ASSUME NEW fs, NEW pc, AtPoll(fs, pc)
    PROVE  Slot(task'[fs]) = Slot(task[fs])
BY DEF AtPoll, Slot

\* Between its calls a task writes nothing.
LEMMA IdleSlot ==
    ASSUME Typed, NEW fs, Tasks = {fs}, task[fs].pc = "idle"
    PROVE  Writing = FatFsDisk!NotWriting
<1>1. task[fs].op = "none"
  BY TypedParts DEF TaskOK, Calling
<1> QED BY <1>1, WritingIs DEF Slot, FatFsDisk!NotWriting

\* A step of the drive that the disk does not see.
Unseen(fs) == Slot(task'[fs]) = Slot(task[fs]) /\ UNCHANGED <<stored, got>>

LEMMA UnseenStutters ==
    ASSUME NEW fs, Tasks = {fs}, Unseen(fs)
    PROVE  UNCHANGED FatFsDisk!vars
BY WritingIs DEF Unseen, FatFsDisk!vars

LEMMA TickUnseen ==
    ASSUME Typed, NEW fs, Tasks = {fs}, Tick
    PROVE  Unseen(fs)
<1>1. task'[fs] = [task[fs] EXCEPT !.delay = IF @ > 0 THEN @ - 1 ELSE 0]
  BY DEF Tick
<1>2. task[fs] \in TaskType
  BY TypedParts
<1>3. /\ task'[fs].op = task[fs].op /\ task'[fs].sector = task[fs].sector
      /\ task'[fs].data = task[fs].data
  BY <1>1, <1>2 DEF TaskType
<1> QED BY <1>3 DEF Unseen, Slot, Tick

LEMMA PollBusyUnseen ==
    ASSUME Typed, NEW fs, Tasks = {fs}, PollBusy(fs)
    PROVE  Unseen(fs)
<1>1. /\ task'[fs].op = task[fs].op /\ task'[fs].sector = task[fs].sector
      /\ task'[fs].data = task[fs].data
  BY PollBusyDoes
<1> QED BY <1>1 DEF Unseen, Slot, PollBusy

LEMMA MountUnseen ==
    ASSUME Typed, NEW fs, Tasks = {fs}, Mount(fs) \/ SecondReset(fs)
    PROVE  Unseen(fs)
<1>1. AtPoll(fs, "resetPoll") \/ AtPoll(fs, "initPoll")
  BY MountDoes, SecondResetDoes
<1> QED BY <1>1, AtPollSlot DEF Unseen, Mount, SecondReset

LEMMA ConfigureUnseen ==
    ASSUME Typed, NEW fs, Tasks = {fs}, Configure(fs)
    PROVE  Unseen(fs)
<1>1. task[fs].pc \in Mounting
  BY DEF Configure, Mounting
<1>2. task[fs].op = "none"
  BY <1>1, TypedParts DEF TaskOK, Calling, Mounting
<1>3. task'[fs] = Idle
  BY TypedParts DEF Configure
<1> QED BY <1>2, <1>3 DEF Unseen, Slot, Idle, Configure

LEMMA CommandUnseen ==
    ASSUME Typed, NEW fs, Tasks = {fs}, SendErase(fs) \/ SendPage(fs)
    PROVE  Unseen(fs)
<1>1. SendErase(fs) => AtPoll(fs, "eraseWait")
  BY SendEraseDoes
<1>2. SendPage(fs) => AtPoll(fs, "pageWait")
  BY SendPageDoes
<1> QED BY <1>1, <1>2, AtPollSlot DEF Unseen, SendErase, SendPage

\* disk_write is called, and returns.
LEMMA BeginWrites ==
    ASSUME Typed, NEW fs, FileSystemAlone(fs), NEW s \in Sectors, NEW d \in Data,
           Begin(fs, "write", s, d)
    PROVE  FatFsDisk!BeginWrite(s, d)
<1>1. Tasks = {fs} /\ Writing = FatFsDisk!NotWriting
  BY IdleSlot DEF FileSystemAlone, Begin
<1>2. task'[fs].op = "write" /\ task'[fs].sector = s /\ task'[fs].data = d
  BY <1>1, BeginDoes
<1>3. Writing' = [sector |-> s, data |-> d]
  BY <1>1, <1>2, WritingIs DEF Slot
<1>4. stored' = [stored EXCEPT ![s] = Unknown]
  BY TypedParts DEF Begin, Touches
<1> QED BY <1>1, <1>3, <1>4 DEF FatFsDisk!BeginWrite, Begin

LEMMA ReturnEnds ==
    ASSUME Typed, NEW fs, FileSystemAlone(fs), Undisturbed(fs), task[fs].pc \in Calling,
           Return(fs)
    PROVE  FatFsDisk!EndWrite
<1>1. Tasks = {fs} /\ task[fs].sound
  BY DEF FileSystemAlone, Undisturbed
<1>2. task[fs].op = "write" /\ task[fs].data \in Data
  BY <1>1, TypedParts DEF TaskOK, Undisturbed
<1>3. Writing = [sector |-> task[fs].sector, data |-> task[fs].data]
  BY <1>1, <1>2, WritingIs DEF Slot
<1>4. Writing # FatFsDisk!NotWriting
  BY <1>2, <1>3, NamesAssumption DEF FatFsDisk!NotWriting
<1>5. task'[fs] = Idle
  BY <1>1, TypedParts DEF Return
<1>6. Writing' = FatFsDisk!NotWriting
  BY <1>1, <1>5, WritingIs DEF Slot, Idle, FatFsDisk!NotWriting
<1>7. \A s : ~Contested(fs, s)
  BY <1>1 DEF Contested
<1>8. Result(task[fs]) = task[fs].data
  BY <1>1, <1>2 DEF Result
<1>9. stored' = [stored EXCEPT ![task[fs].sector] = task[fs].data]
  BY <1>2, <1>7, <1>8, TypedParts DEF Return, Touches
<1>10. stored' = [stored EXCEPT ![Writing.sector] = Writing.data]
  BY <1>3, <1>9
<1> QED BY <1>4, <1>6, <1>10 DEF FatFsDisk!EndWrite, Return

LEMMA CrashCrashes ==
    ASSUME NEW fs, Tasks = {fs}, Crash
    PROVE  FatFsDisk!Crash
<1>1. task'[fs] = Idle
  BY DEF Crash
<1>2. Writing' = FatFsDisk!NotWriting
  BY <1>1, WritingIs DEF Slot, Idle, FatFsDisk!NotWriting
<1> QED BY <1>2 DEF FatFsDisk!Crash, Crash

\* The content of a sector whose pages agree.
LEMMA ContentIs ==
    ASSUME Typed, NEW s \in Sectors
    PROVE  /\ Content(s) \in Contents
           /\ \A d \in Data \cup {Erased} :
                (\A p \in 1 .. Pages : mem[s][p] = d) => Content(s) = d
<1>1. 1 \in 1 .. Pages /\ mem[s][1] \in Stored
  BY TypedParts, Constants DEF MemType
<1> QED BY <1>1 DEF Content, Contents, Stored

LEMMA ReadReads ==
    ASSUME IInv, NEW fs, FileSystemAlone(fs), Undisturbed(fs), NEW s \in Sectors, Read(fs, s)
    PROVE  FatFsDisk!Read(s)
<1>1. Typed /\ ModeInv /\ SettledInv
  BY DEF IInv
<1>2. Tasks = {fs} /\ Writing = FatFsDisk!NotWriting
  BY <1>1, IdleSlot DEF FileSystemAlone, Read
<1>3. Accepted
  BY <1>1 DEF Undisturbed, ModeInv, ModeAgrees, Accepted, Read
<1>4. got' = Content(s) /\ Content(s) \in Contents
  BY <1>1, <1>3, ContentIs DEF Read
<1>5. stored[s] # Unknown => Content(s) = stored[s]
  <2>1. stored[s] \in Data \cup {Erased, Unknown}
    BY <1>1, TypedParts
  <2>2. stored[s] # Unknown => \A p \in 1 .. Pages : mem[s][p] = stored[s]
    BY <1>1 DEF SettledInv
  <2> QED BY <1>1, <2>1, <2>2, ContentIs
<1>6. UNCHANGED <<stored, Writing>>
  BY <1>2, WritingIs DEF Read
<1> QED BY <1>2, <1>4, <1>5, <1>6 DEF FatFsDisk!Read

LEMMA InitDisk ==
    ASSUME NEW fs, Tasks = {fs}, Init
    PROVE  FatFsDisk!Init
<1>1. task[fs] = Idle
  BY DEF Init
<1>2. Writing = FatFsDisk!NotWriting
  BY <1>1, WritingIs DEF Slot, Idle, FatFsDisk!NotWriting
<1> QED BY <1>2 DEF FatFsDisk!Init, Init, Contents

LEMMA NextDisk ==
    ASSUME IInv, NEW fs, FileSystemAlone(fs), Undisturbed(fs), [Next]_vars
    PROVE  [FatFsDisk!Next]_(FatFsDisk!vars)
<1>1. Acts(fs) /\ Tasks = {fs} /\ Typed /\ ModeInv /\ TimeInv
  BY NextActs DEF FileSystemAlone, IInv
<1>2. Unseen(fs) => UNCHANGED FatFsDisk!vars
  BY <1>1, UnseenStutters
<1>3. CASE Tick \/ Mount(fs) \/ PollBusy(fs) \/ SecondReset(fs) \/ Configure(fs)
            \/ SendErase(fs) \/ SendPage(fs)
  BY <1>1, <1>2, <1>3, TickUnseen, MountUnseen, PollBusyUnseen, ConfigureUnseen, CommandUnseen
<1>4. CASE EraseOver(fs)
  <2>1. Unseen(fs)
    BY <1>1, <1>4, EraseOverUndisturbed, AtPollSlot DEF Unseen
  <2> QED BY <1>2, <2>1
<1>5. CASE PageStored(fs)
  <2>1. CASE AtPoll(fs, "pagePoll") /\ UNCHANGED <<got, stored>>
    <3>1. Unseen(fs)
      BY <2>1, AtPollSlot DEF Unseen
    <3> QED BY <1>2, <3>1
  <2>2. CASE Return(fs)
    <3>1. task[fs].pc \in Calling
      BY <1>5 DEF PageStored, Calling
    <3> QED BY <1>1, <2>2, <3>1, ReturnEnds DEF FatFsDisk!Next
  <2> QED BY <1>1, <1>5, <2>1, <2>2, PageStoredUndisturbed
<1>6. CASE WriteFails(fs)
  BY <1>1, <1>6, NeverFails
<1>7. CASE Crash
  BY <1>1, <1>7, CrashCrashes DEF FatFsDisk!Next
<1>8. CASE \E s \in Sectors : Read(fs, s)
  BY <1>8, ReadReads DEF FatFsDisk!Next
<1>9. ASSUME NEW s \in Sectors, NEW op \in Ops[fs], NEW d \in Data, Begin(fs, op, s, d)
      PROVE  FatFsDisk!Next
  <2>1. op = "write"
    BY <1>1, <1>9, BeginUndisturbed
  <2> QED BY <1>1, <1>9, <2>1, BeginWrites DEF FatFsDisk!Next
<1>10. CASE UNCHANGED vars
  <2>1. Unseen(fs)
    BY <1>10 DEF vars, Unseen
  <2> QED BY <1>2, <2>1
<1> QED BY <1>1, <1>3, <1>4, <1>5, <1>6, <1>7, <1>8, <1>9, <1>10 DEF Acts

\* For the file system alone on a chip within the driver's patience, every step
\* of the drive is a step of the disk FatFs relies on, or none (diskio.c,
\* w25qxx_diskio.c: disk_write, disk_read), restarts included; that every write
\* returns is not part of it.
THEOREM DriveIsDisk ==
    ASSUME NEW CONSTANT fs, FileSystemAlone(fs)
    PROVE  Spec => FatFsDisk!Steps
<1>1. Init => FatFsDisk!Init /\ Undisturbed(fs)
  BY InitDisk, InitUndisturbed DEF FileSystemAlone
<1>2. IInv /\ Undisturbed(fs) /\ [Next]_vars => Undisturbed(fs)' /\ [FatFsDisk!Next]_(FatFsDisk!vars)
  BY NextUndisturbed, NextDisk
<1> QED BY <1>1, <1>2, Invariance, PTL DEF Spec, FatFsDisk!Steps
=============================================================================
