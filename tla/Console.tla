------------------------------- MODULE Console ------------------------------
(***************************************************************************)
(* The way of a typed command: the receive interrupt of the debug UART     *)
(* stores characters in a ring (uart_dbg.c), terminal_cntrl empties it     *)
(* every 100 ms and gives each character to the automaton of the terminal  *)
(* (cmd_process.c), the handler of a complete line sends a command to the  *)
(* queue of the qFlash task (cmd_qspi_flash.c, task_qspi_flash.c), and a   *)
(* timer lets that task take one of them every 100 ms.                     *)
(*                                                                         *)
(* Characters are numbered as they are typed; every LineLen of them are a  *)
(* line, the first one '>' and the last one its end.  The automaton itself *)
(* is module Terminal: here every whole line is a command for the flash.   *)
(* What a command does to the flash is module QspiFlash: here it takes     *)
(* some time.                                                              *)
(***************************************************************************)
EXTENDS Integers, Sequences

CONSTANTS
  Size,      \* DBG_UART_MAX_SIZE_CMD_BUFF
  QueueLen,  \* places of xCmdQueue
  LineLen,   \* characters of a line
  MaxTyped   \* bound: characters typed

ASSUME SizeAssumption == Size \in Nat /\ Size >= 2
ASSUME QueueAssumption == QueueLen \in Nat \ {0}
ASSUME LineAssumption == LineLen \in Nat /\ LineLen >= 2 /\ MaxTyped \in Nat

VARIABLES
  buf, wr, rd,  \* buf_cmd, index_wr_buf_cmd, index_rd_buf_cmd
  term,     \* terminal_task: "asleep" in vTaskDelay, "check" or "advance" in terminal_cntrl
  word,     \* the characters of the line so far
  made,     \* xCmdQueue exists
  queue,    \* xCmdQueue
  timer,    \* qFlashxSoftTimer runs
  note,     \* QFLASH_NOTE_SOFT_TIM of the qFlash task
  flash,    \* qFlash_Task: "start", "wait" in xTaskNotifyWait, "run" in parsing_cmd_box
  cmd,      \* cmd_box
  typed,    \* history: characters typed
  took,     \* history: the characters given to the automaton
  called,   \* history: lines that were commands, as they were read
  done,     \* history: commands the qFlash task has executed
  sent,     \* history: commands the queue took
  dropped,  \* history: commands that found no place
  lapped,   \* history: more characters were unread than the indices can tell
  early,    \* history: a command was read before the queue was made
  flood     \* history: there were more lines unfinished than places in the queue

ring == <<buf, wr, rd, typed, lapped, flood>>
reader == <<term, word, took, called, sent, dropped, early>>
task == <<made, timer, note, flash, cmd, done>>
vars == <<ring, reader, task, queue>>

Slots == 0 .. Size - 1

NextSlot(i) == IF i + 1 >= Size THEN 0 ELSE i + 1

PosOf(n) == ((n - 1) % LineLen) + 1

(* A whole line, as it was typed and not put together from several.        *)
AsTyped(w) == Len(w) = LineLen /\ \A i \in DOMAIN w : w[i] = w[1] + i - 1

(* Lines typed of which the user has not seen the outcome.                 *)
Unfinished(n) == n \div LineLen - Len(done) - Len(dropped)

Init ==
  /\ buf = [i \in Slots |-> 0] /\ wr = 0 /\ rd = 0
  /\ term = "asleep" /\ word = <<>>
  /\ made = FALSE /\ queue = <<>> /\ timer = FALSE /\ note = FALSE
  /\ flash = "start" /\ cmd = <<>>
  /\ typed = 0 /\ took = <<>> /\ called = <<>> /\ done = <<>>
  /\ sent = <<>> /\ dropped = <<>>
  /\ lapped = FALSE /\ early = FALSE /\ flood = FALSE

-----------------------------------------------------------------------------
(* Mutant: the index is advanced before the character is stored.           *)
RxIrqAhead ==
  /\ typed < MaxTyped /\ typed' = typed + 1
  /\ wr' = NextSlot(wr)
  /\ buf' = [buf EXCEPT ![wr'] = typed']
  /\ lapped' = (lapped \/ typed' - Len(took) >= Size)
  /\ flood' = (flood \/ Unfinished(typed') > QueueLen)
  /\ UNCHANGED <<rd, reader, task, queue>>

(* DBG_UART_IRQHandler: a character is received, whoever has the processor.*)
RxIrq ==
  /\ typed < MaxTyped /\ typed' = typed + 1
  /\ buf' = [buf EXCEPT ![wr] = typed']
  /\ wr' = NextSlot(wr)
  /\ lapped' = (lapped \/ typed' - Len(took) >= Size)
  /\ flood' = (flood \/ Unfinished(typed') > QueueLen)
  /\ UNCHANGED <<rd, reader, task, queue>>

(* terminal_task: a vTaskDelay of 100 ms is over (a poll that finds nothing*)
(* leaves everything as it is).                                            *)
PollStarts ==
  /\ term = "asleep" /\ wr # rd
  /\ term' = "check"
  /\ UNCHANGED <<ring, word, took, called, sent, dropped, early, task, queue>>

PollEnds ==
  /\ term = "check" /\ wr = rd
  /\ term' = "asleep"
  /\ UNCHANGED <<ring, word, took, called, sent, dropped, early, task, queue>>

(* Mutant: the last place of the queue is not used.                        *)
SendCmdBoxShort(w) ==
  IF made /\ Len(queue) < QueueLen - 1
  THEN queue' = Append(queue, w) /\ sent' = Append(sent, w) /\ UNCHANGED dropped
  ELSE dropped' = Append(dropped, w) /\ UNCHANGED <<queue, sent>>

(* send_cmd_box: xQueueSend copies the command or, after no wait, does not.*)
SendCmdBox(w) ==
  IF made /\ Len(queue) < QueueLen
  THEN queue' = Append(queue, w) /\ sent' = Append(sent, w) /\ UNCHANGED dropped
  ELSE dropped' = Append(dropped, w) /\ UNCHANGED <<queue, sent>>

(* A line is over: command_processing runs the handler if it is complete,  *)
(* and may run it when pieces are missing or were put together, as the     *)
(* automaton accepts words and parameters whatever line they came from.    *)
LineEnds(w) ==
  \/ /\ called' = Append(called, w)
     /\ early' = (early \/ ~made)
     /\ SendCmdBox(w)
  \/ /\ ~AsTyped(w)
     /\ UNCHANGED <<called, early, sent, dropped, queue>>

(* terminal_data_processing of one character.  The first of a line, '>',   *)
(* ends a line that is still open; the others count only after it.         *)
Process ==
  /\ term = "check" /\ wr # rd
  /\ LET ch == buf[rd]
         first == PosOf(ch) = 1
         last == PosOf(ch) = LineLen
     IN /\ took' = Append(took, ch)
        /\ word' = IF first THEN <<ch>>
                   ELSE IF last \/ word = <<>> THEN <<>> ELSE Append(word, ch)
        /\ CASE word # <<>> /\ first -> LineEnds(word)
             [] word # <<>> /\ last -> LineEnds(Append(word, ch))
             [] OTHER -> UNCHANGED <<called, early, sent, dropped, queue>>
  /\ term' = "advance"
  /\ UNCHANGED <<ring, task>>

(* Mutant: the index is advanced by the handler as well.                   *)
AdvanceTwice ==
  /\ term = "advance" /\ term' = "check"
  /\ rd' = NextSlot(NextSlot(rd))
  /\ UNCHANGED <<buf, wr, typed, lapped, flood, word, took, called, sent, dropped, early, task, queue>>

Advance ==
  /\ term = "advance" /\ term' = "check"
  /\ rd' = NextSlot(rd)
  /\ UNCHANGED <<buf, wr, typed, lapped, flood, word, took, called, sent, dropped, early, task, queue>>

-----------------------------------------------------------------------------
(* Tasks do not preempt terminal_cntrl, which does not wait.               *)
OthersRun == term = "asleep"

(* qFlash_Task up to its loop.                                             *)
FlashStarts ==
  /\ OthersRun /\ flash = "start"
  /\ made' = TRUE /\ timer' = TRUE /\ flash' = "wait"
  /\ UNCHANGED <<ring, reader, note, cmd, done, queue>>

(* Mutant: a timer that is not reloaded.                                   *)
TimerFiresOnce ==
  /\ OthersRun /\ timer /\ ~note
  /\ note' = TRUE /\ timer' = FALSE
  /\ UNCHANGED <<ring, reader, made, flash, cmd, done, queue>>

(* qFlashTimCallback: a bit that may be set already.                       *)
TimerFires ==
  /\ OthersRun /\ timer /\ ~note
  /\ note' = TRUE
  /\ UNCHANGED <<ring, reader, made, timer, flash, cmd, done, queue>>

(* A notification: qFlashCntrl finds the queue empty.                      *)
FlashIdle ==
  /\ OthersRun /\ flash = "wait" /\ note /\ queue = <<>>
  /\ note' = FALSE
  /\ UNCHANGED <<ring, reader, made, timer, flash, cmd, done, queue>>

(* Mutant: the command stays in the queue until it is done.                *)
FlashPeeks ==
  /\ OthersRun /\ flash = "wait" /\ note /\ queue # <<>>
  /\ note' = FALSE
  /\ cmd' = Head(queue) /\ flash' = "run"
  /\ UNCHANGED <<ring, reader, made, timer, done, queue>>

(* It takes one command, however many there are.                           *)
FlashTakes ==
  /\ OthersRun /\ flash = "wait" /\ note /\ queue # <<>>
  /\ note' = FALSE
  /\ cmd' = Head(queue) /\ queue' = Tail(queue) /\ flash' = "run"
  /\ UNCHANGED <<ring, reader, made, timer, done>>

(* parsing_cmd_box returns.                                                *)
FlashDone ==
  /\ OthersRun /\ flash = "run"
  /\ done' = Append(done, cmd) /\ flash' = "wait"
  /\ UNCHANGED <<ring, reader, made, timer, note, cmd, queue>>

-----------------------------------------------------------------------------
Terminal == PollStarts \/ PollEnds \/ Process \/ Advance
Flash == FlashStarts \/ FlashIdle \/ FlashTakes \/ FlashDone

Next == RxIrq \/ Terminal \/ TimerFires \/ Flash

Spec == Init /\ [][Next]_vars

(* The tasks of the cooperative kernel run in turn, and the timer of the   *)
(* kernel expires again and again.  Nobody has to type.                    *)
FairSpec == Spec /\ WF_vars(Terminal) /\ WF_vars(TimerFires) /\ WF_vars(Flash)

-----------------------------------------------------------------------------
(* Every variable has its type; the indices stay in the ring.              *)
TypeOK ==
  /\ buf \in [Slots -> Nat] /\ wr \in Slots /\ rd \in Slots
  /\ term \in {"asleep", "check", "advance"} /\ flash \in {"start", "wait", "run"}
  /\ {made, timer, note, lapped, early, flood} \subseteq BOOLEAN
  /\ typed \in Nat /\ took \in Seq(Nat) /\ word \in Seq(Nat) /\ cmd \in Seq(Nat)
  /\ {called, sent, dropped, done, queue} \subseteq Seq(Seq(Nat))
  /\ Len(queue) <= QueueLen
  /\ made <=> flash # "start"

(* Characters reach the automaton in the order they were typed, none twice,*)
(* and none is left out as long as fewer are unread than the ring has      *)
(* places.                                                                 *)
ReadInOrder ==
  /\ \A i \in 2 .. Len(took) : took[i] > took[i - 1]
  /\ ~lapped => \A i \in DOMAIN took : took[i] = i

(* The flash executes no command that nobody typed: only a lap of the ring *)
(* lets the automaton put one line together from pieces of several.        *)
OnlyTyped == ~lapped => \A i \in DOMAIN called : AsTyped(called[i])

(* Every command that was read was taken by the queue or dropped; those    *)
(* taken are done, under way or waiting, each once and in the order of     *)
(* reading: no notification that merges with another loses one, and a      *)
(* command that takes long only delays those behind it.                    *)
Accounted ==
  /\ sent = done \o (IF flash = "run" THEN <<cmd>> ELSE <<>>) \o queue
  /\ Len(called) = Len(sent) + Len(dropped)
  /\ \A s \in {sent, dropped} : \A i \in 2 .. Len(s) : s[i][1] > s[i - 1][1]

(* A user who never has more commands unfinished than the queue has places *)
(* loses none, once the qFlash task has started - although the task takes  *)
(* only one per notification, and laps of the ring count as unfinished.    *)
DropNeedsFlood == dropped # <<>> => flood \/ early

(* Every line is executed or dropped in the end, unless the ring was lapped*)
EveryLineServed ==
  \A n \in 1 .. MaxTyped \div LineLen :
    typed >= n * LineLen ~>
      lapped \/ \E i \in DOMAIN (done \o dropped) : (done \o dropped)[i][1] = (n - 1) * LineLen + 1

=============================================================================
