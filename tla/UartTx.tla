------------------------------- MODULE UartTx -------------------------------
(***************************************************************************)
(* The transmit half of the debug UART: the ring buf_dbg between the       *)
(* retargeted _write() of printf (Utilities/uart_dbg/printf_dbg.c) and the *)
(* interrupt handler DBG_UART_IRQHandler (Utilities/uart_dbg/uart_dbg.c).  *)
(*                                                                         *)
(* The kernel is cooperative (configUSE_PREEMPTION 0) and _write() never   *)
(* blocks, so at most one _write() is in progress; the UART interrupt has  *)
(* priority 0 and can run between any two memory accesses of it.  A        *)
(* character is represented by its sequence number: the n-th character     *)
(* handed to _write() is n.  Memory accesses are taken in program order.   *)
(***************************************************************************)
EXTENDS Integers

CONSTANTS
  Size,       \* DBG_UART_MAX_SIZE_BUFF, the number of slots of buf_dbg
  MaxWrites   \* bound: how many characters the tasks write in all

ASSUME SizeAssumption == Size \in Nat /\ Size >= 2
ASSUME MaxWritesAssumption == MaxWrites \in Nat

VARIABLES
  buf,      \* buf_dbg
  wr,       \* index_wr_buf_mes
  rd,       \* index_rd_buf_mes
  txie,     \* the TXE interrupt enable bit of CR1
  tdr,      \* the data register: 0 when empty (flag TXE), else a character
  pc,       \* where the current call of _write() is
  written,  \* history: characters whose _write() advanced index_wr_buf_mes
  sent,     \* history: characters the handler stored in TDR
  lastTx,   \* history: the last character the handler stored in TDR
  dropped   \* history: characters that became unreachable by a full lap

vars == <<buf, wr, rd, txie, tdr, pc, written, sent, lastTx, dropped>>

Slots == 0 .. Size - 1
Chars == 0 .. MaxWrites

(* Mutant: the cyclic test compares with one slot too few.                 *)
NextSlotShort(i) == IF i < Size - 2 THEN i + 1 ELSE 0

(* The ring is cyclic: both indices go back to 0 after the last slot.      *)
NextSlot(i) == IF i < Size - 1 THEN i + 1 ELSE 0

(* How far slot s is ahead of the reader, and how many characters the      *)
(* handler still sees between its index and the writer's.                  *)
Ahead(s) == IF s >= rd THEN s - rd ELSE s - rd + Size
Pending == Ahead(wr)

Init ==
  /\ buf = [s \in Slots |-> 0]
  /\ wr = 0 /\ rd = 0
  /\ txie = FALSE /\ tdr = 0
  /\ pc = "idle"
  /\ written = 0 /\ sent = 0 /\ lastTx = 0 /\ dropped = 0

-----------------------------------------------------------------------------
(* _write(), one action per access that the handler can observe.           *)

(* The comparison of the two indices selects the branch.                   *)
WriteCheck ==
  /\ pc = "idle" /\ written < MaxWrites
  /\ pc' = IF rd = wr THEN "storeEmpty" ELSE "storeData"
  /\ UNCHANGED <<buf, wr, rd, txie, tdr, written, sent, lastTx, dropped>>

(* Mutant: the index is advanced before the character is stored.           *)
WriteStoreAhead ==
  /\ pc \in {"storeEmpty", "storeData"}
  /\ buf' = [buf EXCEPT ![NextSlot(wr)] = written + 1]
  /\ pc' = IF pc = "storeEmpty" THEN "incEmpty" ELSE "incData"
  /\ UNCHANGED <<wr, rd, txie, tdr, written, sent, lastTx, dropped>>

(* buf_dbg[index_wr_buf_mes] = data[0]: nothing asks if the slot is free.  *)
WriteStore ==
  /\ pc \in {"storeEmpty", "storeData"}
  /\ buf' = [buf EXCEPT ![wr] = written + 1]
  /\ pc' = IF pc = "storeEmpty" THEN "incEmpty" ELSE "incData"
  /\ UNCHANGED <<wr, rd, txie, tdr, written, sent, lastTx, dropped>>

(* The cyclic increment.  When it makes the indices equal, the handler     *)
(* takes the ring for empty and Size characters are gone.                  *)
WriteAdvance ==
  /\ pc \in {"incEmpty", "incData"}
  /\ wr' = NextSlot(wr)
  /\ written' = written + 1
  /\ dropped' = IF NextSlot(wr) = rd THEN dropped + Size ELSE dropped
  /\ pc' = IF pc = "incEmpty" THEN "enable" ELSE "idle"
  /\ UNCHANGED <<buf, rd, txie, tdr, sent, lastTx>>

(* uart_irq_txe_en(), only reached on the branch that saw an empty ring.   *)
WriteEnable ==
  /\ pc = "enable"
  /\ txie' = TRUE
  /\ pc' = "idle"
  /\ UNCHANGED <<buf, wr, rd, tdr, written, sent, lastTx, dropped>>

-----------------------------------------------------------------------------
(* DBG_UART_IRQHandler, transmit part.  It runs with TXE and TXEIE set.    *)

TxIrqDisable ==
  /\ txie /\ tdr = 0
  /\ rd = wr
  /\ txie' = FALSE
  /\ UNCHANGED <<buf, wr, rd, tdr, pc, written, sent, lastTx, dropped>>

(* Mutants: the handler sends without comparing the indices; it switches   *)
(* itself off after each character.                                        *)
TxIrqSendUnchecked ==
  /\ txie /\ tdr = 0
  /\ tdr' = buf[rd] /\ lastTx' = buf[rd] /\ sent' = sent + 1
  /\ rd' = NextSlot(rd)
  /\ UNCHANGED <<buf, wr, txie, pc, written, dropped>>

TxIrqSendOnce ==
  /\ txie /\ tdr = 0 /\ rd # wr
  /\ tdr' = buf[rd] /\ lastTx' = buf[rd] /\ sent' = sent + 1
  /\ rd' = NextSlot(rd)
  /\ txie' = FALSE
  /\ UNCHANGED <<buf, wr, pc, written, dropped>>

TxIrqSend ==
  /\ txie /\ tdr = 0
  /\ rd # wr
  /\ tdr' = buf[rd]
  /\ rd' = IF rd + 1 >= Size THEN 0 ELSE rd + 1
  /\ sent' = sent + 1
  /\ lastTx' = buf[rd]
  /\ UNCHANGED <<buf, wr, txie, pc, written, dropped>>

(* The USART moves TDR to its shift register, which sets TXE again.        *)
UartShift ==
  /\ tdr # 0
  /\ tdr' = 0
  /\ UNCHANGED <<buf, wr, rd, txie, pc, written, sent, lastTx, dropped>>

Write == WriteCheck \/ WriteStore \/ WriteAdvance \/ WriteEnable
TxIrq == TxIrqDisable \/ TxIrqSend
Next == Write \/ TxIrq \/ UartShift

(* The tasks may stop printing at any moment between calls; a call that    *)
(* has begun runs to its end, a pending interrupt is taken, and the USART  *)
(* shifts out what it holds.                                               *)
Fairness ==
  /\ WF_vars(WriteStore \/ WriteAdvance \/ WriteEnable)
  /\ WF_vars(TxIrq)
  /\ WF_vars(UartShift)

Spec == Init /\ [][Next]_vars
FairSpec == Spec /\ Fairness

-----------------------------------------------------------------------------
(* Every variable keeps the values its C type and use allow.               *)
TypeOK ==
  /\ buf \in [Slots -> Chars]
  /\ wr \in Slots /\ rd \in Slots
  /\ txie \in BOOLEAN
  /\ tdr \in Chars
  /\ pc \in {"idle", "storeEmpty", "storeData", "incEmpty", "incData", "enable"}
  /\ written \in Chars /\ sent \in Nat /\ lastTx \in Chars /\ dropped \in Nat
  /\ pc \in {"storeEmpty", "storeData", "incEmpty", "incData"} => written < MaxWrites

(* Loss only happens by whole laps: whatever the interleaving of _write()  *)
(* and the handler, the characters written are exactly those sent, those   *)
(* the handler still sees, and Size for each time the writer caught up     *)
(* with the reader.                                                        *)
LossIsWholeLaps == written = sent + dropped + Pending

(* As long as the writer never laps the reader the line carries every      *)
(* character: the last one sent is the sent-th one written.                *)
NoGapWithoutLap == dropped = 0 => lastTx = sent

(* The handler never sends a stale slot or an older character: what it     *)
(* stores in TDR is always newer than everything sent before, laps or not. *)
NeverBackwards == [][lastTx' # lastTx => lastTx' > lastTx]_vars

(* While the interrupt is enabled the ring drains: characters the handler  *)
(* can see are sent (or lapped) and it reaches the empty ring again.       *)
EnabledDrains == (txie /\ rd # wr) ~> (rd = wr)

(* The comments of both files: "no data in the buffer - enabling the       *)
(* transmission" (printf_dbg.c:43) and "no data in the buffer - disabling  *)
(* the transmission" (uart_dbg.c:150): between calls of _write() the       *)
(* interrupt is only off when there is nothing to send.                    *)
OffOnlyWhenEmpty == (pc = "idle" /\ ~txie) => rd = wr

=============================================================================
