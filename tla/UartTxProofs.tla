---------------------------- MODULE UartTxProofs ----------------------------
(***************************************************************************)
(* For every ring size of at least two slots: the characters are accounted *)
(* for, none is skipped without a lap, and none is sent out of order.      *)
(***************************************************************************)
EXTENDS UartTx, TLAPS

(* The slot s holds the character that a reader at rd will take for the    *)
(* one Ahead(s) places further on.                                         *)
HoldsPending ==
  \A s \in Slots : Ahead(s) < Pending => buf[s] = written - Pending + Ahead(s) + 1

(* The character being written is in its slot before the index advances.   *)
HoldsNew == pc \in {"incEmpty", "incData"} => buf[wr] = written + 1

(* The branch of _write() that re-enables the interrupt saw an empty ring, *)
(* and the handler cannot make an empty ring anything else.                *)
EmptySeen == pc \in {"storeEmpty", "incEmpty"} => rd = wr

(* What has been sent is older than everything still in the ring.          *)
SentIsOld ==
  /\ lastTx <= written - Pending
  /\ dropped >= 0
  /\ dropped = 0 => lastTx = sent

IInv ==
  /\ TypeOK
  /\ LossIsWholeLaps
  /\ HoldsPending
  /\ HoldsNew
  /\ EmptySeen
  /\ SentIsOld

-----------------------------------------------------------------------------
(* The two wrap tests in the code, "< Size - 1" in _write() and ">= Size"  *)
(* in the handler, walk through the slots in the same order.               *)
LEMMA SameWrap ==
  ASSUME NEW i \in Slots
  PROVE  /\ NextSlot(i) \in Slots
         /\ (IF i + 1 >= Size THEN 0 ELSE i + 1) = NextSlot(i)
  BY SizeAssumption DEF Slots, NextSlot

(* Taking one character moves every other pending slot one place nearer.   *)
LEMMA AheadAfterRead ==
  ASSUME TypeOK, rd # wr, rd' = NextSlot(rd), wr' = wr, NEW s \in Slots
  PROVE  /\ Pending' = Pending - 1
         /\ Ahead(s)' < Pending' => Ahead(s) = Ahead(s)' + 1 /\ Ahead(s) < Pending
         /\ Pending \in 1 .. Size - 1
         /\ Ahead(s) \in 0 .. Size - 1
         /\ Ahead(s)' \in 0 .. Size - 1
  BY SizeAssumption DEF TypeOK, Slots, NextSlot, Ahead, Pending

(* Advancing the writer adds one character, or empties a ring that was     *)
(* full up to its last slot.                                               *)
LEMMA PendingAfterWrite ==
  ASSUME TypeOK, wr' = NextSlot(wr), rd' = rd, NEW s \in Slots
  PROVE  /\ Pending' = IF NextSlot(wr) = rd THEN 0 ELSE Pending + 1
         /\ NextSlot(wr) = rd => Pending = Size - 1
         /\ Ahead(s)' = Ahead(s)
         /\ Ahead(s) = Pending => s = wr
         /\ Pending \in 0 .. Size - 1
         /\ Ahead(s) \in 0 .. Size - 1
  BY SizeAssumption DEF TypeOK, Slots, NextSlot, Ahead, Pending

LEMMA PendingRange ==
  ASSUME TypeOK, NEW s \in Slots
  PROVE  /\ Pending \in 0 .. Size - 1
         /\ Ahead(s) \in 0 .. Size - 1
         /\ Ahead(s) = 0 <=> s = rd
         /\ Pending = 0 <=> wr = rd
         /\ s # wr => Ahead(s) # Pending
         /\ Ahead(wr) = Pending
  BY SizeAssumption DEF TypeOK, Slots, Ahead, Pending

-----------------------------------------------------------------------------
LEMMA InitIInv == Init => IInv
<1> SUFFICES ASSUME Init PROVE IInv
  OBVIOUS
<1>1. TypeOK
  <2>1. 0 \in Slots /\ 0 \in Chars /\ buf \in [Slots -> Chars]
    BY SizeAssumption, MaxWritesAssumption DEF Init, Slots, Chars
  <2>2. txie \in BOOLEAN
    BY DEF Init
  <2> QED
    BY <2>1, <2>2 DEF Init, TypeOK
<1>2. Pending = 0
  BY DEF Init, Pending, Ahead
<1>3. \A s \in Slots : Ahead(s) \in Nat
  BY SizeAssumption DEF Init, Ahead, Slots
<1>4. LossIsWholeLaps /\ HoldsPending /\ HoldsNew /\ EmptySeen /\ SentIsOld
  BY <1>2, <1>3
  DEF Init, LossIsWholeLaps, HoldsPending, HoldsNew, EmptySeen, SentIsOld
<1> QED
  BY <1>1, <1>4 DEF IInv

LEMMA CheckIInv == IInv /\ WriteCheck => IInv'
  BY MaxWritesAssumption
  DEF WriteCheck, IInv, TypeOK, LossIsWholeLaps, HoldsPending, HoldsNew,
      EmptySeen, SentIsOld, Slots, Chars, Ahead, Pending

LEMMA StoreIInv == IInv /\ WriteStore => IInv'
<1> SUFFICES ASSUME IInv, WriteStore PROVE IInv'
  OBVIOUS
<1>1. UNCHANGED <<wr, rd, written>> /\ Pending' = Pending
      /\ \A s \in Slots : Ahead(s)' = Ahead(s)
  BY DEF WriteStore, Ahead, Pending
<1>2. wr \in Slots /\ written + 1 \in Chars /\ buf \in [Slots -> Chars]
  BY MaxWritesAssumption DEF IInv, TypeOK, WriteStore, Slots, Chars
<1>3. TypeOK'
  BY <1>2, MaxWritesAssumption DEF WriteStore, IInv, TypeOK, Slots, Chars
<1>4. HoldsPending'
  <2> SUFFICES ASSUME NEW s \in Slots, Ahead(s) < Pending
               PROVE  buf'[s] = written - Pending + Ahead(s) + 1
    BY <1>1 DEF HoldsPending
  <2>1. s # wr
    BY PendingRange DEF IInv
  <2> QED
    BY <2>1, <1>2 DEF WriteStore, IInv, HoldsPending
<1>5. HoldsNew'
  BY <1>1, <1>2 DEF HoldsNew, WriteStore
<1>6. EmptySeen' /\ SentIsOld' /\ LossIsWholeLaps'
  BY <1>1 DEF WriteStore, IInv, EmptySeen, SentIsOld, LossIsWholeLaps
<1> QED
  BY <1>3, <1>4, <1>5, <1>6 DEF IInv

LEMMA AdvanceIInv == IInv /\ WriteAdvance => IInv'
<1> SUFFICES ASSUME IInv, WriteAdvance PROVE IInv'
  OBVIOUS
<1>1. wr \in Slots /\ TypeOK /\ wr' = NextSlot(wr) /\ rd' = rd /\ buf' = buf
      /\ written' = written + 1 /\ sent' = sent /\ lastTx' = lastTx
  BY DEF IInv, TypeOK, WriteAdvance
<1>2. /\ Pending' = IF NextSlot(wr) = rd THEN 0 ELSE Pending + 1
      /\ NextSlot(wr) = rd => Pending = Size - 1
      /\ Pending \in 0 .. Size - 1
  BY <1>1, PendingAfterWrite
<1>3. TypeOK'
  <2>1. wr' \in Slots
    BY <1>1, SameWrap
  <2>2. written' \in Chars
    BY <1>1, MaxWritesAssumption DEF WriteAdvance, TypeOK, Chars
  <2>3. dropped' \in Nat
    BY <1>1, SizeAssumption DEF WriteAdvance, TypeOK
  <2>4. pc' \in {"enable", "idle"}
    BY DEF WriteAdvance
  <2>5. UNCHANGED <<buf, rd, txie, tdr, sent, lastTx>>
    BY DEF WriteAdvance
  <2> QED
    BY <1>1, <2>1, <2>2, <2>3, <2>4, <2>5 DEF TypeOK
<1>4. LossIsWholeLaps'
  BY <1>1, <1>2, SizeAssumption
  DEF WriteAdvance, IInv, TypeOK, LossIsWholeLaps, Chars
<1>5. HoldsPending'
  <2> SUFFICES ASSUME NEW s \in Slots, Ahead(s)' < Pending'
               PROVE  buf'[s] = written' - Pending' + Ahead(s)' + 1
    BY DEF HoldsPending
  <2>1. /\ Ahead(s)' = Ahead(s)
        /\ Ahead(s) = Pending => s = wr
        /\ Ahead(s) \in 0 .. Size - 1
    BY <1>1, PendingAfterWrite
  <2>2. NextSlot(wr) # rd /\ Pending' = Pending + 1
    BY <1>2, <2>1, SizeAssumption
  <2>3. CASE Ahead(s) = Pending
    <3>1. buf[s] = written + 1
      BY <2>1, <2>3 DEF IInv, HoldsNew, WriteAdvance
    <3> QED
      BY <3>1, <2>1, <2>2, <2>3, <1>1, <1>2, SizeAssumption, MaxWritesAssumption
      DEF TypeOK, Chars
  <2>4. CASE Ahead(s) < Pending
    BY <2>1, <2>2, <2>4, <1>1, <1>2, SizeAssumption, MaxWritesAssumption
    DEF IInv, HoldsPending, TypeOK, Chars
  <2> QED
    BY <2>1, <2>2, <2>3, <2>4, <1>2, SizeAssumption
<1>6. HoldsNew' /\ EmptySeen'
  BY DEF WriteAdvance, HoldsNew, EmptySeen
<1>7. SentIsOld'
  BY <1>1, <1>2, SizeAssumption
  DEF WriteAdvance, IInv, TypeOK, SentIsOld, Chars
<1> QED
  BY <1>3, <1>4, <1>5, <1>6, <1>7 DEF IInv

LEMMA EnableIInv == IInv /\ WriteEnable => IInv'
  BY DEF WriteEnable, IInv, TypeOK, LossIsWholeLaps, HoldsPending, HoldsNew,
         EmptySeen, SentIsOld, Ahead, Pending

LEMMA DisableIInv == IInv /\ TxIrqDisable => IInv'
<1> SUFFICES ASSUME IInv, TxIrqDisable PROVE IInv'
  OBVIOUS
<1>1. /\ UNCHANGED <<buf, wr, rd, tdr, pc, written, sent, lastTx, dropped>>
      /\ txie' \in BOOLEAN
  BY DEF TxIrqDisable
<1> QED
  BY <1>1 DEF IInv, TypeOK, LossIsWholeLaps, HoldsPending, HoldsNew,
              EmptySeen, SentIsOld, Ahead, Pending

(* The handler always takes the oldest pending character.                  *)
LEMMA SendsOldest ==
  ASSUME IInv, TxIrqSend
  PROVE  /\ lastTx' = written - Pending + 1
         /\ rd' = NextSlot(rd) /\ wr' = wr
         /\ Pending' = Pending - 1
         /\ Pending \in 1 .. Size - 1
<1>1. rd \in Slots /\ TypeOK /\ rd # wr /\ wr' = wr /\ lastTx' = buf[rd]
  BY DEF IInv, TypeOK, TxIrqSend
<1>2. rd' = NextSlot(rd)
  BY <1>1, SameWrap DEF TxIrqSend
<1>3. Pending' = Pending - 1 /\ Pending \in 1 .. Size - 1
  BY <1>1, <1>2, AheadAfterRead
<1>4. Ahead(rd) = 0
  BY <1>1, PendingRange
<1>5. buf[rd] = written - Pending + 0 + 1
  BY <1>1, <1>3, <1>4, SizeAssumption DEF IInv, HoldsPending
<1> QED
  BY <1>1, <1>2, <1>3, <1>5, SizeAssumption, MaxWritesAssumption
  DEF TypeOK, Chars

LEMMA SendIInv == IInv /\ TxIrqSend => IInv'
<1> SUFFICES ASSUME IInv, TxIrqSend PROVE IInv'
  OBVIOUS
<1>1. rd \in Slots /\ TypeOK /\ rd # wr /\ written' = written /\ buf' = buf
      /\ dropped' = dropped /\ sent' = sent + 1
      /\ txie' = txie /\ pc' = pc /\ tdr' = buf[rd] /\ lastTx' = buf[rd]
  BY DEF IInv, TypeOK, TxIrqSend
<1>2. /\ lastTx' = written - Pending + 1
      /\ rd' = NextSlot(rd) /\ wr' = wr
      /\ Pending' = Pending - 1
      /\ Pending \in 1 .. Size - 1
  BY SendsOldest
<1>3. TypeOK'
  <2>1. rd' \in Slots /\ buf[rd] \in Chars
    BY <1>1, <1>2, SameWrap DEF TypeOK
  <2> QED
    BY <2>1, <1>1, <1>2 DEF TypeOK
<1>4. LossIsWholeLaps'
  BY <1>1, <1>2, SizeAssumption, MaxWritesAssumption
  DEF IInv, TypeOK, LossIsWholeLaps, Chars
<1>5. HoldsPending'
  <2> SUFFICES ASSUME NEW s \in Slots, Ahead(s)' < Pending'
               PROVE  buf[s] = written - Pending' + Ahead(s)' + 1
    BY <1>1 DEF HoldsPending
  <2>1. /\ Ahead(s) = Ahead(s)' + 1 /\ Ahead(s) < Pending
        /\ Ahead(s)' \in 0 .. Size - 1
    BY <1>1, <1>2, AheadAfterRead
  <2>2. buf[s] = written - Pending + Ahead(s) + 1
    BY <2>1 DEF IInv, HoldsPending
  <2> QED
    BY <2>1, <2>2, <1>1, <1>2, SizeAssumption, MaxWritesAssumption
    DEF TypeOK, Chars
<1>6. HoldsNew' /\ EmptySeen'
  BY <1>1, <1>2 DEF TxIrqSend, IInv, HoldsNew, EmptySeen
<1>7. SentIsOld'
  <2>1. lastTx' = written' - Pending'
    BY <1>1, <1>2, SizeAssumption, MaxWritesAssumption DEF TypeOK, Chars
  <2>2. dropped' = 0 => lastTx' = sent'
    BY <1>1, <1>2, SizeAssumption, MaxWritesAssumption
    DEF IInv, TypeOK, Chars, LossIsWholeLaps
  <2> QED
    BY <2>1, <2>2, <1>1, <1>2, <1>3 DEF IInv, SentIsOld, TypeOK, Chars
<1> QED
  BY <1>3, <1>4, <1>5, <1>6, <1>7 DEF IInv

LEMMA ShiftIInv == IInv /\ UartShift => IInv'
  BY MaxWritesAssumption
  DEF UartShift, IInv, TypeOK, LossIsWholeLaps, HoldsPending, HoldsNew,
      EmptySeen, SentIsOld, Ahead, Pending, Chars

LEMMA StutterIInv == IInv /\ UNCHANGED vars => IInv'
  BY DEF vars, IInv, TypeOK, LossIsWholeLaps, HoldsPending, HoldsNew,
         EmptySeen, SentIsOld, Ahead, Pending

LEMMA NextIInv == IInv /\ [Next]_vars => IInv'
  BY CheckIInv, StoreIInv, AdvanceIInv, EnableIInv, DisableIInv, SendIInv,
     ShiftIInv, StutterIInv DEF Next, Write, TxIrq

LEMMA SpecIInv == Spec => []IInv
  BY InitIInv, NextIInv, PTL DEF Spec

-----------------------------------------------------------------------------
(* Type correctness of the ring, its indices and its history.              *)
THEOREM TypeCorrect == Spec => []TypeOK
<1>1. IInv => TypeOK
  BY DEF IInv
<1> QED
  BY <1>1, SpecIInv, PTL

(* A character is lost only when the writer laps the reader, and then a    *)
(* whole ring of them, whatever the placement of the interrupt in _write().*)
THEOREM LossOnlyByLaps == Spec => []LossIsWholeLaps
<1>1. IInv => LossIsWholeLaps
  BY DEF IInv
<1> QED
  BY <1>1, SpecIInv, PTL

(* Without a lap the handler sends every character, gap-free.              *)
THEOREM GapFree == Spec => []NoGapWithoutLap
<1>1. IInv => NoGapWithoutLap
  BY DEF IInv, SentIsOld, NoGapWithoutLap
<1> QED
  BY <1>1, SpecIInv, PTL

(* The handler never stores a stale or older character in TDR.             *)
THEOREM SendsInOrder == Spec => NeverBackwards
<1>1. IInv /\ [Next]_vars => [lastTx' # lastTx => lastTx' > lastTx]_vars
  <2> SUFFICES ASSUME IInv, Next PROVE lastTx' # lastTx => lastTx' > lastTx
    OBVIOUS
  <2>1. CASE TxIrqSend
    <3>1. lastTx' = written - Pending + 1 /\ Pending \in 1 .. Size - 1
      BY <2>1, SendsOldest
    <3> QED
      BY <3>1, SizeAssumption, MaxWritesAssumption
      DEF IInv, SentIsOld, TypeOK, Chars
  <2>2. CASE Write \/ TxIrqDisable \/ UartShift
    BY <2>2 DEF Write, WriteCheck, WriteStore, WriteAdvance, WriteEnable,
                TxIrqDisable, UartShift
  <2> QED
    BY <2>1, <2>2 DEF Next, TxIrq
<1> QED
  BY <1>1, SpecIInv, PTL DEF Spec, NeverBackwards

=============================================================================
