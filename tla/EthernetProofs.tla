--------------------------- MODULE EthernetProofs ---------------------------
(***************************************************************************)
(* For every number of descriptors, pbufs and mailbox places: the driver's *)
(* index keeps step with the DMA's, frames are taken in order, the receive *)
(* path does not hang, and an interface that is up runs unless something   *)
(* was sent after the driver was stopped.                                  *)
(***************************************************************************)
EXTENDS EthernetIf, TLAPS

(* The interrupt was notified before RI is cleared.                        *)
GivenIsNoted == isr = "given" => note

(* The driver runs only while the interface is up, and only sending can    *)
(* leave a stopped driver's handle in error.                               *)
StoppedHandle ==
  /\ ~up => hw = "off"
  /\ hw = "off" /\ gState = "ERROR" => late

(* A descriptor given back with bit 30 set was so when the driver started. *)
MarkedAtStart == \A i \in Slots : (~desc[i].own /\ desc[i].b30) => buf[i] \in atStart

(* How far slot i lies ahead of the driver's index.                        *)
After(i) == IF i >= cur THEN i - cur ELSE i - cur + N

(* The ring with p frames in it: they lie between the driver's index and   *)
(* the DMA's, in the order they came, and are newer than the last one taken*)
RingOf(p) ==
  /\ p \in 0 .. N /\ p <= sent
  /\ head = (IF cur + p >= N THEN cur + p - N ELSE cur + p)
  /\ \A i \in Slots : desc[i].own <=> After(i) >= p
  /\ \A i \in Slots : After(i) < p => buf[i] = sent - p + 1 + After(i)
  /\ last <= sent - p

InStep == \E p \in 0 .. N : RingOf(p)

IInv ==
  /\ TypeOK
  /\ GivenIsNoted
  /\ StoppedHandle
  /\ UpIsRunning
  /\ MarkedAtStart
  /\ SkippedAtStart
  /\ SpeedAgrees
  /\ InStep
  /\ LeftBehind
  /\ NoStall

-----------------------------------------------------------------------------
(* The index stays in the ring.                                            *)
LEMMA IncrInSlots == ASSUME NEW i \in Slots PROVE Incr(i) \in Slots
  BY RingAssumption DEF Slots, Incr

(* Taking frames keeps the types of the ring.                              *)
LEMMA TakeType ==
  ASSUME TypeOK, TakeFrame
  PROVE  /\ desc' \in [Slots -> [own : BOOLEAN, b30 : BOOLEAN]]
         /\ cur' \in Slots /\ last' \in Nat /\ skipped' \subseteq Nat
  <1>1. desc' \in [Slots -> [own : BOOLEAN, b30 : BOOLEAN]]
    BY DEF TypeOK, TakeFrame, Rebuilt
  <1>2. Incr(cur) \in Slots /\ Incr(Incr(cur)) \in Slots
    BY IncrInSlots DEF TypeOK
  <1>3. cur' \in Slots
    BY <1>2 DEF TakeFrame
  <1>4. buf[cur] \in Nat /\ buf[Incr(cur)] \in Nat
    BY <1>2 DEF TypeOK
  <1>5. last' \in Nat /\ skipped' \subseteq Nat
    BY <1>4 DEF TakeFrame, TypeOK
  <1> QED BY <1>1, <1>3, <1>5

(* Every step keeps the types.                                             *)
LEMMA TypeStep ==
  ASSUME TypeOK, [Next]_vars
  PROVE  TypeOK'
  <1> USE DEF ring, task, stack, link, hist
  <1>1. CASE DmaReceives
    <2>1. head \in Slots /\ Incr(head) \in Slots
      BY IncrInSlots DEF TypeOK
    <2>2. buf' \in [Slots -> Nat] /\ sent' \in Nat /\ head' \in Slots
      BY <1>1, <2>1 DEF DmaReceives, TypeOK
    <2>3. desc' \in [Slots -> [own : BOOLEAN, b30 : BOOLEAN]]
      BY <1>1, <2>1 DEF DmaReceives, TypeOK
    <2> QED BY <1>1, <2>2, <2>3 DEF DmaReceives, TypeOK
  <1>2. CASE Irq \/ FatalBusError
    <2>1. CASE IrqNotifies
      BY <2>1 DEF IrqNotifies, TypeOK
    <2>2. CASE IrqClears
      <3>1. ri' \in BOOLEAN /\ isr' \in {"idle", "given"}
        BY <2>2 DEF IrqClears
      <3>2. UNCHANGED <<ring, task, stack, hw, gState, link, hist, atStart, late>>
        BY <2>2 DEF IrqClears
      <3> QED BY <3>1, <3>2 DEF TypeOK
    <2>3. CASE FatalBusError
      BY <2>3 DEF FatalBusError, TypeOK
    <2> QED BY <1>2, <2>1, <2>2, <2>3 DEF Irq
  <1>3. CASE InputWakes \/ InputGetsLock \/ InputEmpty
    <2>1. CASE InputWakes
      <3>1. note' \in BOOLEAN /\ inp' \in {"wait", "blocked", "run"}
        BY <2>1 DEF InputWakes
      <3>2. UNCHANGED <<ring, ri, isr, stack, hw, gState, link, hist, atStart, late>>
        BY <2>1 DEF InputWakes
      <3> QED BY <3>1, <3>2 DEF TypeOK
    <2>2. CASE InputGetsLock
      BY <2>2 DEF InputGetsLock, TypeOK
    <2>3. CASE InputEmpty
      BY <2>3 DEF InputEmpty, TypeOK
    <2> QED BY <1>3, <2>1, <2>2, <2>3
  <1>4. CASE InputPosts
    <2>1. buf[cur] \in Nat
      BY DEF TypeOK
    <2>2. mbox' \in Seq(Nat) /\ Len(mbox') <= MboxSize
      BY <1>4, <2>1, PoolAssumption DEF InputPosts, TypeOK
    <2>3. TakeFrame
      BY <1>4 DEF InputPosts
    <2>4. /\ desc' \in [Slots -> [own : BOOLEAN, b30 : BOOLEAN]]
          /\ cur' \in Slots /\ last' \in Nat /\ skipped' \subseteq Nat
      BY <2>3, TakeType
    <2>5. UNCHANGED <<buf, head, sent, ri, isr, task, tcpip, kept, hw, gState, link, dry, atStart, late>>
      BY <1>4 DEF InputPosts
    <2> QED BY <2>2, <2>4, <2>5 DEF TypeOK, task, link
  <1>5. CASE InputDry
    <2>1. TakeFrame
      BY <1>5 DEF InputDry
    <2> QED BY <1>5, <2>1, TakeType DEF InputDry, TypeOK
  <1>6. CASE TcpipFetches
    <2>2. mbox \in Seq(Nat) /\ mbox # <<>> /\ Len(mbox) <= MboxSize
      BY <1>6 DEF TcpipFetches, TypeOK
    <2>3. Len(mbox) \in Nat \ {0}
      BY <2>2
    <2>4. Head(mbox) = mbox[1] /\ mbox[1] \in Nat
      BY <2>2, <2>3
    <2>5. Tail(mbox) \in Seq(Nat) /\ Len(Tail(mbox)) = Len(mbox) - 1
      BY <2>2, <2>3
    <2>1. Head(mbox) \in Nat /\ Tail(mbox) \in Seq(Nat) /\ Len(Tail(mbox)) <= MboxSize
      BY <2>2, <2>3, <2>4, <2>5, PoolAssumption
    <2>6. tcpip' \in Nat /\ mbox' \in Seq(Nat) /\ Len(mbox') <= MboxSize
      BY <1>6, <2>1 DEF TcpipFetches
    <2> QED BY <1>6, <2>6 DEF TcpipFetches, TypeOK
  <1>7. CASE TcpipDone
    <2>1. kept' \subseteq Nat /\ tcpip' \in Nat
      BY <1>7 DEF TcpipDone, TypeOK
    <2> QED BY <1>7, <2>1 DEF TcpipDone, TypeOK
  <1>14. CASE \E f \in kept : Freed(f)
    <2>1. PICK f \in kept : Freed(f)
      BY <1>14
    <2>2. kept' \subseteq Nat
      BY <2>1 DEF Freed, TypeOK
    <2> QED BY <2>1, <2>2 DEF Freed, TypeOK
  <1>12. CASE TcpipAnswers
    <2>1. late' \in BOOLEAN
      BY <1>12 DEF TcpipAnswers
    <2>2. gState' \in {"READY", "ERROR"}
      BY <1>12 DEF TcpipAnswers, TypeOK
    <2> QED BY <1>12, <2>1, <2>2 DEF TcpipAnswers, TypeOK
  <1>8. CASE LinkLost
    <2>1. desc' \in [Slots -> [own : BOOLEAN, b30 : BOOLEAN]]
      BY <1>8 DEF LinkLost, TypeOK
    <2> QED BY <1>8, <2>1 DEF LinkLost, TypeOK
  <1>9. CASE LinkFound
    <2>0. desc \in [Slots -> [own : BOOLEAN, b30 : BOOLEAN]]
      BY DEF TypeOK
    <2>1. desc' \in [Slots -> [own : BOOLEAN, b30 : BOOLEAN]]
      <3>1. desc' = desc \/ desc' = [i \in Slots |-> [desc[i] EXCEPT !.b30 = TRUE]]
        BY <1>9 DEF LinkFound, StartIT
      <3> QED BY <2>0, <3>1
    <2>2. InRing \subseteq Nat
      BY DEF InRing, TypeOK
    <2>3. hw' \in {"off", "on", "halted"} /\ atStart' \subseteq Nat
      BY <1>9, <2>2 DEF LinkFound, StartIT, TypeOK
    <2>4. speed' \in Speeds /\ mac' \in Speeds
      BY <1>9 DEF LinkFound, TypeOK, Speeds
    <2>5. unsettled' \in BOOLEAN
      BY <1>9 DEF LinkFound
    <2> QED BY <1>9, <2>1, <2>3, <2>4, <2>5 DEF LinkFound, TypeOK
  <1>10. CASE \E p \in {"down", "nego"} \cup Speeds : LinkChanges(p)
    BY <1>10 DEF LinkChanges, TypeOK
  <1>11. CASE UNCHANGED vars
    BY <1>11 DEF TypeOK, vars
  <1>13. DmaReceives \/ Irq \/ FatalBusError \/ Input \/ Tcpip \/ LinkThread
         \/ (\E f \in kept : Freed(f))
         \/ (\E p \in {"down", "nego"} \cup Speeds : LinkChanges(p)) \/ UNCHANGED vars
    BY DEF Next
  <1> QED BY <1>13, <1>1, <1>2, <1>3, <1>4, <1>5, <1>6, <1>7, <1>8, <1>9, <1>10, <1>11,
             <1>12, <1>14
          DEF Input, Tcpip, LinkThread

(* The initial state is typed.                                             *)
LEMMA TypeInit == Init => TypeOK
  <1> SUFFICES ASSUME Init PROVE TypeOK
    OBVIOUS
  <1>1. up \in BOOLEAN /\ unsettled \in BOOLEAN
    BY DEF Init
  <1>2. desc \in [Slots -> [own : BOOLEAN, b30 : BOOLEAN]] /\ buf \in [Slots -> Nat]
    BY <1>1 DEF Init
  <1>3. cur \in Slots /\ head \in Slots
    BY RingAssumption DEF Init, Slots
  <1>4. mbox \in Seq(Nat) /\ Len(mbox) <= MboxSize
    BY PoolAssumption DEF Init
  <1>5. hw \in {"off", "on", "halted"} /\ mac \in Speeds
    BY DEF Init, Speeds
  <1>6. ri \in BOOLEAN /\ note \in BOOLEAN /\ dry \in BOOLEAN /\ late \in BOOLEAN
    BY DEF Init
  <1> QED BY <1>1, <1>2, <1>3, <1>4, <1>5, <1>6 DEF Init, TypeOK

(* Every variable keeps its type, for every size of the ring, the pool and *)
(* the mailbox.                                                            *)
THEOREM TypeCorrect == Spec => []TypeOK
  BY TypeInit, TypeStep, PTL DEF Spec

-----------------------------------------------------------------------------
(* A received frame goes to the slot behind the last one in the ring.      *)
LEMMA RingReceives ==
  ASSUME TypeOK, DmaReceives, NEW p \in 0 .. N, RingOf(p)
  PROVE  p + 1 \in 0 .. N /\ RingOf(p + 1)'
  <1>1. head \in 0 .. N - 1 /\ cur \in 0 .. N - 1 /\ N \in Nat /\ sent \in Nat
    BY RingAssumption DEF TypeOK, Slots
  <1>2. After(head) >= p
    BY <1>1 DEF DmaReceives, RingOf, Slots
  <1>3. p + 1 \in 0 .. N /\ After(head) = p
    BY <1>1, <1>2 DEF RingOf, After
  <1>4. /\ cur' = cur /\ last' = last /\ sent' = sent + 1
        /\ head' = Incr(head)
        /\ \A i \in Slots : /\ desc'[i].own = IF i = head THEN FALSE ELSE desc[i].own
                          /\ buf'[i] = IF i = head THEN sent + 1 ELSE buf[i]
    BY <1>1 DEF DmaReceives, TypeOK, hist, Slots
  <1>5. \A i \in Slots : After(i)' = After(i) /\ (After(i) = p <=> i = head)
    BY <1>1, <1>3, <1>4 DEF After, Slots
  <1>6. head' = IF cur' + (p + 1) >= N THEN cur' + (p + 1) - N ELSE cur' + (p + 1)
    BY <1>1, <1>3, <1>4 DEF Incr, RingOf
  <1>7. \A i \in Slots : After(i) \in 0 .. N - 1
    BY <1>1 DEF After, Slots
  <1>8. \A i \in Slots : desc'[i].own <=> After(i)' >= p + 1
    <2> SUFFICES ASSUME NEW i \in Slots PROVE desc'[i].own <=> After(i) >= p + 1
      BY <1>5
    <2>1. desc[i].own <=> After(i) >= p
      BY DEF RingOf
    <2>2. After(i) \in 0 .. N - 1 /\ p \in Nat
      BY <1>7
    <2>3. CASE i = head
      <3>1. After(i) = p
        BY <2>3, <1>5
      <3>2. desc'[i].own = FALSE
        BY <2>3, <1>4
      <3> QED BY <3>1, <3>2, <2>2
    <2>4. CASE i # head
      <3>1. After(i) # p
        BY <2>4, <1>5
      <3>2. desc'[i].own = desc[i].own
        BY <2>4, <1>4
      <3> QED BY <3>1, <3>2, <2>1, <2>2
    <2> QED BY <2>3, <2>4
  <1>9. \A i \in Slots : After(i)' < p + 1 => buf'[i] = sent' - (p + 1) + 1 + After(i)'
    <2> SUFFICES ASSUME NEW i \in Slots, After(i) < p + 1 PROVE buf'[i] = sent - p + 1 + After(i)
      BY <1>1, <1>4, <1>5, <1>7
    <2>1. After(i) \in 0 .. N - 1 /\ p \in Nat
      BY <1>7
    <2>3. CASE i = head
      <3>1. After(i) = p
        BY <2>3, <1>5
      <3>2. buf'[i] = sent + 1
        BY <2>3, <1>4
      <3> QED BY <3>1, <3>2, <2>1, <1>1
    <2>4. CASE i # head
      <3>1. After(i) < p
        BY <2>1, <2>4, <1>5
      <3>2. buf'[i] = buf[i]
        BY <2>4, <1>4
      <3> QED BY <3>1, <3>2 DEF RingOf
    <2> QED BY <2>3, <2>4
  <1>10. last' <= sent' - (p + 1) /\ p + 1 <= sent'
    <2>1. last <= sent - p /\ p <= sent /\ p \in Nat /\ last \in Nat
      BY <1>1 DEF RingOf, TypeOK
    <2> QED BY <1>1, <1>4, <2>1
  <1> QED BY <1>3, <1>6, <1>8, <1>9, <1>10 DEF RingOf

(* A frame taken is the oldest in the ring, and newer than the last one.   *)
LEMMA RingTakes ==
  ASSUME TypeOK, TakeFrame, buf' = buf, head' = head, sent' = sent,
         NEW p \in 0 .. N, RingOf(p)
  PROVE  last' > last /\ InStep'
  <1>1. /\ head \in 0 .. N - 1 /\ cur \in 0 .. N - 1 /\ N \in Nat /\ N >= 2
        /\ sent \in Nat /\ last \in Nat
    BY RingAssumption DEF TypeOK, Slots
  <1>2. After(cur) = 0 /\ p > 0
    BY <1>1 DEF After, TakeFrame, RingOf, Slots
  <1>3. last' = sent - p + 1 /\ last' > last
    BY <1>1, <1>2 DEF TakeFrame, RingOf, Slots
  <1>4. Incr(cur) \in Slots /\ After(Incr(cur)) = 1
    BY <1>1 DEF After, Incr, Slots
  <1>5. \A i \in Slots : /\ After(i) \in 0 .. N - 1
                       /\ (After(i) = 0 <=> i = cur)
                       /\ (After(i) = 1 <=> i = Incr(cur))
    BY <1>1 DEF After, Incr, Slots
  <1>6. \A i \in Slots : desc'[i].own <=> (i \in Taken \/ desc[i].own)
    BY DEF TakeFrame, Rebuilt
  <1>7. CASE Skips
    <2>1. p >= 2
      BY <1>1, <1>4, <1>7 DEF Skips, RingOf
    <2>2. cur' = Incr(Incr(cur))
      BY <1>7 DEF TakeFrame
    <2>3. \A i \in Slots : After(i)' = IF After(i) >= 2 THEN After(i) - 2 ELSE After(i) + N - 2
      BY <1>1, <2>2 DEF After, Incr, Slots
    <2>4. head' = IF cur' + (p - 2) >= N THEN cur' + (p - 2) - N ELSE cur' + (p - 2)
      BY <1>1, <2>1, <2>2 DEF Incr, RingOf
    <2>5. \A i \in Slots : desc'[i].own <=> After(i)' >= p - 2
      BY <1>1, <1>5, <1>6, <1>7, <2>1, <2>3 DEF Taken, RingOf
    <2>6. \A i \in Slots : After(i)' < p - 2 => buf'[i] = sent' - (p - 2) + 1 + After(i)'
      BY <1>1, <1>5, <2>1, <2>3 DEF RingOf
    <2>7. p - 2 \in 0 .. N /\ p - 2 <= sent' /\ last' <= sent' - (p - 2)
      BY <1>1, <1>3, <2>1 DEF RingOf
    <2> QED BY <1>3, <2>4, <2>5, <2>6, <2>7 DEF InStep, RingOf
  <1>8. CASE ~Skips
    <2>2. cur' = Incr(cur)
      BY <1>8 DEF TakeFrame
    <2>3. \A i \in Slots : After(i)' = IF After(i) >= 1 THEN After(i) - 1 ELSE N - 1
      BY <1>1, <2>2 DEF After, Incr, Slots
    <2>4. head' = IF cur' + (p - 1) >= N THEN cur' + (p - 1) - N ELSE cur' + (p - 1)
      BY <1>1, <1>2, <2>2 DEF Incr, RingOf
    <2>5. \A i \in Slots : desc'[i].own <=> After(i)' >= p - 1
      BY <1>1, <1>2, <1>5, <1>6, <1>8, <2>3 DEF Taken, RingOf
    <2>6. \A i \in Slots : After(i)' < p - 1 => buf'[i] = sent' - (p - 1) + 1 + After(i)'
      BY <1>1, <1>2, <1>5, <2>3 DEF RingOf
    <2>7. p - 1 \in 0 .. N /\ p - 1 <= sent' /\ last' <= sent' - (p - 1)
      BY <1>1, <1>2, <1>3 DEF RingOf
    <2> QED BY <1>3, <2>4, <2>5, <2>6, <2>7 DEF InStep, RingOf
  <1> QED BY <1>7, <1>8

(* Starting and stopping change bit 30 alone.                              *)
LEMMA LinkKeepsRing ==
  ASSUME TypeOK, LinkLost \/ LinkFound
  PROVE  /\ \A i \in Slots : desc'[i].own = desc[i].own
         /\ UNCHANGED <<buf, cur, head, sent, last>>
  <1>1. \A i \in Slots : desc'[i].own = desc[i].own
    BY DEF LinkLost, LinkFound, StartIT, TypeOK
  <1> QED BY <1>1 DEF LinkLost, LinkFound, hist

(* Ownership and positions decide which frames are in the ring.            *)
LEMMA SameRing ==
  ASSUME \A i \in Slots : desc'[i].own = desc[i].own,
         UNCHANGED <<buf, cur, head, sent, last>>
  PROVE  /\ InRing' = InRing
         /\ InStep => InStep'
  BY DEF InRing, InStep, RingOf, After

(* What a step does to the ring: it receives, takes, or leaves it as it is.*)
LEMMA RingSteps ==
  ASSUME TypeOK, [Next]_vars
  PROVE  \/ DmaReceives
         \/ TakeFrame /\ UNCHANGED <<buf, head, sent>>
         \/ (\A i \in Slots : desc'[i].own = desc[i].own) /\ UNCHANGED <<buf, cur, head, sent, last>>
  <1>1. CASE Irq \/ FatalBusError
    BY <1>1 DEF Irq, IrqNotifies, IrqClears, FatalBusError, ring, hist
  <1>2. CASE Input
    BY <1>2 DEF Input, InputWakes, InputGetsLock, InputEmpty, InputPosts, InputDry, ring, hist
  <1>3. CASE Tcpip
    BY <1>3 DEF Tcpip, TcpipFetches, TcpipDone, TcpipAnswers, ring, hist
  <1>4. CASE LinkThread
    BY <1>4, LinkKeepsRing DEF LinkThread
  <1>5. CASE \E f \in kept : Freed(f)
    BY <1>5 DEF Freed, ring, hist
  <1>6. CASE \E p \in {"down", "nego"} \cup Speeds : LinkChanges(p)
    BY <1>6 DEF LinkChanges, ring, hist
  <1>7. CASE UNCHANGED vars
    BY <1>7 DEF vars, ring, hist
  <1> QED BY <1>1, <1>2, <1>3, <1>4, <1>5, <1>6, <1>7 DEF Next

(* The ring stays in step.                                                 *)
LEMMA StepStep ==
  ASSUME TypeOK, InStep, [Next]_vars
  PROVE  InStep' /\ (last' # last => last' > last)
  <1>1. PICK p \in 0 .. N : RingOf(p)
    BY DEF InStep
  <1>2. CASE DmaReceives
    BY <1>1, <1>2, RingReceives DEF InStep, DmaReceives, hist
  <1>3. CASE TakeFrame /\ UNCHANGED <<buf, head, sent>>
    BY <1>1, <1>3, RingTakes
  <1>4. CASE (\A i \in Slots : desc'[i].own = desc[i].own) /\ UNCHANGED <<buf, cur, head, sent, last>>
    BY <1>4, SameRing
  <1> QED BY <1>2, <1>3, <1>4, RingSteps

-----------------------------------------------------------------------------
(* The invariants that need no more than their own conjunct and the types. *)
LEMMA NotedStep ==
  ASSUME TypeOK, GivenIsNoted, [Next]_vars
  PROVE  GivenIsNoted'
  BY DEF GivenIsNoted, Next, DmaReceives, Irq, IrqNotifies, IrqClears, FatalBusError, Input,
         InputWakes, InputGetsLock, InputEmpty, InputPosts, InputDry, TakeFrame, Tcpip,
         TcpipFetches, TcpipDone, TcpipAnswers, Freed, LinkThread, LinkLost, LinkFound,
         LinkChanges, task, vars

(* Stops, starts and transmissions keep handle and interface in agreement. *)
LEMMA HandleStep ==
  ASSUME TypeOK, StoppedHandle, UpIsRunning, [Next]_vars
  PROVE  StoppedHandle' /\ UpIsRunning'
  <1> USE DEF StoppedHandle, UpIsRunning, link
  <1>1. CASE DmaReceives \/ Irq \/ FatalBusError
    BY <1>1 DEF DmaReceives, Irq, IrqNotifies, IrqClears, FatalBusError, TypeOK
  <1>2. CASE Input
    BY <1>2 DEF Input, InputWakes, InputGetsLock, InputEmpty, InputPosts, InputDry
  <1>3. CASE TcpipFetches \/ TcpipDone
    BY <1>3 DEF TcpipFetches, TcpipDone
  <1>9. CASE TcpipAnswers
    <2>1. up' = up /\ hw' = hw
      BY <1>9 DEF TcpipAnswers
    <2>2. hw = "off" => late'
      BY <1>9 DEF TcpipAnswers
    <2> QED BY <2>1, <2>2
  <1>4. CASE LinkLost
    BY <1>4 DEF LinkLost
  <1>5. CASE LinkFound
    BY <1>5 DEF LinkFound, StartIT, TypeOK
  <1>6. CASE \E f \in kept : Freed(f)
    BY <1>6 DEF Freed
  <1>7. CASE \E p \in {"down", "nego"} \cup Speeds : LinkChanges(p)
    BY <1>7 DEF LinkChanges
  <1>8. CASE UNCHANGED vars
    BY <1>8 DEF vars
  <1> QED BY <1>1, <1>2, <1>3, <1>4, <1>5, <1>6, <1>7, <1>8, <1>9
          DEF Next, Tcpip, LinkThread

(* The MAC is given the speed of the link that is found.                   *)
LEMMA SpeedStep ==
  ASSUME TypeOK, SpeedAgrees, [Next]_vars
  PROVE  SpeedAgrees'
  <1> USE DEF SpeedAgrees, link
  <1>1. CASE DmaReceives \/ Irq \/ FatalBusError
    BY <1>1 DEF DmaReceives, Irq, IrqNotifies, IrqClears, FatalBusError
  <1>2. CASE Input
    BY <1>2 DEF Input, InputWakes, InputGetsLock, InputEmpty, InputPosts, InputDry
  <1>3. CASE Tcpip
    BY <1>3 DEF Tcpip, TcpipFetches, TcpipDone, TcpipAnswers
  <1>4. CASE LinkLost
    BY <1>4 DEF LinkLost
  <1>5. CASE LinkFound
    BY <1>5 DEF LinkFound, TypeOK
  <1>6. CASE \E f \in kept : Freed(f)
    BY <1>6 DEF Freed
  <1>7. CASE \E p \in {"down", "nego"} \cup Speeds : LinkChanges(p)
    BY <1>7 DEF LinkChanges
  <1>8. CASE UNCHANGED vars
    BY <1>8 DEF vars
  <1> QED BY <1>1, <1>2, <1>3, <1>4, <1>5, <1>6, <1>7, <1>8 DEF Next, LinkThread

(* Bit 30 of a descriptor with a frame in it is set by a start alone.      *)
LEMMA MarkStep ==
  ASSUME TypeOK, MarkedAtStart, SkippedAtStart, [Next]_vars
  PROVE  MarkedAtStart' /\ SkippedAtStart'
  <1> USE DEF ring, hist
  <1>1. CASE DmaReceives
    BY <1>1 DEF DmaReceives, MarkedAtStart, SkippedAtStart, TypeOK
  <1>2. CASE TakeFrame /\ UNCHANGED <<buf, atStart>>
    <2>1. Incr(cur) \in Slots
      BY IncrInSlots DEF TypeOK
    <2>2. SkippedAtStart'
      BY <1>2, <2>1 DEF TakeFrame, Skips, MarkedAtStart, SkippedAtStart
    <2>3. MarkedAtStart'
      BY <1>2 DEF TakeFrame, Rebuilt, MarkedAtStart
    <2> QED BY <2>2, <2>3
  <1>3. CASE LinkLost
    BY <1>3 DEF LinkLost, MarkedAtStart, SkippedAtStart, TypeOK
  <1>4. CASE LinkFound
    BY <1>4 DEF LinkFound, StartIT, InRing, MarkedAtStart, SkippedAtStart, TypeOK
  <1>5. CASE UNCHANGED <<desc, buf, skipped, atStart>>
    BY <1>5 DEF MarkedAtStart, SkippedAtStart
  <1>6. \/ DmaReceives \/ LinkLost \/ LinkFound \/ UNCHANGED <<desc, buf, skipped, atStart>>
        \/ TakeFrame /\ UNCHANGED <<buf, atStart>>
    <2>1. CASE Irq \/ FatalBusError
      BY <2>1 DEF Irq, IrqNotifies, IrqClears, FatalBusError
    <2>2. CASE Input
      BY <2>2 DEF Input, InputWakes, InputGetsLock, InputEmpty, InputPosts, InputDry
    <2>3. CASE Tcpip
      BY <2>3 DEF Tcpip, TcpipFetches, TcpipDone, TcpipAnswers
    <2>4. CASE \E f \in kept : Freed(f)
      BY <2>4 DEF Freed
    <2>5. CASE \E p \in {"down", "nego"} \cup Speeds : LinkChanges(p)
      BY <2>5 DEF LinkChanges
    <2>6. CASE UNCHANGED vars
      BY <2>6 DEF vars
    <2> QED BY <2>1, <2>2, <2>3, <2>4, <2>5, <2>6 DEF Next, LinkThread
  <1> QED BY <1>1, <1>2, <1>3, <1>4, <1>5, <1>6

(* The loop ends with the ring empty, or on an empty pool with one more    *)
(* descriptor given back; and whatever comes later interrupts.             *)
LEMMA WaitStep ==
  ASSUME TypeOK, InStep, GivenIsNoted, LeftBehind, NoStall, [Next]_vars
  PROVE  LeftBehind' /\ NoStall'
  <1> USE DEF LeftBehind, NoStall, GivenIsNoted, ring, task, hist
  <1>1. CASE DmaReceives \/ IrqNotifies
    BY <1>1 DEF DmaReceives, IrqNotifies
  <1>2. CASE IrqClears
    BY <1>2 DEF IrqClears
  <1>3. CASE InputWakes \/ InputGetsLock \/ InputPosts
    BY <1>3 DEF InputWakes, InputGetsLock, InputPosts, TakeFrame
  <1>4. CASE InputEmpty
    <2>1. PICK p \in 0 .. N : RingOf(p)
      BY DEF InStep
    <2>2. After(cur) = 0 /\ cur \in Slots
      BY RingAssumption DEF After, TypeOK, Slots
    <2>3. p = 0
      BY <1>4, <2>1, <2>2 DEF InputEmpty, RingOf
    <2>4. \A i \in Slots : desc[i].own
      BY <2>1, <2>3, RingAssumption DEF RingOf, After, Slots, TypeOK
    <2>5. InRing = {}
      BY <2>4 DEF InRing
    <2>6. desc' = desc /\ InRing' = {}
      BY <1>4, <2>5 DEF InputEmpty, InRing
    <2> QED BY <2>2, <2>4, <2>6
  <1>5. CASE InputDry
    <2>1. desc'[cur].own /\ cur \in Slots
      BY <1>5 DEF InputDry, TakeFrame, Rebuilt, Taken, TypeOK
    <2> QED BY <1>5, <2>1 DEF InputDry
  <1>6. CASE /\ \A i \in Slots : desc'[i].own = desc[i].own
             /\ UNCHANGED <<buf, cur, head, sent, last, inp, note, ri, dry>>
    <2>1. InRing' = InRing
      BY <1>6, SameRing
    <2> QED BY <1>6, <2>1
  <1>7. \/ DmaReceives \/ Irq \/ Input
        \/ /\ \A i \in Slots : desc'[i].own = desc[i].own
           /\ UNCHANGED <<buf, cur, head, sent, last, inp, note, ri, dry>>
    <2>1. CASE FatalBusError
      BY <2>1 DEF FatalBusError
    <2>2. CASE LinkThread
      BY <2>2, LinkKeepsRing DEF LinkThread, LinkLost, LinkFound
    <2>3. CASE Tcpip
      BY <2>3 DEF Tcpip, TcpipFetches, TcpipDone, TcpipAnswers
    <2>4. CASE \E f \in kept : Freed(f)
      BY <2>4 DEF Freed
    <2>5. CASE \E p \in {"down", "nego"} \cup Speeds : LinkChanges(p)
      BY <2>5 DEF LinkChanges
    <2>6. CASE UNCHANGED vars
      BY <2>6 DEF vars
    <2> QED BY <2>1, <2>2, <2>3, <2>4, <2>5, <2>6 DEF Next
  <1> QED BY <1>1, <1>2, <1>3, <1>4, <1>5, <1>6, <1>7 DEF Irq, Input

-----------------------------------------------------------------------------
(* The invariant holds at the start.                                       *)
LEMMA InvInit == Init => IInv
  <1> SUFFICES ASSUME Init PROVE IInv
    OBVIOUS
  <1>1. TypeOK
    BY TypeInit
  <1>2. InStep
    <2>1. RingOf(0)
      BY RingAssumption DEF Init, RingOf, After, Slots
    <2> QED BY <2>1, RingAssumption DEF InStep
  <1>3. \A i \in Slots : desc[i].own
    BY DEF Init
  <1>4. LeftBehind /\ NoStall
    BY <1>3, RingAssumption DEF LeftBehind, NoStall, InRing, Slots
  <1>5. GivenIsNoted /\ StoppedHandle /\ UpIsRunning
    BY DEF Init, GivenIsNoted, StoppedHandle, UpIsRunning
  <1>6. MarkedAtStart /\ SkippedAtStart
    BY <1>3 DEF Init, MarkedAtStart, SkippedAtStart
  <1>7. SpeedAgrees
    BY DEF Init, SpeedAgrees
  <1> QED BY <1>1, <1>2, <1>4, <1>5, <1>6, <1>7 DEF IInv

(* Every step preserves it.                                                *)
LEMMA InvStep == IInv /\ [Next]_vars => IInv'
  BY TypeStep, NotedStep, HandleStep, SpeedStep, MarkStep, StepStep, WaitStep DEF IInv

LEMMA Invariance == Spec => []IInv
  BY InvInit, InvStep, PTL DEF Spec

(* The receive path does not hang: a waiting input task that nothing is    *)
(* about to wake leaves the DMA a descriptor, and so another interrupt.    *)
THEOREM NeverStalls == Spec => []NoStall
  BY Invariance, PTL DEF IInv

(* Frames are left in the ring by an empty pool alone.                     *)
THEOREM LeftByDryPool == Spec => []LeftBehind
  BY Invariance, PTL DEF IInv

(* Only frames that were in the ring at a start are taken for context      *)
(* descriptors.                                                            *)
THEOREM SkipsNeedRestart == Spec => []SkippedAtStart
  BY Invariance, PTL DEF IInv

(* An interface that is up runs, unless something was sent after the stop. *)
THEOREM UpRuns == Spec => []UpIsRunning
  BY Invariance, PTL DEF IInv

(* The MAC has the speed of a link that did not change behind its back.    *)
THEOREM SpeedsAgree == Spec => []SpeedAgrees
  BY Invariance, PTL DEF IInv

(* HAL_ETH_GetRxDataBuffer hands out the frames in the order of reception, *)
(* none twice.                                                             *)
THEOREM TakesInOrder == Spec => InOrder
  <1>1. IInv /\ [Next]_vars => [last' # last => last' > last]_vars
    BY StepStep DEF IInv
  <1> QED BY <1>1, Invariance, PTL DEF Spec, InOrder
=============================================================================
