----------------------------- MODULE EthernetIf -----------------------------
(***************************************************************************)
(* The Ethernet driver of Utilities/LwIP_drv/ethernetif.c with the receive *)
(* half of the HAL driver under it: the ring of receive descriptors shared *)
(* with the DMA, the interrupt, the input task, the mailbox of             *)
(* tcpip_thread, the pool of custom pbufs, the transmit path's error       *)
(* state, and the task that supervises the link.                           *)
(*                                                                         *)
(* A frame is its number in the order of reception, so that what is in a   *)
(* buffer, in the mailbox or in the hands of LwIP can be compared with it. *)
(* Tasks do not preempt one another (configUSE_PREEMPTION is 0): while the *)
(* input task runs only the DMA and interrupts go on, and another task has *)
(* the processor only when the input task waits or is blocked.             *)
(***************************************************************************)
EXTENDS Naturals, Sequences, FiniteSets

CONSTANTS
  N,        \* ETH_RX_DESC_CNT
  PoolSize, \* pbufs of RX_POOL
  MboxSize, \* TCPIP_MBOX_SIZE
  Frames,   \* bound: frames the DMA receives
  Flaps     \* bound: changes of the link

ASSUME RingAssumption == N \in Nat /\ N >= 2
ASSUME PoolAssumption == PoolSize \in Nat \ {0} /\ MboxSize \in Nat \ {0}
ASSUME BoundAssumption == Frames \in Nat /\ Flaps \in Nat

VARIABLES
  desc,   \* own: the DMA's; b30: IOC while it is the DMA's, CTXT when given back
  buf,    \* the frame in each receive buffer, 0 before the first
  cur,    \* RxDescList.CurRxDesc
  head,   \* the descriptor the DMA is at
  sent,   \* frames the DMA has received
  ri,     \* the receive interrupt is pending
  isr,    \* "idle", or "given": between the callback and the clearing of RI
  note,   \* the input task is notified
  inp,    \* the input task: "wait", "blocked" on the core lock, or "run"
  mbox,   \* frames in the mailbox of tcpip_thread
  tcpip,  \* the frame tcpip_thread works on, holding the core lock, or 0
  kept,   \* frames LwIP or an application holds on to
  hw,     \* "off", "on", or "halted" by a fatal bus error
  gState, \* of the HAL handle
  phy,    \* what the PHY reports: "down", "nego", or the negotiated speed
  flaps,  \* changes of the link so far
  up,     \* the interface is up (netif_is_up and netif_is_link_up)
  mac,    \* the speed the MAC is set to
  speed,  \* the link task's local of this name, "none" while linkchanged is 0
  last,   \* history: the last frame taken from the ring
  dry,    \* history: a frame met an empty pool
  skipped,   \* history: frames passed over as context descriptors
  atStart,   \* history: frames in the ring when the driver was started
  late,      \* history: something was sent since the driver was stopped
  unsettled  \* history: the link changed, or was negotiating, since it came up

ring == <<desc, buf, cur, head, sent>>
task == <<note, inp>>
stack == <<mbox, tcpip, kept>>
link == <<phy, flaps, up, mac, speed, unsettled>>
hist == <<last, dry, skipped>>
vars == <<ring, ri, isr, task, stack, hw, gState, link, hist, atStart, late>>

Slots == 0 .. N - 1
Speeds == {"10", "100"}

(* INCR_RX_DESC_INDEX, for the driver and for the DMA.                     *)
Incr(i) == IF i = N - 1 THEN 0 ELSE i + 1

(* The buffer a frame was received into.                                   *)
SlotOf(f) == (f - 1) % N

(* The pbufs of the pool in use.                                           *)
InUse == Len(mbox) + Cardinality(kept) + (IF tcpip = 0 THEN 0 ELSE 1)

(* Frames in descriptors the DMA has given back.                           *)
InRing == {buf[i] : i \in {j \in Slots : ~desc[j].own}}

(* No task runs while an interrupt is served; others than the input task   *)
(* do not run while that one does.                                         *)
OthersRun == isr = "idle" /\ inp # "run"

(* low_level_init: the driver is started if the PHY has a link, at 100 Mbit*)
(* if the speed is not settled yet.                                        *)
Init ==
  /\ phy \in {"down", "nego"} \cup Speeds
  /\ up = (phy # "down")
  /\ hw = (IF up THEN "on" ELSE "off")
  /\ mac = (IF phy \in Speeds THEN phy ELSE "100")
  /\ unsettled = (phy = "nego")
  /\ desc = [i \in Slots |-> [own |-> TRUE, b30 |-> up]]
  /\ buf = [i \in Slots |-> 0]
  /\ cur = 0 /\ head = 0 /\ sent = 0
  /\ ri = FALSE /\ isr = "idle" /\ note = FALSE /\ inp = "wait"
  /\ mbox = <<>> /\ tcpip = 0 /\ kept = {}
  /\ gState = "READY" /\ speed = "none" /\ flaps = 0
  /\ last = 0 /\ dry = FALSE /\ skipped = {} /\ atStart = {} /\ late = FALSE

-----------------------------------------------------------------------------
(* The DMA (external) fills the next descriptor, if it is its own.         *)
DmaReceives ==
  /\ hw = "on" /\ sent < Frames /\ desc[head].own
  /\ desc' = [desc EXCEPT ![head] = [own |-> FALSE, b30 |-> FALSE]]
  /\ buf' = [buf EXCEPT ![head] = sent + 1]
  /\ head' = Incr(head) /\ sent' = sent + 1
  /\ ri' = TRUE
  /\ UNCHANGED <<cur, isr, task, stack, hw, gState, link, hist, atStart, late>>

(* HAL_ETH_IRQHandler with HAL_ETH_RxCpltCallback: notify, then clear RI.  *)
IrqNotifies ==
  /\ isr = "idle" /\ hw = "on" /\ ri
  /\ note' = TRUE /\ isr' = "given"
  /\ UNCHANGED <<ring, ri, inp, stack, hw, gState, link, hist, atStart, late>>

IrqClears ==
  /\ isr = "given"
  /\ ri' = FALSE /\ isr' = "idle"
  /\ UNCHANGED <<ring, task, stack, hw, gState, link, hist, atStart, late>>

(* HAL_ETH_IRQHandler on a fatal bus error: no interrupt any more.         *)
FatalBusError ==
  /\ isr = "idle" /\ hw = "on"
  /\ hw' = "halted" /\ gState' = "ERROR"
  /\ UNCHANGED <<ring, ri, isr, task, stack, link, hist, atStart, late>>

-----------------------------------------------------------------------------
(* ethernetif_input.  ulTaskNotifyTake returns a notification (a timeout   *)
(* changes nothing), and the core lock is waited for.                      *)
InputWakes ==
  /\ isr = "idle" /\ inp = "wait" /\ note
  /\ note' = FALSE
  /\ inp' = IF tcpip = 0 THEN "run" ELSE "blocked"
  /\ UNCHANGED <<ring, ri, isr, stack, hw, gState, link, hist, atStart, late>>

InputGetsLock ==
  /\ isr = "idle" /\ inp = "blocked" /\ tcpip = 0
  /\ inp' = "run"
  /\ UNCHANGED <<ring, ri, isr, note, stack, hw, gState, link, hist, atStart, late>>

(* low_level_input finds nothing: the loop ends.                           *)
InputEmpty ==
  /\ isr = "idle" /\ inp = "run" /\ desc[cur].own
  /\ inp' = "wait"
  /\ UNCHANGED <<ring, ri, isr, note, stack, hw, gState, link, hist, atStart, late>>

(* HAL_ETH_IsRxDataAvailable looks at the descriptor behind the frame's:   *)
(* one given back with bit 30 set is taken for its context and skipped.    *)
Skips == LET next == Incr(cur) IN ~desc[next].own /\ desc[next].b30

(* HAL_ETH_BuildRxDescriptors gives what was taken back to the DMA at once.*)
Rebuilt(slots) ==
  [i \in Slots |-> IF i \in slots THEN [own |-> TRUE, b30 |-> hw # "off"] ELSE desc[i]]

(* The descriptors a frame takes out of the ring.                          *)
Taken == IF Skips THEN {cur, Incr(cur)} ELSE {cur}

(* Mutant: the index does not go past a skipped descriptor.                *)
TakeFrameShort ==
  /\ isr = "idle" /\ inp = "run" /\ ~desc[cur].own
  /\ desc' = Rebuilt(Taken)
  /\ cur' = Incr(cur)
  /\ skipped' = IF Skips THEN skipped \cup {buf[Incr(cur)]} ELSE skipped
  /\ last' = buf[cur]

(* A frame is taken, with a descriptor skipped behind it or not.           *)
TakeFrame ==
  /\ isr = "idle" /\ inp = "run" /\ ~desc[cur].own
  /\ desc' = Rebuilt(Taken)
  /\ cur' = IF Skips THEN Incr(Incr(cur)) ELSE Incr(cur)
  /\ skipped' = IF Skips THEN skipped \cup {buf[Incr(cur)]} ELSE skipped
  /\ last' = buf[cur]

(* Mutant: one frame is read for each notification.                        *)
InputPostsOnce ==
  /\ TakeFrame
  /\ InUse < PoolSize
  /\ mbox' = IF Len(mbox) < MboxSize THEN Append(mbox, buf[cur]) ELSE mbox
  /\ inp' = "wait"
  /\ UNCHANGED <<buf, head, sent, ri, isr, note, tcpip, kept, hw, gState, link, dry, atStart, late>>

(* A pbuf is found and posted; a full mailbox frees it again; the loop goes*)
(* on in both cases.                                                       *)
InputPosts ==
  /\ TakeFrame
  /\ InUse < PoolSize
  /\ mbox' = IF Len(mbox) < MboxSize THEN Append(mbox, buf[cur]) ELSE mbox
  /\ UNCHANGED <<buf, head, sent, ri, isr, task, tcpip, kept, hw, gState, link, dry, atStart, late>>

(* Mutant: the pbuf is asked for before the frame is taken.                *)
InputDryFirst ==
  /\ isr = "idle" /\ inp = "run" /\ ~desc[cur].own
  /\ InUse >= PoolSize
  /\ inp' = "wait" /\ dry' = TRUE
  /\ UNCHANGED <<ring, ri, isr, note, stack, hw, gState, link, last, skipped, atStart, late>>

(* The pool is empty: the frame is lost and the loop ends on its NULL.     *)
InputDry ==
  /\ TakeFrame
  /\ InUse >= PoolSize
  /\ inp' = "wait" /\ dry' = TRUE
  /\ UNCHANGED <<buf, head, sent, ri, isr, note, stack, hw, gState, link, atStart, late>>

-----------------------------------------------------------------------------
(* tcpip_thread fetches a frame and takes the core lock, which it holds to *)
(* the end of the message even when the handler waits (for the flash).     *)
TcpipFetches ==
  /\ OthersRun /\ tcpip = 0 /\ mbox # <<>>
  /\ tcpip' = Head(mbox) /\ mbox' = Tail(mbox)
  /\ UNCHANGED <<ring, ri, isr, task, kept, hw, gState, link, hist, atStart, late>>

(* The frame is freed, or kept for an application.                         *)
TcpipDone ==
  /\ OthersRun /\ tcpip # 0
  /\ tcpip' = 0
  /\ kept' \in {kept, kept \cup {tcpip}}
  /\ UNCHANGED <<ring, ri, isr, task, mbox, hw, gState, link, hist, atStart, late>>

(* The frame is answered at once (as ARP is, with the interface down too): *)
(* low_level_output and HAL_ETH_Transmit, which waits for the DMA and after*)
(* ETH_DMA_TRANSMIT_TIMEOUT leaves the handle in its error state.          *)
TcpipAnswers ==
  /\ OthersRun /\ tcpip # 0
  /\ tcpip' = 0
  /\ IF gState = "READY"
     THEN gState' \in {"ERROR"} \cup (IF hw = "on" THEN {"READY"} ELSE {})
     ELSE gState' = gState
  /\ late' = (late \/ hw = "off")
  /\ UNCHANGED <<ring, ri, isr, task, mbox, kept, hw, link, hist, atStart>>

(* pbuf_free of a kept frame, and pbuf_free_custom.                        *)
Freed(f) ==
  /\ OthersRun /\ f \in kept
  /\ kept' = kept \ {f}
  /\ UNCHANGED <<ring, ri, isr, task, mbox, tcpip, hw, gState, link, hist, atStart, late>>

-----------------------------------------------------------------------------
(* The cable and the partner (external).                                   *)
LinkChanges(p) ==
  /\ flaps < Flaps /\ p # phy
  /\ phy' = p /\ flaps' = flaps + 1
  /\ unsettled' = TRUE
  /\ UNCHANGED <<ring, ri, isr, task, stack, hw, gState, up, mac, speed, hist, atStart, late>>

(* Mutant: the state of the handle outlives the stop.                      *)
LinkLostOnly ==
  /\ OthersRun /\ up /\ phy = "down"
  /\ hw' = "off" /\ up' = FALSE
  /\ desc' = [i \in Slots |-> [desc[i] EXCEPT !.b30 = FALSE]]
  /\ late' = FALSE
  /\ UNCHANGED <<buf, cur, head, sent, ri, isr, task, stack, gState, phy, flaps, mac, speed,
                 unsettled, hist, atStart>>

(* ethernet_link_thread finds the link lost: HAL_ETH_Stop_IT, whatever the *)
(* state of the handle, and the interface down.                            *)
LinkLost ==
  /\ OthersRun /\ up /\ phy = "down"
  /\ hw' = "off" /\ gState' = "READY" /\ up' = FALSE
  /\ desc' = [i \in Slots |-> [desc[i] EXCEPT !.b30 = FALSE]]
  /\ late' = FALSE
  /\ UNCHANGED <<buf, cur, head, sent, ri, isr, task, stack, phy, flaps, mac, speed,
                 unsettled, hist, atStart>>

(* HAL_ETH_Start_IT: nothing at all unless the handle is ready.            *)
StartIT ==
  IF gState = "READY"
  THEN /\ hw' = "on"
       /\ desc' = [i \in Slots |-> [desc[i] EXCEPT !.b30 = TRUE]]
       /\ atStart' = atStart \cup InRing
  ELSE UNCHANGED <<hw, desc, atStart>>

(* Mutant: the speed is found out and never given to the MAC.              *)
LinkFoundUnset ==
  /\ OthersRun /\ ~up /\ phy # "down"
  /\ speed' = IF phy \in Speeds THEN phy ELSE speed
  /\ speed' # "none"
  /\ StartIT
  /\ up' = TRUE
  /\ unsettled' = (phy = "nego")
  /\ UNCHANGED <<buf, cur, head, sent, ri, isr, task, stack, gState, phy, flaps, mac, hist, late>>

(* ethernet_link_thread finds a link: what it knows of the speed, perhaps  *)
(* from the link before, goes to the MAC; whatever the start returns, the  *)
(* interface comes up.                                                     *)
LinkFound ==
  /\ OthersRun /\ ~up /\ phy # "down"
  /\ speed' = IF phy \in Speeds THEN phy ELSE speed
  /\ speed' # "none"
  /\ mac' = speed'
  /\ StartIT
  /\ up' = TRUE
  /\ unsettled' = (phy = "nego")
  /\ UNCHANGED <<buf, cur, head, sent, ri, isr, task, stack, gState, phy, flaps, hist, late>>

-----------------------------------------------------------------------------
Irq == IrqNotifies \/ IrqClears
Input == InputWakes \/ InputGetsLock \/ InputEmpty \/ InputPosts \/ InputDry
Tcpip == TcpipFetches \/ TcpipDone \/ TcpipAnswers
LinkThread == LinkLost \/ LinkFound

Next ==
  \/ DmaReceives \/ Irq \/ FatalBusError
  \/ Input \/ Tcpip \/ LinkThread
  \/ \E f \in kept : Freed(f)
  \/ \E p \in {"down", "nego"} \cup Speeds : LinkChanges(p)

Spec == Init /\ [][Next]_vars

(* Pending interrupts are served, the tasks are scheduled in turn, and the *)
(* handlers of tcpip_thread return; frames, errors and links come as they  *)
(* like, and an application may keep a frame for ever.                     *)
FairSpec ==
  Spec /\ WF_vars(Irq) /\ WF_vars(Input) /\ WF_vars(Tcpip) /\ WF_vars(LinkThread)

-----------------------------------------------------------------------------
(* Every variable has its type; the mailbox stays within its size.         *)
TypeOK ==
  /\ desc \in [Slots -> [own : BOOLEAN, b30 : BOOLEAN]]
  /\ buf \in [Slots -> Nat]
  /\ cur \in Slots /\ head \in Slots /\ sent \in Nat
  /\ ri \in BOOLEAN /\ isr \in {"idle", "given"}
  /\ note \in BOOLEAN /\ inp \in {"wait", "blocked", "run"}
  /\ mbox \in Seq(Nat) /\ Len(mbox) <= MboxSize
  /\ tcpip \in Nat /\ kept \subseteq Nat
  /\ hw \in {"off", "on", "halted"} /\ gState \in {"READY", "ERROR"}
  /\ phy \in {"down", "nego"} \cup Speeds /\ flaps \in Nat
  /\ up \in BOOLEAN /\ mac \in Speeds /\ speed \in Speeds \cup {"none"}
  /\ last \in Nat /\ dry \in BOOLEAN /\ late \in BOOLEAN /\ unsettled \in BOOLEAN
  /\ skipped \subseteq Nat /\ atStart \subseteq Nat

(* The receive path never hangs: when the input task waits and no interrupt*)
(* or notification is on its way, the DMA has a descriptor to receive into *)
(* (and to interrupt for), although a dry pool ends the loop with frames   *)
(* left behind and RI is cleared after the notification was given.         *)
NoStall ==
  (inp = "wait" /\ ~note /\ ~ri) => \E i \in Slots : desc[i].own

(* A frame left in the ring while the task waits and nothing will wake it  *)
(* was left there by an empty pool.                                        *)
LeftBehind ==
  (inp = "wait" /\ ~note /\ ~ri /\ InRing # {}) => dry

(* The driver's index keeps step with the DMA's through restarts and       *)
(* skipped descriptors: frames are taken in the order they came, none of   *)
(* them twice.                                                             *)
InOrder == [][last' # last => last' > last]_vars

(* A frame is taken for a context descriptor only if it was in the ring    *)
(* when the driver was started: HAL_ETH_Start_IT sets IOC in every         *)
(* descriptor, and in one that holds a frame the same bit means context.   *)
SkippedAtStart == skipped \subseteq atStart

(* An interface that is up is running, unless something was sent after the *)
(* driver was stopped: that leaves the handle in error, the next start does*)
(* nothing, and the link thread brings the interface up all the same.      *)
UpIsRunning == up /\ hw = "off" => late

(* The MAC works at the speed of the link, unless the link changed between *)
(* two polls or was still negotiating when it was found.                   *)
SpeedAgrees == up /\ ~unsettled => mac = phy

(* Frames leave the ring while the driver runs, or the pool was empty once.*)
Drained == \A f \in 1 .. Frames : (f \in InRing) ~> (f \notin InRing \/ dry \/ hw # "on")

(* stm32h7xx_hal_eth.c:1402: HAL_ETH_BuildRxDescriptors "should be called  *)
(* after processing the received Packet": the buffer of a frame still being*)
(* processed holds that frame.                                             *)
HeldIntact == tcpip # 0 => buf[SlotOf(tcpip)] = tcpip

=============================================================================
