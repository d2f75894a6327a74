----------------------------- MODULE TftpServer -----------------------------
(***************************************************************************)
(* The TFTP server (Utilities/tftpserver) with its clients and the network *)
(* between them.  Every server action is one receive callback, which LwIP  *)
(* runs to its end in tcpip_thread.  All transfers share the global file   *)
(* objects file_SD and file_CR and mount, remount and unmount the one      *)
(* volume.  A file of a client is its sequence of 512-byte blocks; the     *)
(* last one, number Blocks + 1, is shorter.                                *)
(*                                                                         *)
(* The clients follow RFC 1350 and are external, as are the network and    *)
(* the parts of LwIP and FatFs the callbacks use.                          *)
(***************************************************************************)
EXTENDS Integers, Sequences, FiniteSets, SequencesExt

CONSTANTS
  Readers, Writers, \* clients that read, and that write, the file of their name
  Strangers,        \* clients that send a request with an unknown opcode
  Missing,          \* the readers whose file does not exist
  Blocks,           \* the number of full blocks of every file
  BlockMod,         \* 2^16: block numbers on the wire are 16 bits wide
  MaxPort,          \* bound: ephemeral ports 1 .. MaxPort, one per request
  PoolSize,         \* pcbs left in MEMP_NUM_UDP_PCB for transfers
  MaxActive,        \* bound: clients active at the same time
  Overlap,          \* may a client start before the last one's datagrams are gone?
  Mortal,           \* clients that may be switched off in mid-transfer
  Repeats,          \* the kinds of datagrams that may arrive more than once
  AllocFails,       \* may mem_malloc, or creating a file, fail?
  OpendirFails,     \* may f_opendir find no usable volume?
  DiskFills         \* may f_write store nothing?

Clients == Readers \cup Writers \cup Strangers
Ports == 1 .. MaxPort

ASSUME TftpAssumption ==
  /\ Readers \cap Writers = {} /\ Strangers \cap (Readers \cup Writers) = {}
  /\ Missing \subseteq Readers /\ Mortal \subseteq Clients
  /\ "none" \notin Clients
  /\ Blocks \in Nat /\ BlockMod \in Nat \ {0} /\ MaxPort \in 0 .. 68
  /\ PoolSize \in Nat /\ MaxActive \in Nat
  /\ Repeats \subseteq {"REQ", "rdACK", "rdDATA", "wrACK", "wrDATA"}
  /\ {Overlap, AllocFails, OpendirFails, DiskFills} \subseteq BOOLEAN

VARIABLES
  xfer,     \* per port: state of the pcb and its tftp_connection_args
  file_SD,  \* the FIL all read transfers use
  file_CR,  \* the FIL all write transfers use
  store,    \* per writer: the blocks its file holds on the volume
  net,      \* the datagrams under way
  cl,       \* per client: its side of the transfer
  clean,    \* history, per port: no other transfer touched file or volume
  wild      \* a callback used its args or pcb after freeing them

vars == <<xfer, file_SD, file_CR, store, net, cl, clean, wild>>

Block(c, i) == [of |-> c, idx |-> i]
NoBlock == [of |-> "none", idx |-> 0]    \* a DATA packet without data bytes
FileOf(c) == [i \in 1 .. Blocks + 1 |-> Block(c, i)]
Short(b) == b = NoBlock \/ b.idx = Blocks + 1

Closed == [valid |-> FALSE, of |-> "none", pos |-> 1, data |-> <<>>]
Opened(c) == [Closed EXCEPT !.valid = TRUE, !.of = c]

FreePort == [st |-> "unused", peer |-> "none", block |-> 0, short |-> FALSE]

Init ==
  /\ xfer = [p \in Ports |-> FreePort]
  /\ file_SD = Closed /\ file_CR = Closed
  /\ store = [w \in Writers |-> <<>>]
  /\ net = {}
  /\ cl = [c \in Clients |-> [st |-> "idle", port |-> 0, next |-> 0, got |-> <<>>]]
  /\ clean = [p \in Ports |-> TRUE]
  /\ wild = FALSE

Held(p) == xfer[p].st \in {"rd", "wr", "stuck"}
Active(c) == cl[c].st = "wait"

-----------------------------------------------------------------------------
(* Datagrams.  "port" is the server's side; a request goes to port 69.     *)

Msg(type, c, p, blk, b) ==
  [type |-> type, peer |-> c, port |-> p, blk |-> blk, data |-> b]

Data(c, p, blk, b) == Msg("DATA", c, p, blk % BlockMod, b)
Ack(c, p, blk)     == Msg("ACK", c, p, blk % BlockMod, NoBlock)
Error(c, p)        == Msg("ERROR", c, p, 0, NoBlock)

KindOf(m) ==
  CASE m.type \in {"RRQ", "WRQ", "BAD"} -> "REQ"
    [] m.type = "DATA" -> IF m.peer \in Readers THEN "rdDATA" ELSE "wrDATA"
    [] m.type = "ACK"  -> IF m.peer \in Readers THEN "rdACK" ELSE "wrACK"
    [] OTHER -> "ERROR"

(* Receiving m and sending the datagrams out.  A datagram that the network *)
(* duplicates or the peer retransmits stays under way; one that is lost is *)
(* never received.                                                         *)
Exchange(m, out) ==
  \/ net' = (net \ {m}) \cup out
  \/ KindOf(m) \in Repeats /\ net' = net \cup out

ToServer(m) ==
  \/ m.type \in {"RRQ", "WRQ", "BAD"}
  \/ m.type = "DATA" /\ m.peer \in Writers
  \/ m.type = "ACK" /\ m.peer \in Readers

-----------------------------------------------------------------------------
(* The server.                                                             *)

(* A callback that works on the file objects or the volume disturbs every  *)
(* other transfer: f_mount, with the volume or with NULL, makes all open   *)
(* objects stale, and file_SD and file_CR are one each.                    *)
Touched(p) == clean' = [q \in Ports |-> clean[q] /\ (q = p \/ ~Held(q))]

(* f_read(&file_SD): an object of a volume that was remounted since, or of *)
(* one that is unmounted, gives no bytes and leaves data_len 0.            *)
HasBytes(f) == f.valid /\ f.pos <= Blocks + 1
ReadBlock(f) == IF HasBytes(f) THEN Block(f.of, f.pos) ELSE NoBlock

(* Mutant: reading on at the end of the file moves the position.           *)
AfterReadPastEnd(f) == IF f.valid THEN [f EXCEPT !.pos = @ + 1] ELSE f

AfterRead(f) == IF HasBytes(f) THEN [f EXCEPT !.pos = @ + 1] ELSE f

(* Mutant: the next block is sent from the start of the file again.        *)
NextBlockRewound(p, blk, f, m, x) ==
  LET b == ReadBlock([f EXCEPT !.pos = 1]) IN
    /\ file_SD' = AfterRead(f)
    /\ xfer' = [x EXCEPT ![p].block = blk, ![p].short = Short(b)]
    /\ Exchange(m, {Data(m.peer, p, blk, b)})
    /\ Touched(p)

(* tftp_send_next_block: read on from wherever file_SD is, send what came. *)
SendNextBlock(p, blk, f, m, x) ==
  LET b == ReadBlock(f) IN
    /\ file_SD' = AfterRead(f)
    /\ xfer' = [x EXCEPT ![p].block = blk, ![p].short = Short(b)]
    /\ Exchange(m, {Data(m.peer, p, blk, b)})
    /\ Touched(p)

AllStale ==
  /\ file_SD' = [file_SD EXCEPT !.valid = FALSE]
  /\ file_CR' = [file_CR EXCEPT !.valid = FALSE]

(* tftp_cleanup_rd: file_SD is closed, the volume unmounted for everybody. *)
CleanupRd(p) ==
  /\ AllStale
  /\ Touched(p)
  /\ UNCHANGED store

(* Mutant: the file is closed after the volume is gone.                    *)
CleanupWrUnmountFirst(p, last) == CleanupRd(p)

(* tftp_cleanup_wr: f_close writes the size of file_CR to its directory    *)
(* entry, if the object is still good, after the last block was appended;  *)
(* what a stale object has written is not part of any file.                *)
CleanupWr(p, last) ==
  /\ store' = IF file_CR.valid
              THEN [store EXCEPT ![file_CR.of] = file_CR.data \o last]
              ELSE store
  /\ AllStale
  /\ Touched(p)

(* Mutant: the pcb stays with its callback.                                *)
NotGone(p) == xfer

(* Both end with udp_remove(upcb).                                         *)
Gone(p) == [xfer EXCEPT ![p].st = "gone"]

(* process_tftp_request takes a pcb from the pool and binds it to the next *)
(* free port; without a pcb the request is ignored.                        *)
NewPcb(p) ==
  /\ p = Cardinality({q \in Ports : xfer[q].st # "unused"}) + 1
  /\ Cardinality({q \in Ports : Held(q)}) < PoolSize

ServeNoPcb(m) ==
  /\ ~wild /\ m.type \in {"RRQ", "WRQ", "BAD"}
  /\ Cardinality({q \in Ports : Held(q)}) >= PoolSize
  /\ Exchange(m, {})
  /\ UNCHANGED <<xfer, file_SD, file_CR, store, cl, clean, wild>>

ServeUnknown(m, p) ==
  /\ ~wild /\ m.type = "BAD" /\ NewPcb(p)
  /\ xfer' = [xfer EXCEPT ![p] = [FreePort EXCEPT !.st = "gone", !.peer = m.peer]]
  /\ Exchange(m, {Error(m.peer, p)})
  /\ UNCHANGED <<file_SD, file_CR, store, cl, clean, wild>>

(* f_opendir fails after f_mount: the callback returns and keeps the pcb.  *)
ServeNoVolume(m, p) ==
  /\ ~wild /\ m.type \in {"RRQ", "WRQ"} /\ NewPcb(p)
  /\ OpendirFails
  /\ xfer' = [xfer EXCEPT ![p] = [FreePort EXCEPT !.st = "stuck", !.peer = m.peer]]
  /\ AllStale /\ Touched(p)
  /\ Exchange(m, {})
  /\ UNCHANGED <<store, cl, wild>>

(* Mutant: the client is not told.                                         *)
ServeRefusedSilently(m, p) ==
  /\ ~wild /\ m.type \in {"RRQ", "WRQ"} /\ NewPcb(p)
  /\ m.peer \in Missing \/ AllocFails
  /\ AllStale /\ Touched(p)
  /\ xfer' = [xfer EXCEPT ![p] = [FreePort EXCEPT !.st = "gone", !.peer = m.peer]]
  /\ Exchange(m, {})
  /\ UNCHANGED <<store, cl, wild>>

(* f_open or mem_malloc fails: an error to the client and the cleanup.  If *)
(* FA_CREATE_ALWAYS succeeded before that, the file of a writer is empty.  *)
ServeRefused(m, p) ==
  /\ ~wild /\ m.type \in {"RRQ", "WRQ"} /\ NewPcb(p)
  /\ m.peer \in Missing \/ AllocFails
  /\ AllStale /\ Touched(p)
  /\ xfer' = [xfer EXCEPT ![p] = [FreePort EXCEPT !.st = "gone", !.peer = m.peer]]
  /\ \/ UNCHANGED store
     \/ m.type = "WRQ" /\ store' = [store EXCEPT ![m.peer] = <<>>]
  /\ Exchange(m, {Error(m.peer, p)})
  /\ UNCHANGED <<cl, wild>>

ServeRead(m, p) ==
  /\ ~wild /\ m.type = "RRQ" /\ NewPcb(p)
  /\ m.peer \notin Missing
  /\ file_CR' = [file_CR EXCEPT !.valid = FALSE]
  /\ SendNextBlock(p, 1, Opened(m.peer), m,
                   [xfer EXCEPT ![p] = [FreePort EXCEPT !.st = "rd", !.peer = m.peer]])
  /\ UNCHANGED <<store, cl, wild>>

ServeWrite(m, p) ==
  /\ ~wild /\ m.type = "WRQ" /\ NewPcb(p)
  /\ xfer' = [xfer EXCEPT ![p] = [FreePort EXCEPT !.st = "wr", !.peer = m.peer]]
  /\ file_SD' = [file_SD EXCEPT !.valid = FALSE]
  /\ file_CR' = Opened(m.peer)
  /\ store' = [store EXCEPT ![m.peer] = <<>>]
  /\ Touched(p)
  /\ Exchange(m, {Ack(m.peer, p, 0)})
  /\ UNCHANGED <<cl, wild>>

(* rrq_recv_callback: the last block sent was short, so this packet ends   *)
(* the transfer, whatever it acknowledges.                                 *)
ReadEnds(m) ==
  LET p == m.port IN
    /\ ~wild /\ ToServer(m) /\ p \in Ports
    /\ xfer[p].st = "rd" /\ xfer[p].short
    /\ CleanupRd(p)
    /\ xfer' = Gone(p)
    /\ Exchange(m, {})
    /\ UNCHANGED <<cl, wild>>

(* tftp_is_correct_ack compares the int counter with the 16-bit number.    *)
NumberAfter(m, blk) == IF m.type = "ACK" /\ m.blk = blk THEN blk + 1 ELSE blk

(* rrq_recv_callback: otherwise the next part of the file is read and sent,*)
(* under the next number or under the same one.                            *)
ReadContinues(m) ==
  LET p == m.port IN
    /\ ~wild /\ ToServer(m) /\ p \in Ports
    /\ xfer[p].st = "rd" /\ ~xfer[p].short
    /\ SendNextBlock(p, NumberAfter(m, xfer[p].block), file_SD, m, xfer)
    /\ UNCHANGED <<file_CR, store, cl, wild>>

(* Mutant: a block that came before counts as the next one.                *)
ExpectedOrEarlier(m) == m.blk <= xfer[m.port].block + 1

Expected(m) == m.blk = xfer[m.port].block + 1

(* wrq_recv_callback stores the block expected next and acknowledges it.   *)
WriteStores(m) ==
  LET p == m.port IN
    /\ ~wild /\ ToServer(m) /\ p \in Ports
    /\ xfer[p].st = "wr" /\ Expected(m)
    /\ file_CR.valid /\ ~Short(m.data)
    /\ file_CR' = [file_CR EXCEPT !.data = Append(@, m.data)]
    /\ xfer' = [xfer EXCEPT ![p].block = @ + 1]
    /\ Exchange(m, {Ack(m.peer, p, xfer[p].block + 1)})
    /\ Touched(p)
    /\ UNCHANGED <<file_SD, store, cl, wild>>

(* The expected packet is shorter than a full block: it is stored, if it   *)
(* has data at all, acknowledged, and the file closed.                     *)
WriteEnds(m) ==
  LET p == m.port IN
    /\ ~wild /\ ToServer(m) /\ p \in Ports
    /\ xfer[p].st = "wr" /\ Expected(m)
    /\ Short(m.data) /\ (file_CR.valid \/ m.data = NoBlock)
    /\ CleanupWr(p, IF m.data = NoBlock THEN <<>> ELSE <<m.data>>)
    /\ xfer' = [Gone(p) EXCEPT ![p].block = @ + 1]
    /\ Exchange(m, {Ack(m.peer, p, xfer[p].block + 1)})
    /\ UNCHANGED <<cl, wild>>

(* f_write stored nothing: the error is sent and everything freed, and the *)
(* callback goes on with what it freed.  It counts the block, and its ACK  *)
(* leaves or not, as the reused memory of the pcb has it.  After this the  *)
(* module says nothing more of the server.                                 *)
WriteFails(m) ==
  LET p == m.port IN
    /\ ~wild /\ ToServer(m) /\ p \in Ports
    /\ xfer[p].st = "wr" /\ Expected(m) /\ m.data # NoBlock
    /\ DiskFills \/ ~file_CR.valid
    /\ CleanupWr(p, <<>>)
    /\ xfer' = [Gone(p) EXCEPT ![p].block = @ + 1]
    /\ wild' = TRUE
    /\ \/ Exchange(m, {Error(m.peer, p)})
       \/ Exchange(m, {Error(m.peer, p), Ack(m.peer, p, xfer[p].block + 1)})
    /\ UNCHANGED cl

(* Mutant: a packet with another number closes the file but not the pcb.   *)
WriteRepeatsAckCloses(m) ==
  LET p == m.port IN
    /\ ~wild /\ ToServer(m) /\ p \in Ports
    /\ xfer[p].st = "wr" /\ ~Expected(m)
    /\ CleanupWr(p, <<>>)
    /\ Exchange(m, {Ack(m.peer, p, xfer[p].block)})
    /\ UNCHANGED <<xfer, cl, wild>>

(* Any other number: the last ACK again, and a short packet ends the       *)
(* transfer all the same.                                                  *)
WriteRepeatsAck(m) ==
  LET p == m.port IN
    /\ ~wild /\ ToServer(m) /\ p \in Ports
    /\ xfer[p].st = "wr" /\ ~Expected(m)
    /\ IF Short(m.data)
       THEN CleanupWr(p, <<>>) /\ xfer' = Gone(p)
       ELSE UNCHANGED <<xfer, file_SD, file_CR, store, clean>>
    /\ Exchange(m, {Ack(m.peer, p, xfer[p].block)})
    /\ UNCHANGED <<cl, wild>>

(* A datagram for a pcb that is gone, or has no callback, is dropped.      *)
NoReceiver(m) ==
  /\ ~wild /\ ToServer(m) /\ m.port \in Ports
  /\ xfer[m.port].st \in {"gone", "stuck"}
  /\ Exchange(m, {})
  /\ UNCHANGED <<xfer, file_SD, file_CR, store, cl, clean, wild>>

Serve(m) ==
  \/ ServeNoPcb(m)
  \/ \E p \in Ports :
        \/ ServeUnknown(m, p) \/ ServeNoVolume(m, p) \/ ServeRefused(m, p)
        \/ ServeRead(m, p) \/ ServeWrite(m, p)
  \/ ReadEnds(m) \/ ReadContinues(m)
  \/ WriteStores(m) \/ WriteEnds(m) \/ WriteFails(m) \/ WriteRepeatsAck(m)
  \/ NoReceiver(m)

-----------------------------------------------------------------------------
(* The clients (external).                                                 *)

RequestOf(c) == IF c \in Readers THEN "RRQ" ELSE IF c \in Writers THEN "WRQ" ELSE "BAD"

Start(c) ==
  /\ cl[c].st = "idle"
  /\ Cardinality({d \in Clients : Active(d)}) < MaxActive
  /\ Overlap \/ net = {}
  /\ cl' = [cl EXCEPT ![c].st = "wait", ![c].next = IF c \in Readers THEN 1 ELSE 0]
  /\ net' = net \cup {Msg(RequestOf(c), c, 69, 0, NoBlock)}
  /\ UNCHANGED <<xfer, file_SD, file_CR, store, clean, wild>>

(* A client may be switched off at any moment.                             *)
Die(c) ==
  /\ c \in Mortal /\ Active(c)
  /\ cl' = [cl EXCEPT ![c].st = "dead"]
  /\ UNCHANGED <<xfer, file_SD, file_CR, store, net, clean, wild>>

(* Only datagrams from the port the first answer came from count.          *)
Mine(c, m) == m.peer = c /\ Active(c) /\ cl[c].port \in {0, m.port}

ClientData(c, m) ==
  /\ c \in Readers /\ m.type = "DATA" /\ Mine(c, m)
  /\ \/ /\ m.blk = cl[c].next % BlockMod
        /\ cl' = [cl EXCEPT ![c].port = m.port, ![c].next = @ + 1,
                            ![c].got = IF m.data = NoBlock THEN @ ELSE Append(@, m.data),
                            ![c].st = IF Short(m.data) THEN "done" ELSE @]
        /\ Exchange(m, {Ack(c, m.port, cl[c].next)})
     \/ /\ m.blk = (cl[c].next - 1) % BlockMod /\ cl[c].next > 1
        /\ Exchange(m, {Ack(c, m.port, cl[c].next - 1)})
        /\ UNCHANGED cl
  /\ UNCHANGED <<xfer, file_SD, file_CR, store, clean, wild>>

ClientAck(c, m) ==
  /\ c \in Writers /\ m.type = "ACK" /\ Mine(c, m)
  /\ m.blk = cl[c].next % BlockMod
  /\ IF cl[c].next = Blocks + 1
     THEN /\ cl' = [cl EXCEPT ![c].st = "done"]
          /\ Exchange(m, {})
     ELSE /\ cl' = [cl EXCEPT ![c].port = m.port, ![c].next = @ + 1]
          /\ Exchange(m, {Data(c, m.port, cl[c].next + 1, Block(c, cl[c].next + 1))})
  /\ UNCHANGED <<xfer, file_SD, file_CR, store, clean, wild>>

ClientError(c, m) ==
  /\ m.type = "ERROR" /\ Mine(c, m)
  /\ cl' = [cl EXCEPT ![c].st = "failed"]
  /\ Exchange(m, {})
  /\ UNCHANGED <<xfer, file_SD, file_CR, store, clean, wild>>

(* Whatever else arrives for a client is discarded.                        *)
ClientIgnores(c, m) ==
  /\ m.peer = c /\ ~ToServer(m)
  /\ \/ ~Mine(c, m)
     \/ m.type = "ACK" /\ m.blk # cl[c].next % BlockMod
  /\ Exchange(m, {})
  /\ UNCHANGED <<xfer, file_SD, file_CR, store, cl, clean, wild>>

Client(c) ==
  \E m \in net : \/ ClientData(c, m) \/ ClientAck(c, m)
                 \/ ClientError(c, m) \/ ClientIgnores(c, m)

Server == \E m \in net : Serve(m)

Next ==
  \/ Server
  \/ \E c \in Clients : Start(c) \/ Die(c) \/ Client(c)

Spec == Init /\ [][Next]_vars

(* tcpip_thread handles what is in its mailbox and live clients answer;    *)
(* nothing makes a client start, and a dead one stays silent.              *)
FairSpec ==
  /\ Spec
  /\ WF_vars(Server)
  /\ \A c \in Clients : WF_vars(Client(c))

-----------------------------------------------------------------------------
(* Types of the server's and the clients' records.                         *)
BlockType == [of : Clients \cup {"none"}, idx : 0 .. Blocks + 1]
FileType ==
  [valid : BOOLEAN, of : Clients \cup {"none"}, pos : 1 .. Blocks + 2,
   data : Seq(BlockType)]

(* Every variable has its type; no port is used by two requests.           *)
TypeOK ==
  /\ xfer \in [Ports -> [st : {"unused", "rd", "wr", "stuck", "gone"},
                         peer : Clients \cup {"none"}, block : Nat, short : BOOLEAN]]
  /\ file_SD \in FileType /\ file_CR \in FileType
  /\ store \in [Writers -> Seq(BlockType)]
  /\ \A m \in net : /\ m.peer \in Clients /\ m.port \in Ports \cup {69}
                    /\ m.blk \in 0 .. BlockMod - 1 /\ m.data \in BlockType
  /\ cl \in [Clients -> [st : {"idle", "wait", "done", "failed", "dead"},
                         port : Ports \cup {0}, next : Nat,
                         got : Seq(BlockType)]]
  /\ clean \in [Ports -> BOOLEAN] /\ wild \in BOOLEAN

Serving(c) == cl[c].port # 0 /\ cl[c].st \in {"wait", "done"}

(* A reader whose transfer nobody disturbed has received the start of its  *)
(* file, in order, and all of it when the short block told it so: file_SD  *)
(* stays with the transfer as long as nothing else remounts the volume.    *)
ReaderGetsFile ==
  \A c \in Readers : (Serving(c) /\ clean[cl[c].port]) =>
    /\ IsPrefix(cl[c].got, FileOf(c))
    /\ cl[c].st = "done" => cl[c].got = FileOf(c)

(* What a writer has been told is stored is stored: the blocks acknowledged*)
(* to it are the file so far, none twice, however often and in what order  *)
(* DATA and ACK packets arrive; when it is done the whole file is closed   *)
(* and its size recorded, and so it is when the server takes it for done.  *)
AckedIsStored ==
  \A c \in Writers : (Serving(c) /\ clean[cl[c].port]) =>
    LET p == cl[c].port IN
      IF xfer[p].st = "wr"
      THEN /\ file_CR.valid /\ file_CR.of = c
           /\ file_CR.data = SubSeq(FileOf(c), 1, xfer[p].block)
           /\ xfer[p].block >= cl[c].next - 1 /\ cl[c].st = "wait"
      ELSE store[c] = FileOf(c)

(* The two ends of a transfer never get out of step: the number the server *)
(* works on is the client's or the one before, whatever is lost, repeated  *)
(* or late, and whoever else uses the server.                              *)
InStep ==
  \A c \in Readers \cup Writers :
    (Active(c) /\ cl[c].port # 0 /\ xfer[cl[c].port].st \in {"rd", "wr"}) =>
      xfer[cl[c].port].block \in {cl[c].next - 1, cl[c].next}

(* When nothing is under way, only the transfers of clients that died, and *)
(* of requests that found no volume, still hold one of the few pcbs.       *)
NoOrphan ==
  net = {} /\ ~wild =>
    \A p \in Ports : xfer[p].st \in {"rd", "wr"} => cl[xfer[p].peer].st = "dead"

(* The use after free needs a full disk or a rival that remounted the      *)
(* volume: a writer alone on a disk with space never meets it.             *)
WildNeedsRival == wild /\ ~DiskFills => \E p \in Ports : ~clean[p]

(* A client that keeps answering is served to the end.                     *)
ServedToTheEnd == \A c \in Clients : Active(c) ~> ~Active(c)

=============================================================================
