----------------------------- MODULE TftpProofs -----------------------------
(***************************************************************************)
(* For any clients, files, pools, faults and repetitions: the server's     *)
(* records keep their types, a datagram belongs to the transfer it names,  *)
(* the two ends of a transfer stay in step until a block number wraps, and *)
(* files arrive whole: the ones clients write and the ones they read.      *)
(***************************************************************************)
EXTENDS TftpServer, FiniteSetTheorems, SequenceTheorems, TLAPS

States == {"unused", "rd", "wr", "stuck", "gone"}
XferType == [st : States, peer : Clients \cup {"none"}, block : Nat, short : BOOLEAN]
MsgType ==
  [type : {"RRQ", "WRQ", "BAD", "DATA", "ACK", "ERROR"}, peer : Clients,
   port : Ports \cup {69}, blk : 0 .. BlockMod - 1, data : BlockType]
ClType ==
  [st : {"idle", "wait", "done", "failed", "dead"}, port : Ports \cup {0}, next : Nat,
   got : Seq(BlockType)]

\* Every variable and every datagram has its type.
Typed ==
  /\ xfer \in [Ports -> XferType]
  /\ file_SD \in FileType /\ file_CR \in FileType
  /\ store \in [Writers -> Seq(BlockType)]
  /\ net \subseteq MsgType
  /\ cl \in [Clients -> ClType]
  /\ clean \in [Ports -> BOOLEAN] /\ wild \in BOOLEAN

\* A datagram of a transfer names its port and the client that has it; the
\* client sends only to the port it has settled on.
Route(m) ==
  /\ m.type \in {"RRQ", "WRQ", "BAD"} => m.port = 69
  /\ m.type = "RRQ" => m.peer \in Readers
  /\ m.type = "WRQ" => m.peer \in Writers
  /\ m.type \in {"DATA", "ACK", "ERROR"} => m.port \in Ports
  /\ m.type \in {"DATA", "ACK"} =>
       /\ m.peer \in Readers \cup Writers /\ xfer[m.port].peer = m.peer
       /\ ToServer(m) => cl[m.peer].port = m.port

\* A port in use belongs to a client of the right kind.
Place(p) ==
  /\ xfer[p].st = "unused" <=> xfer[p].peer = "none"
  /\ xfer[p].st = "rd" => xfer[p].peer \in Readers
  /\ xfer[p].st = "wr" => xfer[p].peer \in Writers

\* The number both ends begin with.
First(c) == IF c \in Readers THEN 1 ELSE 0

Home(c) ==
  /\ cl[c].port # 0 => xfer[cl[c].port].peer = c
  /\ c \in Writers => cl[c].next <= Blocks + 1
  /\ cl[c].port = 0 => cl[c].next <= First(c)
  /\ cl[c].st = "idle" => cl[c].port = 0 /\ cl[c].next = 0

\* Ports are taken in order.
UsedUpTo(k) == \A q \in Ports : xfer[q].st # "unused" <=> q <= k

TInv ==
  /\ Typed
  /\ \A m \in net : Route(m)
  /\ \A p \in Ports : Place(p)
  /\ \A c \in Clients : Home(c)
  /\ \E k \in 0 .. MaxPort : UsedUpTo(k)

\* No block number has come to where 16 bits wrap.
NoWrap == \A c \in Clients : cl[c].next < BlockMod

\* What a datagram's number says about the two ends.
Number(m) ==
  m.type \in {"DATA", "ACK"} =>
    IF ToServer(m)
    THEN IF m.type = "ACK" THEN m.blk < cl[m.peer].next ELSE m.blk <= cl[m.peer].next
    ELSE m.blk <= xfer[m.port].block

Paired(p) ==
  LET c == xfer[p].peer IN
    c \in Clients =>
      IF cl[c].port = p THEN xfer[p].block \in {cl[c].next - 1, cl[c].next}
                        ELSE xfer[p].block <= First(c)

SInv ==
  /\ \A m \in net : Number(m)
  /\ \A p \in Ports : Paired(p)

\* A writer whose transfer nobody disturbed has its file open.
WInv ==
  /\ WildNeedsRival
  /\ ~wild => \A p \in Ports : xfer[p].st = "wr" /\ clean[p] => file_CR.valid
-----------------------------------------------------------------------------
(* Constants and records.                                                  *)

LEMMA Constants ==
  /\ Readers \cap Writers = {} /\ Strangers \cap (Readers \cup Writers) = {}
  /\ Readers \subseteq Clients /\ Writers \subseteq Clients /\ "none" \notin Clients
  /\ Blocks \in Nat /\ BlockMod \in Nat /\ BlockMod >= 1
  /\ MaxPort \in Nat /\ Ports \subseteq Nat /\ 0 \notin Ports /\ 69 \notin Ports
BY TftpAssumption DEF Clients, Ports

LEMMA ModRange ==
  ASSUME NEW n \in Nat
  PROVE  /\ n % BlockMod \in 0 .. BlockMod - 1 /\ n % BlockMod <= n
         /\ n < BlockMod => n % BlockMod = n
BY Constants

LEMMA NoBlockType == NoBlock \in BlockType
BY Constants DEF NoBlock, BlockType

\* What the server sends to the client of a port.
LEMMA DataType ==
  ASSUME NEW c \in Clients, NEW p \in Ports, NEW n \in Nat, NEW b \in BlockType
  PROVE  /\ Data(c, p, n, b) \in MsgType /\ Data(c, p, n, b).type = "DATA"
         /\ Data(c, p, n, b).peer = c /\ Data(c, p, n, b).port = p
         /\ Data(c, p, n, b).blk = n % BlockMod
BY ModRange DEF Data, Msg, MsgType

LEMMA AckType ==
  ASSUME NEW c \in Clients, NEW p \in Ports, NEW n \in Nat
  PROVE  /\ Ack(c, p, n) \in MsgType /\ Ack(c, p, n).type = "ACK"
         /\ Ack(c, p, n).peer = c /\ Ack(c, p, n).port = p
         /\ Ack(c, p, n).blk = n % BlockMod
BY ModRange, NoBlockType DEF Ack, Msg, MsgType

LEMMA ErrorType ==
  ASSUME NEW c \in Clients, NEW p \in Ports
  PROVE  /\ Error(c, p) \in MsgType /\ Error(c, p).type = "ERROR"
         /\ Error(c, p).peer = c /\ Error(c, p).port = p
BY Constants, NoBlockType DEF Error, Msg, MsgType

LEMMA ExchangeAdds ==
  ASSUME NEW m, NEW out, Exchange(m, out)
  PROVE  net' \subseteq net \cup out
BY DEF Exchange

LEMMA ReadBlockType ==
  ASSUME NEW f \in FileType
  PROVE  ReadBlock(f) \in BlockType /\ AfterRead(f) \in FileType
<1>1. ReadBlock(f) \in BlockType
  <2>1. CASE HasBytes(f)
    <3>1. f.of \in Clients \cup {"none"} /\ f.pos \in 0 .. Blocks + 1
      BY <2>1, Constants DEF HasBytes, FileType
    <3> QED BY <2>1, <3>1 DEF ReadBlock, Block, BlockType
  <2>2. CASE ~HasBytes(f)
    BY <2>2, NoBlockType DEF ReadBlock
  <2> QED BY <2>1, <2>2
<1>2. AfterRead(f) \in FileType
  <2>1. CASE HasBytes(f)
    <3>1. f.pos + 1 \in 1 .. Blocks + 2
      BY <2>1, Constants DEF HasBytes, FileType
    <3> QED BY <2>1, <3>1 DEF AfterRead, FileType
  <2> QED BY <2>1 DEF AfterRead
<1> QED BY <1>1, <1>2

LEMMA OpenedType ==
  ASSUME NEW c \in Clients
  PROVE  Opened(c) \in FileType /\ Opened(c).valid = TRUE
<1>1. 1 \in 1 .. Blocks + 2 /\ <<>> \in Seq(BlockType)
  BY Constants
<1> QED BY <1>1 DEF Opened, Closed, FileType

LEMMA StaleType ==
  ASSUME file_SD \in FileType, file_CR \in FileType, AllStale
  PROVE  file_SD' \in FileType /\ file_CR' \in FileType /\ ~file_CR'.valid
BY DEF AllStale, FileType

LEMMA FreshType ==
  ASSUME NEW c \in Clients, NEW st \in States
  PROVE  LET r == [FreePort EXCEPT !.st = st, !.peer = c]
         IN  r \in XferType /\ r.st = st /\ r.peer = c /\ r.block = 0
BY DEF FreePort, XferType, States

LEMMA TypedTypeOK == Typed => TypeOK
<1> SUFFICES ASSUME Typed PROVE TypeOK
  OBVIOUS
<1>1. \A m \in net : /\ m.peer \in Clients /\ m.port \in Ports \cup {69}
                     /\ m.blk \in 0 .. BlockMod - 1 /\ m.data \in BlockType
  BY DEF Typed, MsgType
<1> QED BY <1>1 DEF Typed, TypeOK, XferType, ClType, States

LEMMA Requests ==
  ASSUME NEW m \in MsgType, Route(m), ToServer(m)
  PROVE  /\ m.type \in {"RRQ", "WRQ", "BAD"} => m.port = 69 /\ m.port \notin Ports
         /\ m.port \in Ports =>
              /\ \/ m.type = "DATA" /\ m.peer \in Writers
                 \/ m.type = "ACK" /\ m.peer \in Readers
              /\ xfer[m.port].peer = m.peer /\ cl[m.peer].port = m.port
BY Constants DEF Route, ToServer

LEMMA InitTInv == Init => TInv
<1> SUFFICES ASSUME Init PROVE TInv
  OBVIOUS
<1>1. /\ FreePort \in XferType /\ FreePort.st = "unused" /\ FreePort.peer = "none"
  BY DEF FreePort, XferType, States
<1>2. Closed \in FileType
  <2>1. 1 \in 1 .. Blocks + 2 /\ <<>> \in Seq(BlockType)
    BY Constants
  <2> QED BY <2>1 DEF Closed, FileType
<1>3. Typed
  <2>1. <<>> \in Seq(BlockType)
    OBVIOUS
  <2>2. cl \in [Clients -> ClType]
    BY <2>1 DEF Init, ClType
  <2> QED BY <1>1, <1>2, <2>1, <2>2 DEF Init, Typed
<1>4. \A p \in Ports : Place(p)
  BY <1>1 DEF Init, Place
<1>5. \A c \in Clients : Home(c)
  BY Constants DEF Init, Home, First
<1>6. UsedUpTo(0) /\ 0 \in 0 .. MaxPort
  BY <1>1, Constants DEF Init, UsedUpTo, Ports
<1> QED BY <1>3, <1>4, <1>5, <1>6 DEF TInv, Init

LEMMA InitSInv == Init => SInv
<1> SUFFICES ASSUME Init PROVE SInv
  OBVIOUS
<1>1. \A p \in Ports : xfer[p].peer \notin Clients
  BY Constants DEF Init, FreePort
<1> QED BY <1>1 DEF Init, SInv, Paired, First

LEMMA InitWInv == Init => WInv
BY DEF Init, WInv, WildNeedsRival, FreePort
-----------------------------------------------------------------------------
(* What a receive callback does.                                           *)

\* The callback for m leaves port p with the client of m, in the state st and
\* at block n.
Serves(m, p, st, n) ==
  /\ xfer' \in [Ports -> XferType] /\ cl' = cl
  /\ \A q \in Ports \ {p} : xfer'[q] = xfer[q]
  /\ xfer'[p].st = st /\ xfer'[p].peer = m.peer /\ xfer'[p].block = n

\* The datagrams it sends go to that client, with numbers up to n.
Answers(m, p, n, out) ==
  \A o \in out :
    /\ o \in MsgType /\ o.peer = m.peer /\ o.port = p
    /\ o.type \in {"DATA", "ACK", "ERROR"} /\ ~ToServer(o)
    /\ o.type \in {"DATA", "ACK"} => m.peer \in Readers \cup Writers
    /\ o.type \in {"DATA", "ACK"} => o.blk <= n

\* A port is the next unused one or the one m was sent to.
Takes(m, p) ==
  \/ xfer[p].st = "unused" /\ UsedUpTo(p - 1)
  \/ xfer[p].st # "unused" /\ xfer[p].peer = m.peer

LEMMA NewPcbUnused ==
  ASSUME TInv, NEW p \in Ports, NewPcb(p)
  PROVE  xfer[p].st = "unused" /\ xfer[p].peer = "none" /\ UsedUpTo(p - 1)
<1>1. PICK k \in 0 .. MaxPort : UsedUpTo(k)
  BY DEF TInv
<1>2. {q \in Ports : xfer[q].st # "unused"} = 1 .. k
  BY <1>1, Constants DEF UsedUpTo, Ports
<1>3. Cardinality(1 .. k) = k
  BY <1>1, Constants, FS_Interval
<1>4. p = k + 1
  BY <1>2, <1>3 DEF NewPcb
<1>5. UsedUpTo(p - 1) /\ ~(p <= k)
  BY <1>1, <1>4, Constants
<1> QED BY <1>1, <1>5 DEF TInv, Place, UsedUpTo

\* Datagrams under way stay where they belong.
LEMMA ServedRoutes ==
  ASSUME TInv, NEW m \in net, NEW p \in Ports, NEW st \in States \ {"unused"}, NEW n \in Nat,
         Serves(m, p, st, n), Takes(m, p),
         NEW out, Answers(m, p, n, out), net' \subseteq net \cup out,
         st = "rd" => m.peer \in Readers, st = "wr" => m.peer \in Writers,
         file_SD' \in FileType, file_CR' \in FileType,
         store' \in [Writers -> Seq(BlockType)], clean' \in [Ports -> BOOLEAN],
         wild' \in BOOLEAN
  PROVE  TInv'
<1>1. m.peer \in Clients /\ net \subseteq MsgType
  BY DEF TInv, Typed, MsgType
<1>2. \A q \in Ports : xfer[q].peer \in Clients => xfer'[q].peer = xfer[q].peer
  BY Constants DEF TInv, Place, Serves, Takes
<1>3. Typed'
  <2>1. net' \subseteq MsgType
    BY <1>1 DEF Answers
  <2> QED BY <2>1 DEF TInv, Typed, Serves
<1>4. ASSUME NEW o \in net'
      PROVE  Route(o)'
  <2>1. CASE o \in net
    <3>1. Route(o) /\ o.peer \in Clients
      BY <1>1, <2>1 DEF TInv, MsgType
    <3> QED BY <1>2, <3>1 DEF Route, Serves, ToServer
  <2>2. CASE o \in out
    <3>1. /\ o.peer = m.peer /\ o.port = p /\ ~ToServer(o)
          /\ o.type \in {"DATA", "ACK", "ERROR"}
          /\ o.type \in {"DATA", "ACK"} => m.peer \in Readers \cup Writers
      BY <2>2 DEF Answers
    <3> QED BY <3>1 DEF Route, Serves, ToServer
  <2> QED BY <2>1, <2>2
<1>5. ASSUME NEW q \in Ports
      PROVE  Place(q)'
  <2>1. CASE q = p
    BY <1>1, <2>1, Constants DEF Place, Serves
  <2>2. CASE q # p
    BY <2>2 DEF TInv, Place, Serves
  <2> QED BY <2>1, <2>2
<1>6. ASSUME NEW c \in Clients
      PROVE  Home(c)'
  <2>1. Home(c) /\ cl[c].port \in Ports \cup {0}
    BY DEF TInv, Typed, ClType
  <2> QED BY <1>2, <2>1 DEF Home, Serves, First
<1>7. \E k \in 0 .. MaxPort : UsedUpTo(k)'
  <2>1. CASE xfer[p].st = "unused" /\ UsedUpTo(p - 1)
    <3>1. p \in 0 .. MaxPort
      BY DEF Ports
    <3>2. \A q \in Ports : xfer'[q].st # "unused" <=> q <= p
      BY <2>1, <3>1, Constants DEF UsedUpTo, Serves
    <3>3. UsedUpTo(p)'
      BY <3>2 DEF UsedUpTo
    <3> QED BY <3>1, <3>3
  <2>2. CASE xfer[p].st # "unused"
    <3>1. PICK k \in 0 .. MaxPort : UsedUpTo(k)
      BY DEF TInv
    <3>2. UsedUpTo(k)'
      BY <2>2, <3>1 DEF UsedUpTo, Serves
    <3> QED BY <3>2
  <2> QED BY <2>1, <2>2 DEF Takes
<1> QED BY <1>3, <1>4, <1>5, <1>6, <1>7 DEF TInv

\* The numbers, when those of port p stay in step.
LEMMA ServedNumbers ==
  ASSUME TInv, SInv, NEW m \in net, NEW p \in Ports, NEW st, NEW n \in Nat,
         Serves(m, p, st, n), Takes(m, p),
         NEW out, Answers(m, p, n, out), net' \subseteq net \cup out,
         xfer[p].st = "unused" => n <= First(m.peer),
         xfer[p].st # "unused" =>
           /\ cl[m.peer].port = p
           /\ n \in {cl[m.peer].next - 1, cl[m.peer].next} /\ n >= xfer[p].block
  PROVE  SInv'
<1>1. m.peer \in Clients /\ net \subseteq MsgType
  BY DEF TInv, Typed, MsgType
<1>2. \A q \in Ports : xfer[q].peer \in Clients =>
         xfer'[q].peer = xfer[q].peer /\ xfer'[q].block >= xfer[q].block
  BY Constants DEF TInv, Typed, XferType, Place, Serves, Takes
<1>3. ASSUME NEW o \in net'
      PROVE  Number(o)'
  <2>1. CASE o \in net
    <3>1. Number(o) /\ Route(o) /\ o.peer \in Clients /\ o.blk \in Nat
      BY <1>1, <2>1 DEF SInv, TInv, MsgType
    <3>2. CASE o.type \in {"DATA", "ACK"} /\ ~ToServer(o)
      <4>1. /\ o.port \in Ports /\ xfer[o.port].peer \in Clients
            /\ o.blk <= xfer[o.port].block
        BY <3>1, <3>2 DEF Route, Number
      <4>2. xfer'[o.port].block >= xfer[o.port].block /\ xfer'[o.port].block \in Nat
            /\ xfer[o.port].block \in Nat
        BY <1>2, <4>1 DEF TInv, Typed, XferType, Serves
      <4>3. o.blk <= xfer'[o.port].block
        BY <3>1, <4>1, <4>2
      <4> QED BY <3>2, <4>3 DEF Number, ToServer
    <3>3. CASE ~(o.type \in {"DATA", "ACK"} /\ ~ToServer(o))
      BY <3>1, <3>3 DEF Number, ToServer, Serves
    <3> QED BY <3>2, <3>3
  <2>2. CASE o \in out
    BY <2>2 DEF Answers, Number, ToServer, Serves
  <2> QED BY <2>1, <2>2
<1>4. ASSUME NEW q \in Ports
      PROVE  Paired(q)'
  <2>1. CASE q # p
    BY <2>1 DEF SInv, Paired, Serves, First
  <2>2. CASE q = p /\ xfer[p].st = "unused"
    <3>1. xfer[p].peer = "none"
      BY <2>2 DEF TInv, Place
    <3>2. cl[m.peer].port # p
      BY <1>1, <3>1, Constants DEF TInv, Home
    <3> QED BY <2>2, <3>2 DEF Paired, Serves, First
  <2>3. CASE q = p /\ xfer[p].st # "unused"
    BY <2>3 DEF Paired, Serves
  <2> QED BY <2>1, <2>2, <2>3
<1> QED BY <1>3, <1>4 DEF SInv

\* A datagram that changes nothing but the network.
LEMMA DroppedRoutes ==
  ASSUME TInv, NEW m, Exchange(m, {}), UNCHANGED <<xfer, cl>>,
         file_SD' \in FileType, file_CR' \in FileType,
         store' \in [Writers -> Seq(BlockType)], clean' \in [Ports -> BOOLEAN],
         wild' \in BOOLEAN
  PROVE  TInv'
<1>1. net' \subseteq net
  BY ExchangeAdds
<1>2. Typed' /\ \A o \in net' : Route(o)'
  BY <1>1 DEF TInv, Typed, Route, ToServer
<1>3. \A p \in Ports : Place(p)'
  BY DEF TInv, Place
<1>4. \A c \in Clients : Home(c)'
  BY DEF TInv, Home, First
<1>5. \E k \in 0 .. MaxPort : UsedUpTo(k)'
  BY DEF TInv, UsedUpTo
<1> QED BY <1>2, <1>3, <1>4, <1>5 DEF TInv

LEMMA DroppedNumbers ==
  ASSUME SInv, NEW m, Exchange(m, {}), UNCHANGED <<xfer, cl>>
  PROVE  SInv'
<1>1. net' \subseteq net
  BY ExchangeAdds
<1> QED BY <1>1 DEF SInv, Number, ToServer, Paired, First

LEMMA Served ==
  ASSUME TInv, NEW m \in net, NEW p \in Ports, NEW st \in States \ {"unused"}, NEW n \in Nat,
         Serves(m, p, st, n), Takes(m, p),
         NEW out, Answers(m, p, n, out), Exchange(m, out),
         st = "rd" => m.peer \in Readers, st = "wr" => m.peer \in Writers,
         file_SD' \in FileType, file_CR' \in FileType,
         store' \in [Writers -> Seq(BlockType)], clean' \in [Ports -> BOOLEAN],
         wild' \in BOOLEAN,
         SInv /\ xfer[p].st = "unused" => n <= First(m.peer),
         SInv /\ xfer[p].st # "unused" =>
           /\ cl[m.peer].port = p
           /\ n \in {cl[m.peer].next - 1, cl[m.peer].next} /\ n >= xfer[p].block
  PROVE  TInv' /\ (SInv => SInv')
<1>1. net' \subseteq net \cup out
  BY ExchangeAdds
<1>2. TInv'
  BY <1>1, ServedRoutes
<1>3. SInv => SInv'
  BY <1>1, ServedNumbers
<1> QED BY <1>2, <1>3

LEMMA TouchedType ==
  ASSUME Typed, NEW p \in Ports, Touched(p)
  PROVE  clean' \in [Ports -> BOOLEAN]
BY DEF Typed, Touched

LEMMA CleanupWrType ==
  ASSUME Typed, NEW p \in Ports, NEW last \in Seq(BlockType), CleanupWr(p, last)
  PROVE  /\ file_SD' \in FileType /\ file_CR' \in FileType /\ clean' \in [Ports -> BOOLEAN]
         /\ store' \in [Writers -> Seq(BlockType)]
<1>1. file_CR.data \o last \in Seq(BlockType)
  <2>1. file_CR.data \in Seq(BlockType)
    BY DEF Typed, FileType
  <2> QED BY <2>1
<1>2. store' \in [Writers -> Seq(BlockType)]
  BY <1>1 DEF Typed, CleanupWr
<1> QED BY <1>2, StaleType, TouchedType DEF Typed, CleanupWr

\* A request takes the next port.
LEMMA NewPort ==
  ASSUME TInv, NEW m \in net, NEW p \in Ports, NewPcb(p), NEW st \in States \ {"unused"},
         xfer' = [xfer EXCEPT ![p] = [FreePort EXCEPT !.st = st, !.peer = m.peer]], cl' = cl
  PROVE  Serves(m, p, st, 0) /\ Takes(m, p) /\ xfer[p].st = "unused"
<1>1. m.peer \in Clients
  BY DEF TInv, Typed, MsgType
<1> DEFINE r == [FreePort EXCEPT !.st = st, !.peer = m.peer]
<1>2. r \in XferType /\ r.st = st /\ r.peer = m.peer /\ r.block = 0
  BY <1>1, FreshType
<1>3. xfer' = [xfer EXCEPT ![p] = r]
  OBVIOUS
<1> HIDE DEF r
<1>4. Serves(m, p, st, 0)
  BY <1>2, <1>3 DEF Serves, TInv, Typed
<1> QED BY <1>4, NewPcbUnused DEF Takes

LEMMA ErrorAnswers ==
  ASSUME TInv, NEW m \in net, NEW p \in Ports, NEW n
  PROVE  Answers(m, p, n, {Error(m.peer, p)}) /\ Answers(m, p, n, {})
<1>1. m.peer \in Clients
  BY DEF TInv, Typed, MsgType
<1> QED BY <1>1, ErrorType DEF Answers, ToServer

LEMMA DataAnswers ==
  ASSUME TInv, NEW m \in net, m.peer \in Readers, NEW p \in Ports, NEW n \in Nat,
         NEW b \in BlockType
  PROVE  Answers(m, p, n, {Data(m.peer, p, n, b)})
BY DataType, ModRange, Constants DEF Answers, ToServer

LEMMA AckAnswers ==
  ASSUME TInv, NEW m \in net, m.peer \in Writers, NEW p \in Ports, NEW n \in Nat
  PROVE  Answers(m, p, n, {Ack(m.peer, p, n)})
BY AckType, ModRange, Constants DEF Answers, ToServer

LEMMA ServeUnknownInv ==
  ASSUME TInv, NEW m \in net, NEW p \in Ports, ServeUnknown(m, p)
  PROVE  TInv' /\ (SInv => SInv')
<1>1. Serves(m, p, "gone", 0) /\ Takes(m, p) /\ xfer[p].st = "unused"
  BY NewPort DEF ServeUnknown, States
<1>2. UNCHANGED <<file_SD, file_CR, store, clean, wild>> /\ Exchange(m, {Error(m.peer, p)})
  BY DEF ServeUnknown
<1>3. /\ file_SD' \in FileType /\ file_CR' \in FileType /\ clean' \in [Ports -> BOOLEAN]
      /\ store' \in [Writers -> Seq(BlockType)] /\ wild' \in BOOLEAN
  BY <1>2 DEF TInv, Typed
<1>4. Answers(m, p, 0, {Error(m.peer, p)})
  BY ErrorAnswers
<1>5. "gone" \in States \ {"unused"} /\ 0 <= First(m.peer)
  BY DEF States, First
<1> QED BY <1>1, <1>2, <1>3, <1>4, <1>5, Served

LEMMA ServeNoVolumeInv ==
  ASSUME TInv, NEW m \in net, NEW p \in Ports, ServeNoVolume(m, p)
  PROVE  TInv' /\ (SInv => SInv')
<1>1. Serves(m, p, "stuck", 0) /\ Takes(m, p) /\ xfer[p].st = "unused"
  BY NewPort DEF ServeNoVolume, States
<1>2. UNCHANGED <<store, wild>> /\ Exchange(m, {}) /\ AllStale /\ Touched(p)
  BY DEF ServeNoVolume
<1>3. file_SD' \in FileType /\ file_CR' \in FileType /\ clean' \in [Ports -> BOOLEAN]
  BY <1>2, StaleType, TouchedType DEF TInv, Typed
<1>4. store' \in [Writers -> Seq(BlockType)] /\ wild' \in BOOLEAN
  BY <1>2 DEF TInv, Typed
<1>5. Answers(m, p, 0, {})
  BY ErrorAnswers
<1>6. "stuck" \in States \ {"unused"} /\ 0 <= First(m.peer)
  BY DEF States, First
<1> QED BY <1>1, <1>2, <1>3, <1>4, <1>5, <1>6, Served

LEMMA ServeRefusedInv ==
  ASSUME TInv, NEW m \in net, NEW p \in Ports, ServeRefused(m, p)
  PROVE  TInv' /\ (SInv => SInv')
<1>1. Serves(m, p, "gone", 0) /\ Takes(m, p) /\ xfer[p].st = "unused"
  BY NewPort DEF ServeRefused, States
<1>2. wild' = wild /\ Exchange(m, {Error(m.peer, p)}) /\ AllStale /\ Touched(p)
  BY DEF ServeRefused
<1>3. file_SD' \in FileType /\ file_CR' \in FileType /\ clean' \in [Ports -> BOOLEAN]
  BY <1>2, StaleType, TouchedType DEF TInv, Typed
<1>4. store' \in [Writers -> Seq(BlockType)]
  <2>1. <<>> \in Seq(BlockType)
    OBVIOUS
  <2> QED BY <2>1 DEF ServeRefused, TInv, Typed
<1>5. Answers(m, p, 0, {Error(m.peer, p)}) /\ wild' \in BOOLEAN
  BY <1>2, ErrorAnswers DEF TInv, Typed
<1>6. "gone" \in States \ {"unused"} /\ 0 <= First(m.peer)
  BY DEF States, First
<1> QED BY <1>1, <1>2, <1>3, <1>4, <1>5, <1>6, Served

LEMMA ServeWriteInv ==
  ASSUME TInv, NEW m \in net, NEW p \in Ports, ServeWrite(m, p)
  PROVE  TInv' /\ (SInv => SInv')
<1>1. m.peer \in Writers /\ m.peer \in Clients
  BY DEF TInv, Typed, MsgType, Route, ServeWrite
<1>2. Serves(m, p, "wr", 0) /\ Takes(m, p) /\ xfer[p].st = "unused"
  BY NewPort DEF ServeWrite, States
<1>3. wild' = wild /\ Exchange(m, {Ack(m.peer, p, 0)})
  BY DEF ServeWrite
<1>4. file_SD' \in FileType /\ file_CR' \in FileType
  BY <1>1, OpenedType DEF ServeWrite, TInv, Typed, FileType
<1>5. store' \in [Writers -> Seq(BlockType)] /\ clean' \in [Ports -> BOOLEAN]
  <2>1. <<>> \in Seq(BlockType)
    OBVIOUS
  <2>2. store' \in [Writers -> Seq(BlockType)]
    BY <2>1 DEF ServeWrite, TInv, Typed
  <2>3. clean' \in [Ports -> BOOLEAN]
    BY TouchedType DEF ServeWrite, TInv, Typed
  <2> QED BY <2>2, <2>3
<1>6. Answers(m, p, 0, {Ack(m.peer, p, 0)})
  BY <1>1, AckAnswers
<1>7. "wr" \in States \ {"unused"} /\ 0 <= First(m.peer) /\ wild' \in BOOLEAN
  BY <1>3 DEF TInv, Typed, States, First
<1>8. 0 \in Nat /\ "wr" # "rd"
  OBVIOUS
<1> QED BY <1>1, <1>2, <1>3, <1>4, <1>5, <1>6, <1>7, <1>8, Served

\* The next block of a file, from the port as x has it.
LEMMA SendNextBlockInv ==
  ASSUME TInv, NEW m \in net, NEW p \in Ports, NEW n \in Nat, NEW f \in FileType, NEW x,
         x \in [Ports -> XferType], x[p].st = "rd", x[p].peer = m.peer, m.peer \in Readers,
         \A q \in Ports \ {p} : x[q] = xfer[q],
         Takes(m, p), SendNextBlock(p, n, f, m, x),
         file_CR' \in FileType, UNCHANGED <<store, cl, wild>>,
         SInv /\ xfer[p].st = "unused" => n <= First(m.peer),
         SInv /\ xfer[p].st # "unused" =>
           /\ cl[m.peer].port = p
           /\ n \in {cl[m.peer].next - 1, cl[m.peer].next} /\ n >= xfer[p].block
  PROVE  TInv' /\ (SInv => SInv')
<1> DEFINE b == ReadBlock(f)
           short == Short(b)
<1>1. b \in BlockType /\ file_SD' \in FileType
  BY ReadBlockType DEF SendNextBlock
<1>2. short \in BOOLEAN
  BY DEF Short
<1>3. /\ xfer' = [x EXCEPT ![p].block = n, ![p].short = short]
      /\ Exchange(m, {Data(m.peer, p, n, b)}) /\ clean' \in [Ports -> BOOLEAN]
  BY TouchedType DEF SendNextBlock, TInv
<1> HIDE DEF b, short
<1>4. Serves(m, p, "rd", n)
  <2> DEFINE mid == [x[p] EXCEPT !.block = n]
             r == [mid EXCEPT !.short = short]
  <2>1. x[p] \in XferType
    OBVIOUS
  <2>2. mid \in XferType /\ mid.st = "rd" /\ mid.peer = m.peer /\ mid.block = n
    BY <2>1 DEF XferType
  <2>3. xfer' = [x EXCEPT ![p] = r]
    BY <1>3
  <2> HIDE DEF mid
  <2>4. r \in XferType /\ r.st = "rd" /\ r.peer = m.peer /\ r.block = n
    BY <1>2, <2>2 DEF XferType
  <2> HIDE DEF r
  <2> QED BY <2>3, <2>4 DEF Serves
<1>5. Answers(m, p, n, {Data(m.peer, p, n, b)})
  BY <1>1, DataAnswers
<1>6. store' \in [Writers -> Seq(BlockType)] /\ wild' \in BOOLEAN
  BY DEF TInv, Typed
<1> QED BY <1>1, <1>3, <1>4, <1>5, <1>6, Constants, Served DEF States

LEMMA ServeReadInv ==
  ASSUME TInv, NEW m \in net, NEW p \in Ports, ServeRead(m, p)
  PROVE  TInv' /\ (SInv => SInv')
<1>1. m.peer \in Readers /\ m.peer \in Clients
  BY DEF TInv, Typed, MsgType, Route, ServeRead
<1> DEFINE r == [FreePort EXCEPT !.st = "rd", !.peer = m.peer]
           x == [xfer EXCEPT ![p] = r]
<1>2. r \in XferType /\ r.st = "rd" /\ r.peer = m.peer
  BY <1>1, FreshType DEF States
<1>3. SendNextBlock(p, 1, Opened(m.peer), m, x)
  BY DEF ServeRead
<1> HIDE DEF r
<1>4. /\ x \in [Ports -> XferType] /\ x[p].st = "rd" /\ x[p].peer = m.peer
      /\ \A q \in Ports \ {p} : x[q] = xfer[q]
  BY <1>2 DEF TInv, Typed
<1> HIDE DEF x
<1>5. Takes(m, p) /\ xfer[p].st = "unused"
  BY NewPcbUnused DEF ServeRead, Takes
<1>6. file_CR' \in FileType /\ Opened(m.peer) \in FileType /\ UNCHANGED <<store, cl, wild>>
  BY <1>1, OpenedType DEF ServeRead, TInv, Typed, FileType
<1> QED BY <1>1, <1>3, <1>4, <1>5, <1>6, SendNextBlockInv DEF First

LEMMA ServeNoPcbInv ==
  ASSUME TInv, NEW m \in net, ServeNoPcb(m)
  PROVE  TInv' /\ (SInv => SInv')
<1>1. Exchange(m, {}) /\ UNCHANGED <<xfer, file_SD, file_CR, store, cl, clean, wild>>
  BY DEF ServeNoPcb
<1>2. /\ file_SD' \in FileType /\ file_CR' \in FileType /\ clean' \in [Ports -> BOOLEAN]
      /\ store' \in [Writers -> Seq(BlockType)] /\ wild' \in BOOLEAN
  BY <1>1 DEF TInv, Typed
<1> QED BY <1>1, <1>2, DroppedRoutes, DroppedNumbers

LEMMA NoReceiverInv ==
  ASSUME TInv, NEW m \in net, NoReceiver(m)
  PROVE  TInv' /\ (SInv => SInv')
<1>1. Exchange(m, {}) /\ UNCHANGED <<xfer, file_SD, file_CR, store, cl, clean, wild>>
  BY DEF NoReceiver
<1>2. /\ file_SD' \in FileType /\ file_CR' \in FileType /\ clean' \in [Ports -> BOOLEAN]
      /\ store' \in [Writers -> Seq(BlockType)] /\ wild' \in BOOLEAN
  BY <1>1 DEF TInv, Typed
<1> QED BY <1>1, <1>2, DroppedRoutes, DroppedNumbers

\* A datagram for a port in use comes from its client, which has settled on
\* the port: the two numbers are in step.
LEMMA Received ==
  ASSUME TInv, NEW m \in net, ToServer(m), NEW p \in Ports, p = m.port,
         xfer[p].st \in {"rd", "wr"}
  PROVE  /\ xfer[p] \in XferType /\ xfer[p].block \in Nat
         /\ m \in MsgType /\ m.peer \in Clients /\ xfer[p].peer = m.peer
         /\ cl[m.peer].port = p /\ cl[m.peer].next \in Nat
         /\ Takes(m, p) /\ xfer[p].st # "unused"
         /\ xfer[p].st = "rd" => m.peer \in Readers /\ m.type = "ACK"
         /\ xfer[p].st = "wr" => m.peer \in Writers /\ m.type = "DATA"
         /\ SInv => xfer[p].block \in {cl[m.peer].next - 1, cl[m.peer].next}
<1>1. m \in MsgType /\ m.peer \in Clients /\ Route(m) /\ xfer[p] \in XferType
  BY DEF TInv, Typed, MsgType
<1>2. /\ xfer[p].peer = m.peer /\ cl[m.peer].port = p
      /\ \/ m.type = "DATA" /\ m.peer \in Writers
         \/ m.type = "ACK" /\ m.peer \in Readers
  BY <1>1, Requests
<1>3. /\ xfer[p].st = "rd" => m.peer \in Readers
      /\ xfer[p].st = "wr" => m.peer \in Writers
  BY <1>2 DEF TInv, Place
<1>4. xfer[p].st = "rd" => m.type = "ACK"
  BY <1>2, <1>3, Constants
<1>5. xfer[p].st = "wr" => m.type = "DATA"
  BY <1>2, <1>3, Constants
<1>6. SInv => xfer[p].block \in {cl[m.peer].next - 1, cl[m.peer].next}
  BY <1>1, <1>2 DEF SInv, Paired
<1>7. xfer[p].block \in Nat /\ cl[m.peer].next \in Nat
  BY <1>1 DEF TInv, Typed, XferType, ClType
<1> QED BY <1>1, <1>2, <1>3, <1>4, <1>5, <1>6, <1>7 DEF Takes

\* The pcb is removed; a write transfer counts its last block or does not.
LEMMA GoneServes ==
  ASSUME TInv, NEW m, NEW p \in Ports, xfer[p].peer = m.peer, cl' = cl
  PROVE  /\ xfer' = Gone(p) => Serves(m, p, "gone", xfer[p].block)
         /\ xfer' = [Gone(p) EXCEPT ![p].block = @ + 1] =>
              Serves(m, p, "gone", xfer[p].block + 1)
<1> DEFINE old == xfer[p]
           mid == [old EXCEPT !.st = "gone"]
           rec == [mid EXCEPT !.block = old.block + 1]
<1>1. old \in XferType /\ old.block \in Nat
  BY DEF TInv, Typed, XferType
<1>2. Gone(p) = [xfer EXCEPT ![p] = mid] /\ xfer \in [Ports -> XferType]
  BY DEF Gone, TInv, Typed
<1>3. old.peer = m.peer
  OBVIOUS
<1> HIDE DEF old
<1>4. /\ mid \in XferType /\ mid.st = "gone" /\ mid.peer = m.peer /\ mid.block = old.block
  BY <1>1, <1>3 DEF XferType, States
<1>5. [Gone(p) EXCEPT ![p].block = @ + 1] = [xfer EXCEPT ![p] = rec]
  BY <1>2, <1>4
<1> HIDE DEF mid
<1>6. /\ rec \in XferType /\ rec.st = "gone" /\ rec.peer = m.peer
      /\ rec.block = old.block + 1
  BY <1>1, <1>4 DEF XferType
<1> HIDE DEF rec
<1>7. xfer' = Gone(p) => Serves(m, p, "gone", old.block)
  BY <1>2, <1>4 DEF Serves
<1>8. xfer' = [xfer EXCEPT ![p] = rec] => Serves(m, p, "gone", old.block + 1)
  BY <1>2, <1>6 DEF Serves
<1>9. xfer' = [Gone(p) EXCEPT ![p].block = @ + 1] => Serves(m, p, "gone", old.block + 1)
  BY <1>5, <1>8
<1> QED BY <1>7, <1>9 DEF old

LEMMA ReadEndsInv ==
  ASSUME TInv, NEW m \in net, ReadEnds(m)
  PROVE  TInv' /\ (SInv => SInv')
<1> DEFINE p == m.port
<1>1. /\ ToServer(m) /\ p \in Ports /\ xfer[p].st = "rd" /\ xfer' = Gone(p)
      /\ cl' = cl /\ wild' = wild /\ store' = store
      /\ Exchange(m, {}) /\ AllStale /\ Touched(p)
  BY DEF ReadEnds, CleanupRd
<1> HIDE DEF p
<1>2. /\ xfer[p].peer = m.peer /\ xfer[p].block \in Nat /\ Takes(m, p)
      /\ xfer[p].st # "unused" /\ cl[m.peer].port = p
      /\ SInv => xfer[p].block \in {cl[m.peer].next - 1, cl[m.peer].next}
  BY <1>1, Received DEF p
<1>3. Serves(m, p, "gone", xfer[p].block)
  BY <1>1, <1>2, GoneServes
<1>4. /\ file_SD' \in FileType /\ file_CR' \in FileType /\ clean' \in [Ports -> BOOLEAN]
      /\ store' \in [Writers -> Seq(BlockType)] /\ wild' \in BOOLEAN
  BY <1>1, StaleType, TouchedType DEF TInv, Typed
<1>5. Answers(m, p, xfer[p].block, {}) /\ "gone" \in States \ {"unused"}
  BY <1>1, ErrorAnswers DEF States
<1> QED BY <1>1, <1>2, <1>3, <1>4, <1>5, Served

LEMMA ReadContinuesInv ==
  ASSUME TInv, NEW m \in net, ReadContinues(m)
  PROVE  TInv' /\ (SInv => SInv')
<1> DEFINE p == m.port
           n == NumberAfter(m, xfer[p].block)
<1>1. /\ ToServer(m) /\ p \in Ports /\ xfer[p].st = "rd"
      /\ SendNextBlock(p, n, file_SD, m, xfer)
      /\ UNCHANGED <<file_CR, store, cl, wild>>
  BY DEF ReadContinues
<1>2. /\ xfer[p].peer = m.peer /\ xfer[p].block \in Nat /\ Takes(m, p)
      /\ xfer[p].st # "unused" /\ cl[m.peer].port = p /\ cl[m.peer].next \in Nat
      /\ m.peer \in Readers /\ m \in MsgType
      /\ SInv => xfer[p].block \in {cl[m.peer].next - 1, cl[m.peer].next}
  BY <1>1, Received
<1>3. n \in Nat /\ n >= xfer[p].block
  BY <1>2 DEF NumberAfter
<1>4. SInv => n \in {cl[m.peer].next - 1, cl[m.peer].next}
  <2>1. SUFFICES ASSUME SInv, n = m.blk + 1, m.blk = xfer[p].block, m.type = "ACK"
                 PROVE  n = cl[m.peer].next
    BY <1>2 DEF NumberAfter
  <2>2. m.blk < cl[m.peer].next
    BY <1>1, <2>1 DEF SInv, Number
  <2> QED BY <1>2, <2>1, <2>2
<1> HIDE DEF p, n
<1>5. file_SD \in FileType /\ file_CR' \in FileType /\ xfer \in [Ports -> XferType]
  BY <1>1 DEF TInv, Typed
<1> QED BY <1>1, <1>2, <1>3, <1>4, <1>5, SendNextBlockInv

LEMMA WriteStoresInv ==
  ASSUME TInv, NEW m \in net, WriteStores(m)
  PROVE  TInv' /\ (SInv => SInv')
<1> DEFINE p == m.port
           old == xfer[p]
           n == old.block + 1
           rec == [old EXCEPT !.block = n]
<1>1. /\ ToServer(m) /\ p \in Ports /\ old.st = "wr" /\ m.blk = n
      /\ xfer' = [xfer EXCEPT ![p] = rec]
      /\ file_CR' = [file_CR EXCEPT !.data = Append(@, m.data)]
      /\ Exchange(m, {Ack(m.peer, p, n)}) /\ Touched(p)
      /\ UNCHANGED <<file_SD, store, cl, wild>>
  BY DEF WriteStores, Expected
<1>2. /\ old \in XferType /\ old.peer = m.peer /\ old.block \in Nat /\ Takes(m, p)
      /\ old.st # "unused" /\ cl[m.peer].port = p /\ cl[m.peer].next \in Nat
      /\ m.peer \in Writers /\ m \in MsgType /\ m.type = "DATA"
      /\ SInv => old.block \in {cl[m.peer].next - 1, cl[m.peer].next}
  BY <1>1, Received
<1>3. n \in Nat /\ n >= old.block
  BY <1>2
<1>4. SInv => n \in {cl[m.peer].next - 1, cl[m.peer].next}
  <2>1. SInv => m.blk <= cl[m.peer].next
    BY <1>1, <1>2 DEF SInv, Number
  <2> QED BY <1>1, <1>2, <2>1
<1>5. Serves(m, p, "wr", n)
  <2>1. old.st = "wr" /\ old.peer = m.peer
    BY <1>1, <1>2
  <2> HIDE DEF old, n
  <2>2. rec \in XferType /\ rec.st = "wr" /\ rec.peer = m.peer /\ rec.block = n
    BY <1>2, <1>3, <2>1 DEF XferType
  <2> HIDE DEF rec, p
  <2> QED BY <1>1, <2>2 DEF Serves, TInv, Typed
<1> HIDE DEF n
<1>6. file_CR' \in FileType
  <2>1. file_CR \in FileType /\ m.data \in BlockType
    BY <1>2 DEF TInv, Typed, MsgType
  <2>2. Append(file_CR.data, m.data) \in Seq(BlockType)
    BY <2>1 DEF FileType
  <2> QED BY <1>1, <2>1, <2>2 DEF FileType
<1>7. /\ file_SD' \in FileType /\ clean' \in [Ports -> BOOLEAN]
      /\ store' \in [Writers -> Seq(BlockType)] /\ wild' \in BOOLEAN
  BY <1>1, TouchedType DEF TInv, Typed
<1>8. Answers(m, p, n, {Ack(m.peer, p, n)}) /\ "wr" \in States \ {"unused"}
  BY <1>1, <1>2, <1>3, AckAnswers DEF States
<1> HIDE DEF p
<1> QED BY <1>1, <1>2, <1>3, <1>4, <1>5, <1>6, <1>7, <1>8, Served

LEMMA WriteEndsInv ==
  ASSUME TInv, NEW m \in net, WriteEnds(m)
  PROVE  TInv' /\ (SInv => SInv')
<1> DEFINE p == m.port
           n == xfer[p].block + 1
           last == IF m.data = NoBlock THEN <<>> ELSE <<m.data>>
<1>1. /\ ToServer(m) /\ p \in Ports /\ xfer[p].st = "wr" /\ m.blk = n
      /\ xfer' = [Gone(p) EXCEPT ![p].block = @ + 1]
      /\ CleanupWr(p, last)
      /\ Exchange(m, {Ack(m.peer, p, n)})
      /\ UNCHANGED <<cl, wild>>
  BY DEF WriteEnds, Expected
<1>2. /\ xfer[p].peer = m.peer /\ xfer[p].block \in Nat /\ Takes(m, p)
      /\ xfer[p].st # "unused" /\ cl[m.peer].port = p /\ cl[m.peer].next \in Nat
      /\ m.peer \in Writers /\ m \in MsgType /\ m.type = "DATA"
      /\ SInv => xfer[p].block \in {cl[m.peer].next - 1, cl[m.peer].next}
  BY <1>1, Received
<1>3. n \in Nat /\ n >= xfer[p].block
  BY <1>2
<1>4. SInv => n \in {cl[m.peer].next - 1, cl[m.peer].next}
  <2>1. SInv => m.blk <= cl[m.peer].next
    BY <1>1, <1>2 DEF SInv, Number
  <2> QED BY <1>1, <1>2, <2>1
<1>5. Serves(m, p, "gone", n)
  BY <1>1, <1>2, GoneServes
<1>6. last \in Seq(BlockType)
  BY <1>2 DEF MsgType
<1> HIDE DEF n, last
<1>7. /\ file_SD' \in FileType /\ file_CR' \in FileType /\ clean' \in [Ports -> BOOLEAN]
      /\ store' \in [Writers -> Seq(BlockType)] /\ wild' \in BOOLEAN
  BY <1>1, <1>6, CleanupWrType DEF TInv, Typed
<1>8. Answers(m, p, n, {Ack(m.peer, p, n)}) /\ "gone" \in States \ {"unused"}
  BY <1>1, <1>2, <1>3, AckAnswers DEF States
<1> HIDE DEF p
<1> QED BY <1>1, <1>2, <1>3, <1>4, <1>5, <1>7, <1>8, Served

LEMMA WriteFailsInv ==
  ASSUME TInv, NEW m \in net, WriteFails(m)
  PROVE  TInv' /\ (SInv => SInv')
<1> DEFINE p == m.port
           n == xfer[p].block + 1
           told == {Error(m.peer, p)}
           both == {Error(m.peer, p), Ack(m.peer, p, n)}
<1>1. /\ ToServer(m) /\ p \in Ports /\ xfer[p].st = "wr" /\ m.blk = n
      /\ xfer' = [Gone(p) EXCEPT ![p].block = @ + 1]
      /\ CleanupWr(p, <<>>)
      /\ Exchange(m, told) \/ Exchange(m, both)
      /\ wild' = TRUE /\ cl' = cl
  BY DEF WriteFails, Expected
<1>2. /\ xfer[p].peer = m.peer /\ xfer[p].block \in Nat /\ Takes(m, p)
      /\ xfer[p].st # "unused" /\ cl[m.peer].port = p /\ cl[m.peer].next \in Nat
      /\ m.peer \in Writers /\ m \in MsgType /\ m.type = "DATA"
      /\ SInv => xfer[p].block \in {cl[m.peer].next - 1, cl[m.peer].next}
  BY <1>1, Received
<1>3. n \in Nat /\ n >= xfer[p].block
  BY <1>2
<1>4. SInv => n \in {cl[m.peer].next - 1, cl[m.peer].next}
  <2>1. SInv => m.blk <= cl[m.peer].next
    BY <1>1, <1>2 DEF SInv, Number
  <2> QED BY <1>1, <1>2, <2>1
<1>5. Serves(m, p, "gone", n)
  BY <1>1, <1>2, GoneServes
<1> HIDE DEF n
<1>7. /\ file_SD' \in FileType /\ file_CR' \in FileType /\ clean' \in [Ports -> BOOLEAN]
      /\ store' \in [Writers -> Seq(BlockType)] /\ wild' \in BOOLEAN
  <2>1. <<>> \in Seq(BlockType)
    OBVIOUS
  <2> QED BY <1>1, <2>1, CleanupWrType DEF TInv
<1>8. Answers(m, p, n, told) /\ Answers(m, p, n, both) /\ "gone" \in States \ {"unused"}
  <2>1. Answers(m, p, n, {Ack(m.peer, p, n)}) /\ Answers(m, p, n, told)
    BY <1>1, <1>2, <1>3, AckAnswers, ErrorAnswers
  <2> QED BY <2>1 DEF Answers, States
<1> HIDE DEF p, told, both
<1>9. CASE Exchange(m, told)
  BY <1>1, <1>2, <1>3, <1>4, <1>5, <1>7, <1>8, <1>9, Served
<1>10. CASE Exchange(m, both)
  BY <1>1, <1>2, <1>3, <1>4, <1>5, <1>7, <1>8, <1>10, Served
<1> QED BY <1>1, <1>9, <1>10

LEMMA WriteRepeatsAckInv ==
  ASSUME TInv, NEW m \in net, WriteRepeatsAck(m)
  PROVE  TInv' /\ (SInv => SInv')
<1> DEFINE p == m.port
           n == xfer[p].block
<1>1. /\ ToServer(m) /\ p \in Ports /\ xfer[p].st = "wr"
      /\ \/ CleanupWr(p, <<>>) /\ xfer' = Gone(p)
         \/ UNCHANGED <<xfer, file_SD, file_CR, store, clean>>
      /\ Exchange(m, {Ack(m.peer, p, n)})
      /\ UNCHANGED <<cl, wild>>
  BY DEF WriteRepeatsAck
<1>2. /\ xfer[p] \in XferType /\ xfer[p].peer = m.peer /\ n \in Nat /\ Takes(m, p)
      /\ xfer[p].st # "unused" /\ cl[m.peer].port = p /\ cl[m.peer].next \in Nat
      /\ m.peer \in Writers /\ n >= xfer[p].block
      /\ SInv => n \in {cl[m.peer].next - 1, cl[m.peer].next}
  BY <1>1, Received
<1>3. Answers(m, p, n, {Ack(m.peer, p, n)}) /\ {"gone", "wr"} \subseteq States \ {"unused"}
  BY <1>1, <1>2, AckAnswers DEF States
<1>4. CASE CleanupWr(p, <<>>) /\ xfer' = Gone(p)
  <2>1. Serves(m, p, "gone", n)
    BY <1>1, <1>2, <1>4, GoneServes
  <2>2. <<>> \in Seq(BlockType)
    OBVIOUS
  <2>3. /\ file_SD' \in FileType /\ file_CR' \in FileType /\ clean' \in [Ports -> BOOLEAN]
        /\ store' \in [Writers -> Seq(BlockType)] /\ wild' \in BOOLEAN
    BY <1>1, <1>4, <2>2, CleanupWrType DEF TInv, Typed
  <2> HIDE DEF n, p
  <2> QED BY <1>1, <1>2, <1>3, <2>1, <2>3, Served
<1>5. CASE UNCHANGED <<xfer, file_SD, file_CR, store, clean>>
  <2>1. Serves(m, p, "wr", n)
    BY <1>1, <1>2, <1>5 DEF Serves, TInv, Typed
  <2>2. /\ file_SD' \in FileType /\ file_CR' \in FileType /\ clean' \in [Ports -> BOOLEAN]
        /\ store' \in [Writers -> Seq(BlockType)] /\ wild' \in BOOLEAN
    BY <1>1, <1>5 DEF TInv, Typed
  <2> HIDE DEF n, p
  <2> QED BY <1>1, <1>2, <1>3, <2>1, <2>2, Served
<1> QED BY <1>1, <1>4, <1>5

\* Every receive callback keeps the types and the two ends in step.
LEMMA ServeInv ==
  ASSUME TInv, NEW m \in net, Serve(m)
  PROVE  TInv' /\ (SInv => SInv')
<1>1. CASE ServeNoPcb(m)
  BY <1>1, ServeNoPcbInv
<1>2. ASSUME NEW p \in Ports,
             \/ ServeUnknown(m, p) \/ ServeNoVolume(m, p) \/ ServeRefused(m, p)
             \/ ServeRead(m, p) \/ ServeWrite(m, p)
      PROVE  TInv' /\ (SInv => SInv')
  BY <1>2, ServeUnknownInv, ServeNoVolumeInv, ServeRefusedInv, ServeReadInv, ServeWriteInv
<1>3. CASE ReadEnds(m) \/ ReadContinues(m)
  BY <1>3, ReadEndsInv, ReadContinuesInv
<1>4. CASE WriteStores(m) \/ WriteEnds(m) \/ WriteFails(m) \/ WriteRepeatsAck(m)
  BY <1>4, WriteStoresInv, WriteEndsInv, WriteFailsInv, WriteRepeatsAckInv
<1>5. CASE NoReceiver(m)
  BY <1>5, NoReceiverInv
<1> QED BY <1>1, <1>2, <1>3, <1>4, <1>5 DEF Serve
-----------------------------------------------------------------------------
(* What a client does.                                                     *)

\* A step of client c that leaves its record r and sends out.
ClientStep(c, r, out) ==
  /\ cl' = [cl EXCEPT ![c] = r] /\ net' \subseteq net \cup out
  /\ UNCHANGED <<xfer, file_SD, file_CR, store, clean, wild>>

LEMMA ClientRoutes ==
  ASSUME TInv, NEW c \in Clients, NEW r \in ClType, NEW out, ClientStep(c, r, out),
         r.st # "idle", cl[c].port # 0 => r.port = cl[c].port,
         r.port # 0 => xfer[r.port].peer = c,
         c \in Writers => r.next <= Blocks + 1, r.port = 0 => r.next <= First(c),
         \A o \in out : o \in MsgType /\ Route(o)'
  PROVE  TInv'
<1> USE DEF ClientStep
<1>1. cl' \in [Clients -> ClType] /\ cl'[c] = r /\ \A d \in Clients \ {c} : cl'[d] = cl[d]
  BY DEF TInv, Typed
<1>2. Typed'
  BY <1>1 DEF TInv, Typed
<1>3. ASSUME NEW o \in net'
      PROVE  Route(o)'
  <2>1. CASE o \in out
    BY <2>1
  <2>2. CASE o \in net
    <3>1. Route(o) /\ o.peer \in Clients
      BY <2>2 DEF TInv, Typed, MsgType
    <3>2. o.type \in {"DATA", "ACK"} /\ ToServer(o) => cl'[o.peer].port = o.port
      BY <1>1, <3>1, Constants DEF Route
    <3> QED BY <3>1, <3>2 DEF Route, ToServer
  <2> QED BY <2>1, <2>2
<1>4. \A p \in Ports : Place(p)'
  BY DEF TInv, Place
<1>5. \A d \in Clients : Home(d)'
  BY <1>1 DEF TInv, Home, First
<1>6. \E k \in 0 .. MaxPort : UsedUpTo(k)'
  BY DEF TInv, UsedUpTo
<1> QED BY <1>2, <1>3, <1>4, <1>5, <1>6 DEF TInv

LEMMA ClientNumbers ==
  ASSUME TInv, SInv, NEW c \in Clients, NEW r \in ClType, NEW out, ClientStep(c, r, out),
         r.next >= cl[c].next,
         \A o \in out : Number(o)', \A p \in Ports : xfer[p].peer = c => Paired(p)'
  PROVE  SInv'
<1> USE DEF ClientStep
<1>1. cl' \in [Clients -> ClType] /\ cl'[c] = r /\ \A d \in Clients \ {c} : cl'[d] = cl[d]
  BY DEF TInv, Typed
<1>2. ASSUME NEW o \in net'
      PROVE  Number(o)'
  <2>1. CASE o \in out
    BY <2>1
  <2>2. CASE o \in net
    <3>1. Number(o) /\ o.peer \in Clients /\ o.blk \in Nat
      BY <2>2 DEF SInv, TInv, Typed, MsgType
    <3>2. cl[o.peer].next \in Nat /\ cl'[o.peer].next \in Nat
          /\ cl'[o.peer].next >= cl[o.peer].next
      BY <1>1, <3>1 DEF TInv, Typed, ClType
    <3> QED BY <3>1, <3>2 DEF Number, ToServer
  <2> QED BY <2>1, <2>2
<1>3. ASSUME NEW p \in Ports
      PROVE  Paired(p)'
  <2>1. CASE xfer[p].peer = c
    BY <2>1
  <2>2. CASE xfer[p].peer # c
    <3>1. Paired(p)
      BY DEF SInv
    <3> QED BY <1>1, <2>2, <3>1 DEF Paired, First
  <2> QED BY <2>1, <2>2
<1> QED BY <1>2, <1>3 DEF SInv

LEMMA StartInv ==
  ASSUME TInv, NEW c \in Clients, Start(c)
  PROVE  TInv' /\ (SInv => SInv')
<1> DEFINE old == cl[c]
           mid == [old EXCEPT !.st = "wait"]
           r == [mid EXCEPT !.next = First(c)]
           q == Msg(RequestOf(c), c, 69, 0, NoBlock)
<1>1. /\ cl' = [cl EXCEPT ![c] = r] /\ net' = net \cup {q} /\ old.st = "idle"
      /\ UNCHANGED <<xfer, file_SD, file_CR, store, clean, wild>>
  BY DEF Start, First, TInv, Typed
<1>2. old \in ClType
  BY DEF TInv, Typed
<1>3. mid \in ClType /\ mid.port = old.port /\ mid.next = old.next /\ mid.st = "wait"
  BY <1>2 DEF ClType
<1>4. First(c) \in Nat /\ (c \in Writers => First(c) = 0)
  BY Constants DEF First
<1> HIDE DEF mid
<1>5. r \in ClType /\ r.port = old.port /\ r.next = First(c) /\ r.st = "wait"
  BY <1>3, <1>4 DEF ClType
<1> HIDE DEF r
<1>6. q \in MsgType /\ q.type \in {"RRQ", "WRQ", "BAD"} /\ Route(q)' /\ Number(q)'
  BY Constants, NoBlockType DEF Msg, RequestOf, MsgType, Route, Number
<1> HIDE DEF q
<1>7. Home(c) /\ net' \subseteq net \cup {q}
  BY <1>1 DEF TInv
<1>8. old.port = 0 /\ old.next = 0
  BY <1>1, <1>7 DEF Home
<1>9. ASSUME SInv, NEW p \in Ports, xfer[p].peer = c
      PROVE  Paired(p)'
  <2>1. cl'[c] = r /\ xfer' = xfer
    BY <1>1 DEF TInv, Typed
  <2> QED BY <1>5, <1>8, <1>9, <2>1, Constants DEF SInv, Paired, First
<1>10. \A o \in {q} : o \in MsgType /\ Route(o)' /\ Number(o)'
  BY <1>6
<1>11. /\ c \in Writers => r.next <= Blocks + 1
       /\ r.next >= cl[c].next /\ (r.port = 0 => r.next <= First(c))
  BY <1>4, <1>5, <1>8, Constants
<1>12. cl[c].port = 0 /\ r.port = 0
  BY <1>5, <1>8
<1> HIDE DEF old
<1>13. ClientStep(c, r, {q})
  BY <1>1, <1>7 DEF ClientStep
<1>14. TInv'
  BY <1>5, <1>10, <1>11, <1>12, <1>13, ClientRoutes
<1>15. SInv => SInv'
  BY <1>5, <1>9, <1>10, <1>11, <1>12, <1>13, ClientNumbers
<1> QED BY <1>14, <1>15

\* A client that stays where it is: it dies, or is told of an error.
LEMMA ClientStops ==
  ASSUME TInv, NEW c \in Clients, NEW st \in {"done", "failed", "dead"},
         cl' = [cl EXCEPT ![c].st = st], net' \subseteq net,
         UNCHANGED <<xfer, file_SD, file_CR, store, clean, wild>>
  PROVE  TInv' /\ (SInv => SInv')
<1> DEFINE old == cl[c]
           r == [old EXCEPT !.st = st]
<1>1. cl' = [cl EXCEPT ![c] = r] /\ net' \subseteq net \cup {}
  OBVIOUS
<1>2. old \in ClType /\ Home(c)
  BY DEF TInv, Typed
<1>3. r \in ClType /\ r.st = st /\ r.port = old.port /\ r.next = old.next
  BY <1>2 DEF ClType
<1> HIDE DEF r
<1>4. old.next \in Nat
  BY <1>2 DEF ClType
<1>5. /\ r.st # "idle" /\ (cl[c].port # 0 => r.port = cl[c].port)
      /\ r.port # 0 => xfer[r.port].peer = c
      /\ c \in Writers => r.next <= Blocks + 1
      /\ r.port = 0 => r.next <= First(c)
  BY <1>2, <1>3 DEF Home
<1>6. ASSUME SInv, NEW p \in Ports, xfer[p].peer = c
      PROVE  Paired(p)'
  <2>1. cl'[c] = r /\ xfer' = xfer
    BY <1>1 DEF TInv, Typed
  <2> QED BY <1>3, <1>6, <2>1 DEF SInv, Paired, First
<1>7. r.next >= cl[c].next
  BY <1>3, <1>4
<1> HIDE DEF old
<1>8. ClientStep(c, r, {})
  BY <1>1 DEF ClientStep
<1>9. TInv'
  BY <1>3, <1>5, <1>8, ClientRoutes
<1>10. SInv => SInv'
  BY <1>3, <1>6, <1>7, <1>8, ClientNumbers
<1> QED BY <1>9, <1>10

LEMMA DieInv ==
  ASSUME TInv, NEW c \in Clients, Die(c)
  PROVE  TInv' /\ (SInv => SInv')
BY ClientStops DEF Die

LEMMA ClientErrorInv ==
  ASSUME TInv, NEW c \in Clients, NEW m \in net, ClientError(c, m)
  PROVE  TInv' /\ (SInv => SInv')
<1>1. net' \subseteq net
  BY ExchangeAdds DEF ClientError
<1> QED BY <1>1, ClientStops DEF ClientError

LEMMA ClientIgnoresInv ==
  ASSUME TInv, NEW c \in Clients, NEW m \in net, ClientIgnores(c, m)
  PROVE  TInv' /\ (SInv => SInv')
<1>1. Exchange(m, {}) /\ UNCHANGED <<xfer, file_SD, file_CR, store, cl, clean, wild>>
  BY DEF ClientIgnores
<1>2. /\ file_SD' \in FileType /\ file_CR' \in FileType /\ clean' \in [Ports -> BOOLEAN]
      /\ store' \in [Writers -> Seq(BlockType)] /\ wild' \in BOOLEAN
  BY <1>1 DEF TInv, Typed
<1> QED BY <1>1, <1>2, DroppedRoutes, DroppedNumbers

\* The client settles on the port of m and goes on to its next number.
LEMMA ClientAdvances ==
  ASSUME TInv, NEW c \in Clients, NEW m \in net, Mine(c, m), ~ToServer(m),
         m.type \in {"DATA", "ACK"}, NEW r \in ClType, r.st # "idle",
         r.port = m.port, r.next = cl[c].next + 1,
         c \in Writers => r.next <= Blocks + 1, m.blk = cl[c].next % BlockMod,
         NEW o \in MsgType, o.type \in {"DATA", "ACK"}, ToServer(o), o.peer = c,
         o.port = m.port, IF o.type = "ACK" THEN o.blk < r.next ELSE o.blk <= r.next,
         ClientStep(c, r, {o})
  PROVE  TInv' /\ (SInv /\ NoWrap => SInv')
<1>1. /\ m \in MsgType /\ m.peer = c /\ m.port \in Ports /\ xfer[m.port].peer = c
      /\ cl[c].port \in {0, m.port} /\ c \in Readers \cup Writers /\ cl[c] \in ClType
  BY DEF TInv, Typed, Route, Mine
<1>2. m.port # 0 /\ cl[c].next \in Nat /\ xfer[m.port].block \in Nat
  BY <1>1, Constants DEF TInv, Typed, ClType, XferType
<1>3. cl'[c] = r /\ xfer' = xfer
  BY DEF TInv, Typed, ClientStep
<1>4. \A x \in {o} : x \in MsgType /\ Route(x)' /\ Number(x)'
  BY <1>1, <1>3 DEF Route, Number, ToServer
<1>5. TInv'
  BY <1>1, <1>2, <1>4, ClientRoutes
<1>6. ASSUME SInv, NoWrap, NEW p \in Ports, xfer[p].peer = c
      PROVE  Paired(p)'
  <2>1. Paired(p) /\ Home(c)
    BY <1>6 DEF SInv, TInv
  <2>2. CASE p = m.port
    <3>1. m.blk = cl[c].next
      BY <1>2, <1>6, ModRange DEF NoWrap
    <3>2. cl[c].next <= xfer[p].block
      BY <1>1, <1>6, <2>2, <3>1 DEF SInv, Number
    <3>3. xfer[p].block \in {cl[c].next, cl[c].next + 1}
      BY <1>1, <1>2, <1>6, <2>1, <2>2, <3>2 DEF Paired, Home, First
    <3> QED BY <1>2, <1>3, <1>6, <2>2, <3>3 DEF Paired
  <2>3. CASE p # m.port
    <3>1. xfer[p].block <= First(c)
      BY <1>1, <1>6, <2>1, <2>3, Constants DEF Paired
    <3> QED BY <1>3, <1>6, <2>3, <3>1 DEF Paired, First
  <2> QED BY <2>2, <2>3
<1>7. r.next >= cl[c].next
  BY <1>2
<1>8. SInv /\ NoWrap => SInv'
  BY <1>4, <1>6, <1>7, ClientNumbers
<1> QED BY <1>5, <1>8

LEMMA ClientDataInv ==
  ASSUME TInv, NEW c \in Clients, NEW m \in net, ClientData(c, m)
  PROVE  TInv' /\ (SInv /\ NoWrap => SInv')
<1> DEFINE old == cl[c]
           got == IF m.data = NoBlock THEN old.got ELSE Append(old.got, m.data)
           st == IF Short(m.data) THEN "done" ELSE old.st
           a == [old EXCEPT !.port = m.port]
           b == [a EXCEPT !.next = old.next + 1]
           d == [b EXCEPT !.got = got]
           r == [d EXCEPT !.st = st]
<1>1. /\ c \in Readers /\ m.type = "DATA" /\ Mine(c, m) /\ m \in MsgType /\ old \in ClType
      /\ m.peer = c /\ m.port \in Ports /\ xfer[m.port].peer = c /\ old.st = "wait"
      /\ UNCHANGED <<xfer, file_SD, file_CR, store, clean, wild>>
  BY DEF ClientData, TInv, Typed, Mine, Route, Active
<1>2. ~ToServer(m) /\ c \notin Writers /\ old.next \in Nat /\ old.port \in {0, m.port}
  BY <1>1, Constants DEF ToServer, ClType, Mine
<1>3. CASE /\ m.blk = old.next % BlockMod
           /\ cl' = [cl EXCEPT ![c].port = m.port, ![c].next = @ + 1,
                               ![c].got = IF m.data = NoBlock THEN @ ELSE Append(@, m.data),
                               ![c].st = IF Short(m.data) THEN "done" ELSE @]
           /\ Exchange(m, {Ack(c, m.port, old.next)})
  <2>1. cl' = [cl EXCEPT ![c] = r]
    BY <1>3 DEF TInv, Typed
  <2>2. got \in Seq(BlockType)
    BY <1>1 DEF MsgType, ClType
  <2>3. st \in {"wait", "done"}
    BY <1>1
  <2> HIDE DEF got, st
  <2>4. a \in ClType /\ a.port = m.port
    BY <1>1 DEF ClType
  <2> HIDE DEF a
  <2>5. b \in ClType /\ b.port = m.port /\ b.next = old.next + 1
    BY <1>2, <2>4 DEF ClType
  <2> HIDE DEF b
  <2>6. d \in ClType /\ d.port = m.port /\ d.next = old.next + 1
    BY <2>2, <2>5 DEF ClType
  <2> HIDE DEF d
  <2>7. r \in ClType /\ r.port = m.port /\ r.next = old.next + 1 /\ r.st # "idle"
    BY <2>3, <2>6 DEF ClType
  <2> HIDE DEF r
  <2> DEFINE o == Ack(c, m.port, old.next)
  <2>8. /\ o \in MsgType /\ o.type = "ACK" /\ o.peer = c /\ o.port = m.port
        /\ o.blk = old.next % BlockMod
    BY <1>1, <1>2, AckType
  <2>9. ClientStep(c, r, {o})
    BY <1>1, <1>3, <2>1, ExchangeAdds DEF ClientStep
  <2> HIDE DEF o
  <2>10. ToServer(o) /\ o.blk < r.next
    <3>1. old.next % BlockMod \in Nat /\ old.next % BlockMod <= old.next
      BY <1>2, ModRange, Constants
    <3> QED BY <1>1, <1>2, <2>7, <2>8, <3>1 DEF ToServer
  <2> QED BY <1>1, <1>2, <1>3, <2>7, <2>8, <2>9, <2>10, ClientAdvances
<1>4. CASE /\ m.blk = (old.next - 1) % BlockMod /\ old.next > 1
           /\ Exchange(m, {Ack(c, m.port, old.next - 1)})
           /\ UNCHANGED cl
  <2> DEFINE o == Ack(c, m.port, old.next - 1)
             n == old.next - 1
  <2>1. n \in Nat
    BY <1>2, <1>4
  <2>2. /\ o \in MsgType /\ o.type = "ACK" /\ o.peer = c /\ o.port = m.port
        /\ o.blk <= n
    BY <1>1, <2>1, AckType, ModRange
  <2>3. old.port = m.port
    BY <1>1, <1>2, <1>4 DEF TInv, Home, First
  <2>4. ClientStep(c, old, {o})
    <3>1. cl' = [cl EXCEPT ![c] = old]
      BY <1>4 DEF TInv, Typed
    <3> QED BY <1>1, <1>4, <3>1, ExchangeAdds DEF ClientStep
  <2>5. o.blk \in Nat /\ o.blk < cl[c].next
    BY <1>2, <2>1, <2>2, Constants DEF MsgType
  <2> HIDE DEF o
  <2>6. \A x \in {o} : x \in MsgType /\ Route(x)' /\ Number(x)'
    BY <1>1, <1>2, <1>4, <2>2, <2>3, <2>5 DEF Route, Number, ToServer
  <2>7. Home(c) /\ old.st # "idle" /\ old.port # 0
    BY <1>1, <2>3, Constants DEF TInv
  <2>8. TInv'
    BY <1>1, <1>2, <2>4, <2>6, <2>7, ClientRoutes DEF Home
  <2>9. ASSUME SInv, NEW p \in Ports, xfer[p].peer = c
        PROVE  Paired(p)'
    BY <1>1, <1>4, <2>9 DEF SInv, Paired, First
  <2>10. SInv => SInv'
    BY <1>1, <1>2, <2>4, <2>6, <2>9, ClientNumbers
  <2> QED BY <2>8, <2>10
<1> QED BY <1>3, <1>4 DEF ClientData

LEMMA ClientAckInv ==
  ASSUME TInv, NEW c \in Clients, NEW m \in net, ClientAck(c, m)
  PROVE  TInv' /\ (SInv /\ NoWrap => SInv')
<1> DEFINE old == cl[c]
           n == old.next + 1
           a == [old EXCEPT !.port = m.port]
           r == [a EXCEPT !.next = n]
<1>1. /\ c \in Writers /\ m.type = "ACK" /\ Mine(c, m) /\ m \in MsgType /\ old \in ClType
      /\ m.peer = c /\ m.port \in Ports /\ old.st = "wait" /\ old.next <= Blocks + 1
      /\ m.blk = old.next % BlockMod
      /\ UNCHANGED <<xfer, file_SD, file_CR, store, clean, wild>>
  BY DEF ClientAck, TInv, Typed, Mine, Route, Active, Home
<1>2. ~ToServer(m) /\ c \notin Readers /\ old.next \in Nat /\ n \in Nat
  BY <1>1, Constants DEF ToServer, ClType
<1>3. CASE cl' = [cl EXCEPT ![c].st = "done"] /\ Exchange(m, {})
  <2>1. net' \subseteq net
    BY <1>3, ExchangeAdds
  <2> QED BY <1>1, <1>3, <2>1, ClientStops
<1>4. CASE /\ old.next # Blocks + 1
           /\ cl' = [cl EXCEPT ![c].port = m.port, ![c].next = @ + 1]
           /\ Exchange(m, {Data(c, m.port, n, Block(c, n))})
  <2> DEFINE o == Data(c, m.port, n, Block(c, n))
  <2>1. cl' = [cl EXCEPT ![c] = r]
    BY <1>4 DEF TInv, Typed
  <2>2. a \in ClType /\ a.port = m.port /\ a.st = "wait"
    BY <1>1 DEF ClType
  <2>3. Block(c, n) \in BlockType
    BY <1>1, <1>2, <1>4, Constants DEF Block, BlockType
  <2>4. /\ o \in MsgType /\ o.type = "DATA" /\ o.peer = c /\ o.port = m.port
        /\ o.blk <= n
    BY <1>1, <1>2, <2>3, DataType, ModRange
  <2> HIDE DEF a
  <2>5. n <= Blocks + 1
    BY <1>1, <1>2, <1>4, Constants
  <2>6. r \in ClType /\ r.port = m.port /\ r.next = n /\ r.st = "wait"
    BY <1>2, <2>2 DEF ClType
  <2> HIDE DEF r
  <2>7. ClientStep(c, r, {o})
    BY <1>1, <1>4, <2>1, ExchangeAdds DEF ClientStep
  <2> HIDE DEF o
  <2>8. ToServer(o)
    BY <1>1, <2>4 DEF ToServer
  <2> QED BY <1>1, <1>2, <2>4, <2>5, <2>6, <2>7, <2>8, ClientAdvances
<1> QED BY <1>3, <1>4 DEF ClientAck

LEMMA NextInv == TInv /\ [Next]_vars => TInv' /\ (SInv /\ NoWrap => SInv')
<1> SUFFICES ASSUME TInv, [Next]_vars PROVE TInv' /\ (SInv /\ NoWrap => SInv')
  OBVIOUS
<1>1. ASSUME NEW m \in net, Serve(m)
      PROVE  TInv' /\ (SInv => SInv')
  BY <1>1, ServeInv
<1>2. ASSUME NEW c \in Clients, Start(c) \/ Die(c)
      PROVE  TInv' /\ (SInv => SInv')
  BY <1>2, StartInv, DieInv
<1>3. ASSUME NEW c \in Clients, Client(c)
      PROVE  TInv' /\ (SInv /\ NoWrap => SInv')
  BY <1>3, ClientDataInv, ClientAckInv, ClientErrorInv, ClientIgnoresInv DEF Client
<1>4. CASE UNCHANGED vars
  <2>1. UNCHANGED <<xfer, file_SD, file_CR, store, net, cl, clean, wild>>
    BY <1>4 DEF vars
  <2>2. TInv'
    BY <2>1 DEF TInv, Typed, Route, ToServer, Place, Home, First, UsedUpTo
  <2>3. SInv => SInv'
    BY <2>1 DEF SInv, Number, ToServer, Paired, First
  <2> QED BY <2>2, <2>3
<1> QED BY <1>1, <1>2, <1>3, <1>4 DEF Next, Server
-----------------------------------------------------------------------------
(* Undisturbed writers.                                                    *)

\* A callback that works on the files marks every other transfer disturbed.
LEMMA TouchedLeaves ==
  ASSUME TInv, NEW p \in Ports, Touched(p), wild' = wild, ~wild,
         \A q \in Ports \ {p} : xfer'[q] = xfer[q],
         xfer'[p].st = "wr" /\ clean'[p] => file_CR'.valid
  PROVE  WInv'
<1>1. ASSUME NEW q \in Ports, xfer'[q].st = "wr", clean'[q]
      PROVE  file_CR'.valid
  <2>1. CASE q = p
    BY <1>1, <2>1
  <2>2. CASE q # p
    BY <1>1, <2>2 DEF Touched, Held
  <2> QED BY <2>1, <2>2
<1> QED BY <1>1 DEF WInv, WildNeedsRival

\* One that does not leaves the undisturbed writers their file.
LEMMA UntouchedLeaves ==
  ASSUME WInv, UNCHANGED <<file_CR, clean, wild>>,
         \A q \in Ports : xfer'[q].st = "wr" => xfer[q].st = "wr"
  PROVE  WInv'
BY DEF WInv, WildNeedsRival

LEMMA RequestWInv ==
  ASSUME TInv, WInv, NEW m \in net, NEW p \in Ports,
         \/ ServeUnknown(m, p) \/ ServeNoVolume(m, p) \/ ServeRefused(m, p)
         \/ ServeRead(m, p) \/ ServeWrite(m, p)
  PROVE  WInv'
<1>1. xfer \in [Ports -> XferType]
  BY DEF TInv, Typed
<1>2. CASE ServeUnknown(m, p)
  BY <1>1, <1>2, UntouchedLeaves DEF ServeUnknown, FreePort
<1>3. CASE ServeNoVolume(m, p) \/ ServeRefused(m, p)
  <2>1. PICK st \in {"stuck", "gone"} :
          xfer' = [xfer EXCEPT ![p] = [FreePort EXCEPT !.st = st, !.peer = m.peer]]
    BY <1>3 DEF ServeNoVolume, ServeRefused
  <2>2. xfer'[p].st # "wr" /\ \A q \in Ports \ {p} : xfer'[q] = xfer[q]
    BY <1>1, <2>1 DEF FreePort
  <2>3. Touched(p) /\ wild' = wild /\ ~wild
    BY <1>3 DEF ServeNoVolume, ServeRefused
  <2> QED BY <2>2, <2>3, TouchedLeaves
<1>4. CASE ServeRead(m, p)
  BY <1>1, <1>4, TouchedLeaves DEF ServeRead, SendNextBlock, FreePort
<1>5. CASE ServeWrite(m, p)
  BY <1>1, <1>5, TouchedLeaves DEF ServeWrite, Opened, Closed
<1> QED BY <1>2, <1>3, <1>4, <1>5

LEMMA DatagramWInv ==
  ASSUME TInv, WInv, NEW m \in net,
         \/ ServeNoPcb(m) \/ NoReceiver(m) \/ ReadEnds(m) \/ ReadContinues(m)
         \/ WriteStores(m) \/ WriteEnds(m) \/ WriteFails(m) \/ WriteRepeatsAck(m)
  PROVE  WInv'
<1>1. xfer \in [Ports -> XferType] /\ clean \in [Ports -> BOOLEAN] /\ file_CR \in FileType
  BY DEF TInv, Typed
<1>2. CASE ServeNoPcb(m) \/ NoReceiver(m)
  BY <1>2, UntouchedLeaves DEF ServeNoPcb, NoReceiver
<1>3. CASE ReadEnds(m)
  BY <1>1, <1>3, TouchedLeaves DEF ReadEnds, CleanupRd, Gone
<1>4. CASE ReadContinues(m)
  BY <1>1, <1>4, TouchedLeaves DEF ReadContinues, SendNextBlock
<1>5. CASE WriteStores(m)
  <2>1. file_CR'.valid
    BY <1>1, <1>5 DEF WriteStores, FileType
  <2>2. /\ m.port \in Ports /\ Touched(m.port) /\ wild' = wild /\ ~wild
        /\ xfer' = [xfer EXCEPT ![m.port].block = @ + 1]
    BY <1>5 DEF WriteStores
  <2>3. \A q \in Ports \ {m.port} : xfer'[q] = xfer[q]
    BY <1>1, <2>2
  <2> QED BY <2>1, <2>2, <2>3, TouchedLeaves
<1>6. CASE WriteEnds(m)
  BY <1>1, <1>6, TouchedLeaves DEF WriteEnds, CleanupWr, Gone
<1>7. CASE WriteRepeatsAck(m)
  <2>1. CASE UNCHANGED <<xfer, file_SD, file_CR, store, clean>>
    BY <1>7, <2>1, UntouchedLeaves DEF WriteRepeatsAck
  <2>2. CASE CleanupWr(m.port, <<>>) /\ xfer' = Gone(m.port)
    BY <1>1, <1>7, <2>2, TouchedLeaves DEF WriteRepeatsAck, CleanupWr, Gone
  <2> QED BY <1>7, <2>1, <2>2 DEF WriteRepeatsAck
<1>8. CASE WriteFails(m)
  <2>1. wild' /\ m.port \in Ports /\ clean' = [q \in Ports |-> clean[q] /\ (q = m.port \/ ~Held(q))]
    BY <1>8 DEF WriteFails, CleanupWr, Touched
  <2>2. ~DiskFills => ~clean[m.port]
    BY <1>8 DEF WriteFails, WInv
  <2> QED BY <2>1, <2>2 DEF WInv, WildNeedsRival
<1> QED BY <1>2, <1>3, <1>4, <1>5, <1>6, <1>7, <1>8

LEMMA NextWInv == TInv /\ WInv /\ [Next]_vars => WInv'
<1> SUFFICES ASSUME TInv, WInv, [Next]_vars PROVE WInv'
  OBVIOUS
<1>1. ASSUME NEW m \in net, Serve(m)
      PROVE  WInv'
  BY <1>1, RequestWInv, DatagramWInv DEF Serve
<1>2. CASE UNCHANGED <<xfer, file_CR, clean, wild>>
  BY <1>2, UntouchedLeaves
<1>3. ASSUME NEW c \in Clients, Start(c) \/ Die(c) \/ Client(c)
      PROVE  UNCHANGED <<xfer, file_CR, clean, wild>>
  BY <1>3 DEF Start, Die, Client, ClientData, ClientAck, ClientError, ClientIgnores
<1> QED BY <1>1, <1>2, <1>3 DEF Next, Server, vars
-----------------------------------------------------------------------------
(* Theorems.                                                               *)

(* Whatever is lost, repeated or late, whoever dies and whatever fails, a  *)
(* datagram goes to the client and the port of one transfer.               *)
THEOREM TftpTyped == Spec => []TInv
<1>1. TInv /\ [Next]_vars => TInv'
  BY NextInv
<1> QED BY <1>1, InitTInv, PTL DEF Spec

(* The server's and the clients' records keep their types, and port,       *)
(* client and number of every datagram (tftp_connection_args).             *)
THEOREM TftpTypeCorrect == Spec => []TypeOK
<1>1. TInv => TypeOK
  BY TypedTypeOK DEF TInv
<1> QED BY <1>1, TftpTyped, PTL

(* While no block number has come to 2^16, the number the server works on  *)
(* (args->block) is the client's or the one before it: the next datagram   *)
(* of either end is never one the other takes for a different block.       *)
THEOREM StaysInStep == Spec /\ []NoWrap => []InStep
<1>1. TInv /\ SInv => InStep
  <2> SUFFICES ASSUME TInv, SInv, NEW c \in Readers \cup Writers, cl[c].port # 0
               PROVE  xfer[cl[c].port].block \in {cl[c].next - 1, cl[c].next}
    BY DEF InStep
  <2>1. c \in Clients /\ cl[c].port \in Ports /\ xfer[cl[c].port].peer = c
    BY Constants DEF TInv, Typed, ClType, Home
  <2> QED BY <2>1 DEF SInv, Paired
<1>2. TInv /\ SInv /\ NoWrap /\ [Next]_vars => SInv'
  BY NextInv
<1> QED BY <1>1, <1>2, InitSInv, TftpTyped, PTL DEF Spec

(* wrq_recv_callback goes on with what it freed only when the disk is full *)
(* or some other transfer remounted the volume under the writer's file.    *)
THEOREM WildOnlyByRival == Spec => []WildNeedsRival
<1>1. WInv => WildNeedsRival
  BY DEF WInv
<1> QED BY <1>1, NextWInv, InitWInv, TftpTyped, PTL DEF Spec
-----------------------------------------------------------------------------
(* The files.                                                              *)

Request(m) == m.type \in {"RRQ", "WRQ", "BAD"}

\* A client asks once and is given one port.
Once ==
  /\ \A m \in net : Request(m) =>
       /\ cl[m.peer].st # "idle"
       /\ \A p \in Ports : xfer[p].peer # m.peer
       /\ \A o \in net : Request(o) /\ o.peer = m.peer => o = m
  /\ \A p, q \in Ports : xfer[p].peer = xfer[q].peer /\ xfer[p].peer \in Clients => p = q
  /\ \A p \in Ports : xfer[p].peer \in Clients => cl[xfer[p].peer].st # "idle"

\* A port that has acknowledged something: it writes, or it has written.
Answered(p) == xfer[p].st = "wr" \/ (xfer[p].st = "gone" /\ xfer[p].block > 0)

\* A good file_CR is the file of a transfer that goes on.
OwnerKept ==
  file_CR.valid => \E q \in Ports : xfer[q].st = "wr" /\ xfer[q].peer = file_CR.of

\* The blocks counted are the blocks in the file, open or closed.
PortKept(p) ==
  LET c == xfer[p].peer IN
    c \in Writers =>
      /\ xfer[p].st = "wr" => xfer[p].block <= Blocks
      /\ xfer[p].st = "wr" /\ clean[p] =>
           /\ file_CR.valid /\ file_CR.of = c
           /\ file_CR.data = SubSeq(FileOf(c), 1, xfer[p].block)
      /\ xfer[p].st = "gone" /\ xfer[p].block > 0 /\ clean[p] => store[c] = FileOf(c)

\* A DATA packet carries the block its number says.
MsgKept(m) ==
  m.peer \in Writers =>
    /\ m.type = "ACK" => Answered(m.port)
    /\ m.type = "DATA" => m.blk >= 1 /\ m.data = Block(m.peer, m.blk)

ClKept(c) ==
  /\ cl[c].port # 0 => Answered(cl[c].port)
  /\ cl[c].st = "done" => cl[c].port # 0 /\ xfer[cl[c].port].block > Blocks

Kept ==
  /\ OwnerKept
  /\ \A p \in Ports : PortKept(p)
  /\ \A m \in net : MsgKept(m)
  /\ \A c \in Writers : ClKept(c)
-----------------------------------------------------------------------------
(* Which actions change what.                                              *)

\* The request m takes port p.
Asks(m, p, out) ==
  /\ Request(m) /\ xfer[p].st = "unused" /\ xfer[p].peer = "none"
  /\ xfer'[p].peer = m.peer /\ cl' = cl
  /\ \A q \in Ports \ {p} : xfer'[q] = xfer[q]
  /\ Exchange(m, out) /\ \A o \in out : ~Request(o)

LEMMA RequestAsks ==
  ASSUME TInv, NEW m \in net, NEW p \in Ports,
         \/ ServeUnknown(m, p) \/ ServeNoVolume(m, p) \/ ServeRefused(m, p)
         \/ ServeRead(m, p) \/ ServeWrite(m, p)
  PROVE  \E out : Asks(m, p, out)
<1>1. xfer \in [Ports -> XferType]
  BY DEF TInv, Typed
<1>2. CASE ServeUnknown(m, p)
  <2>1. Asks(m, p, {Error(m.peer, p)})
    BY <1>1, <1>2, NewPcbUnused DEF ServeUnknown, Asks, Request, FreePort, Error, Msg
  <2> QED BY <2>1
<1>3. CASE ServeNoVolume(m, p)
  <2>1. Asks(m, p, {})
    BY <1>1, <1>3, NewPcbUnused DEF ServeNoVolume, Asks, Request, FreePort
  <2> QED BY <2>1
<1>4. CASE ServeRefused(m, p)
  <2>1. Asks(m, p, {Error(m.peer, p)})
    BY <1>1, <1>4, NewPcbUnused DEF ServeRefused, Asks, Request, FreePort, Error, Msg
  <2> QED BY <2>1
<1>5. CASE ServeRead(m, p)
  <2>1. Asks(m, p, {Data(m.peer, p, 1, ReadBlock(Opened(m.peer)))})
    BY <1>1, <1>5, NewPcbUnused
    DEF ServeRead, SendNextBlock, Asks, Request, FreePort, Data, Msg
  <2> QED BY <2>1
<1>6. CASE ServeWrite(m, p)
  <2>1. Asks(m, p, {Ack(m.peer, p, 0)})
    BY <1>1, <1>6, NewPcbUnused DEF ServeWrite, Asks, Request, FreePort, Ack, Msg
  <2> QED BY <2>1
<1> QED BY <1>2, <1>3, <1>4, <1>5, <1>6

\* A datagram of a transfer, or one nobody takes, leaves the ports with their clients.
SamePeers(p, out) ==
  /\ p \in Ports => xfer'[p].peer = xfer[p].peer
  /\ \A q \in Ports \ {p} : xfer'[q] = xfer[q]
  /\ cl' = cl /\ net' \subseteq net \cup out
  /\ \A o \in out : ~Request(o)

LEMMA DatagramSamePeers ==
  ASSUME TInv, NEW m \in net,
         \/ ServeNoPcb(m) \/ NoReceiver(m) \/ ReadEnds(m) \/ ReadContinues(m)
         \/ WriteStores(m) \/ WriteEnds(m) \/ WriteFails(m) \/ WriteRepeatsAck(m)
  PROVE  \E out : SamePeers(m.port, out)
<1>1. xfer \in [Ports -> XferType]
  BY DEF TInv, Typed
<1> DEFINE p == m.port
<1>2. CASE ServeNoPcb(m) \/ NoReceiver(m)
  <2>1. SamePeers(p, {})
    BY <1>2, ExchangeAdds DEF ServeNoPcb, NoReceiver, SamePeers
  <2> QED BY <2>1
<1>3. CASE ReadEnds(m)
  <2>1. SamePeers(p, {})
    BY <1>1, <1>3, ExchangeAdds DEF ReadEnds, Gone, SamePeers, XferType
  <2> QED BY <2>1
<1>4. CASE ReadContinues(m)
  <2>1. SamePeers(p, {Data(m.peer, p, NumberAfter(m, xfer[p].block), ReadBlock(file_SD))})
    <3> DEFINE n == NumberAfter(m, xfer[p].block)
               b == ReadBlock(file_SD)
    <3>1. /\ p \in Ports /\ cl' = cl
          /\ xfer' = [xfer EXCEPT ![p].block = n, ![p].short = Short(b)]
          /\ Exchange(m, {Data(m.peer, p, n, b)})
      BY <1>4 DEF ReadContinues, SendNextBlock
    <3>2. ~Request(Data(m.peer, p, n, b)) /\ net' \subseteq net \cup {Data(m.peer, p, n, b)}
      BY <3>1, ExchangeAdds DEF Request, Data, Msg
    <3> HIDE DEF n, b
    <3>3. xfer'[p].peer = xfer[p].peer /\ \A q \in Ports \ {p} : xfer'[q] = xfer[q]
      BY <1>1, <3>1 DEF XferType
    <3> QED BY <3>1, <3>2, <3>3 DEF SamePeers, n, b
  <2> QED BY <2>1
<1>5. CASE WriteStores(m)
  <2>1. SamePeers(p, {Ack(m.peer, p, xfer[p].block + 1)})
    BY <1>1, <1>5, ExchangeAdds DEF WriteStores, SamePeers, XferType, Request, Ack, Msg
  <2> QED BY <2>1
<1>6. CASE WriteEnds(m)
  <2>1. SamePeers(p, {Ack(m.peer, p, xfer[p].block + 1)})
    BY <1>1, <1>6, ExchangeAdds DEF WriteEnds, Gone, SamePeers, XferType, Request, Ack, Msg
  <2> QED BY <2>1
<1>7. CASE WriteFails(m)
  <2>1. SamePeers(p, {Error(m.peer, p), Ack(m.peer, p, xfer[p].block + 1)})
    <3>1. net' \subseteq net \cup {Error(m.peer, p), Ack(m.peer, p, xfer[p].block + 1)}
      BY <1>7, ExchangeAdds DEF WriteFails
    <3>2. ~Request(Error(m.peer, p)) /\ ~Request(Ack(m.peer, p, xfer[p].block + 1))
      BY DEF Request, Error, Ack, Msg
    <3>3. p \in Ports /\ cl' = cl /\ xfer' = [Gone(p) EXCEPT ![p].block = @ + 1]
      BY <1>7 DEF WriteFails
    <3>4. xfer'[p].peer = xfer[p].peer /\ \A q \in Ports \ {p} : xfer'[q] = xfer[q]
      BY <1>1, <3>3 DEF Gone, XferType
    <3> QED BY <3>1, <3>2, <3>3, <3>4 DEF SamePeers
  <2> QED BY <2>1
<1>8. CASE WriteRepeatsAck(m)
  <2>1. SamePeers(p, {Ack(m.peer, p, xfer[p].block)})
    BY <1>1, <1>8, ExchangeAdds
    DEF WriteRepeatsAck, Gone, SamePeers, XferType, Request, Ack, Msg
  <2> QED BY <2>1
<1> QED BY <1>2, <1>3, <1>4, <1>5, <1>6, <1>7, <1>8
-----------------------------------------------------------------------------
(* One request and one port for a client.                                  *)

LEMMA AskedOnce ==
  ASSUME TInv, Once, "REQ" \notin Repeats, NEW m \in net, NEW p \in Ports, NEW out, Asks(m, p, out)
  PROVE  Once'
<1>1. m.peer \in Clients /\ net' \subseteq (net \ {m}) \cup out
  BY DEF TInv, Typed, MsgType, Asks, Request, Exchange, KindOf
<1>2. ASSUME NEW o \in net', Request(o)
      PROVE  /\ o \in net /\ o.peer # m.peer /\ cl[o.peer].st # "idle"
             /\ \A q \in Ports : xfer'[q].peer # o.peer
             /\ \A s \in net' : Request(s) /\ s.peer = o.peer => s = o
  <2>1. /\ \A s \in net' : Request(s) => s \in net \ {m}
        /\ Request(m)
    BY <1>1 DEF Asks
  <2>2. o \in net /\ o # m /\ o.peer # m.peer
    BY <1>2, <2>1 DEF Once
  <2> QED BY <1>2, <2>1, <2>2 DEF Once, Asks
<1>3. ASSUME NEW q \in Ports, NEW s \in Ports,
             xfer'[q].peer = xfer'[s].peer, xfer'[q].peer \in Clients
      PROVE  q = s
  BY <1>1, <1>3 DEF Once, Asks
<1>4. ASSUME NEW q \in Ports, xfer'[q].peer \in Clients
      PROVE  cl'[xfer'[q].peer].st # "idle"
  BY <1>1, <1>4 DEF Once, Asks
<1> QED BY <1>2, <1>3, <1>4 DEF Once, Asks, Request

\* The datagrams sent are no requests.
Adds(out) == net' \subseteq net \cup out /\ \A o \in out : ~Request(o)

LEMMA OnceStays ==
  ASSUME Once, \A p \in Ports : xfer'[p].peer = xfer[p].peer,
         \A c \in Clients : cl[c].st # "idle" => cl'[c].st # "idle",
         net \subseteq MsgType,
         NEW out, Adds(out)
  PROVE  Once'
<1>1. \A m \in net' : Request(m) => m \in net /\ m.peer \in Clients
  BY DEF MsgType, Adds
<1> QED BY <1>1 DEF Once, Request

LEMMA NextOnce ==
  ASSUME "REQ" \notin Repeats, TInv, Once, [Next]_vars
  PROVE  Once'
<1>0. net \subseteq MsgType /\ cl \in [Clients -> ClType]
  BY DEF TInv, Typed
<1>1. ASSUME NEW m \in net, Serve(m)
      PROVE  Once'
  <2>1. CASE \E p \in Ports : \E out : Asks(m, p, out)
    BY <2>1, AskedOnce
  <2>2. CASE \E out : SamePeers(m.port, out)
    <3>1. PICK out : SamePeers(m.port, out)
      BY <2>2
    <3>2. \A p \in Ports : xfer'[p].peer = xfer[p].peer
      BY <3>1 DEF SamePeers
    <3>3. Adds(out) /\ cl' = cl
      BY <3>1 DEF SamePeers, Adds
    <3> QED BY <1>0, <3>2, <3>3, OnceStays
  <2> QED BY <1>1, <2>1, <2>2, RequestAsks, DatagramSamePeers DEF Serve
<1>2. ASSUME NEW c \in Clients, Start(c)
      PROVE  Once'
  <2> DEFINE o == Msg(RequestOf(c), c, 69, 0, NoBlock)
  <2>1. /\ cl[c].st = "idle" /\ cl'[c].st # "idle" /\ xfer' = xfer /\ net' = net \cup {o}
        /\ \A d \in Clients : cl[d].st # "idle" => cl'[d].st # "idle"
    BY <1>0, <1>2 DEF Start, ClType
  <2>2. o.peer = c
    BY DEF Msg
  <2> HIDE DEF o
  <2>3. \A m \in net : m.peer \in Clients
    BY <1>0 DEF MsgType
  <2> QED BY <2>1, <2>2, <2>3 DEF Once, Request
<1>3. ASSUME NEW c \in Clients, Die(c)
      PROVE  Once'
  <2>1. \A d \in Clients : cl[d].st # "idle" => cl'[d].st # "idle"
    BY <1>0, <1>3 DEF Die, ClType
  <2>2. xfer' = xfer /\ net' \subseteq net \cup {}
    BY <1>3 DEF Die
  <2>3. Adds({})
    BY <2>2 DEF Adds
  <2> QED BY <1>0, <2>1, <2>2, <2>3, OnceStays
<1>4. ASSUME NEW c \in Clients, NEW m \in net,
             \/ ClientData(c, m) \/ ClientAck(c, m) \/ ClientError(c, m) \/ ClientIgnores(c, m)
      PROVE  Once'
  <2>1. xfer' = xfer /\ \A d \in Clients : cl[d].st # "idle" => cl'[d].st # "idle"
    <3>1. CASE ClientData(c, m)
      BY <1>0, <3>1 DEF ClientData, Mine, Active, ClType
    <3>2. CASE ClientAck(c, m)
      <4>1. CASE cl' = [cl EXCEPT ![c].st = "done"]
        BY <1>0, <3>2, <4>1 DEF ClientAck, ClType
      <4>2. CASE cl' = [cl EXCEPT ![c].port = m.port, ![c].next = @ + 1]
        BY <1>0, <3>2, <4>2 DEF ClientAck, ClType
      <4> QED BY <3>2, <4>1, <4>2 DEF ClientAck
    <3>3. CASE ClientError(c, m) \/ ClientIgnores(c, m)
      BY <1>0, <3>3 DEF ClientError, ClientIgnores, ClType
    <3> QED BY <1>4, <3>1, <3>2, <3>3
  <2>2. \E out : Adds(out)
    <3> DEFINE n == cl[c].next
               out == {Ack(c, m.port, n), Ack(c, m.port, n - 1),
                       Data(c, m.port, n + 1, Block(c, n + 1))}
    <3>1. net' \subseteq net \cup out
      <4>1. CASE ClientData(c, m)
        BY <4>1 DEF ClientData, Exchange
      <4>2. CASE ClientAck(c, m)
        BY <4>2 DEF ClientAck, Exchange
      <4>3. CASE ClientError(c, m) \/ ClientIgnores(c, m)
        BY <4>3 DEF ClientError, ClientIgnores, Exchange
      <4> QED BY <1>4, <4>1, <4>2, <4>3
    <3>2. \A o \in out : ~Request(o)
      BY DEF Request, Ack, Data, Msg
    <3> QED BY <3>1, <3>2 DEF Adds
  <2> QED BY <1>0, <2>1, <2>2, OnceStays
<1>5. CASE UNCHANGED vars
  BY <1>5 DEF vars, Once, Request
<1> QED BY <1>1, <1>2, <1>3, <1>4, <1>5 DEF Next, Server, Client
-----------------------------------------------------------------------------
(* The files of the writers.                                               *)

\* The datagrams sent say what is so.
Sends(out) == net' \subseteq net \cup out /\ \A o \in out : MsgKept(o)'

LEMMA KeptFrame ==
  ASSUME TInv, Kept, NEW p \in Ports, cl' = cl,
         \A q \in Ports \ {p} : xfer'[q] = xfer[q],
         Answered(p) => Answered(p)' /\ xfer'[p].block >= xfer[p].block,
         OwnerKept', \A q \in Ports : PortKept(q)',
         NEW out, Sends(out),
         xfer' \in [Ports -> XferType]
  PROVE  Kept'
<1>1. \A q \in Ports : Answered(q) => Answered(q)' /\ xfer'[q].block >= xfer[q].block
  <2>1. \A q \in Ports : xfer[q].block \in Nat
    BY DEF TInv, Typed, XferType
  <2> QED BY <2>1 DEF Answered
<1>2. ASSUME NEW o \in net'
      PROVE  MsgKept(o)'
  <2>1. CASE o \in out
    BY <2>1 DEF Sends
  <2>2. CASE o \in net
    BY <1>1, <2>2 DEF Kept, MsgKept, TInv, Route
  <2> QED BY <2>1, <2>2 DEF Sends
<1>3. ASSUME NEW c \in Writers
      PROVE  ClKept(c)'
  <2>1. ClKept(c) /\ cl[c].port \in Ports \cup {0}
    BY Constants DEF Kept, TInv, Typed, ClType
  <2>2. \A q \in Ports : xfer[q].block \in Nat /\ xfer'[q].block \in Nat
    BY DEF TInv, Typed, XferType
  <2>3. CASE cl[c].port = 0
    BY <2>1, <2>3 DEF ClKept
  <2>4. CASE cl[c].port \in Ports
    <3> DEFINE q == cl[c].port
    <3>1. Answered(q) /\ (cl[c].st = "done" => xfer[q].block > Blocks)
      BY <2>1, <2>4, Constants DEF ClKept
    <3>2. Answered(q)' /\ xfer'[q].block >= xfer[q].block
      BY <1>1, <2>4, <3>1
    <3>3. cl[c].st = "done" => xfer'[q].block > Blocks
      <4>1. Blocks \in Nat /\ xfer[q].block \in Nat /\ xfer'[q].block \in Nat
        BY <2>2, <2>4, Constants
      <4> HIDE DEF q
      <4> QED BY <3>1, <3>2, <4>1
    <3> QED BY <2>4, <3>1, <3>2, <3>3, Constants DEF ClKept
  <2> QED BY <2>1, <2>3, <2>4
<1> QED BY <1>2, <1>3 DEF Kept

\* The other transfers after a callback that touched the files.
LEMMA OthersTouched ==
  ASSUME TInv, Kept, NEW p \in Ports, Touched(p), \A q \in Ports \ {p} : xfer'[q] = xfer[q],
         \A q \in Ports \ {p} : xfer[q].st = "gone" /\ xfer[q].peer \in Writers =>
                                  store'[xfer[q].peer] = store[xfer[q].peer]
  PROVE  \A q \in Ports \ {p} : PortKept(q)'
<1> SUFFICES ASSUME NEW q \in Ports \ {p} PROVE PortKept(q)'
  OBVIOUS
<1>1. PortKept(q) /\ xfer'[q] = xfer[q]
  BY DEF Kept
<1>2. clean'[q] = (clean[q] /\ ~Held(q))
  BY DEF Touched
<1> QED BY <1>1, <1>2 DEF PortKept, Held, FileOf, Block

LEMMA OthersUntouched ==
  ASSUME TInv, Kept, NEW p \in Ports, UNCHANGED <<file_CR, store, clean>>,
         \A q \in Ports \ {p} : xfer'[q] = xfer[q]
  PROVE  \A q \in Ports \ {p} : PortKept(q)'
<1> SUFFICES ASSUME NEW q \in Ports \ {p} PROVE PortKept(q)'
  OBVIOUS
<1>1. PortKept(q) /\ xfer'[q] = xfer[q]
  BY DEF Kept
<1> QED BY <1>1 DEF PortKept, FileOf, Block

\* Closing file_CR changes no file but that of a transfer that goes on.
LEMMA CloseKeeps ==
  ASSUME TInv, Once, Kept, NEW p \in Ports, xfer[p].st = "wr",
         NEW last \in Seq(BlockType), CleanupWr(p, last)
  PROVE  \A q \in Ports : xfer[q].st = "gone" /\ xfer[q].peer \in Writers =>
                            store'[xfer[q].peer] = store[xfer[q].peer]
<1> SUFFICES ASSUME NEW q \in Ports, xfer[q].st = "gone", xfer[q].peer \in Writers
             PROVE  store'[xfer[q].peer] = store[xfer[q].peer]
  OBVIOUS
<1>1. file_CR.valid => file_CR.of # xfer[q].peer
  BY Constants DEF Kept, OwnerKept, Once
<1> QED BY <1>1 DEF CleanupWr, TInv, Typed

\* A request that does not open a file to write to it.
LEMMA ServeOtherKept ==
  ASSUME TInv, TInv', Once, Kept, NEW m \in net, NEW p \in Ports,
         \/ ServeUnknown(m, p) \/ ServeNoVolume(m, p) \/ ServeRefused(m, p)
         \/ ServeRead(m, p)
  PROVE  Kept'
<1>1. PICK out : Asks(m, p, out)
  BY RequestAsks
<1>2. xfer \in [Ports -> XferType] /\ xfer' \in [Ports -> XferType]
  BY DEF TInv, Typed
<1>3. \/ xfer'[p].st \in {"gone", "stuck"} /\ xfer'[p].block = 0
      \/ xfer'[p].st = "rd" /\ m.peer \notin Writers
  <2>1. CASE ServeUnknown(m, p) \/ ServeNoVolume(m, p) \/ ServeRefused(m, p)
    BY <1>2, <2>1 DEF ServeUnknown, ServeNoVolume, ServeRefused, FreePort
  <2>2. CASE ServeRead(m, p)
    <3>1. m.peer \in Readers
      BY <2>2 DEF ServeRead, TInv, Route
    <3> QED BY <1>2, <2>2, <3>1, Constants DEF ServeRead, SendNextBlock, FreePort
  <2> QED BY <2>1, <2>2
<1>4. PortKept(p)'
  BY <1>1, <1>3 DEF PortKept, Asks
<1>5. OwnerKept' /\ \A q \in Ports \ {p} : PortKept(q)'
  <2>1. CASE ServeUnknown(m, p)
    <3>1. UNCHANGED <<file_CR, store, clean>>
      BY <2>1 DEF ServeUnknown
    <3>2. OwnerKept'
      BY <1>1, <3>1 DEF Kept, OwnerKept, Asks
    <3> QED BY <1>1, <3>1, <3>2, OthersUntouched DEF Asks
  <2>2. CASE ~ServeUnknown(m, p)
    <3>1. ~file_CR'.valid /\ Touched(p)
      <4>1. file_CR' = [file_CR EXCEPT !.valid = FALSE] /\ Touched(p)
        BY <2>2 DEF ServeNoVolume, ServeRefused, ServeRead, SendNextBlock, AllStale
      <4> QED BY <4>1 DEF TInv, Typed, FileType
    <3>2. store' = store \/ store' = [store EXCEPT ![m.peer] = <<>>]
      BY <2>2 DEF ServeNoVolume, ServeRefused, ServeRead
    <3>3. \A q \in Ports : xfer[q].peer # m.peer
      BY <1>1 DEF Once, Asks
    <3>4. \A q \in Ports : xfer[q].peer \in Writers => store'[xfer[q].peer] = store[xfer[q].peer]
      BY <3>2, <3>3 DEF TInv, Typed
    <3> QED BY <1>1, <3>1, <3>4, OthersTouched DEF Asks, OwnerKept
  <2> QED BY <2>1, <2>2
<1>6. \E o : Sends(o)
  <2>1. CASE ServeRead(m, p)
    <3> DEFINE d == Data(m.peer, p, 1, ReadBlock(Opened(m.peer)))
    <3>1. net' \subseteq net \cup {d}
      BY <2>1, ExchangeAdds DEF ServeRead, SendNextBlock
    <3>2. d.peer \notin Writers
      BY <1>3, <2>1, Constants DEF Data, Msg, ServeRead, TInv, Route
    <3> HIDE DEF d
    <3>3. Sends({d})
      BY <3>1, <3>2 DEF MsgKept, Sends
    <3> QED BY <3>3
  <2>2. CASE ~ServeRead(m, p)
    <3> DEFINE d == Error(m.peer, p)
    <3>1. net' \subseteq net \cup {d}
      BY <2>2 DEF ServeUnknown, ServeNoVolume, ServeRefused, Exchange
    <3>2. d.type = "ERROR"
      BY DEF Error, Msg
    <3> HIDE DEF d
    <3>3. Sends({d})
      BY <3>1, <3>2 DEF MsgKept, Sends
    <3> QED BY <3>3
  <2> QED BY <2>1, <2>2
<1>7. ~Answered(p) /\ cl' = cl /\ \A q \in Ports \ {p} : xfer'[q] = xfer[q]
  BY <1>1 DEF Asks, Answered
<1>8. \A q \in Ports : PortKept(q)'
  BY <1>4, <1>5
<1> QED BY <1>2, <1>5, <1>6, <1>7, <1>8, KeptFrame

LEMMA ServeWriteKept ==
  ASSUME TInv, TInv', Once, Kept, NEW m \in net, NEW p \in Ports, ServeWrite(m, p)
  PROVE  Kept'
<1> DEFINE c == m.peer
           r == [FreePort EXCEPT !.st = "wr", !.peer = c]
           o == Ack(c, p, 0)
<1>1. PICK out : Asks(m, p, out)
  BY RequestAsks
<1>2. xfer \in [Ports -> XferType] /\ xfer' \in [Ports -> XferType] /\ c \in Writers
  BY DEF TInv, Typed, Route, ServeWrite
<1>3. xfer'[p].st = "wr" /\ xfer'[p].block = 0 /\ xfer'[p].peer = c
  BY <1>2 DEF ServeWrite, FreePort
<1>4. file_CR'.valid /\ file_CR'.of = c /\ file_CR'.data = <<>>
  BY DEF ServeWrite, Opened, Closed
<1>5. <<>> = SubSeq(FileOf(c), 1, 0)
  BY SubSeqEmpty
<1>6. PortKept(p)'
  BY <1>2, <1>3, <1>4, <1>5, Constants DEF PortKept, FileOf, Block
<1>7. OwnerKept'
  BY <1>3, <1>4 DEF OwnerKept
<1>8. \A q \in Ports \ {p} : PortKept(q)'
  <2>1. \A q \in Ports : xfer[q].peer # c
    BY <1>1 DEF Once, Asks
  <2>2. \A q \in Ports : xfer[q].peer \in Writers => store'[xfer[q].peer] = store[xfer[q].peer]
    BY <2>1 DEF ServeWrite, TInv, Typed
  <2> QED BY <1>1, <2>2, OthersTouched DEF Asks, ServeWrite
<1>9. net' \subseteq net \cup {o}
  BY ExchangeAdds DEF ServeWrite
<1>10. MsgKept(o)' /\ Sends({o})
  BY <1>3, <1>9 DEF Ack, Msg, MsgKept, Answered, Sends
<1>11. ~Answered(p) /\ cl' = cl /\ \A q \in Ports \ {p} : xfer'[q] = xfer[q]
  BY <1>1 DEF Asks, Answered
<1> HIDE DEF o
<1>12. \A q \in Ports : PortKept(q)'
  BY <1>6, <1>8
<1> QED BY <1>2, <1>7, <1>10, <1>11, <1>12, KeptFrame

\* A datagram nobody takes.
LEMMA DroppedKept ==
  ASSUME Kept, TInv, UNCHANGED <<xfer, file_CR, store, clean, cl>>,
         \A o \in net' : o \in net \/ MsgKept(o)'
  PROVE  Kept'
<1>1. OwnerKept' /\ \A p \in Ports : PortKept(p)'
  BY DEF Kept, OwnerKept, PortKept, FileOf, Block
<1>2. \A o \in net' : MsgKept(o)'
  BY DEF Kept, MsgKept, Answered, Block
<1>3. \A c \in Writers : ClKept(c)'
  BY DEF Kept, ClKept, Answered
<1> QED BY <1>1, <1>2, <1>3 DEF Kept

\* The blocks of a file, one after the other.
LEMMA FileGrows ==
  ASSUME NEW c, NEW n \in 0 .. Blocks
  PROVE  /\ Append(SubSeq(FileOf(c), 1, n), Block(c, n + 1)) = SubSeq(FileOf(c), 1, n + 1)
         /\ SubSeq(FileOf(c), 1, n) \o <<Block(c, n + 1)>> = SubSeq(FileOf(c), 1, n + 1)
         /\ SubSeq(FileOf(c), 1, Blocks + 1) = FileOf(c)
<1> DEFINE f == FileOf(c)
           S == {Block(c, i) : i \in 1 .. Blocks + 1}
<1>1. Blocks \in Nat
  BY Constants
<1>2. f \in Seq(S) /\ Len(f) = Blocks + 1 /\ f[n + 1] = Block(c, n + 1)
  BY <1>1 DEF FileOf
<1> HIDE DEF f, S
<1>3. SubSeq(f, 1, n + 1) = SubSeq(f, 1, n) \o <<f[n + 1]>>
  BY <1>1, <1>2, SubSeqRecursiveSecond
<1>4. SubSeq(f, 1, n) \in Seq(S)
  BY <1>1, <1>2
<1>5. Append(SubSeq(f, 1, n), f[n + 1]) = SubSeq(f, 1, n) \o <<f[n + 1]>>
  BY <1>4, AppendIsConcat, <1>2
<1>6. SubSeq(f, 1, Blocks + 1) = f
  BY <1>2, SubSeqFull
<1> QED BY <1>2, <1>3, <1>5, <1>6 DEF f

\* What a DATA packet of a transfer that goes on has in it.
LEMMA WriterPacket ==
  ASSUME TInv, SInv, Kept, NEW m \in net, ToServer(m), NEW p \in Ports, p = m.port,
         xfer[p].st = "wr"
  PROVE  /\ m.peer \in Writers /\ xfer[p].peer = m.peer /\ m.data = Block(m.peer, m.blk)
         /\ m.data # NoBlock /\ xfer[p].block \in 0 .. Blocks
         /\ Short(m.data) <=> m.blk = Blocks + 1
         /\ ~Expected(m) => ~Short(m.data)
<1> DEFINE c == m.peer
           n == xfer[p].block
<1>1. /\ c \in Writers /\ xfer[p].peer = c /\ m.type = "DATA" /\ cl[c].port = p
      /\ m \in MsgType /\ n \in Nat /\ cl[c].next \in Nat
      /\ n \in {cl[c].next - 1, cl[c].next}
  BY Received
<1>2. m.data = Block(c, m.blk) /\ m.blk >= 1 /\ n <= Blocks
  BY <1>1 DEF Kept, MsgKept, PortKept
<1>3. m.data # NoBlock /\ (Short(m.data) <=> m.blk = Blocks + 1)
  BY <1>1, <1>2, Constants DEF Short, Block, NoBlock, MsgType
<1>4. m.blk <= cl[c].next /\ cl[c].next <= Blocks + 1
  <2>1. Home(c)
    BY <1>1, Constants DEF TInv
  <2>2. Number(m)
    BY DEF SInv
  <2> QED BY <1>1, <2>1, <2>2 DEF Home, Number
<1>5. Blocks \in Nat /\ m.blk \in Nat
  BY <1>1, Constants DEF MsgType
<1>6. m.blk = Blocks + 1 => m.blk = n + 1
  BY <1>1, <1>2, <1>4, <1>5
<1> QED BY <1>1, <1>2, <1>3, <1>5, <1>6 DEF Expected

LEMMA WriteStoresKept ==
  ASSUME TInv, TInv', SInv, Once, Kept, NEW m \in net, WriteStores(m)
  PROVE  Kept'
<1> DEFINE p == m.port
           c == m.peer
           n == xfer[p].block
           o == Ack(c, p, n + 1)
<1>1. /\ ToServer(m) /\ p \in Ports /\ xfer[p].st = "wr" /\ m.blk = n + 1
      /\ file_CR.valid /\ ~Short(m.data)
      /\ file_CR' = [file_CR EXCEPT !.data = Append(@, m.data)]
      /\ xfer' = [xfer EXCEPT ![p].block = @ + 1]
      /\ Exchange(m, {o}) /\ Touched(p)
      /\ UNCHANGED <<file_SD, store, cl, wild>>
  BY DEF WriteStores, Expected
<1>2. /\ c \in Writers /\ xfer[p].peer = c /\ m.data = Block(c, n + 1)
      /\ n \in 0 .. Blocks /\ n + 1 <= Blocks
  <2>1. /\ c \in Writers /\ xfer[p].peer = c /\ m.data = Block(c, m.blk)
        /\ n \in 0 .. Blocks /\ m.blk # Blocks + 1
    BY <1>1, WriterPacket
  <2> QED BY <1>1, <2>1, Constants
<1>3. xfer \in [Ports -> XferType] /\ xfer' \in [Ports -> XferType] /\ file_CR \in FileType
  BY DEF TInv, Typed
<1>4. /\ xfer'[p].st = "wr" /\ xfer'[p].peer = c /\ xfer'[p].block = n + 1
      /\ \A q \in Ports \ {p} : xfer'[q] = xfer[q]
  BY <1>1, <1>2, <1>3 DEF XferType
<1>5. /\ file_CR'.valid /\ file_CR'.of = file_CR.of
      /\ file_CR'.data = Append(file_CR.data, m.data)
  BY <1>1, <1>3 DEF FileType
<1>6. PortKept(p)'
  <2>1. ASSUME clean'[p]
        PROVE  file_CR'.of = c /\ file_CR'.data = SubSeq(FileOf(c), 1, n + 1)
    <3>1. clean[p]
      BY <1>1, <2>1 DEF Touched
    <3>2. file_CR.of = c /\ file_CR.data = SubSeq(FileOf(c), 1, n)
      BY <1>1, <1>2, <3>1 DEF Kept, PortKept
    <3>3. Append(file_CR.data, m.data) = SubSeq(FileOf(c), 1, n + 1)
      BY <1>2, <3>2, FileGrows
    <3> QED BY <1>5, <3>2, <3>3
  <2>2. n + 1 <= Blocks /\ c \in Writers
    BY <1>2
  <2> HIDE DEF n, c
  <2> QED BY <1>4, <1>5, <2>1, <2>2 DEF PortKept, FileOf, Block
<1>7. OwnerKept'
  <2>1. PICK q \in Ports : xfer[q].st = "wr" /\ xfer[q].peer = file_CR.of
    BY <1>1 DEF Kept, OwnerKept
  <2>2. xfer'[q].st = "wr" /\ xfer'[q].peer = file_CR'.of
    BY <1>2, <1>4, <1>5, <2>1
  <2> QED BY <2>2 DEF OwnerKept
<1>8. \A q \in Ports \ {p} : PortKept(q)'
  BY <1>1, <1>4, OthersTouched
<1>9. Sends({o})
  BY <1>1, <1>4, ExchangeAdds DEF Sends, MsgKept, Answered, Ack, Msg
<1>10. Answered(p)' /\ xfer'[p].block >= xfer[p].block
  BY <1>2, <1>4 DEF Answered
<1>11. \A q \in Ports : PortKept(q)'
  BY <1>6, <1>8
<1>12. cl' = cl
  BY <1>1
<1> HIDE DEF p, o
<1> QED BY <1>1, <1>3, <1>4, <1>7, <1>9, <1>10, <1>11, <1>12, KeptFrame

\* The pcb that wrote is gone, with its last block counted.
LEMMA GoneCounts ==
  ASSUME TInv, NEW p \in Ports, xfer[p].st \in {"rd", "wr"},
         \/ xfer' = Gone(p)
         \/ xfer' = [Gone(p) EXCEPT ![p].block = @ + 1]
  PROVE  /\ xfer'[p].st = "gone" /\ xfer'[p].peer = xfer[p].peer
         /\ xfer'[p].block \in {xfer[p].block, xfer[p].block + 1}
         /\ xfer' = [Gone(p) EXCEPT ![p].block = @ + 1] =>
              xfer'[p].block = xfer[p].block + 1
         /\ \A q \in Ports \ {p} : xfer'[q] = xfer[q]
<1>1. xfer \in [Ports -> XferType] /\ xfer[p].block \in Nat
  BY DEF TInv, Typed, XferType
<1>2. ASSUME xfer' = Gone(p)
      PROVE  /\ xfer'[p].st = "gone" /\ xfer'[p].peer = xfer[p].peer
             /\ xfer'[p].block = xfer[p].block /\ \A q \in Ports \ {p} : xfer'[q] = xfer[q]
  BY <1>1, <1>2 DEF Gone, XferType
<1>3. ASSUME xfer' = [Gone(p) EXCEPT ![p].block = @ + 1]
      PROVE  /\ xfer'[p].st = "gone" /\ xfer'[p].peer = xfer[p].peer
             /\ xfer'[p].block = xfer[p].block + 1
             /\ \A q \in Ports \ {p} : xfer'[q] = xfer[q]
  <2> DEFINE g == Gone(p)
  <2>1. g \in [Ports -> XferType] /\ g[p].st = "gone" /\ g[p].peer = xfer[p].peer
        /\ g[p].block = xfer[p].block /\ \A q \in Ports \ {p} : g[q] = xfer[q]
    BY <1>1 DEF Gone, XferType, States
  <2>2. xfer' = [g EXCEPT ![p].block = @ + 1]
    BY <1>3
  <2> HIDE DEF g
  <2> QED BY <1>1, <2>1, <2>2 DEF XferType
<1> QED BY <1>2, <1>3

LEMMA WriteEndsKept ==
  ASSUME TInv, TInv', SInv, Once, Kept, NEW m \in net, WriteEnds(m)
  PROVE  Kept'
<1> DEFINE p == m.port
           c == m.peer
           n == xfer[p].block
           o == Ack(c, p, n + 1)
<1>1. /\ ToServer(m) /\ p \in Ports /\ xfer[p].st = "wr" /\ m.blk = n + 1
      /\ Short(m.data) /\ (file_CR.valid \/ m.data = NoBlock)
      /\ CleanupWr(p, IF m.data = NoBlock THEN <<>> ELSE <<m.data>>)
      /\ xfer' = [Gone(p) EXCEPT ![p].block = @ + 1]
      /\ Exchange(m, {o}) /\ cl' = cl
  BY DEF WriteEnds, Expected
<1>2. /\ c \in Writers /\ xfer[p].peer = c /\ m.data = Block(c, n + 1)
      /\ m.data # NoBlock /\ n \in 0 .. Blocks /\ n = Blocks
  <2>1. /\ c \in Writers /\ xfer[p].peer = c /\ m.data = Block(c, m.blk)
        /\ m.data # NoBlock /\ n \in 0 .. Blocks /\ m.blk = Blocks + 1
    BY <1>1, WriterPacket
  <2> QED BY <1>1, <2>1, Constants
<1>3. /\ xfer' \in [Ports -> XferType] /\ file_CR.valid
      /\ CleanupWr(p, <<m.data>>) /\ m.data \in BlockType /\ <<m.data>> \in Seq(BlockType)
  BY <1>1, <1>2 DEF TInv, Typed, MsgType
<1>4. /\ xfer'[p].st = "gone" /\ xfer'[p].peer = c /\ xfer'[p].block = n + 1
      /\ \A q \in Ports \ {p} : xfer'[q] = xfer[q]
  BY <1>1, <1>2, GoneCounts
<1>5. OwnerKept' /\ Touched(p)
  BY <1>3, StaleType DEF CleanupWr, OwnerKept, TInv, Typed
<1>6. PortKept(p)'
  <2>1. ASSUME clean'[p]
        PROVE  store'[c] = FileOf(c)
    <3>1. clean[p]
      BY <1>1, <1>5, <2>1 DEF Touched
    <3>2. file_CR.of = c /\ file_CR.data = SubSeq(FileOf(c), 1, n)
      BY <1>1, <1>2, <3>1 DEF Kept, PortKept
    <3>3. store'[c] = file_CR.data \o <<m.data>>
      BY <1>2, <1>3, <3>2 DEF CleanupWr, TInv, Typed
    <3> QED BY <1>2, <3>2, <3>3, FileGrows
  <2>2. c \in Writers
    BY <1>2
  <2> HIDE DEF c
  <2> QED BY <1>4, <2>1, <2>2 DEF PortKept, FileOf, Block
<1>7. \A q \in Ports \ {p} : PortKept(q)'
  BY <1>1, <1>3, <1>4, <1>5, CloseKeeps, OthersTouched
<1>8. Sends({o})
  <2>1. Answered(p)'
    BY <1>2, <1>4 DEF Answered
  <2> QED BY <1>1, <2>1, ExchangeAdds DEF Sends, MsgKept, Ack, Msg
<1>9. Answered(p)' /\ xfer'[p].block >= xfer[p].block
  BY <1>2, <1>4 DEF Answered
<1>10. \A q \in Ports : PortKept(q)'
  BY <1>6, <1>7
<1> HIDE DEF p, o
<1> QED BY <1>1, <1>3, <1>4, <1>5, <1>8, <1>9, <1>10, KeptFrame

\* A packet of a reader.
LEMMA ReadKept ==
  ASSUME TInv, TInv', Once, Kept, NEW m \in net, ReadEnds(m) \/ ReadContinues(m)
  PROVE  Kept'
<1> DEFINE p == m.port
           c == m.peer
           o == Data(c, p, NumberAfter(m, xfer[p].block), ReadBlock(file_SD))
<1>1. /\ ToServer(m) /\ p \in Ports /\ xfer[p].st = "rd" /\ Touched(p) /\ store' = store
      /\ file_CR' = file_CR \/ AllStale
  BY DEF ReadEnds, ReadContinues, CleanupRd, SendNextBlock
<1>2. c \notin Writers /\ xfer[p].peer = c
  BY <1>1, Received, Constants
<1>3. PICK out : SamePeers(p, out)
  BY DatagramSamePeers
<1>4. xfer' \in [Ports -> XferType] /\ ~Answered(p) /\ cl' = cl
  BY <1>1, <1>3 DEF TInv, Typed, Answered, SamePeers
<1>5. PortKept(p)'
  BY <1>1, <1>2, <1>3 DEF PortKept, SamePeers
<1>6. \A q \in Ports \ {p} : PortKept(q)'
  BY <1>1, <1>3, OthersTouched DEF SamePeers
<1>7. OwnerKept'
  <2>1. CASE AllStale
    BY <2>1, StaleType DEF OwnerKept, TInv, Typed
  <2>2. CASE file_CR' = file_CR
    BY <1>1, <1>3, <2>2 DEF Kept, OwnerKept, SamePeers
  <2> QED BY <1>1, <2>1, <2>2
<1>8. Sends({o})
  <2>1. net' \subseteq net \cup {o}
    BY ExchangeAdds DEF ReadEnds, ReadContinues, SendNextBlock, Exchange
  <2>2. o.peer = c
    BY DEF Data, Msg
  <2> HIDE DEF o
  <2> QED BY <1>2, <2>1, <2>2 DEF Sends, MsgKept
<1>9. \A q \in Ports : PortKept(q)'
  BY <1>5, <1>6
<1>10. \A q \in Ports \ {p} : xfer'[q] = xfer[q]
  BY <1>3 DEF SamePeers
<1> HIDE DEF p, o
<1> QED BY <1>1, <1>4, <1>7, <1>8, <1>9, <1>10, KeptFrame

LEMMA WriteFailsKept ==
  ASSUME TInv, TInv', SInv, Once, Kept, ~DiskFills, NEW m \in net, WriteFails(m)
  PROVE  Kept'
<1> DEFINE p == m.port
           c == m.peer
           n == xfer[p].block
           o == Ack(c, p, n + 1)
           e == Error(c, p)
<1>1. /\ ToServer(m) /\ p \in Ports /\ xfer[p].st = "wr" /\ ~file_CR.valid
      /\ CleanupWr(p, <<>>) /\ cl' = cl
      /\ xfer' = [Gone(p) EXCEPT ![p].block = @ + 1]
      /\ net' \subseteq net \cup {e, o}
  BY DEF WriteFails, Exchange
<1>2. c \in Writers /\ xfer[p].peer = c /\ n \in Nat /\ ~clean[p]
  <2>1. c \in Writers /\ xfer[p].peer = c /\ n \in Nat
    BY <1>1, Received
  <2> QED BY <1>1, <2>1 DEF Kept, PortKept
<1>3. /\ xfer'[p].st = "gone" /\ xfer'[p].peer = c /\ xfer'[p].block = n + 1
      /\ \A q \in Ports \ {p} : xfer'[q] = xfer[q]
      /\ xfer' \in [Ports -> XferType]
  BY <1>1, <1>2, GoneCounts DEF TInv, Typed
<1>4. OwnerKept' /\ Touched(p) /\ store' = store
  BY <1>1, StaleType DEF CleanupWr, OwnerKept, TInv, Typed
<1>5. PortKept(p)'
  BY <1>1, <1>2, <1>3, <1>4 DEF PortKept, Touched
<1>6. \A q \in Ports : PortKept(q)'
  BY <1>1, <1>3, <1>4, <1>5, OthersTouched
<1>7. Answered(p)' /\ xfer'[p].block >= xfer[p].block
  BY <1>2, <1>3 DEF Answered
<1>8. Sends({e, o})
  <2>1. \A x \in {e, o} : x.port = p /\ x.type \in {"ACK", "ERROR"}
    BY DEF Ack, Error, Msg
  <2>2. \A x \in {e, o} : MsgKept(x)'
    BY <1>7, <2>1 DEF MsgKept
  <2> QED BY <1>1, <2>2 DEF Sends
<1> HIDE DEF p, o, e
<1> QED BY <1>1, <1>3, <1>4, <1>6, <1>7, <1>8, KeptFrame

LEMMA WriteRepeatsAckKept ==
  ASSUME TInv, SInv, Kept, NEW m \in net, WriteRepeatsAck(m)
  PROVE  Kept'
<1> DEFINE o == Ack(m.peer, m.port, xfer[m.port].block)
<1>1. /\ ToServer(m) /\ m.port \in Ports /\ xfer[m.port].st = "wr" /\ ~Expected(m)
      /\ Exchange(m, {o}) /\ cl' = cl
  BY DEF WriteRepeatsAck
<1>2. ~Short(m.data)
  BY <1>1, WriterPacket
<1>3. UNCHANGED <<xfer, file_CR, store, clean, cl>>
  BY <1>2 DEF WriteRepeatsAck
<1>4. \A x \in {o} : MsgKept(x)'
  BY <1>1, <1>3 DEF MsgKept, Answered, Ack, Msg
<1>5. \A x \in net' : x \in net \/ MsgKept(x)'
  BY <1>1, <1>4, ExchangeAdds
<1> QED BY <1>3, <1>5, DroppedKept

LEMMA ServeKept ==
  ASSUME TInv, TInv', SInv, Once, Kept, ~DiskFills, NEW m \in net, Serve(m)
  PROVE  Kept'
<1>1. CASE ServeNoPcb(m) \/ NoReceiver(m)
  <2>1. UNCHANGED <<xfer, file_CR, store, clean, cl>> /\ net' \subseteq net
    BY <1>1 DEF ServeNoPcb, NoReceiver, Exchange
  <2> QED BY <2>1, DroppedKept
<1>2. ASSUME NEW p \in Ports,
             \/ ServeUnknown(m, p) \/ ServeNoVolume(m, p) \/ ServeRefused(m, p)
             \/ ServeRead(m, p) \/ ServeWrite(m, p)
      PROVE  Kept'
  BY <1>2, ServeOtherKept, ServeWriteKept
<1>3. CASE ReadEnds(m) \/ ReadContinues(m)
  BY <1>3, ReadKept
<1>4. CASE WriteStores(m) \/ WriteEnds(m) \/ WriteFails(m) \/ WriteRepeatsAck(m)
  BY <1>4, WriteStoresKept, WriteEndsKept, WriteFailsKept, WriteRepeatsAckKept
<1> QED BY <1>1, <1>2, <1>3, <1>4 DEF Serve
-----------------------------------------------------------------------------
(* The clients.                                                            *)

LEMMA ClientKept ==
  ASSUME TInv, Kept, NEW c \in Clients,
         UNCHANGED <<xfer, file_CR, store, clean>>,
         \A d \in Clients \ {c} : cl'[d] = cl[d],
         c \in Writers => ClKept(c)',
         NEW out, Sends(out)
  PROVE  Kept'
<1>1. OwnerKept' /\ \A p \in Ports : PortKept(p)'
  BY DEF Kept, OwnerKept, PortKept, FileOf, Block
<1>2. \A o \in net' : MsgKept(o)'
  BY DEF Kept, MsgKept, Answered, Block, Sends
<1>3. \A d \in Writers : ClKept(d)'
  BY Constants DEF Kept, ClKept, Answered
<1> QED BY <1>1, <1>2, <1>3 DEF Kept

LEMMA StartKept ==
  ASSUME TInv, Kept, NEW c \in Clients, Start(c)
  PROVE  Kept'
<1> DEFINE o == Msg(RequestOf(c), c, 69, 0, NoBlock)
<1>1. cl[c] \in ClType /\ cl[c].st = "idle" /\ cl[c].port = 0
  BY DEF Start, TInv, Typed, Home
<1>2. cl'[c].st = "wait" /\ cl'[c].port = 0 /\ \A d \in Clients \ {c} : cl'[d] = cl[d]
  BY <1>1 DEF Start, TInv, Typed, ClType
<1>3. ClKept(c)'
  BY <1>2 DEF ClKept
<1>4. Sends({o})
  BY DEF Sends, MsgKept, Start, Msg, RequestOf
<1>5. UNCHANGED <<xfer, file_CR, store, clean>>
  BY DEF Start
<1> HIDE DEF o
<1> QED BY <1>2, <1>3, <1>4, <1>5, ClientKept

\* A client that stops before its last block is acknowledged.
LEMMA StopKept ==
  ASSUME TInv, Kept, NEW c \in Clients, NEW st \in {"failed", "dead"},
         cl' = [cl EXCEPT ![c].st = st], net' \subseteq net,
         UNCHANGED <<xfer, file_CR, store, clean>>
  PROVE  Kept'
<1>1. /\ cl'[c].st = st /\ cl'[c].port = cl[c].port
      /\ \A d \in Clients \ {c} : cl'[d] = cl[d]
  BY DEF TInv, Typed, ClType
<1>2. c \in Writers => ClKept(c)'
  BY <1>1 DEF Kept, ClKept, Answered
<1>3. Sends({})
  BY DEF Sends
<1> QED BY <1>1, <1>2, <1>3, ClientKept

LEMMA ReaderKept ==
  ASSUME TInv, Kept, NEW c \in Clients, NEW m \in net, ClientData(c, m)
  PROVE  Kept'
<1>1. c \in Readers /\ c \notin Writers /\ cl \in [Clients -> ClType]
  BY Constants DEF ClientData, TInv, Typed
<1>2. UNCHANGED <<xfer, file_CR, store, clean>> /\ \A d \in Clients \ {c} : cl'[d] = cl[d]
  BY <1>1 DEF ClientData
<1>3. \E out : Sends(out)
  <2> DEFINE out == {Ack(c, m.port, cl[c].next), Ack(c, m.port, cl[c].next - 1)}
  <2>1. net' \subseteq net \cup out
    BY DEF ClientData, Exchange
  <2>2. \A o \in out : o.peer = c
    BY DEF Ack, Msg
  <2> HIDE DEF out
  <2>3. Sends(out)
    BY <1>1, <2>1, <2>2 DEF Sends, MsgKept
  <2> QED BY <2>3
<1> QED BY <1>1, <1>2, <1>3, ClientKept

LEMMA WriterKept ==
  ASSUME TInv, TInv', SInv, NoWrap, NoWrap', Kept, NEW c \in Clients, NEW m \in net,
         ClientAck(c, m)
  PROVE  Kept'
<1> DEFINE n == cl[c].next
           p == m.port
<1>1. /\ c \in Writers /\ c \notin Readers /\ m.type = "ACK" /\ m.peer = c
      /\ cl[c].port \in {0, p} /\ m.blk = n % BlockMod
      /\ UNCHANGED <<xfer, file_CR, store, clean>>
  BY Constants DEF ClientAck, Mine
<1>2. /\ cl[c] \in ClType /\ n \in Nat /\ m \in MsgType /\ p \in Ports /\ p # 0
      /\ xfer[p].peer = c /\ Answered(p) /\ Home(c) /\ m.blk <= xfer[p].block
      /\ xfer[p].block \in Nat
  <2>1. cl[c] \in ClType /\ n \in Nat /\ m \in MsgType
    BY DEF TInv, Typed, ClType
  <2>2. p \in Ports /\ xfer[p].peer = c /\ Home(c)
    BY <1>1 DEF TInv, Route
  <2>3. p # 0 /\ xfer[p].block \in Nat
    BY <2>2, Constants DEF TInv, Typed, XferType
  <2>4. Answered(p)
    BY <1>1 DEF Kept, MsgKept
  <2>5. m.blk <= xfer[p].block
    BY <1>1 DEF SInv, Number, ToServer
  <2> QED BY <2>1, <2>2, <2>3, <2>4, <2>5
<1>3. m.blk = n
  BY <1>1, <1>2, ModRange DEF NoWrap
<1>4. CASE n = Blocks + 1
  <2>1. cl' = [cl EXCEPT ![c].st = "done"] /\ net' \subseteq net
    BY <1>4, ExchangeAdds DEF ClientAck
  <2>2. /\ cl'[c].st = "done" /\ cl'[c].port = cl[c].port
        /\ \A d \in Clients \ {c} : cl'[d] = cl[d]
    BY <1>2, <2>1 DEF TInv, Typed, ClType
  <2>3. cl[c].port = p
    BY <1>1, <1>2, <1>4, Constants DEF Home, First
  <2>4. xfer[p].block > Blocks
    BY <1>2, <1>3, <1>4, Constants
  <2>5. ClKept(c)'
    BY <1>1, <1>2, <2>2, <2>3, <2>4 DEF ClKept, Answered
  <2>6. Sends({})
    BY <2>1 DEF Sends
  <2> QED BY <1>1, <2>2, <2>5, <2>6, ClientKept
<1>5. CASE n # Blocks + 1
  <2> DEFINE o == Data(c, p, n + 1, Block(c, n + 1))
  <2>1. /\ cl' = [cl EXCEPT ![c].port = p, ![c].next = @ + 1]
        /\ net' \subseteq net \cup {o}
    BY <1>5, ExchangeAdds DEF ClientAck
  <2>2. /\ cl'[c].st = cl[c].st /\ cl'[c].port = p /\ cl'[c].next = n + 1
        /\ \A d \in Clients \ {c} : cl'[d] = cl[d]
    BY <1>2, <2>1 DEF TInv, Typed, ClType
  <2>3. cl[c].st = "wait"
    BY DEF ClientAck, Mine, Active
  <2>4. ClKept(c)'
    BY <1>1, <1>2, <2>2, <2>3 DEF ClKept, Answered
  <2>5. n + 1 < BlockMod
    BY <1>1, <2>2 DEF NoWrap
  <2>6. o.peer = c /\ o.type = "DATA" /\ o.blk = n + 1 /\ o.data = Block(c, n + 1)
    BY <1>2, <2>5, ModRange DEF Data, Msg
  <2> HIDE DEF o
  <2>7. \A x \in {o} : MsgKept(x)'
    BY <1>2, <2>6 DEF MsgKept, Block
  <2>8. Sends({o})
    BY <2>1, <2>7 DEF Sends
  <2> QED BY <1>1, <2>2, <2>4, <2>8, ClientKept
<1> QED BY <1>4, <1>5

LEMMA NextKept ==
  ASSUME ~DiskFills, TInv, TInv', SInv, NoWrap, NoWrap', Once, Kept, [Next]_vars
  PROVE  Kept'
<1>1. ASSUME NEW m \in net, Serve(m)
      PROVE  Kept'
  BY <1>1, ServeKept
<1>2. ASSUME NEW c \in Clients, Start(c)
      PROVE  Kept'
  BY <1>2, StartKept
<1>3. ASSUME NEW c \in Clients, Die(c)
      PROVE  Kept'
  BY <1>3, StopKept DEF Die
<1>4. ASSUME NEW c \in Clients, NEW m \in net, ClientError(c, m)
      PROVE  Kept'
  <2>1. /\ cl' = [cl EXCEPT ![c].st = "failed"] /\ net' \subseteq net
        /\ UNCHANGED <<xfer, file_CR, store, clean>>
    BY <1>4, ExchangeAdds DEF ClientError
  <2> QED BY <2>1, StopKept
<1>5. ASSUME NEW c \in Clients, NEW m \in net, ClientIgnores(c, m)
      PROVE  Kept'
  <2>1. UNCHANGED <<xfer, file_CR, store, clean, cl>> /\ net' \subseteq net
    BY <1>5, ExchangeAdds DEF ClientIgnores
  <2> QED BY <2>1, DroppedKept
<1>6. CASE UNCHANGED vars
  <2>1. UNCHANGED <<xfer, file_CR, store, clean, cl>> /\ net' = net
    BY <1>6 DEF vars
  <2> QED BY <2>1, DroppedKept
<1> QED BY <1>1, <1>2, <1>3, <1>4, <1>5, <1>6, ReaderKept, WriterKept DEF Next, Server, Client
-----------------------------------------------------------------------------
(* The files of the readers.                                               *)

Token(m) == m.type \in {"DATA", "ACK"} /\ m.peer \in Readers

\* At most one datagram of a reader's transfer is under way.
OneToken == \A m, o \in net : Token(m) /\ Token(o) /\ m.peer = o.peer => m = o

\* It has the block both ends count.
TokenSays(m) ==
  Token(m) =>
    /\ m.blk = xfer[m.port].block
    /\ m.type = "DATA" => cl[m.peer].next = m.blk
    /\ m.type = "ACK" => cl[m.peer].next = m.blk + 1
    /\ m.type = "DATA" /\ clean[m.port] => m.blk <= Blocks + 1 /\ m.data = Block(m.peer, m.blk)

\* file_SD stands behind the block that was sent last.
PortReads(p) ==
  xfer[p].peer \in Readers /\ xfer[p].st = "rd" /\ clean[p] =>
    /\ file_SD.valid /\ file_SD.of = xfer[p].peer /\ file_SD.pos = xfer[p].block + 1
    /\ xfer[p].block \in 1 .. Blocks + 1
    /\ xfer[p].short <=> xfer[p].block = Blocks + 1

ClientHas(c) ==
  /\ cl[c].port = 0 => cl[c].got = <<>> /\ (cl[c].st # "idle" => cl[c].next = 1)
  /\ cl[c].port # 0 /\ clean[cl[c].port] =>
       /\ cl[c].next \in 2 .. Blocks + 2 /\ cl[c].got = SubSeq(FileOf(c), 1, cl[c].next - 1)
       /\ cl[c].st = "done" => cl[c].next = Blocks + 2

Read ==
  /\ OneToken
  /\ \A m \in net : TokenSays(m)
  /\ \A p \in Ports : PortReads(p)
  /\ \A c \in Readers : ClientHas(c)

Steady == UNCHANGED <<file_SD, clean>>

\* The datagrams sent are not for readers.
SendsElse(out) == net' \subseteq net \cup out /\ \A o \in out : ~Token(o)

\* A callback for a client that does not read.
LEMMA OthersRead ==
  ASSUME TInv, Read, NEW p \in Ports, xfer[p].peer \notin Readers, xfer'[p].st # "rd",
         \A q \in Ports \ {p} : xfer'[q] = xfer[q],
         Steady \/ Touched(p), cl' = cl,
         NEW out, SendsElse(out)
  PROVE  Read'
<1>1. \A q \in Ports : clean'[q] => clean[q]
  BY DEF Steady, Touched
<1>2. \A o \in net' : Token(o) => o \in net
  BY DEF SendsElse
<1>3. OneToken'
  BY <1>2 DEF Read, OneToken, Token
<1>4. ASSUME NEW o \in net'
      PROVE  TokenSays(o)'
  <2>1. SUFFICES ASSUME Token(o) PROVE TokenSays(o)'
    BY DEF TokenSays, Token
  <2>2. o \in net /\ o.port \in Ports /\ xfer[o.port].peer = o.peer /\ o.port # p
    BY <1>2, <2>1 DEF TInv, Route, Token
  <2> QED BY <1>1, <2>2 DEF Read, TokenSays, Token, Block
<1>5. ASSUME NEW q \in Ports
      PROVE  PortReads(q)'
  <2>1. PortReads(q) /\ (q # p => xfer'[q] = xfer[q])
    BY DEF Read
  <2>2. CASE q = p
    BY <2>2 DEF PortReads
  <2>3. CASE q # p /\ Steady
    BY <2>1, <2>3 DEF PortReads, Steady
  <2>4. CASE q # p /\ Touched(p)
    BY <2>1, <2>4 DEF PortReads, Touched, Held
  <2> QED BY <2>2, <2>3, <2>4
<1>6. ASSUME NEW c \in Readers
      PROVE  ClientHas(c)'
  <2>1. cl[c].port \in Ports \cup {0} /\ ClientHas(c)
    BY Constants DEF TInv, Typed, ClType, Read
  <2> QED BY <1>1, <2>1 DEF ClientHas, FileOf, Block
<1> QED BY <1>3, <1>4, <1>5, <1>6 DEF Read

LEMMA DroppedRead ==
  ASSUME Read, UNCHANGED <<xfer, file_SD, clean, cl>>,
         \A o \in net' : o \in net \/ ~Token(o)
  PROVE  Read'
<1>1. OneToken'
  BY DEF Read, OneToken, Token
<1>2. \A o \in net' : TokenSays(o)'
  BY DEF Read, TokenSays, Token, Block
<1>3. \A p \in Ports : PortReads(p)'
  BY DEF Read, PortReads
<1>4. \A c \in Readers : ClientHas(c)'
  BY DEF Read, ClientHas, FileOf, Block
<1> QED BY <1>1, <1>2, <1>3, <1>4 DEF Read

\* A callback for the reader of port p, which takes the token, if it has one,
\* and sends out.
LEMMA OwnRead ==
  ASSUME TInv, Read, NEW m \in net, NEW p \in Ports, m.peer \in Readers,
         xfer[p].peer \in {m.peer, "none"}, Touched(p), cl' = cl,
         \A q \in Ports \ {p} : xfer'[q] = xfer[q],
         \A o \in net : Token(o) /\ o.peer = m.peer => o = m,
         NEW out, net' \subseteq (net \ {m}) \cup out,
         \A o \in out : o.peer = m.peer /\ TokenSays(o)' /\ \A x \in out : x = o,
         PortReads(p)'
  PROVE  Read'
<1>1. \A q \in Ports : clean'[q] => clean[q]
  BY DEF Touched
<1>2. \A o \in net' : Token(o) => (o \in out \/ (o \in net /\ o.peer # m.peer))
  OBVIOUS
<1>3. OneToken'
  BY <1>2 DEF Read, OneToken, Token
<1>4. ASSUME NEW o \in net'
      PROVE  TokenSays(o)'
  <2>1. SUFFICES ASSUME Token(o), o \in net, o.peer # m.peer PROVE TokenSays(o)'
    BY <1>2 DEF TokenSays, Token
  <2>2. o.port \in Ports /\ xfer[o.port].peer = o.peer /\ o.port # p
    BY <2>1, Constants DEF TInv, Route, Token
  <2> QED BY <1>1, <2>1, <2>2 DEF Read, TokenSays, Token, Block
<1>5. ASSUME NEW q \in Ports
      PROVE  PortReads(q)'
  <2>1. CASE q = p
    BY <2>1
  <2>2. CASE q # p
    BY <2>2 DEF Read, PortReads, Touched, Held
  <2> QED BY <2>1, <2>2
<1>6. ASSUME NEW c \in Readers
      PROVE  ClientHas(c)'
  <2>1. cl[c].port \in Ports \cup {0} /\ ClientHas(c)
    BY Constants DEF TInv, Typed, ClType, Read
  <2> QED BY <1>1, <2>1 DEF ClientHas, FileOf, Block
<1> QED BY <1>3, <1>4, <1>5, <1>6 DEF Read

\* Sending the next block of the file that c reads from port p.
LEMMA SendsBlock ==
  ASSUME TInv, NEW m \in net, NEW p \in Ports, NEW n \in Nat, NEW f \in FileType, NEW x,
         x \in [Ports -> XferType], x[p].peer = m.peer, m.peer \in Readers,
         SendNextBlock(p, n, f, m, x), n < BlockMod, cl[m.peer].next = n, cl' = cl,
         clean[p] => /\ f.valid /\ f.of = m.peer /\ f.pos = n /\ n \in 1 .. Blocks + 1
  PROVE  /\ PortReads(p)'
         /\ \A o \in {Data(m.peer, p, n, ReadBlock(f))} : o.peer = m.peer /\ TokenSays(o)'
<1> DEFINE b == ReadBlock(f)
           short == Short(b)
           d == Data(m.peer, p, n, b)
           mid == [x[p] EXCEPT !.block = n]
           r == [mid EXCEPT !.short = short]
<1>1. x[p] \in XferType /\ short \in BOOLEAN /\ m.peer \in Clients
  BY Constants DEF Short
<1>2. xfer' = [x EXCEPT ![p] = r] /\ file_SD' = AfterRead(f) /\ Touched(p)
  BY DEF SendNextBlock
<1>3. mid \in XferType /\ mid.peer = m.peer /\ mid.block = n
  BY <1>1 DEF XferType
<1>4. d.peer = m.peer /\ d.port = p /\ d.type = "DATA" /\ d.blk = n /\ d.data = b
  BY ModRange DEF Data, Msg
<1>5. ASSUME clean'[p]
      PROVE  /\ b = Block(m.peer, n) /\ n \in 1 .. Blocks + 1
             /\ short <=> n = Blocks + 1
             /\ file_SD'.valid /\ file_SD'.of = m.peer /\ file_SD'.pos = n + 1
  <2>1. f.valid /\ f.of = m.peer /\ f.pos = n /\ n \in 1 .. Blocks + 1
    BY <1>2, <1>5 DEF Touched
  <2>2. HasBytes(f)
    BY <2>1, Constants DEF HasBytes
  <2>3. b = Block(m.peer, n)
    BY <2>1, <2>2 DEF ReadBlock
  <2>4. short <=> n = Blocks + 1
    BY <1>1, <2>1, <2>3, Constants DEF Short, Block, NoBlock
  <2>5. file_SD' = [f EXCEPT !.pos = @ + 1]
    BY <1>2, <2>2 DEF AfterRead
  <2> QED BY <2>1, <2>3, <2>4, <2>5 DEF FileType
<1> HIDE DEF mid, b, short, d
<1>6. r \in XferType /\ r.peer = m.peer /\ r.block = n /\ r.short = short
  BY <1>1, <1>3 DEF XferType
<1> HIDE DEF r
<1>7. xfer'[p] = r
  BY <1>2
<1>8. PortReads(p)'
  BY <1>5, <1>6, <1>7 DEF PortReads
<1>9. \A o \in {d} : o.peer = m.peer /\ TokenSays(o)'
  BY <1>4, <1>5, <1>6, <1>7 DEF TokenSays, Block
<1> QED BY <1>8, <1>9 DEF d, b

LEMMA ServeReadRead ==
  ASSUME TInv, Once, Read, NoWrap, "REQ" \notin Repeats, NEW m \in net, NEW p \in Ports,
         ServeRead(m, p)
  PROVE  Read'
<1> DEFINE c == m.peer
           r == [FreePort EXCEPT !.st = "rd", !.peer = c]
           x == [xfer EXCEPT ![p] = r]
           d == Data(c, p, 1, ReadBlock(Opened(c)))
<1>1. c \in Readers /\ c \in Clients /\ Request(m) /\ ~Token(m)
  BY DEF TInv, Typed, MsgType, Route, ServeRead, Request, Token
<1>2. r \in XferType /\ r.peer = c
  BY <1>1, FreshType DEF States
<1>3. /\ SendNextBlock(p, 1, Opened(c), m, x) /\ cl' = cl /\ Touched(p)
      /\ net' \subseteq (net \ {m}) \cup {d}
      /\ xfer[p].peer = "none"
  BY NewPcbUnused DEF ServeRead, SendNextBlock, Exchange, KindOf
<1>4. cl[c].st # "idle" /\ \A q \in Ports : xfer[q].peer # c
  BY <1>1 DEF Once
<1>5. cl[c].port = 0
  BY <1>1, <1>4, Constants DEF TInv, Typed, ClType, Home
<1>6. cl[c].next = 1
  BY <1>1, <1>4, <1>5 DEF Read, ClientHas
<1>7. 1 < BlockMod /\ 1 \in Nat /\ 1 \in 1 .. Blocks + 1
  BY <1>1, <1>6, Constants DEF NoWrap
<1>8. Opened(c) \in FileType /\ Opened(c).valid /\ Opened(c).of = c /\ Opened(c).pos = 1
  BY <1>1, OpenedType DEF Opened, Closed
<1> HIDE DEF r
<1>9. x \in [Ports -> XferType] /\ x[p].peer = c
  BY <1>2 DEF TInv, Typed
<1>10. \A q \in Ports \ {p} : xfer'[q] = xfer[q]
  BY <1>3 DEF SendNextBlock, TInv, Typed
<1> HIDE DEF x
<1>11. PortReads(p)' /\ \A o \in {d} : o.peer = c /\ TokenSays(o)'
  BY <1>1, <1>3, <1>6, <1>7, <1>8, <1>9, SendsBlock
<1>12. \A o \in net : Token(o) => o.peer # c
  BY <1>4 DEF TInv, Route, Token
<1> HIDE DEF d
<1>13. \A o \in {d} : o.peer = c /\ TokenSays(o)' /\ \A y \in {d} : y = o
  BY <1>11
<1> QED BY <1>1, <1>3, <1>10, <1>11, <1>12, <1>13, OwnRead

\* The acknowledgement of the block sent last.
LEMMA ReaderPacket ==
  ASSUME TInv, Read, NEW m \in net, ToServer(m), NEW p \in Ports, p = m.port,
         xfer[p].st = "rd"
  PROVE  /\ m.peer \in Readers /\ xfer[p].peer = m.peer /\ m.type = "ACK"
         /\ m.blk = xfer[p].block /\ xfer[p].block \in Nat
         /\ cl[m.peer].next = xfer[p].block + 1
         /\ \A o \in net : Token(o) /\ o.peer = m.peer => o = m
         /\ KindOf(m) = "rdACK"
<1>1. /\ m.peer \in Readers /\ xfer[p].peer = m.peer /\ m.type = "ACK"
      /\ xfer[p].block \in Nat
  BY Received
<1>2. Token(m)
  BY <1>1 DEF Token
<1> QED BY <1>1, <1>2 DEF Read, OneToken, TokenSays, KindOf

LEMMA ReadEndsRead ==
  ASSUME TInv, Read, "rdACK" \notin Repeats, NEW m \in net, ReadEnds(m)
  PROVE  Read'
<1> DEFINE p == m.port
<1>1. /\ ToServer(m) /\ p \in Ports /\ xfer[p].st = "rd" /\ Touched(p) /\ cl' = cl
      /\ xfer' = Gone(p) /\ Exchange(m, {})
  BY DEF ReadEnds, CleanupRd
<1>2. /\ m.peer \in Readers /\ xfer[p].peer = m.peer /\ KindOf(m) = "rdACK"
      /\ \A o \in net : Token(o) /\ o.peer = m.peer => o = m
  BY <1>1, ReaderPacket
<1>3. /\ xfer'[p].st = "gone" /\ \A q \in Ports \ {p} : xfer'[q] = xfer[q]
  BY <1>1, GoneCounts
<1>4. PortReads(p)' /\ net' \subseteq (net \ {m}) \cup {}
  BY <1>1, <1>2, <1>3 DEF PortReads, Exchange
<1> HIDE DEF p
<1>5. \A o \in {} : o.peer = m.peer /\ TokenSays(o)' /\ \A x \in {} : x = o
  OBVIOUS
<1> QED BY <1>1, <1>2, <1>3, <1>4, <1>5, OwnRead

LEMMA ReadContinuesRead ==
  ASSUME TInv, Read, NoWrap, "rdACK" \notin Repeats, NEW m \in net, ReadContinues(m)
  PROVE  Read'
<1> DEFINE p == m.port
           c == m.peer
           n == NumberAfter(m, xfer[p].block)
           d == Data(c, p, n, ReadBlock(file_SD))
<1>1. /\ ToServer(m) /\ p \in Ports /\ xfer[p].st = "rd" /\ ~xfer[p].short
      /\ SendNextBlock(p, n, file_SD, m, xfer) /\ cl' = cl
  BY DEF ReadContinues
<1>2. /\ c \in Readers /\ xfer[p].peer = c /\ KindOf(m) = "rdACK"
      /\ m.type = "ACK" /\ m.blk = xfer[p].block /\ xfer[p].block \in Nat
      /\ cl[c].next = xfer[p].block + 1
      /\ \A o \in net : Token(o) /\ o.peer = c => o = m
  BY <1>1, ReaderPacket
<1>3. n = xfer[p].block + 1 /\ n \in Nat /\ cl[c].next = n
  BY <1>2 DEF NumberAfter
<1>4. n < BlockMod
  BY <1>2, <1>3, Constants DEF NoWrap
<1>5. clean[p] => /\ file_SD.valid /\ file_SD.of = c /\ file_SD.pos = n
                  /\ n \in 1 .. Blocks + 1
  <2>1. PortReads(p)
    BY <1>1 DEF Read
  <2> QED BY <1>1, <1>2, <1>3, <2>1, Constants DEF PortReads
<1>6. /\ Touched(p) /\ net' \subseteq (net \ {m}) \cup {d}
      /\ \A q \in Ports \ {p} : xfer'[q] = xfer[q]
  BY <1>1, <1>2 DEF SendNextBlock, Exchange, TInv, Typed
<1>7. file_SD \in FileType /\ xfer \in [Ports -> XferType]
  BY DEF TInv, Typed
<1> HIDE DEF p, n
<1>8. PortReads(p)' /\ \A o \in {d} : o.peer = c /\ TokenSays(o)'
  BY <1>1, <1>2, <1>3, <1>4, <1>5, <1>7, SendsBlock
<1> HIDE DEF d
<1>9. \A o \in {d} : o.peer = c /\ TokenSays(o)' /\ \A y \in {d} : y = o
  BY <1>8
<1> QED BY <1>1, <1>2, <1>6, <1>8, <1>9, OwnRead

LEMMA RequestRead ==
  ASSUME TInv, Once, Read, NEW m \in net, NEW p \in Ports,
         \/ ServeUnknown(m, p) \/ ServeNoVolume(m, p) \/ ServeRefused(m, p)
         \/ ServeWrite(m, p)
  PROVE  Read'
<1>1. PICK out : Asks(m, p, out)
  BY RequestAsks
<1>2. /\ xfer[p].peer \notin Readers /\ cl' = cl
      /\ \A q \in Ports \ {p} : xfer'[q] = xfer[q]
  BY <1>1, Constants DEF Asks
<1>3. xfer'[p].st # "rd" /\ (Steady \/ Touched(p))
  <2>1. xfer \in [Ports -> XferType]
    BY DEF TInv, Typed
  <2>2. CASE ServeUnknown(m, p)
    BY <2>1, <2>2 DEF ServeUnknown, FreePort, Steady
  <2>3. CASE ServeNoVolume(m, p)
    BY <2>1, <2>3 DEF ServeNoVolume, FreePort
  <2>4. CASE ServeRefused(m, p)
    BY <2>1, <2>4 DEF ServeRefused, FreePort, Steady
  <2>5. CASE ServeWrite(m, p)
    BY <2>1, <2>5 DEF ServeWrite, FreePort
  <2> QED BY <2>2, <2>3, <2>4, <2>5
<1>4. \E o : SendsElse(o)
  <2>1. CASE ServeWrite(m, p)
    <3> DEFINE d == Ack(m.peer, p, 0)
    <3>1. net' \subseteq net \cup {d}
      BY <2>1, ExchangeAdds DEF ServeWrite
    <3>2. \A x \in {d} : ~Token(x)
      BY <2>1, Constants DEF ServeWrite, TInv, Route, Token, Ack, Msg
    <3>3. SendsElse({d})
      BY <3>1, <3>2 DEF SendsElse
    <3> QED BY <3>3
  <2>2. CASE ~ServeWrite(m, p)
    <3> DEFINE d == Error(m.peer, p)
    <3>1. net' \subseteq net \cup {d}
      BY <2>2 DEF ServeUnknown, ServeNoVolume, ServeRefused, Exchange
    <3>2. \A x \in {d} : ~Token(x)
      BY DEF Error, Msg, Token
    <3>3. SendsElse({d})
      BY <3>1, <3>2 DEF SendsElse
    <3> QED BY <3>3
  <2> QED BY <2>1, <2>2
<1> QED BY <1>2, <1>3, <1>4, OthersRead

LEMMA WriteRead ==
  ASSUME TInv, Read, NEW m \in net,
         WriteStores(m) \/ WriteEnds(m) \/ WriteFails(m) \/ WriteRepeatsAck(m)
  PROVE  Read'
<1> DEFINE p == m.port
<1>1. ToServer(m) /\ p \in Ports /\ xfer[p].st = "wr" /\ cl' = cl
  BY DEF WriteStores, WriteEnds, WriteFails, WriteRepeatsAck
<1>2. m.peer \in Writers /\ xfer[p].peer = m.peer /\ xfer[p].peer \notin Readers
  BY <1>1, Received, Constants
<1>3. PICK out : SamePeers(p, out)
  BY DatagramSamePeers
<1>4. \A q \in Ports \ {p} : xfer'[q] = xfer[q]
  BY <1>3 DEF SamePeers
<1>5. xfer'[p].st # "rd" /\ (Steady \/ Touched(p))
  <2>1. xfer \in [Ports -> XferType]
    BY DEF TInv, Typed
  <2>2. CASE WriteStores(m)
    BY <1>1, <2>1, <2>2 DEF WriteStores, XferType
  <2>3. CASE WriteEnds(m) \/ WriteFails(m)
    BY <1>1, <2>3, GoneCounts DEF WriteEnds, WriteFails, CleanupWr
  <2>4. CASE WriteRepeatsAck(m)
    <3>1. CASE UNCHANGED <<xfer, file_SD, file_CR, store, clean>>
      BY <1>1, <3>1 DEF Steady
    <3>2. CASE CleanupWr(p, <<>>) /\ xfer' = Gone(p)
      BY <1>1, <3>2, GoneCounts DEF CleanupWr
    <3> QED BY <2>4, <3>1, <3>2 DEF WriteRepeatsAck
  <2> QED BY <2>2, <2>3, <2>4
<1>6. \E o : SendsElse(o)
  <2> DEFINE n == xfer[p].block
             o == {Ack(m.peer, p, n), Ack(m.peer, p, n + 1), Error(m.peer, p)}
  <2>1. net' \subseteq net \cup o
    <3>1. CASE WriteStores(m)
      BY <3>1 DEF WriteStores, Exchange
    <3>2. CASE WriteEnds(m)
      BY <3>2 DEF WriteEnds, Exchange
    <3>3. CASE WriteFails(m)
      BY <3>3 DEF WriteFails, Exchange
    <3>4. CASE WriteRepeatsAck(m)
      BY <3>4 DEF WriteRepeatsAck, Exchange
    <3> QED BY <3>1, <3>2, <3>3, <3>4
  <2>2. \A x \in o : ~Token(x)
    BY <1>2, Constants DEF Token, Ack, Error, Msg
  <2>3. SendsElse(o)
    BY <2>1, <2>2 DEF SendsElse
  <2> QED BY <2>3
<1> HIDE DEF p
<1> QED BY <1>1, <1>2, <1>4, <1>5, <1>6, OthersRead

LEMMA ServeKeepsRead ==
  ASSUME TInv, Once, Read, NoWrap, "REQ" \notin Repeats, "rdACK" \notin Repeats,
         NEW m \in net, Serve(m)
  PROVE  Read'
<1>1. CASE ServeNoPcb(m) \/ NoReceiver(m)
  <2>1. UNCHANGED <<xfer, file_SD, clean, cl>> /\ net' \subseteq net
    BY <1>1 DEF ServeNoPcb, NoReceiver, Exchange
  <2> QED BY <2>1, DroppedRead
<1>2. ASSUME NEW p \in Ports,
             \/ ServeUnknown(m, p) \/ ServeNoVolume(m, p) \/ ServeRefused(m, p)
             \/ ServeRead(m, p) \/ ServeWrite(m, p)
      PROVE  Read'
  BY <1>2, RequestRead, ServeReadRead
<1>3. CASE ReadEnds(m) \/ ReadContinues(m)
  BY <1>3, ReadEndsRead, ReadContinuesRead
<1>4. CASE WriteStores(m) \/ WriteEnds(m) \/ WriteFails(m) \/ WriteRepeatsAck(m)
  BY <1>4, WriteRead
<1> QED BY <1>1, <1>2, <1>3, <1>4 DEF Serve

\* A step of client c whose own record and datagrams are right.
LEMMA ClientRead ==
  ASSUME TInv, Read, NEW c \in Clients, UNCHANGED <<xfer, file_SD, clean>>,
         \A d \in Clients \ {c} : cl'[d] = cl[d],
         c \in Readers => ClientHas(c)',
         OneToken', \A o \in net' : (o \in net /\ o.peer # c) \/ TokenSays(o)'
  PROVE  Read'
<1>1. ASSUME NEW o \in net'
      PROVE  TokenSays(o)'
  BY Constants DEF Read, TokenSays, Token, Block
<1>2. \A p \in Ports : PortReads(p)'
  BY DEF Read, PortReads
<1>3. ASSUME NEW d \in Readers
      PROVE  ClientHas(d)'
  <2>1. CASE d = c
    BY <2>1
  <2>2. CASE d # c
    <3>1. ClientHas(d) /\ cl'[d] = cl[d]
      BY <2>2, Constants DEF Read
    <3> QED BY <3>1 DEF ClientHas, FileOf, Block
  <2> QED BY <2>1, <2>2
<1> QED BY <1>1, <1>2, <1>3 DEF Read

\* A client that does not read, or goes no further, and sends nothing to read.
LEMMA ClientElse ==
  ASSUME TInv, Read, NEW c \in Clients, UNCHANGED <<xfer, file_SD, clean>>,
         \A d \in Clients \ {c} : cl'[d] = cl[d],
         c \in Readers => ClientHas(c)',
         c \in Readers => cl'[c].next = cl[c].next \/ \A o \in net : Token(o) => o.peer # c,
         NEW out, SendsElse(out)
  PROVE  Read'
<1>1. OneToken'
  BY DEF Read, OneToken, Token, SendsElse
<1>2. ASSUME NEW o \in net'
      PROVE  (o \in net /\ o.peer # c) \/ TokenSays(o)'
  <2>1. SUFFICES ASSUME Token(o), o \in net, o.peer = c PROVE TokenSays(o)'
    BY DEF SendsElse, TokenSays, Token
  <2> QED BY <2>1 DEF Read, TokenSays, Token, Block
<1> QED BY <1>1, <1>2, ClientRead

LEMMA StartRead ==
  ASSUME TInv, Once, Read, NEW c \in Clients, Start(c)
  PROVE  Read'
<1> DEFINE o == Msg(RequestOf(c), c, 69, 0, NoBlock)
<1>1. /\ cl[c] \in ClType /\ cl[c].st = "idle" /\ cl[c].port = 0
      /\ c \in Readers => cl[c].got = <<>>
  BY DEF Start, TInv, Typed, Home, Read, ClientHas
<1>2. /\ cl'[c].port = 0 /\ cl'[c].got = cl[c].got
      /\ c \in Readers => cl'[c].next = 1
      /\ \A d \in Clients \ {c} : cl'[d] = cl[d]
  BY <1>1 DEF Start, TInv, Typed, ClType
<1>3. c \in Readers => ClientHas(c)'
  BY <1>1, <1>2 DEF ClientHas
<1>4. \A x \in net : Token(x) => x.peer # c
  BY <1>1 DEF Once, TInv, Route, Token
<1>5. SendsElse({o}) /\ UNCHANGED <<xfer, file_SD, clean>>
  BY DEF SendsElse, Token, Start, Msg, RequestOf
<1> HIDE DEF o
<1> QED BY <1>2, <1>3, <1>4, <1>5, ClientElse

LEMMA StopRead ==
  ASSUME TInv, Read, NEW c \in Clients, NEW st \in {"done", "failed", "dead"},
         cl' = [cl EXCEPT ![c].st = st], net' \subseteq net, cl[c].st = "wait",
         c \in Readers => st # "done", UNCHANGED <<xfer, file_SD, clean>>
  PROVE  Read'
<1>1. /\ cl'[c].st = st /\ cl'[c].port = cl[c].port /\ cl'[c].next = cl[c].next
      /\ cl'[c].got = cl[c].got /\ \A d \in Clients \ {c} : cl'[d] = cl[d]
  BY DEF TInv, Typed, ClType
<1>2. c \in Readers => ClientHas(c)'
  BY <1>1 DEF Read, ClientHas, FileOf, Block
<1>3. SendsElse({})
  BY DEF SendsElse
<1> QED BY <1>1, <1>2, <1>3, ClientElse

LEMMA WriterRead ==
  ASSUME TInv, Read, NEW c \in Clients, NEW m \in net, ClientAck(c, m)
  PROVE  Read'
<1>1. /\ c \notin Readers /\ UNCHANGED <<xfer, file_SD, clean>>
      /\ \A d \in Clients \ {c} : cl'[d] = cl[d]
  BY Constants DEF ClientAck, TInv, Typed
<1>2. \E out : SendsElse(out)
  <2> DEFINE n == cl[c].next + 1
             o == Data(c, m.port, n, Block(c, n))
  <2>1. net' \subseteq net \cup {o}
    BY DEF ClientAck, Exchange
  <2>2. \A x \in {o} : ~Token(x)
    BY <1>1 DEF Token, Data, Msg
  <2> HIDE DEF o
  <2>3. SendsElse({o})
    BY <2>1, <2>2 DEF SendsElse
  <2> QED BY <2>3
<1> QED BY <1>1, <1>2, ClientElse

\* The next block arrives: it is the one the reader waits for.
LEMMA BlockRead ==
  ASSUME TInv, Read, NoWrap, NoWrap', "rdDATA" \notin Repeats, NEW c \in Clients, NEW m \in net,
         ClientData(c, m)
  PROVE  Read'
<1> DEFINE n == cl[c].next
           p == m.port
           old == cl[c]
           o == Ack(c, p, n)
<1>1. /\ c \in Readers /\ m.type = "DATA" /\ Mine(c, m) /\ m \in MsgType /\ old \in ClType
      /\ m.peer = c /\ p \in Ports /\ p # 0 /\ xfer[p].peer = c /\ old.st = "wait"
      /\ old.port \in {0, p} /\ n \in Nat
      /\ UNCHANGED <<xfer, file_SD, clean>>
  BY Constants DEF ClientData, TInv, Typed, Mine, Route, Active, ClType
<1>2. Token(m) /\ KindOf(m) = "rdDATA"
  BY <1>1 DEF Token, KindOf
<1>3. /\ m.blk = n /\ m.blk = xfer[p].block
      /\ clean[p] => n <= Blocks + 1 /\ m.data = Block(c, n)
  BY <1>1, <1>2 DEF Read, TokenSays
<1>4. /\ cl' = [cl EXCEPT ![c].port = p, ![c].next = @ + 1,
                          ![c].got = IF m.data = NoBlock THEN @ ELSE Append(@, m.data),
                          ![c].st = IF Short(m.data) THEN "done" ELSE @]
      /\ net' \subseteq (net \ {m}) \cup {o}
  <2>1. n > 1 => (n - 1) % BlockMod # n
    BY <1>1, ModRange
  <2>2. Exchange(m, {o}) => net' \subseteq (net \ {m}) \cup {o}
    BY <1>2 DEF Exchange
  <2> QED BY <1>3, <2>1, <2>2 DEF ClientData
<1>5. /\ cl'[c].port = p /\ cl'[c].next = n + 1
      /\ cl'[c].got = IF m.data = NoBlock THEN old.got ELSE Append(old.got, m.data)
      /\ cl'[c].st = IF Short(m.data) THEN "done" ELSE "wait"
      /\ \A d \in Clients \ {c} : cl'[d] = cl[d]
  BY <1>1, <1>4 DEF TInv, Typed, ClType
<1>6. /\ o.peer = c /\ o.port = p /\ o.type = "ACK" /\ o.blk = n
  BY <1>1, ModRange DEF Ack, Msg, NoWrap
<1>7. ClientHas(c)'
  <2>1. SUFFICES ASSUME clean[p]
                 PROVE  /\ n + 1 \in 2 .. Blocks + 2
                        /\ cl'[c].got = SubSeq(FileOf(c), 1, n)
                        /\ cl'[c].st = "done" => n + 1 = Blocks + 2
    <3>1. clean' = clean /\ (n + 1) - 1 = n /\ p # 0 /\ cl'[c].port = p
          /\ cl'[c].next = n + 1
      BY <1>1, <1>5
    <3>2. ~clean[p] => ClientHas(c)'
      BY <1>5, <3>1 DEF ClientHas
    <3>3. (FileOf(c) = FileOf(c)')
      BY DEF FileOf, Block
    <3>4. /\ n + 1 \in 2 .. Blocks + 2
          /\ cl'[c].got = SubSeq(FileOf(c), 1, n)
          /\ cl'[c].st = "done" => n + 1 = Blocks + 2
          => ClientHas(c)'
      BY <1>5, <3>1, <3>3 DEF ClientHas
    <3> QED BY <3>2, <3>4, <2>1
  <2>2. n >= 1 /\ old.got = SubSeq(FileOf(c), 1, n - 1)
    <3>1. ClientHas(c)
      BY <1>1 DEF Read
    <3>2. CASE old.port = 0
      <4>1. n = 1 /\ old.got = <<>>
        BY <1>1, <3>1, <3>2 DEF ClientHas
      <4> QED BY <4>1, SubSeqEmpty
    <3>3. CASE old.port = p
      BY <1>1, <2>1, <3>1, <3>3, Constants DEF ClientHas
    <3> QED BY <1>1, <3>2, <3>3
  <2>3. n - 1 \in 0 .. Blocks /\ m.data = Block(c, (n - 1) + 1)
    BY <1>1, <1>3, <2>1, <2>2, Constants
  <2>4. m.data # NoBlock /\ (Short(m.data) <=> n = Blocks + 1)
    BY <1>1, <2>2, <2>3, Constants DEF Short, Block, NoBlock
  <2>5. Append(old.got, m.data) = SubSeq(FileOf(c), 1, (n - 1) + 1)
    BY <2>2, <2>3, FileGrows
  <2>6. (n - 1) + 1 = n /\ n + 1 \in 2 .. Blocks + 2
    BY <1>1, <2>3, Constants
  <2> QED BY <1>1, <1>5, <2>4, <2>5, <2>6, Constants
<1>8. OneToken'
  <2>1. \A x \in net : Token(x) /\ x.peer = c => x = m
    BY <1>1, <1>2 DEF Read, OneToken
  <2> HIDE DEF o
  <2>2. \A x \in net' : Token(x) => x = o \/ (x \in net /\ x.peer # c)
    BY <1>4, <2>1
  <2> QED BY <1>6, <2>2 DEF Read, OneToken, Token
<1>9. ASSUME NEW x \in net'
      PROVE  (x \in net /\ x.peer # c) \/ TokenSays(x)'
  <2>1. CASE x = o
    BY <1>1, <1>3, <1>5, <1>6, <2>1 DEF TokenSays
  <2>2. CASE x \in net /\ x # m
    BY <1>1, <1>2, <2>2 DEF Read, OneToken, TokenSays, Token
  <2> QED BY <1>4, <2>1, <2>2
<1> HIDE DEF n, p, old, o
<1> QED BY <1>1, <1>5, <1>7, <1>8, <1>9, ClientRead

LEMMA NextRead ==
  ASSUME {"REQ", "rdACK", "rdDATA"} \cap Repeats = {},
         TInv, NoWrap, NoWrap', Once, Read, [Next]_vars
  PROVE  Read'
<1>0. "REQ" \notin Repeats /\ "rdACK" \notin Repeats /\ "rdDATA" \notin Repeats
  OBVIOUS
<1>1. ASSUME NEW m \in net, Serve(m)
      PROVE  Read'
  BY <1>0, <1>1, ServeKeepsRead
<1>2. ASSUME NEW c \in Clients, Start(c)
      PROVE  Read'
  BY <1>2, StartRead
<1>3. ASSUME NEW c \in Clients, Die(c)
      PROVE  Read'
  BY <1>3, StopRead DEF Die, Active
<1>4. ASSUME NEW c \in Clients, NEW m \in net, ClientError(c, m)
      PROVE  Read'
  <2>1. /\ cl' = [cl EXCEPT ![c].st = "failed"] /\ net' \subseteq net
        /\ cl[c].st = "wait" /\ UNCHANGED <<xfer, file_SD, clean>>
    BY <1>4, ExchangeAdds DEF ClientError, Mine, Active
  <2> QED BY <2>1, StopRead
<1>5. ASSUME NEW c \in Clients, NEW m \in net, ClientIgnores(c, m)
      PROVE  Read'
  <2>1. UNCHANGED <<xfer, file_SD, clean, cl>> /\ net' \subseteq net
    BY <1>5, ExchangeAdds DEF ClientIgnores
  <2> QED BY <2>1, DroppedRead
<1>6. CASE UNCHANGED vars
  <2>1. UNCHANGED <<xfer, file_SD, clean, cl>> /\ net' = net
    BY <1>6 DEF vars
  <2> QED BY <2>1, DroppedRead
<1> QED BY <1>0, <1>1, <1>2, <1>3, <1>4, <1>5, <1>6, BlockRead, WriterRead
        DEF Next, Server, Client
-----------------------------------------------------------------------------
(* The theorems.                                                           *)

LEMMA InitKept == Init => Once /\ Kept
<1> SUFFICES ASSUME Init PROVE Once /\ Kept
  OBVIOUS
<1>1. \A p \in Ports : xfer[p].st = "unused" /\ xfer[p].peer = "none"
  BY DEF Init, FreePort
<1>2. ~file_CR.valid
  BY DEF Init, Closed
<1>3. \A p \in Ports : xfer[p].peer \notin Writers /\ xfer[p].peer \notin Clients
  BY <1>1, Constants
<1> QED BY <1>1, <1>2, <1>3, Constants DEF Init, Once, Kept, OwnerKept, PortKept, ClKept

LEMMA KeptIsStored == TInv /\ SInv /\ Kept => AckedIsStored
<1> SUFFICES ASSUME TInv, SInv, Kept, NEW c \in Writers, Serving(c), clean[cl[c].port]
             PROVE  LET p == cl[c].port IN
                      IF xfer[p].st = "wr"
                      THEN /\ file_CR.valid /\ file_CR.of = c
                           /\ file_CR.data = SubSeq(FileOf(c), 1, xfer[p].block)
                           /\ xfer[p].block >= cl[c].next - 1 /\ cl[c].st = "wait"
                      ELSE store[c] = FileOf(c)
  BY DEF AckedIsStored
<1> DEFINE p == cl[c].port
<1>1. c \in Clients /\ cl[c] \in ClType /\ p # 0 /\ cl[c].st \in {"wait", "done"}
  BY Constants DEF TInv, Typed, Serving
<1>2. /\ p \in Ports /\ xfer[p].peer = c /\ xfer[p].block \in Nat /\ cl[c].next \in Nat
      /\ Answered(p) /\ PortKept(p) /\ ClKept(c)
  BY <1>1, Constants DEF TInv, Typed, ClType, XferType, Home, Kept, ClKept
<1>3. xfer[p].block >= cl[c].next - 1
  BY <1>1, <1>2 DEF SInv, Paired
<1>4. xfer[p].st = "wr" => cl[c].st = "wait"
  BY <1>1, <1>2, Constants DEF ClKept, PortKept
<1> QED BY <1>2, <1>3, <1>4 DEF PortKept, Answered

(* As long as requests arrive once, the disk has space and no number has   *)
(* come to 2^16, wrq_recv_callback has in the file what it acknowledged,   *)
(* once and in order, until tftp_cleanup_wr records all of it.             *)
THEOREM StoresWhatItAcks ==
  ASSUME "REQ" \notin Repeats, ~DiskFills
  PROVE  Spec /\ []NoWrap => []AckedIsStored
<1>1. TInv /\ TInv' /\ SInv /\ NoWrap /\ NoWrap' /\ Once /\ Kept /\ [Next]_vars
        => SInv' /\ Once' /\ Kept'
  BY NextInv, NextOnce, NextKept
<1>2. Init => SInv /\ Once /\ Kept
  BY InitSInv, InitKept
<1> QED BY <1>1, <1>2, KeptIsStored, TftpTyped, PTL DEF Spec

LEMMA InitRead == Init => Read
<1> SUFFICES ASSUME Init PROVE Read
  OBVIOUS
<1>1. \A p \in Ports : xfer[p].st = "unused"
  BY DEF Init, FreePort
<1>2. \A p \in Ports : PortReads(p)
  BY <1>1 DEF PortReads
<1>3. \A c \in Readers : ClientHas(c)
  BY Constants DEF Init, ClientHas
<1> QED BY <1>2, <1>3 DEF Init, Read, OneToken

LEMMA ReadIsRead == TInv /\ Read => ReaderGetsFile
<1> SUFFICES ASSUME TInv, Read, NEW c \in Readers, Serving(c), clean[cl[c].port]
             PROVE  /\ IsPrefix(cl[c].got, FileOf(c))
                    /\ cl[c].st = "done" => cl[c].got = FileOf(c)
  BY DEF ReaderGetsFile
<1> DEFINE f == FileOf(c)
           k == cl[c].next - 1
<1>1. k \in 1 .. Blocks + 1 /\ cl[c].got = SubSeq(f, 1, k)
      /\ (cl[c].st = "done" => k = Blocks + 1)
  BY Constants DEF Read, ClientHas, Serving
<1>2. SubSeq(f, 1, Blocks + 1) = f
  <2>1. 0 \in 0 .. Blocks /\ c \in Clients
    BY Constants
  <2> QED BY <2>1, FileGrows DEF FileOf
<1>3. Len(f) = Blocks + 1 /\ Len(SubSeq(f, 1, k)) = k
  BY <1>1, Constants DEF FileOf
<1>4. SubSeq(SubSeq(f, 1, k), 1, k) = SubSeq(f, 1, k)
  BY <1>1, Constants DEF FileOf
<1> HIDE DEF f, k
<1>5. IsPrefix(cl[c].got, f)
  BY <1>1, <1>3, <1>4, Constants DEF IsPrefix
<1> QED BY <1>1, <1>2, <1>5 DEF f

(* As long as the datagrams of readers arrive once, rrq_recv_callback      *)
(* sends a reader the blocks of its file, each once and in order, and the  *)
(* short one last: file_SD stays behind the block that both ends count.    *)
THEOREM SendsTheFile ==
  ASSUME {"REQ", "rdACK", "rdDATA"} \cap Repeats = {}
  PROVE  Spec /\ []NoWrap => []ReaderGetsFile
<1>1. TInv /\ NoWrap /\ NoWrap' /\ Once /\ Read /\ [Next]_vars => Once' /\ Read'
  BY NextOnce, NextRead
<1>2. Init => Once /\ Read
  BY InitKept, InitRead
<1> QED BY <1>1, <1>2, ReadIsRead, TftpTyped, PTL DEF Spec

-----------------------------------------------------------------------------
(* The datagram a transfer waits for.                                      *)

\* The server's last answer, on its way to the client.
Out(m, p) ==
  /\ m.port = p /\ m.peer = xfer[p].peer /\ m.blk = xfer[p].block
  /\ m.type = IF m.peer \in Readers THEN "DATA" ELSE "ACK"

\* What the client sends back for it.
Back(m, p) ==
  /\ m.port = p /\ m.peer = xfer[p].peer
  /\ IF m.peer \in Readers THEN m.type = "ACK" /\ m.blk = xfer[p].block
                           ELSE m.type = "DATA" /\ m.blk = xfer[p].block + 1

\* A transfer goes on with a live client, and one of the two is under way.
Due(p) ==
  LET c == xfer[p].peer
      n == cl[c].next
  IN xfer[p].st \in {"rd", "wr"} /\ cl[c].st # "dead" =>
       /\ xfer[p].st = "wr" => xfer[p].block <= Blocks
       /\ \/ xfer[p].block = n /\ cl[c].st = "wait" /\ \E m \in net : Out(m, p)
          \/ /\ xfer[p].block = n - 1 /\ \E m \in net : Back(m, p)
             /\ cl[c].st = "wait" \/ (cl[c].st = "done" /\ xfer[p].st = "rd" /\ xfer[p].short)

\* A transfer is due after a step that leaves the last answer under way.
LEMMA OutIsDue ==
  ASSUME NEW p \in Ports, NEW o, o \in net', Out(o, p)', NEW c, c = xfer'[p].peer,
         cl'[c].st \in {"wait", "dead"}, cl'[c].next = xfer'[p].block,
         xfer'[p].st = "wr" /\ cl'[c].st = "wait" => xfer'[p].block <= Blocks
  PROVE  Due(p)'
BY DEF Due

\* So it is after one that leaves what the client sends back.
LEMMA BackIsDue ==
  ASSUME NEW p \in Ports, NEW o, o \in net', Back(o, p)', NEW c, c = xfer'[p].peer,
         cl'[c].st = "wait" \/ (cl'[c].st = "done" /\ xfer'[p].st = "rd" /\ xfer'[p].short),
         xfer'[p].block = cl'[c].next - 1,
         xfer'[p].st = "wr" => xfer'[p].block <= Blocks
  PROVE  Due(p)'
BY DEF Due

\* What is due before it.
LEMMA DueSays ==
  ASSUME NEW p \in Ports, Due(p), xfer[p].st \in {"rd", "wr"}, NEW c, c = xfer[p].peer,
         cl[c].st # "dead"
  PROVE  /\ xfer[p].st = "wr" => xfer[p].block <= Blocks
         /\ \/ xfer[p].block = cl[c].next /\ cl[c].st = "wait"
            \/ /\ xfer[p].block = cl[c].next - 1 /\ \E t \in net : Back(t, p)
               /\ cl[c].st = "wait" \/ (cl[c].st = "done" /\ xfer[p].st = "rd" /\ xfer[p].short)
BY DEF Due

\* What a datagram says about its sender.
Tells(m) ==
  /\ Request(m) => cl[m.peer].st \in {"wait", "dead"} /\ cl[m.peer].next = First(m.peer)
  /\ m.type = "ERROR" => xfer[m.port].st = "gone" /\ xfer[m.port].peer = m.peer
  /\ m.type = "DATA" /\ m.peer \in Writers => m.data = Block(m.peer, m.blk)
  /\ m.type = "DATA" /\ m.peer \in Readers /\ Short(m.data) /\ xfer[m.port].st = "rd" =>
       xfer[m.port].short

Goes == ~wild => (\A p \in Ports : Due(p)) /\ (\A m \in net : Tells(m))

\* Initially no port is in use and nothing is under way.
LEMMA InitGoes == Init => Goes
<1> SUFFICES ASSUME Init PROVE Goes
  OBVIOUS
<1>1. \A p \in Ports : xfer[p].st = "unused"
  BY DEF Init, FreePort
<1> QED BY <1>1 DEF Init, Goes, Due

\* With nothing under way a live client's transfer could not be due.
LEMMA GoesNoOrphan == TInv /\ Goes => NoOrphan
<1> SUFFICES ASSUME TInv, Goes, net = {}, ~wild, NEW p \in Ports, xfer[p].st \in {"rd", "wr"}
             PROVE  cl[xfer[p].peer].st = "dead"
  BY DEF NoOrphan
<1> QED BY DEF Goes, Due

-----------------------------------------------------------------------------
(* What a step leaves alone.                                               *)

\* The datagram m may be gone, those of out are there.
Passes(m, out) == net \ {m} \subseteq net' /\ out \subseteq net' /\ net' \subseteq net \cup out

\* A datagram received is gone, or stays to arrive again.
LEMMA ExchangePasses ==
  ASSUME NEW m, NEW out, Exchange(m, out)
  PROVE  Passes(m, out)
BY DEF Exchange, Passes

\* A transfer whose two ends do nothing, and whose datagram stays.
LEMMA DueStays ==
  ASSUME TInv, NEW p \in Ports, Due(p), xfer'[p] = xfer[p],
         cl'[xfer[p].peer] = cl[xfer[p].peer],
         \A m \in net : Out(m, p) \/ Back(m, p) => m \in net'
  PROVE  Due(p)'
<1>1. ASSUME xfer[p].st \in {"rd", "wr"}, cl[xfer[p].peer].st # "dead"
      PROVE  Due(p)'
  <2>1. CASE \E m \in net : Out(m, p)
    <3>1. PICK m \in net : Out(m, p)
      BY <2>1
    <3>2. m \in net' /\ Out(m, p)'
      BY <3>1 DEF Out
    <3>3. CASE \E o \in net : Back(o, p)
      <4>1. PICK o \in net : Back(o, p)
        BY <3>3
      <4>2. o \in net' /\ Back(o, p)'
        BY <4>1 DEF Back
      <4> QED BY <1>1, <3>2, <4>2 DEF Due
    <3>4. CASE ~ \E o \in net : Back(o, p)
      BY <1>1, <3>2, <3>4 DEF Due
    <3> QED BY <3>3, <3>4
  <2>2. CASE ~ \E m \in net : Out(m, p)
    <3>1. PICK o \in net : Back(o, p)
      BY <1>1, <2>2 DEF Due
    <3>2. o \in net' /\ Back(o, p)'
      BY <3>1 DEF Back
    <3> QED BY <1>1, <2>2, <3>2 DEF Due
  <2> QED BY <2>1, <2>2
<1> QED BY <1>1 DEF Due

\* A datagram that was under way, when only the transfer p changed.
LEMMA TellsStays ==
  ASSUME TInv, NEW m \in net, Tells(m), cl' = cl,
         NEW p \in Ports, xfer'[p].peer = xfer[p].peer \/ xfer[p].st = "unused",
         \A q \in Ports \ {p} : xfer'[q] = xfer[q],
         xfer[p].st = "gone" => xfer'[p].st = "gone",
         xfer'[p].st = "rd" =>
           xfer[p].st = "unused" \/ (xfer[p].st = "rd" /\ (xfer[p].short => xfer'[p].short))
  PROVE  Tells(m)'
<1>1. Route(m) /\ m \in MsgType
  BY DEF TInv, Typed
<1>2. xfer[p].st = "unused" => xfer[p].peer = "none" /\ xfer[p].peer \notin Clients
  BY Constants DEF TInv, Place
<1>3. m.type \in {"DATA", "ERROR"} => m.port \in Ports
  BY <1>1 DEF Route
<1>4. m.peer \in Clients
  BY <1>1 DEF MsgType
<1>5. m.type = "DATA" => xfer[m.port].peer = m.peer
  BY <1>1 DEF Route
<1>6. m.type = "ERROR" => xfer'[m.port].st = "gone" /\ xfer'[m.port].peer = m.peer
  BY <1>2, <1>3, <1>4 DEF Tells
<1>7. m.type = "DATA" /\ m.peer \in Readers /\ Short(m.data) /\ xfer'[m.port].st = "rd" => xfer'[m.port].short
  <2>1. CASE m.port = p
    BY <1>2, <1>3, <1>4, <1>5, <2>1 DEF Tells
  <2>2. CASE m.port # p
    BY <1>3, <2>2 DEF Tells
  <2> QED BY <2>1, <2>2
<1> QED BY <1>6, <1>7 DEF Tells, Request, First, Short, Block, NoBlock

\* The transfer p and the datagrams sent for it are all a callback has to keep.
LEMMA CallbackGoes ==
  ASSUME TInv, Goes, ~wild, NEW m \in net, NEW p \in Ports, m.port = p \/ Request(m),
         NEW out, Passes(m, out), cl' = cl,
         xfer'[p].peer = xfer[p].peer \/ xfer[p].st = "unused",
         \A q \in Ports \ {p} : xfer'[q] = xfer[q],
         xfer[p].st = "gone" => xfer'[p].st = "gone",
         xfer'[p].st = "rd" =>
           xfer[p].st = "unused" \/ (xfer[p].st = "rd" /\ (xfer[p].short => xfer'[p].short)),
         \A o \in out : Tells(o)',
         Due(p)'
  PROVE  Goes'
<1>1. ASSUME NEW q \in Ports PROVE Due(q)'
  <2>1. CASE q # p
    <3>1. \A o \in net : Out(o, q) \/ Back(o, q) => o \in net'
      <4>1. \A o \in net : Out(o, q) \/ Back(o, q) => o # m
        BY <2>1 DEF Out, Back, Request
      <4> QED BY <4>1 DEF Passes
    <3>2. Due(q) /\ xfer'[q] = xfer[q]
      BY <2>1 DEF Goes
    <3> QED BY <3>1, <3>2, DueStays
  <2> QED BY <2>1
<1>2. ASSUME NEW o \in net' PROVE Tells(o)'
  <2>1. CASE o \in out
    BY <2>1
  <2>2. CASE o \in net
    BY <2>2, TellsStays DEF Goes
  <2> QED BY <2>1, <2>2 DEF Passes
<1> QED BY <1>1, <1>2 DEF Goes

\* A transfer that has ended needs nothing.
LEMMA EndedDue ==
  ASSUME NEW p \in Ports, xfer'[p].st \notin {"rd", "wr"}
  PROVE  Due(p)'
BY DEF Due

\* A request: its client has no port, and counts from the start.
LEMMA RequestFresh ==
  ASSUME TInv, Goes, ~wild, Once, NEW m \in net, Request(m)
  PROVE  /\ m.peer \in Clients /\ cl[m.peer].st \in {"wait", "dead"}
         /\ cl[m.peer].next = First(m.peer)
BY DEF TInv, Typed, MsgType, Goes, Tells

\* A request served: an error, a stuck pcb, or the first datagram of a transfer.
LEMMA RequestGoes ==
  ASSUME TInv, Goes, ~wild, Once, NoWrap, NEW m \in net, NEW p \in Ports,
         \/ ServeUnknown(m, p) \/ ServeNoVolume(m, p) \/ ServeRefused(m, p)
         \/ ServeRead(m, p) \/ ServeWrite(m, p)
  PROVE  Goes'
<1> DEFINE c == m.peer
<1>1. Request(m) /\ cl' = cl /\ NewPcb(p) /\ xfer \in [Ports -> XferType]
  BY DEF ServeUnknown, ServeNoVolume, ServeRefused, ServeRead, ServeWrite, Request, TInv, Typed
<1>2. xfer[p].st = "unused" /\ c \in Clients
      /\ cl[c].st \in {"wait", "dead"} /\ cl[c].next = First(c)
  BY <1>1, NewPcbUnused, RequestFresh
<1>3. CASE ServeUnknown(m, p) \/ ServeNoVolume(m, p) \/ ServeRefused(m, p)
  <2>1. PICK st \in {"gone", "stuck"} : xfer' = [xfer EXCEPT ![p] = [FreePort EXCEPT !.st = st, !.peer = c]]
                /\ (Exchange(m, {}) \/ (st = "gone" /\ Exchange(m, {Error(c, p)})))
    BY <1>3 DEF ServeUnknown, ServeNoVolume, ServeRefused
  <2>2. xfer'[p].st = st /\ xfer'[p].peer = c /\ \A q \in Ports \ {p} : xfer'[q] = xfer[q]
    BY <1>1, <2>1 DEF FreePort
  <2>3. Due(p)'
    BY <2>2, EndedDue
  <2>4. CASE Exchange(m, {})
    <3>1. Passes(m, {})
      BY <2>4, ExchangePasses
    <3> QED BY <1>1, <1>2, <2>2, <2>3, <3>1, CallbackGoes
  <2>5. CASE st = "gone" /\ Exchange(m, {Error(c, p)})
    <3>1. Passes(m, {Error(c, p)})
      BY <2>5, ExchangePasses
    <3>2. Tells(Error(c, p))'
      BY <2>2, <2>5 DEF Tells, Error, Msg, Request
    <3> QED BY <1>1, <1>2, <2>2, <2>3, <3>1, <3>2, CallbackGoes
  <2> QED BY <2>1, <2>4, <2>5
<1>4. CASE ServeRead(m, p)
  <2> DEFINE b == ReadBlock(Opened(c))
             o == Data(c, p, 1, b)
  <2>1. /\ m.type = "RRQ" /\ Exchange(m, {o})
        /\ xfer' = [[xfer EXCEPT ![p] = [FreePort EXCEPT !.st = "rd", !.peer = c]]
                      EXCEPT ![p].block = 1, ![p].short = Short(b)]
    BY <1>4 DEF ServeRead, SendNextBlock
  <2>2. c \in Readers /\ c \notin Writers /\ cl[c].next = 1
    BY <1>2, <2>1, Constants DEF TInv, Route, First
  <2>3. 1 < BlockMod
    BY <1>2, <2>2 DEF NoWrap
  <2>4. o.type = "DATA" /\ o.peer = c /\ o.port = p /\ o.blk = 1 /\ o.data = b
    BY <2>3, ModRange DEF Data, Msg
  <2> HIDE DEF b
  <2>5. /\ xfer'[p].st = "rd" /\ xfer'[p].peer = c /\ xfer'[p].block = 1 /\ xfer'[p].short = Short(b)
        /\ \A q \in Ports \ {p} : xfer'[q] = xfer[q]
    BY <1>1, <2>1 DEF FreePort
  <2> HIDE DEF o
  <2>6. Passes(m, {o})
    BY <2>1, ExchangePasses
  <2>7. Out(o, p)' /\ o \in net'
    BY <2>2, <2>4, <2>5, <2>6 DEF Out, Passes
  <2>8. Due(p)'
    BY <1>1, <1>2, <2>2, <2>5, <2>7 DEF Due
  <2>9. Tells(o)'
    BY <2>2, <2>4, <2>5 DEF Tells, Request, Short, NoBlock
  <2> QED BY <1>1, <1>2, <2>5, <2>6, <2>8, <2>9, CallbackGoes
<1>5. CASE ServeWrite(m, p)
  <2> DEFINE o == Ack(c, p, 0)
  <2>1. /\ m.type = "WRQ" /\ Exchange(m, {o})
        /\ xfer' = [xfer EXCEPT ![p] = [FreePort EXCEPT !.st = "wr", !.peer = c]]
    BY <1>5 DEF ServeWrite
  <2>2. c \in Writers /\ c \notin Readers /\ cl[c].next = 0
    BY <1>2, <2>1, Constants DEF TInv, Route, First
  <2>3. o.type = "ACK" /\ o.peer = c /\ o.port = p /\ o.blk = 0
    BY Constants, ModRange DEF Ack, Msg
  <2>4. /\ xfer'[p].st = "wr" /\ xfer'[p].peer = c /\ xfer'[p].block = 0
        /\ \A q \in Ports \ {p} : xfer'[q] = xfer[q]
    BY <1>1, <2>1 DEF FreePort
  <2> HIDE DEF o
  <2>5. Passes(m, {o})
    BY <2>1, ExchangePasses
  <2>6. Out(o, p)' /\ o \in net'
    BY <2>2, <2>3, <2>4, <2>5 DEF Out, Passes
  <2>7. Due(p)'
    BY <1>1, <1>2, <2>2, <2>4, <2>6, Constants DEF Due
  <2>8. Tells(o)'
    BY <2>3 DEF Tells, Request
  <2> QED BY <1>1, <1>2, <2>4, <2>5, <2>7, <2>8, CallbackGoes
<1> QED BY <1>3, <1>4, <1>5

\* A datagram of a transfer that the server takes.
LEMMA Arrives ==
  ASSUME TInv, SInv, Goes, ~wild, NEW m \in net, ToServer(m), NEW p \in Ports, p = m.port,
         xfer[p].st \in {"rd", "wr"}
  PROVE  LET c == m.peer
         IN /\ m.type \in {"ACK", "DATA"} /\ c \in Clients /\ xfer[p].peer = c /\ Tells(m)
            /\ (xfer[p].st = "rd" => c \in Readers /\ c \notin Writers /\ m.type = "ACK")
            /\ (xfer[p].st = "wr" => c \in Writers /\ c \notin Readers /\ m.type = "DATA")
            /\ cl[c].next \in Nat /\ xfer[p].block \in Nat /\ m.blk \in Nat
            /\ xfer[p].block \in {cl[c].next - 1, cl[c].next}
            /\ (m.type = "ACK" => m.blk < cl[c].next) /\ (m.type = "DATA" => m.blk <= cl[c].next)
<1> DEFINE c == m.peer
<1>1. m \in MsgType /\ Route(m) /\ Place(p) /\ Number(m) /\ Paired(p) /\ xfer[p] \in XferType
  BY DEF TInv, SInv, Typed
<1>2. m.port # 69 /\ m.type \in {"ACK", "DATA"}
  BY <1>1, Constants DEF Route, ToServer
<1>3. xfer[p].peer = c /\ c \in Readers \cup Writers /\ cl[c].port = p /\ c \in Clients
  BY <1>1, <1>2, Constants DEF Route
<1>4. cl[c] \in ClType
  BY <1>3 DEF TInv, Typed
<1>5. (xfer[p].st = "rd" => c \in Readers /\ c \notin Writers /\ m.type = "ACK")
  BY <1>1, <1>2, <1>3, Constants DEF Place, ToServer
<1>6. (xfer[p].st = "wr" => c \in Writers /\ c \notin Readers /\ m.type = "DATA")
  BY <1>1, <1>2, <1>3, Constants DEF Place, ToServer
<1>7. cl[c].next \in Nat /\ xfer[p].block \in Nat /\ m.blk \in Nat
  BY <1>1, <1>4 DEF ClType, XferType, MsgType
<1>8. xfer[p].block \in {cl[c].next - 1, cl[c].next}
  BY <1>1, <1>3 DEF Paired
<1>9. (m.type = "ACK" => m.blk < cl[c].next) /\ (m.type = "DATA" => m.blk <= cl[c].next)
  BY <1>1 DEF Number
<1> QED BY <1>2, <1>3, <1>5, <1>6, <1>7, <1>8, <1>9 DEF Goes

\* The transfer ends, or the datagram has no taker.
LEMMA EndsGoes ==
  ASSUME TInv, SInv, Goes, ~wild, NEW m \in net,
         \/ ReadEnds(m) \/ WriteEnds(m) \/ WriteFails(m) \/ NoReceiver(m)
         \/ WriteRepeatsAck(m) /\ Short(m.data)
  PROVE  Goes'
<1> DEFINE p == m.port
<1>1. p \in Ports /\ cl' = cl /\ xfer \in [Ports -> XferType]
  BY DEF ReadEnds, WriteEnds, WriteFails, NoReceiver, WriteRepeatsAck, TInv, Typed
<1>2. CASE WriteFails(m)
  BY <1>2 DEF WriteFails, Goes
<1>3. CASE ~WriteFails(m)
  <2>1. /\ xfer'[p].st \in {"gone", "stuck"} /\ xfer'[p].peer = xfer[p].peer
        /\ xfer[p].st = "gone" => xfer'[p].st = "gone"
        /\ \A q \in Ports \ {p} : xfer'[q] = xfer[q]
    <3>1. CASE ReadEnds(m) \/ (WriteRepeatsAck(m) /\ Short(m.data))
      BY <1>1, <3>1 DEF ReadEnds, WriteRepeatsAck, Gone, XferType
    <3>2. CASE WriteEnds(m)
      BY <1>1, <3>2 DEF WriteEnds, Gone, XferType
    <3>3. CASE NoReceiver(m)
      BY <1>1, <3>3 DEF NoReceiver
    <3> QED BY <1>3, <3>1, <3>2, <3>3
  <2>2. \E n : Passes(m, {}) \/ Passes(m, {Ack(m.peer, p, n)})
    BY <1>3, ExchangePasses DEF ReadEnds, WriteEnds, NoReceiver, WriteRepeatsAck
  <2>3. PICK n : Passes(m, {}) \/ Passes(m, {Ack(m.peer, p, n)})
    BY <2>2
  <2>4. Tells(Ack(m.peer, p, n))'
    BY DEF Tells, Request, Ack, Msg
  <2>5. Due(p)'
    BY <1>1, <2>1, EndedDue
  <2> HIDE DEF p
  <2>6. p = m.port
    BY DEF p
  <2>7. CASE Passes(m, {})
    BY <1>1, <2>1, <2>5, <2>6, <2>7, CallbackGoes
  <2>8. CASE Passes(m, {Ack(m.peer, p, n)})
    BY <1>1, <2>1, <2>4, <2>5, <2>6, <2>8, CallbackGoes
  <2> QED BY <2>3, <2>6, <2>7, <2>8
<1> QED BY <1>2, <1>3

\* A block goes out for the ACK m: the next one, or the same number again.
BlockSent(m, p, c, n, k, k2, b, o) ==
  /\ p \in Ports /\ p = m.port /\ c \in Clients /\ c = m.peer /\ o = Data(c, p, k2, b)
  /\ n \in Nat /\ n = cl[c].next /\ k \in Nat /\ k = xfer[p].block /\ k2 \in Nat
  /\ xfer[p].st = "rd" /\ ~xfer[p].short /\ xfer[p].peer = c /\ c \in Readers /\ c \notin Writers
  /\ m.type = "ACK" /\ m.blk \in Nat /\ m.blk < n /\ k \in {n - 1, n}
  /\ k2 = IF m.blk = k THEN k + 1 ELSE k
  /\ cl' = cl /\ Passes(m, {o}) /\ \A q \in Ports \ {p} : xfer'[q] = xfer[q]
  /\ xfer'[p].st = "rd" /\ xfer'[p].peer = c /\ xfer'[p].block = k2 /\ xfer'[p].short = Short(b)

\* The block is what the reader waits for, or the ACK of the one before is still to come.
LEMMA BlockGoes ==
  ASSUME TInv, NoWrap, Goes, ~wild, NEW m \in net, NEW p, NEW c, NEW n, NEW k, NEW k2, NEW b, NEW o,
         BlockSent(m, p, c, n, k, k2, b, o)
  PROVE  Goes'
<1> USE DEF BlockSent
<1>1. k2 <= n /\ n < BlockMod
  BY DEF NoWrap
<1>2. o.type = "DATA" /\ o.peer = c /\ o.port = p /\ o.blk = k2 /\ o.data = b
  <2>1. BlockMod \in Nat \ {0} /\ k2 < BlockMod
    BY <1>1, Constants
  <2>2. k2 % BlockMod = k2
    BY <2>1, ModRange
  <2> QED BY <2>2 DEF Data, Msg
<1>3. o \in net'
  BY DEF Passes
<1>4. o.port = p /\ o.peer = xfer'[p].peer /\ o.blk = xfer'[p].block
      /\ o.type = IF o.peer \in Readers THEN "DATA" ELSE "ACK"
  BY <1>2
<1>5. Out(o, p)'
  BY <1>4 DEF Out
<1>6. Due(p)
  BY DEF Goes
<1>7. Due(p)'
  <2>1. CASE cl[c].st = "dead"
    BY <2>1 DEF Due
  <2>2. CASE cl[c].st # "dead" /\ k2 = n
    <3>1. cl[c].st = "wait"
      BY <1>6, <2>2 DEF Due
    <3> QED BY <1>3, <1>5, <2>2, <3>1 DEF Due
  <2>3. CASE cl[c].st # "dead" /\ k2 # n
    <3>1. k2 = k /\ k = n - 1 /\ m.blk # k
      BY <2>3
    <3>2. cl[c].st = "wait" /\ \E t \in net : Back(t, p)
      BY <1>6, <2>3, <3>1 DEF Due
    <3>3. PICK t \in net : Back(t, p)
      BY <3>2
    <3>4. t.port = p /\ t.peer = c /\ t.type = "ACK" /\ t.blk = k
      BY <3>3 DEF Back
    <3>5. t \in net'
      BY <3>1, <3>4 DEF Passes
    <3>6. Back(t, p)'
      BY <3>1, <3>4 DEF Back
    <3> QED BY <3>1, <3>2, <3>5, <3>6 DEF Due
  <2> QED BY <2>1, <2>2, <2>3
<1>8. Tells(o)'
  BY <1>2 DEF Tells, Request, Short, NoBlock
<1> QED BY <1>7, <1>8, CallbackGoes

\* An ACK for a block that was not the last.
LEMMA ReadGoes ==
  ASSUME TInv, SInv, NoWrap, Goes, ~wild, NEW m \in net, ReadContinues(m)
  PROVE  Goes'
<1> DEFINE p == m.port
           c == m.peer
           k2 == NumberAfter(m, xfer[p].block)
           b == ReadBlock(file_SD)
           o == Data(c, p, k2, b)
<1>1. /\ p \in Ports /\ ToServer(m) /\ xfer[p].st = "rd" /\ ~xfer[p].short /\ cl' = cl
      /\ xfer' = [xfer EXCEPT ![p].block = k2, ![p].short = Short(b)] /\ Exchange(m, {o})
  BY DEF ReadContinues, SendNextBlock
<1>2. /\ m.type = "ACK" /\ c \in Clients /\ xfer[p].peer = c /\ c \in Readers /\ c \notin Writers
      /\ cl[c].next \in Nat /\ xfer[p].block \in Nat /\ m.blk \in Nat
      /\ xfer[p].block \in {cl[c].next - 1, cl[c].next} /\ m.blk < cl[c].next
  BY <1>1, Arrives
<1>3. k2 = (IF m.blk = xfer[p].block THEN xfer[p].block + 1 ELSE xfer[p].block) /\ k2 \in Nat
  BY <1>2 DEF NumberAfter
<1> HIDE DEF k2, b
<1>4. /\ xfer'[p].st = "rd" /\ xfer'[p].peer = c /\ xfer'[p].block = k2 /\ xfer'[p].short = Short(b)
      /\ \A q \in Ports \ {p} : xfer'[q] = xfer[q]
  <2>1. xfer \in [Ports -> XferType]
    BY DEF TInv, Typed
  <2> QED BY <1>1, <1>2, <2>1 DEF XferType
<1>5. Passes(m, {o})
  BY <1>1, ExchangePasses
<1>6. p = m.port /\ c = m.peer /\ o = Data(c, p, k2, b)
  OBVIOUS
<1> HIDE DEF p, c, o
<1>7. BlockSent(m, p, c, cl[c].next, xfer[p].block, k2, b, o)
  BY <1>1, <1>2, <1>3, <1>4, <1>5, <1>6 DEF BlockSent
<1> QED BY <1>7, BlockGoes

\* An ACK goes out for the DATA packet m: the next one, or the same number again.
AckSent(m, p, c, n, k, k2, o) ==
  /\ p \in Ports /\ p = m.port /\ c \in Clients /\ c = m.peer /\ o = Ack(c, p, k2)
  /\ n \in Nat /\ n = cl[c].next /\ k \in Nat /\ k = xfer[p].block
  /\ xfer[p].st = "wr" /\ xfer[p].peer = c /\ c \in Writers /\ c \notin Readers
  /\ m.type = "DATA" /\ m.blk \in Nat /\ m.blk <= n /\ k \in {n - 1, n}
  /\ m.data = Block(c, m.blk) /\ ~Short(m.data)
  /\ k2 = IF m.blk = k + 1 THEN k + 1 ELSE k
  /\ cl' = cl /\ Passes(m, {o}) /\ \A q \in Ports \ {p} : xfer'[q] = xfer[q]
  /\ xfer'[p].st = "wr" /\ xfer'[p].peer = c /\ xfer'[p].block = k2

\* The ACK is what the writer waits for, or the next block is still to come.
LEMMA AckGoes ==
  ASSUME TInv, NoWrap, Goes, ~wild, NEW m \in net, NEW p, NEW c, NEW n, NEW k, NEW k2, NEW o,
         AckSent(m, p, c, n, k, k2, o)
  PROVE  Goes'
<1> USE DEF AckSent
<1>1. k2 \in Nat /\ k2 <= n /\ n < BlockMod
  BY DEF NoWrap
<1>2. o.type = "ACK" /\ o.peer = c /\ o.port = p /\ o.blk = k2
  <2>1. BlockMod \in Nat \ {0} /\ k2 < BlockMod
    BY <1>1, Constants
  <2>2. k2 % BlockMod = k2
    BY <1>1, <2>1, ModRange
  <2> QED BY <2>2 DEF Ack, Msg
<1>3. o \in net'
  BY DEF Passes
<1>4. o.port = p /\ o.peer = xfer'[p].peer /\ o.blk = xfer'[p].block
      /\ o.type = IF o.peer \in Readers THEN "DATA" ELSE "ACK"
  BY <1>2
<1>5. Out(o, p)'
  BY <1>4 DEF Out
<1>6. /\ p \in Ports /\ c \notin Readers /\ xfer[p].st = "wr" /\ c = xfer[p].peer
      /\ n = cl[c].next /\ k = xfer[p].block
      /\ n \in Nat /\ k \in Nat /\ k \in {n - 1, n} /\ Due(p)
  BY DEF Goes
<1>7. /\ cl'[c].st = cl[c].st /\ cl'[c].next = n /\ c = xfer'[p].peer
      /\ xfer'[p].block = k2 /\ xfer'[p].st = "wr"
  OBVIOUS
<1>8. k2 = (IF m.blk = k + 1 THEN k + 1 ELSE k) /\ m.blk <= n /\ m.blk \in Nat
  OBVIOUS
<1>9. m.blk # Blocks + 1
  BY DEF Short, Block
<1>10. Passes(m, {o})
  OBVIOUS
<1> HIDE DEF AckSent
<1>11. ASSUME cl[c].st = "dead" PROVE Due(p)'
  BY <1>6, <1>7, <1>11 DEF Due
<1>12. ASSUME cl[c].st # "dead" PROVE Due(p)'
  <2>1. /\ k <= Blocks /\ cl[c].st = "wait"
        /\ k = n \/ (k = n - 1 /\ \E t \in net : Back(t, p))
    BY <1>6, <1>12, DueSays
  <2>2. CASE k2 = n
    <3>1. k2 <= Blocks
      BY <1>6, <1>8, <1>9, <2>1, <2>2, Constants
    <3> QED BY <1>3, <1>5, <1>6, <1>7, <2>1, <2>2, <3>1, OutIsDue
  <2>3. CASE k2 # n
    <3>1. k2 = k /\ k = n - 1 /\ k # n /\ m.blk # k + 1
      BY <1>6, <1>8, <2>3
    <3>2. PICK t \in net : Back(t, p)
      BY <2>1, <3>1
    <3>3. t.port = p /\ t.peer = c /\ t.type = "DATA" /\ t.blk = k + 1
      BY <1>6, <3>2 DEF Back
    <3>4. t \in net'
      BY <1>10, <3>1, <3>3 DEF Passes
    <3>5. Back(t, p)'
      BY <1>6, <1>7, <3>1, <3>3 DEF Back
    <3> QED BY <1>6, <1>7, <2>1, <3>1, <3>4, <3>5, BackIsDue
  <2> QED BY <2>2, <2>3
<1>13. Due(p)'
  BY <1>11, <1>12
<1>14. Tells(o)'
  BY <1>2 DEF Tells, Request
<1>15. /\ xfer'[p].peer = xfer[p].peer /\ xfer[p].st = "wr" /\ xfer'[p].st = "wr" /\ cl' = cl /\ m.port = p
       /\ \A q \in Ports \ {p} : xfer'[q] = xfer[q]
  BY DEF AckSent
<1> QED BY <1>6, <1>10, <1>13, <1>14, <1>15, CallbackGoes

\* A full block, expected or not.
LEMMA WriteGoes ==
  ASSUME TInv, SInv, NoWrap, Goes, ~wild, NEW m \in net,
         WriteStores(m) \/ (WriteRepeatsAck(m) /\ ~Short(m.data))
  PROVE  Goes'
<1> DEFINE p == m.port
           c == m.peer
           k == xfer[p].block
           k2 == IF m.blk = k + 1 THEN k + 1 ELSE k
           o == Ack(c, p, k2)
<1>1. /\ p \in Ports /\ ToServer(m) /\ xfer[p].st = "wr" /\ ~Short(m.data) /\ cl' = cl
  BY DEF WriteStores, WriteRepeatsAck
<1>2. /\ m.type = "DATA" /\ c \in Clients /\ xfer[p].peer = c /\ c \in Writers /\ c \notin Readers
      /\ cl[c].next \in Nat /\ k \in Nat /\ m.blk \in Nat /\ Tells(m)
      /\ k \in {cl[c].next - 1, cl[c].next} /\ m.blk <= cl[c].next
  BY <1>1, Arrives
<1>3. m.data = Block(c, m.blk)
  BY <1>2 DEF Tells
<1>4. xfer \in [Ports -> XferType]
  BY DEF TInv, Typed
<1>5. xfer' = [xfer EXCEPT ![p].block = k2] /\ Exchange(m, {o})
  <2>1. CASE WriteStores(m)
    BY <2>1 DEF WriteStores, Expected
  <2>2. CASE WriteRepeatsAck(m)
    <3>1. xfer' = xfer /\ Exchange(m, {Ack(c, p, k)}) /\ k2 = k
      BY <1>1, <2>2 DEF WriteRepeatsAck, Expected
    <3>2. xfer = [xfer EXCEPT ![p].block = k]
      BY <1>1, <1>4 DEF XferType
    <3> QED BY <3>1, <3>2
  <2> QED BY <2>1, <2>2
<1> HIDE DEF k2
<1>6. /\ xfer'[p].st = "wr" /\ xfer'[p].peer = c /\ xfer'[p].block = k2
      /\ \A q \in Ports \ {p} : xfer'[q] = xfer[q]
  BY <1>1, <1>2, <1>4, <1>5 DEF XferType
<1>7. Passes(m, {o})
  BY <1>5, ExchangePasses
<1>8. p = m.port /\ c = m.peer /\ o = Ack(c, p, k2) /\ k = xfer[p].block
      /\ k2 = IF m.blk = k + 1 THEN k + 1 ELSE k
  BY DEF k2
<1> HIDE DEF p, c, o, k
<1>9. AckSent(m, p, c, cl[c].next, k, k2, o)
  BY <1>1, <1>2, <1>3, <1>6, <1>7, <1>8 DEF AckSent
<1> QED BY <1>9, AckGoes

\* A request that finds the pool empty.
LEMMA NoPcbGoes ==
  ASSUME TInv, Goes, ~wild, NEW m \in net, ServeNoPcb(m)
  PROVE  Goes'
<1>1. Request(m) /\ cl' = cl /\ xfer' = xfer /\ Passes(m, {})
  BY ExchangePasses DEF ServeNoPcb, Request
<1>2. ASSUME NEW p \in Ports PROVE Due(p)'
  <2>1. \A o \in net : Out(o, p) \/ Back(o, p) => o \in net'
    BY <1>1 DEF Out, Back, Request, Passes
  <2>2. Due(p) /\ xfer'[p] = xfer[p] /\ cl'[xfer[p].peer] = cl[xfer[p].peer]
    BY <1>1 DEF Goes
  <2> QED BY <2>1, <2>2, DueStays
<1>3. ASSUME NEW o \in net' PROVE Tells(o)'
  <2>1. Tells(o)
    BY <1>1 DEF Goes, Passes
  <2> QED BY <1>1, <2>1 DEF Tells
<1> QED BY <1>2, <1>3 DEF Goes

\* After a use of freed memory nothing is said of the server any more.
LEMMA ServeAwake ==
  ASSUME NEW m \in net, Serve(m)
  PROVE  ~wild
BY DEF Serve, ServeNoPcb, ServeUnknown, ServeNoVolume, ServeRefused, ServeRead, ServeWrite,
       ReadEnds, ReadContinues, WriteStores, WriteEnds, WriteFails, WriteRepeatsAck, NoReceiver

\* What tcpip_thread does with any datagram.
LEMMA ServeGoes ==
  ASSUME TInv, SInv, Once, NoWrap, Goes, NEW m \in net, Serve(m)
  PROVE  Goes'
<1>1. ~wild
  BY ServeAwake
<1> QED BY <1>1, NoPcbGoes, RequestGoes, ReadGoes, EndsGoes, WriteGoes DEF Serve

-----------------------------------------------------------------------------
(* The clients' side of it.                                                *)

\* Client c, with the record r from now on, received m and sent out.
Moves(c, r, m, out) ==
  /\ cl' = [cl EXCEPT ![c] = r] /\ xfer' = xfer
  /\ m.peer = c /\ Passes(m, out) /\ \A o \in out : Tells(o)'

\* Client c, which m is for, and what it sends are all a client's step has to keep.
LEMMA ClientGoes ==
  ASSUME TInv, Goes, ~wild, NEW c \in Clients, NEW r, NEW m, NEW out, Moves(c, r, m, out),
         \A o \in net : Request(o) /\ o.peer = c => r.st \in {"wait", "dead"} /\ r.next = First(c),
         \A p \in Ports : xfer[p].peer = c => Due(p)'
  PROVE  Goes'
<1> USE DEF Moves
<1>1. cl'[c] = r /\ \A d \in Clients \ {c} : cl'[d] = cl[d]
  BY DEF TInv, Typed
<1>2. ASSUME NEW p \in Ports, xfer[p].peer # c PROVE Due(p)'
  <2>1. \A o \in net : Out(o, p) \/ Back(o, p) => o \in net'
    <3>1. \A o \in net : Out(o, p) \/ Back(o, p) => o # m
      BY <1>2 DEF Out, Back
    <3> QED BY <3>1 DEF Passes
  <2>2. Due(p) /\ xfer'[p] = xfer[p] /\ Place(p) /\ xfer[p] \in XferType
    BY DEF Goes, TInv, Typed
  <2>3. CASE xfer[p].st \in {"rd", "wr"}
    <3>1. xfer[p].peer \in Clients \ {c}
      BY <1>2, <2>2, <2>3 DEF Place, Clients
    <3>2. cl'[xfer[p].peer] = cl[xfer[p].peer]
      BY <1>1, <3>1
    <3> QED BY <2>1, <2>2, <3>2, DueStays
  <2>4. CASE xfer[p].st \notin {"rd", "wr"}
    BY <2>2, <2>4, EndedDue
  <2> QED BY <2>3, <2>4
<1>3. ASSUME NEW o \in net' PROVE Tells(o)'
  <2>1. CASE o \in out
    BY <2>1
  <2>2. CASE o \in net
    <3>1. Tells(o) /\ o.peer \in Clients
      BY <2>2 DEF Goes, TInv, Typed, MsgType
    <3>2. Request(o) => cl'[o.peer].st \in {"wait", "dead"} /\ cl'[o.peer].next = First(o.peer)
      BY <1>1, <2>2, <3>1 DEF Tells
    <3> QED BY <3>1, <3>2 DEF Tells, Request, First, Short, Block, NoBlock
  <2> QED BY <2>1, <2>2 DEF Passes
<1> QED BY <1>2, <1>3 DEF Goes

\* A client that is answered has one port, and its request is gone.
LEMMA AnsweredOnce ==
  ASSUME TInv, Goes, ~wild, Once, NEW m \in net, ~Request(m)
  PROVE  LET c == m.peer
         IN /\ c \in Clients /\ m.port \in Ports /\ xfer[m.port].peer = c
            /\ \A o \in net : Request(o) => o.peer # c
            /\ \A p \in Ports : xfer[p].peer = c => p = m.port
<1>1. m \in MsgType /\ Route(m) /\ Tells(m)
  BY DEF TInv, Typed, Goes
<1>2. m.type \in {"DATA", "ACK", "ERROR"} /\ m.peer \in Clients
  BY <1>1 DEF MsgType, Request
<1>3. m.port \in Ports /\ xfer[m.port].peer = m.peer
  BY <1>1, <1>2 DEF Route, Tells
<1>4. \A o \in net : Request(o) => o.peer # m.peer
  BY <1>3 DEF Once
<1>5. \A p \in Ports : xfer[p].peer = m.peer => p = m.port
  BY <1>2, <1>3 DEF Once
<1> QED BY <1>2, <1>3, <1>4, <1>5

\* A client that starts has no port yet.
LEMMA StartGoes ==
  ASSUME TInv, Goes, ~wild, Once, NEW c \in Clients, Start(c)
  PROVE  Goes'
<1> DEFINE o == Msg(RequestOf(c), c, 69, 0, NoBlock)
           r == [cl[c] EXCEPT !.st = "wait", !.next = First(c)]
<1>1. cl[c].st = "idle" /\ cl' = [cl EXCEPT ![c] = r] /\ xfer' = xfer /\ Passes(o, {o})
  BY DEF Start, First, Passes
<1>2. o.peer = c /\ o.type \in {"RRQ", "WRQ", "BAD"} /\ Request(o)
  BY DEF Msg, RequestOf, Request
<1>3. r.st = "wait" /\ r.next = First(c)
  BY DEF TInv, Typed, ClType
<1> HIDE DEF r
<1>4. cl'[c] = r
  BY <1>1 DEF TInv, Typed
<1> HIDE DEF o
<1>5. Tells(o)'
  BY <1>2, <1>3, <1>4 DEF Tells, First
<1>6. \A p \in Ports : xfer[p].peer # c
  BY <1>1 DEF Once
<1>7. Moves(c, r, o, {o})
  BY <1>1, <1>2, <1>5 DEF Moves
<1> QED BY <1>3, <1>6, <1>7, ClientGoes

\* Nothing is due to a client that is switched off.
LEMMA DieGoes ==
  ASSUME TInv, Goes, ~wild, NEW c \in Clients, Die(c)
  PROVE  Goes'
<1> DEFINE m == Msg("BAD", c, 69, 0, NoBlock)
           r == [cl[c] EXCEPT !.st = "dead"]
<1>1. cl' = [cl EXCEPT ![c] = r] /\ xfer' = xfer /\ Passes(m, {}) /\ m.peer = c
  BY DEF Die, Passes, Msg
<1>2. r.st = "dead" /\ r.next = cl[c].next
  BY DEF TInv, Typed, ClType
<1> HIDE DEF r, m
<1>3. cl'[c] = r
  BY <1>1 DEF TInv, Typed
<1>4. \A o \in net : Request(o) /\ o.peer = c => r.st \in {"wait", "dead"} /\ r.next = First(c)
  BY <1>2 DEF Goes, Tells
<1>5. \A p \in Ports : xfer[p].peer = c => Due(p)'
  BY <1>1, <1>2, <1>3 DEF Due
<1>6. Moves(c, r, m, {})
  BY <1>1 DEF Moves
<1> QED BY <1>4, <1>5, <1>6, ClientGoes

\* A client that takes m and sends out, with a port that is due afterwards.
LEMMA TakerGoes ==
  ASSUME TInv, Goes, ~wild, Once, NEW m \in net, ~Request(m), NEW c, NEW r, NEW out,
         Moves(c, r, m, out), Due(m.port)'
  PROVE  Goes'
<1>1. /\ c \in Clients /\ \A o \in net : Request(o) => o.peer # c
      /\ \A p \in Ports : xfer[p].peer = c => p = m.port
  BY AnsweredOnce DEF Moves
<1>3. \A p \in Ports : xfer[p].peer = c => Due(p)'
  BY <1>1
<1>4. \A o \in net : Request(o) /\ o.peer = c => r.st \in {"wait", "dead"} /\ r.next = First(c)
  BY <1>1
<1> QED BY <1>1, <1>3, <1>4, ClientGoes

\* An ERROR comes from a port that has ended.
LEMMA ErrorGoes ==
  ASSUME TInv, Goes, ~wild, Once, NEW c \in Clients, NEW m \in net, ClientError(c, m)
  PROVE  Goes'
<1> DEFINE r == [cl[c] EXCEPT !.st = "failed"]
<1>1. /\ m.type = "ERROR" /\ c = m.peer /\ cl' = [cl EXCEPT ![c] = r]
      /\ xfer' = xfer /\ Exchange(m, {}) /\ ~Request(m)
  BY DEF ClientError, Mine, Request
<1>2. m.port \in Ports /\ xfer'[m.port].st = "gone"
  BY <1>1 DEF Goes, Tells, TInv, Route
<1>3. Due(m.port)'
  BY <1>2, EndedDue
<1> HIDE DEF r
<1>4. Moves(c, r, m, {})
  BY <1>1, ExchangePasses DEF Moves
<1> QED BY <1>1, <1>3, <1>4, TakerGoes

\* A datagram a client takes; while its transfer goes on it is the server's last
\* answer that has the number the client waits for.
LEMMA Taken ==
  ASSUME TInv, SInv, NoWrap, Goes, ~wild, Once, NEW c \in Clients, NEW m \in net,
         m.type \in {"DATA", "ACK"}, ~ToServer(m), Mine(c, m), m.blk = cl[c].next % BlockMod
  PROVE  /\ ~Request(m) /\ m.peer = c /\ m.port \in Ports /\ xfer[m.port].peer = c
         /\ cl[c].next \in Nat /\ cl[c].next < BlockMod /\ m.blk = cl[c].next
         /\ xfer[m.port].st \in {"rd", "wr"} =>
              /\ xfer[m.port].block = cl[c].next
              /\ xfer[m.port].st = "wr" => xfer[m.port].block <= Blocks
<1> DEFINE p == m.port
           n == cl[c].next
<1>1. m.peer = c /\ ~Request(m) /\ cl[c].st = "wait"
  BY DEF Mine, Active, Request
<1>2. p \in Ports /\ xfer[p].peer = c
  BY <1>1, AnsweredOnce
<1>3. n \in Nat /\ xfer[p].block \in Nat
  BY <1>2 DEF TInv, Typed, ClType, XferType
<1>4. n < BlockMod /\ m.blk = n
  BY <1>3, ModRange DEF NoWrap
<1>5. m.blk <= xfer[p].block
  BY DEF SInv, Number
<1>6. ASSUME xfer[p].st \in {"rd", "wr"}
      PROVE  xfer[p].block = n /\ (xfer[p].st = "wr" => xfer[p].block <= Blocks)
  <2>1. Due(p)
    BY <1>2 DEF Goes
  <2>2. /\ xfer[p].st = "wr" => xfer[p].block <= Blocks
        /\ xfer[p].block \in {n, n - 1}
    BY <1>1, <1>2, <1>6, <2>1, DueSays
  <2> QED BY <1>3, <1>4, <1>5, <2>2
<1> QED BY <1>1, <1>2, <1>3, <1>4, <1>6

\* A reader acknowledges the block it waited for.
LEMMA DataTakenGoes ==
  ASSUME TInv, SInv, NoWrap, Goes, ~wild, Once, NEW c \in Clients, NEW m \in net,
         c \in Readers, m.type = "DATA", Mine(c, m), m.blk = cl[c].next % BlockMod,
         cl' = [cl EXCEPT ![c].port = m.port, ![c].next = @ + 1,
                          ![c].got = IF m.data = NoBlock THEN @ ELSE Append(@, m.data),
                          ![c].st = IF Short(m.data) THEN "done" ELSE @],
         Exchange(m, {Ack(c, m.port, cl[c].next)}), xfer' = xfer
  PROVE  Goes'
<1> DEFINE p == m.port
           n == cl[c].next
           got == IF m.data = NoBlock THEN cl[c].got ELSE Append(cl[c].got, m.data)
           st == IF Short(m.data) THEN "done" ELSE cl[c].st
           r == [cl[c] EXCEPT !.port = p, !.next = n + 1, !.got = got, !.st = st]
<1>0. PICK o : o = Ack(c, p, n)
  OBVIOUS
<1>1. c \notin Writers /\ ~ToServer(m) /\ cl[c].st = "wait"
  BY Constants DEF ToServer, Mine, Active
<1>2. /\ ~Request(m) /\ m.peer = c /\ p \in Ports /\ xfer[p].peer = c
      /\ n \in Nat /\ n < BlockMod
      /\ xfer[p].st \in {"rd", "wr"} => xfer[p].block = n
  BY <1>1, Taken
<1>3. o.type = "ACK" /\ o.peer = c /\ o.port = p /\ o.blk = n
  <2>1. n % BlockMod = n
    BY <1>2, Constants, ModRange
  <2> QED BY <1>0, <2>1 DEF Ack, Msg
<1>4. cl' = [cl EXCEPT ![c] = r]
  OBVIOUS
<1> HIDE DEF got
<1>5. r.next = n + 1 /\ r.st = st
  BY DEF TInv, Typed, ClType
<1> HIDE DEF r
<1>6. cl'[c] = r
  BY <1>4 DEF TInv, Typed
<1>7. Passes(m, {o})
  BY <1>0, ExchangePasses
<1>8. Tells(o)'
  BY <1>3 DEF Tells, Request
<1>9. Moves(c, r, m, {o})
  BY <1>2, <1>4, <1>7, <1>8 DEF Moves
<1>10. ASSUME xfer[p].st \in {"rd", "wr"} PROVE Due(p)'
  <2>1. xfer[p].st = "rd" /\ xfer'[p] = xfer[p]
    BY <1>1, <1>2, <1>10 DEF TInv, Place
  <2>2. r.st = "wait" \/ (r.st = "done" /\ xfer[p].short)
    <3>1. Tells(m) /\ (Short(m.data) => xfer[p].short)
      BY <2>1, <1>2 DEF Goes, Tells
    <3> QED BY <1>1, <1>5, <3>1
  <2>3. o \in net'
    BY <1>7 DEF Passes
  <2>4. Back(o, p)'
    BY <1>2, <1>3, <1>10, <2>1 DEF Back
  <2>5. xfer'[p].block = cl'[c].next - 1 /\ c = xfer'[p].peer /\ xfer'[p].st = "rd"
        /\ (cl'[c].st = "wait" \/ (cl'[c].st = "done" /\ xfer'[p].short))
    BY <1>2, <1>5, <1>6, <1>10, <2>1, <2>2
  <2> QED BY <1>2, <2>3, <2>4, <2>5, BackIsDue
<1>11. Due(p)'
  <2>1. CASE xfer[p].st \notin {"rd", "wr"}
    BY <1>2, <2>1, EndedDue
  <2> QED BY <1>10, <2>1
<1> QED BY <1>2, <1>9, <1>11, TakerGoes

\* A reader acknowledges the block before once more.
LEMMA DataAgainGoes ==
  ASSUME TInv, NoWrap, Goes, ~wild, Once, NEW c \in Clients, NEW m \in net,
         c \in Readers, m.type = "DATA", Mine(c, m),
         m.blk = (cl[c].next - 1) % BlockMod, cl[c].next > 1,
         Exchange(m, {Ack(c, m.port, cl[c].next - 1)}), cl' = cl, xfer' = xfer
  PROVE  Goes'
<1> DEFINE p == m.port
           n == cl[c].next
<1>0. PICK o : o = Ack(c, p, n - 1)
  OBVIOUS
<1>1. m.peer = c /\ ~Request(m) /\ cl[c].st = "wait"
  BY DEF Mine, Active, Request
<1>2. p \in Ports /\ xfer[p].peer = c
  BY <1>1, AnsweredOnce
<1>3. cl = [cl EXCEPT ![c] = cl[c]] /\ n \in Nat
  BY DEF TInv, Typed, ClType
<1>4. n - 1 \in Nat /\ n - 1 < BlockMod /\ BlockMod \in Nat \ {0}
  BY <1>3, Constants DEF NoWrap
<1>5. m.blk = n - 1
  BY <1>4, ModRange
<1>6. o.type = "ACK"
  BY <1>0 DEF Ack, Msg
<1>7. Passes(m, {o})
  BY <1>0, ExchangePasses
<1>8. Tells(o)'
  BY <1>6 DEF Tells, Request
<1>9. Moves(c, cl[c], m, {o})
  BY <1>1, <1>3, <1>7, <1>8 DEF Moves
<1>10. ASSUME xfer[p].st \in {"rd", "wr"} PROVE Due(p)'
  <2>1. Due(p) /\ xfer'[p] = xfer[p] /\ cl'[c] = cl[c]
    BY <1>2 DEF Goes
  <2>2. CASE xfer[p].block = n /\ \E t \in net : Out(t, p)
    <3>1. PICK t \in net : Out(t, p)
      BY <2>2
    <3>2. t.blk = n
      BY <2>2, <3>1 DEF Out
    <3>3. t \in net'
      BY <1>3, <1>5, <1>7, <3>2 DEF Passes
    <3>4. Out(t, p)'
      BY <2>1, <3>1 DEF Out
    <3>5. xfer[p].st # "wr"
      BY <1>2, Constants DEF TInv, Place
    <3> QED BY <1>1, <1>2, <2>1, <2>2, <3>3, <3>4, <3>5, OutIsDue
  <2>3. CASE xfer[p].block = n - 1 /\ \E t \in net : Back(t, p)
    <3>1. PICK t \in net : Back(t, p)
      BY <2>3
    <3>2. t.type = "ACK"
      BY <1>2, <3>1 DEF Back
    <3>3. t \in net'
      BY <1>7, <3>2 DEF Passes
    <3>4. Back(t, p)'
      BY <2>1, <3>1 DEF Back
    <3>5. xfer[p].st # "wr"
      BY <1>2, Constants DEF TInv, Place
    <3> QED BY <1>1, <1>2, <2>1, <2>3, <3>3, <3>4, <3>5, BackIsDue
  <2>4. \/ xfer[p].block = n /\ \E t \in net : Out(t, p)
        \/ xfer[p].block = n - 1 /\ \E t \in net : Back(t, p)
    BY <1>1, <1>2, <1>10, <2>1 DEF Due
  <2> QED BY <2>2, <2>3, <2>4
<1>11. Due(p)'
  <2>1. CASE xfer[p].st \notin {"rd", "wr"}
    BY <1>2, <2>1, EndedDue
  <2> QED BY <1>10, <2>1
<1> QED BY <1>1, <1>9, <1>11, TakerGoes

\* A writer sends the next block, or is done.
LEMMA AckTakenGoes ==
  ASSUME TInv, SInv, NoWrap, NoWrap', Goes, ~wild, Once, NEW c \in Clients, NEW m \in net,
         ClientAck(c, m)
  PROVE  Goes'
<1> DEFINE p == m.port
           n == cl[c].next
<1>1. /\ c \in Writers /\ c \notin Readers /\ m.type = "ACK" /\ Mine(c, m) /\ m.blk = n % BlockMod
      /\ ~ToServer(m) /\ cl[c].st = "wait" /\ m.peer = c /\ xfer' = xfer
  BY Constants DEF ClientAck, ToServer, Mine, Active
<1>2. /\ ~Request(m) /\ m.peer = c /\ p \in Ports /\ xfer[p].peer = c /\ n \in Nat
      /\ xfer[p].st \in {"rd", "wr"} => xfer[p].block = n /\ (xfer[p].st = "wr" => xfer[p].block <= Blocks)
  BY <1>1, Taken
<1>3. xfer[p].st # "rd" /\ cl[c] \in ClType
  BY <1>1, <1>2 DEF TInv, Typed, Place
<1>4. CASE n = Blocks + 1
  <2> DEFINE r == [cl[c] EXCEPT !.st = "done"]
  <2>1. cl' = [cl EXCEPT ![c] = r] /\ Exchange(m, {})
    BY <1>4 DEF ClientAck
  <2> HIDE DEF r
  <2>2. xfer'[p].st \notin {"rd", "wr"}
    BY <1>1, <1>2, <1>3, <1>4, Constants
  <2>3. Due(p)'
    BY <1>2, <2>2, EndedDue
  <2>4. Moves(c, r, m, {})
    BY <1>1, <2>1, ExchangePasses DEF Moves
  <2> QED BY <1>2, <2>3, <2>4, TakerGoes
<1>5. CASE n # Blocks + 1
  <2> DEFINE r == [cl[c] EXCEPT !.port = p, !.next = n + 1]
  <2>0. PICK o : o = Data(c, p, n + 1, Block(c, n + 1))
    OBVIOUS
  <2>1. cl' = [cl EXCEPT ![c] = r] /\ Exchange(m, {o})
    BY <1>5, <2>0 DEF ClientAck
  <2>2. r.next = n + 1 /\ r.st = "wait"
    BY <1>1, <1>3 DEF ClType
  <2> HIDE DEF r
  <2>3. cl'[c] = r
    BY <2>1 DEF TInv, Typed
  <2>4. n + 1 < BlockMod
    BY <2>2, <2>3 DEF NoWrap
  <2>5. o.type = "DATA" /\ o.peer = c /\ o.port = p /\ o.blk = n + 1 /\ o.data = Block(c, n + 1)
    <3>1. (n + 1) % BlockMod = n + 1
      BY <1>2, <2>4, Constants, ModRange
    <3> QED BY <2>0, <3>1 DEF Data, Msg
  <2>6. Passes(m, {o})
    BY <2>1, ExchangePasses
  <2>7. Tells(o)'
    BY <1>1, <2>5 DEF Tells, Request, Block
  <2>8. Moves(c, r, m, {o})
    BY <1>1, <2>1, <2>6, <2>7 DEF Moves
  <2>9. Due(p)'
    <3>1. CASE xfer[p].st = "wr"
      <4>1. /\ xfer'[p].st = "wr" /\ xfer'[p].block = n /\ n <= Blocks /\ c = xfer'[p].peer
            /\ cl'[c].next = n + 1 /\ cl'[c].st = "wait"
        BY <1>1, <1>2, <2>2, <2>3, <3>1
      <4>2. o \in net'
        BY <2>6 DEF Passes
      <4>3. Back(o, p)'
        BY <1>1, <2>5, <4>1 DEF Back
      <4>4. xfer'[p].block = cl'[c].next - 1
        BY <1>2, <4>1
      <4> QED BY <1>2, <4>1, <4>2, <4>3, <4>4, BackIsDue
    <3>2. CASE xfer[p].st # "wr"
      BY <1>1, <1>2, <1>3, <3>2, EndedDue
    <3> QED BY <3>1, <3>2
  <2> QED BY <1>2, <2>8, <2>9, TakerGoes
<1> QED BY <1>4, <1>5

\* What a client discards, its transfer does not wait for.
LEMMA IgnoresGoes ==
  ASSUME TInv, NoWrap, Goes, ~wild, Once, NEW c \in Clients, NEW m \in net, ClientIgnores(c, m)
  PROVE  Goes'
<1> DEFINE p == m.port
           n == cl[c].next
<1>1. /\ m.peer = c /\ ~ToServer(m) /\ ~Request(m) /\ cl' = cl /\ xfer' = xfer
      /\ Passes(m, {})
      /\ ~Mine(c, m) \/ (m.type = "ACK" /\ m.blk # n % BlockMod)
  BY ExchangePasses DEF ClientIgnores, ToServer, Request
<1>2. p \in Ports /\ xfer[p].peer = c /\ \A q \in Ports : xfer[q].peer = c => q = p
  BY <1>1, AnsweredOnce
<1>3. cl = [cl EXCEPT ![c] = cl[c]] /\ n \in Nat /\ cl[c] \in ClType /\ Home(c)
  BY DEF TInv, Typed, ClType
<1>4. n % BlockMod = n
  BY <1>3, Constants, ModRange DEF NoWrap
<1>5. Moves(c, cl[c], m, {})
  BY <1>1, <1>3 DEF Moves
<1>6. ASSUME xfer[p].st \in {"rd", "wr"}, cl[c].st # "dead" PROVE Due(p)'
  <2>1. Due(p) /\ xfer'[p] = xfer[p] /\ cl'[c] = cl[c]
    BY <1>1, <1>2 DEF Goes
  <2>2. /\ xfer[p].st = "wr" => xfer[p].block <= Blocks
        /\ \/ xfer[p].block = n /\ cl[c].st = "wait" /\ \E t \in net : Out(t, p)
           \/ /\ xfer[p].block = n - 1 /\ \E t \in net : Back(t, p)
              /\ cl[c].st = "wait" \/ (cl[c].st = "done" /\ xfer[p].st = "rd" /\ xfer[p].short)
    BY <1>2, <1>6, <2>1 DEF Due
  <2>3. CASE xfer[p].block = n /\ cl[c].st = "wait" /\ \E t \in net : Out(t, p)
    <3>1. PICK t \in net : Out(t, p)
      BY <2>3
    <3>2. t # m
      <4>1. cl[c].port \in {0, p}
        BY <1>2, <1>3, Constants DEF ClType, Home
      <4>2. m.type = "ACK" /\ m.blk # n
        BY <1>1, <1>4, <2>3, <4>1 DEF Mine, Active
      <4>3. t.blk = n
        BY <2>3, <3>1 DEF Out
      <4> QED BY <4>2, <4>3
    <3>3. t \in net'
      BY <1>1, <3>1, <3>2 DEF Passes
    <3>4. Out(t, p)'
      BY <2>1, <3>1 DEF Out
    <3> QED BY <1>2, <2>1, <2>2, <2>3, <3>3, <3>4, OutIsDue
  <2>4. CASE /\ xfer[p].block = n - 1 /\ \E t \in net : Back(t, p)
             /\ cl[c].st = "wait" \/ (cl[c].st = "done" /\ xfer[p].st = "rd" /\ xfer[p].short)
    <3>1. PICK t \in net : Back(t, p)
      BY <2>4
    <3>2. ToServer(t)
      <4>1. Route(t)
        BY DEF TInv
      <4>2. t.type \in {"ACK", "DATA"}
        BY <3>1 DEF Back
      <4> QED BY <3>1, <4>1, <4>2 DEF Back, Route, ToServer
    <3>3. t \in net'
      BY <1>1, <3>2 DEF Passes
    <3>4. Back(t, p)'
      BY <2>1, <3>1 DEF Back
    <3> QED BY <1>2, <2>1, <2>2, <2>4, <3>3, <3>4, BackIsDue
  <2> QED BY <2>2, <2>3, <2>4
<1>7. Due(p)'
  BY <1>1, <1>2, <1>6 DEF Due
<1> QED BY <1>1, <1>5, <1>7, TakerGoes

\* Every step keeps it, if a request arrives once.
LEMMA NextGoes ==
  ASSUME TInv, SInv, NoWrap, NoWrap', Once, Goes, [Next]_vars
  PROVE  Goes'
<1>1. CASE UNCHANGED vars
  BY <1>1 DEF vars, Goes, Due, Tells, Out, Back, Request
<1>2. CASE wild
  <2>1. ASSUME NEW m \in net, Serve(m) PROVE FALSE
    BY <1>2, <2>1, ServeAwake
  <2>2. ASSUME NEW c \in Clients, Start(c) \/ Die(c) \/ Client(c) PROVE wild'
    BY <1>2, <2>2 DEF Start, Die, Client, ClientData, ClientAck, ClientError, ClientIgnores
  <2> QED BY <1>1, <2>1, <2>2 DEF Next, Server, Goes
<1>3. ASSUME ~wild, NEW m \in net, Serve(m) PROVE Goes'
  BY <1>3, ServeGoes
<1>4. ASSUME ~wild, NEW c \in Clients, Start(c) \/ Die(c) PROVE Goes'
  BY <1>4, StartGoes, DieGoes
<1>5. ASSUME ~wild, NEW c \in Clients, NEW m \in net, ClientData(c, m) PROVE Goes'
  <2>1. c \in Readers /\ m.type = "DATA" /\ Mine(c, m) /\ xfer' = xfer
    BY <1>5 DEF ClientData
  <2>3. CASE cl' = cl /\ m.blk = (cl[c].next - 1) % BlockMod /\ cl[c].next > 1
             /\ Exchange(m, {Ack(c, m.port, cl[c].next - 1)})
    BY <1>5, <2>1, <2>3, DataAgainGoes
  <2>4. CASE m.blk = cl[c].next % BlockMod /\ cl' = [cl EXCEPT ![c].port = m.port, ![c].next = @ + 1,
                            ![c].got = IF m.data = NoBlock THEN @ ELSE Append(@, m.data),
                            ![c].st = IF Short(m.data) THEN "done" ELSE @]
             /\ Exchange(m, {Ack(c, m.port, cl[c].next)})
    BY <1>5, <2>1, <2>4, DataTakenGoes
  <2> QED BY <1>5, <2>3, <2>4 DEF ClientData
<1>6. ASSUME ~wild, NEW c \in Clients, NEW m \in net,
             ClientAck(c, m) \/ ClientError(c, m) \/ ClientIgnores(c, m)
      PROVE  Goes'
  BY <1>6, AckTakenGoes, ErrorGoes, IgnoresGoes
<1> QED BY <1>1, <1>2, <1>3, <1>4, <1>5, <1>6 DEF Next, Server, Client

\* NoOrphan, for any clients, files, pool and repeated datagrams other than
\* requests: when no datagram is under way, a transfer that is still open belongs to a
\* client that was switched off (no timer runs beside the callbacks of tftpserver.c:446 and :496).
THEOREM OrphansHaveDied ==
  ASSUME "REQ" \notin Repeats
  PROVE  Spec /\ []NoWrap => []NoOrphan
<1>1. TInv /\ TInv' /\ SInv /\ NoWrap /\ NoWrap' /\ Once /\ Goes /\ [Next]_vars
        => SInv' /\ Once' /\ Goes'
  BY NextInv, NextOnce, NextGoes
<1>2. Init => SInv /\ Once /\ Goes
  BY InitSInv, InitKept, InitGoes
<1>3. TInv /\ Goes => NoOrphan
  BY GoesNoOrphan
<1> QED BY <1>1, <1>2, <1>3, TftpTyped, PTL DEF Spec
=============================================================================
