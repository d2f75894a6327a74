----------------------------- MODULE FtpProofs ------------------------------
(***************************************************************************)
(* For any clients, descriptors, files and budgets: sockets and            *)
(* connections of the FTP server correspond, none is lost or taken for     *)
(* another without the causes named, and transfers are whole.              *)
(***************************************************************************)
EXTENDS FtpServer, FiniteSetTheorems, SequenceTheorems, WellFoundedInduction, TLAPS

Cmds == {"NOOP", "PASV", "PORT", "LIST", "RETR", "STOR", "REST", "QUIT"}
SockType ==
  [use : {"free", "listen", "pl", "ctl", "data"}, peer : Clients \cup {NoOne},
   q : Seq(Clients \cup {"abrt"}), port : BOOLEAN]
ConnType == [fd : Fds, pasv : Fds \cup {NoFd}, offset : 0 .. FileLen]
ClType ==
  [ctl : {"none", "queued", "open", "fin"}, cmd : Cmds \cup {"none"},
   doing : Cmds \cup {"none"}, wait : BOOLEAN,
   rep : {"none", "200", "350", "226", "425", "227", "550"},
   data : {"none", "open", "fin", "rst"}, unread : Nat, up : 0 .. UpLen,
   asked : 0 .. FileLen, from : 0 .. FileLen, got : Seq(Nat), rested : BOOLEAN]

\* Places of the task at which it works for the connection Cur.
Serving == pc \notin {"select", "accept"}
Stored == pc \in {"retr", "stor"}

Flags ==
  /\ stale \in BOOLEAN /\ locked \in BOOLEAN /\ mounted \in BOOLEAN /\ tw \in BOOLEAN
  /\ misused \in BOOLEAN /\ pasvFailed \in BOOLEAN /\ abandoned \in BOOLEAN
  /\ uncleared \in BOOLEAN /\ silent \in BOOLEAN

\* Every variable and every client has its type.
Typed ==
  /\ sock \in [Fds -> SockType]
  /\ conns \in Seq(ConnType)
  /\ readfds \subseteq Fds /\ tmpfds \subseteq Fds
  /\ pc \in {"select", "accept", "loop", "pasv", "retr", "stor", "aliased"}
  /\ left \in 0 .. Len(conns) /\ (Serving => left > 0)
  /\ awake \in BOOLEAN /\ pl \in Fds \cup {NoFd} /\ (pc = "pasv" <=> pl # NoFd)
  /\ pos \in Nat /\ (pc = "retr" => pos <= FileLen)
  /\ cl \in [Clients -> ClType] /\ spent \in [Clients -> Nat]
  /\ Flags

\* The netconns: those of sockets, and those of connections not yet accepted.
Held == {<<f, 0>> : f \in Fds \ FreeFds} \cup UNION {Pending(f) : f \in Fds}

\* There are no more netconns than there are.
Counted == IsFiniteSet(Held) /\ Cardinality(Held) <= MaxConn

Open == {conns[i] : i \in DOMAIN conns}
With(r) == sock[r.fd].peer

\* Each use of a socket: who has it, and what its queue may hold.
Uses ==
  /\ \A f \in Fds : sock[f].use = "listen" <=> f = 0
  /\ \A f \in Fds : sock[f].use = "ctl" <=> \E r \in Open : r.fd = f
  /\ \A i, j \in DOMAIN conns : conns[i].fd = conns[j].fd => i = j
  /\ \A f \in Fds : sock[f].use \in {"ctl", "data", "pl"} => sock[f].peer \in Clients
  /\ \A f \in Fds : sock[f].use \in {"free", "ctl", "data"} => sock[f].q = <<>>
  /\ \A f, g \in Fds :
       sock[f].use = "ctl" /\ sock[g].use = "ctl" /\ sock[f].peer = sock[g].peer => f = g
  /\ \A f \in Fds : sock[f].use = "ctl" => cl[sock[f].peer].ctl \in {"open", "fin"}

\* The clients that wait for accept are new, and each waits once.
Queued ==
  \A i \in DOMAIN sock[0].q : sock[0].q[i] # "abrt" =>
    /\ cl[sock[0].q[i]] \in {[NewClient EXCEPT !.ctl = "queued"], [NewClient EXCEPT !.ctl = "fin"]}
    /\ \A f \in Fds : sock[f].use = "ctl" => sock[f].peer # sock[0].q[i]
    /\ \A j \in DOMAIN sock[0].q : sock[0].q[j] = sock[0].q[i] => j = i

\* The listeners of PASV: the one being served, and the one that has the port.
Listeners ==
  /\ pc = "pasv" => /\ sock[pl].use = "pl" /\ sock[pl].peer = Peer
                    /\ sock[pl].q # <<>> => cl[Peer].rep # "227"
  /\ \A f \in Fds : sock[f].use = "pl" =>
       \A i \in DOMAIN sock[f].q : sock[f].q[i] \in {"abrt", sock[f].peer}
  /\ \A f, g \in Fds :
       sock[f].use = "pl" /\ sock[g].use = "pl" /\ sock[f].port /\ sock[g].port => f = g
  /\ \A c \in Clients : cl[c].rep = "227" =>
       \E f \in Fds : sock[f].use = "pl" /\ sock[f].port /\ sock[f].peer = c

\* A client has one command under way, and knows which.
Polite(c) ==
  /\ c.cmd # "none" => c.rep = "none" /\ (c.wait \/ c.ctl = "fin")
  /\ c.cmd \in {"PASV", "PORT", "QUIT"} => c.data = "none"
  /\ c.wait => c.ctl = "open"
  /\ c.wait /\ c.cmd # "none" => c.doing = c.cmd
Awaits(c, k) ==
  c.cmd = "none" /\ c.rep = "none" /\ (c.wait => c.doing = k) /\ (c.wait \/ c.ctl = "fin")
Talk ==
  /\ \A c \in Clients : Polite(cl[c])
  /\ Stored => Awaits(cl[Peer], IF pc = "retr" THEN "RETR" ELSE "STOR")

\* A data socket is the one its client's connection remembers.
Remembered ==
  \A f \in Fds : sock[f].use = "data" =>
    cl[sock[f].peer].data # "none" /\ \E r \in Open : With(r) = sock[f].peer /\ r.pasv = f
Gone == \A c \in Clients : cl[c].ctl = "fin" => cl[c].data = "none" /\ cl[c].cmd # "PORT"
Expecting ==
  /\ \A f \in Fds : sock[f].use = "data" => sock[f].peer # Peer
  /\ \A i \in DOMAIN sock[pl].q : sock[pl].q[i] # "abrt" => cl[Peer].data # "none"
Listening == \A f \in Fds : sock[f].use = "pl" => pasvFailed \/ (pc = "pasv" /\ pl = f)
Leaks == (~abandoned => Remembered /\ Gone /\ (pc = "pasv" => Expecting)) /\ Listening

\* A client with a data connection is the one whose connection remembers it.
OwnedBy(r) == r.pasv \in Fds /\ sock[r.pasv].use = "data" /\ sock[r.pasv].peer = With(r)
Named ==
  \A r \in Open : cl[With(r)].data # "none" =>
    OwnedBy(r) \/ (pc = "pasv" /\ r = Cur /\ sock[pl].q = <<With(r)>>)
Joined == pc = "pasv" => sock[pl].q = <<>> \/ Len(sock[pl].q) = 1
Asking == \A c \in Clients : cl[c].cmd \in {"LIST", "RETR", "STOR"} => cl[c].data # "none"
Aliases ==
  /\ pc = "aliased" => pasvFailed \/ misused
  /\ ~pasvFailed => Named /\ Joined /\ (~misused => Asking)

\* What select watches is open.
Hears ==
  ~uncleared =>
    /\ \A f \in readfds : sock[f].use \in {"listen", "ctl"}
    /\ pc = "accept" => sock[0].q # <<>>

\* Where the transfers of a client start: what its connection has from REST.
Placed(c, o) ==
  c.cmd # "REST" =>
    /\ c.from > 0 => c.asked = 0 /\ o = c.from
    /\ c.from = 0 /\ c.asked > 0 => o = c.asked
    /\ c.from = 0 /\ c.asked = 0 /\ ~c.rested => o = 0
Asker(c) ==
  /\ c.from > 0 => c.rested
  /\ c.cmd = "RETR" => c.got = <<>> /\ c.asked = 0
Offsets ==
  /\ \A r \in Open : Placed(cl[With(r)], r.offset)
  /\ \A c \in Clients :
       /\ Asker(cl[c])
       /\ cl[c].from > 0 => cl[c].cmd = "RETR" \/ (pc = "retr" /\ Peer = c)

Start(c) == IF c.from < FileLen THEN c.from ELSE 0
Sound(c) == c.data = "open" /\ (c.from > 0 \/ ~c.rested)
Blocks(m, n) == [i \in 1 .. n - m |-> m + i]

\* What a RETR has sent so far.
Sent ==
  pc = "retr" /\ ~stale /\ Own /\ Sound(cl[Peer]) =>
    pos >= Start(cl[Peer]) /\ cl[Peer].got = Blocks(Start(cl[Peer]), pos)

\* What a STOR has received and written so far.
Fed(c) ==
  /\ c.unread <= c.up
  /\ c.data = "none" => c.up = 0
  /\ c.data = "fin" /\ c.ctl = "open" => c.up = UpLen
Unread(c) == c.data \in {"open", "fin"} => c.unread = c.up
Writes ==
  LET c == cl[Peer]
  IN /\ pos + c.unread <= c.up
     /\ ~stale /\ c.data \in {"open", "fin"} => pos + c.unread = c.up
Received ==
  /\ \A c \in Clients : Fed(cl[c]) /\ (Unread(cl[c]) \/ (pc = "stor" /\ Own /\ Peer = c))
  /\ pc = "stor" => IF Own THEN Writes ELSE pos = 0
  /\ ~Stored => pos = 0

IInv ==
  /\ Typed /\ Counted /\ Uses /\ Queued /\ Listeners /\ Talk /\ Leaks /\ Aliases /\ Hears
  /\ Offsets /\ Sent /\ Received

-----------------------------------------------------------------------------
(* Lemmas on the smallest and the largest of a set of numbers.             *)

\* A non-empty set of numbers has a smallest, a bounded one a largest.
LEMMA SmallestIn ==
  ASSUME NEW S \in SUBSET Nat, S # {}
  PROVE  Lowest(S) \in S /\ \A y \in S : Lowest(S) <= y
<1> DEFINE R == OpToRel(<, Nat)
<1>1. \A x, y \in Nat : <<y, x>> \in R <=> y < x
  BY SMT DEF OpToRel
<1>2. IsWellFoundedOn(R, Nat)
  BY NatLessThanWellFounded
<1> HIDE DEF R
<1>3. \E x \in S : \A y \in S : ~ (<<y, x>> \in R)
  BY <1>2, WFMin
<1>4. PICK x \in S : \A y \in S : ~ (<<y, x>> \in R)
  BY <1>3, Zenon
<1>5. \A y \in S : ~ (y < x)
  BY <1>1, <1>4, Zenon
<1>6. \A y \in S : x <= y
  BY <1>5
<1> QED
  BY <1>6 DEF Lowest

\* The largest of a bounded set of numbers is in it.
LEMMA LargestIn ==
  ASSUME NEW n \in Nat, NEW S \in SUBSET (1 .. n), S # {}
  PROVE  Highest(S) \in S
<1> DEFINE D == {n - x : x \in S}
<1>0. \A x \in S : n - x \in Nat
  OBVIOUS
<1>1. D \in SUBSET Nat /\ D # {}
  BY <1>0, Zenon
<1>2. PICK d \in D : \A e \in D : d <= e
  BY <1>1, SmallestIn
<1>3. PICK x \in S : d = n - x
  BY <1>2
<1>4. \A y \in S : n - y \in D /\ d <= n - y
  BY <1>2
<1>5. \A y \in S : y <= x
  BY <1>3, <1>4
<1> QED
  BY <1>3, <1>5 DEF Highest

-----------------------------------------------------------------------------
(* The loop over conn_list and the entry it is at.                         *)

\* The loop goes on with a connection, or select is next.
LEMMA GoOnGives ==
  ASSUME Typed, NEW n \in 0 .. Len(conns), NEW fds \in SUBSET Fds, NEW on \in BOOLEAN, GoOn(n, fds, on)
  PROVE  /\ pc' \in {"select", "loop"} /\ left' \in 0 .. n /\ (pc' = "loop" => left' > 0)
         /\ awake' \in BOOLEAN /\ tmpfds' \subseteq Fds
<1> DEFINE ready == {k \in 1 .. n : conns[Len(conns) + 1 - k].fd \in fds}
<1>1. n \in Nat /\ ready \in SUBSET (1 .. n)
  BY DEF Typed
<1>2. CASE ready = {}
  <2>1. left' = 0 /\ pc' = "select" /\ awake' = FALSE /\ tmpfds' = {}
    BY <1>2 DEF GoOn
  <2>2. n \in Nat /\ 0 \in 0 .. n
    BY <1>1
  <2> QED
    BY <2>1, <2>2
<1>3. CASE ready # {}
  <2>1. Highest(ready) \in ready
    BY <1>1, <1>3, LargestIn
  <2>2. left' = Highest(ready) /\ pc' = "loop" /\ awake' = on /\ tmpfds' = fds
    BY <1>3 DEF GoOn
  <2> QED
    BY <1>1, <2>1, <2>2
<1> QED
  BY <1>2, <1>3

\* The connection the loop is at is one of the list, with its client's socket.
LEMMA CurIs ==
  ASSUME Typed, Serving
  PROVE  /\ At \in DOMAIN conns /\ Cur = conns[At] /\ Cur \in Open /\ Cur \in ConnType
         /\ left \in 1 .. Len(conns) /\ Len(conns) \in Nat
<1>1. left \in 1 .. Len(conns) /\ Len(conns) \in Nat /\ conns \in Seq(ConnType)
  BY DEF Typed
<1>2. At \in DOMAIN conns
  BY <1>1 DEF At
<1> QED
  BY <1>1, <1>2 DEF Cur, Open

\* Connections, the one the loop is at and what they remember have their types.
LEMMA OpenTyped ==
  ASSUME Typed
  PROVE  \A r \in Open : r \in ConnType
BY DEF Typed, Open

\* The control sockets have clients, the one being served too.
LEMMA PeerIs ==
  ASSUME Typed, Uses
  PROVE  /\ \A r \in Open : sock[r.fd].use = "ctl" /\ With(r) \in Clients /\ r.fd \in Fds
         /\ Serving => sock[Cur.fd].use = "ctl" /\ Peer \in Clients /\ Peer = With(Cur)
<1>1. \A r \in Open : sock[r.fd].use = "ctl" /\ With(r) \in Clients /\ r.fd \in Fds
  BY OpenTyped DEF Uses, With, ConnType
<1>2. Serving => Cur \in Open
  BY CurIs
<1> QED
  BY <1>1, <1>2 DEF Peer, With

\* Two connections of the list have two sockets, and these two clients.
LEMMA OneEach ==
  ASSUME Typed, Uses, NEW r \in Open, NEW s \in Open, r.fd = s.fd \/ With(r) = With(s)
  PROVE  r = s
<1>1. r.fd = s.fd
  BY PeerIs DEF Uses, With
<1> QED
  BY <1>1 DEF Uses, Open

\* While the loop does not move, neither does its connection.
LEMMA SameTurn ==
  ASSUME conns' = conns, left' = left
  PROVE  Open' = Open /\ Cur' = Cur /\ Pasv' = Pasv
BY DEF Open, Cur, At, Pasv

\* A function on 1 .. k is a sequence of length k.
LEMMA FunctionIsSeq ==
  ASSUME NEW S, NEW k \in Nat, NEW f \in [1 .. k -> S]
  PROVE  f \in Seq(S) /\ Len(f) = k
OBVIOUS

\* One entry of the list is written, ...
LEMMA EntrySet ==
  ASSUME Typed, Uses, Serving, NEW r \in ConnType, r.fd = Cur.fd,
         conns' = [conns EXCEPT ![At] = r]
  PROVE  /\ conns' \in Seq(ConnType) /\ Len(conns') = Len(conns)
         /\ Open' = (Open \ {Cur}) \cup {r}
         /\ \A i, j \in DOMAIN conns' : conns'[i].fd = conns'[j].fd => i = j
<1>1. conns \in Seq(ConnType) /\ At \in DOMAIN conns /\ Cur = conns[At]
  BY CurIs DEF Typed
<1>2. conns' \in Seq(ConnType) /\ Len(conns') = Len(conns) /\ DOMAIN conns' = DOMAIN conns
  BY <1>1
<1>3. \A i \in DOMAIN conns : conns'[i] = IF i = At THEN r ELSE conns[i]
  BY <1>1
<1>4. \A i, j \in DOMAIN conns : conns[i].fd = conns[j].fd => i = j
  BY DEF Uses
<1>5. Open' = (Open \ {Cur}) \cup {r}
  BY <1>1, <1>2, <1>3, <1>4 DEF Open
<1>6. \A i \in DOMAIN conns : conns'[i].fd = conns[i].fd
  BY <1>1, <1>3
<1> QED
  BY <1>2, <1>4, <1>5, <1>6

\* ... dropped, ...
LEMMA EntryDropped ==
  ASSUME Typed, Uses, Serving,
         conns' = [i \in 1 .. Len(conns) - 1 |-> IF i < At THEN conns[i] ELSE conns[i + 1]]
  PROVE  /\ conns' \in Seq(ConnType) /\ Len(conns') = Len(conns) - 1
         /\ Open' = Open \ {Cur}
         /\ \A i, j \in DOMAIN conns' : conns'[i].fd = conns'[j].fd => i = j
<1> DEFINE n == Len(conns)  from(i) == IF i < At THEN i ELSE i + 1
<1>1. conns \in Seq(ConnType) /\ At \in 1 .. n /\ Cur = conns[At] /\ n \in Nat /\ DOMAIN conns = 1 .. n
  BY CurIs DEF Typed
<1>2. n - 1 \in Nat /\ \A i \in 1 .. n - 1 : from(i) \in 1 .. n /\ from(i) # At
  BY <1>1
<1>3. \A i \in 1 .. n - 1 : conns'[i] = conns[from(i)]
  BY <1>1
<1>4. \A i, j \in 1 .. n - 1 : from(i) = from(j) => i = j
  BY <1>1
<1>5. \A k \in 1 .. n : k # At => \E i \in 1 .. n - 1 : from(i) = k
  <2> SUFFICES ASSUME NEW k \in 1 .. n, k # At PROVE \E i \in 1 .. n - 1 : from(i) = k
    OBVIOUS
  <2>1. CASE k < At
    <3>1. k \in 1 .. n - 1 /\ from(k) = k
      BY <1>1, <2>1
    <3> QED
      BY <3>1
  <2>2. CASE k > At
    <3>1. k - 1 \in 1 .. n - 1 /\ from(k - 1) = k
      BY <1>1, <2>2
    <3> QED
      BY <3>1
  <2> QED
    BY <1>1, <2>1, <2>2
<1>6. \A i, j \in 1 .. n : conns[i].fd = conns[j].fd => i = j
  BY <1>1 DEF Uses
<1>7. DOMAIN conns' = 1 .. n - 1
  BY <1>1
<1> HIDE DEF from
<1>8. conns' \in [1 .. n - 1 -> ConnType]
  BY <1>1, <1>2, <1>3, <1>7, ElementOfSeq
<1>9. conns' \in Seq(ConnType) /\ Len(conns') = n - 1
  <2>1. n - 1 \in Nat
    BY <1>2
  <2> QED
    BY <2>1, <1>8, FunctionIsSeq
<1>10. Open' = Open \ {Cur}
  <2>1. \A i \in 1 .. n - 1 : conns'[i] \in Open \ {Cur}
    BY <1>1, <1>2, <1>3, <1>6 DEF Open
  <2>2. \A k \in 1 .. n : conns[k] # Cur => \E i \in 1 .. n - 1 : conns'[i] = conns[k]
    BY <1>1, <1>3, <1>5
  <2>3. Open' = {conns'[i] : i \in 1 .. n - 1} /\ Open = {conns[i] : i \in 1 .. n}
    BY <1>1, <1>7 DEF Open
  <2>4. Open' \subseteq Open \ {Cur}
    BY <2>1, <2>3
  <2>5. Open \ {Cur} \subseteq Open'
    BY <2>2, <2>3
  <2> QED
    BY <2>4, <2>5
<1>11. \A i, j \in DOMAIN conns' : conns'[i].fd = conns'[j].fd => i = j
  <2> SUFFICES ASSUME NEW i \in 1 .. n - 1, NEW j \in 1 .. n - 1, conns'[i].fd = conns'[j].fd
               PROVE  i = j
    BY <1>7
  <2>1. from(i) \in 1 .. n /\ from(j) \in 1 .. n /\ conns[from(i)].fd = conns[from(j)].fd
    BY <1>2, <1>3
  <2>2. from(i) = from(j)
    BY <1>6, <2>1
  <2> QED
    BY <1>4, <2>2
<1> QED
  BY <1>9, <1>10, <1>11

\* ... or added.
LEMMA EntryAdded ==
  ASSUME Typed, Uses, NEW r \in ConnType, \A s \in Open : s.fd # r.fd, conns' = <<r>> \o conns
  PROVE  /\ conns' \in Seq(ConnType) /\ Len(conns') = Len(conns) + 1
         /\ Open' = Open \cup {r}
         /\ \A i, j \in DOMAIN conns' : conns'[i].fd = conns'[j].fd => i = j
<1> DEFINE n == Len(conns)
<1>1. conns \in Seq(ConnType) /\ n \in Nat /\ DOMAIN conns = 1 .. n
  BY DEF Typed
<1>2. <<r>> \in Seq(ConnType) /\ Len(<<r>>) = 1 /\ <<r>>[1] = r
  OBVIOUS
<1>3. conns' \in Seq(ConnType) /\ Len(conns') = n + 1 /\ DOMAIN conns' = 1 .. n + 1
  BY <1>1, <1>2
<1>4. \A i \in 1 .. n + 1 : conns'[i] = IF i = 1 THEN r ELSE conns[i - 1]
  BY <1>1, <1>2
<1>5. \A i \in 2 .. n + 1 : i - 1 \in 1 .. n /\ conns'[i] = conns[i - 1]
  BY <1>1, <1>4
<1>6. \A k \in 1 .. n : k + 1 \in 2 .. n + 1 /\ conns'[k + 1] = conns[k]
  BY <1>1, <1>4
<1>7. conns'[1] = r /\ \A i \in 1 .. n + 1 : i = 1 \/ i \in 2 .. n + 1
  BY <1>1, <1>4
<1>8. Open' = Open \cup {r}
  <2>1. \A i \in 1 .. n + 1 : conns'[i] \in Open \cup {r}
    BY <1>1, <1>5, <1>7 DEF Open
  <2>2. \A k \in 1 .. n : \E i \in 1 .. n + 1 : conns'[i] = conns[k]
    BY <1>1, <1>6
  <2>3. Open' = {conns'[i] : i \in 1 .. n + 1} /\ Open = {conns[i] : i \in 1 .. n}
    BY <1>1, <1>3 DEF Open
  <2>4. Open' \subseteq Open \cup {r}
    BY <2>1, <2>3
  <2>5. 1 \in 1 .. n + 1
    BY <1>1
  <2>6. r \in Open'
    BY <1>7, <2>3, <2>5
  <2>7. Open \subseteq Open'
    BY <2>2, <2>3
  <2> QED
    BY <2>4, <2>6, <2>7
<1>9. \A i, j \in 1 .. n : conns[i].fd = conns[j].fd => i = j
  BY <1>1 DEF Uses
<1>10. \A k \in 1 .. n : conns[k].fd # r.fd
  BY <1>1 DEF Open
<1>11. \A i, j \in DOMAIN conns' : conns'[i].fd = conns'[j].fd => i = j
  <2> SUFFICES ASSUME NEW i \in 1 .. n + 1, NEW j \in 1 .. n + 1, conns'[i].fd = conns'[j].fd
               PROVE  i = j
    BY <1>3
  <2>1. CASE i = 1 \/ j = 1
    BY <2>1, <1>5, <1>7, <1>10
  <2>2. CASE i # 1 /\ j # 1
    <3>1. i \in 2 .. n + 1 /\ j \in 2 .. n + 1
      BY <1>7, <2>2
    <3>2. conns[i - 1].fd = conns[j - 1].fd /\ i - 1 \in 1 .. n /\ j - 1 \in 1 .. n
      BY <1>5, <3>1
    <3>3. i - 1 = j - 1
      BY <1>9, <3>2
    <3> QED
      BY <1>1, <3>1, <3>3
  <2> QED
    BY <2>1, <2>2
<1> QED
  BY <1>3, <1>8, <1>11

-----------------------------------------------------------------------------
(* Counting netconns.                                                      *)

\* Held has as many elements as netconns are in use.
LEMMA HeldIs ==
  ASSUME Typed, Counted
  PROVE  /\ Cardinality(Fds \ FreeFds) \in Nat /\ Cardinality(Held) \in Nat
         /\ Cardinality(UNION {Pending(f) : f \in Fds}) \in Nat
         /\ Cardinality(Held) =
              Cardinality(Fds \ FreeFds) + Cardinality(UNION {Pending(f) : f \in Fds})
         /\ IsFiniteSet(Fds) /\ Cardinality(Fds) = MaxConn
<1> DEFINE U == Fds \ FreeFds
           A == {<<f, 0>> : f \in U}
           P == UNION {Pending(f) : f \in Fds}
           g == [f \in U |-> <<f, 0>>]
<1>1. IsFiniteSet(Fds) /\ Cardinality(Fds) = MaxConn
  <2>1. 0 \in Int /\ MaxConn - 1 \in Int /\ MaxConn \in Nat /\ MaxConn >= 2
    BY SocketAssumption
  <2>2. IsFiniteSet(0 .. MaxConn - 1)
        /\ Cardinality(0 .. MaxConn - 1) = IF 0 > MaxConn - 1 THEN 0 ELSE MaxConn - 1 - 0 + 1
    BY <2>1, FS_Interval
  <2> QED
    BY <2>1, <2>2 DEF Fds
<1>2. IsFiniteSet(U)
  BY <1>1, FS_Subset
<1>3. g \in Bijection(U, A)
  BY DEF Bijection, Injection, Surjection, IsInjective
<1>4. IsFiniteSet(A) /\ Cardinality(A) = Cardinality(U)
  <2>1. ExistsBijection(U, A)
    BY <1>3 DEF ExistsBijection
  <2> QED
    BY <1>2, <2>1, FS_Bijection
<1>5. IsFiniteSet(P)
  BY FS_Subset DEF Counted, Held
<1>6. \A x \in P : x[2] # 0
  BY DEF Pending, Typed, SockType
<1>7. A \cap P = {}
  BY <1>6
<1>8. Held = A \cup P
  BY DEF Held
<1>9. Cardinality(Held) = Cardinality(A) + Cardinality(P) - Cardinality(A \cap P)
  BY <1>4, <1>5, <1>8, FS_Union
<1>10. Cardinality(A \cap P) = 0
  BY <1>7, FS_EmptySet
<1>11. Cardinality(A) \in Nat /\ Cardinality(P) \in Nat /\ Cardinality(Held) \in Nat
  BY <1>4, <1>5, FS_CardinalityType DEF Counted
<1> HIDE DEF A, P, U
<1>12. Cardinality(Held) = Cardinality(A) + Cardinality(P)
  BY <1>9, <1>10, <1>11
<1> QED
  BY <1>1, <1>4, <1>11, <1>12 DEF U, P

\* Where a netconn is free a socket is, and where a connection waits for accept.
LEMMA SomeFree ==
  ASSUME Typed, Counted, NetconnFree \/ \E f \in Fds : sock[f].q # <<>> /\ Head(sock[f].q) # "abrt"
  PROVE  /\ Lowest(FreeFds) \in FreeFds /\ Lowest(FreeFds) \in Fds
         /\ sock[Lowest(FreeFds)].use = "free"
<1> DEFINE n == Cardinality(Fds \ FreeFds)  m == Cardinality(UNION {Pending(f) : f \in Fds})
<1>1. n \in Nat /\ m \in Nat /\ n + m <= MaxConn /\ MaxConn \in Nat /\ Cardinality(Fds) = MaxConn
  BY HeldIs, SocketAssumption DEF Counted
<1>2. n < MaxConn
  <2>1. CASE NetconnFree
    BY <1>1, <2>1 DEF NetconnFree
  <2>2. ASSUME NEW f \in Fds, sock[f].q # <<>>, Head(sock[f].q) # "abrt" PROVE n < MaxConn
    <3>1. sock[f].q \in Seq(Clients \cup {"abrt"})
      BY DEF Typed, SockType
    <3>2. 1 \in DOMAIN sock[f].q /\ sock[f].q[1] # "abrt"
      BY <2>2, <3>1
    <3>3. <<f, 1>> \in Pending(f)
      BY <3>2 DEF Pending
    <3>4. UNION {Pending(x) : x \in Fds} # {}
      BY <3>3
    <3>5. IsFiniteSet(UNION {Pending(x) : x \in Fds})
      BY FS_Subset DEF Counted, Held
    <3>6. m # 0
      BY <3>4, <3>5, FS_EmptySet
    <3> QED
      BY <1>1, <3>6
  <2> QED
    BY <2>1, <2>2
<1>3. FreeFds # {}
  <2> SUFFICES ASSUME FreeFds = {} PROVE FALSE
    OBVIOUS
  <2>1. Fds \ FreeFds = Fds
    OBVIOUS
  <2> QED
    BY <1>1, <1>2, <2>1
<1>4. FreeFds \in SUBSET Nat
  BY SocketAssumption DEF FreeFds, Fds
<1> QED
  BY <1>3, <1>4, SmallestIn DEF FreeFds

\* A netconn more where one is free, or each one in use has been in use.
LEMMA OneMore ==
  ASSUME Typed, Counted, NetconnFree, NEW x, Held' \subseteq Held \cup {x}
  PROVE  Counted'
<1>1. Cardinality(Held) < MaxConn /\ Cardinality(Held) \in Nat /\ MaxConn \in Nat
  BY HeldIs, SocketAssumption DEF NetconnFree
<1>2. IsFiniteSet(Held \cup {x}) /\ Cardinality(Held \cup {x}) <= Cardinality(Held) + 1
  <2>1. IsFiniteSet(Held)
    BY DEF Counted
  <2>2. /\ IsFiniteSet(Held \cup {x})
        /\ Cardinality(Held \cup {x}) = IF x \in Held THEN Cardinality(Held) ELSE Cardinality(Held) + 1
    BY <2>1, FS_AddElement, Zenon
  <2> QED
    BY <1>1, <2>2
<1>3. IsFiniteSet(Held') /\ Cardinality(Held') <= Cardinality(Held \cup {x})
  BY <1>2, FS_Subset
<1>4. Cardinality(Held') \in Nat /\ Cardinality(Held \cup {x}) \in Nat
  BY <1>2, <1>3, FS_CardinalityType
<1> QED
  BY <1>1, <1>2, <1>3, <1>4 DEF Counted

\* A step after which the netconns inject into those before adds none.
LEMMA NoneMore ==
  ASSUME Typed, Counted, NEW g \in [Held' -> Held], \A x, y \in Held' : g[x] = g[y] => x = y
  PROVE  Counted'
<1>1. g \in Injection(Held', Held)
  BY DEF Injection, IsInjective
<1>2. IsFiniteSet(Held') /\ Cardinality(Held') <= Cardinality(Held)
  BY <1>1, FS_Injection DEF Counted
<1>3. Cardinality(Held') \in Nat /\ Cardinality(Held) \in Nat /\ MaxConn \in Nat
  BY <1>2, FS_CardinalityType, SocketAssumption DEF Counted
<1> QED
  BY <1>2, <1>3 DEF Counted

\* A step that only frees netconns adds none.
LEMMA FewerHeld ==
  ASSUME Typed, Counted, Held' \subseteq Held
  PROVE  Counted'
<1>1. [x \in Held' |-> x] \in [Held' -> Held]
  OBVIOUS
<1>2. \A x, y \in Held' : [z \in Held' |-> z][x] = [z \in Held' |-> z][y] => x = y
  OBVIOUS
<1> QED
  BY <1>1, <1>2, NoneMore

-----------------------------------------------------------------------------
(* What a step does to its client: the record before is c, after it d.     *)

Reps == {"none", "200", "350", "226", "425", "227", "550"}
AnsweredAs(c, d, r) ==
  /\ d.cmd = "none" /\ d.rep = r /\ d.wait = FALSE /\ d.doing = "none"
  /\ d.from = 0 /\ d.got = <<>>
SameTalk(c, d) ==
  /\ d.cmd = c.cmd /\ d.rep = c.rep /\ d.wait = c.wait /\ d.doing = c.doing
  /\ d.from = c.from /\ d.got = c.got
SameSelf(c, d) == d.ctl = c.ctl /\ d.asked = c.asked /\ d.rested = c.rested
SameData(c, d) == d.data = c.data /\ d.unread = c.unread /\ d.up = c.up
NoData(d) == d.data = "none" /\ d.unread = 0 /\ d.up = 0

\* A new client, and one in the queue, are clients.
LEMMA NewClientTyped ==
  /\ NewClient \in ClType
  /\ \A x \in {"none", "queued", "open", "fin"} : [NewClient EXCEPT !.ctl = x] \in ClType
<1>1. UpLen \in Nat /\ FileLen \in Nat /\ 0 \in 0 .. UpLen /\ 0 \in 0 .. FileLen
  BY LengthAssumption
<1>2. <<>> \in Seq(Nat)
  OBVIOUS
<1>3. NewClient \in ClType
  BY <1>1, <1>2 DEF NewClient, ClType, Cmds
<1> QED
  BY <1>3 DEF ClType

\* A reply ends the command and leaves the rest of the client alone.
LEMMA RepliedGives ==
  ASSUME Peer \in Clients, NEW clients \in [Clients -> ClType], NEW r \in Reps
  PROVE  /\ Replied(clients, r) \in [Clients -> ClType]
         /\ \A c \in Clients \ {Peer} : Replied(clients, r)[c] = clients[c]
         /\ AnsweredAs(clients[Peer], Replied(clients, r)[Peer], r)
         /\ SameSelf(clients[Peer], Replied(clients, r)[Peer])
         /\ SameData(clients[Peer], Replied(clients, r)[Peer])
<1> DEFINE me == clients[Peer]
           new == [me EXCEPT !.cmd = "none", !.rep = r, !.wait = FALSE, !.doing = "none",
                             !.from = 0, !.got = <<>>]
<1>1. FileLen \in Nat /\ 0 \in 0 .. FileLen /\ <<>> \in Seq(Nat) /\ me \in ClType
  BY LengthAssumption
<1>2. new \in ClType
  BY <1>1 DEF ClType, Reps
<1>3. Replied(clients, r) = [clients EXCEPT ![Peer] = new]
  BY DEF Replied
<1>4. AnsweredAs(me, new, r) /\ SameSelf(me, new) /\ SameData(me, new)
  BY <1>1 DEF ClType, AnsweredAs, SameSelf, SameData
<1> HIDE DEF new
<1> QED
  BY <1>2, <1>3, <1>4

\* Closing the data connection leaves the command alone.
LEMMA ClosedByGives ==
  ASSUME Peer \in Clients, NEW clients \in [Clients -> ClType]
  PROVE  /\ ClosedBy(clients) \in [Clients -> ClType]
         /\ \A c \in Clients \ {Peer} : ClosedBy(clients)[c] = clients[c]
         /\ SameTalk(clients[Peer], ClosedBy(clients)[Peer])
         /\ SameSelf(clients[Peer], ClosedBy(clients)[Peer])
         /\ Own => NoData(ClosedBy(clients)[Peer])
         /\ ~Own => SameData(clients[Peer], ClosedBy(clients)[Peer])
<1> DEFINE me == clients[Peer]
           new == [me EXCEPT !.data = "none", !.unread = 0, !.up = 0]
<1>1. UpLen \in Nat /\ 0 \in 0 .. UpLen /\ me \in ClType
  BY LengthAssumption
<1>2. new \in ClType
  BY <1>1 DEF ClType
<1>3. SameTalk(me, new) /\ SameSelf(me, new) /\ NoData(new)
  BY <1>1 DEF ClType, SameTalk, SameSelf, NoData
<1>4. CASE Own
  <2>1. ClosedBy(clients) = [clients EXCEPT ![Peer] = new]
    BY <1>4 DEF ClosedBy
  <2> HIDE DEF new
  <2> QED
    BY <1>2, <1>3, <1>4, <2>1
<1>5. CASE ~Own
  BY <1>5 DEF ClosedBy, SameTalk, SameSelf, SameData
<1> QED
  BY <1>4, <1>5

-----------------------------------------------------------------------------
(* What a step does to sockets, and to their number.                       *)

\* Free and listening sockets are sockets.
LEMMA FreeTyped ==
  /\ Free \in SockType /\ Free.use = "free" /\ Free.q = <<>> /\ Free.port = FALSE
  /\ Listener \in SockType /\ Listener.use = "listen" /\ Listener.q = <<>> /\ Listener.port = FALSE
<1>1. <<>> \in Seq(Clients \cup {"abrt"})
  OBVIOUS
<1>2. Free \in SockType /\ Free.use = "free" /\ Free.q = <<>> /\ Free.port = FALSE
  BY <1>1 DEF Free, SockType
<1> QED
  BY <1>2 DEF Listener, SockType

\* Sockets closed are netconns given back.
LEMMA Freed ==
  ASSUME Typed, Counted, \A f \in Fds : sock'[f] \in {sock[f], Free}
  PROVE  Counted'
<1>1. \A f \in Fds : f \in Fds \ FreeFds' => f \in Fds \ FreeFds
  BY FreeTyped DEF FreeFds
<1>2. \A f \in Fds : Pending(f)' \subseteq Pending(f)
  BY FreeTyped DEF Pending
<1>3. Held' = {<<f, 0>> : f \in Fds \ FreeFds'} \cup UNION {Pending(f)' : f \in Fds}
  BY DEF Held
<1>4. Held' \subseteq Held
  BY <1>1, <1>2, <1>3 DEF Held
<1> QED
  BY <1>4, FewerHeld

\* A socket of the server's own is one more.
LEMMA Taken ==
  ASSUME Typed, Counted, NetconnFree, NEW fd \in Fds, NEW s, s.q = <<>>, sock' = [sock EXCEPT ![fd] = s]
  PROVE  Counted'
<1>1. \A f \in Fds : f # fd => sock'[f] = sock[f]
  BY DEF Typed
<1>2. sock'[fd].q = <<>>
  BY DEF Typed
<1>3. \A f \in Fds : Pending(f)' \subseteq Pending(f)
  BY <1>1, <1>2 DEF Pending
<1>4. \A f \in Fds : f \in Fds \ FreeFds' => f \in Fds \ FreeFds \/ f = fd
  BY <1>1 DEF FreeFds
<1>5. Held' = {<<f, 0>> : f \in Fds \ FreeFds'} \cup UNION {Pending(f)' : f \in Fds}
  BY DEF Held
<1>6. Held' \subseteq Held \cup {<<fd, 0>>}
  BY <1>3, <1>4, <1>5 DEF Held
<1> QED
  BY <1>6, OneMore

\* A connection that waits for accept is one more, the mark of none is not.
LEMMA Waiting ==
  ASSUME Typed, Counted, NEW f \in Fds, NEW c \in Clients \cup {"abrt"}, c = "abrt" \/ NetconnFree,
         sock' = [sock EXCEPT ![f].q = Append(@, c)]
  PROVE  Counted' /\ sock' \in [Fds -> SockType]
<1> DEFINE n == Len(sock[f].q) + 1
<1>1. sock[f] \in SockType /\ sock[f].q \in Seq(Clients \cup {"abrt"})
  BY DEF Typed, SockType
<1>2. /\ Append(sock[f].q, c) \in Seq(Clients \cup {"abrt"})
      /\ DOMAIN Append(sock[f].q, c) = 1 .. n /\ DOMAIN sock[f].q = 1 .. n - 1 /\ n \in Nat \ {0}
      /\ \A i \in 1 .. n : Append(sock[f].q, c)[i] = IF i = n THEN c ELSE sock[f].q[i]
  BY <1>1
<1>3. sock' = [sock EXCEPT ![f] = [sock[f] EXCEPT !.q = Append(sock[f].q, c)]]
  BY DEF Typed
<1>4. [sock[f] EXCEPT !.q = Append(sock[f].q, c)] \in SockType
  BY <1>1, <1>2 DEF SockType
<1>5. sock' \in [Fds -> SockType]
  BY <1>3, <1>4 DEF Typed
<1>6. sock'[f].q = Append(sock[f].q, c) /\ sock'[f].use = sock[f].use
  BY <1>1, <1>3 DEF Typed, SockType
<1>7. \A g \in Fds : g # f => sock'[g] = sock[g]
  BY <1>3 DEF Typed
<1>8. FreeFds' = FreeFds
  BY <1>6, <1>7 DEF FreeFds
<1>9. \A g \in Fds : g # f => Pending(g)' = Pending(g)
  BY <1>7 DEF Pending
<1>10. \A x \in Pending(f)' : x \in Pending(f) \/ (x = <<f, n>> /\ c # "abrt")
  <2>1. \A i \in DOMAIN sock'[f].q : sock'[f].q[i] # "abrt" =>
          (i \in DOMAIN sock[f].q /\ sock[f].q[i] # "abrt") \/ (i = n /\ c # "abrt")
    BY <1>2, <1>6
  <2> QED
    BY <2>1 DEF Pending
<1>11. Held' = {<<g, 0>> : g \in Fds \ FreeFds'} \cup UNION {Pending(g)' : g \in Fds}
  BY DEF Held
<1>12. Held' \subseteq Held \cup {<<f, n>>}
  BY <1>8, <1>9, <1>10, <1>11 DEF Held
<1>13. c = "abrt" => Held' \subseteq Held
  BY <1>8, <1>9, <1>10, <1>11 DEF Held
<1> QED
  BY <1>5, <1>12, <1>13, OneMore, FewerHeld

\* The first of a queue, taken from it.
LEMMA TailGives ==
  ASSUME NEW S, NEW q \in Seq(S), q # <<>>
  PROVE  /\ Tail(q) \in Seq(S) /\ Len(Tail(q)) = Len(q) - 1 /\ Len(q) \in Nat \ {0} /\ Head(q) = q[1]
         /\ 1 \in DOMAIN q /\ DOMAIN Tail(q) = 1 .. Len(q) - 1
         /\ \A i \in DOMAIN Tail(q) : i + 1 \in DOMAIN q /\ Tail(q)[i] = q[i + 1]
OBVIOUS

\* A netconn in use: of a socket, or of a place in a queue.
HeldOf ==
  /\ \A x \in Held : x[1] \in Fds /\ x[2] \in Nat /\ x = <<x[1], x[2]>>
  /\ \A f \in Fds : <<f, 0>> \in Held <=> sock[f].use # "free"
  /\ \A f \in Fds, i \in Nat \ {0} :
       <<f, i>> \in Held <=> i \in DOMAIN sock[f].q /\ sock[f].q[i] # "abrt"

\* The netconns, counted socket by socket.
LEMMA HeldHas == sock \in [Fds -> SockType] => HeldOf
<1> SUFFICES ASSUME sock \in [Fds -> SockType] PROVE HeldOf
  OBVIOUS
<1>1. \A f \in Fds : sock[f].q \in Seq(Clients \cup {"abrt"})
  BY DEF SockType
<1>2. \A f \in Fds : 0 \notin DOMAIN sock[f].q /\ DOMAIN sock[f].q \subseteq Nat
  BY <1>1
<1>3. \A f \in Fds : \A x \in Pending(f) :
        x = <<f, x[2]>> /\ x[2] \in DOMAIN sock[f].q /\ sock[f].q[x[2]] # "abrt"
  BY DEF Pending
<1>4. \A f \in Fds : \A i \in DOMAIN sock[f].q : sock[f].q[i] # "abrt" => <<f, i>> \in Pending(f)
  BY DEF Pending
<1>5. \A x : x \in Held <=>
        \/ \E f \in Fds : x = <<f, 0>> /\ sock[f].use # "free"
        \/ \E f \in Fds : x \in Pending(f)
  BY DEF Held, FreeFds
<1>6. ASSUME NEW x \in Held PROVE x[1] \in Fds /\ x[2] \in Nat /\ x = <<x[1], x[2]>>
  <2>1. CASE \E f \in Fds : x = <<f, 0>> /\ sock[f].use # "free"
    BY <2>1
  <2>2. CASE \E f \in Fds : x \in Pending(f)
    BY <1>2, <1>3, <2>2
  <2> QED
    BY <1>5, <1>6, <2>1, <2>2
<1>7. ASSUME NEW f \in Fds PROVE <<f, 0>> \in Held <=> sock[f].use # "free"
  BY <1>2, <1>3, <1>5
<1>8. ASSUME NEW f \in Fds, NEW i \in Nat \ {0}
      PROVE  <<f, i>> \in Held <=> i \in DOMAIN sock[f].q /\ sock[f].q[i] # "abrt"
  BY <1>3, <1>4, <1>5
<1> QED
  BY <1>6, <1>7, <1>8 DEF HeldOf

\* A connection leaves its queue, and is a socket if it was one.
LEMMA Dequeued ==
  ASSUME Typed, Counted, NEW f \in Fds, NEW fd \in Fds, sock[f].q # <<>>,
         sock' \in [Fds -> SockType], sock'[f].q = Tail(sock[f].q), sock'[f].use = sock[f].use,
         \A g \in Fds \ {f, fd} : sock'[g] = sock[g],
         fd # f => sock[fd].use = "free" /\ sock'[fd].q = <<>> /\ Head(sock[f].q) # "abrt"
  PROVE  Counted'
<1> DEFINE q == sock[f].q
           to(x) == IF x[2] = 0 THEN IF fd # f /\ x[1] = fd THEN <<f, 1>> ELSE x
                    ELSE IF x[1] = f THEN <<f, x[2] + 1>> ELSE x
           g == [x \in Held' |-> to(x)]
<1>1. sock \in [Fds -> SockType] /\ q \in Seq(Clients \cup {"abrt"}) /\ q # <<>>
  BY DEF Typed, SockType
<1>2. /\ Len(q) \in Nat \ {0} /\ Head(q) = q[1] /\ 1 \in DOMAIN q
      /\ \A i \in DOMAIN Tail(q) : i + 1 \in DOMAIN q /\ Tail(q)[i] = q[i + 1]
  BY <1>1, TailGives
<1>3. HeldOf
  BY <1>1, HeldHas
<1>4. HeldOf'
  <2>1. (sock \in [Fds -> SockType])' => HeldOf'
    BY HeldHas, PTL
  <2> QED
    BY <2>1
<1>5. ASSUME NEW x \in Held' PROVE to(x) \in Held
  <2>1. x[1] \in Fds /\ x[2] \in Nat /\ x = <<x[1], x[2]>>
    BY <1>4 DEF HeldOf
  <2>2. CASE x[2] = 0 /\ fd # f /\ x[1] = fd
    BY <1>2, <1>3, <2>2 DEF HeldOf
  <2>3. CASE x[2] = 0 /\ ~(fd # f /\ x[1] = fd)
    <3>1. sock'[x[1]].use # "free" /\ sock'[x[1]].use = sock[x[1]].use
      BY <1>4, <2>1, <2>3 DEF HeldOf
    <3> QED
      BY <1>3, <2>1, <2>3, <3>1 DEF HeldOf
  <2>4. CASE x[2] # 0 /\ x[1] = f
    <3>1. x[2] \in Nat \ {0} /\ <<f, x[2]>> \in Held'
      BY <2>1, <2>4
    <3>2. x[2] \in DOMAIN Tail(q) /\ Tail(q)[x[2]] # "abrt"
      BY <1>4, <3>1 DEF HeldOf
    <3>3. x[2] + 1 \in DOMAIN sock[f].q /\ sock[f].q[x[2] + 1] # "abrt"
      BY <1>2, <3>2
    <3>4. x[2] + 1 \in Nat \ {0}
      BY <2>1
    <3>5. <<f, x[2] + 1>> \in Held
      BY <1>3, <3>3, <3>4 DEF HeldOf
    <3> QED
      BY <2>4, <3>5
  <2>5. CASE x[2] # 0 /\ x[1] # f
    <3>1. x[2] \in DOMAIN sock'[x[1]].q /\ sock'[x[1]].q[x[2]] # "abrt"
      BY <1>4, <2>1, <2>5 DEF HeldOf
    <3>2. x[1] # fd
      BY <2>5, <3>1
    <3>3. x[2] \in DOMAIN sock[x[1]].q /\ sock[x[1]].q[x[2]] # "abrt"
      BY <2>1, <2>5, <3>1, <3>2
    <3>4. <<x[1], x[2]>> \in Held
      BY <1>3, <2>1, <2>5, <3>3 DEF HeldOf
    <3> QED
      BY <2>1, <2>5, <3>4
  <2> QED
    BY <2>2, <2>3, <2>4, <2>5
<1>6. ASSUME NEW x \in Held', NEW y \in Held', to(x) = to(y) PROVE x = y
  <2>1. /\ x[1] \in Fds /\ x[2] \in Nat /\ x = <<x[1], x[2]>>
        /\ y[1] \in Fds /\ y[2] \in Nat /\ y = <<y[1], y[2]>>
    BY <1>4 DEF HeldOf
  <2>2. to(x)[1] = to(y)[1] /\ to(x)[2] = to(y)[2]
    BY <1>6
  <2>3. x[1] = y[1] /\ x[2] = y[2]
    BY <2>1, <2>2
  <2> QED
    BY <2>1, <2>3
<1>7. g \in [Held' -> Held] /\ \A x, y \in Held' : g[x] = g[y] => x = y
  <2> HIDE DEF to
  <2> QED
    BY <1>5, <1>6
<1> HIDE DEF g
<1> QED
  BY <1>7, NoneMore

-----------------------------------------------------------------------------
(* Typed and Counted: every step keeps them.                               *)

\* A step after which the loop goes on.
LEMMA TypedOn ==
  ASSUME Typed, sock' \in [Fds -> SockType], conns' \in Seq(ConnType), readfds' \subseteq Fds,
         NEW n \in 0 .. Len(conns), n <= Len(conns'), NEW fds \in SUBSET Fds, NEW on \in BOOLEAN,
         GoOn(n, fds, on), pl' = NoFd, pos' \in Nat, cl' \in [Clients -> ClType],
         spent' = spent, Flags'
  PROVE  Typed'
<1>1. /\ pc' \in {"select", "loop"} /\ left' \in 0 .. n /\ (pc' = "loop" => left' > 0)
      /\ awake' \in BOOLEAN /\ tmpfds' \subseteq Fds
  BY GoOnGives
<1>2. Len(conns') \in Nat /\ left' \in 0 .. Len(conns')
  BY <1>1
<1> QED
  BY <1>1, <1>2 DEF Typed, Serving

\* A step after which the task sleeps and the loop goes on.
LEMMA TypedSleep ==
  ASSUME Typed, Serving, sock' \in [Fds -> SockType], conns' \in Seq(ConnType),
         Len(conns') = Len(conns) \/ Len(conns') = Len(conns) - 1,
         readfds' \subseteq Fds, GoOn(left - 1, tmpfds, FALSE) \/ GoOn(left - 1, tmpfds, awake),
         pl' = NoFd, pos' \in Nat, cl' \in [Clients -> ClType], spent' = spent, Flags'
  PROVE  Typed'
<1>1. left \in 1 .. Len(conns) /\ Len(conns) \in Nat
  BY CurIs
<1>2. left - 1 \in 0 .. Len(conns) /\ left - 1 <= Len(conns')
  BY <1>1
<1>3. tmpfds \in SUBSET Fds /\ awake \in BOOLEAN
  BY DEF Typed
<1> QED
  BY <1>2, <1>3, TypedOn

\* Where the loop goes after a sleep.
LEMMA SleepGives ==
  ASSUME Typed, Serving, GoOn(left - 1, tmpfds, FALSE) \/ GoOn(left - 1, tmpfds, awake)
  PROVE  pc' \in {"select", "loop"}
<1>1. left - 1 \in 0 .. Len(conns) /\ tmpfds \in SUBSET Fds /\ awake \in BOOLEAN
  BY CurIs DEF Typed
<1> QED
  BY <1>1, GoOnGives

\* What most steps have in common.
Quiet == readfds' = readfds /\ UNCHANGED hist
Others == \A c \in Clients \ {Peer} : cl'[c] = cl[c]
Goes == pc' \in {"select", "loop"} /\ pl' = NoFd
Entries(S) == Open' = S /\ \A i, j \in DOMAIN conns' : conns'[i].fd = conns'[j].fd => i = j
EntryTo(new) ==
  /\ conns' \in Seq(ConnType) /\ Len(conns') = Len(conns)
  /\ Entries((Open \ {Cur}) \cup {new}) /\ new \in ConnType /\ new.fd = Cur.fd

\* pasv_sockfd of a connection is written.
LEMMA PasvSet ==
  ASSUME Typed, Uses, Serving, NEW x \in Fds \cup {NoFd}, conns' = [conns EXCEPT ![At].pasv = x]
  PROVE  /\ EntryTo([Cur EXCEPT !.pasv = x])
         /\ [Cur EXCEPT !.pasv = x].pasv = x /\ [Cur EXCEPT !.pasv = x].offset = Cur.offset
<1>1. Cur \in ConnType /\ At \in DOMAIN conns /\ Cur = conns[At] /\ conns \in Seq(ConnType)
  BY CurIs DEF Typed
<1> DEFINE new == [Cur EXCEPT !.pasv = x]
<1>2. new \in ConnType /\ new.fd = Cur.fd /\ new.pasv = x /\ new.offset = Cur.offset
  BY <1>1 DEF ConnType
<1>3. conns' = [conns EXCEPT ![At] = new]
  BY <1>1
<1> HIDE DEF new
<1>4. EntryTo(new)
  BY <1>2, <1>3, EntrySet DEF EntryTo, Entries
<1> QED
  BY <1>2, <1>4 DEF new

\* The offset of a connection is written.
LEMMA OffsetSet ==
  ASSUME Typed, Uses, Serving, NEW x \in 0 .. FileLen, conns' = [conns EXCEPT ![At].offset = x]
  PROVE  /\ EntryTo([Cur EXCEPT !.offset = x])
         /\ [Cur EXCEPT !.offset = x].offset = x /\ [Cur EXCEPT !.offset = x].pasv = Cur.pasv
<1>1. Cur \in ConnType /\ At \in DOMAIN conns /\ Cur = conns[At] /\ conns \in Seq(ConnType)
  BY CurIs DEF Typed
<1> DEFINE new == [Cur EXCEPT !.offset = x]
<1>2. new \in ConnType /\ new.fd = Cur.fd /\ new.offset = x /\ new.pasv = Cur.pasv
  BY <1>1 DEF ConnType
<1>3. conns' = [conns EXCEPT ![At] = new]
  BY <1>1
<1> HIDE DEF new
<1>4. EntryTo(new)
  BY <1>2, <1>3, EntrySet DEF EntryTo, Entries
<1> QED
  BY <1>2, <1>4 DEF new

\* Where a step of the loop is taken.
LEMMA LoopServes ==
  ASSUME Typed, pc = "loop"
  PROVE  Serving /\ pl = NoFd /\ pos \in Nat /\ NoFd \notin Fds
BY SocketAssumption DEF Typed, Serving, NoFd, Fds

\* What a step answers.
LEMMA AskedServes ==
  ASSUME Typed, NEW k, Asked(k)
  PROVE  pc = "loop" /\ Serving /\ pl = NoFd /\ cl[Peer].cmd = k
BY LoopServes DEF Asked

NewEntry(new) ==
  /\ cl[Peer].cmd # "none" /\ (new.pasv = Cur.pasv \/ cl[Peer].cmd = "PORT")
  /\ new.offset = CASE cl[Peer].cmd = "REST" -> cl[Peer].asked
                    [] cl[Peer].cmd = "RETR" -> 0
                    [] OTHER -> Cur.offset

\* A reply and no more: the connection of the list becomes new.
AnswersWith(new) ==
  /\ pc = "loop" /\ Serving /\ Goes /\ Quiet /\ Others /\ sock' = sock /\ stale' = stale /\ pos' = pos
  /\ EntryTo(new) /\ NewEntry(new) /\ SameData(cl[Peer], cl'[Peer]) /\ SameSelf(cl[Peer], cl'[Peer])
  /\ \E r \in {"200", "350", "425", "550"} : AnsweredAs(cl[Peer], cl'[Peer], r)
Answers == \E new \in ConnType : AnswersWith(new)

\* Commands that are only answered.
LEMMA AnswersDoes ==
  ASSUME Typed, Counted, Uses,
         Noop \/ Rest \/ PortNoSocket \/ Refused \/ (PortConnects /\ sock' = sock)
  PROVE  Typed' /\ Counted' /\ Answers
<1>1. pc = "loop" /\ Serving /\ pl = NoFd /\ Peer \in Clients
  BY LoopServes, PeerIs DEF Noop, Rest, PortNoSocket, Refused, PortConnects, Asked
<1>2. cl \in [Clients -> ClType] /\ cl[Peer] \in ClType /\ cl[Peer].asked \in 0 .. FileLen
  BY <1>1 DEF Typed, ClType
<1>3. PICK r \in {"200", "350", "425", "550"} : cl' = Replied(cl, r)
  <2>2. CASE Noop \/ Rest \/ PortNoSocket \/ Refused
    BY <2>2 DEF Noop, Rest, PortNoSocket, Refused
  <2>3. CASE PortConnects /\ sock' = sock
    <3>1. NetconnFree /\ Lowest(FreeFds) \in FreeFds
      BY <2>3, SomeFree DEF PortConnects
    <3>2. sock[Lowest(FreeFds)].use = "free" /\ Lowest(FreeFds) \in Fds
      BY <3>1 DEF FreeFds
    <3>3. sock'[Lowest(FreeFds)] # [Free EXCEPT !.use = "data", !.peer = Peer]
      BY <2>3, <3>2 DEF Free
    <3>4. sock # [sock EXCEPT ![Lowest(FreeFds)] = [Free EXCEPT !.use = "data", !.peer = Peer]]
      BY <2>3, <3>2, <3>3 DEF Typed
    <3> QED
      BY <2>3, <3>4 DEF PortConnects
  <2> QED
    BY <2>2, <2>3
<1>4. /\ cl' \in [Clients -> ClType] /\ Others /\ AnsweredAs(cl[Peer], cl'[Peer], r)
      /\ SameData(cl[Peer], cl'[Peer]) /\ SameSelf(cl[Peer], cl'[Peer])
  <2>1. r \in Reps
    BY DEF Reps
  <2> QED
    BY <1>1, <1>2, <1>3, <2>1, RepliedGives DEF Others
<1>5. PICK new \in ConnType : EntryTo(new) /\ NewEntry(new)
  <2>1. conns \in Seq(ConnType) /\ 0 \in 0 .. FileLen /\ Cur \in Open /\ Cur \in ConnType
    BY <1>1, CurIs, LengthAssumption DEF Typed
  <2>2. CASE conns' = conns /\ cl[Peer].cmd \in {"NOOP", "STOR"}
    <3>1. EntryTo(Cur)
      BY <2>1, <2>2 DEF EntryTo, Entries, Uses, Open
    <3> QED
      BY <2>1, <2>2, <3>1 DEF NewEntry
  <2>3. CASE Rest
    <3>1. conns' = [conns EXCEPT ![At].offset = cl[Peer].asked] /\ cl[Peer].cmd = "REST"
      BY <2>3 DEF Rest, Asked
    <3> DEFINE e == [Cur EXCEPT !.offset = cl[Peer].asked]
    <3>2. EntryTo(e) /\ e.offset = cl[Peer].asked /\ e.pasv = Cur.pasv
      BY <1>1, <1>2, <3>1, OffsetSet
    <3> HIDE DEF e
    <3>3. e \in ConnType /\ NewEntry(e)
      BY <3>1, <3>2 DEF NewEntry, EntryTo
    <3> QED
      BY <3>2, <3>3
  <2>4. CASE PortNoSocket \/ PortConnects
    <3>1. PICK x \in Fds \cup {NoFd} : conns' = [conns EXCEPT ![At].pasv = x]
      BY <2>4, SomeFree DEF PortNoSocket, PortConnects
    <3>2. cl[Peer].cmd = "PORT"
      BY <2>4 DEF PortNoSocket, PortConnects, Asked
    <3> DEFINE e == [Cur EXCEPT !.pasv = x]
    <3>3. EntryTo(e) /\ e.offset = Cur.offset
      BY <1>1, <3>1, PasvSet
    <3> HIDE DEF e
    <3>4. e \in ConnType /\ NewEntry(e)
      BY <3>2, <3>3 DEF NewEntry, EntryTo
    <3> QED
      BY <3>3, <3>4
  <2>5. CASE Refused /\ cl[Peer].cmd = "RETR"
    <3>1. conns' = [conns EXCEPT ![At].offset = 0] /\ cl[Peer].cmd = "RETR"
      BY <2>5 DEF Refused, Asked
    <3> DEFINE e == [Cur EXCEPT !.offset = 0]
    <3>2. EntryTo(e) /\ e.offset = 0 /\ e.pasv = Cur.pasv
      BY <1>1, <2>1, <3>1, OffsetSet
    <3> HIDE DEF e
    <3>3. e \in ConnType /\ NewEntry(e)
      BY <3>1, <3>2 DEF NewEntry, EntryTo
    <3> QED
      BY <3>2, <3>3
  <2>6. CASE Noop
    BY <2>2, <2>6 DEF Noop, Asked
  <2>7. CASE Refused /\ cl[Peer].cmd # "RETR"
    BY <2>2, <2>7 DEF Refused, Asked
  <2> QED
    BY <2>3, <2>4, <2>5, <2>6, <2>7
<1>6. /\ sock' = sock /\ GoOn(left - 1, tmpfds, FALSE) /\ readfds' = readfds /\ pl' = NoFd
      /\ pos' = pos /\ spent' = spent /\ tw' = tw /\ UNCHANGED volume /\ UNCHANGED hist
  BY <1>1 DEF Noop, Rest, PortNoSocket, Refused, PortConnects, Sleep
<1>7. Flags' /\ stale' = stale
  BY <1>6 DEF Typed, Flags, volume, hist
<1>8. Typed'
  <2>1. sock' \in [Fds -> SockType] /\ readfds' \subseteq Fds /\ pos' \in Nat
    BY <1>6 DEF Typed
  <2> QED
    BY <1>1, <1>4, <1>5, <1>6, <1>7, <2>1, TypedSleep DEF EntryTo
<1>9. Counted'
  BY <1>6, Freed
<1>10. Goes
  BY <1>1, <1>6, SleepGives DEF Goes
<1>11. AnswersWith(new)
  BY <1>1, <1>4, <1>5, <1>6, <1>7, <1>10 DEF AnswersWith, Quiet
<1> QED
  BY <1>8, <1>9, <1>11 DEF Answers

\* What close does to sockets.
LEMMA ClosedGives ==
  ASSUME Typed
  PROVE  /\ Closed \in [Fds -> SockType]
         /\ \A f \in Fds : Closed[f] = IF Own /\ f = Pasv THEN Free ELSE sock[f]
<1>1. CASE Own
  BY <1>1, FreeTyped DEF Closed, Own, Typed
<1>2. CASE ~Own
  BY <1>2 DEF Closed, Typed
<1> QED
  BY <1>1, <1>2

\* The end of a transfer or of a failed PASV: the data connection is closed.
Closes ==
  /\ Serving /\ Goes /\ readfds' = readfds /\ conns' = conns /\ Others
  /\ \A f \in Fds : sock'[f] = IF Own /\ f = Pasv THEN Free ELSE sock[f]
  /\ IF Own THEN NoData(cl'[Peer]) ELSE SameData(cl[Peer], cl'[Peer])
  /\ SameSelf(cl[Peer], cl'[Peer])
  /\ \/ SameTalk(cl[Peer], cl'[Peer]) /\ pc # "loop" /\ pc # "retr"
     \/ (\E r \in {"226", "425"} : AnsweredAs(cl[Peer], cl'[Peer], r)) /\ pc # "pasv"
  /\ pc = "loop" => cl[Peer].cmd \in {"PASV", "LIST"}
  /\ pc # "aliased"
  /\ pc = "pasv" => pasvFailed'
  /\ pasvFailed => pasvFailed'
  /\ pos' = IF Stored THEN 0 ELSE pos
  /\ UNCHANGED <<misused, abandoned, uncleared>>

\* Commands and transfers that end with the data connection closed.
LEMMA ClosesDoes ==
  ASSUME Typed, Counted, Uses, List \/ PasvFails \/ RetrEnds \/ StorEnds \/ StorGivesUp
  PROVE  Typed' /\ Counted' /\ Closes
<1>1. Serving /\ Peer \in Clients /\ cl \in [Clients -> ClType] /\ (pc = "loop" => pl = NoFd)
      /\ pc # "aliased"
  <2>1. pc \in {"loop", "pasv", "retr", "stor"}
    BY DEF List, PasvFails, RetrEnds, StorEnds, StorGivesUp, NoConnection, Asked
  <2> QED
    BY <2>1, PeerIs DEF Serving, Typed
<1> DEFINE me == cl[Peer]  you == cl'[Peer]
           Fits == /\ cl' \in [Clients -> ClType] /\ Others
                   /\ IF Own THEN NoData(you) ELSE SameData(me, you)
                   /\ SameSelf(me, you)
           Answer == /\ \/ SameTalk(me, you) /\ pc # "loop" /\ pc # "retr"
                        \/ (\E r \in {"226", "425"} : AnsweredAs(me, you, r)) /\ pc # "pasv"
                     /\ pc = "loop" => me.cmd \in {"PASV", "LIST"}
<1>2. ASSUME NEW r \in {"226", "425"},
             cl' = Replied(ClosedBy(cl), r) \/ cl' = ClosedBy(Replied(cl, r))
      PROVE  Fits /\ AnsweredAs(me, you, r)
  <2>1. r \in Reps
    BY DEF Reps
  <2>2. CASE cl' = Replied(ClosedBy(cl), r)
    <3> DEFINE mid == ClosedBy(cl)
    <3>1. /\ mid \in [Clients -> ClType] /\ \A c \in Clients \ {Peer} : mid[c] = cl[c]
          /\ SameTalk(me, mid[Peer]) /\ SameSelf(me, mid[Peer])
          /\ Own => NoData(mid[Peer])
          /\ ~Own => SameData(me, mid[Peer])
      BY <1>1, ClosedByGives
    <3> HIDE DEF mid
    <3>2. /\ Replied(mid, r) \in [Clients -> ClType]
          /\ \A c \in Clients \ {Peer} : Replied(mid, r)[c] = mid[c]
          /\ AnsweredAs(mid[Peer], Replied(mid, r)[Peer], r)
          /\ SameSelf(mid[Peer], Replied(mid, r)[Peer])
          /\ SameData(mid[Peer], Replied(mid, r)[Peer])
      BY <1>1, <2>1, <3>1, RepliedGives
    <3>3. cl' = Replied(mid, r)
      BY <2>2 DEF mid
    <3> QED
      BY <3>1, <3>2, <3>3 DEF Others, AnsweredAs, SameTalk, SameSelf, SameData, NoData
  <2>3. CASE cl' = ClosedBy(Replied(cl, r))
    <3> DEFINE mid == Replied(cl, r)
    <3>1. /\ mid \in [Clients -> ClType] /\ \A c \in Clients \ {Peer} : mid[c] = cl[c]
          /\ AnsweredAs(me, mid[Peer], r) /\ SameSelf(me, mid[Peer]) /\ SameData(me, mid[Peer])
      BY <1>1, <2>1, RepliedGives
    <3> HIDE DEF mid
    <3>2. /\ ClosedBy(mid) \in [Clients -> ClType]
          /\ \A c \in Clients \ {Peer} : ClosedBy(mid)[c] = mid[c]
          /\ SameTalk(mid[Peer], ClosedBy(mid)[Peer]) /\ SameSelf(mid[Peer], ClosedBy(mid)[Peer])
          /\ Own => NoData(ClosedBy(mid)[Peer])
          /\ ~Own => SameData(mid[Peer], ClosedBy(mid)[Peer])
      BY <1>1, <3>1, ClosedByGives
    <3>3. cl' = ClosedBy(mid)
      BY <2>3 DEF mid
    <3> QED
      BY <3>1, <3>2, <3>3 DEF Others, AnsweredAs, SameTalk, SameSelf, SameData, NoData
  <2> QED
    BY <1>2, <2>2, <2>3
<1>3. ASSUME cl' = ClosedBy(cl) PROVE Fits /\ SameTalk(me, you)
  BY <1>1, <1>3, ClosedByGives DEF Others
<1>4. Fits /\ Answer
  <2>1. CASE List
    <3>1. cl' = Replied(ClosedBy(cl), "226") /\ pc = "loop" /\ me.cmd = "LIST"
      BY <2>1 DEF List, Asked
    <3> QED
      BY <1>2, <3>1
  <2>2. CASE PasvFails /\ pc = "loop"
    <3>1. cl' = ClosedBy(Replied(cl, "425")) /\ me.cmd = "PASV"
      BY <2>2 DEF PasvFails, NoConnection, Asked
    <3> QED
      BY <1>2, <2>2, <3>1
  <2>3. CASE PasvFails /\ pc # "loop"
    <3>1. cl' = ClosedBy(cl) /\ pc = "pasv"
      BY <2>3 DEF PasvFails, NoConnection, Asked
    <3> QED
      BY <1>3, <3>1
  <2>4. CASE RetrEnds \/ StorEnds
    <3>1. cl' = Replied(ClosedBy(cl), "226") /\ pc \in {"retr", "stor"}
      BY <2>4 DEF RetrEnds, StorEnds
    <3> QED
      BY <1>2, <3>1
  <2>5. CASE StorGivesUp
    <3>1. cl' = ClosedBy(cl) /\ pc = "stor"
      BY <2>5 DEF StorGivesUp
    <3> QED
      BY <1>3, <3>1
  <2> QED
    BY <2>1, <2>2, <2>3, <2>4, <2>5
<1> HIDE DEF Fits, Answer
<1>5. /\ sock' = Closed /\ GoOn(left - 1, tmpfds, FALSE) /\ readfds' = readfds /\ conns' = conns
      /\ spent' = spent /\ tw' = Lingers
  BY DEF List, PasvFails, RetrEnds, StorEnds, StorGivesUp, Sleep
<1>6. pl' = NoFd
  <2>1. pc # "pasv" => pl = NoFd
    BY DEF Typed
  <2> QED
    BY <2>1 DEF List, PasvFails, RetrEnds, StorEnds, StorGivesUp, Asked
<1>7. UNCHANGED <<misused, abandoned, uncleared>> /\ (pasvFailed => pasvFailed')
      /\ (pc = "pasv" => pasvFailed')
  BY DEF List, PasvFails, RetrEnds, StorEnds, StorGivesUp, hist, Asked
<1>8. pos' = IF Stored THEN 0 ELSE pos
  BY DEF List, PasvFails, RetrEnds, StorEnds, StorGivesUp, Stored, NoConnection, Asked
<1>9. Flags'
  <2>1. Lingers \in BOOLEAN
    BY DEF Lingers, Typed, Flags
  <2>2. UNCHANGED mounted /\ stale' \in {stale, FALSE} /\ (locked' = locked \/ locked' = (locked \/ ~stale))
    BY DEF List, PasvFails, RetrEnds, StorEnds, StorGivesUp, volume
  <2>3. pasvFailed' \in {pasvFailed, TRUE} /\ silent' \in {silent, TRUE}
    BY DEF List, PasvFails, RetrEnds, StorEnds, StorGivesUp, hist
  <2> QED
    BY <1>5, <1>7, <2>1, <2>2, <2>3 DEF Typed, Flags
<1>10. \A f \in Fds : sock'[f] = IF Own /\ f = Pasv THEN Free ELSE sock[f]
  BY <1>5, ClosedGives
<1>11. Typed'
  <2>1. sock' \in [Fds -> SockType] /\ readfds' \subseteq Fds /\ pos' \in Nat
        /\ conns' \in Seq(ConnType) /\ Len(conns') = Len(conns)
    BY <1>5, <1>8, ClosedGives DEF Typed
  <2> QED
    BY <1>1, <1>4, <1>5, <1>6, <1>9, <2>1, TypedSleep DEF Fits
<1>12. Counted'
  BY <1>10, Freed
<1>13. Goes
  BY <1>1, <1>5, <1>6, SleepGives DEF Goes
<1> QED
  BY <1>1, <1>4, <1>5, <1>7, <1>8, <1>10, <1>11, <1>12, <1>13 DEF Closes, Fits, Answer

\* The end of a control connection: its entry is destroyed.
Drops ==
  /\ Serving /\ Goes /\ Entries(Open \ {Cur}) /\ Others /\ cl'[Peer] = NewClient
  /\ \A f \in Fds :
       sock'[f] = IF f = Cur.fd \/ (pc = "stor" /\ f = Pasv) THEN Free ELSE sock[f]
  /\ \/ pc = "loop" /\ cl[Peer].cmd = "none" /\ cl[Peer].ctl = "fin"
          /\ readfds' = readfds \ {Cur.fd} /\ uncleared' = uncleared
     \/ pc = "loop" /\ cl[Peer].cmd = "QUIT" /\ uncleared'
     \/ pc = "stor" /\ Own /\ uncleared'
  /\ pos' = IF Stored THEN 0 ELSE pos
  /\ UNCHANGED <<misused, abandoned, pasvFailed>>

\* The end of a connection: hang-up, QUIT, a STOR whose control connection broke.
LEMMA DropsDoes ==
  ASSUME Typed, Counted, Uses, Hangup \/ Quit \/ StorBreaks
  PROVE  Typed' /\ Counted' /\ Drops
<1>1. /\ Serving /\ Peer \in Clients /\ cl \in [Clients -> ClType] /\ pl = NoFd /\ Cur.fd \in Fds
      /\ pc \in {"loop", "stor"}
  <2>1. pc \in {"loop", "stor"}
    BY DEF Hangup, Quit, StorBreaks, Asked
  <2> QED
    BY <2>1, PeerIs, CurIs DEF Serving, Typed, ConnType
<1>2. /\ cl' = [cl EXCEPT ![Peer] = NewClient]
      /\ conns' = [i \in 1 .. Len(conns) - 1 |-> IF i < At THEN conns[i] ELSE conns[i + 1]]
      /\ GoOn(left - 1, tmpfds, FALSE) \/ GoOn(left - 1, tmpfds, awake)
      /\ readfds' \in {readfds, readfds \ {Cur.fd}} /\ spent' = spent /\ tw' = tw /\ pl' = NoFd
      /\ UNCHANGED <<misused, abandoned, pasvFailed, silent, mounted, locked>>
      /\ stale' \in {stale, FALSE} /\ uncleared' \in {uncleared, TRUE}
  BY <1>1 DEF Hangup, Quit, StorBreaks, Destroyed, Sleep, hist, volume
<1>3. cl' \in [Clients -> ClType] /\ Others /\ cl'[Peer] = NewClient
  BY <1>1, <1>2, NewClientTyped DEF Others
<1>4. /\ conns' \in Seq(ConnType) /\ Len(conns') = Len(conns) - 1
      /\ Entries(Open \ {Cur})
  BY <1>1, <1>2, EntryDropped DEF Entries
<1>5. \/ /\ pc = "loop" /\ sock' = [sock EXCEPT ![Cur.fd] = Free]
      \/ /\ pc = "stor" /\ Own /\ sock' = [Closed EXCEPT ![Cur.fd] = Free]
  BY DEF Hangup, Quit, StorBreaks, Destroyed, Asked
<1>6. /\ sock' \in [Fds -> SockType]
      /\ \A f \in Fds :
           sock'[f] = IF f = Cur.fd \/ (pc = "stor" /\ f = Pasv) THEN Free ELSE sock[f]
  <2>1. CASE pc = "loop" /\ sock' = [sock EXCEPT ![Cur.fd] = Free]
    BY <2>1, FreeTyped DEF Typed
  <2>2. CASE pc = "stor" /\ Own /\ sock' = [Closed EXCEPT ![Cur.fd] = Free]
    BY <2>2, FreeTyped, ClosedGives
  <2> QED
    BY <1>5, <2>1, <2>2
<1>7. /\ pos' = IF Stored THEN 0 ELSE pos
      /\ \/ pc = "loop" /\ cl[Peer].cmd = "none" /\ cl[Peer].ctl = "fin"
              /\ readfds' = readfds \ {Cur.fd} /\ uncleared' = uncleared
         \/ pc = "loop" /\ cl[Peer].cmd = "QUIT" /\ uncleared'
         \/ pc = "stor" /\ Own /\ uncleared'
  <2>1. CASE Hangup
    BY <2>1 DEF Hangup, Stored, hist
  <2>2. CASE Quit
    BY <2>2 DEF Quit, Asked, Stored
  <2>3. CASE StorBreaks
    BY <2>3 DEF StorBreaks, Stored
  <2> QED
    BY <2>1, <2>2, <2>3
<1>8. Flags'
  BY <1>2 DEF Typed, Flags
<1>9. Typed'
  <2>1. readfds' \subseteq Fds /\ pos' \in Nat
    BY <1>2, <1>7 DEF Typed
  <2> QED
    BY <1>1, <1>2, <1>3, <1>4, <1>6, <1>8, <2>1, TypedSleep
<1>10. Counted'
  BY <1>6, Freed
<1>11. Goes
  BY <1>1, <1>2, SleepGives DEF Goes
<1> QED
  BY <1>1, <1>2, <1>3, <1>4, <1>6, <1>7, <1>9, <1>10, <1>11 DEF Drops

\* The socket a step takes, and the entry that remembers it.
New == Lowest(FreeFds)
Entry(x) == [Cur EXCEPT !.pasv = x]
Takes(use, peer) ==
  /\ New \in Fds /\ sock[New].use = "free"
  /\ sock'[New].use = use /\ sock'[New].peer = peer /\ sock'[New].q = <<>>
Remembers(x) ==
  EntryTo(Entry(x)) /\ Entry(x).fd = Cur.fd /\ Entry(x).pasv = x /\ Entry(x).offset = Cur.offset

\* The list of connections after pasv_sockfd of Cur is written.
LEMMA EntryRemembers ==
  ASSUME Typed, Uses, Serving, NEW x \in Fds \cup {NoFd}, conns' = [conns EXCEPT ![At].pasv = x]
  PROVE  Remembers(x)
BY PasvSet DEF Remembers, Entry, EntryTo

\* PORT with a socket.
PortOpens ==
  /\ pc = "loop" /\ Serving /\ Goes /\ Quiet /\ Others /\ pos' = pos /\ cl[Peer].cmd = "PORT"
  /\ Takes("data", Peer) /\ ~sock'[New].port /\ Remembers(New)
  /\ \A f \in Fds \ {New} : sock'[f] = sock[f]
  /\ AnsweredAs(cl[Peer], cl'[Peer], "200") /\ SameSelf(cl[Peer], cl'[Peer])
  /\ cl'[Peer].data = IF cl[Peer].ctl = "open" THEN "open" ELSE "fin"
  /\ cl'[Peer].unread = cl[Peer].unread /\ cl'[Peer].up = cl[Peer].up

\* PORT that gets its socket and connects.
LEMMA PortOpensDoes ==
  ASSUME Typed, Counted, Uses, PortConnects, sock' # sock
  PROVE  Typed' /\ Counted' /\ PortOpens
<1>1. /\ Serving /\ pc = "loop" /\ Peer \in Clients /\ pl = NoFd /\ cl[Peer].cmd = "PORT"
      /\ cl \in [Clients -> ClType] /\ cl[Peer] \in ClType
  BY AskedServes, PeerIs DEF PortConnects, Typed
<1>2. New \in Fds /\ sock[New].use = "free" /\ NetconnFree
  BY SomeFree DEF PortConnects, New
<1> DEFINE s == [Free EXCEPT !.use = "data", !.peer = Peer]
           d == IF cl[Peer].ctl = "open" THEN "open" ELSE "fin"
           rep == Replied(cl, "200")
<1>3. s \in SockType /\ s.use = "data" /\ s.peer = Peer /\ s.q = <<>> /\ s.port = FALSE
  BY <1>1, FreeTyped DEF SockType
<1>4. /\ sock' = [sock EXCEPT ![New] = s]
      /\ conns' = [conns EXCEPT ![At].pasv = New]
      /\ cl' = [rep EXCEPT ![Peer].data = d]
      /\ GoOn(left - 1, tmpfds, FALSE) /\ readfds' = readfds /\ pl' = NoFd /\ pos' = pos
      /\ spent' = spent /\ tw' = tw /\ UNCHANGED volume /\ UNCHANGED hist
  BY <1>1 DEF PortConnects, Sleep, New
<1> HIDE DEF s, rep, d
<1>5. /\ rep \in [Clients -> ClType] /\ \A c \in Clients \ {Peer} : rep[c] = cl[c]
      /\ AnsweredAs(cl[Peer], rep[Peer], "200")
      /\ SameSelf(cl[Peer], rep[Peer]) /\ SameData(cl[Peer], rep[Peer])
  <2>1. "200" \in Reps
    BY DEF Reps
  <2> QED
    BY <1>1, <2>1, RepliedGives DEF rep
<1>6. /\ cl' \in [Clients -> ClType] /\ Others
      /\ AnsweredAs(cl[Peer], cl'[Peer], "200") /\ SameSelf(cl[Peer], cl'[Peer])
      /\ cl'[Peer].data = d /\ cl'[Peer].unread = cl[Peer].unread /\ cl'[Peer].up = cl[Peer].up
  <2> DEFINE you == [rep[Peer] EXCEPT !.data = d]
  <2>1. rep[Peer] \in ClType /\ d \in {"open", "fin"}
    BY <1>1, <1>5 DEF d
  <2>2. you \in ClType
    BY <2>1 DEF ClType
  <2>3. AnsweredAs(cl[Peer], you, "200") /\ SameSelf(cl[Peer], you)
        /\ you.data = d /\ you.unread = cl[Peer].unread /\ you.up = cl[Peer].up
    BY <1>5, <2>1 DEF ClType, AnsweredAs, SameSelf, SameData
  <2>4. cl' = [rep EXCEPT ![Peer] = you]
    BY <1>4
  <2> HIDE DEF you
  <2> QED
    BY <1>1, <1>5, <2>2, <2>3, <2>4 DEF Others
<1>7. Remembers(New)
  BY <1>1, <1>2, <1>4, EntryRemembers
<1>8. sock' \in [Fds -> SockType] /\ sock'[New] = s /\ \A f \in Fds \ {New} : sock'[f] = sock[f]
  BY <1>2, <1>3, <1>4 DEF Typed
<1>9. Flags'
  BY <1>4 DEF Typed, Flags, volume, hist
<1>10. Typed'
  <2>1. readfds' \subseteq Fds /\ pos' \in Nat
    BY <1>4 DEF Typed
  <2> QED
    BY <1>1, <1>4, <1>6, <1>7, <1>8, <1>9, <2>1, TypedSleep DEF Remembers, EntryTo
<1>11. Counted'
  BY <1>2, <1>3, <1>4, Taken
<1>12. Goes
  BY <1>1, <1>4, SleepGives DEF Goes
<1> QED
  BY <1>1, <1>2, <1>3, <1>4, <1>6, <1>7, <1>8, <1>10, <1>11, <1>12 DEF PortOpens, Takes, Quiet, d

\* PASV with a listener.
Listens ==
  /\ pc = "loop" /\ pc' = "pasv" /\ Serving /\ Quiet /\ Others /\ pos' = pos /\ cl[Peer].cmd = "PASV"
  /\ pl' = New /\ Takes("pl", Peer) /\ (sock'[New].port <=> ~PortBusy)
  /\ \A f \in Fds \ {New} : sock'[f] = sock[f]
  /\ conns' = conns /\ left' = left
  /\ AnsweredAs(cl[Peer], cl'[Peer], IF PortBusy THEN "425" ELSE "227")
  /\ SameSelf(cl[Peer], cl'[Peer]) /\ SameData(cl[Peer], cl'[Peer])

\* PASV that gets its listener.
LEMMA ListensDoes ==
  ASSUME Typed, Counted, Uses, PasvListens
  PROVE  Typed' /\ Counted' /\ Listens
<1>1. /\ Serving /\ pc = "loop" /\ Peer \in Clients /\ cl[Peer].cmd = "PASV"
      /\ cl \in [Clients -> ClType]
  BY AskedServes, PeerIs DEF PasvListens, Typed
<1>2. New \in Fds /\ sock[New].use = "free" /\ NetconnFree
  BY SomeFree DEF PasvListens, New
<1> DEFINE s == [Free EXCEPT !.use = "pl", !.peer = Peer, !.port = ~PortBusy]
           r == IF PortBusy THEN "425" ELSE "227"
<1>3. s \in SockType /\ s.use = "pl" /\ s.peer = Peer /\ s.q = <<>> /\ s.port = ~PortBusy
  BY <1>1, FreeTyped DEF SockType
<1>4. /\ sock' = [sock EXCEPT ![New] = s] /\ conns' = conns /\ left' = left /\ pl' = New
      /\ cl' = Replied(cl, r) /\ pc' = "pasv" /\ awake' = FALSE
      /\ readfds' = readfds /\ tmpfds' = tmpfds /\ pos' = pos
      /\ spent' = spent /\ tw' = tw /\ UNCHANGED volume /\ UNCHANGED hist
  BY DEF PasvListens, New
<1> HIDE DEF s, r
<1>5. /\ cl' \in [Clients -> ClType] /\ Others
      /\ AnsweredAs(cl[Peer], cl'[Peer], r) /\ SameSelf(cl[Peer], cl'[Peer])
      /\ SameData(cl[Peer], cl'[Peer])
  <2>1. r \in Reps
    BY DEF Reps, r
  <2> QED
    BY <1>1, <1>4, <2>1, RepliedGives DEF Others
<1>6. sock' \in [Fds -> SockType] /\ sock'[New] = s /\ \A f \in Fds \ {New} : sock'[f] = sock[f]
  BY <1>2, <1>3, <1>4 DEF Typed
<1>7. Flags'
  BY <1>4 DEF Typed, Flags, volume, hist
<1>8. New # NoFd
  BY <1>2, SocketAssumption DEF NoFd, Fds
<1>9. Typed'
  BY <1>1, <1>2, <1>4, <1>5, <1>6, <1>7, <1>8 DEF Typed, Serving
<1>10. Counted'
  BY <1>2, <1>3, <1>4, Taken
<1> QED
  BY <1>1, <1>2, <1>3, <1>4, <1>5, <1>6, <1>9, <1>10 DEF Listens, Takes, Quiet, r

\* PASV with a connection.
Joins ==
  /\ pc = "pasv" /\ Serving /\ Goes /\ Quiet /\ pos' = pos /\ cl' = cl
  /\ sock[pl].q # <<>> /\ Head(sock[pl].q) # "abrt" /\ New # pl
  /\ Takes("data", Head(sock[pl].q)) /\ sock'[pl] = Free /\ Remembers(New)
  /\ \A f \in Fds \ {pl, New} : sock'[f] = sock[f]

\* The accept of PASV that returns a connection.
LEMMA JoinsDoes ==
  ASSUME Typed, Counted, Uses, Listeners, PasvAccepts
  PROVE  Typed' /\ Counted' /\ Joins
<1>1. /\ Serving /\ pc = "pasv" /\ pl \in Fds /\ sock[pl].use = "pl"
      /\ sock[pl].q \in Seq(Clients \cup {"abrt"}) /\ sock[pl].q # <<>> /\ Head(sock[pl].q) # "abrt"
  BY DEF PasvAccepts, Typed, Serving, Listeners, SockType
<1>2. New \in Fds /\ sock[New].use = "free" /\ New # pl
  BY <1>1, SomeFree DEF New
<1> DEFINE c == Head(sock[pl].q)
           s == [Free EXCEPT !.use = "data", !.peer = c, !.port = TRUE]
<1>3. c \in Clients
  BY <1>1, TailGives
<1>4. s \in SockType /\ s.use = "data" /\ s.peer = c /\ s.q = <<>>
  BY <1>3, FreeTyped DEF SockType
<1>5. /\ sock' = [sock EXCEPT ![pl] = Free, ![New] = s]
      /\ conns' = [conns EXCEPT ![At].pasv = New]
      /\ GoOn(left - 1, tmpfds, FALSE) /\ readfds' = readfds /\ pl' = NoFd /\ pos' = pos /\ cl' = cl
      /\ spent' = spent /\ tw' = tw /\ UNCHANGED volume /\ UNCHANGED hist
  BY DEF PasvAccepts, Sleep, New
<1> HIDE DEF s, c
<1>6. Remembers(New)
  BY <1>1, <1>2, <1>5, EntryRemembers
<1>7. /\ sock' \in [Fds -> SockType] /\ sock'[New] = s /\ sock'[pl] = Free
      /\ \A f \in Fds \ {pl, New} : sock'[f] = sock[f]
  BY <1>1, <1>2, <1>4, <1>5, FreeTyped DEF Typed
<1>8. Flags'
  BY <1>5 DEF Typed, Flags, volume, hist
<1>9. Typed'
  <2>1. readfds' \subseteq Fds /\ pos' \in Nat /\ cl' \in [Clients -> ClType]
    BY <1>5 DEF Typed
  <2> QED
    BY <1>1, <1>5, <1>6, <1>7, <1>8, <2>1, TypedSleep DEF Remembers, EntryTo
<1>10. Counted'
  <2> DEFINE to(x) == IF x = <<New, 0>> THEN <<pl, 0>> ELSE x
             g == [x \in Held' |-> to(x)]
  <2>1. HeldOf
    BY HeldHas DEF Typed
  <2>2. HeldOf'
    <3>1. (sock \in [Fds -> SockType])' => HeldOf'
      BY HeldHas, PTL
    <3> QED
      BY <1>7, <3>1
  <2>3. ASSUME NEW x \in Held' PROVE to(x) \in Held /\ x # <<pl, 0>>
    <3>1. x[1] \in Fds /\ x[2] \in Nat /\ x = <<x[1], x[2]>>
      BY <2>2 DEF HeldOf
    <3>2. x[1] # pl
      <4>1. <<pl, 0>> \notin Held' /\ \A i \in Nat \ {0} : <<pl, i>> \notin Held'
        BY <1>1, <1>7, <2>2, FreeTyped DEF HeldOf
      <4> QED
        BY <3>1, <4>1
    <3>3. CASE x = <<New, 0>>
      <4>1. <<pl, 0>> \in Held
        BY <1>1, <2>1 DEF HeldOf
      <4> QED
        BY <3>2, <3>3, <4>1
    <3>4. CASE x # <<New, 0>> /\ x[1] = New
      <4>1. x[2] \in Nat \ {0} /\ <<New, x[2]>> \in Held'
        BY <3>1, <3>4
      <4>2. x[2] \in DOMAIN sock'[New].q
        BY <1>2, <2>2, <4>1 DEF HeldOf
      <4> QED
        BY <1>4, <1>7, <4>2
    <3>5. CASE x[1] # New
      <4>1. sock'[x[1]] = sock[x[1]]
        BY <1>7, <3>1, <3>2, <3>5
      <4>2. <<x[1], x[2]>> \in Held
        BY <2>1, <2>2, <3>1, <4>1 DEF HeldOf
      <4> QED
        BY <3>1, <3>2, <3>5, <4>2
    <3> QED
      BY <3>1, <3>2, <3>3, <3>4, <3>5
  <2>4. \A x, y \in Held' : to(x) = to(y) => x = y
    BY <2>3
  <2>5. g \in [Held' -> Held] /\ \A x, y \in Held' : g[x] = g[y] => x = y
    <3> HIDE DEF to
    <3> QED
      BY <2>3, <2>4
  <2> HIDE DEF g
  <2> QED
    BY <2>5, NoneMore
<1>11. Goes
  BY <1>1, <1>5, SleepGives DEF Goes
<1> QED
  BY <1>1, <1>2, <1>4, <1>5, <1>6, <1>7, <1>9, <1>10, <1>11 DEF Joins, Takes, Quiet, c

\* PASV without a netconn for the connection.
JoinsNone ==
  /\ pc = "pasv" /\ Serving /\ Goes /\ readfds' = readfds /\ Others /\ pos' = pos
  /\ sock[pl].q # <<>> /\ sock'[pl].q = Tail(sock[pl].q)
  /\ sock'[pl].use = sock[pl].use /\ sock'[pl].peer = sock[pl].peer /\ sock'[pl].port = sock[pl].port
  /\ \A f \in Fds \ {pl} : sock'[f] = sock[f]
  /\ Remembers(NoFd)
  /\ \/ cl' = cl
     \/ /\ cl[Peer].cmd = "none" /\ AnsweredAs(cl[Peer], cl'[Peer], "425")
        /\ SameSelf(cl[Peer], cl'[Peer]) /\ SameData(cl[Peer], cl'[Peer])
  /\ pasvFailed' /\ UNCHANGED <<misused, abandoned, uncleared>>

\* A queue without its first keeps its socket a socket.
LEMMA TailKeeps ==
  ASSUME Typed, NEW f \in Fds, sock[f].q # <<>>, sock' = [sock EXCEPT ![f].q = Tail(@)]
  PROVE  /\ sock' \in [Fds -> SockType] /\ sock'[f].q = Tail(sock[f].q)
         /\ sock'[f].use = sock[f].use /\ sock'[f].peer = sock[f].peer /\ sock'[f].port = sock[f].port
         /\ \A g \in Fds \ {f} : sock'[g] = sock[g]
<1> DEFINE s == [sock[f] EXCEPT !.q = Tail(sock[f].q)]
<1>1. sock[f] \in SockType /\ sock[f].q \in Seq(Clients \cup {"abrt"})
  BY DEF Typed, SockType
<1>2. Tail(sock[f].q) \in Seq(Clients \cup {"abrt"})
  BY <1>1, TailGives
<1>3. /\ s \in SockType /\ s.q = Tail(sock[f].q)
      /\ s.use = sock[f].use /\ s.peer = sock[f].peer /\ s.port = sock[f].port
  BY <1>1, <1>2 DEF SockType
<1>4. sock' = [sock EXCEPT ![f] = s]
  OBVIOUS
<1> HIDE DEF s
<1> QED
  BY <1>3, <1>4 DEF Typed

\* The accept of PASV that fails.
LEMMA JoinsNoneDoes ==
  ASSUME Typed, Counted, Uses, Listeners, PasvAcceptFails
  PROVE  Typed' /\ Counted' /\ JoinsNone
<1>1. /\ Serving /\ pc = "pasv" /\ pl \in Fds /\ sock[pl].q # <<>> /\ Peer \in Clients
      /\ cl \in [Clients -> ClType]
  BY PeerIs DEF PasvAcceptFails, Typed, Serving
<1>2. /\ sock' = [sock EXCEPT ![pl].q = Tail(@)]
      /\ conns' = [conns EXCEPT ![At].pasv = NoFd]
      /\ cl' = (IF cl[Peer].cmd = "none" THEN Replied(cl, "425") ELSE cl)
      /\ GoOn(left - 1, tmpfds, FALSE) /\ readfds' = readfds /\ pl' = NoFd /\ pos' = pos
      /\ spent' = spent /\ tw' = tw /\ UNCHANGED volume
      /\ pasvFailed' = TRUE /\ UNCHANGED <<misused, abandoned, uncleared, silent>>
  BY DEF PasvAcceptFails, Sleep
<1>3. /\ cl' \in [Clients -> ClType] /\ Others
      /\ \/ cl' = cl
         \/ /\ cl[Peer].cmd = "none" /\ AnsweredAs(cl[Peer], cl'[Peer], "425")
            /\ SameSelf(cl[Peer], cl'[Peer]) /\ SameData(cl[Peer], cl'[Peer])
  <2>1. CASE cl[Peer].cmd = "none"
    <3>1. cl' = Replied(cl, "425") /\ "425" \in Reps
      BY <1>2, <2>1 DEF Reps
    <3> QED
      BY <1>1, <2>1, <3>1, RepliedGives DEF Others
  <2>2. CASE cl[Peer].cmd # "none"
    BY <1>1, <1>2, <2>2 DEF Others
  <2> QED
    BY <2>1, <2>2
<1>4. Remembers(NoFd)
  BY <1>1, <1>2, EntryRemembers
<1>5. /\ sock' \in [Fds -> SockType] /\ sock'[pl].q = Tail(sock[pl].q)
      /\ sock'[pl].use = sock[pl].use /\ sock'[pl].peer = sock[pl].peer
      /\ sock'[pl].port = sock[pl].port /\ \A g \in Fds \ {pl} : sock'[g] = sock[g]
  BY <1>1, <1>2, TailKeeps
<1>6. Flags'
  BY <1>2 DEF Typed, Flags, volume
<1>7. Typed'
  <2>1. readfds' \subseteq Fds /\ pos' \in Nat
    BY <1>2 DEF Typed
  <2> QED
    BY <1>1, <1>2, <1>3, <1>4, <1>5, <1>6, <2>1, TypedSleep DEF Remembers, EntryTo
<1>8. Counted'
  BY <1>1, <1>5, Dequeued
<1>9. Goes
  BY <1>1, <1>2, SleepGives DEF Goes
<1> QED
  BY <1>1, <1>2, <1>3, <1>4, <1>5, <1>7, <1>8, <1>9 DEF JoinsNone

\* A step that leaves sockets and the list alone.
Stays == sock' = sock /\ conns' = conns /\ left' = left /\ Quiet
Begins ==
  /\ Stays /\ pc = "loop" /\ Serving /\ Others /\ ~Foreign /\ pl' = pl
  /\ \/ /\ pc' = "retr" /\ cl[Peer].cmd = "RETR"
        /\ pos' = (IF Cur.offset < FileLen THEN Cur.offset ELSE 0)
     \/ pc' = "stor" /\ cl[Peer].cmd = "STOR" /\ pos' = 0
  /\ cl'[Peer] = [cl[Peer] EXCEPT !.cmd = "none"]

\* A transfer opens its file.
LEMMA BeginsDoes ==
  ASSUME Typed, Counted, Uses, RetrStarts \/ StorStarts
  PROVE  Typed' /\ Counted' /\ Begins
<1>1. /\ Serving /\ pc = "loop" /\ Peer \in Clients /\ pl = NoFd /\ Cur \in ConnType
      /\ cl \in [Clients -> ClType] /\ cl[Peer] \in ClType
  BY AskedServes, PeerIs, CurIs DEF RetrStarts, StorStarts, Typed
<1>2. /\ Stays /\ ~Foreign /\ pl' = pl /\ awake' = FALSE /\ tmpfds' = tmpfds /\ spent' = spent
      /\ tw' = tw /\ UNCHANGED <<mounted, locked>> /\ stale' = FALSE
      /\ cl' = [cl EXCEPT ![Peer].cmd = "none"]
  BY DEF RetrStarts, StorStarts, Read, Stays, Quiet
<1>3. \/ /\ pc' = "retr" /\ cl[Peer].cmd = "RETR"
         /\ pos' = (IF Cur.offset < FileLen THEN Cur.offset ELSE 0)
      \/ pc' = "stor" /\ cl[Peer].cmd = "STOR" /\ pos' = 0
  BY DEF RetrStarts, StorStarts, Asked
<1>4. [cl[Peer] EXCEPT !.cmd = "none"] \in ClType
  BY <1>1 DEF ClType
<1>5. cl' = [cl EXCEPT ![Peer] = [cl[Peer] EXCEPT !.cmd = "none"]]
  BY <1>2
<1>6. cl' \in [Clients -> ClType] /\ Others /\ cl'[Peer] = [cl[Peer] EXCEPT !.cmd = "none"]
  BY <1>1, <1>4, <1>5 DEF Others
<1>7. pos' \in Nat /\ pos' <= FileLen
  BY <1>1, <1>3, LengthAssumption DEF ConnType
<1>8. Flags'
  BY <1>2 DEF Typed, Flags, Stays, Quiet, hist
<1>9. Typed'
  BY <1>1, <1>2, <1>3, <1>6, <1>7, <1>8 DEF Typed, Serving, Stays, Quiet
<1>10. Counted'
  BY <1>2, Freed DEF Stays
<1> QED
  BY <1>1, <1>2, <1>3, <1>6, <1>9, <1>10 DEF Begins

\* Blocks of a transfer.
Moves ==
  /\ Stays /\ Serving /\ Others /\ pc' = pc /\ pl' = pl /\ stale' = stale
  /\ \/ /\ pc = "retr" /\ ~stale /\ pos < FileLen /\ pos' = pos + 1
        /\ cl'[Peer] = IF Own /\ cl[Peer].data = "open"
                       THEN [cl[Peer] EXCEPT !.got = Append(@, pos + 1)] ELSE cl[Peer]
     \/ /\ pc = "stor" /\ Own /\ pos' = IF stale THEN pos ELSE pos + cl[Peer].unread
        /\ cl'[Peer] = [cl[Peer] EXCEPT !.unread = 0]

\* A transfer moves one block.
LEMMA MovesDoes ==
  ASSUME Typed, Counted, Uses, RetrSends \/ StorStores
  PROVE  Typed' /\ Counted' /\ Moves
<1>1. /\ Serving /\ pc \in {"retr", "stor"} /\ Peer \in Clients
      /\ cl \in [Clients -> ClType] /\ cl[Peer] \in ClType
  <2>1. pc \in {"retr", "stor"}
    BY DEF RetrSends, StorStores
  <2> QED
    BY <2>1, PeerIs DEF Serving, Typed
<1>2. /\ Stays /\ pc' = pc /\ pl' = pl /\ awake' = awake /\ tmpfds' = tmpfds /\ spent' = spent
      /\ tw' = tw /\ UNCHANGED <<mounted, locked, stale>>
  BY DEF RetrSends, StorStores, Stays, Quiet, volume
<1>3. pos \in Nat /\ cl[Peer].unread \in Nat /\ cl[Peer].got \in Seq(Nat) /\ FileLen \in Nat
  BY <1>1, LengthAssumption DEF ClType, Typed
<1>4. CASE RetrSends
  <2> DEFINE me == [cl[Peer] EXCEPT !.got = Append(@, pos + 1)]
  <2>1. Append(cl[Peer].got, pos + 1) \in Seq(Nat)
    BY <1>3
  <2>2. me \in ClType
    BY <1>1, <2>1 DEF ClType
  <2>3. /\ pc = "retr" /\ ~stale /\ pos < FileLen /\ pos' = pos + 1
        /\ cl' = IF Own /\ cl[Peer].data = "open" THEN [cl EXCEPT ![Peer] = me] ELSE cl
    BY <1>4 DEF RetrSends
  <2> HIDE DEF me
  <2>4. cl' \in [Clients -> ClType] /\ Others
        /\ cl'[Peer] = IF Own /\ cl[Peer].data = "open" THEN me ELSE cl[Peer]
    BY <1>1, <2>2, <2>3 DEF Others
  <2>5. pos' \in Nat /\ pos' <= FileLen
    BY <1>3, <2>3
  <2>6. Flags'
    BY <1>2 DEF Typed, Flags, Stays, Quiet, hist
  <2>7. Typed'
    BY <1>1, <1>2, <2>3, <2>4, <2>5, <2>6 DEF Typed, Serving, Stays, Quiet
  <2>8. Counted'
    BY <1>2, Freed DEF Stays
  <2> QED
    BY <1>1, <1>2, <2>3, <2>4, <2>7, <2>8 DEF Moves, me
<1>5. CASE StorStores
  <2> DEFINE me == [cl[Peer] EXCEPT !.unread = 0]
  <2>1. me \in ClType
    BY <1>1 DEF ClType
  <2>2. /\ pc = "stor" /\ Own /\ pos' = IF stale THEN pos ELSE pos + cl[Peer].unread
        /\ cl' = [cl EXCEPT ![Peer] = me]
    BY <1>5 DEF StorStores
  <2> HIDE DEF me
  <2>3. cl' \in [Clients -> ClType] /\ Others /\ cl'[Peer] = me
    BY <1>1, <2>1, <2>2 DEF Others
  <2>4. pos' \in Nat
    BY <1>3, <2>2
  <2>5. Flags'
    BY <1>2 DEF Typed, Flags, Stays, Quiet, hist
  <2>6. Typed'
    BY <1>1, <1>2, <2>2, <2>3, <2>4, <2>5 DEF Typed, Serving, Stays, Quiet
  <2>7. Counted'
    BY <1>2, Freed DEF Stays
  <2> QED
    BY <1>1, <1>2, <2>2, <2>3, <2>6, <2>7 DEF Moves, me
<1> QED
  BY <1>4, <1>5

\* The server is at work on a socket that is not its own.
Strays ==
  /\ sock' = sock /\ conns' = conns /\ left' = left /\ readfds' = readfds /\ cl' = cl /\ pos' = pos
  /\ pc' = "aliased" /\ Serving /\ Foreign
  /\ UNCHANGED <<misused, abandoned, uncleared>>
  /\ pc = "loop" \/ pc = "pasv"
  /\ (pasvFailed => pasvFailed')
  /\ pasvFailed' \/ (pc = "loop" /\ cl[Peer].cmd \in {"LIST", "RETR", "STOR"})

\* A transfer over a socket that belongs to something else.
LEMMA StraysDoes ==
  ASSUME Typed, Counted, UsesForeign
  PROVE  Typed' /\ Counted' /\ Strays
<1>1. /\ sock' = sock /\ conns' = conns /\ left' = left /\ readfds' = readfds /\ cl' = cl /\ pos' = pos
      /\ pc' = "aliased" /\ Foreign /\ pl' = NoFd /\ tmpfds' = tmpfds /\ awake' = awake
      /\ tw' = tw /\ spent' = spent /\ UNCHANGED volume
      /\ UNCHANGED <<misused, abandoned, uncleared, silent>>
      /\ pasvFailed' = (pasvFailed \/ NoConnection)
  BY DEF UsesForeign
<1>2. /\ pc = "loop" \/ pc = "pasv"
      /\ NoConnection \/ (pc = "loop" /\ cl[Peer].cmd \in {"LIST", "RETR", "STOR"})
  BY DEF UsesForeign, NoConnection, Asked
<1>3. Flags' /\ (NoConnection => pasvFailed') /\ (pasvFailed => pasvFailed')
  <2>1. pasvFailed \in BOOLEAN /\ pasvFailed' \in BOOLEAN
    BY <1>1 DEF Typed, Flags
  <2>2. (NoConnection => pasvFailed') /\ (pasvFailed => pasvFailed')
    BY <1>1
  <2>3. Flags'
    BY <1>1, <2>1 DEF Typed, Flags, volume
  <2> QED
    BY <2>1, <2>2, <2>3
<1>4. Typed'
  BY <1>1, <1>2, <1>3 DEF Typed, Serving
<1>5. Counted'
  BY <1>1, Freed
<1> QED
  BY <1>1, <1>2, <1>3, <1>4, <1>5 DEF Strays, Serving

\* select.
Watches ==
  /\ sock' = sock /\ conns' = conns /\ cl' = cl /\ pos' = pos /\ UNCHANGED hist
  /\ pc = "select" /\ pc' \in {"accept", "select", "loop"}
  /\ readfds' = readfds \cup {r.fd : r \in Open}
  /\ pc' = "accept" => Readable(0) \/ \E f \in readfds' : sock[f].use = "free"

\* select returns.
LEMMA WatchesDoes ==
  ASSUME Typed, Counted, Uses, Select
  PROVE  Typed' /\ Counted' /\ Watches
<1> DEFINE watched == readfds \cup {conns[i].fd : i \in DOMAIN conns}
           last == Highest({0} \cup {conns[i].fd : i \in DOMAIN conns})
           seen == {f \in watched : f <= last}
           bad == \E f \in seen : sock[f].use = "free"
           ready == IF bad THEN watched ELSE {f \in seen : Readable(f)}
<1>1. /\ pc = "select" /\ ready # {} /\ readfds' = watched
      /\ IF 0 \in ready THEN pc' = "accept" /\ left' = 0 /\ awake' = TRUE /\ tmpfds' = ready
         ELSE GoOn(Len(conns), ready, TRUE)
      /\ sock' = sock /\ tw' = tw /\ conns' = conns /\ pl' = pl /\ pos' = pos
      /\ UNCHANGED volume /\ cl' = cl /\ spent' = spent /\ UNCHANGED hist
  BY Zenon DEF Select
<1>2. watched = readfds \cup {r.fd : r \in Open} /\ {r.fd : r \in Open} \subseteq Fds
  BY OpenTyped DEF Open, ConnType
<1>3. ready \subseteq watched /\ watched \subseteq Fds
  BY <1>2 DEF Typed
<1>4. 0 \in ready => Readable(0) \/ \E f \in watched : sock[f].use = "free"
  OBVIOUS
<1> HIDE DEF watched, ready
<1>5. Flags' /\ pl' = NoFd
  BY <1>1 DEF Typed, Flags, volume, hist
<1>6. CASE 0 \in ready
  <2>1. pc' = "accept" /\ left' = 0 /\ awake' = TRUE /\ tmpfds' = ready
    BY <1>1, <1>6
  <2>2. 0 \in 0 .. Len(conns)
    BY DEF Typed
  <2>3. Typed'
    BY <1>1, <1>3, <1>5, <2>1, <2>2 DEF Typed, Serving
  <2> QED
    BY <1>1, <1>2, <1>4, <1>6, <2>1, <2>3, Freed DEF Watches
<1>7. CASE 0 \notin ready
  <2>1. GoOn(Len(conns), ready, TRUE)
    BY <1>1, <1>7
  <2>2. Len(conns) \in Nat /\ Len(conns) \in 0 .. Len(conns) /\ ready \in SUBSET Fds
    BY <1>3 DEF Typed
  <2>3. Typed'
    <3>1. /\ sock' \in [Fds -> SockType] /\ conns' \in Seq(ConnType) /\ readfds' \subseteq Fds
          /\ pos' \in Nat /\ cl' \in [Clients -> ClType] /\ Len(conns) <= Len(conns') /\ TRUE \in BOOLEAN
      BY <1>1, <1>3, <2>2 DEF Typed
    <3>2. spent' = spent
      BY <1>1
    <3> QED
      BY <1>5, <2>1, <2>2, <3>1, <3>2, TypedOn, Zenon
  <2>4. pc' \in {"select", "loop"}
    BY <2>1, <2>2, GoOnGives
  <2> QED
    BY <1>1, <1>2, <2>3, <2>4, Freed DEF Watches
<1> QED
  BY <1>6, <1>7

\* accept without a connection.
AdmitsNone ==
  /\ pc = "accept" /\ pc' = "select" /\ conns' = conns /\ cl' = cl /\ pos' = pos /\ Quiet
  /\ sock[0].q # <<>> /\ Head(sock[0].q) = "abrt" /\ sock'[0].q = Tail(sock[0].q)
  /\ sock'[0].use = sock[0].use /\ sock'[0].port = sock[0].port /\ \A f \in Fds \ {0} : sock'[f] = sock[f]

\* Socket 0, the listener of port 21, is a socket; the number after the last is none.
LEMMA ListenerIn == 0 \in Fds /\ MaxConn \notin Fds
BY SocketAssumption DEF Fds

\* The accept of a control connection that fails.
LEMMA AdmitsNoneDoes ==
  ASSUME Typed, Counted, Uses, AcceptFails
  PROVE  Typed' /\ Counted' /\ AdmitsNone
<1>1. /\ pc = "accept" /\ sock[0].q # <<>> /\ Head(sock[0].q) = "abrt"
      /\ sock' = [sock EXCEPT ![0].q = Tail(@)]
      /\ GoOn(0, {}, FALSE) /\ tw' = tw /\ conns' = conns /\ readfds' = readfds /\ pl' = pl /\ pos' = pos
      /\ UNCHANGED volume /\ cl' = cl /\ spent' = spent /\ UNCHANGED hist
  BY DEF AcceptFails
<1>2. /\ sock' \in [Fds -> SockType] /\ sock'[0].q = Tail(sock[0].q)
      /\ sock'[0].use = sock[0].use /\ sock'[0].port = sock[0].port
      /\ \A g \in Fds \ {0} : sock'[g] = sock[g]
  BY <1>1, ListenerIn, TailKeeps
<1>3. Flags' /\ pl' = NoFd
  BY <1>1 DEF Typed, Flags, volume, hist
<1>4. Len(conns) \in Nat /\ 0 \in 0 .. Len(conns)
  BY DEF Typed
<1>5. Typed'
  <2>1. /\ conns' \in Seq(ConnType) /\ readfds' \subseteq Fds
        /\ pos' \in Nat /\ cl' \in [Clients -> ClType] /\ 0 <= Len(conns')
    BY <1>1, <1>4 DEF Typed
  <2> QED
    BY <1>1, <1>2, <1>3, <1>4, <2>1, TypedOn
<1>6. pc' = "select"
  <2>1. {k \in 1 .. 0 : conns[Len(conns) + 1 - k].fd \in {}} = {}
    OBVIOUS
  <2> QED
    BY <1>1, <2>1 DEF GoOn
<1>7. Counted'
  BY <1>1, <1>2, ListenerIn, Dequeued
<1> QED
  BY <1>1, <1>2, <1>5, <1>6, <1>7 DEF AdmitsNone, Quiet

\* accept with a connection.
First == Head(sock[0].q)
AdmitsWith(new) ==
  /\ pc = "accept" /\ pc' \in {"select", "loop"} /\ pos' = pos /\ UNCHANGED hist
  /\ sock[0].q # <<>> /\ First \in Clients /\ sock'[0].q = Tail(sock[0].q)
  /\ sock'[0].use = sock[0].use /\ sock'[0].port = sock[0].port
  /\ Takes("ctl", First) /\ ~sock'[New].port /\ New # 0
  /\ \A f \in Fds \ {0, New} : sock'[f] = sock[f]
  /\ new.fd = New /\ new.offset = 0 /\ new \in ConnType /\ Entries(Open \cup {new})
  /\ readfds' = readfds \cup {New}
  /\ \A c \in Clients \ {First} : cl'[c] = cl[c]
  /\ cl'[First] = [cl[First] EXCEPT !.ctl = IF @ = "queued" THEN "open" ELSE @]
Admits == \E new \in ConnType : AdmitsWith(new)

\* The accept of a control connection.
LEMMA AdmitsDoes ==
  ASSUME Typed, Counted, Uses, Accept
  PROVE  Typed' /\ Counted' /\ Admits
<1> DEFINE s == [Free EXCEPT !.use = "ctl", !.peer = First]
           me == [cl[First] EXCEPT !.ctl = IF @ = "queued" THEN "open" ELSE @]
<1>1. /\ pc = "accept" /\ sock[0].q # <<>> /\ First # "abrt"
      /\ sock' = [sock EXCEPT ![0].q = Tail(@), ![New] = s]
      /\ readfds' = readfds \cup {New}
      /\ cl' = [cl EXCEPT ![First] = me]
      /\ tw' = tw /\ pl' = pl /\ pos' = pos /\ UNCHANGED volume /\ spent' = spent /\ UNCHANGED hist
  BY DEF Accept, New, First
<1>2. PICK garbage \in Garbage :
        /\ conns' = <<[fd |-> New, pasv |-> garbage, offset |-> 0]>> \o conns
        /\ IF New \in tmpfds
           THEN left' = Len(conns) + 1 /\ pc' = "loop" /\ UNCHANGED <<awake, tmpfds>>
           ELSE GoOn(Len(conns), tmpfds, awake)
  BY Zenon DEF Accept, New
<1> DEFINE new == [fd |-> New, pasv |-> garbage, offset |-> 0]
<1>3. /\ sock[0].q \in Seq(Clients \cup {"abrt"}) /\ First \in Clients /\ 0 \in Fds
      /\ cl \in [Clients -> ClType] /\ cl[First] \in ClType
  <2>1. sock[0].q \in Seq(Clients \cup {"abrt"}) /\ 0 \in Fds
    BY ListenerIn DEF Typed, SockType
  <2>2. First \in Clients
    BY <1>1, <2>1, TailGives DEF First
  <2> QED
    BY <2>1, <2>2 DEF Typed
<1>4. New \in Fds /\ sock[New].use = "free" /\ New # 0
  <2>1. New \in Fds /\ sock[New].use = "free"
    BY <1>1, <1>3, SomeFree DEF New, First
  <2> QED
    BY <1>3, <2>1 DEF Uses
<1>5. new \in ConnType /\ new.fd = New /\ new.offset = 0
  BY <1>4, GarbageAssumption, SocketAssumption, LengthAssumption DEF ConnType, Fds, NoFd
<1>6. s \in SockType /\ s.use = "ctl" /\ s.peer = First /\ s.q = <<>> /\ s.port = FALSE
  BY <1>3, FreeTyped DEF SockType
<1>7. me \in ClType
  BY <1>3 DEF ClType
<1>8. conns' = <<new>> \o conns
  BY <1>2
<1> HIDE DEF s, me, new
<1>9. /\ sock' \in [Fds -> SockType] /\ sock'[0].q = Tail(sock[0].q)
      /\ sock'[0].use = sock[0].use /\ sock'[0].port = sock[0].port
      /\ sock'[New] = s /\ \A f \in Fds \ {0, New} : sock'[f] = sock[f]
  <2> DEFINE t == [sock EXCEPT ![0].q = Tail(@)]  l == [sock[0] EXCEPT !.q = Tail(sock[0].q)]
  <2>1. Tail(sock[0].q) \in Seq(Clients \cup {"abrt"}) /\ sock[0] \in SockType
    BY <1>1, <1>3, TailGives DEF Typed
  <2>2. l \in SockType /\ l.q = Tail(sock[0].q) /\ l.use = sock[0].use /\ l.port = sock[0].port
    BY <2>1 DEF SockType
  <2>3. sock' = [sock EXCEPT ![0] = l, ![New] = s]
    BY <1>1
  <2> HIDE DEF l
  <2> QED
    BY <1>3, <1>4, <1>6, <2>2, <2>3 DEF Typed
<1>10. cl' \in [Clients -> ClType] /\ cl'[First] = me /\ \A c \in Clients \ {First} : cl'[c] = cl[c]
  BY <1>1, <1>3, <1>7
<1>11. conns' \in Seq(ConnType) /\ Len(conns') = Len(conns) + 1 /\ Entries(Open \cup {new})
  <2>1. \A r \in Open : r.fd # new.fd
    BY <1>4, <1>5, PeerIs
  <2> QED
    BY <1>5, <1>8, <2>1, EntryAdded DEF Entries
<1>12. Flags' /\ pl' = NoFd
  BY <1>1 DEF Typed, Flags, volume, hist
<1>13. Typed' /\ pc' \in {"select", "loop"}
  <2>1. /\ readfds' \subseteq Fds /\ pos' \in Nat /\ tmpfds \in SUBSET Fds /\ awake \in BOOLEAN
        /\ Len(conns) \in Nat
    BY <1>1, <1>4 DEF Typed
  <2>2. Len(conns) \in 0 .. Len(conns) /\ Len(conns) <= Len(conns')
        /\ Len(conns) + 1 \in 0 .. Len(conns') /\ Len(conns) + 1 > 0
    BY <1>11, <2>1
  <2>3. CASE New \in tmpfds
    <3>1. left' = Len(conns) + 1 /\ pc' = "loop" /\ awake' = awake /\ tmpfds' = tmpfds
      BY <1>2, <2>3
    <3> QED
      BY <1>1, <1>9, <1>10, <1>11, <1>12, <2>1, <2>2, <3>1 DEF Typed, Serving
  <2>4. CASE New \notin tmpfds
    <3>1. GoOn(Len(conns), tmpfds, awake)
      BY <1>2, <2>4
    <3>2. pc' \in {"select", "loop"}
      BY <2>1, <2>2, <3>1, GoOnGives
    <3>3. spent' = spent
      BY <1>1
    <3>4. Typed'
      BY <1>9, <1>10, <1>11, <1>12, <2>1, <2>2, <3>1, <3>3, TypedOn, Zenon
    <3> QED
      BY <3>2, <3>4
  <2> QED
    BY <2>3, <2>4
<1>14. Counted'
  BY <1>1, <1>3, <1>4, <1>6, <1>9, Dequeued DEF First
<1>15. AdmitsWith(new)
  BY <1>1, <1>3, <1>4, <1>5, <1>6, <1>9, <1>10, <1>11, <1>13 DEF AdmitsWith, Takes, me
<1> QED
  BY <1>5, <1>13, <1>14, <1>15 DEF Admits

-----------------------------------------------------------------------------
(* Clients.                                                                *)

AllBut(c) == \A x \in Clients \ {c} : cl'[x] = cl[x]
SameServer == conns' = conns /\ left' = left /\ pc' = pc /\ pl' = pl /\ pos' = pos /\ readfds' = readfds
              /\ Open' = Open /\ Cur' = Cur

\* What a step that leaves the server alone leaves alone.
LEMMA ServerSame ==
  ASSUME UNCHANGED server
  PROVE  SameServer /\ tmpfds' = tmpfds /\ awake' = awake
<1>1. conns' = conns /\ left' = left /\ pc' = pc /\ pl' = pl /\ pos' = pos /\ readfds' = readfds
      /\ tmpfds' = tmpfds /\ awake' = awake
  BY DEF server
<1> QED
  BY <1>1, SameTurn DEF SameServer

\* A step of a client, of which only clients and the queues know.
LEMMA TypedClient ==
  ASSUME Typed, UNCHANGED server, sock' \in [Fds -> SockType], NEW c \in Clients, NEW you \in ClType,
         cl' = [cl EXCEPT ![c] = you], spent' \in [Clients -> Nat], Flags'
  PROVE  Typed' /\ cl'[c] = you /\ AllBut(c)
<1>1. cl' \in [Clients -> ClType] /\ cl'[c] = you /\ AllBut(c)
  BY DEF Typed, AllBut
<1>2. conns' = conns /\ left' = left /\ pc' = pc /\ pl' = pl /\ pos' = pos /\ readfds' = readfds
      /\ tmpfds' = tmpfds /\ awake' = awake
  BY DEF server
<1>3. Typed'
  BY <1>1, <1>2 DEF Typed, Serving
<1> QED
  BY <1>1, <1>3

\* A client connects.
Connects(c) ==
  /\ SameServer /\ UNCHANGED hist /\ stale' = stale /\ AllBut(c) /\ cl[c].ctl = "none"
  /\ \A f \in Fds \ {0} : sock'[f] = sock[f]
  /\ sock'[0].use = sock[0].use /\ sock'[0].port = sock[0].port
  /\ \/ sock'[0].q = Append(sock[0].q, c) /\ cl'[c] = [NewClient EXCEPT !.ctl = "queued"]
     \/ sock'[0].q = Append(sock[0].q, "abrt") /\ cl'[c] = NewClient

\* A queue with one more keeps its socket a socket.
LEMMA AppendKeeps ==
  ASSUME Typed, NEW f \in Fds, NEW x \in Clients \cup {"abrt"}, sock' = [sock EXCEPT ![f].q = Append(@, x)]
  PROVE  /\ sock'[f].q = Append(sock[f].q, x) /\ sock'[f].use = sock[f].use
         /\ sock'[f].peer = sock[f].peer /\ sock'[f].port = sock[f].port
         /\ \A g \in Fds \ {f} : sock'[g] = sock[g]
<1> DEFINE s == [sock[f] EXCEPT !.q = Append(sock[f].q, x)]
<1>1. sock[f] \in SockType
  BY DEF Typed
<1>2. s.q = Append(sock[f].q, x) /\ s.use = sock[f].use /\ s.peer = sock[f].peer /\ s.port = sock[f].port
  BY <1>1 DEF SockType
<1>3. sock' = [sock EXCEPT ![f] = s]
  OBVIOUS
<1> HIDE DEF s
<1> QED
  BY <1>2, <1>3 DEF Typed

\* Commands are counted in numbers.
LEMMA SpentTyped ==
  ASSUME Typed, NEW c \in Clients, spent' = [spent EXCEPT ![c] = @ + 1]
  PROVE  spent' \in [Clients -> Nat]
BY DEF Typed

\* A client connects to port 21.
LEMMA ConnectsDoes ==
  ASSUME Typed, Counted, NEW c \in Clients, Connect(c)
  PROVE  Typed' /\ Counted' /\ Connects(c)
<1>1. cl[c].ctl = "none" /\ UNCHANGED server /\ UNCHANGED hist /\ tw' = tw /\ UNCHANGED volume
      /\ spent' = [spent EXCEPT ![c] = @ + 1]
  BY DEF Connect
<1>2. Flags' /\ SameServer /\ spent' \in [Clients -> Nat] /\ 0 \in Fds /\ "abrt" \in Clients \cup {"abrt"}
      /\ stale' = stale
  BY <1>1, ServerSame, SpentTyped, ListenerIn DEF Typed, Flags, volume, hist
<1>3. CASE NetconnFree
  <2>1. /\ sock' = [sock EXCEPT ![0].q = Append(@, c)]
        /\ cl' = [cl EXCEPT ![c] = [NewClient EXCEPT !.ctl = "queued"]]
    BY <1>3 DEF Connect
  <2>2. Counted' /\ sock' \in [Fds -> SockType]
    BY <1>2, <1>3, <2>1, Waiting
  <2>3. [NewClient EXCEPT !.ctl = "queued"] \in ClType
    BY NewClientTyped
  <2>4. Typed' /\ cl'[c] = [NewClient EXCEPT !.ctl = "queued"] /\ AllBut(c)
    BY <1>1, <1>2, <2>1, <2>2, <2>3, TypedClient
  <2>5. /\ sock'[0].q = Append(sock[0].q, c) /\ sock'[0].use = sock[0].use /\ sock'[0].port = sock[0].port
        /\ \A g \in Fds \ {0} : sock'[g] = sock[g]
    BY <1>2, <2>1, AppendKeeps
  <2> QED
    BY <1>1, <1>2, <2>2, <2>4, <2>5 DEF Connects
<1>4. CASE ~NetconnFree
  <2>1. sock' = [sock EXCEPT ![0].q = Append(@, "abrt")] /\ cl' = [cl EXCEPT ![c] = NewClient]
    BY <1>4 DEF Connect
  <2>2. Counted' /\ sock' \in [Fds -> SockType]
    BY <1>2, <2>1, Waiting
  <2>3. NewClient \in ClType
    BY NewClientTyped
  <2>4. Typed' /\ cl'[c] = NewClient /\ AllBut(c)
    BY <1>1, <1>2, <2>1, <2>2, <2>3, TypedClient
  <2>5. /\ sock'[0].q = Append(sock[0].q, "abrt") /\ sock'[0].use = sock[0].use
        /\ sock'[0].port = sock[0].port /\ \A g \in Fds \ {0} : sock'[g] = sock[g]
    BY <1>2, <2>1, AppendKeeps
  <2> QED
    BY <1>1, <1>2, <2>2, <2>4, <2>5 DEF Connects
<1> QED
  BY <1>3, <1>4

\* A client connects to the listener of its PASV.
JoinsAt(c, f) ==
  /\ SameServer /\ UNCHANGED hist /\ stale' = stale /\ AllBut(c)
  /\ cl[c].ctl = "open" /\ cl[c].rep = "227" /\ cl[c].data = "none"
  /\ sock[f].use = "pl" /\ sock[f].port
  /\ sock'[f].use = sock[f].use /\ sock'[f].peer = sock[f].peer /\ sock'[f].port = sock[f].port
  /\ \A g \in Fds \ {f} : sock'[g] = sock[g]
  /\ \/ sock'[f].q = Append(sock[f].q, c) /\ cl'[c] = [cl[c] EXCEPT !.data = "open", !.rep = "none"]
     \/ sock'[f].q = Append(sock[f].q, "abrt") /\ cl'[c] = [cl[c] EXCEPT !.rep = "none"]
JoinsBy(c) == \E f \in Fds : JoinsAt(c, f)

\* A client connects to the port its 227 named.
LEMMA JoinsByDoes ==
  ASSUME Typed, Counted, NEW c \in Clients, DataConnect(c)
  PROVE  Typed' /\ Counted' /\ JoinsBy(c)
<1>1. /\ cl[c].ctl = "open" /\ cl[c].rep = "227" /\ cl[c].data = "none"
      /\ UNCHANGED server /\ UNCHANGED hist /\ tw' = tw /\ UNCHANGED volume /\ spent' = spent
  BY DEF DataConnect
<1>2. Flags' /\ SameServer /\ spent' \in [Clients -> Nat] /\ "abrt" \in Clients \cup {"abrt"}
      /\ cl[c] \in ClType /\ cl \in [Clients -> ClType] /\ stale' = stale
  BY <1>1, ServerSame DEF Typed, Flags, volume, hist
<1>3. PICK f \in Fds :
        /\ sock[f].use = "pl" /\ sock[f].port
        /\ IF NetconnFree
           THEN /\ sock' = [sock EXCEPT ![f].q = Append(@, c)]
                /\ cl' = [cl EXCEPT ![c].data = "open", ![c].rep = "none"]
           ELSE /\ sock' = [sock EXCEPT ![f].q = Append(@, "abrt")]
                /\ cl' = [cl EXCEPT ![c].rep = "none"]
  BY DEF DataConnect
<1>4. CASE NetconnFree
  <2> DEFINE you == [cl[c] EXCEPT !.data = "open", !.rep = "none"]
  <2>1. sock' = [sock EXCEPT ![f].q = Append(@, c)] /\ cl' = [cl EXCEPT ![c] = you]
    BY <1>2, <1>3, <1>4
  <2>2. Counted' /\ sock' \in [Fds -> SockType]
    BY <1>4, <2>1, Waiting
  <2>3. you \in ClType
    BY <1>2 DEF ClType
  <2> HIDE DEF you
  <2>4. Typed' /\ cl'[c] = you /\ AllBut(c)
    BY <1>1, <1>2, <2>1, <2>2, <2>3, TypedClient
  <2>5. /\ sock'[f].q = Append(sock[f].q, c) /\ sock'[f].use = sock[f].use
        /\ sock'[f].peer = sock[f].peer /\ sock'[f].port = sock[f].port
        /\ \A g \in Fds \ {f} : sock'[g] = sock[g]
    BY <2>1, AppendKeeps
  <2>6. JoinsAt(c, f)
    BY <1>1, <1>2, <1>3, <2>4, <2>5 DEF JoinsAt, you
  <2> QED
    BY <2>2, <2>4, <2>6 DEF JoinsBy
<1>5. CASE ~NetconnFree
  <2> DEFINE you == [cl[c] EXCEPT !.rep = "none"]
  <2>1. sock' = [sock EXCEPT ![f].q = Append(@, "abrt")] /\ cl' = [cl EXCEPT ![c] = you]
    BY <1>2, <1>3, <1>5
  <2>2. Counted' /\ sock' \in [Fds -> SockType]
    BY <1>2, <2>1, Waiting
  <2>3. you \in ClType
    BY <1>2 DEF ClType
  <2> HIDE DEF you
  <2>4. Typed' /\ cl'[c] = you /\ AllBut(c)
    BY <1>1, <1>2, <2>1, <2>2, <2>3, TypedClient
  <2>5. /\ sock'[f].q = Append(sock[f].q, "abrt") /\ sock'[f].use = sock[f].use
        /\ sock'[f].peer = sock[f].peer /\ sock'[f].port = sock[f].port
        /\ \A g \in Fds \ {f} : sock'[g] = sock[g]
    BY <1>2, <2>1, AppendKeeps
  <2>6. JoinsAt(c, f)
    BY <1>1, <1>2, <1>3, <2>4, <2>5 DEF JoinsAt, you
  <2> QED
    BY <2>2, <2>4, <2>6 DEF JoinsBy
<1> QED
  BY <1>4, <1>5

\* A client sends a command.
Gives(c, k, n) == k \in {"PASV", "PORT", "QUIT"} /\ cl[c].data # "none"
Sends(c, k, n) ==
  /\ SameServer /\ sock' = sock /\ stale' = stale /\ AllBut(c) /\ cl[c].ctl = "open" /\ ~cl[c].wait
  /\ (k = "REST" <=> n > 0)
  /\ cl'[c].cmd = k /\ cl'[c].doing = k /\ cl'[c].wait = TRUE /\ cl'[c].rep = "none" /\ cl'[c].ctl = "open"
  /\ IF Gives(c, k, n) THEN NoData(cl'[c]) /\ abandoned'
     ELSE SameData(cl[c], cl'[c]) /\ abandoned' = abandoned
  /\ cl'[c].asked = CASE k = "REST" -> n [] k = "RETR" -> 0 [] OTHER -> cl[c].asked
  /\ cl'[c].from = IF k = "RETR" THEN cl[c].asked ELSE cl[c].from
  /\ cl'[c].got = IF k = "RETR" THEN <<>> ELSE cl[c].got
  /\ cl'[c].rested = (cl[c].rested \/ (k = "RETR" /\ cl[c].asked > 0))
  /\ (misused => misused') /\ (k \in {"LIST", "RETR", "STOR"} /\ cl[c].data # "open" => misused')
  /\ UNCHANGED <<pasvFailed, uncleared>>

\* A client sends a command.
LEMMA SendsDoes ==
  ASSUME Typed, Counted, NEW c \in Clients, NEW k \in Cmds, NEW n \in 0 .. FileLen, Send(c, k, n)
  PROVE  Typed' /\ Counted' /\ Sends(c, k, n)
<1> DEFINE drops == k \in {"PASV", "PORT", "QUIT"} /\ cl[c].data # "none"
           me == [cl[c] EXCEPT !.cmd = k, !.doing = k, !.wait = TRUE, !.rep = "none",
                    !.data = IF drops THEN "none" ELSE @,
                    !.up = IF drops THEN 0 ELSE @, !.unread = IF drops THEN 0 ELSE @]
           you == CASE k = "REST" -> [me EXCEPT !.asked = n]
                    [] k = "RETR" -> [me EXCEPT !.asked = 0, !.from = cl[c].asked, !.got = <<>>,
                                                !.rested = @ \/ cl[c].asked > 0]
                    [] OTHER -> me
<1>1. /\ cl[c].ctl = "open" /\ ~cl[c].wait /\ (k = "REST" <=> n > 0)
      /\ spent' = [spent EXCEPT ![c] = @ + 1]
      /\ abandoned' = (abandoned \/ drops) /\ cl' = [cl EXCEPT ![c] = you]
      /\ misused' = (misused \/ (k \in {"LIST", "RETR", "STOR"} /\ cl[c].data # "open"))
      /\ sock' = sock /\ tw' = tw /\ UNCHANGED server /\ UNCHANGED volume
      /\ UNCHANGED <<pasvFailed, uncleared, silent>>
  BY Zenon DEF Send
<1>2. cl[c] \in ClType /\ FileLen \in Nat /\ UpLen \in Nat /\ 0 \in 0 .. FileLen /\ 0 \in 0 .. UpLen
      /\ <<>> \in Seq(Nat)
  BY LengthAssumption DEF Typed
<1>3. /\ me \in ClType /\ me.cmd = k /\ me.doing = k /\ me.wait = TRUE /\ me.rep = "none"
      /\ me.ctl = cl[c].ctl /\ me.asked = cl[c].asked /\ me.from = cl[c].from /\ me.got = cl[c].got
      /\ me.rested = cl[c].rested
      /\ IF drops THEN NoData(me) ELSE SameData(cl[c], me)
  <2>1. k \in Cmds \cup {"none"}
    OBVIOUS
  <2>2. CASE drops
    <3>1. me = [cl[c] EXCEPT !.cmd = k, !.doing = k, !.wait = TRUE, !.rep = "none",
                             !.data = "none", !.up = 0, !.unread = 0]
      BY <2>2
    <3> HIDE DEF me
    <3> QED
      BY <1>2, <2>1, <2>2, <3>1 DEF ClType, NoData
  <2>3. CASE ~drops
    <3>1. me = [cl[c] EXCEPT !.cmd = k, !.doing = k, !.wait = TRUE, !.rep = "none",
                             !.data = @, !.up = @, !.unread = @]
      BY <2>3
    <3> HIDE DEF me
    <3> QED
      BY <1>2, <2>1, <2>3, <3>1 DEF ClType, SameData
  <2> QED
    BY <2>2, <2>3
<1> HIDE DEF me
<1>4. /\ you \in ClType /\ you.cmd = k /\ you.doing = k /\ you.wait = TRUE /\ you.rep = "none"
      /\ you.ctl = cl[c].ctl /\ SameData(me, you)
      /\ you.asked = CASE k = "REST" -> n [] k = "RETR" -> 0 [] OTHER -> cl[c].asked
      /\ you.from = IF k = "RETR" THEN cl[c].asked ELSE cl[c].from
      /\ you.got = IF k = "RETR" THEN <<>> ELSE cl[c].got
      /\ you.rested = (cl[c].rested \/ (k = "RETR" /\ cl[c].asked > 0))
  <2>0. cl[c].rested \in BOOLEAN /\ cl[c].asked \in 0 .. FileLen
    BY <1>2 DEF ClType
  <2>1. CASE k = "REST"
    <3>1. you = [me EXCEPT !.asked = n]
      BY <2>1
    <3> HIDE DEF you
    <3> QED
      BY <1>3, <2>0, <2>1, <3>1 DEF ClType, SameData
  <2>2. CASE k = "RETR"
    <3>1. you = [me EXCEPT !.asked = 0, !.from = cl[c].asked, !.got = <<>>,
                           !.rested = @ \/ cl[c].asked > 0]
      BY <2>2
    <3> HIDE DEF you
    <3>2. (me.rested \/ cl[c].asked > 0) \in BOOLEAN
      OBVIOUS
    <3>3. you \in ClType
      BY <1>2, <1>3, <2>0, <3>1, <3>2 DEF ClType
    <3> QED
      BY <1>3, <2>0, <2>2, <3>1, <3>3 DEF ClType, SameData
  <2>3. CASE k \notin {"REST", "RETR"}
    <3>1. you = me
      BY <2>3
    <3> HIDE DEF you
    <3> QED
      BY <1>3, <2>0, <2>3, <3>1 DEF SameData
  <2> QED
    BY <2>1, <2>2, <2>3
<1> HIDE DEF you
<1>5. Flags' /\ SameServer /\ spent' \in [Clients -> Nat] /\ sock' \in [Fds -> SockType] /\ stale' = stale
  <2>1. misused' \in BOOLEAN /\ abandoned' \in BOOLEAN
    BY <1>1
  <2>2. SameServer /\ spent' \in [Clients -> Nat] /\ sock' \in [Fds -> SockType]
    BY <1>1, ServerSame, SpentTyped DEF Typed
  <2>3. UNCHANGED <<mounted, locked, stale>>
    BY <1>1 DEF volume
  <2> QED
    BY <1>1, <2>1, <2>2, <2>3 DEF Typed, Flags
<1>6. Typed' /\ cl'[c] = you /\ AllBut(c)
  BY <1>1, <1>4, <1>5, TypedClient
<1>7. Counted'
  BY <1>1, Freed
<1>8. (misused => misused') /\ (k \in {"LIST", "RETR", "STOR"} /\ cl[c].data # "open" => misused')
  BY <1>1
<1>9. IF drops THEN NoData(you) /\ abandoned' ELSE SameData(cl[c], you) /\ abandoned' = abandoned
  <2>1. abandoned \in BOOLEAN
    BY DEF Typed, Flags
  <2>2. CASE drops
    BY <1>1, <1>3, <1>4, <2>2 DEF NoData, SameData
  <2>3. CASE ~drops
    BY <1>1, <1>3, <1>4, <2>1, <2>3 DEF SameData
  <2> QED
    BY <2>2, <2>3
<1> QED
  BY <1>1, <1>4, <1>5, <1>6, <1>7, <1>8, <1>9 DEF Sends, Gives

-----------------------------------------------------------------------------
\* The blocks a client stores, and the end of its data connection.
Streams(c) ==
  /\ SameServer /\ UNCHANGED hist /\ sock' = sock /\ stale' = stale /\ AllBut(c)
  /\ cl[c].data = "open" /\ cl[c].doing = "STOR"
  /\ SameTalk(cl[c], cl'[c]) /\ SameSelf(cl[c], cl'[c])
  /\ \/ cl'[c].data = "open" /\ cl'[c].up = cl[c].up + 1 /\ cl'[c].unread = cl[c].unread + 1
     \/ cl'[c].data = "fin" /\ cl'[c].up = cl[c].up /\ cl'[c].unread = cl[c].unread /\ cl[c].up = UpLen
     \/ cl'[c].data = "rst" /\ cl'[c].up = cl[c].up /\ cl'[c].unread = 0

\* A client sends, ends or resets its upload.
LEMMA StreamsDoes ==
  ASSUME Typed, Counted, NEW c \in Clients, DataSend(c) \/ DataFin(c) \/ DataReset(c)
  PROVE  Typed' /\ Counted' /\ Streams(c)
<1>1. /\ UNCHANGED server /\ UNCHANGED hist /\ sock' = sock /\ tw' = tw /\ UNCHANGED volume
      /\ spent' = spent /\ cl[c].data = "open" /\ cl[c].doing = "STOR"
  BY DEF DataSend, DataFin, DataReset
<1>2. Flags' /\ SameServer /\ spent' \in [Clients -> Nat] /\ sock' \in [Fds -> SockType] /\ stale' = stale
      /\ cl[c] \in ClType /\ cl \in [Clients -> ClType] /\ UpLen \in Nat
  BY <1>1, ServerSame, LengthAssumption DEF Typed, Flags, volume, hist
<1>3. Counted'
  BY <1>1, Freed
<1>4. CASE DataSend(c)
  <2> DEFINE you == [cl[c] EXCEPT !.up = @ + 1, !.unread = @ + 1]
  <2>1. cl' = [cl EXCEPT ![c] = you] /\ cl[c].up < UpLen
    BY <1>2, <1>4 DEF DataSend
  <2>2. you \in ClType /\ SameTalk(cl[c], you) /\ SameSelf(cl[c], you)
        /\ you.data = cl[c].data /\ you.up = cl[c].up + 1 /\ you.unread = cl[c].unread + 1
    <3>1. cl[c].up \in 0 .. UpLen /\ cl[c].unread \in Nat
      BY <1>2 DEF ClType
    <3>2. cl[c].up + 1 \in 0 .. UpLen /\ cl[c].unread + 1 \in Nat
      BY <1>2, <2>1, <3>1
    <3> QED
      BY <1>2, <3>2 DEF ClType, SameTalk, SameSelf
  <2> HIDE DEF you
  <2>3. Typed' /\ cl'[c] = you /\ AllBut(c)
    BY <1>1, <1>2, <2>1, <2>2, TypedClient
  <2> QED
    BY <1>1, <1>2, <1>3, <2>2, <2>3 DEF Streams
<1>5. CASE DataFin(c)
  <2> DEFINE you == [cl[c] EXCEPT !.data = "fin"]
  <2>1. cl' = [cl EXCEPT ![c] = you] /\ cl[c].up = UpLen
    BY <1>2, <1>5 DEF DataFin
  <2>2. you \in ClType /\ SameTalk(cl[c], you) /\ SameSelf(cl[c], you)
        /\ you.data = "fin" /\ you.up = cl[c].up /\ you.unread = cl[c].unread
    BY <1>2 DEF ClType, SameTalk, SameSelf
  <2> HIDE DEF you
  <2>3. Typed' /\ cl'[c] = you /\ AllBut(c)
    BY <1>1, <1>2, <2>1, <2>2, TypedClient
  <2> QED
    BY <1>1, <1>2, <1>3, <2>1, <2>2, <2>3 DEF Streams
<1>6. CASE DataReset(c)
  <2> DEFINE you == [cl[c] EXCEPT !.data = "rst", !.unread = 0]
  <2>1. cl' = [cl EXCEPT ![c] = you]
    BY <1>2, <1>6 DEF DataReset
  <2>2. you \in ClType /\ SameTalk(cl[c], you) /\ SameSelf(cl[c], you)
        /\ you.data = "rst" /\ you.up = cl[c].up /\ you.unread = 0
    BY <1>2 DEF ClType, SameTalk, SameSelf
  <2> HIDE DEF you
  <2>3. Typed' /\ cl'[c] = you /\ AllBut(c)
    BY <1>1, <1>2, <2>1, <2>2, TypedClient
  <2> QED
    BY <1>1, <1>2, <1>3, <2>1, <2>2, <2>3 DEF Streams
<1> QED
  BY <1>4, <1>5, <1>6

\* A client closes its connections.
Leaves(c) ==
  /\ SameServer /\ sock' = sock /\ stale' = stale /\ AllBut(c) /\ cl[c].ctl \in {"queued", "open"}
  /\ abandoned' = (abandoned \/ cl[c].data # "none" \/ cl[c].cmd = "PORT")
  /\ UNCHANGED <<misused, pasvFailed, uncleared>>
  /\ cl'[c] = [cl[c] EXCEPT !.ctl = "fin", !.wait = FALSE, !.data = IF @ = "open" THEN "fin" ELSE @]

\* A client leaves.
LEMMA LeavesDoes ==
  ASSUME Typed, Counted, NEW c \in Clients, Leave(c)
  PROVE  Typed' /\ Counted' /\ Leaves(c)
<1> DEFINE you == [cl[c] EXCEPT !.ctl = "fin", !.wait = FALSE, !.data = IF @ = "open" THEN "fin" ELSE @]
<1>1. cl[c] \in ClType /\ cl \in [Clients -> ClType]
  BY DEF Typed
<1>2. /\ UNCHANGED server /\ sock' = sock /\ tw' = tw /\ UNCHANGED volume /\ spent' = spent
      /\ cl[c].ctl \in {"queued", "open"} /\ UNCHANGED <<misused, pasvFailed, uncleared, silent>>
      /\ abandoned' = (abandoned \/ cl[c].data # "none" \/ cl[c].cmd = "PORT")
      /\ cl' = [cl EXCEPT ![c] = you]
  BY <1>1 DEF Leave
<1>3. Flags' /\ SameServer /\ spent' \in [Clients -> Nat] /\ sock' \in [Fds -> SockType] /\ stale' = stale
  <2>1. SameServer /\ spent' \in [Clients -> Nat] /\ sock' \in [Fds -> SockType]
    BY <1>2, ServerSame DEF Typed
  <2>2. abandoned' \in BOOLEAN /\ UNCHANGED <<mounted, locked, stale>>
    BY <1>2 DEF volume
  <2> QED
    BY <1>2, <2>1, <2>2 DEF Typed, Flags
<1>4. you \in ClType
  <2>1. PICK d \in {"none", "open", "fin", "rst"} :
          you = [cl[c] EXCEPT !.ctl = "fin", !.wait = FALSE, !.data = d]
    <3>1. CASE cl[c].data = "open"
      BY <3>1
    <3>2. CASE cl[c].data # "open"
      BY <1>1, <3>2 DEF ClType
    <3> QED
      BY <3>1, <3>2
  <2> HIDE DEF you
  <2> QED
    BY <1>1, <2>1 DEF ClType
<1> HIDE DEF you
<1>5. Typed' /\ cl'[c] = you /\ AllBut(c)
  BY <1>2, <1>3, <1>4, TypedClient
<1>6. Counted'
  BY <1>2, Freed
<1> QED
  BY <1>2, <1>3, <1>5, <1>6 DEF Leaves, you

\* Nothing that the server or its clients know changes but that a transfer may be stale.
Idles ==
  /\ SameServer /\ sock' = sock /\ cl' = cl /\ UNCHANGED hist /\ (stale' = stale \/ (Stored => stale'))

\* TIME_WAIT ends, the volume is remounted, or nothing happens.
LEMMA IdlesDoes ==
  ASSUME Typed, Counted, TimeWaitEnds \/ (\E m \in BOOLEAN : Remount(m)) \/ UNCHANGED vars
  PROVE  Typed' /\ Counted' /\ Idles
<1>1. UNCHANGED server /\ UNCHANGED hist /\ sock' = sock /\ cl' = cl /\ spent' = spent
  BY DEF TimeWaitEnds, Remount, vars
<1>2. (stale' = stale \/ (Stored => stale')) /\ stale' \in BOOLEAN /\ locked' \in BOOLEAN
      /\ mounted' \in BOOLEAN /\ tw' \in BOOLEAN
  <2>1. stale \in BOOLEAN /\ locked \in BOOLEAN /\ mounted \in BOOLEAN /\ tw \in BOOLEAN
    BY DEF Typed, Flags
  <2>2. CASE TimeWaitEnds
    BY <2>1, <2>2 DEF TimeWaitEnds, volume
  <2>3. CASE \E m \in BOOLEAN : Remount(m)
    <3>1. PICK m \in BOOLEAN : Remount(m)
      BY <2>3
    <3>2. stale' = (pc \in {"retr", "stor"}) /\ mounted' = m /\ locked' = FALSE /\ tw' = tw
      BY <3>1 DEF Remount
    <3>3. stale' \in BOOLEAN /\ (Stored => stale')
      <4>1. stale' = Stored
        BY <3>2, Zenon DEF Stored
      <4>2. (pc \in {"retr", "stor"}) \in BOOLEAN
        OBVIOUS
      <4>3. stale' \in BOOLEAN
        BY <3>2, <4>2, Zenon
      <4> QED
        BY <4>1, <4>3, Zenon
    <3>4. locked' \in BOOLEAN /\ mounted' \in BOOLEAN /\ tw' \in BOOLEAN
      BY <2>1, <3>2, Zenon
    <3> QED
      BY <3>3, <3>4, Zenon
  <2>4. CASE UNCHANGED vars
    BY <2>1, <2>4 DEF vars, volume
  <2> QED
    BY <2>2, <2>3, <2>4
<1>3. Flags' /\ SameServer
  BY <1>1, <1>2, ServerSame DEF Typed, Flags, hist
<1>4. Counted'
  BY <1>1, Freed
<1>5. Typed'
  <2>1. conns' = conns /\ left' = left /\ pc' = pc /\ pl' = pl /\ pos' = pos /\ readfds' = readfds
        /\ tmpfds' = tmpfds /\ awake' = awake
    BY <1>1 DEF server
  <2> QED
    BY <1>1, <1>3, <2>1 DEF Typed, Serving
<1> QED
  BY <1>1, <1>2, <1>3, <1>4, <1>5 DEF Idles

-----------------------------------------------------------------------------
(* All steps.                                                              *)

Serves ==
  \/ Answers \/ Closes \/ Drops \/ PortOpens \/ Listens \/ Joins \/ JoinsNone
  \/ Begins \/ Moves \/ Strays \/ Watches \/ AdmitsNone \/ Admits
Acts(c) ==
  \/ Connects(c) \/ JoinsBy(c) \/ Streams(c) \/ Leaves(c)
  \/ \E k \in Cmds, n \in 0 .. FileLen : Sends(c, k, n)

\* Every step of server, client or volume is one of these.
LEMMA StepIs ==
  ASSUME Typed, Counted, Uses, Listeners, [Next]_vars
  PROVE  Typed' /\ Counted' /\ (Serves \/ Idles \/ \E c \in Clients : Acts(c))
<1>1. CASE Server
  <2>1. CASE Noop \/ Rest \/ PortNoSocket \/ Refused \/ (PortConnects /\ sock' = sock)
    BY <2>1, AnswersDoes DEF Serves
  <2>2. CASE List \/ PasvFails \/ RetrEnds \/ StorEnds \/ StorGivesUp
    BY <2>2, ClosesDoes DEF Serves
  <2>3. CASE Hangup \/ Quit \/ StorBreaks
    BY <2>3, DropsDoes DEF Serves
  <2>4. CASE PortConnects /\ sock' # sock
    BY <2>4, PortOpensDoes DEF Serves
  <2>5. CASE PasvListens
    BY <2>5, ListensDoes DEF Serves
  <2>6. CASE PasvAccepts
    BY <2>6, JoinsDoes DEF Serves
  <2>7. CASE PasvAcceptFails
    BY <2>7, JoinsNoneDoes DEF Serves
  <2>8. CASE RetrStarts \/ StorStarts
    BY <2>8, BeginsDoes DEF Serves
  <2>9. CASE RetrSends \/ StorStores
    BY <2>9, MovesDoes DEF Serves
  <2>10. CASE UsesForeign
    BY <2>10, StraysDoes DEF Serves
  <2>11. CASE Select
    BY <2>11, WatchesDoes DEF Serves
  <2>12. CASE AcceptFails
    BY <2>12, AdmitsNoneDoes DEF Serves
  <2>13. CASE Accept
    BY <2>13, AdmitsDoes DEF Serves
  <2> QED
    BY <1>1, <2>1, <2>2, <2>3, <2>4, <2>5, <2>6, <2>7, <2>8, <2>9, <2>10, <2>11, <2>12, <2>13
       DEF Server
<1>2. ASSUME NEW c \in Clients,
             \/ Connect(c) \/ DataConnect(c) \/ DataSend(c) \/ DataFin(c) \/ DataReset(c) \/ Leave(c)
             \/ \E k \in Commands[c], n \in 0 .. FileLen : Send(c, k, n)
      PROVE  Typed' /\ Counted' /\ Acts(c)
  <2>1. CASE Connect(c)
    BY <2>1, ConnectsDoes DEF Acts
  <2>2. CASE DataConnect(c)
    BY <2>2, JoinsByDoes DEF Acts
  <2>3. CASE DataSend(c) \/ DataFin(c) \/ DataReset(c)
    BY <2>3, StreamsDoes DEF Acts
  <2>4. CASE Leave(c)
    BY <2>4, LeavesDoes DEF Acts
  <2>5. CASE \E k \in Commands[c], n \in 0 .. FileLen : Send(c, k, n)
    <3>1. PICK k \in Cmds, n \in 0 .. FileLen : Send(c, k, n)
      BY <2>5, CommandAssumption DEF Cmds
    <3>2. Typed' /\ Counted' /\ Sends(c, k, n)
      BY <3>1, SendsDoes
    <3> QED
      BY <3>2 DEF Acts
  <2> QED
    BY <1>2, <2>1, <2>2, <2>3, <2>4, <2>5
<1>3. CASE TimeWaitEnds \/ (\E m \in BOOLEAN : Remount(m)) \/ UNCHANGED vars
  BY <1>3, IdlesDoes
<1> QED
  BY <1>1, <1>2, <1>3 DEF Next, Environment

-----------------------------------------------------------------------------
(* Sockets and connections.                                                *)

\* Nothing of the sockets but a queue or a port changes.
SameUse == \A f \in Fds : sock'[f].use = sock[f].use /\ sock'[f].peer = sock[f].peer
SameFds == \A f \in Fds : (\E r \in Open' : r.fd = f) <=> (\E r \in Open : r.fd = f)
Distinct == \A i, j \in DOMAIN conns : conns[i].fd = conns[j].fd => i = j

\* A step that closes no control socket and opens none.
LEMMA UsesKept ==
  ASSUME Typed, Uses, SameFds, Distinct',
         \A f \in Fds : (sock'[f].use = "ctl" <=> sock[f].use = "ctl")
                        /\ (sock[f].use = "ctl" => sock'[f].peer = sock[f].peer),
         \A f \in Fds : sock'[f].use = "listen" <=> f = 0,
         \A f \in Fds : sock'[f].use \in {"data", "pl"} => sock'[f].peer \in Clients,
         \A f \in Fds : sock'[f].use \in {"free", "ctl", "data"} => sock'[f].q = <<>>,
         \A c \in Clients : cl[c].ctl \in {"open", "fin"} => cl'[c].ctl \in {"open", "fin"}
  PROVE  Uses'
<1>1. \A f \in Fds : sock'[f].use = "ctl" <=> \E r \in Open' : r.fd = f
  BY DEF Uses, SameFds
<1>2. \A f \in Fds : sock'[f].use \in {"ctl", "data", "pl"} => sock'[f].peer \in Clients
  BY DEF Uses
<1>3. \A f, g \in Fds :
        sock'[f].use = "ctl" /\ sock'[g].use = "ctl" /\ sock'[f].peer = sock'[g].peer => f = g
  BY DEF Uses
<1>4. \A f \in Fds : sock'[f].use = "ctl" => cl'[sock'[f].peer].ctl \in {"open", "fin"}
  BY DEF Uses
<1> QED
  BY <1>1, <1>2, <1>3, <1>4 DEF Uses, Distinct

\* The list keeps its sockets while an entry is written, or none.
LEMMA ListKept ==
  ASSUME Typed, Uses, conns' = conns \/ (Serving /\ \E new \in ConnType : EntryTo(new))
  PROVE  SameFds /\ Distinct'
<1>1. CASE conns' = conns
  <2>1. Open' = Open /\ Distinct'
    BY <1>1 DEF Open, Uses, Distinct
  <2> QED
    BY <2>1 DEF SameFds
<1>2. CASE Serving /\ \E new \in ConnType : EntryTo(new)
  <2>1. PICK new \in ConnType : EntryTo(new)
    BY <1>2
  <2>2. Cur \in Open /\ new.fd = Cur.fd /\ Open' = (Open \ {Cur}) \cup {new} /\ Distinct'
    BY <1>2, <2>1, CurIs DEF EntryTo, Entries, Distinct
  <2> QED
    BY <2>2 DEF SameFds
<1> QED
  BY <1>1, <1>2

\* Sockets and their uses correspond after a step of the server, ...
LEMMA UsesServes ==
  ASSUME Typed, Typed', Uses, Queued, Listeners, Serves
  PROVE  Uses'
<1>1. \A f \in Fds :
        sock[f].use \in {"free", "listen", "pl", "ctl", "data"} /\ sock[f].peer \in Clients \cup {NoOne}
  BY DEF Typed, SockType
<1>2. Free.use = "free" /\ Free.q = <<>>
  BY FreeTyped
<1>3. Serving => sock[Cur.fd].use = "ctl" /\ Peer \in Clients /\ Peer = sock[Cur.fd].peer /\ Cur.fd \in Fds
                 /\ Cur \in Open
  BY PeerIs, CurIs DEF With
<1>4. CASE Answers
  <2>1. PICK new \in ConnType : AnswersWith(new)
    BY <1>4 DEF Answers
  <2>2. SameFds /\ Distinct'
    BY <2>1, ListKept DEF AnswersWith
  <2>3. sock' = sock /\ Others /\ SameSelf(cl[Peer], cl'[Peer])
    BY <2>1 DEF AnswersWith
  <2>4. \A c \in Clients : cl'[c].ctl = cl[c].ctl
    BY <2>3 DEF Others, SameSelf
  <2> QED
    BY <2>2, <2>3, <2>4, UsesKept DEF Uses
<1>5. CASE Closes
  <2>1. conns' = conns /\ Others /\ SameSelf(cl[Peer], cl'[Peer])
        /\ \A f \in Fds : sock'[f] = IF Own /\ f = Pasv THEN Free ELSE sock[f]
    BY <1>5 DEF Closes
  <2>2. SameFds /\ Distinct'
    BY <2>1, ListKept
  <2>3. \A c \in Clients : cl'[c].ctl = cl[c].ctl
    BY <2>1 DEF Others, SameSelf
  <2>4. Own => sock[Pasv].use = "data"
    BY DEF Own
  <2> QED
    BY <1>2, <2>1, <2>2, <2>3, <2>4, UsesKept DEF Uses
<1>6. CASE Drops
  <2>1. Serving /\ Open' = Open \ {Cur} /\ Distinct' /\ Others
        /\ \A f \in Fds :
             sock'[f] = IF f = Cur.fd \/ (pc = "stor" /\ f = Pasv) THEN Free ELSE sock[f]
    BY <1>6 DEF Drops, Entries, Distinct
  <2>2. pc = "stor" => sock[Pasv].use = "data"
    BY <1>6 DEF Drops, Own
  <2>3. \A f \in Fds : sock'[f] = Free \/ sock'[f] = sock[f]
    BY <2>1
  <2>4. \A f \in Fds : sock'[f].use = "ctl" <=> sock[f].use = "ctl" /\ f # Cur.fd
    BY <1>2, <1>3, <2>1, <2>2
  <2>5. \A r, s \in Open : r.fd = s.fd => r = s
    BY OneEach
  <2>6. \A f \in Fds : sock'[f].use = "ctl" <=> \E r \in Open' : r.fd = f
    BY <1>3, <2>1, <2>4, <2>5 DEF Uses
  <2>7. \A f \in Fds : sock'[f].use = "ctl" => sock'[f].peer = sock[f].peer /\ sock[f].peer # Peer
                                              /\ sock[f].use = "ctl"
    <3>1. \A f \in Fds : sock'[f].use = "ctl" => sock'[f] = sock[f] /\ sock[f].use = "ctl" /\ f # Cur.fd
      BY <1>2, <2>3, <2>4
    <3> QED
      BY <1>3, <2>1, <3>1 DEF Uses
  <2>8. \A f \in Fds : sock'[f].use = "ctl" => cl'[sock'[f].peer].ctl \in {"open", "fin"}
    BY <2>1, <2>7 DEF Uses, Others
  <2>9. \A f \in Fds : sock'[f].use = "listen" <=> f = 0
    BY <1>2, <1>3, <2>1, <2>2 DEF Uses
  <2>10. /\ \A f \in Fds : sock'[f].use \in {"ctl", "data", "pl"} => sock'[f].peer \in Clients
         /\ \A f \in Fds : sock'[f].use \in {"free", "ctl", "data"} => sock'[f].q = <<>>
    BY <1>2, <2>3 DEF Uses
  <2>11. \A f, g \in Fds :
           sock'[f].use = "ctl" /\ sock'[g].use = "ctl" /\ sock'[f].peer = sock'[g].peer => f = g
    BY <2>7 DEF Uses
  <2> QED
    BY <2>1, <2>6, <2>8, <2>9, <2>10, <2>11 DEF Uses, Distinct
<1>7. CASE PortOpens
  <2>1. Serving /\ EntryTo(Entry(New)) /\ Entry(New) \in ConnType /\ Others /\ SameSelf(cl[Peer], cl'[Peer])
        /\ \A f \in Fds \ {New} : sock'[f] = sock[f]
    BY <1>7 DEF PortOpens, Remembers, EntryTo
  <2>2. New \in Fds /\ sock[New].use = "free" /\ sock'[New].use = "data" /\ sock'[New].peer = Peer
        /\ sock'[New].q = <<>>
    BY <1>7 DEF PortOpens, Takes
  <2>3. SameFds /\ Distinct'
    BY <2>1, ListKept
  <2>4. \A c \in Clients : cl'[c].ctl = cl[c].ctl
    BY <2>1 DEF Others, SameSelf
  <2> QED
    BY <1>3, <2>1, <2>2, <2>3, <2>4, UsesKept DEF Uses
<1>8. CASE Listens
  <2>1. Serving /\ conns' = conns /\ Others /\ SameSelf(cl[Peer], cl'[Peer])
        /\ \A f \in Fds \ {New} : sock'[f] = sock[f]
    BY <1>8 DEF Listens
  <2>2. New \in Fds /\ sock[New].use = "free" /\ sock'[New].use = "pl" /\ sock'[New].peer = Peer
        /\ sock'[New].q = <<>>
    BY <1>8 DEF Listens, Takes
  <2>3. SameFds /\ Distinct'
    BY <2>1, ListKept
  <2>4. \A c \in Clients : cl'[c].ctl = cl[c].ctl
    BY <2>1 DEF Others, SameSelf
  <2> QED
    BY <1>3, <2>1, <2>2, <2>3, <2>4, UsesKept DEF Uses
<1>9. CASE Joins
  <2>1. Serving /\ EntryTo(Entry(New)) /\ Entry(New) \in ConnType /\ cl' = cl /\ pc = "pasv"
        /\ sock[pl].q # <<>> /\ Head(sock[pl].q) # "abrt" /\ New # pl /\ sock'[pl] = Free
        /\ \A f \in Fds \ {pl, New} : sock'[f] = sock[f]
    BY <1>9 DEF Joins, Remembers, EntryTo
  <2>2. New \in Fds /\ sock[New].use = "free" /\ sock'[New].use = "data" /\ sock'[New].q = <<>>
        /\ sock'[New].peer = Head(sock[pl].q)
    BY <1>9 DEF Joins, Takes
  <2>3. SameFds /\ Distinct'
    BY <2>1, ListKept
  <2>4. pl \in Fds /\ sock[pl].use = "pl" /\ sock[pl].q \in Seq(Clients \cup {"abrt"})
    BY <2>1 DEF Listeners, Typed, SockType
  <2>5. Head(sock[pl].q) \in Clients
    BY <2>1, <2>4
  <2>6. \A f \in Fds : sock'[f].use = "ctl" <=> sock[f].use = "ctl"
    BY <1>2, <2>1, <2>2, <2>4
  <2> QED
    BY <1>2, <2>1, <2>2, <2>3, <2>4, <2>5, <2>6, UsesKept DEF Uses
<1>10. CASE JoinsNone
  <2>1. Serving /\ EntryTo(Entry(NoFd)) /\ Entry(NoFd) \in ConnType /\ Others /\ pc = "pasv"
        /\ sock'[pl].use = sock[pl].use /\ sock'[pl].peer = sock[pl].peer
        /\ \A f \in Fds \ {pl} : sock'[f] = sock[f]
    BY <1>10 DEF JoinsNone, Remembers, EntryTo
  <2>2. pl \in Fds /\ sock[pl].use = "pl"
    BY <2>1 DEF Listeners, Typed
  <2>3. SameFds /\ Distinct'
    BY <2>1, ListKept
  <2>4. \A c \in Clients : cl'[c].ctl = cl[c].ctl
    BY <1>10 DEF JoinsNone, Others, SameSelf
  <2> QED
    BY <2>1, <2>2, <2>3, <2>4, UsesKept DEF Uses
<1>11. CASE Begins \/ Moves
  <2>1. Serving /\ conns' = conns /\ Others /\ sock' = sock
    BY <1>11 DEF Begins, Moves, Stays
  <2>2. SameFds /\ Distinct'
    BY <2>1, ListKept
  <2>3. cl'[Peer].ctl = cl[Peer].ctl
    <3>1. cl[Peer] \in ClType
      BY <1>3, <2>1 DEF Typed
    <3> QED
      BY <1>11, <3>1 DEF Begins, Moves, ClType
  <2>4. \A c \in Clients : cl'[c].ctl = cl[c].ctl
    BY <2>1, <2>3 DEF Others
  <2> QED
    BY <2>1, <2>2, <2>4, UsesKept DEF Uses
<1>12. CASE Strays \/ Watches
  <2>1. conns' = conns /\ cl' = cl /\ sock' = sock
    BY <1>12 DEF Strays, Watches
  <2>2. SameFds /\ Distinct'
    BY <2>1, ListKept
  <2> QED
    BY <2>1, <2>2, UsesKept DEF Uses
<1>13. CASE AdmitsNone
  <2>1. conns' = conns /\ cl' = cl /\ sock'[0].use = sock[0].use /\ \A f \in Fds \ {0} : sock'[f] = sock[f]
    BY <1>13 DEF AdmitsNone
  <2>2. SameFds /\ Distinct'
    BY <2>1, ListKept
  <2>3. 0 \in Fds /\ sock[0].use = "listen"
    BY ListenerIn DEF Uses
  <2> QED
    BY <2>1, <2>2, <2>3, UsesKept DEF Uses
<1>14. CASE Admits
  <2>1. PICK new \in ConnType : AdmitsWith(new)
    BY <1>14 DEF Admits
  <2>2. /\ sock[0].q # <<>> /\ First \in Clients /\ sock'[0].use = sock[0].use /\ New # 0
        /\ \A f \in Fds \ {0, New} : sock'[f] = sock[f]
        /\ new.fd = New /\ Open' = Open \cup {new} /\ Distinct'
        /\ \A c \in Clients \ {First} : cl'[c] = cl[c]
        /\ cl'[First] = [cl[First] EXCEPT !.ctl = IF @ = "queued" THEN "open" ELSE @]
    BY <2>1 DEF AdmitsWith, Entries, Distinct
  <2>3. New \in Fds /\ sock[New].use = "free" /\ sock'[New].use = "ctl" /\ sock'[New].q = <<>>
        /\ sock'[New].peer = First
    BY <2>1 DEF AdmitsWith, Takes
  <2>4. 0 \in Fds /\ sock[0].use = "listen" /\ sock[0].q \in Seq(Clients \cup {"abrt"})
    BY ListenerIn DEF Uses, Typed, SockType
  <2>5. 1 \in DOMAIN sock[0].q /\ sock[0].q[1] = First /\ First # "abrt"
    BY <2>2, <2>4, ClientAssumption DEF First
  <2>6. cl[First] \in {[NewClient EXCEPT !.ctl = "queued"], [NewClient EXCEPT !.ctl = "fin"]}
        /\ \A f \in Fds : sock[f].use = "ctl" => sock[f].peer # First
    BY <2>5 DEF Queued
  <2>7. cl'[First].ctl \in {"open", "fin"}
    BY <2>2, <2>6 DEF NewClient
  <2>8. \A f \in Fds : sock'[f].use = "ctl" <=> sock[f].use = "ctl" \/ f = New
    BY <2>2, <2>3, <2>4
  <2>9. \A f \in Fds : sock'[f].use = "ctl" <=> \E r \in Open' : r.fd = f
    BY <2>2, <2>8 DEF Uses
  <2>10. \A f \in Fds : sock[f].use = "ctl" => sock'[f] = sock[f]
    BY <2>2, <2>3, <2>4
  <2>11. \A f, g \in Fds :
           sock'[f].use = "ctl" /\ sock'[g].use = "ctl" /\ sock'[f].peer = sock'[g].peer => f = g
    BY <2>3, <2>6, <2>8, <2>10 DEF Uses
  <2>12. \A f \in Fds : sock'[f].use = "ctl" => cl'[sock'[f].peer].ctl \in {"open", "fin"}
    <3>1. \A f \in Fds : sock[f].use = "ctl" =>
            sock'[f].peer = sock[f].peer /\ sock[f].peer \in Clients \ {First}
            /\ cl[sock[f].peer].ctl \in {"open", "fin"}
      BY <2>6, <2>10 DEF Uses
    <3>2. \A f \in Fds : sock[f].use = "ctl" => cl'[sock'[f].peer].ctl \in {"open", "fin"}
      BY <2>2, <3>1
    <3> QED
      BY <2>3, <2>7, <2>8, <3>2
  <2>13. \A f \in Fds : sock'[f].use = "listen" <=> f = 0
    BY <2>2, <2>3, <2>4 DEF Uses
  <2>14. /\ \A f \in Fds : sock'[f].use \in {"ctl", "data", "pl"} => sock'[f].peer \in Clients
         /\ \A f \in Fds : sock'[f].use \in {"free", "ctl", "data"} => sock'[f].q = <<>>
    BY <2>2, <2>3, <2>4 DEF Uses
  <2> QED
    BY <2>2, <2>9, <2>11, <2>12, <2>13, <2>14 DEF Uses, Distinct
<1> QED
  BY <1>4, <1>5, <1>6, <1>7, <1>8, <1>9, <1>10, <1>11, <1>12, <1>13, <1>14 DEF Serves

\* A step of a client leaves the server and the other clients alone.
LEMMA ActsAre == \A c \in Clients : Acts(c) => SameServer /\ AllBut(c)
<1> SUFFICES ASSUME NEW c \in Clients, Acts(c) PROVE SameServer /\ AllBut(c)
  OBVIOUS
<1>1. CASE Connects(c)
  BY <1>1 DEF Connects
<1>2. CASE JoinsBy(c)
  BY <1>2 DEF JoinsBy, JoinsAt
<1>3. CASE Streams(c)
  BY <1>3 DEF Streams
<1>4. CASE Leaves(c)
  BY <1>4 DEF Leaves
<1>5. CASE \E k \in Cmds, n \in 0 .. FileLen : Sends(c, k, n)
  BY <1>5 DEF Sends
<1> QED
  BY <1>1, <1>2, <1>3, <1>4, <1>5 DEF Acts

\* ... or of clients and volume.
LEMMA UsesActs ==
  ASSUME Typed, Uses, Idles \/ \E c \in Clients : Acts(c)
  PROVE  Uses'
<1>1. SameServer
  BY ActsAre DEF Idles
<1>2. SameFds /\ Distinct'
  BY <1>1, ListKept DEF SameServer
<1>3. CASE Idles
  BY <1>2, <1>3, UsesKept DEF Uses, Idles
<1>4. ASSUME NEW c \in Clients, Acts(c) PROVE Uses'
  <2>1. \A x \in Clients \ {c} : cl'[x] = cl[x]
    BY <1>4, ActsAre DEF AllBut
  <2>2. cl[c] \in ClType
    BY DEF Typed
  <2>3. cl[c].ctl \in {"open", "fin"} => cl'[c].ctl \in {"open", "fin"}
    <3>1. CASE Connects(c)
      BY <3>1 DEF Connects
    <3>2. CASE JoinsBy(c)
      BY <2>2, <3>2 DEF JoinsBy, JoinsAt, ClType
    <3>3. CASE Streams(c)
      BY <3>3 DEF Streams, SameSelf
    <3>4. CASE Leaves(c)
      BY <2>2, <3>4 DEF Leaves, ClType
    <3>5. CASE \E k \in Cmds, n \in 0 .. FileLen : Sends(c, k, n)
      BY <3>5 DEF Sends
    <3> QED
      BY <1>4, <3>1, <3>2, <3>3, <3>4, <3>5 DEF Acts
  <2>4. \A x \in Clients : cl[x].ctl \in {"open", "fin"} => cl'[x].ctl \in {"open", "fin"}
    BY <2>1, <2>3
  <2>5. /\ \A f \in Fds : sock'[f].use = sock[f].use
        /\ \A f \in Fds \ {0} : sock'[f].peer = sock[f].peer
        /\ \A f \in Fds : sock[f].use \notin {"listen", "pl"} => sock'[f] = sock[f]
    <3>1. CASE Connects(c)
      BY <3>1, ListenerIn DEF Connects, Uses
    <3>2. CASE JoinsBy(c)
      BY <3>2 DEF JoinsBy, JoinsAt
    <3>3. CASE sock' = sock
      BY <3>3
    <3> QED
      BY <1>4, <3>1, <3>2, <3>3 DEF Acts, Streams, Leaves, Sends
  <2> QED
    BY <1>2, <2>4, <2>5, UsesKept DEF Uses
<1> QED
  BY <1>3, <1>4

-----------------------------------------------------------------------------
(* The queue of accept.                                                    *)

\* Steps the server takes for the connection it is at.
Attends ==
  Answers \/ Closes \/ Drops \/ PortOpens \/ Listens \/ Joins \/ JoinsNone \/ Begins \/ Moves \/ Strays

\* They leave the other clients, the listener and their control sockets alone.
LEMMA AttendsAre ==
  ASSUME Typed, Uses, Listeners, Attends
  PROVE  /\ Serving /\ Others /\ sock'[0] = sock[0]
         /\ \A f \in Fds : sock'[f].use = "ctl" => sock'[f] = sock[f]
<1>1. 0 \in Fds /\ sock[0].use = "listen" /\ Free.use = "free"
  BY ListenerIn, FreeTyped DEF Uses
<1>2. CASE Answers
  BY <1>2 DEF Answers, AnswersWith
<1>3. CASE Closes
  <2>1. Own => sock[Pasv].use = "data"
    BY DEF Own
  <2> QED
    BY <1>1, <1>3, <2>1 DEF Closes
<1>4. CASE Drops
  <2>1. Serving /\ Others /\ (pc = "stor" => sock[Pasv].use = "data")
        /\ \A f \in Fds : sock'[f] = IF f = Cur.fd \/ (pc = "stor" /\ f = Pasv) THEN Free ELSE sock[f]
    BY <1>4 DEF Drops, Own
  <2>2. sock[Cur.fd].use = "ctl"
    BY <2>1, PeerIs
  <2> QED
    BY <1>1, <2>1, <2>2
<1>5. CASE PortOpens
  <2>1. Serving /\ Others /\ \A f \in Fds \ {New} : sock'[f] = sock[f]
    BY <1>5 DEF PortOpens
  <2>2. sock[New].use = "free" /\ sock'[New].use = "data"
    BY <1>5 DEF PortOpens, Takes
  <2> QED
    BY <1>1, <2>1, <2>2
<1>6. CASE Listens
  <2>1. Serving /\ Others /\ \A f \in Fds \ {New} : sock'[f] = sock[f]
    BY <1>6 DEF Listens
  <2>2. sock[New].use = "free" /\ sock'[New].use = "pl"
    BY <1>6 DEF Listens, Takes
  <2> QED
    BY <1>1, <2>1, <2>2
<1>7. CASE Joins
  <2>1. Serving /\ pc = "pasv" /\ Others /\ sock'[pl] = Free /\ \A f \in Fds \ {pl, New} : sock'[f] = sock[f]
    BY <1>7 DEF Joins, Others
  <2>2. sock[New].use = "free" /\ sock'[New].use = "data" /\ sock[pl].use = "pl"
    BY <1>7, <2>1 DEF Joins, Takes, Listeners
  <2> QED
    BY <1>1, <2>1, <2>2
<1>8. CASE JoinsNone
  <2>1. Serving /\ pc = "pasv" /\ Others /\ sock'[pl].use = sock[pl].use
        /\ \A f \in Fds \ {pl} : sock'[f] = sock[f]
    BY <1>8 DEF JoinsNone
  <2>2. sock[pl].use = "pl"
    BY <2>1 DEF Listeners
  <2> QED
    BY <1>1, <2>1, <2>2
<1>9. CASE Begins \/ Moves
  BY <1>9 DEF Begins, Moves, Stays
<1>10. CASE Strays
  BY <1>10 DEF Strays, Others
<1> QED
  BY <1>2, <1>3, <1>4, <1>5, <1>6, <1>7, <1>8, <1>9, <1>10 DEF Attends

\* Clients with the same fields are the same.
LEMMA SameRecord ==
  ASSUME NEW c \in ClType, NEW d \in ClType,
         c.ctl = d.ctl, c.cmd = d.cmd, c.doing = d.doing, c.wait = d.wait, c.rep = d.rep, 
         c.data = d.data, c.unread = d.unread, c.up = d.up, c.asked = d.asked, c.from = d.from,
         c.got = d.got, c.rested = d.rested
  PROVE  c = d
BY DEF ClType

\* A client that has left is a client.
LEMMA LeftTyped ==
  ASSUME NEW c \in ClType
  PROVE  [c EXCEPT !.ctl = "fin", !.wait = FALSE, !.data = "none"] \in ClType
BY DEF ClType

\* A client in the queue that leaves is one that has left.
LEMMA FreshLeaves ==
  ASSUME NEW x \in {"queued", "fin"}, NEW c, c = [NewClient EXCEPT !.ctl = x]
  PROVE  [c EXCEPT !.ctl = "fin", !.wait = FALSE, !.data = "none"] = [NewClient EXCEPT !.ctl = "fin"]
<1>1. c \in ClType /\ [NewClient EXCEPT !.ctl = "fin"] \in ClType /\ NewClient \in ClType
  BY NewClientTyped
<1>2. NewClient.wait = FALSE /\ NewClient.data = "none"
  BY DEF NewClient
<1> DEFINE d == [c EXCEPT !.ctl = "fin", !.wait = FALSE, !.data = "none"]
           e == [NewClient EXCEPT !.ctl = "fin"]
<1>3. d \in ClType
  BY <1>1, LeftTyped
<1>4. d.ctl = "fin" /\ d.wait = FALSE /\ d.data = "none"
      /\ d.cmd = NewClient.cmd /\ d.doing = NewClient.doing /\ d.rep = NewClient.rep
      /\ d.unread = NewClient.unread /\ d.up = NewClient.up /\ d.asked = NewClient.asked
      /\ d.from = NewClient.from /\ d.got = NewClient.got /\ d.rested = NewClient.rested
  BY <1>1 DEF ClType
<1>5. e.ctl = "fin" /\ e.wait = FALSE /\ e.data = "none"
      /\ e.cmd = NewClient.cmd /\ e.doing = NewClient.doing /\ e.rep = NewClient.rep
      /\ e.unread = NewClient.unread /\ e.up = NewClient.up /\ e.asked = NewClient.asked
      /\ e.from = NewClient.from /\ e.got = NewClient.got /\ e.rested = NewClient.rested
  BY <1>1, <1>2 DEF ClType
<1> HIDE DEF d
<1>6. e \in ClType
  BY <1>1
<1> HIDE DEF e
<1>7. d = e
  BY <1>3, <1>4, <1>5, <1>6, SameRecord
<1> QED
  BY <1>7 DEF d, e

\* A client in the queue: connected, or gone already.
Fresh == {[NewClient EXCEPT !.ctl = "queued"], [NewClient EXCEPT !.ctl = "fin"]}

\* A client in the queue of port 21 is new and has no control socket.
LEMMA QueuedIs ==
  ASSUME Typed, Uses, Queued, NEW i \in DOMAIN sock[0].q, sock[0].q[i] # "abrt"
  PROVE  /\ cl[sock[0].q[i]] \in Fresh /\ sock[0].q[i] \in Clients
         /\ \A f \in Fds : sock[f].use = "ctl" => sock[f].peer # sock[0].q[i]
<1>1. sock[0].q \in Seq(Clients \cup {"abrt"})
  BY ListenerIn DEF Typed, SockType
<1> QED
  BY <1>1 DEF Queued, Fresh

\* The queue stays as it is, ...
LEMMA QueuedKept ==
  ASSUME Typed, Uses, Queued, sock'[0].q = sock[0].q,
         \A f \in Fds : sock'[f].use = "ctl" => sock[f].use = "ctl" /\ sock'[f].peer = sock[f].peer,
         \A c \in Clients :
           cl[c] \in Fresh /\ (\A f \in Fds : sock[f].use = "ctl" => sock[f].peer # c) => cl'[c] \in Fresh
  PROVE  Queued'
<1>1. \A i \in DOMAIN sock[0].q : sock[0].q[i] # "abrt" =>
        /\ cl'[sock[0].q[i]] \in Fresh
        /\ \A f \in Fds : sock'[f].use = "ctl" => sock'[f].peer # sock[0].q[i]
  BY QueuedIs
<1> QED
  BY <1>1 DEF Queued, Fresh

\* ... loses its first, ...
LEMMA QueuedTail ==
  ASSUME Typed, Uses, Queued, sock[0].q # <<>>, sock'[0].q = Tail(sock[0].q),
         \A f \in Fds : sock'[f].use = "ctl" =>
           \/ sock'[f].peer = First /\ First # "abrt"
           \/ sock[f].use = "ctl" /\ sock'[f].peer = sock[f].peer,
         \A c \in Clients : c # First => cl'[c] = cl[c]
  PROVE  Queued'
<1>1. sock[0].q \in Seq(Clients \cup {"abrt"})
  BY ListenerIn DEF Typed, SockType
<1>2. /\ 1 \in DOMAIN sock[0].q /\ First = sock[0].q[1]
      /\ \A i \in DOMAIN sock'[0].q :
           i \in Nat /\ i + 1 \in DOMAIN sock[0].q /\ sock'[0].q[i] = sock[0].q[i + 1]
                                      /\ i + 1 # 1
  <2>1. DOMAIN Tail(sock[0].q) = 1 .. Len(sock[0].q) - 1 /\ Len(sock[0].q) \in Nat
    BY <1>1, TailGives
  <2> QED
    BY <1>1, <2>1, TailGives DEF First
<1>3. \A i \in DOMAIN sock'[0].q : sock'[0].q[i] # "abrt" =>
        /\ cl'[sock'[0].q[i]] \in Fresh
        /\ \A f \in Fds : sock'[f].use = "ctl" => sock'[f].peer # sock'[0].q[i]
        /\ \A j \in DOMAIN sock'[0].q : sock'[0].q[j] = sock'[0].q[i] => j = i
  <2> SUFFICES ASSUME NEW i \in DOMAIN sock'[0].q, sock'[0].q[i] # "abrt"
               PROVE  /\ cl'[sock'[0].q[i]] \in Fresh
                      /\ \A f \in Fds : sock'[f].use = "ctl" => sock'[f].peer # sock'[0].q[i]
                      /\ \A j \in DOMAIN sock'[0].q : sock'[0].q[j] = sock'[0].q[i] => j = i
    OBVIOUS
  <2>1. i + 1 \in DOMAIN sock[0].q /\ sock'[0].q[i] = sock[0].q[i + 1] /\ i + 1 # 1 /\ i \in Nat
    BY <1>2
  <2>2. cl[sock'[0].q[i]] \in Fresh /\ sock'[0].q[i] \in Clients
        /\ \A f \in Fds : sock[f].use = "ctl" => sock[f].peer # sock'[0].q[i]
    BY <2>1, QueuedIs
  <2>3. sock'[0].q[i] # First
    BY <1>2, <2>1 DEF Queued
  <2>4. \A j \in DOMAIN sock'[0].q : sock'[0].q[j] = sock'[0].q[i] => j = i
    <3> SUFFICES ASSUME NEW j \in DOMAIN sock'[0].q, sock'[0].q[j] = sock'[0].q[i] PROVE j = i
      OBVIOUS
    <3>1. j + 1 \in DOMAIN sock[0].q /\ sock'[0].q[j] = sock[0].q[j + 1] /\ j \in Nat
      BY <1>2
    <3>2. j + 1 = i + 1
      BY <2>1, <3>1 DEF Queued
    <3> QED
      BY <2>1, <3>1, <3>2
  <2> QED
    BY <2>2, <2>3, <2>4
<1> QED
  BY <1>3 DEF Queued, Fresh

\* ... or has one more.
LEMMA QueuedAppend ==
  ASSUME Typed, Uses, Queued, NEW x \in Clients \cup {"abrt"}, sock'[0].q = Append(sock[0].q, x),
         \A f \in Fds : sock'[f].use = "ctl" => sock[f].use = "ctl" /\ sock'[f].peer = sock[f].peer,
         x # "abrt" => cl'[x] = [NewClient EXCEPT !.ctl = "queued"],
         NEW c \in Clients, x \in {c, "abrt"}, cl[c].ctl = "none", AllBut(c)
  PROVE  Queued'
<1> DEFINE q == sock[0].q
<1>1. q \in Seq(Clients \cup {"abrt"}) /\ Len(q) \in Nat
  BY ListenerIn DEF Typed, SockType
<1>2. /\ DOMAIN sock'[0].q = DOMAIN q \cup {Len(q) + 1} /\ Len(q) + 1 \notin DOMAIN q
      /\ sock'[0].q[Len(q) + 1] = x /\ \A i \in DOMAIN q : sock'[0].q[i] = q[i]
  BY <1>1
<1>3. \A i \in DOMAIN q : q[i] # "abrt" =>
        /\ cl[q[i]] \in Fresh /\ q[i] \in Clients /\ q[i] # c
        /\ \A f \in Fds : sock[f].use = "ctl" => sock[f].peer # q[i]
  <2> SUFFICES ASSUME NEW i \in DOMAIN q, q[i] # "abrt"
               PROVE  /\ cl[q[i]] \in Fresh /\ q[i] \in Clients /\ q[i] # c
                      /\ \A f \in Fds : sock[f].use = "ctl" => sock[f].peer # q[i]
    OBVIOUS
  <2>1. cl[q[i]] \in Fresh
    BY QueuedIs
  <2>2. cl[q[i]].ctl # "none"
    BY <2>1 DEF Fresh, NewClient
  <2> QED
    BY <2>1, <2>2, QueuedIs
<1>4. \A f \in Fds : sock'[f].use = "ctl" => sock'[f].peer # c
  BY DEF Uses
<1>5. c # "abrt"
  BY ClientAssumption
<1>6. \A i, j \in DOMAIN q : q[i] # "abrt" /\ q[j] = q[i] => j = i
  BY DEF Queued
<1> HIDE DEF q
<1>7. \A i \in DOMAIN sock'[0].q : sock'[0].q[i] # "abrt" =>
        /\ cl'[sock'[0].q[i]] \in Fresh
        /\ \A f \in Fds : sock'[f].use = "ctl" => sock'[f].peer # sock'[0].q[i]
        /\ \A j \in DOMAIN sock'[0].q : sock'[0].q[j] = sock'[0].q[i] => j = i
  <2> SUFFICES ASSUME NEW i \in DOMAIN sock'[0].q, sock'[0].q[i] # "abrt"
               PROVE  /\ cl'[sock'[0].q[i]] \in Fresh
                      /\ \A f \in Fds : sock'[f].use = "ctl" => sock'[f].peer # sock'[0].q[i]
                      /\ \A j \in DOMAIN sock'[0].q : sock'[0].q[j] = sock'[0].q[i] => j = i
    OBVIOUS
  <2>1. CASE i \in DOMAIN q
    <3>1. sock'[0].q[i] = q[i] /\ q[i] # c /\ q[i] # "abrt" /\ q[i] \in Clients /\ cl[q[i]] \in Fresh
      BY <1>2, <1>3, <2>1
    <3>2. cl'[q[i]] = cl[q[i]]
      BY <3>1 DEF AllBut
    <3>3. \A j \in DOMAIN sock'[0].q : sock'[0].q[j] = sock'[0].q[i] => j = i
      BY <1>2, <1>6, <2>1, <3>1
    <3> QED
      BY <1>3, <2>1, <3>1, <3>2, <3>3
  <2>2. CASE i = Len(q) + 1
    <3>1. sock'[0].q[i] = x /\ x = c
      BY <1>2, <2>2
    <3>2. \A j \in DOMAIN sock'[0].q : sock'[0].q[j] = c => j = i
      BY <1>2, <1>3, <1>5, <2>2
    <3> QED
      BY <1>4, <3>1, <3>2 DEF Fresh
  <2> QED
    BY <1>2, <2>1, <2>2
<1> QED
  BY <1>7 DEF Queued, Fresh

\* Every step keeps the clients in the queue new.
LEMMA QueuedDoes ==
  ASSUME Typed, Uses, Queued, Listeners, Serves \/ Idles \/ \E c \in Clients : Acts(c)
  PROVE  Queued'
<1>0. 0 \in Fds /\ sock[0].use = "listen"
  BY ListenerIn DEF Uses
<1>1. CASE Attends
  <2>1. /\ Serving /\ Others /\ sock'[0] = sock[0]
        /\ \A f \in Fds : sock'[f].use = "ctl" => sock'[f] = sock[f]
    BY <1>1, AttendsAre
  <2>2. Peer = sock[Cur.fd].peer /\ sock[Cur.fd].use = "ctl" /\ Cur.fd \in Fds
    BY <2>1, PeerIs, CurIs DEF Peer
  <2>3. \A c \in Clients :
          cl[c] \in Fresh /\ (\A f \in Fds : sock[f].use = "ctl" => sock[f].peer # c) => cl'[c] \in Fresh
    BY <2>1, <2>2 DEF Others
  <2> QED
    BY <2>1, <2>3, QueuedKept
<1>2. CASE Watches \/ Idles
  <2>1. sock' = sock /\ cl' = cl
    BY <1>2 DEF Watches, Idles
  <2> QED
    BY <2>1, QueuedKept
<1>3. CASE AdmitsNone
  <2>1. sock[0].q # <<>> /\ sock'[0].q = Tail(sock[0].q) /\ cl' = cl /\ sock'[0].use = sock[0].use
        /\ \A f \in Fds \ {0} : sock'[f] = sock[f]
    BY <1>3 DEF AdmitsNone
  <2>2. \A f \in Fds : sock'[f].use = "ctl" => sock[f].use = "ctl" /\ sock'[f].peer = sock[f].peer
    BY <1>0, <2>1
  <2> QED
    BY <2>1, <2>2, QueuedTail
<1>4. CASE Admits
  <2>1. PICK new \in ConnType : AdmitsWith(new)
    BY <1>4 DEF Admits
  <2>2. /\ sock[0].q # <<>> /\ First \in Clients /\ sock'[0].use = sock[0].use /\ New # 0
        /\ sock'[0].q = Tail(sock[0].q) /\ \A f \in Fds \ {0, New} : sock'[f] = sock[f]
        /\ \A c \in Clients \ {First} : cl'[c] = cl[c]
    BY <2>1 DEF AdmitsWith
  <2>3. New \in Fds /\ sock'[New].peer = First
    BY <2>1 DEF AdmitsWith, Takes
  <2>4. \A f \in Fds : sock'[f].use = "ctl" =>
           \/ sock'[f].peer = First /\ First # "abrt"
           \/ sock[f].use = "ctl" /\ sock'[f].peer = sock[f].peer
    BY <1>0, <2>2, <2>3, ClientAssumption
  <2> QED
    BY <2>2, <2>4, QueuedTail
<1>5. ASSUME NEW c \in Clients, Acts(c) PROVE Queued'
  <2>1. CASE Connects(c)
    <3>1. cl[c].ctl = "none" /\ AllBut(c) /\ sock'[0].use = sock[0].use
          /\ \A f \in Fds \ {0} : sock'[f] = sock[f]
      BY <2>1 DEF Connects
    <3>2. \A f \in Fds : sock'[f].use = "ctl" => sock[f].use = "ctl" /\ sock'[f].peer = sock[f].peer
      BY <1>0, <3>1
    <3>3. CASE sock'[0].q = Append(sock[0].q, c) /\ cl'[c] = [NewClient EXCEPT !.ctl = "queued"]
      BY <3>1, <3>2, <3>3, QueuedAppend
    <3>4. CASE sock'[0].q = Append(sock[0].q, "abrt")
      BY <3>1, <3>2, <3>4, QueuedAppend
    <3> QED
      BY <2>1, <3>3, <3>4 DEF Connects
  <2>2. CASE ~Connects(c)
    <3>1. \A x \in Clients \ {c} : cl'[x] = cl[x]
      BY <1>5, ActsAre DEF AllBut
    <3>2. CASE JoinsBy(c)
      <4>1. PICK f \in Fds : JoinsAt(c, f)
        BY <3>2 DEF JoinsBy
      <4>2. sock[f].use = "pl" /\ sock'[f].use = sock[f].use /\ cl[c].ctl = "open"
            /\ \A g \in Fds \ {f} : sock'[g] = sock[g]
        BY <4>1 DEF JoinsAt
      <4>3. cl[c] \notin Fresh
        BY <4>2 DEF Fresh, NewClient
      <4> QED
        BY <1>0, <3>1, <4>2, <4>3, QueuedKept
    <3>3. CASE Streams(c)
      <4>1. cl[c].data = "open" /\ sock' = sock
        BY <3>3 DEF Streams
      <4>2. cl[c] \notin Fresh
        BY <4>1 DEF Fresh, NewClient
      <4> QED
        BY <3>1, <4>1, <4>2, QueuedKept
    <3>4. CASE Leaves(c)
      <4>1. sock' = sock
            /\ cl'[c] = [cl[c] EXCEPT !.ctl = "fin", !.wait = FALSE, !.data = IF @ = "open" THEN "fin" ELSE @]
        BY <3>4 DEF Leaves
      <4>2. cl[c] \in Fresh => cl'[c] \in Fresh
        <5> SUFFICES ASSUME cl[c] \in Fresh PROVE cl'[c] \in Fresh
          OBVIOUS
        <5>1. PICK x \in {"queued", "fin"} : cl[c] = [NewClient EXCEPT !.ctl = x]
          BY DEF Fresh
        <5>2. cl[c].data = "none"
          BY <5>1 DEF NewClient
        <5>3. cl'[c] = [cl[c] EXCEPT !.ctl = "fin", !.wait = FALSE, !.data = "none"]
          BY <4>1, <5>2
        <5>4. cl'[c] = [NewClient EXCEPT !.ctl = "fin"]
          BY <5>1, <5>3, FreshLeaves
        <5> QED
          BY <5>4 DEF Fresh
      <4> QED
        BY <3>1, <4>1, <4>2, QueuedKept
    <3>5. CASE \E k \in Cmds, n \in 0 .. FileLen : Sends(c, k, n)
      <4>1. sock' = sock /\ cl[c].ctl = "open"
        BY <3>5 DEF Sends
      <4>2. cl[c] \notin Fresh
        BY <4>1 DEF Fresh, NewClient
      <4> QED
        BY <3>1, <4>1, <4>2, QueuedKept
    <3> QED
      BY <1>5, <2>2, <3>2, <3>3, <3>4, <3>5 DEF Acts
  <2> QED
    BY <2>1, <2>2
<1> QED
  BY <1>1, <1>2, <1>3, <1>4, <1>5 DEF Serves, Attends

-----------------------------------------------------------------------------
(* The listeners of PASV.                                                  *)

\* A step after which no PASV is served, and no listener is new or gone.
LEMMA ListenersKept ==
  ASSUME Typed, Uses, Listeners, pc' # "pasv",
         \A f \in Fds : (sock'[f].use = "pl" \/ sock[f].use = "pl") => sock'[f] = sock[f],
         \A c \in Clients : cl'[c].rep = "227" => cl[c].rep = "227"
  PROVE  Listeners'
<1>1. \A f \in Fds : sock'[f].use = "pl" =>
        \A i \in DOMAIN sock'[f].q : sock'[f].q[i] \in {"abrt", sock'[f].peer}
  BY DEF Listeners
<1>2. \A f, g \in Fds :
       sock'[f].use = "pl" /\ sock'[g].use = "pl" /\ sock'[f].port /\ sock'[g].port => f = g
  BY DEF Listeners
<1>3. \A c \in Clients : cl'[c].rep = "227" =>
        \E f \in Fds : sock'[f].use = "pl" /\ sock'[f].port /\ sock'[f].peer = c
  BY DEF Listeners
<1> QED
  BY <1>1, <1>2, <1>3 DEF Listeners

\* The server at any other work for the connection it is at.
LEMMA ListenersAttends ==
  ASSUME Typed, Uses, Listeners, Answers \/ Closes \/ Drops \/ PortOpens \/ Begins \/ Moves \/ Strays
  PROVE  Listeners'
<1>0. Free.use = "free" /\ NewClient.rep = "none"
  BY FreeTyped DEF NewClient
<1>1. Serving /\ Peer \in Clients /\ cl[Peer] \in ClType /\ \A c \in Clients \ {Peer} : cl'[c] = cl[c]
  <2>1. Serving /\ Others
    BY AttendsAre DEF Attends
  <2> QED
    BY <2>1, PeerIs DEF Others, Typed
<1>2. CASE Answers
  <2>1. pc' # "pasv" /\ sock' = sock /\ cl'[Peer].rep # "227"
    BY <1>2 DEF Answers, AnswersWith, Goes, AnsweredAs
  <2> QED
    BY <1>1, <2>1, ListenersKept
<1>3. CASE Closes
  <2>1. pc' # "pasv" /\ \A f \in Fds : sock'[f] = IF Own /\ f = Pasv THEN Free ELSE sock[f]
    BY <1>3 DEF Closes, Goes
  <2>2. Own => sock[Pasv].use = "data"
    BY DEF Own
  <2>3. cl'[Peer].rep = "227" => cl[Peer].rep = "227"
    BY <1>3 DEF Closes, SameTalk, AnsweredAs
  <2>4. \A f \in Fds : (sock'[f].use = "pl" \/ sock[f].use = "pl") => sock'[f] = sock[f]
    BY <1>0, <2>1, <2>2
  <2> QED
    BY <1>1, <2>1, <2>3, <2>4, ListenersKept
<1>4. CASE Drops
  <2>1. pc' # "pasv" /\ (pc = "stor" => sock[Pasv].use = "data") /\ cl'[Peer].rep = "none"
        /\ \A f \in Fds : sock'[f] = IF f = Cur.fd \/ (pc = "stor" /\ f = Pasv) THEN Free ELSE sock[f]
    BY <1>0, <1>4 DEF Drops, Goes, Own
  <2>2. sock[Cur.fd].use = "ctl"
    BY <1>1, PeerIs
  <2>3. \A f \in Fds : (sock'[f].use = "pl" \/ sock[f].use = "pl") => sock'[f] = sock[f]
    BY <1>0, <2>1, <2>2
  <2> QED
    BY <1>1, <2>1, <2>3, ListenersKept
<1>5. CASE PortOpens
  <2>1. pc' # "pasv" /\ cl'[Peer].rep = "200" /\ \A f \in Fds \ {New} : sock'[f] = sock[f]
    BY <1>5 DEF PortOpens, Goes, AnsweredAs
  <2>2. sock[New].use = "free" /\ sock'[New].use = "data"
    BY <1>5 DEF PortOpens, Takes
  <2>3. \A f \in Fds : (sock'[f].use = "pl" \/ sock[f].use = "pl") => sock'[f] = sock[f]
    BY <2>1, <2>2
  <2> QED
    BY <1>1, <2>1, <2>3, ListenersKept
<1>6. CASE Begins \/ Moves
  <2>1. pc' # "pasv" /\ sock' = sock
    BY <1>6 DEF Begins, Moves, Stays
  <2>2. cl'[Peer].rep = cl[Peer].rep
    BY <1>1, <1>6 DEF Begins, Moves, ClType
  <2> QED
    BY <1>1, <2>1, <2>2, ListenersKept
<1>7. CASE Strays
  <2>1. pc' # "pasv" /\ sock' = sock /\ cl' = cl
    BY <1>7 DEF Strays
  <2> QED
    BY <2>1, ListenersKept
<1> QED
  BY <1>2, <1>3, <1>4, <1>5, <1>6, <1>7

\* PASV.
LEMMA ListenersListens ==
  ASSUME Typed, Uses, Listeners, Listens
  PROVE  Listeners'
<1>1. /\ pc' = "pasv" /\ Others /\ pl' = New /\ (sock'[New].port <=> ~PortBusy)
      /\ \A f \in Fds \ {New} : sock'[f] = sock[f]
      /\ conns' = conns /\ left' = left /\ Serving
      /\ cl'[Peer].rep = IF PortBusy THEN "425" ELSE "227"
  BY DEF Listens, AnsweredAs
<1>2. New \in Fds /\ sock[New].use = "free" /\ sock'[New].use = "pl" /\ sock'[New].peer = Peer
      /\ sock'[New].q = <<>>
  BY DEF Listens, Takes
<1>3. Cur' = Cur /\ Cur.fd \in Fds /\ sock[Cur.fd].use = "ctl" /\ Peer = sock[Cur.fd].peer /\ Peer \in Clients
  BY <1>1, SameTurn, PeerIs, CurIs DEF Peer
<1>4. Peer' = Peer
  BY <1>1, <1>2, <1>3 DEF Peer
<1>5. \A f \in Fds : sock[f].port => PortBusy
  BY DEF PortBusy
<1>6. \A f \in Fds : sock'[f].use = "pl" =>
        \A i \in DOMAIN sock'[f].q : sock'[f].q[i] \in {"abrt", sock'[f].peer}
  BY <1>1, <1>2 DEF Listeners
<1>7. \A f, g \in Fds :
       sock'[f].use = "pl" /\ sock'[g].use = "pl" /\ sock'[f].port /\ sock'[g].port => f = g
  BY <1>1, <1>5 DEF Listeners
<1>8. \A c \in Clients : cl'[c].rep = "227" =>
        \E f \in Fds : sock'[f].use = "pl" /\ sock'[f].port /\ sock'[f].peer = c
  <2> SUFFICES ASSUME NEW c \in Clients, cl'[c].rep = "227"
               PROVE  \E f \in Fds : sock'[f].use = "pl" /\ sock'[f].port /\ sock'[f].peer = c
    OBVIOUS
  <2>1. CASE c = Peer
    BY <1>1, <1>2, <2>1
  <2>2. CASE c # Peer
    <3>1. PICK f \in Fds : sock[f].use = "pl" /\ sock[f].port /\ sock[f].peer = c
      BY <1>1, <2>2 DEF Others, Listeners
    <3>2. f # New
      BY <1>2, <3>1
    <3> QED
      BY <1>1, <3>1, <3>2
  <2> QED
    BY <2>1, <2>2
<1> QED
  BY <1>1, <1>2, <1>4, <1>6, <1>7, <1>8 DEF Listeners

\* PASV is answered: the listener is closed, or keeps its queue but for the first.
LEMMA ListenersJoins ==
  ASSUME Typed, Uses, Listeners, Joins \/ JoinsNone
  PROVE  Listeners'
<1>0. Free.use = "free" /\ pc = "pasv" /\ Serving /\ pl \in Fds /\ sock[pl].use = "pl" /\ sock[pl].peer = Peer
      /\ sock[pl].q # <<>> /\ cl[Peer].rep # "227" /\ pc' # "pasv"
  BY FreeTyped DEF Joins, JoinsNone, Goes, Listeners, Typed
<1>1. \A f \in Fds : sock'[f].use = "pl" =>
        sock[f].use = "pl" /\ sock'[f].port = sock[f].port /\ sock'[f].peer = sock[f].peer
        /\ (sock'[f].q = sock[f].q \/ (sock[f].q # <<>> /\ sock'[f].q = Tail(sock[f].q)))
  <2>1. CASE Joins
    BY <1>0, <2>1 DEF Joins, Takes
  <2>2. CASE JoinsNone
    BY <1>0, <2>2 DEF JoinsNone
  <2> QED
    BY <2>1, <2>2
<1>2. \A f \in Fds : sock[f].use = "pl" /\ f # pl => sock'[f] = sock[f]
  BY DEF Joins, JoinsNone, Takes
<1>3. \A c \in Clients : cl'[c].rep = "227" => cl[c].rep = "227" /\ c # Peer
  <2>1. CASE Joins
    BY <1>0, <2>1 DEF Joins
  <2>2. CASE JoinsNone
    <3>1. cl'[Peer].rep # "227" /\ \A c \in Clients \ {Peer} : cl'[c] = cl[c]
      BY <1>0, <2>2 DEF JoinsNone, Others, AnsweredAs
    <3> QED
      BY <3>1
  <2> QED
    BY <2>1, <2>2
<1>4. \A f \in Fds : sock'[f].use = "pl" =>
        \A i \in DOMAIN sock'[f].q : sock'[f].q[i] \in {"abrt", sock'[f].peer}
  <2> SUFFICES ASSUME NEW f \in Fds, sock'[f].use = "pl", NEW i \in DOMAIN sock'[f].q
               PROVE  sock'[f].q[i] \in {"abrt", sock'[f].peer}
    OBVIOUS
  <2>1. \E j \in DOMAIN sock[f].q : sock'[f].q[i] = sock[f].q[j]
    <3>1. CASE sock'[f].q = sock[f].q
      BY <3>1
    <3>2. CASE sock[f].q # <<>> /\ sock'[f].q = Tail(sock[f].q)
      <4>1. sock[f].q \in Seq(Clients \cup {"abrt"})
        BY DEF Typed, SockType
      <4>2. i + 1 \in DOMAIN sock[f].q /\ sock'[f].q[i] = sock[f].q[i + 1]
        BY <3>2, <4>1, TailGives
      <4> QED
        BY <4>2
    <3> QED
      BY <1>1, <3>1, <3>2
  <2> QED
    BY <1>1, <2>1 DEF Listeners
<1>5. \A f, g \in Fds :
       sock'[f].use = "pl" /\ sock'[g].use = "pl" /\ sock'[f].port /\ sock'[g].port => f = g
  BY <1>1 DEF Listeners
<1>6. \A c \in Clients : cl'[c].rep = "227" =>
        \E f \in Fds : sock'[f].use = "pl" /\ sock'[f].port /\ sock'[f].peer = c
  BY <1>0, <1>2, <1>3 DEF Listeners
<1> QED
  BY <1>0, <1>4, <1>5, <1>6 DEF Listeners

\* A step of somebody else.
LEMMA ListenersSame ==
  ASSUME Typed, Uses, Listeners, pc' = "pasv" => pc = "pasv" /\ pl' = pl /\ Cur' = Cur,
         \A f \in Fds : sock'[f].use = "pl" \/ sock[f].use \in {"pl", "ctl"} => sock'[f] = sock[f],
         \A c \in Clients : cl'[c].rep = "227" => cl[c].rep = "227"
  PROVE  Listeners'
<1>1. \A f \in Fds : sock'[f].use = "pl" \/ sock[f].use = "pl" => sock'[f] = sock[f]
  OBVIOUS
<1>2. \A f \in Fds : sock'[f].use = "pl" =>
        \A i \in DOMAIN sock'[f].q : sock'[f].q[i] \in {"abrt", sock'[f].peer}
  BY <1>1 DEF Listeners
<1>3. \A f, g \in Fds :
       sock'[f].use = "pl" /\ sock'[g].use = "pl" /\ sock'[f].port /\ sock'[g].port => f = g
  BY <1>1 DEF Listeners
<1>4. \A c \in Clients : cl'[c].rep = "227" =>
        \E f \in Fds : sock'[f].use = "pl" /\ sock'[f].port /\ sock'[f].peer = c
  BY <1>1 DEF Listeners
<1>5. pc' = "pasv" => /\ sock'[pl'].use = "pl" /\ sock'[pl'].peer = Peer'
                      /\ sock'[pl'].q # <<>> => cl'[Peer'].rep # "227"
  <2> SUFFICES ASSUME pc' = "pasv"
               PROVE  /\ sock'[pl'].use = "pl" /\ sock'[pl'].peer = Peer'
                      /\ sock'[pl'].q # <<>> => cl'[Peer'].rep # "227"
    OBVIOUS
  <2>1. pc = "pasv" /\ pl' = pl /\ Cur' = Cur /\ pl \in Fds /\ Serving /\ sock[pl].use = "pl"
    BY DEF Typed, Serving, Listeners
  <2>2. sock'[pl] = sock[pl] /\ sock[Cur.fd].use = "ctl" /\ Cur.fd \in Fds /\ Peer \in Clients
    BY <1>1, <2>1, PeerIs, CurIs
  <2>3. Peer' = Peer
    BY <2>1, <2>2 DEF Peer
  <2> QED
    BY <2>1, <2>2, <2>3 DEF Listeners
<1> QED
  BY <1>2, <1>3, <1>4, <1>5 DEF Listeners

\* A client connects to the listener of its own PASV: no other has the port.
LEMMA ListenersJoinsBy ==
  ASSUME Typed, Typed', Uses, Listeners, NEW c \in Clients, JoinsBy(c)
  PROVE  /\ Listeners'
         /\ \E f \in Fds : JoinsAt(c, f) /\ sock[f].peer = c
<1>1. PICK f \in Fds : JoinsAt(c, f)
  BY DEF JoinsBy
<1>2. /\ conns' = conns /\ left' = left /\ pc' = pc /\ pl' = pl /\ Cur' = Cur /\ AllBut(c)
      /\ cl[c].ctl = "open" /\ cl[c].rep = "227" /\ sock[f].use = "pl" /\ sock[f].port
      /\ sock'[f].use = sock[f].use /\ sock'[f].peer = sock[f].peer /\ sock'[f].port = sock[f].port
      /\ \A g \in Fds \ {f} : sock'[g] = sock[g]
  BY <1>1 DEF JoinsAt, SameServer
<1>3. PICK x \in {c, "abrt"} : sock'[f].q = Append(sock[f].q, x)
  BY <1>1 DEF JoinsAt
<1>4. sock[f].peer = c
  BY <1>2 DEF Listeners
<1>5. cl'[c].rep = "none"
  <2>1. cl[c] \in ClType
    BY DEF Typed
  <2> QED
    BY <1>1, <2>1 DEF JoinsAt, ClType
<1>6. \A g \in Fds :
        sock'[g].use = sock[g].use /\ sock'[g].peer = sock[g].peer /\ sock'[g].port = sock[g].port
  BY <1>2
<1>7. \A g \in Fds : sock'[g].use = "pl" =>
        \A i \in DOMAIN sock'[g].q : sock'[g].q[i] \in {"abrt", sock'[g].peer}
  <2> SUFFICES ASSUME NEW g \in Fds, sock'[g].use = "pl", NEW i \in DOMAIN sock'[g].q
               PROVE  sock'[g].q[i] \in {"abrt", sock'[g].peer}
    OBVIOUS
  <2>1. CASE g = f
    <3>1. sock[f].q \in Seq(Clients \cup {"abrt"})
      BY DEF Typed, SockType
    <3>2. sock'[f].q[i] = x \/ (i \in DOMAIN sock[f].q /\ sock'[f].q[i] = sock[f].q[i])
      BY <1>3, <2>1, <3>1
    <3> QED
      BY <1>2, <1>3, <1>4, <2>1, <3>2 DEF Listeners
  <2>2. CASE g # f
    BY <1>2, <2>2 DEF Listeners
  <2> QED
    BY <2>1, <2>2
<1>8. \A g, h \in Fds :
       sock'[g].use = "pl" /\ sock'[h].use = "pl" /\ sock'[g].port /\ sock'[h].port => g = h
  BY <1>6 DEF Listeners
<1>9. \A y \in Clients : cl'[y].rep = "227" => cl[y].rep = "227" /\ y # c /\ cl'[y] = cl[y]
  BY <1>2, <1>5 DEF AllBut
<1>10. \A y \in Clients : cl'[y].rep = "227" =>
        \E g \in Fds : sock'[g].use = "pl" /\ sock'[g].port /\ sock'[g].peer = y
  BY <1>6, <1>9 DEF Listeners
<1>11. pc' = "pasv" => /\ sock'[pl'].use = "pl" /\ sock'[pl'].peer = Peer'
                       /\ sock'[pl'].q # <<>> => cl'[Peer'].rep # "227"
  <2> SUFFICES ASSUME pc' = "pasv"
               PROVE  /\ sock'[pl'].use = "pl" /\ sock'[pl'].peer = Peer'
                      /\ sock'[pl'].q # <<>> => cl'[Peer'].rep # "227"
    OBVIOUS
  <2>1. pc = "pasv" /\ pl' = pl /\ Cur' = Cur /\ pl \in Fds /\ Serving /\ sock[pl].use = "pl"
        /\ sock[pl].peer = Peer
    BY <1>2 DEF Typed, Serving, Listeners
  <2>2. Cur.fd \in Fds /\ Peer \in Clients
    BY <2>1, PeerIs, CurIs
  <2>3. Peer' = Peer
    BY <1>6, <2>1, <2>2 DEF Peer
  <2>4. cl'[Peer].rep = "227" => sock'[pl] = sock[pl]
    BY <1>2, <1>4, <1>5, <2>1
  <2> QED
    BY <1>6, <1>9, <2>1, <2>2, <2>3, <2>4 DEF Listeners
<1> QED
  BY <1>1, <1>4, <1>7, <1>8, <1>10, <1>11 DEF Listeners

\* Every step keeps the listeners of PASV apart.
LEMMA ListenersDoes ==
  ASSUME Typed, Typed', Uses, Listeners, Serves \/ Idles \/ \E c \in Clients : Acts(c)
  PROVE  Listeners'
<1>0. 0 \in Fds /\ sock[0].use = "listen"
  BY ListenerIn DEF Uses
<1>1. CASE Answers \/ Closes \/ Drops \/ PortOpens \/ Begins \/ Moves \/ Strays
  BY <1>1, ListenersAttends
<1>2. CASE Listens
  BY <1>2, ListenersListens
<1>3. CASE Joins \/ JoinsNone
  BY <1>3, ListenersJoins
<1>4. CASE Watches
  <2>1. sock' = sock /\ cl' = cl /\ pc' # "pasv"
    BY <1>4 DEF Watches
  <2> QED
    BY <2>1, ListenersSame
<1>5. CASE AdmitsNone
  <2>1. pc' # "pasv" /\ cl' = cl /\ sock'[0].use = sock[0].use /\ \A f \in Fds \ {0} : sock'[f] = sock[f]
    BY <1>5 DEF AdmitsNone
  <2> QED
    BY <1>0, <2>1, ListenersSame
<1>6. CASE Admits
  <2>1. PICK new \in ConnType : AdmitsWith(new)
    BY <1>6 DEF Admits
  <2>2. /\ sock[0].q # <<>> /\ First \in Clients /\ sock'[0].use = sock[0].use /\ New # 0
        /\ pc' # "pasv" /\ \A f \in Fds \ {0, New} : sock'[f] = sock[f]
        /\ \A c \in Clients \ {First} : cl'[c] = cl[c]
        /\ cl'[First] = [cl[First] EXCEPT !.ctl = IF @ = "queued" THEN "open" ELSE @]
    BY <2>1 DEF AdmitsWith
  <2>3. New \in Fds /\ sock[New].use = "free" /\ sock'[New].use = "ctl"
    BY <2>1 DEF AdmitsWith, Takes
  <2>4. cl'[First].rep = cl[First].rep
    <3>1. cl[First] \in ClType
      BY <2>2 DEF Typed
    <3> QED
      BY <2>2, <3>1 DEF ClType
  <2>5. \A f \in Fds : sock'[f].use = "pl" \/ sock[f].use \in {"pl", "ctl"} => sock'[f] = sock[f]
    BY <1>0, <2>2, <2>3
  <2> QED
    BY <2>2, <2>4, <2>5, ListenersSame
<1>7. CASE Idles
  <2>1. sock' = sock /\ cl' = cl /\ pc' = pc /\ pl' = pl /\ Cur' = Cur
    BY <1>7 DEF Idles, SameServer
  <2> QED
    BY <2>1, ListenersSame
<1>8. ASSUME NEW c \in Clients, Acts(c) PROVE Listeners'
  <2>1. pc' = pc /\ pl' = pl /\ Cur' = Cur /\ \A x \in Clients \ {c} : cl'[x] = cl[x]
    BY <1>8, ActsAre DEF SameServer, AllBut
  <2>2. cl[c] \in ClType
    BY DEF Typed
  <2>3. CASE JoinsBy(c)
    BY <2>3, ListenersJoinsBy
  <2>4. CASE Connects(c)
    <3>1. cl'[c] = NewClient \/ cl'[c] = [NewClient EXCEPT !.ctl = "queued"]
      BY <2>4 DEF Connects
    <3>2. cl'[c].rep = "none"
      BY <3>1 DEF NewClient
    <3>3. sock'[0].use = sock[0].use /\ \A f \in Fds \ {0} : sock'[f] = sock[f]
      BY <2>4 DEF Connects
    <3> QED
      BY <1>0, <2>1, <3>2, <3>3, ListenersSame
  <2>5. CASE Streams(c)
    BY <2>1, <2>5, ListenersSame DEF Streams, SameTalk
  <2>6. CASE Leaves(c)
    <3>1. sock' = sock /\ cl'[c].rep = cl[c].rep
      BY <2>2, <2>6 DEF Leaves, ClType
    <3> QED
      BY <2>1, <3>1, ListenersSame
  <2>7. CASE \E k \in Cmds, n \in 0 .. FileLen : Sends(c, k, n)
    <3>1. sock' = sock /\ cl'[c].rep = "none"
      BY <2>7 DEF Sends
    <3> QED
      BY <2>1, <3>1, ListenersSame
  <2> QED
    BY <1>8, <2>3, <2>4, <2>5, <2>6, <2>7 DEF Acts
<1> QED
  BY <1>1, <1>2, <1>3, <1>4, <1>5, <1>6, <1>7, <1>8 DEF Serves

-----------------------------------------------------------------------------
(* What clients know of their commands.                                    *)

\* A step of a client, or of the volume, does not move the loop.
LEMMA TurnKept ==
  ASSUME Typed, Uses, Idles \/ \E c \in Clients : Acts(c)
  PROVE  /\ SameServer /\ \A f \in Fds : sock'[f].use = sock[f].use
         /\ \A f \in Fds : sock[f].use \notin {"listen", "pl"} => sock'[f] = sock[f]
         /\ Serving => Peer' = Peer /\ Pasv' = Pasv /\ Own' = Own
<1>1. SameServer
  BY ActsAre DEF Idles
<1>2. /\ \A f \in Fds : sock'[f].use = sock[f].use
      /\ \A f \in Fds : sock[f].use \notin {"listen", "pl"} => sock'[f] = sock[f]
  <2>1. CASE \E c \in Clients : Connects(c)
    BY <2>1, ListenerIn DEF Connects, Uses
  <2>2. CASE \E c \in Clients : JoinsBy(c)
    BY <2>2 DEF JoinsBy, JoinsAt
  <2>3. CASE sock' = sock
    BY <2>3
  <2>4. CASE Idles
    BY <2>3, <2>4 DEF Idles
  <2>5. ASSUME NEW c \in Clients, Acts(c), ~Connects(c), ~JoinsBy(c) PROVE sock' = sock
    <3>1. CASE Streams(c)
      BY <3>1 DEF Streams
    <3>2. CASE Leaves(c)
      BY <3>2 DEF Leaves
    <3>3. CASE \E k \in Cmds, n \in 0 .. FileLen : Sends(c, k, n)
      BY <3>3 DEF Sends
    <3> QED
      BY <2>5, <3>1, <3>2, <3>3 DEF Acts
  <2> QED
    BY <2>1, <2>2, <2>3, <2>4, <2>5
<1>3. ASSUME Serving PROVE Peer' = Peer /\ Pasv' = Pasv /\ Own' = Own
  <2>1. Cur.fd \in Fds /\ sock[Cur.fd].use = "ctl" /\ Cur' = Cur
    BY <1>1, <1>3, PeerIs, CurIs DEF SameServer
  <2>2. Peer' = Peer /\ Pasv' = Pasv
    BY <1>2, <2>1 DEF Peer, Pasv
  <2> QED
    BY <1>2, <2>2 DEF Own
<1> QED
  BY <1>1, <1>2, <1>3

\* The server answers each command once.
LEMMA TalkAttends ==
  ASSUME Typed, Uses, Listeners, Talk, Attends
  PROVE  Talk'
<1>1. Serving /\ Peer \in Clients /\ cl[Peer] \in ClType /\ \A c \in Clients \ {Peer} : cl'[c] = cl[c]
  <2>1. Serving /\ Others
    BY AttendsAre
  <2> QED
    BY <2>1, PeerIs DEF Others, Typed
<1>2. Polite(cl[Peer]) /\ (Stored => Awaits(cl[Peer], IF pc = "retr" THEN "RETR" ELSE "STOR"))
  BY <1>1 DEF Talk
<1>3. Polite(cl'[Peer]) /\ (Stored' => cl'[Peer].cmd = "none" /\ Peer' = Peer
        /\ Awaits(cl'[Peer], IF pc' = "retr" THEN "RETR" ELSE "STOR"))
  <2>1. CASE Answers
    BY <2>1 DEF Answers, AnswersWith, AnsweredAs, Polite, Goes, Stored
  <2>2. CASE Closes
    <3>1. ~Stored'
      BY <2>2 DEF Closes, Goes, Stored
    <3>2. cl'[Peer].cmd = "none" /\ cl'[Peer].wait = FALSE => Polite(cl'[Peer])
      BY DEF Polite
    <3>3. SameTalk(cl[Peer], cl'[Peer]) /\ SameSelf(cl[Peer], cl'[Peer])
          /\ (NoData(cl'[Peer]) \/ SameData(cl[Peer], cl'[Peer])) => Polite(cl'[Peer])
      BY <1>2 DEF Polite, SameTalk, SameSelf, NoData, SameData
    <3> QED
      BY <2>2, <3>1, <3>2, <3>3 DEF Closes, AnsweredAs
  <2>3. CASE Drops
    <3>1. cl'[Peer] = NewClient /\ ~Stored'
      BY <2>3 DEF Drops, Goes, Stored
    <3> QED
      BY <3>1 DEF Polite, NewClient
  <2>4. CASE PortOpens
    BY <2>4 DEF PortOpens, AnsweredAs, Polite, Goes, Stored
  <2>5. CASE Listens
    BY <2>5 DEF Listens, AnsweredAs, Polite, Stored
  <2>6. CASE Joins
    BY <1>2, <2>6 DEF Joins, Goes, Stored
  <2>7. CASE JoinsNone
    BY <1>2, <2>7 DEF JoinsNone, AnsweredAs, Polite, Goes, Stored
  <2>8. CASE Begins
    <3>1. Peer' = Peer
      BY <2>8, SameTurn DEF Begins, Stays, Peer
    <3>2. cl'[Peer] = [cl[Peer] EXCEPT !.cmd = "none"] /\ cl[Peer].cmd \in {"RETR", "STOR"}
          /\ pc' = IF cl[Peer].cmd = "RETR" THEN "retr" ELSE "stor"
      BY <2>8 DEF Begins
    <3>3. Polite(cl'[Peer])
      BY <1>1, <1>2, <3>2 DEF Polite, ClType
    <3>4. Awaits(cl'[Peer], cl[Peer].cmd)
      BY <1>1, <1>2, <3>2 DEF Polite, Awaits, ClType
    <3> QED
      BY <3>1, <3>2, <3>3, <3>4 DEF Awaits
  <2>9. CASE Moves
    <3>1. Peer' = Peer /\ pc' = pc /\ Stored
      BY <2>9, SameTurn DEF Moves, Stays, Peer, Stored
    <3>2. SameSelf(cl[Peer], cl'[Peer]) /\ cl'[Peer].data = cl[Peer].data /\ cl'[Peer].cmd = cl[Peer].cmd
          /\ cl'[Peer].rep = cl[Peer].rep /\ cl'[Peer].wait = cl[Peer].wait /\ cl'[Peer].doing = cl[Peer].doing
      BY <1>1, <2>9 DEF Moves, SameSelf, ClType
    <3> QED
      BY <1>2, <3>1, <3>2 DEF Polite, Awaits, SameSelf
  <2>10. CASE Strays
    BY <1>2, <2>10 DEF Strays, Stored
  <2> QED
    BY <2>1, <2>2, <2>3, <2>4, <2>5, <2>6, <2>7, <2>8, <2>9, <2>10 DEF Attends
<1>4. \A c \in Clients : Polite(cl'[c])
  BY <1>1, <1>3 DEF Talk
<1> QED
  BY <1>3, <1>4 DEF Talk

\* Every step keeps a client's one command its only one.
LEMMA TalkDoes ==
  ASSUME Typed, Uses, Queued, Listeners, Talk, Serves \/ Idles \/ \E c \in Clients : Acts(c)
  PROVE  Talk'
<1>1. CASE Attends
  BY <1>1, TalkAttends
<1>2. CASE Watches \/ AdmitsNone
  <2>1. cl' = cl /\ ~Stored'
    BY <1>2 DEF Watches, AdmitsNone, Stored
  <2> QED
    BY <2>1 DEF Talk
<1>3. CASE Admits
  <2>1. /\ First \in Clients /\ ~Stored' /\ \A c \in Clients \ {First} : cl'[c] = cl[c]
        /\ cl'[First] = [cl[First] EXCEPT !.ctl = IF @ = "queued" THEN "open" ELSE @]
    BY <1>3 DEF Admits, AdmitsWith, Stored
  <2>2. Polite(cl[First]) /\ cl[First] \in ClType
    BY <2>1 DEF Talk, Typed
  <2>3. Polite(cl'[First])
    <3>1. CASE cl[First].ctl = "queued"
      <4>1. cl'[First] = [cl[First] EXCEPT !.ctl = "open"]
        BY <2>1, <3>1
      <4> QED
        BY <2>2, <3>1, <4>1 DEF Polite, ClType
    <3>2. CASE cl[First].ctl # "queued"
      <4>1. cl'[First] = [cl[First] EXCEPT !.ctl = @]
        BY <2>1, <3>2
      <4> QED
        BY <2>2, <3>2, <4>1 DEF Polite, ClType
    <3> QED
      BY <3>1, <3>2
  <2> QED
    BY <2>1, <2>3 DEF Talk
<1>4. CASE Idles
  <2>1. cl' = cl /\ (Serving => Peer' = Peer) /\ pc' = pc
    BY <1>4, TurnKept DEF Idles, SameServer
  <2> QED
    BY <2>1 DEF Talk, Stored, Serving
<1>5. ASSUME NEW c \in Clients, Acts(c) PROVE Talk'
  <2>1. (Serving => Peer' = Peer) /\ pc' = pc /\ \A x \in Clients \ {c} : cl'[x] = cl[x]
    BY <1>5, TurnKept, ActsAre DEF SameServer, AllBut
  <2>2. Polite(cl[c]) /\ cl[c] \in ClType
    BY DEF Talk, Typed
  <2> DEFINE k == IF pc = "retr" THEN "RETR" ELSE "STOR"
  <2>3. Stored /\ Peer = c => Awaits(cl[c], k) /\ cl[c].ctl # "none"
    <3> SUFFICES ASSUME Stored, Peer = c PROVE Awaits(cl[c], k) /\ cl[c].ctl # "none"
      OBVIOUS
    <3>1. Serving
      BY DEF Serving, Stored
    <3>2. Cur.fd \in Fds /\ sock[Cur.fd].use = "ctl" /\ Peer = sock[Cur.fd].peer
      BY <3>1, PeerIs, CurIs DEF Peer
    <3> QED
      BY <3>2 DEF Talk, Uses
  <2> HIDE DEF k
  <2>4. Polite(cl'[c]) /\ (Stored /\ Peer = c => Awaits(cl'[c], k))
    <3>1. CASE Connects(c)
      <4>1. cl'[c] = NewClient \/ cl'[c] = [NewClient EXCEPT !.ctl = "queued"]
        BY <3>1 DEF Connects
      <4>2. Polite(cl'[c])
        BY <4>1 DEF Polite, NewClient
      <4> QED
        BY <2>3, <3>1, <4>2 DEF Connects
    <3>2. CASE JoinsBy(c)
      <4>1. cl[c].rep = "227" /\ (cl'[c] = [cl[c] EXCEPT !.data = "open", !.rep = "none"]
                                   \/ cl'[c] = [cl[c] EXCEPT !.rep = "none"])
        BY <3>2 DEF JoinsBy, JoinsAt
      <4>2. Polite(cl'[c])
        BY <2>2, <4>1 DEF Polite, ClType
      <4> QED
        BY <2>3, <4>1, <4>2 DEF Awaits
    <3>3. CASE Streams(c)
      <4>1. SameTalk(cl[c], cl'[c]) /\ SameSelf(cl[c], cl'[c]) /\ cl[c].data = "open"
        BY <3>3 DEF Streams
      <4> QED
        BY <2>2, <2>3, <4>1 DEF Polite, Awaits, SameTalk, SameSelf
    <3>4. CASE Leaves(c)
      <4>1. /\ cl'[c].cmd = cl[c].cmd /\ cl'[c].rep = cl[c].rep /\ cl'[c].wait = FALSE
            /\ cl'[c].ctl = "fin" /\ (cl[c].data = "none" => cl'[c].data = "none")
        BY <2>2, <3>4 DEF Leaves, ClType
      <4> QED
        BY <2>2, <2>3, <4>1 DEF Polite, Awaits
    <3>5. CASE \E m \in Cmds, n \in 0 .. FileLen : Sends(c, m, n)
      <4>1. PICK m \in Cmds, n \in 0 .. FileLen : Sends(c, m, n)
        BY <3>5
      <4>2. /\ cl[c].ctl = "open" /\ ~cl[c].wait /\ cl'[c].cmd = m /\ cl'[c].doing = m
            /\ cl'[c].wait = TRUE /\ cl'[c].rep = "none" /\ cl'[c].ctl = "open"
        BY <4>1 DEF Sends
      <4>3. m \in {"PASV", "PORT", "QUIT"} => cl'[c].data = "none"
        BY <4>1 DEF Sends, Gives, NoData, SameData
      <4>4. Polite(cl'[c])
        BY <4>2, <4>3 DEF Polite
      <4> QED
        BY <2>3, <4>2, <4>4 DEF Awaits
    <3> QED
      BY <1>5, <3>1, <3>2, <3>3, <3>4, <3>5 DEF Acts
  <2>5. \A x \in Clients : Polite(cl'[x])
    BY <2>1, <2>4 DEF Talk
  <2>6. ASSUME Stored' PROVE Awaits(cl'[Peer'], IF pc' = "retr" THEN "RETR" ELSE "STOR")
    <3>1. Stored /\ Serving
      BY <2>1, <2>6 DEF Stored, Serving
    <3>2. Peer' = Peer /\ Peer \in Clients /\ Awaits(cl[Peer], k)
      BY <2>1, <3>1, PeerIs DEF Talk, k
    <3> QED
      BY <2>1, <2>4, <3>1, <3>2 DEF k
  <2> QED
    BY <2>5, <2>6 DEF Talk
<1> QED
  BY <1>1, <1>2, <1>3, <1>4, <1>5 DEF Serves, Attends

-----------------------------------------------------------------------------
(* Data connections.                                                       *)

\* A step for one connection leaves the data connections of the others alone.
LEMMA OthersStay ==
  ASSUME Typed, Typed', Uses, Uses', Listeners, Attends
  PROVE  /\ \A r \in Open \ {Cur} : r \in Open' /\ With(r) # Peer
         /\ \A r \in Open' : With(r)' = With(r)
         /\ \A f \in Fds : sock[f].use = "data" /\ sock[f].peer # Peer => sock'[f] = sock[f]
         /\ UNCHANGED <<misused, abandoned>> /\ (pasvFailed => pasvFailed')
<1>1. Serving /\ \A f \in Fds : sock'[f].use = "ctl" => sock'[f] = sock[f]
  BY AttendsAre
<1>2. \A r \in Open' : With(r)' = With(r)
  <2>1. \A r \in Open' : sock'[r.fd].use = "ctl" /\ r.fd \in Fds
    <3>1. \A r \in Open' : r \in ConnType
      BY DEF Typed, Open
    <3> QED
      BY <3>1 DEF Uses, ConnType
  <2> QED
    BY <1>1, <2>1 DEF With
<1>3. \A r \in Open \ {Cur} : With(r) # Peer
  BY <1>1, OneEach, PeerIs, CurIs
<1>4. /\ \A r \in Open \ {Cur} : r \in Open'
      /\ \A f \in Fds : sock[f].use = "data" /\ sock[f].peer # Peer => sock'[f] = sock[f]
      /\ UNCHANGED <<misused, abandoned>> /\ (pasvFailed => pasvFailed')
  <2>1. CASE Answers
    BY <2>1 DEF Answers, AnswersWith, EntryTo, Entries, Quiet, hist
  <2>2. CASE Closes
    BY <2>2 DEF Closes, Own, Open
  <2>3. CASE Drops
    <3>1. Open' = Open \ {Cur} /\ (pc = "stor" => sock[Pasv].use = "data" /\ sock[Pasv].peer = Peer)
          /\ (\A f \in Fds : sock'[f] = IF f = Cur.fd \/ (pc = "stor" /\ f = Pasv) THEN Free ELSE sock[f])
          /\ UNCHANGED <<misused, abandoned, pasvFailed>>
      BY <2>3 DEF Drops, Entries, Own
    <3>2. sock[Cur.fd].use = "ctl"
      BY <1>1, PeerIs
    <3> QED
      BY <3>1, <3>2
  <2>4. CASE PortOpens
    BY <2>4 DEF PortOpens, Takes, Remembers, EntryTo, Entries, Quiet, hist
  <2>5. CASE Listens
    BY <2>5 DEF Listens, Takes, Open, Quiet, hist
  <2>6. CASE Joins
    <3>1. sock[pl].use = "pl"
      BY <2>6 DEF Joins, Listeners
    <3> QED
      BY <2>6, <3>1 DEF Joins, Takes, Remembers, EntryTo, Entries, Quiet, hist
  <2>7. CASE JoinsNone
    <3>1. sock[pl].use = "pl"
      BY <2>7 DEF JoinsNone, Listeners
    <3> QED
      BY <2>7, <3>1 DEF JoinsNone, Remembers, EntryTo, Entries
  <2>8. CASE Begins
    BY <2>8 DEF Begins, Stays, Open, Quiet, hist
  <2>9. CASE Moves
    BY <2>9 DEF Moves, Stays, Open, Quiet, hist
  <2>10. CASE Strays
    BY <2>10 DEF Strays, Open
  <2> QED
    BY <2>1, <2>2, <2>3, <2>4, <2>5, <2>6, <2>7, <2>8, <2>9, <2>10 DEF Attends
<1> QED
  BY <1>2, <1>3, <1>4

\* The data sockets of the client being served.
LEMMA DataIsOwn ==
  ASSUME Typed, Uses, Serving, Remembered, NEW f \in Fds, sock[f].use = "data", sock[f].peer = Peer
  PROVE  Own /\ f = Pasv /\ cl[Peer].data # "none"
<1>1. PICK r \in Open : With(r) = Peer /\ r.pasv = f
  BY DEF Remembered
<1>2. r = Cur
  BY <1>1, OneEach, PeerIs, CurIs
<1> QED
  BY <1>1, <1>2 DEF Remembered, Own, Pasv

\* A step for one connection leaves the data sockets of the others remembered.
LEMMA RememberedAttends ==
  ASSUME Typed, Typed', Uses, Uses', Listeners, Attends, Remembered,
         \A f \in Fds : sock'[f].use = "data" =>
           \/ sock[f].use = "data" /\ sock'[f].peer = sock[f].peer /\ sock[f].peer # Peer
           \/ /\ sock'[f].peer = Peer /\ cl'[Peer].data # "none"
              /\ \E r \in Open' : r.fd = Cur.fd /\ r.pasv = f
  PROVE  Remembered'
<1>0. Serving /\ Others /\ Peer = sock[Cur.fd].peer
  BY AttendsAre DEF Peer
<1>1. SUFFICES ASSUME NEW f \in Fds, sock'[f].use = "data"
               PROVE  cl'[sock'[f].peer].data # "none"
                      /\ \E r \in Open' : With(r)' = sock'[f].peer /\ r.pasv = f
  BY DEF Remembered
<1>2. CASE sock[f].use = "data" /\ sock'[f].peer = sock[f].peer /\ sock[f].peer # Peer
  <2>1. PICK r \in Open : With(r) = sock[f].peer /\ r.pasv = f
    BY <1>2 DEF Remembered
  <2>2. r # Cur
    BY <1>0, <1>2, <2>1 DEF With
  <2>3. r \in Open' /\ With(r)' = With(r)
    BY <2>1, <2>2, OthersStay
  <2>4. cl'[sock[f].peer] = cl[sock[f].peer]
    BY <1>0, <1>2 DEF Uses, Others
  <2> QED
    BY <1>2, <2>1, <2>3, <2>4 DEF Remembered
<1>3. CASE /\ sock'[f].peer = Peer /\ cl'[Peer].data # "none"
           /\ \E r \in Open' : r.fd = Cur.fd /\ r.pasv = f
  <2>1. PICK r \in Open' : r.fd = Cur.fd /\ r.pasv = f
    BY <1>3
  <2>2. With(r)' = Peer
    BY <1>0, <2>1, OthersStay DEF With
  <2> QED
    BY <1>3, <2>1, <2>2
<1> QED
  BY <1>1, <1>2, <1>3

\* Every step of the task leaves the data sockets remembered.
LEMMA RememberedServes ==
  ASSUME Typed, Typed', Uses, Uses', Listeners, Talk, Attends, ~abandoned, Leaks
  PROVE  Remembered'
<1>0. /\ Serving /\ Peer = sock[Cur.fd].peer /\ Peer \in Clients /\ Cur \in Open /\ Cur.fd \in Fds
      /\ Remembered /\ Gone /\ (pc = "pasv" => Expecting) /\ Free.use = "free"
      /\ \A f \in Fds : sock[f].use = "data" /\ sock[f].peer = Peer =>
           Own /\ f = Pasv /\ cl[Peer].data # "none"
      /\ Polite(cl[Peer]) /\ Pasv = Cur.pasv
  BY AttendsAre, PeerIs, CurIs, DataIsOwn, FreeTyped DEF Peer, Leaks, Talk, Pasv
<1> DEFINE Other(f) == sock[f].use = "data" /\ sock'[f].peer = sock[f].peer /\ sock[f].peer # Peer
           Mine(f) == /\ sock'[f].peer = Peer /\ cl'[Peer].data # "none"
                      /\ \E r \in Open' : r.fd = Cur.fd /\ r.pasv = f
<1>1. SUFFICES ASSUME NEW f \in Fds, sock'[f].use = "data"
               PROVE  Other(f) \/ Mine(f)
  BY <1>0, RememberedAttends
<1>2. CASE Answers
  <2>1. PICK new \in ConnType : AnswersWith(new)
    BY <1>2 DEF Answers
  <2>2. sock' = sock /\ Open' = (Open \ {Cur}) \cup {new} /\ new.fd = Cur.fd
        /\ cl'[Peer].data = cl[Peer].data /\ (new.pasv = Cur.pasv \/ cl[Peer].cmd = "PORT")
    BY <2>1 DEF AnswersWith, EntryTo, Entries, NewEntry, SameData
  <2>3. cl[Peer].cmd = "PORT" => cl[Peer].data = "none"
    BY <1>0 DEF Polite
  <2>4. CASE sock[f].peer = Peer
    <3>1. f = Cur.pasv /\ cl[Peer].data # "none"
      BY <1>0, <1>1, <2>2, <2>4
    <3> QED
      BY <2>2, <2>3, <2>4, <3>1
  <2> QED
    BY <1>1, <2>2, <2>4
<1>3. CASE Closes
  <2>1. \A g \in Fds : sock'[g] = IF Own /\ g = Pasv THEN Free ELSE sock[g]
    BY <1>3 DEF Closes
  <2> QED
    BY <1>0, <1>1, <2>1
<1>4. CASE Drops
  <2>1. /\ sock'[f] = IF f = Cur.fd \/ (pc = "stor" /\ f = Pasv) THEN Free ELSE sock[f]
        /\ (pc = "loop" /\ cl[Peer].cmd = "none" /\ cl[Peer].ctl = "fin")
           \/ (pc = "loop" /\ cl[Peer].cmd = "QUIT") \/ pc = "stor"
    BY <1>4 DEF Drops
  <2>2. pc = "loop" => cl[Peer].data = "none"
    BY <1>0, <2>1 DEF Polite, Gone
  <2> QED
    BY <1>0, <1>1, <2>1, <2>2
<1>5. CASE PortOpens
  <2>1. /\ \A g \in Fds \ {New} : sock'[g] = sock[g]
        /\ New \in Fds /\ sock'[New].peer = Peer /\ cl[Peer].cmd = "PORT"
        /\ cl'[Peer].data # "none"
        /\ Open' = (Open \ {Cur}) \cup {Entry(New)} /\ Entry(New).fd = Cur.fd /\ Entry(New).pasv = New
    BY <1>5 DEF PortOpens, Takes, Remembers, EntryTo, Entries
  <2>2. cl[Peer].data = "none"
    BY <1>0, <2>1 DEF Polite
  <2>3. CASE f = New
    BY <2>1, <2>3
  <2>4. CASE f # New
    BY <1>0, <1>1, <2>1, <2>2, <2>4
  <2> QED
    BY <2>3, <2>4
<1>6. CASE Listens
  <2>1. /\ \A g \in Fds \ {New} : sock'[g] = sock[g]
        /\ sock'[New].use = "pl" /\ cl[Peer].cmd = "PASV"
    BY <1>6 DEF Listens, Takes
  <2>2. cl[Peer].data = "none"
    BY <1>0, <2>1 DEF Polite
  <2> QED
    BY <1>0, <1>1, <2>1, <2>2
<1>7. CASE Joins
  <2>1. /\ \A g \in Fds \ {pl, New} : sock'[g] = sock[g]
        /\ pc = "pasv" /\ cl' = cl /\ sock'[pl] = Free /\ sock[pl].q # <<>>
        /\ Head(sock[pl].q) # "abrt" /\ sock'[New].peer = Head(sock[pl].q) /\ New \in Fds
        /\ Open' = (Open \ {Cur}) \cup {Entry(New)} /\ Entry(New).fd = Cur.fd /\ Entry(New).pasv = New
    BY <1>7 DEF Joins, Takes, Remembers, EntryTo, Entries
  <2>2. pl \in Fds /\ sock[pl].use = "pl" /\ sock[pl].peer = Peer /\ sock[pl].q \in Seq(Clients \cup {"abrt"})
    BY <2>1 DEF Listeners, Typed, SockType
  <2>3. 1 \in DOMAIN sock[pl].q /\ Head(sock[pl].q) = sock[pl].q[1]
    BY <2>1, <2>2, TailGives
  <2>4. Head(sock[pl].q) = Peer
    BY <2>1, <2>2, <2>3 DEF Listeners
  <2>5. cl[Peer].data # "none" /\ \A g \in Fds : sock[g].use = "data" => sock[g].peer # Peer
    BY <1>0, <2>1, <2>3 DEF Expecting
  <2>6. CASE f = New
    BY <2>1, <2>4, <2>5, <2>6
  <2>7. CASE f # New
    <3>1. f # pl
      BY <1>0, <1>1, <2>1
    <3> QED
      BY <1>1, <2>1, <2>5, <2>7, <3>1
  <2> QED
    BY <2>6, <2>7
<1>8. CASE JoinsNone
  <2>1. /\ \A g \in Fds \ {pl} : sock'[g] = sock[g]
        /\ pc = "pasv" /\ sock'[pl].use = sock[pl].use
    BY <1>8 DEF JoinsNone
  <2>2. f # pl /\ \A g \in Fds : sock[g].use = "data" => sock[g].peer # Peer
    BY <1>0, <1>1, <2>1 DEF Expecting, Listeners
  <2> QED
    BY <1>1, <2>1, <2>2
<1>9. CASE Begins \/ Moves \/ Strays
  <2>1. sock' = sock /\ Open' = Open /\ cl'[Peer].data = cl[Peer].data
    <3>1. cl[Peer] \in ClType
      BY <1>0 DEF Typed
    <3>2. CASE Begins
      BY <3>1, <3>2 DEF Begins, Stays, Open, ClType
    <3>3. CASE Moves
      BY <3>1, <3>3 DEF Moves, Stays, Open, ClType
    <3>4. CASE Strays
      BY <3>4 DEF Strays, Open
    <3> QED
      BY <1>9, <3>2, <3>3, <3>4
  <2> QED
    BY <1>0, <1>1, <2>1
<1> QED
  BY <1>2, <1>3, <1>4, <1>5, <1>6, <1>7, <1>8, <1>9 DEF Attends

\* A client that has left has no data connection, unless it gave one up.
LEMMA GoneServes ==
  ASSUME Typed, Uses, Listeners, Attends, Gone
  PROVE  Gone'
<1>0. Serving /\ Peer \in Clients /\ cl[Peer] \in ClType /\ \A c \in Clients \ {Peer} : cl'[c] = cl[c]
  <2>1. Serving /\ Others
    BY AttendsAre
  <2> QED
    BY <2>1, PeerIs DEF Others, Typed
<1>1. cl'[Peer].ctl = "fin" => cl'[Peer].data = "none" /\ cl'[Peer].cmd # "PORT"
  <2>1. CASE Answers
    BY <1>0, <2>1 DEF Answers, AnswersWith, SameData, SameSelf, AnsweredAs, Gone
  <2>2. CASE Closes
    BY <1>0, <2>2 DEF Closes, SameData, NoData, SameSelf, SameTalk, AnsweredAs, Gone
  <2>3. CASE Drops
    BY <1>0, <2>3 DEF Drops, NewClient
  <2>4. CASE PortOpens
    BY <1>0, <2>4 DEF PortOpens, SameSelf, AnsweredAs, Gone
  <2>5. CASE Listens
    BY <1>0, <2>5 DEF Listens, SameData, SameSelf, AnsweredAs, Gone
  <2>6. CASE Joins \/ Strays
    BY <1>0, <2>6 DEF Joins, Strays, Gone
  <2>7. CASE JoinsNone
    BY <1>0, <2>7 DEF JoinsNone, SameData, SameSelf, AnsweredAs, Gone
  <2>8. CASE Begins
    <3>1. cl'[Peer].ctl = cl[Peer].ctl /\ cl'[Peer].data = cl[Peer].data /\ cl'[Peer].cmd = "none"
      BY <1>0, <2>8 DEF Begins, ClType
    <3> QED
      BY <1>0, <3>1 DEF Gone
  <2>9. CASE Moves
    <3>1. cl'[Peer].ctl = cl[Peer].ctl /\ cl'[Peer].data = cl[Peer].data /\ cl'[Peer].cmd = cl[Peer].cmd
      BY <1>0, <2>9 DEF Moves, ClType
    <3> QED
      BY <1>0, <3>1 DEF Gone
  <2> QED
    BY <2>1, <2>2, <2>3, <2>4, <2>5, <2>6, <2>7, <2>8, <2>9 DEF Attends
<1> QED
  BY <1>0, <1>1 DEF Gone

\* Only PASV under way waits for a connection, ...
LEMMA ExpectingServes ==
  ASSUME Typed, Uses, Listeners, Talk, Attends, ~abandoned, Leaks, pc' = "pasv"
  PROVE  Expecting'
<1>1. Listens
  BY DEF Attends, Answers, AnswersWith, Closes, Drops, PortOpens, Joins, JoinsNone, Begins, Moves,
         Strays, Goes
<1>2. /\ conns' = conns /\ left' = left /\ Serving /\ \A f \in Fds \ {New} : sock'[f] = sock[f]
      /\ New \in Fds /\ sock[New].use = "free" /\ sock'[New].use = "pl" /\ sock'[New].q = <<>> /\ pl' = New
      /\ cl[Peer].cmd = "PASV"
  BY <1>1 DEF Listens, Takes
<1>3. Cur' = Cur /\ Cur.fd \in Fds /\ sock[Cur.fd].use = "ctl" /\ Peer \in Clients
  BY <1>2, SameTurn, PeerIs, CurIs
<1>4. Peer' = Peer
  BY <1>2, <1>3 DEF Peer
<1>5. cl[Peer].data = "none"
  BY <1>2, <1>3 DEF Talk, Polite
<1>6. \A f \in Fds : sock[f].use = "data" => sock[f].peer # Peer
  BY <1>5 DEF Leaks, Remembered
<1>7. \A f \in Fds : sock'[f].use = "data" => sock'[f].peer # Peer'
  BY <1>2, <1>4, <1>6
<1>8. \A i \in DOMAIN sock'[pl'].q : sock'[pl'].q[i] # "abrt" => cl'[Peer'].data # "none"
  BY <1>2
<1> QED
  BY <1>7, <1>8 DEF Expecting

\* ... and no other listener stays without a PASV that failed.
LEMMA ListeningServes ==
  ASSUME Typed, Uses, Listeners, Listening, Attends
  PROVE  Listening'
<1>0. /\ Free.use = "free" /\ (pc = "pasv" => pl \in Fds /\ sock[pl].use = "pl")
      /\ (pc # "pasv" => \A f \in Fds : sock[f].use = "pl" => pasvFailed)
  BY FreeTyped DEF Listeners, Typed, Listening
<1>1. CASE Answers
  BY <1>0, <1>1 DEF Answers, AnswersWith, Quiet, hist, Listening
<1>2. CASE Closes
  <2>1. \A f \in Fds : sock'[f] = Free \/ sock'[f] = sock[f]
    BY <1>2 DEF Closes
  <2>2. (pc = "pasv" => pasvFailed') /\ (pasvFailed => pasvFailed')
    BY <1>2 DEF Closes
  <2> QED
    BY <1>0, <2>1, <2>2 DEF Listening
<1>3. CASE Drops
  <2>1. \A f \in Fds : sock'[f] = Free \/ sock'[f] = sock[f]
    BY <1>3 DEF Drops
  <2>2. pc # "pasv" /\ (pasvFailed => pasvFailed')
    BY <1>3 DEF Drops
  <2> QED
    BY <1>0, <2>1, <2>2 DEF Listening
<1>4. CASE PortOpens
  <2>1. pc # "pasv" /\ pasvFailed' = pasvFailed /\ sock'[New].use = "data" 
        /\ \A f \in Fds \ {New} : sock'[f] = sock[f]
    BY <1>4 DEF PortOpens, Takes, Quiet, hist
  <2> QED
    BY <1>0, <2>1 DEF Listening
<1>5. CASE Listens
  <2>1. pc # "pasv" /\ pasvFailed' = pasvFailed /\ pc' = "pasv" /\ pl' = New
        /\ \A f \in Fds \ {New} : sock'[f] = sock[f]
    BY <1>5 DEF Listens, Quiet, hist
  <2> QED
    BY <1>0, <2>1 DEF Listening
<1>6. CASE Joins
  <2>1. pc = "pasv" /\ pasvFailed' = pasvFailed /\ sock'[New].use = "data" /\ sock'[pl] = Free
        /\ \A f \in Fds \ {pl, New} : sock'[f] = sock[f]
    BY <1>6 DEF Joins, Takes, Quiet, hist
  <2>2. \A f \in Fds : sock'[f].use = "pl" => sock[f].use = "pl" /\ f # pl
    BY <1>0, <2>1
  <2> QED
    BY <2>1, <2>2 DEF Listening
<1>7. CASE JoinsNone
  BY <1>7 DEF JoinsNone, Listening
<1>8. CASE Begins \/ Moves
  <2>1. pc # "pasv" /\ pasvFailed' = pasvFailed /\ sock' = sock
    BY <1>8 DEF Begins, Moves, Stays, Quiet, hist
  <2> QED
    BY <1>0, <2>1 DEF Listening
<1>9. CASE Strays
  <2>1. sock' = sock /\ (pasvFailed => pasvFailed') /\ (pasvFailed' \/ pc = "loop")
    BY <1>9 DEF Strays
  <2> QED
    BY <1>0, <2>1 DEF Listening
<1> QED
  BY <1>1, <1>2, <1>3, <1>4, <1>5, <1>6, <1>7, <1>8, <1>9 DEF Attends

\* Connections keep their clients while control sockets stay.
LEMMA WithKept ==
  ASSUME Typed, Uses, \A f \in Fds : sock[f].use = "ctl" => sock'[f].peer = sock[f].peer
  PROVE  \A r \in Open : With(r)' = With(r)
BY PeerIs DEF With

\* What a client does to its data connection, unless it gives one up.
LEMMA ActsData ==
  ASSUME Typed, Talk, NEW c \in Clients, Acts(c), ~abandoned'
  PROVE  /\ ~abandoned
         /\ cl[c].data # "none" /\ cl[c].ctl # "none" => cl'[c].data # "none"
         /\ (cl[c].ctl = "fin" => cl[c].data = "none" /\ cl[c].cmd # "PORT")
            => (cl'[c].ctl = "fin" => cl'[c].data = "none" /\ cl'[c].cmd # "PORT")
<1>1. cl[c] \in ClType /\ abandoned \in BOOLEAN
  BY DEF Typed, Flags
<1>2. CASE Connects(c)
  <2>1. cl[c].ctl = "none" /\ abandoned' = abandoned
        /\ (cl'[c] = NewClient \/ cl'[c] = [NewClient EXCEPT !.ctl = "queued"])
    BY <1>2 DEF Connects, hist
  <2>2. cl'[c].ctl # "fin"
    BY <2>1 DEF NewClient
  <2> QED
    BY <2>1, <2>2
<1>3. CASE JoinsBy(c)
  <2>1. cl[c].ctl = "open" /\ cl[c].data = "none" /\ abandoned' = abandoned
        /\ (cl'[c] = [cl[c] EXCEPT !.data = "open", !.rep = "none"] \/ cl'[c] = [cl[c] EXCEPT !.rep = "none"])
    BY <1>3 DEF JoinsBy, JoinsAt, hist
  <2>2. cl'[c].ctl = "open"
    BY <1>1, <2>1 DEF ClType
  <2> QED
    BY <2>1, <2>2
<1>4. CASE Streams(c)
  <2>1. cl[c].data = "open" /\ abandoned' = abandoned /\ cl'[c].ctl = cl[c].ctl /\ cl'[c].data # "none"
    BY <1>4 DEF Streams, SameSelf, hist
  <2> QED
    BY <2>1
<1>5. CASE Leaves(c)
  <2>1. cl[c].data = "none" /\ cl[c].cmd # "PORT" /\ ~abandoned
        /\ cl'[c] = [cl[c] EXCEPT !.ctl = "fin", !.wait = FALSE, !.data = IF @ = "open" THEN "fin" ELSE @]
    BY <1>5 DEF Leaves
  <2>2. cl'[c] = [cl[c] EXCEPT !.ctl = "fin", !.wait = FALSE, !.data = "none"]
    BY <2>1
  <2>3. cl'[c].data = "none" /\ cl'[c].cmd # "PORT"
    BY <1>1, <2>1, <2>2 DEF ClType
  <2> QED
    BY <2>1, <2>3
<1>6. CASE \E k \in Cmds, n \in 0 .. FileLen : Sends(c, k, n)
  <2>1. PICK k \in Cmds, n \in 0 .. FileLen : Sends(c, k, n)
    BY <1>6
  <2>2. ~Gives(c, k, n)
    BY <2>1 DEF Sends
  <2>3. SameData(cl[c], cl'[c]) /\ abandoned' = abandoned /\ cl'[c].ctl = "open"
    BY <2>1, <2>2 DEF Sends
  <2> QED
    BY <2>3 DEF SameData
<1> QED
  BY <1>2, <1>3, <1>4, <1>5, <1>6 DEF Acts

\* A step of a client leaks nothing.
LEMMA LeaksActs ==
  ASSUME Typed, Typed', Uses, Listeners, Talk, Leaks, NEW c \in Clients, Acts(c)
  PROVE  Leaks'
<1>1. /\ SameServer /\ AllBut(c) /\ \A f \in Fds : sock'[f].use = sock[f].use
      /\ \A f \in Fds : sock[f].use \notin {"listen", "pl"} => sock'[f] = sock[f]
      /\ Serving => Peer' = Peer
  BY ActsAre, TurnKept
<1>2. Open' = Open /\ pc' = pc /\ pl' = pl /\ \A r \in Open : With(r)' = With(r)
  BY <1>1, WithKept DEF SameServer
<1>3. pasvFailed' = pasvFailed
  <2>1. CASE Connects(c)
    BY <2>1 DEF Connects, hist
  <2>2. CASE JoinsBy(c)
    BY <2>2 DEF JoinsBy, JoinsAt, hist
  <2>3. CASE Streams(c)
    BY <2>3 DEF Streams, hist
  <2>4. CASE Leaves(c)
    BY <2>4 DEF Leaves
  <2>5. CASE \E k \in Cmds, n \in 0 .. FileLen : Sends(c, k, n)
    BY <2>5 DEF Sends
  <2> QED
    BY <2>1, <2>2, <2>3, <2>4, <2>5 DEF Acts
<1>4. Listening'
  BY <1>1, <1>2, <1>3 DEF Leaks, Listening
<1>5. ASSUME ~abandoned' PROVE Remembered' /\ Gone' /\ (pc' = "pasv" => Expecting')
  <2>1. Remembered /\ Gone /\ (pc = "pasv" => Expecting)
        /\ (cl[c].data # "none" /\ cl[c].ctl # "none" => cl'[c].data # "none")
    BY <1>5, ActsData DEF Leaks
  <2>2. Gone'
    <3>1. \A x \in Clients \ {c} : cl'[x] = cl[x]
      BY <1>1 DEF AllBut
    <3>2. cl'[c].ctl = "fin" => cl'[c].data = "none" /\ cl'[c].cmd # "PORT"
      BY <1>5, <2>1, ActsData DEF Gone
    <3> QED
      BY <2>1, <3>1, <3>2 DEF Gone
  <2>3. \A r \in Open : With(r) \in Clients /\ cl[With(r)].ctl # "none"
    BY PeerIs DEF Uses, With
  <2>4. \A x \in Clients : cl[x].data # "none" /\ cl[x].ctl # "none" => cl'[x].data # "none"
    BY <1>1, <2>1 DEF AllBut
  <2>5. Remembered'
    <3> SUFFICES ASSUME NEW f \in Fds, sock'[f].use = "data"
                 PROVE  cl'[sock'[f].peer].data # "none"
                        /\ \E r \in Open' : With(r)' = sock'[f].peer /\ r.pasv = f
      BY DEF Remembered
    <3>1. sock'[f] = sock[f] /\ sock[f].use = "data"
      BY <1>1
    <3>2. PICK r \in Open : With(r) = sock[f].peer /\ r.pasv = f
      BY <2>1, <3>1 DEF Remembered
    <3>3. cl'[sock[f].peer].data # "none"
      BY <2>1, <2>3, <2>4, <3>1, <3>2 DEF Remembered
    <3> QED
      BY <1>2, <3>1, <3>2, <3>3
  <2>6. ASSUME pc' = "pasv" PROVE Expecting'
    <3>1. pc = "pasv" /\ Serving /\ Peer' = Peer /\ Expecting
      BY <1>1, <1>2, <2>1, <2>6 DEF Serving
    <3>2. Peer = With(Cur) /\ Cur \in Open /\ Peer \in Clients /\ cl[Peer].ctl # "none"
          /\ pl \in Fds /\ sock[pl].use = "pl" /\ sock[pl].peer = Peer
      BY <2>3, <3>1, PeerIs, CurIs DEF Listeners, Typed
    <3>3. \A f \in Fds : sock'[f].use = "data" => sock'[f].peer # Peer
      BY <1>1, <3>1 DEF Expecting
    <3>4. cl[Peer].data # "none" => cl'[Peer].data # "none"
      BY <2>4, <3>2
    <3>5. \A i \in DOMAIN sock'[pl].q : sock'[pl].q[i] # "abrt" => cl'[Peer].data # "none"
      <4>1. CASE sock'[pl].q = sock[pl].q
        BY <3>1, <3>4, <4>1 DEF Expecting
      <4>2. CASE JoinsBy(c) /\ sock'[pl].q # sock[pl].q
        <5>1. PICK f \in Fds : JoinsAt(c, f) /\ sock[f].peer = c
          BY <4>2, ListenersJoinsBy
        <5>2. f = pl
          BY <3>2, <4>2, <5>1 DEF JoinsAt
        <5>3. c = Peer /\ cl[c] \in ClType
          BY <3>2, <5>1, <5>2 DEF Typed
        <5>4. CASE cl'[c] = [cl[c] EXCEPT !.data = "open", !.rep = "none"]
          <6>1. cl'[c].data = "open"
            BY <5>3, <5>4 DEF ClType
          <6> QED
            BY <5>3, <6>1
        <5>5. CASE sock'[f].q = Append(sock[f].q, "abrt")
          <6>1. sock[pl].q \in Seq(Clients \cup {"abrt"})
            BY <3>2 DEF Typed, SockType
          <6>2. \A i \in DOMAIN sock'[pl].q : sock'[pl].q[i] # "abrt" =>
                  i \in DOMAIN sock[pl].q /\ sock'[pl].q[i] = sock[pl].q[i]
            BY <5>2, <5>5, <6>1
          <6> QED
            BY <3>1, <3>4, <6>2 DEF Expecting
        <5> QED
          BY <5>1, <5>4, <5>5 DEF JoinsAt
      <4>3. CASE ~JoinsBy(c)
        <5>1. CASE Connects(c)
          <6>1. pl # 0
            BY <3>2, ListenerIn DEF Uses
          <6> QED
            BY <3>2, <4>1, <5>1, <6>1 DEF Connects
        <5>2. CASE ~Connects(c)
          <6>1. sock' = sock
            BY <4>3, <5>2 DEF Acts, Streams, Leaves, Sends
          <6> QED
            BY <4>1, <6>1
        <5> QED
          BY <5>1, <5>2
      <4> QED
        BY <4>1, <4>2, <4>3
    <3> QED
      BY <1>2, <3>1, <3>3, <3>5 DEF Expecting
  <2> QED
    BY <2>2, <2>5, <2>6
<1> QED
  BY <1>4, <1>5 DEF Leaks

\* What a client is like that has asked for nothing yet.
Blank(c) ==
  /\ c.cmd = "none" /\ c.data = "none" /\ c.unread = 0 /\ c.up = 0 /\ c.asked = 0 /\ c.from = 0
  /\ c.got = <<>> /\ c.rested = FALSE /\ c.rep = "none" /\ c.wait = FALSE /\ c.doing = "none"

\* A client in the queue has nothing yet.
LEMMA FreshIs == \A c \in Fresh : Blank(c)
<1> SUFFICES ASSUME NEW c \in Fresh PROVE Blank(c)
  OBVIOUS
<1>1. PICK x \in {"queued", "fin"} : c = [NewClient EXCEPT !.ctl = x]
  BY DEF Fresh
<1> QED
  BY <1>1 DEF NewClient, Blank

\* A client just accepted has nothing yet.
LEMMA AdmittedIs ==
  ASSUME NEW c \in ClType, Blank(c)
  PROVE  Blank([c EXCEPT !.ctl = IF @ = "queued" THEN "open" ELSE @])
<1> DEFINE d == [c EXCEPT !.ctl = IF @ = "queued" THEN "open" ELSE @]
<1>1. CASE c.ctl = "queued"
  <2>1. d = [c EXCEPT !.ctl = "open"]
    BY <1>1
  <2> HIDE DEF d
  <2>2. Blank(d)
    BY <2>1 DEF ClType, Blank
  <2> QED
    BY <2>2 DEF d
<1>2. CASE c.ctl # "queued"
  <2>1. d = [c EXCEPT !.ctl = @]
    BY <1>2
  <2> HIDE DEF d
  <2>2. Blank(d)
    BY <2>1 DEF ClType, Blank
  <2> QED
    BY <2>2 DEF d
<1> QED
  BY <1>1, <1>2

\* A client that accept admits has had no command and no data yet.
LEMMA AdmitsIs ==
  ASSUME Typed, Uses, Queued, Admits
  PROVE  \E new \in ConnType :
           /\ AdmitsWith(new) /\ First \in Clients /\ New \in Fds /\ sock[New].use = "free"
           /\ Open' = Open \cup {new} /\ new.fd = New /\ With(new)' = First /\ new.offset = 0
           /\ \A r \in Open : With(r)' = With(r) /\ With(r) # First
           /\ \A f \in Fds \ {0, New} : sock'[f] = sock[f]
           /\ sock[0].use = "listen" /\ sock'[0].use = "listen" /\ sock'[New].use = "ctl"
           /\ Blank(cl[First]) /\ Blank(cl'[First])
           /\ \A f \in Fds : sock[f].use = "ctl" => sock[f].peer # First
           /\ \A c \in Clients \ {First} : cl'[c] = cl[c]
<1>1. PICK new \in ConnType : AdmitsWith(new)
  BY DEF Admits
<1>2. /\ sock[0].q # <<>> /\ First \in Clients /\ sock'[0].use = sock[0].use /\ New # 0
      /\ \A f \in Fds \ {0, New} : sock'[f] = sock[f]
      /\ new.fd = New /\ Open' = Open \cup {new} /\ new.offset = 0
      /\ \A c \in Clients \ {First} : cl'[c] = cl[c]
      /\ cl'[First] = [cl[First] EXCEPT !.ctl = IF @ = "queued" THEN "open" ELSE @]
  BY <1>1 DEF AdmitsWith, Entries
<1>3. New \in Fds /\ sock[New].use = "free" /\ sock'[New].use = "ctl" /\ sock'[New].peer = First
  BY <1>1 DEF AdmitsWith, Takes
<1>4. 0 \in Fds /\ sock[0].use = "listen" /\ sock[0].q \in Seq(Clients \cup {"abrt"})
  BY ListenerIn DEF Uses, Typed, SockType
<1>5. 1 \in DOMAIN sock[0].q /\ sock[0].q[1] = First /\ First # "abrt"
  BY <1>2, <1>4, ClientAssumption DEF First
<1>6. cl[First] \in Fresh /\ \A f \in Fds : sock[f].use = "ctl" => sock[f].peer # First
  BY <1>5, QueuedIs
<1>7. \A f \in Fds : sock[f].use = "ctl" => sock'[f].peer = sock[f].peer
  BY <1>2, <1>3, <1>4
<1>8. \A r \in Open : With(r)' = With(r) /\ With(r) # First
  BY <1>6, <1>7, WithKept, PeerIs DEF With
<1>9. With(new)' = First
  BY <1>2, <1>3 DEF With
<1>10. Blank(cl[First]) /\ Blank(cl'[First])
  <2>1. cl[First] \in ClType
    BY <1>2 DEF Typed
  <2>2. Blank(cl[First])
    BY <1>6, FreshIs
  <2> QED
    BY <1>2, <2>1, <2>2, AdmittedIs
<1> QED
  BY <1>1, <1>2, <1>3, <1>4, <1>6, <1>8, <1>9, <1>10

\* Every step keeps what no leak needs.
LEMMA LeaksDoes ==
  ASSUME Typed, Typed', Uses, Uses', Queued, Listeners, Talk, Leaks,
         Serves \/ Idles \/ \E c \in Clients : Acts(c)
  PROVE  Leaks'
<1>1. CASE Attends
  <2>1. abandoned' = abandoned
    BY <1>1, OthersStay
  <2>2. ~abandoned => Remembered' /\ Gone' /\ (pc' = "pasv" => Expecting')
    BY <1>1, RememberedServes, GoneServes, ExpectingServes DEF Leaks
  <2> QED
    BY <1>1, <2>1, <2>2, ListeningServes DEF Leaks
<1>2. CASE Watches \/ AdmitsNone
  <2>1. /\ Open' = Open /\ cl' = cl /\ UNCHANGED <<abandoned, pasvFailed>> /\ pc # "pasv" /\ pc' # "pasv"
        /\ \A f \in Fds \ {0} : sock'[f] = sock[f]
        /\ sock[0].use = "listen" /\ sock'[0].use = "listen"
    BY <1>2, ListenerIn DEF Watches, AdmitsNone, Quiet, hist, Open, Uses
  <2>2. \A r \in Open : With(r)' = With(r)
    BY <2>1, WithKept
  <2>3. Remembered => Remembered'
    BY <2>1, <2>2 DEF Remembered
  <2>4. Gone => Gone'
    BY <2>1 DEF Gone
  <2>5. Listening'
    BY <2>1 DEF Leaks, Listening
  <2> QED
    BY <2>1, <2>3, <2>4, <2>5 DEF Leaks
<1>3. CASE Admits
  <2>1. PICK new \in ConnType :
           /\ AdmitsWith(new) /\ First \in Clients /\ New \in Fds /\ sock[New].use = "free"
           /\ Open' = Open \cup {new}
           /\ \A r \in Open : With(r)' = With(r) /\ With(r) # First
           /\ \A f \in Fds \ {0, New} : sock'[f] = sock[f]
           /\ sock[0].use = "listen" /\ sock'[0].use = "listen" /\ sock'[New].use = "ctl"
           /\ Blank(cl'[First]) /\ \A c \in Clients \ {First} : cl'[c] = cl[c]
    BY <1>3, AdmitsIs
  <2>2. UNCHANGED <<abandoned, pasvFailed>> /\ pc # "pasv" /\ pc' # "pasv"
    BY <2>1 DEF AdmitsWith, hist
  <2>3. Remembered => Remembered'
    <3> SUFFICES ASSUME Remembered, NEW f \in Fds, sock'[f].use = "data"
                 PROVE  cl'[sock'[f].peer].data # "none"
                        /\ \E r \in Open' : With(r)' = sock'[f].peer /\ r.pasv = f
      BY DEF Remembered
    <3>1. sock'[f] = sock[f] /\ sock[f].use = "data" /\ sock[f].peer \in Clients
      BY <2>1 DEF Uses
    <3>2. PICK r \in Open : With(r) = sock[f].peer /\ r.pasv = f
      BY <3>1 DEF Remembered
    <3> QED
      BY <2>1, <3>1, <3>2 DEF Remembered
  <2>4. Gone => Gone'
    <3>1. cl'[First].data = "none" /\ cl'[First].cmd # "PORT"
      BY <2>1 DEF Blank
    <3> QED
      BY <2>1, <3>1 DEF Gone
  <2>5. Listening'
    <3>1. \A f \in Fds : sock'[f].use = "pl" => sock[f].use = "pl"
      BY <2>1
    <3> QED
      BY <2>2, <3>1 DEF Leaks, Listening
  <2> QED
    BY <2>2, <2>3, <2>4, <2>5 DEF Leaks
<1>4. CASE Idles
  <2>1. /\ Open' = Open /\ cl' = cl /\ UNCHANGED <<abandoned, pasvFailed>> /\ pc' = pc /\ pl' = pl /\ sock' = sock
        /\ (Serving => Peer' = Peer)
    BY <1>4, TurnKept DEF Idles, SameServer, hist
  <2>2. \A r \in Open : With(r)' = With(r)
    BY <2>1, WithKept
  <2>3. Remembered => Remembered'
    BY <2>1, <2>2 DEF Remembered
  <2>4. Gone => Gone'
    BY <2>1 DEF Gone
  <2>5. Listening'
    BY <2>1 DEF Leaks, Listening
  <2>6. pc = "pasv" /\ Expecting => Expecting'
    BY <2>1 DEF Expecting, Serving
  <2> QED
    BY <2>1, <2>3, <2>4, <2>5, <2>6 DEF Leaks
<1>5. CASE \E c \in Clients : Acts(c)
  BY <1>5, LeaksActs
<1> QED
  BY <1>1, <1>2, <1>3, <1>4, <1>5 DEF Serves, Attends

-----------------------------------------------------------------------------
(* The data connection that pasv_sockfd names.                             *)

\* No step uses a socket that is not its own without a cause.
LEMMA AliasedServes ==
  ASSUME Typed, Typed', Uses, Uses', Listeners, Aliases, Attends, pc' = "aliased"
  PROVE  pasvFailed' \/ misused'
<1>1. Strays \/ (~Strays /\ pc = "aliased")
  BY DEF Attends, Answers, AnswersWith, Closes, Drops, PortOpens, Listens, Joins, JoinsNone, Begins,
         Moves, Goes
<1>2. misused' = misused /\ (pasvFailed => pasvFailed')
  BY OthersStay
<1>3. CASE ~Strays
  BY <1>1, <1>2, <1>3 DEF Aliases
<1>4. CASE Strays /\ ~pasvFailed' /\ ~misused
  <2>1. /\ pc = "loop" /\ cl[Peer].cmd \in {"LIST", "RETR", "STOR"} /\ Serving /\ Foreign
    BY <1>4 DEF Strays
  <2>2. Named /\ Asking
    BY <1>2, <1>4 DEF Aliases
  <2>3. Cur \in Open /\ Peer = With(Cur) /\ Peer \in Clients
    BY <2>1, PeerIs, CurIs
  <2>4. cl[Peer].data # "none"
    BY <2>1, <2>2, <2>3 DEF Asking
  <2>5. OwnedBy(Cur)
    BY <2>1, <2>2, <2>3, <2>4 DEF Named
  <2> QED
    BY <2>1, <2>3, <2>5 DEF OwnedBy, Foreign, Own, Pasv
<1> QED
  BY <1>1, <1>2, <1>3, <1>4

\* A step for one connection leaves the data sockets of the others named.
LEMMA NamedAttends ==
  ASSUME Typed, Typed', Uses, Uses', Listeners, Attends, Named,
         \A r \in Open' : r \notin Open \ {Cur} =>
           r.fd = Cur.fd /\ (cl'[Peer].data # "none" =>
                               r.pasv \in Fds /\ sock'[r.pasv].use = "data" /\ sock'[r.pasv].peer = Peer)
  PROVE  Named'
<1>0. Serving /\ Others /\ Peer = sock[Cur.fd].peer
  BY AttendsAre DEF Peer
<1>1. SUFFICES ASSUME NEW r \in Open', cl'[With(r)'].data # "none"
               PROVE  r.pasv \in Fds /\ sock'[r.pasv].use = "data" /\ sock'[r.pasv].peer = With(r)'
  BY DEF Named, OwnedBy
<1>2. With(r)' = With(r)
  BY OthersStay
<1>3. CASE r \in Open \ {Cur}
  <2>1. With(r) # Peer /\ With(r) \in Clients
    BY <1>3, OthersStay, PeerIs
  <2>2. cl[With(r)].data # "none" /\ r # Cur
    BY <1>0, <1>1, <1>2, <1>3, <2>1 DEF Others
  <2>3. OwnedBy(r)
    BY <1>3, <2>2 DEF Named
  <2>4. sock'[r.pasv] = sock[r.pasv]
    BY <2>1, <2>3, OthersStay DEF OwnedBy
  <2> QED
    BY <1>2, <2>3, <2>4 DEF OwnedBy
<1>4. CASE r \notin Open \ {Cur}
  BY <1>0, <1>1, <1>2, <1>4 DEF With
<1> QED
  BY <1>3, <1>4

\* Every step of the task leaves the data sockets named.
LEMMA NamedServes ==
  ASSUME Typed, Typed', Uses, Uses', Listeners, Talk, Attends, Named, ~pasvFailed'
  PROVE  Named'
<1>0. /\ Serving /\ Peer = sock[Cur.fd].peer /\ Peer \in Clients /\ Cur \in Open /\ Cur.fd \in Fds
      /\ Peer = With(Cur) /\ Polite(cl[Peer]) /\ Pasv = Cur.pasv
  BY AttendsAre, PeerIs, CurIs DEF Peer, Talk, Pasv
<1>1. pc # "pasv" /\ cl[Peer].data # "none" =>
        Own /\ Cur.pasv \in Fds /\ sock[Cur.pasv].use = "data" /\ sock[Cur.pasv].peer = Peer
  BY <1>0 DEF Named, OwnedBy, Own
<1> DEFINE Mine(r) == r.pasv \in Fds /\ sock'[r.pasv].use = "data" /\ sock'[r.pasv].peer = Peer
<1>2. SUFFICES ASSUME NEW r \in Open', r \notin Open \ {Cur}
               PROVE  r.fd = Cur.fd /\ (cl'[Peer].data # "none" => Mine(r))
  BY NamedAttends
<1>3. CASE Answers
  <2>1. PICK new \in ConnType : AnswersWith(new)
    BY <1>3 DEF Answers
  <2>2. sock' = sock /\ r = new /\ new.fd = Cur.fd /\ pc # "pasv"
        /\ cl'[Peer].data = cl[Peer].data /\ (new.pasv = Cur.pasv \/ cl[Peer].cmd = "PORT")
    BY <1>2, <2>1 DEF AnswersWith, EntryTo, Entries, NewEntry, SameData
  <2>3. cl[Peer].cmd = "PORT" => cl[Peer].data = "none"
    BY <1>0 DEF Polite
  <2> QED
    BY <1>1, <2>2, <2>3
<1>4. CASE Closes
  <2>1. Open' = Open /\ pc # "pasv" /\ IF Own THEN NoData(cl'[Peer]) ELSE SameData(cl[Peer], cl'[Peer])
    BY <1>4 DEF Closes, Open
  <2>2. r = Cur /\ cl'[Peer].data = "none"
    BY <1>1, <1>2, <2>1 DEF NoData, SameData
  <2> QED
    BY <2>2
<1>5. CASE Drops
  BY <1>2, <1>5 DEF Drops, Entries
<1>6. CASE PortOpens
  <2>1. /\ New \in Fds /\ sock'[New].peer = Peer /\ sock'[New].use = "data"
        /\ r = Entry(New) /\ Entry(New).fd = Cur.fd /\ Entry(New).pasv = New
    BY <1>2, <1>6 DEF PortOpens, Takes, Remembers, EntryTo, Entries
  <2> QED
    BY <2>1
<1>7. CASE Listens
  <2>1. Open' = Open /\ cl[Peer].cmd = "PASV" /\ cl'[Peer].data = cl[Peer].data
    BY <1>7 DEF Listens, SameData, Open
  <2>2. r = Cur /\ cl[Peer].data = "none"
    BY <1>0, <1>2, <2>1 DEF Polite
  <2> QED
    BY <2>1, <2>2
<1>8. CASE Joins
  <2>1. /\ pc = "pasv" /\ sock[pl].q # <<>> /\ Head(sock[pl].q) # "abrt"
        /\ sock'[New].peer = Head(sock[pl].q) /\ sock'[New].use = "data" /\ New \in Fds
        /\ r = Entry(New) /\ Entry(New).fd = Cur.fd /\ Entry(New).pasv = New
    BY <1>2, <1>8 DEF Joins, Takes, Remembers, EntryTo, Entries
  <2>2. pl \in Fds /\ sock[pl].use = "pl" /\ sock[pl].peer = Peer /\ sock[pl].q \in Seq(Clients \cup {"abrt"})
    BY <2>1 DEF Listeners, Typed, SockType
  <2>3. 1 \in DOMAIN sock[pl].q /\ Head(sock[pl].q) = sock[pl].q[1]
    BY <2>1, <2>2, TailGives
  <2>4. Head(sock[pl].q) = Peer
    BY <2>1, <2>2, <2>3 DEF Listeners
  <2> QED
    BY <2>1, <2>4
<1>9. CASE JoinsNone
  BY <1>9 DEF JoinsNone
<1>10. CASE Begins \/ Moves \/ Strays
  <2>1. sock' = sock /\ Open' = Open /\ pc # "pasv" /\ cl'[Peer].data = cl[Peer].data
    <3>1. cl[Peer] \in ClType
      BY <1>0 DEF Typed
    <3>2. CASE Begins
      BY <3>1, <3>2 DEF Begins, Stays, Open, ClType
    <3>3. CASE Moves
      BY <3>1, <3>3 DEF Moves, Stays, Open, ClType
    <3>4. CASE Strays
      BY <3>4 DEF Strays, Open
    <3> QED
      BY <1>10, <3>2, <3>3, <3>4
  <2> QED
    BY <1>1, <1>2, <2>1
<1> QED
  BY <1>3, <1>4, <1>5, <1>6, <1>7, <1>8, <1>9, <1>10 DEF Attends

\* A client that asks for a transfer keeps its data connection until it is answered.
LEMMA AskingServes ==
  ASSUME Typed, Uses, Listeners, Talk, Attends, Asking, ~pasvFailed'
  PROVE  Asking'
<1>0. Serving /\ Peer \in Clients /\ cl[Peer] \in ClType /\ \A c \in Clients \ {Peer} : cl'[c] = cl[c]
  <2>1. Serving /\ Others
    BY AttendsAre
  <2> QED
    BY <2>1, PeerIs DEF Others, Typed
<1>1. cl'[Peer].cmd \in {"LIST", "RETR", "STOR"} => cl'[Peer].data # "none"
  <2>1. CASE Answers \/ PortOpens \/ Listens
    BY <2>1 DEF Answers, AnswersWith, PortOpens, Listens, AnsweredAs
  <2>2. CASE Closes
    <3>1. pc # "pasv" /\ pc # "aliased"
      BY <2>2 DEF Closes
    <3>2. CASE SameTalk(cl[Peer], cl'[Peer]) /\ pc # "loop" /\ pc # "retr"
      <4>1. pc = "stor"
        BY <1>0, <3>1, <3>2 DEF Serving, Typed
      <4> QED
        BY <3>2, <4>1 DEF Talk, Stored, Awaits, SameTalk
    <3> QED
      BY <2>2, <3>2 DEF Closes, AnsweredAs
  <2>3. CASE Drops
    BY <2>3 DEF Drops, NewClient
  <2>4. CASE Joins \/ Strays
    BY <1>0, <2>4 DEF Joins, Strays, Asking
  <2>5. CASE JoinsNone
    BY <2>5 DEF JoinsNone
  <2>6. CASE Begins
    <3>1. cl'[Peer].cmd = "none"
      BY <1>0, <2>6 DEF Begins, ClType
    <3> QED
      BY <3>1
  <2>7. CASE Moves
    <3>1. cl'[Peer].data = cl[Peer].data /\ cl'[Peer].cmd = cl[Peer].cmd
      BY <1>0, <2>7 DEF Moves, ClType
    <3> QED
      BY <1>0, <3>1 DEF Asking
  <2> QED
    BY <2>1, <2>2, <2>3, <2>4, <2>5, <2>6, <2>7 DEF Attends
<1> QED
  BY <1>0, <1>1 DEF Asking

\* No data connection is new, and none of those there are closes.
LEMMA NamedStays ==
  ASSUME Typed, Uses, Named, Open' = Open, \A r \in Open : With(r)' = With(r),
         \A f \in Fds : sock[f].use = "data" => sock'[f] = sock[f],
         \A c \in Clients : cl'[c].data # "none" => cl[c].data # "none",
         pc = "pasv" => pc' = "pasv" /\ Cur' = Cur /\ sock'[pl'].q = sock[pl].q
  PROVE  Named'
<1> SUFFICES ASSUME NEW r \in Open, cl'[With(r)].data # "none"
             PROVE  OwnedBy(r)' \/ (pc' = "pasv" /\ r = Cur' /\ sock'[pl'].q = <<With(r)>>)
  BY DEF Named
<1>1. With(r) \in Clients /\ With(r)' = With(r)
  BY PeerIs
<1>2. OwnedBy(r) \/ (pc = "pasv" /\ r = Cur /\ sock[pl].q = <<With(r)>>)
  BY <1>1 DEF Named
<1>3. CASE OwnedBy(r)
  BY <1>1, <1>3 DEF OwnedBy
<1>4. CASE pc = "pasv" /\ r = Cur /\ sock[pl].q = <<With(r)>>
  BY <1>4
<1> QED
  BY <1>2, <1>3, <1>4

\* A step of a client leaves the histories of PASV alone, and asks no less than before.
LEMMA ActsPast ==
  ASSUME Typed, NEW c \in Clients, Acts(c)
  PROVE  pasvFailed' = pasvFailed /\ uncleared' = uncleared /\ (misused => misused')
<1>1. CASE Connects(c)
  BY <1>1 DEF Connects, hist
<1>2. CASE JoinsBy(c)
  BY <1>2 DEF JoinsBy, JoinsAt, hist
<1>3. CASE Streams(c)
  BY <1>3 DEF Streams, hist
<1>4. CASE Leaves(c)
  BY <1>4 DEF Leaves
<1>5. CASE \E k \in Cmds, n \in 0 .. FileLen : Sends(c, k, n)
  BY <1>5 DEF Sends
<1> QED
  BY <1>1, <1>2, <1>3, <1>4, <1>5 DEF Acts

\* Only the connection to a listener is a new data connection.
LEMMA ActsNewData ==
  ASSUME Typed, NEW c \in Clients, Acts(c), ~JoinsBy(c), cl'[c].data # "none"
  PROVE  cl[c].data # "none"
<1>0. cl[c] \in ClType
  BY DEF Typed
<1>1. CASE Connects(c)
  <2>1. cl'[c].data = "none"
    BY <1>1 DEF Connects, NewClient
  <2> QED
    BY <2>1
<1>2. CASE Streams(c)
  BY <1>2 DEF Streams
<1>3. CASE Leaves(c)
  <2>1. CASE cl[c].data = "none"
    <3>1. cl'[c] = [cl[c] EXCEPT !.ctl = "fin", !.wait = FALSE, !.data = "none"]
      BY <1>3, <2>1 DEF Leaves
    <3>2. cl'[c].data = "none"
      BY <1>0, <3>1 DEF ClType
    <3> QED
      BY <3>2
  <2> QED
    BY <2>1
<1>4. CASE \E k \in Cmds, n \in 0 .. FileLen : Sends(c, k, n)
  BY <1>4 DEF Sends, NoData, SameData
<1> QED
  BY <1>1, <1>2, <1>3, <1>4 DEF Acts

\* Clients that connect do so to listeners.
LEMMA ActsQueues ==
  ASSUME Typed, Uses, NEW c \in Clients, Acts(c), ~JoinsBy(c)
  PROVE  \A f \in Fds \ {0} : sock'[f] = sock[f]
<1>1. CASE Connects(c)
  BY <1>1 DEF Connects
<1>2. CASE ~Connects(c)
  <2>1. sock' = sock
    BY <1>2 DEF Acts, Streams, Leaves, Sends
  <2> QED
    BY <2>1
<1> QED
  BY <1>1, <1>2

\* The client of the PASV being served connects to its listener.
LEMMA JoinsNamed ==
  ASSUME Typed, Typed', Uses, Listeners, Leaks, Named, Joined, ~pasvFailed, NEW c \in Clients, JoinsBy(c)
  PROVE  Named' /\ Joined'
<1>1. PICK f \in Fds : JoinsAt(c, f) /\ sock[f].peer = c
  BY ListenersJoinsBy
<1>2. /\ SameServer /\ AllBut(c) /\ sock[f].use = "pl" /\ cl[c].rep = "227" /\ cl[c].data = "none"
      /\ \A g \in Fds \ {f} : sock'[g] = sock[g]
      /\ sock'[f].use = "pl"
  BY <1>1 DEF JoinsAt
<1>3. pc = "pasv" /\ pl = f /\ Serving
  BY <1>2 DEF Leaks, Listening, Serving
<1>4. Peer = c /\ sock[f].q = <<>> /\ Cur \in Open /\ With(Cur) = c /\ pl' = f /\ pc' = "pasv"
  BY <1>1, <1>2, <1>3, PeerIs, CurIs DEF Listeners, SameServer
<1>5. sock'[f].q = <<c>> \/ (sock'[f].q = <<"abrt">> /\ cl'[c].data = "none")
  <2>1. cl[c] \in ClType
    BY DEF Typed
  <2>2. CASE cl'[c] = [cl[c] EXCEPT !.rep = "none"] /\ sock'[f].q = Append(sock[f].q, "abrt")
    <3>1. cl'[c].data = "none"
      BY <1>2, <2>1, <2>2 DEF ClType
    <3> QED
      BY <1>4, <2>2, <3>1
  <2>3. CASE sock'[f].q = Append(sock[f].q, c)
    BY <1>4, <2>3
  <2> QED
    BY <1>1, <2>2, <2>3 DEF JoinsAt
<1>6. Joined'
  BY <1>4, <1>5 DEF Joined
<1>7. Open' = Open /\ Cur' = Cur /\ \A r \in Open : With(r)' = With(r) /\ With(r) \in Clients
  BY <1>2, WithKept, PeerIs DEF SameServer
<1>8. Named'
  <2> SUFFICES ASSUME NEW r \in Open, cl'[With(r)].data # "none"
               PROVE  OwnedBy(r)' \/ (pc' = "pasv" /\ r = Cur' /\ sock'[pl'].q = <<With(r)>>)
    BY <1>7 DEF Named
  <2>1. CASE With(r) = c
    <3>1. r = Cur
      BY <1>4, <2>1, OneEach
    <3> QED
      BY <1>4, <1>5, <1>7, <2>1, <3>1
  <2>2. CASE With(r) # c
    <3>1. cl[With(r)].data # "none" /\ r # Cur
      BY <1>2, <1>4, <1>7, <2>2 DEF AllBut
    <3>2. OwnedBy(r)
      BY <3>1 DEF Named
    <3> QED
      BY <1>2, <1>7, <3>2 DEF OwnedBy
  <2> QED
    BY <2>1, <2>2
<1> QED
  BY <1>6, <1>8

\* A client that asks for a transfer has a data connection, or is careless.
LEMMA AskingActs ==
  ASSUME Typed, Talk, Asking, NEW c \in Clients, Acts(c), ~misused'
  PROVE  Asking'
<1>0. cl[c] \in ClType /\ Polite(cl[c]) /\ \A x \in Clients \ {c} : cl'[x] = cl[x]
  BY ActsAre DEF Typed, Talk, AllBut
<1>1. cl'[c].cmd \in {"LIST", "RETR", "STOR"} => cl'[c].data # "none"
  <2>1. CASE Connects(c)
    <3>1. cl'[c].cmd = "none"
      BY <2>1 DEF Connects, NewClient
    <3> QED
      BY <3>1
  <2>2. CASE JoinsBy(c)
    <3>1. cl[c].cmd = "none"
      BY <1>0, <2>2 DEF JoinsBy, JoinsAt, Polite
    <3>2. cl'[c].cmd = "none"
      BY <1>0, <2>2, <3>1 DEF JoinsBy, JoinsAt, ClType
    <3> QED
      BY <3>2
  <2>3. CASE Streams(c)
    BY <2>3 DEF Streams
  <2>4. CASE Leaves(c)
    <3>1. cl'[c].cmd = cl[c].cmd /\ (cl[c].data # "none" => cl'[c].data # "none")
      <4>1. CASE cl[c].data = "open"
        <5>1. cl'[c] = [cl[c] EXCEPT !.ctl = "fin", !.wait = FALSE, !.data = "fin"]
          BY <2>4, <4>1 DEF Leaves
        <5> QED
          BY <1>0, <5>1 DEF ClType
      <4>2. CASE cl[c].data # "open"
        <5>1. cl'[c] = [cl[c] EXCEPT !.ctl = "fin", !.wait = FALSE, !.data = @]
          BY <2>4, <4>2 DEF Leaves
        <5> QED
          BY <1>0, <5>1 DEF ClType
      <4> QED
        BY <4>1, <4>2
    <3> QED
      BY <3>1 DEF Asking
  <2>5. CASE \E k \in Cmds, n \in 0 .. FileLen : Sends(c, k, n)
    <3>1. PICK k \in Cmds, n \in 0 .. FileLen : Sends(c, k, n)
      BY <2>5
    <3>2. cl'[c].cmd = k /\ (k \in {"LIST", "RETR", "STOR"} => cl[c].data = "open")
      BY <3>1 DEF Sends
    <3>3. k \in {"LIST", "RETR", "STOR"} => SameData(cl[c], cl'[c])
      BY <3>1 DEF Sends, Gives
    <3> QED
      BY <3>2, <3>3 DEF SameData
  <2> QED
    BY <2>1, <2>2, <2>3, <2>4, <2>5 DEF Acts
<1> QED
  BY <1>0, <1>1 DEF Asking

\* pasv_sockfd names the client's own data connection, or there is a cause.
LEMMA AliasesDoes ==
  ASSUME Typed, Typed', Uses, Uses', Queued, Listeners, Talk, Leaks, Aliases,
         Serves \/ Idles \/ \E c \in Clients : Acts(c)
  PROVE  Aliases'
<1>1. CASE Attends
  <2>1. (pasvFailed => pasvFailed') /\ misused' = misused
    BY <1>1, OthersStay
  <2>2. ASSUME ~pasvFailed' PROVE Named' /\ Joined' /\ (~misused' => Asking')
    <3>1. Named /\ Joined /\ (~misused => Asking)
      BY <2>1, <2>2 DEF Aliases
    <3>2. Named' /\ (~misused' => Asking')
      BY <1>1, <2>1, <2>2, <3>1, NamedServes, AskingServes
    <3>3. Joined'
      <4>1. CASE Listens
        BY <4>1 DEF Listens, Takes, Joined
      <4>2. CASE ~Listens
        <5>1. pc' # "pasv"
          <6>1. CASE Begins \/ Moves \/ Strays
            BY <6>1 DEF Begins, Moves, Strays
          <6> QED
            BY <1>1, <4>2, <6>1
               DEF Attends, Answers, AnswersWith, Closes, Drops, PortOpens, Joins, JoinsNone, Goes
        <5> QED
          BY <5>1 DEF Joined
      <4> QED
        BY <4>1, <4>2
    <3> QED
      BY <3>2, <3>3
  <2> QED
    BY <1>1, <2>2, AliasedServes DEF Aliases
<1>2. CASE Watches \/ AdmitsNone
  <2>1. /\ Open' = Open /\ cl' = cl /\ UNCHANGED <<misused, pasvFailed>> /\ pc # "pasv"
        /\ pc' # "pasv" /\ pc' # "aliased"
        /\ \A f \in Fds \ {0} : sock'[f] = sock[f]
        /\ sock[0].use = "listen" /\ sock'[0].use = "listen"
    BY <1>2, ListenerIn DEF Watches, AdmitsNone, Quiet, hist, Open, Uses
  <2>2. \A r \in Open : With(r)' = With(r)
    BY <2>1, WithKept
  <2>3. Named => Named'
    BY <2>1, <2>2, NamedStays
  <2>4. Asking => Asking'
    BY <2>1 DEF Asking
  <2> QED
    BY <2>1, <2>3, <2>4 DEF Aliases, Joined
<1>3. CASE Admits
  <2>1. PICK new \in ConnType :
           /\ AdmitsWith(new) /\ First \in Clients /\ New \in Fds /\ sock[New].use = "free"
           /\ Open' = Open \cup {new} /\ With(new)' = First
           /\ \A r \in Open : With(r)' = With(r) /\ With(r) # First
           /\ \A f \in Fds \ {0, New} : sock'[f] = sock[f]
           /\ sock[0].use = "listen"
           /\ Blank(cl'[First]) /\ \A c \in Clients \ {First} : cl'[c] = cl[c]
    BY <1>3, AdmitsIs
  <2>2. UNCHANGED <<misused, pasvFailed>> /\ pc # "pasv" /\ pc' # "pasv" /\ pc' # "aliased"
    BY <2>1 DEF AdmitsWith, hist
  <2>3. cl'[First].data = "none" /\ cl'[First].cmd = "none"
    BY <2>1 DEF Blank
  <2>4. Named => Named'
    <3> SUFFICES ASSUME Named, NEW r \in Open', cl'[With(r)'].data # "none" PROVE OwnedBy(r)'
      BY DEF Named
    <3>1. r \in Open /\ With(r)' = With(r) /\ With(r) # First /\ With(r) \in Clients
      BY <2>1, <2>3, PeerIs
    <3>2. OwnedBy(r)
      BY <2>1, <2>2, <3>1 DEF Named
    <3> QED
      BY <2>1, <3>1, <3>2 DEF OwnedBy
  <2>5. Asking => Asking'
    BY <2>1, <2>3 DEF Asking
  <2> QED
    BY <2>2, <2>4, <2>5 DEF Aliases, Joined
<1>4. CASE Idles
  <2>1. /\ Open' = Open /\ cl' = cl /\ UNCHANGED <<misused, pasvFailed>> /\ pc' = pc /\ pl' = pl
        /\ sock' = sock /\ Cur' = Cur
    BY <1>4 DEF Idles, SameServer, hist
  <2>2. \A r \in Open : With(r)' = With(r)
    BY <2>1, WithKept
  <2>3. Named => Named'
    BY <2>1, <2>2, NamedStays
  <2>4. Asking => Asking'
    BY <2>1 DEF Asking
  <2>5. Joined => Joined'
    BY <2>1 DEF Joined
  <2> QED
    BY <2>1, <2>3, <2>4, <2>5 DEF Aliases
<1>5. ASSUME NEW c \in Clients, Acts(c) PROVE Aliases'
  <2>1. pasvFailed' = pasvFailed /\ (misused => misused')
    BY <1>5, ActsPast
  <2>2. SameServer /\ \A f \in Fds : sock[f].use \notin {"listen", "pl"} => sock'[f] = sock[f]
    BY <1>5, TurnKept
  <2>3. Open' = Open /\ Cur' = Cur /\ pc' = pc /\ pl' = pl /\ \A r \in Open : With(r)' = With(r)
    BY <2>2, WithKept DEF SameServer
  <2>4. ASSUME ~pasvFailed PROVE Named' /\ Joined'
    <3>1. Named /\ Joined
      BY <2>4 DEF Aliases
    <3>2. CASE JoinsBy(c)
      BY <2>4, <3>1, <3>2, JoinsNamed
    <3>3. CASE ~JoinsBy(c)
      <4>1. pc = "pasv" => sock'[pl].q = sock[pl].q
        <5>1. pc = "pasv" => pl \in Fds \ {0}
          BY ListenerIn DEF Listeners, Typed, Uses
        <5> QED
          BY <1>5, <3>3, <5>1, ActsQueues
      <4>2. \A x \in Clients : cl'[x].data # "none" => cl[x].data # "none"
        BY <1>5, <3>3, ActsNewData, ActsAre DEF AllBut
      <4>3. Named'
        BY <2>2, <2>3, <3>1, <4>1, <4>2, NamedStays
      <4>4. Joined'
        BY <2>3, <3>1, <4>1 DEF Joined
      <4> QED
        BY <4>3, <4>4
    <3> QED
      BY <3>2, <3>3
  <2>5. ~pasvFailed /\ ~misused' => Asking'
    BY <1>5, <2>1, AskingActs DEF Aliases
  <2> QED
    BY <2>1, <2>3, <2>4, <2>5 DEF Aliases
<1> QED
  BY <1>1, <1>2, <1>3, <1>4, <1>5 DEF Serves, Attends

-----------------------------------------------------------------------------
(* What select watches.                                                    *)

\* The task serves no connection it has forgotten to stop watching.
LEMMA HearsAttends ==
  ASSUME Typed, Uses, Listeners, Attends, Hears
  PROVE  Hears'
<1> SUFFICES ASSUME ~uncleared' PROVE Hears'
  BY DEF Hears
<1>0. /\ ~uncleared /\ pc' # "accept" /\ readfds' \subseteq readfds
      /\ ~Drops \/ readfds' = readfds \ {Cur.fd}
  <2>1. CASE Answers
    BY <2>1 DEF Answers, AnswersWith, Goes, Quiet, hist, Drops
  <2>2. CASE Closes
    BY <2>2 DEF Closes, Goes, Drops
  <2>3. CASE Drops
    BY <2>3 DEF Drops, Goes
  <2>4. CASE PortOpens
    BY <2>4 DEF PortOpens, Goes, Quiet, hist, Drops
  <2>5. CASE Listens
    BY <2>5 DEF Listens, Quiet, hist, Drops
  <2>6. CASE Joins
    BY <2>6 DEF Joins, Goes, Quiet, hist, Drops
  <2>7. CASE JoinsNone
    BY <2>7 DEF JoinsNone, Goes, Drops
  <2>8. CASE Begins
    BY <2>8 DEF Begins, Stays, Quiet, hist, Drops
  <2>9. CASE Moves
    BY <2>9 DEF Moves, Stays, Quiet, hist, Drops, Goes
  <2>10. CASE Strays
    BY <2>10 DEF Strays, Drops, Goes
  <2> QED
    BY <2>1, <2>2, <2>3, <2>4, <2>5, <2>6, <2>7, <2>8, <2>9, <2>10 DEF Attends
<1>1. SUFFICES ASSUME NEW f \in readfds', f \in Fds
               PROVE  sock'[f].use \in {"listen", "ctl"}
  BY <1>0 DEF Hears, Typed
<1>2. sock[f].use \in {"listen", "ctl"} /\ (~Drops \/ f # Cur.fd)
  BY <1>0, <1>1 DEF Hears
<1>3. CASE Answers \/ Begins \/ Moves \/ Strays
  <2>1. sock' = sock
    BY <1>3 DEF Answers, AnswersWith, Begins, Moves, Stays, Strays
  <2> QED
    BY <1>2, <2>1
<1>4. CASE Closes
  BY <1>1, <1>2, <1>4 DEF Closes, Own
<1>5. CASE Drops
  <2>1. Drops /\ pc = "loop"
    BY <1>1, <1>5 DEF Drops
  <2>2. sock'[f] = sock[f]
    BY <1>1, <1>2, <2>1 DEF Drops
  <2> QED
    BY <1>2, <2>2
<1>6. CASE PortOpens \/ Listens
  BY <1>1, <1>2, <1>6 DEF PortOpens, Listens, Takes
<1>7. CASE Joins \/ JoinsNone
  <2>1. pl \in Fds /\ sock[pl].use = "pl"
    BY <1>7 DEF Joins, JoinsNone, Listeners, Typed
  <2> QED
    BY <1>1, <1>2, <1>7, <2>1 DEF Joins, JoinsNone, Takes
<1> QED
  BY <1>3, <1>4, <1>5, <1>6, <1>7 DEF Attends

\* Every step keeps the watched sockets open.
LEMMA HearsDoes ==
  ASSUME Typed, Uses, Queued, Listeners, Hears, Serves \/ Idles \/ \E c \in Clients : Acts(c)
  PROVE  Hears'
<1>0. 0 \in Fds /\ sock[0].use = "listen" /\ sock[0].q \in Seq(Clients \cup {"abrt"})
  BY ListenerIn DEF Uses, Typed, SockType
<1>1. CASE Attends
  BY <1>1, HearsAttends
<1>2. CASE Watches
  <2>1. sock' = sock /\ uncleared' = uncleared /\ readfds' = readfds \cup {r.fd : r \in Open}
        /\ (pc' = "accept" => Readable(0) \/ \E f \in readfds' : sock[f].use = "free")
    BY <1>2 DEF Watches, hist
  <2>2. \A r \in Open : sock[r.fd].use = "ctl"
    BY PeerIs
  <2>3. Readable(0) => sock[0].q # <<>>
    BY <1>0 DEF Readable
  <2> QED
    BY <2>1, <2>2, <2>3 DEF Hears
<1>3. CASE AdmitsNone
  <2>1. pc' = "select" /\ readfds' = readfds /\ uncleared' = uncleared
        /\ \A f \in Fds : sock'[f].use = sock[f].use
    BY <1>3 DEF AdmitsNone, Quiet, hist
  <2> QED
    BY <2>1 DEF Hears, Typed
<1>4. CASE Admits
  <2>1. PICK new \in ConnType : AdmitsWith(new) /\ New \in Fds /\ sock'[New].use = "ctl"
          /\ sock'[0].use = "listen" /\ \A f \in Fds \ {0, New} : sock'[f] = sock[f]
    BY <1>4, AdmitsIs
  <2>2. pc' # "accept" /\ readfds' = readfds \cup {New} /\ uncleared' = uncleared
    BY <2>1 DEF AdmitsWith, hist
  <2> QED
    BY <2>1, <2>2 DEF Hears, Typed
<1>5. CASE Idles
  BY <1>5 DEF Idles, SameServer, hist, Hears
<1>6. ASSUME NEW c \in Clients, Acts(c) PROVE Hears'
  <2>1. SameServer /\ (\A f \in Fds : sock'[f].use = sock[f].use) /\ uncleared' = uncleared
    BY <1>6, TurnKept, ActsPast
  <2>2. sock[0].q # <<>> => sock'[0].q # <<>>
    <3>1. CASE Connects(c)
      <4>1. sock'[0].q = Append(sock[0].q, c) \/ sock'[0].q = Append(sock[0].q, "abrt")
        BY <3>1 DEF Connects
      <4> QED
        BY <1>0, <4>1
    <3>2. CASE JoinsBy(c)
      BY <1>0, <3>2 DEF JoinsBy, JoinsAt
    <3>3. CASE ~Connects(c) /\ ~JoinsBy(c)
      <4>1. sock' = sock
        BY <1>6, <3>3 DEF Acts, Streams, Leaves, Sends
      <4> QED
        BY <4>1
    <3> QED
      BY <3>1, <3>2, <3>3
  <2> QED
    BY <2>1, <2>2 DEF Hears, SameServer, Typed
<1> QED
  BY <1>1, <1>2, <1>3, <1>4, <1>5, <1>6 DEF Serves, Attends

-----------------------------------------------------------------------------
(* Where transfers start.                                                  *)

\* A client whose command was answered asks for nothing more.
LEMMA AnsweredPlaced ==
  ASSUME NEW c \in ClType, NEW d \in ClType, NEW r, AnsweredAs(c, d, r), SameSelf(c, d), Asker(c)
  PROVE  /\ d.from = 0 /\ Asker(d)
         /\ \A o : Placed(c, o) /\ (c.from > 0 => c.asked = 0) /\ c.cmd # "REST" => Placed(d, o)
         /\ c.asked = 0 => Placed(d, 0)
         /\ c.from = 0 => Placed(d, c.asked)
BY DEF AnsweredAs, SameSelf, Asker, Placed, ClType

\* What does not look at commands and offsets.
LEMMA SamePlaced ==
  ASSUME NEW c, NEW d, SameTalk(c, d), SameSelf(c, d)
  PROVE  /\ Asker(c) => Asker(d)
         /\ \A o : Placed(c, o) => Placed(d, o)
BY DEF SameTalk, SameSelf, Asker, Placed

\* Only the entry of the client served, and what it asked for, change.
LEMMA OffsetsOthers ==
  ASSUME Typed, Typed', Uses, Uses', Listeners, Attends, Offsets,
         \A r \in Open' : r \notin Open \ {Cur} => Placed(cl'[Peer], r.offset) /\ r.fd = Cur.fd,
         Asker(cl'[Peer]),
         cl'[Peer].from > 0 => cl'[Peer].cmd = "RETR" \/ (pc' = "retr" /\ Peer' = Peer)
  PROVE  Offsets'
<1>0. Serving /\ Others /\ Peer = sock[Cur.fd].peer
  BY AttendsAre DEF Peer
<1>1. ASSUME NEW r \in Open' PROVE Placed(cl'[With(r)'], r.offset)
  <2>1. With(r)' = With(r)
    BY OthersStay
  <2>2. CASE r \in Open \ {Cur}
    <3>1. With(r) # Peer /\ With(r) \in Clients /\ Placed(cl[With(r)], r.offset)
      BY <2>2, OthersStay, PeerIs DEF Offsets
    <3> QED
      BY <1>0, <2>1, <3>1 DEF Others
  <2>3. CASE r \notin Open \ {Cur}
    BY <1>0, <2>1, <2>3 DEF With
  <2> QED
    BY <2>2, <2>3
<1>2. ASSUME NEW c \in Clients, c # Peer
      PROVE  Asker(cl'[c]) /\ (cl'[c].from > 0 => cl'[c].cmd = "RETR")
  BY <1>0, <1>2 DEF Others, Offsets
<1> QED
  BY <1>1, <1>2 DEF Offsets

\* A step for one connection keeps the offsets in place.
LEMMA OffsetsAttends ==
  ASSUME Typed, Typed', Uses, Uses', Listeners, Talk, Attends, Offsets
  PROVE  Offsets'
<1>0. /\ Serving /\ Peer \in Clients /\ Cur \in Open /\ Peer = With(Cur)
      /\ cl[Peer] \in ClType /\ cl'[Peer] \in ClType
  BY AttendsAre, PeerIs, CurIs DEF Typed
<1>1. /\ Placed(cl[Peer], Cur.offset) /\ Asker(cl[Peer]) /\ cl[Peer].from \in Nat /\ cl[Peer].asked \in Nat
      /\ cl[Peer].from > 0 => cl[Peer].cmd = "RETR" \/ pc = "retr"
      /\ Stored => cl[Peer].cmd = "none"
  BY <1>0, LengthAssumption DEF Offsets, Talk, Awaits, ClType
<1>2. cl[Peer].from > 0 => cl[Peer].asked = 0
  BY <1>1 DEF Placed, Stored, Asker
<1>3. SUFFICES /\ \A r \in Open' : r \notin Open \ {Cur} => Placed(cl'[Peer], r.offset) /\ r.fd = Cur.fd
               /\ Asker(cl'[Peer])
               /\ cl'[Peer].from > 0 => cl'[Peer].cmd = "RETR" \/ (pc' = "retr" /\ Peer' = Peer)
  BY OffsetsOthers
<1>4. CASE Answers
  <2>1. PICK new \in ConnType : AnswersWith(new)
    BY <1>4 DEF Answers
  <2>2. PICK rep \in {"200", "350", "425", "550"} : AnsweredAs(cl[Peer], cl'[Peer], rep)
    BY <2>1 DEF AnswersWith
  <2>3. Open' = (Open \ {Cur}) \cup {new} /\ new.fd = Cur.fd /\ NewEntry(new) /\ pc = "loop"
        /\ SameSelf(cl[Peer], cl'[Peer])
    BY <2>1 DEF AnswersWith, EntryTo, Entries
  <2>4. Placed(cl'[Peer], new.offset)
    <3>1. CASE cl[Peer].cmd = "REST"
      BY <1>0, <1>1, <2>2, <2>3, <3>1, AnsweredPlaced DEF NewEntry
    <3>2. CASE cl[Peer].cmd = "RETR"
      BY <1>0, <1>1, <2>2, <2>3, <3>2, AnsweredPlaced DEF NewEntry, Asker
    <3>3. CASE cl[Peer].cmd \notin {"REST", "RETR"}
      BY <1>0, <1>1, <1>2, <2>2, <2>3, <3>3, AnsweredPlaced DEF NewEntry
    <3> QED
      BY <3>1, <3>2, <3>3
  <2>5. Asker(cl'[Peer]) /\ cl'[Peer].from = 0
    BY <1>0, <1>1, <2>2, <2>3, AnsweredPlaced
  <2> QED
    BY <2>3, <2>4, <2>5
<1>5. CASE Closes
  <2>1. Open' = Open /\ SameSelf(cl[Peer], cl'[Peer]) /\ (pc = "loop" => cl[Peer].cmd \in {"PASV", "LIST"})
        /\ pc # "aliased" /\ pc # "accept" /\ pc # "select"
    BY <1>0, <1>5 DEF Closes, Open, Serving
  <2>2. CASE \E r \in {"226", "425"} : AnsweredAs(cl[Peer], cl'[Peer], r) /\ pc # "pasv"
    <3>1. PICK rep \in {"226", "425"} : AnsweredAs(cl[Peer], cl'[Peer], rep) /\ pc # "pasv"
      BY <2>2
    <3>2. cl[Peer].cmd # "REST"
      BY <1>1, <2>1, <3>1 DEF Stored, Typed
    <3>3. Placed(cl'[Peer], Cur.offset) /\ Asker(cl'[Peer]) /\ cl'[Peer].from = 0
      BY <1>0, <1>1, <1>2, <2>1, <3>1, <3>2, AnsweredPlaced
    <3> QED
      BY <2>1, <3>3
  <2>3. CASE SameTalk(cl[Peer], cl'[Peer]) /\ pc # "retr"
    <3>1. Placed(cl'[Peer], Cur.offset) /\ Asker(cl'[Peer])
      BY <1>1, <2>1, <2>3, SamePlaced
    <3>2. cl'[Peer].from > 0 => cl'[Peer].cmd = "RETR"
      BY <1>1, <2>3 DEF SameTalk
    <3> QED
      BY <2>1, <3>1, <3>2
  <2> QED
    BY <1>5, <2>2, <2>3 DEF Closes
<1>6. CASE Drops
  <2>1. Open' = Open \ {Cur} /\ cl'[Peer] = NewClient
    BY <1>6 DEF Drops, Entries
  <2>2. Asker(NewClient) /\ NewClient.from = 0
    BY DEF NewClient, Asker
  <2> QED
    BY <2>1, <2>2
<1>7. CASE PortOpens
  <2>1. /\ Open' = (Open \ {Cur}) \cup {Entry(New)} /\ Entry(New).fd = Cur.fd
        /\ Entry(New).offset = Cur.offset
        /\ AnsweredAs(cl[Peer], cl'[Peer], "200") /\ SameSelf(cl[Peer], cl'[Peer]) /\ cl[Peer].cmd = "PORT"
    BY <1>7 DEF PortOpens, Remembers, EntryTo, Entries
  <2>2. Placed(cl'[Peer], Cur.offset) /\ Asker(cl'[Peer]) /\ cl'[Peer].from = 0
    BY <1>0, <1>1, <1>2, <2>1, AnsweredPlaced
  <2> QED
    BY <2>1, <2>2
<1>8. CASE Listens
  <2>1. PICK rep : /\ Open' = Open /\ AnsweredAs(cl[Peer], cl'[Peer], rep) /\ SameSelf(cl[Peer], cl'[Peer])
                   /\ cl[Peer].cmd = "PASV"
    BY <1>8 DEF Listens, Open
  <2>2. Placed(cl'[Peer], Cur.offset) /\ Asker(cl'[Peer]) /\ cl'[Peer].from = 0
    BY <1>0, <1>1, <1>2, <2>1, AnsweredPlaced
  <2> QED
    BY <2>1, <2>2
<1>9. CASE Joins
  <2>1. /\ Open' = (Open \ {Cur}) \cup {Entry(New)} /\ Entry(New).fd = Cur.fd
        /\ Entry(New).offset = Cur.offset /\ cl' = cl /\ pc # "retr"
    BY <1>9 DEF Joins, Remembers, EntryTo, Entries
  <2> QED
    BY <1>1, <2>1
<1>10. CASE JoinsNone
  <2>1. /\ Open' = (Open \ {Cur}) \cup {Entry(NoFd)} /\ Entry(NoFd).fd = Cur.fd
        /\ Entry(NoFd).offset = Cur.offset /\ pc # "retr"
    BY <1>10 DEF JoinsNone, Remembers, EntryTo, Entries
  <2>2. CASE cl' = cl
    BY <1>1, <2>1, <2>2
  <2>3. CASE cl[Peer].cmd = "none" /\ AnsweredAs(cl[Peer], cl'[Peer], "425") /\ SameSelf(cl[Peer], cl'[Peer])
    <3>1. Placed(cl'[Peer], Cur.offset) /\ Asker(cl'[Peer]) /\ cl'[Peer].from = 0
      BY <1>0, <1>1, <1>2, <2>3, AnsweredPlaced
    <3> QED
      BY <2>1, <3>1
  <2> QED
    BY <1>10, <2>2, <2>3 DEF JoinsNone
<1>11. CASE Begins
  <2>1. /\ Open' = Open /\ Peer' = Peer /\ cl[Peer].cmd \in {"RETR", "STOR"} /\ pc = "loop"
        /\ cl[Peer].cmd = "RETR" => pc' = "retr"
        /\ cl'[Peer] = [cl[Peer] EXCEPT !.cmd = "none"]
    BY <1>11, SameTurn DEF Begins, Stays, Open, Peer
  <2>2. /\ cl'[Peer].cmd = "none" /\ cl'[Peer].from = cl[Peer].from /\ cl'[Peer].asked = cl[Peer].asked
        /\ cl'[Peer].rested = cl[Peer].rested
    BY <1>0, <2>1 DEF ClType
  <2>3. Placed(cl'[Peer], Cur.offset) /\ Asker(cl'[Peer])
    BY <1>1, <2>1, <2>2 DEF Placed, Asker
  <2> QED
    BY <1>1, <2>1, <2>2, <2>3
<1>12. CASE Moves
  <2>1. /\ Open' = Open /\ Peer' = Peer /\ pc' = pc /\ Stored
    BY <1>12, SameTurn DEF Moves, Stays, Open, Peer, Stored
  <2>2. /\ cl'[Peer].cmd = "none" /\ cl'[Peer].from = cl[Peer].from /\ cl'[Peer].asked = cl[Peer].asked
        /\ cl'[Peer].rested = cl[Peer].rested
    <3>1. CASE cl'[Peer] = cl[Peer]
      BY <1>1, <2>1, <3>1
    <3>2. CASE cl'[Peer] = [cl[Peer] EXCEPT !.got = Append(@, pos + 1)]
      BY <1>0, <1>1, <2>1, <3>2 DEF ClType
    <3>3. CASE cl'[Peer] = [cl[Peer] EXCEPT !.unread = 0]
      BY <1>0, <1>1, <2>1, <3>3 DEF ClType
    <3> QED
      BY <1>12, <3>1, <3>2, <3>3 DEF Moves
  <2>3. Placed(cl'[Peer], Cur.offset) /\ Asker(cl'[Peer])
    BY <1>1, <2>1, <2>2 DEF Placed, Asker
  <2> QED
    BY <1>1, <2>1, <2>2, <2>3
<1>13. CASE Strays
  <2>1. Open' = Open /\ cl' = cl /\ pc # "retr"
    BY <1>13 DEF Strays, Open
  <2> QED
    BY <1>1, <2>1
<1> QED
  BY <1>4, <1>5, <1>6, <1>7, <1>8, <1>9, <1>10, <1>11, <1>12, <1>13 DEF Attends

\* A client that sends a command has no other under way.
LEMMA SendsFirst ==
  ASSUME Typed, Uses, Talk, Offsets, NEW c \in Clients, NEW k \in Cmds, NEW n \in 0 .. FileLen, Sends(c, k, n)
  PROVE  cl[c].cmd = "none" /\ cl[c].from = 0 /\ (Stored => c # Peer)
<1>1. Polite(cl[c]) /\ cl[c].ctl = "open" /\ ~cl[c].wait /\ cl[c].from \in Nat
  BY LengthAssumption DEF Talk, Sends, Typed, ClType
<1>2. cl[c].cmd = "none"
  BY <1>1 DEF Polite
<1>3. Stored => c # Peer
  BY <1>1 DEF Talk, Awaits
<1>4. cl[c].from > 0 => pc = "retr" /\ Peer = c
  BY <1>2 DEF Offsets
<1> QED
  BY <1>1, <1>2, <1>3, <1>4 DEF Stored

\* What a client does leaves where its transfers start in place.
LEMMA PlacedActs ==
  ASSUME Typed, Uses, Talk, Offsets, NEW c \in Clients, Acts(c), ~Connects(c)
  PROVE  /\ Asker(cl'[c])
         /\ \A o : Placed(cl[c], o) => Placed(cl'[c], o)
         /\ cl'[c].from > 0 => cl'[c].cmd = "RETR" \/ (pc = "retr" /\ Peer = c)
<1>1. cl[c] \in ClType /\ Asker(cl[c]) /\ (cl[c].from > 0 => cl[c].cmd = "RETR" \/ (pc = "retr" /\ Peer = c))
  BY DEF Typed, Offsets
<1>2. CASE JoinsBy(c) \/ Leaves(c) \/ Streams(c)
  <2>1. /\ cl'[c].cmd = cl[c].cmd /\ cl'[c].from = cl[c].from /\ cl'[c].asked = cl[c].asked
        /\ cl'[c].rested = cl[c].rested /\ cl'[c].got = cl[c].got
    <3>1. CASE cl'[c] = [cl[c] EXCEPT !.data = "open", !.rep = "none"]
      BY <1>1, <3>1 DEF ClType
    <3>2. CASE cl'[c] = [cl[c] EXCEPT !.rep = "none"]
      BY <1>1, <3>2 DEF ClType
    <3>3. CASE Leaves(c)
      <4>1. cl'[c] = [cl[c] EXCEPT !.ctl = "fin", !.wait = FALSE,
                                   !.data = IF cl[c].data = "open" THEN "fin" ELSE cl[c].data]
        BY <3>3 DEF Leaves
      <4> QED
        BY <1>1, <4>1 DEF ClType
    <3>4. CASE Streams(c)
      BY <3>4 DEF Streams, SameTalk, SameSelf
    <3> QED
      BY <1>2, <3>1, <3>2, <3>3, <3>4 DEF JoinsBy, JoinsAt
  <2> QED
    BY <1>1, <2>1 DEF Asker, Placed
<1>3. CASE \E k \in Cmds, n \in 0 .. FileLen : Sends(c, k, n)
  <2>1. PICK k \in Cmds, n \in 0 .. FileLen : Sends(c, k, n)
    BY <1>3
  <2>2. cl[c].cmd = "none" /\ cl[c].from = 0
    BY <2>1, SendsFirst
  <2>3. /\ cl'[c].cmd = k
        /\ cl'[c].asked = CASE k = "REST" -> n [] k = "RETR" -> 0 [] OTHER -> cl[c].asked
        /\ cl'[c].from = IF k = "RETR" THEN cl[c].asked ELSE cl[c].from
        /\ cl'[c].got = IF k = "RETR" THEN <<>> ELSE cl[c].got
        /\ cl'[c].rested = (cl[c].rested \/ (k = "RETR" /\ cl[c].asked > 0))
    BY <2>1 DEF Sends
  <2>4. cl[c].asked \in Nat
    BY <1>1, LengthAssumption DEF ClType
  <2>5. CASE k = "RETR"
    BY <1>1, <2>2, <2>3, <2>4, <2>5 DEF Asker, Placed
  <2>6. CASE k = "REST"
    BY <1>1, <2>2, <2>3, <2>4, <2>6 DEF Asker, Placed
  <2>7. CASE k \notin {"RETR", "REST"}
    BY <1>1, <2>2, <2>3, <2>4, <2>7 DEF Asker, Placed
  <2> QED
    BY <2>5, <2>6, <2>7
<1> QED
  BY <1>2, <1>3 DEF Acts

\* Every step keeps the offsets in place.
LEMMA OffsetsDoes ==
  ASSUME Typed, Typed', Uses, Uses', Queued, Listeners, Talk, Offsets,
         Serves \/ Idles \/ \E c \in Clients : Acts(c)
  PROVE  Offsets'
<1>1. CASE Attends
  BY <1>1, OffsetsAttends
<1>2. CASE Watches \/ AdmitsNone
  <2>1. /\ Open' = Open /\ cl' = cl /\ pc # "retr" /\ \A f \in Fds \ {0} : sock'[f] = sock[f]
        /\ sock[0].use = "listen"
    BY <1>2, ListenerIn DEF Watches, AdmitsNone, Open, Uses
  <2>2. \A r \in Open : With(r)' = With(r)
    BY <2>1, WithKept
  <2> QED
    BY <2>1, <2>2 DEF Offsets
<1>3. CASE Admits
  <2>1. PICK new \in ConnType :
           /\ AdmitsWith(new) /\ First \in Clients /\ Open' = Open \cup {new} /\ With(new)' = First
           /\ new.offset = 0 /\ Blank(cl'[First]) /\ \A c \in Clients \ {First} : cl'[c] = cl[c]
           /\ \A r \in Open : With(r)' = With(r) /\ With(r) # First
    BY <1>3, AdmitsIs
  <2>2. pc # "retr"
    BY <2>1 DEF AdmitsWith
  <2>3. Placed(cl'[First], 0) /\ Asker(cl'[First]) /\ cl'[First].from = 0
    BY <2>1 DEF Blank, Placed, Asker
  <2>4. \A r \in Open' : Placed(cl'[With(r)'], r.offset)
    BY <2>1, <2>3, PeerIs DEF Offsets
  <2>5. \A c \in Clients : Asker(cl'[c]) /\ (cl'[c].from > 0 => cl'[c].cmd = "RETR")
    BY <2>1, <2>2, <2>3 DEF Offsets
  <2> QED
    BY <2>4, <2>5 DEF Offsets
<1>4. CASE Idles
  <2>1. Open' = Open /\ cl' = cl /\ pc' = pc /\ (Serving => Peer' = Peer) /\ sock' = sock
    BY <1>4, TurnKept DEF Idles, SameServer
  <2>2. \A r \in Open : With(r)' = With(r)
    BY <2>1, WithKept
  <2> QED
    BY <2>1, <2>2 DEF Offsets, Serving
<1>5. ASSUME NEW c \in Clients, Acts(c) PROVE Offsets'
  <2>1. /\ SameServer /\ AllBut(c) /\ (Serving => Peer' = Peer)
        /\ \A f \in Fds : sock[f].use \notin {"listen", "pl"} => sock'[f] = sock[f]
    BY <1>5, ActsAre, TurnKept
  <2>2. Open' = Open /\ pc' = pc /\ \A r \in Open : With(r)' = With(r) /\ With(r) \in Clients
    BY <2>1, WithKept, PeerIs DEF SameServer
  <2>3. pc' = "retr" => Peer' = Peer
    BY <2>1, <2>2 DEF Serving
  <2>4. \A x \in Clients \ {c} : cl'[x] = cl[x]
    BY <2>1 DEF AllBut
  <2>5. CASE Connects(c)
    <3>1. \A r \in Open : With(r) # c
      BY <2>5, PeerIs DEF Connects, Uses, With
    <3>2. Asker(cl'[c]) /\ cl'[c].from = 0
      BY <2>5 DEF Connects, NewClient, Asker
    <3>3. \A r \in Open' : Placed(cl'[With(r)'], r.offset)
      BY <2>2, <2>4, <3>1 DEF Offsets
    <3>4. \A x \in Clients : Asker(cl'[x])
            /\ (cl'[x].from > 0 => cl'[x].cmd = "RETR" \/ (pc' = "retr" /\ Peer' = x))
      BY <2>2, <2>3, <2>4, <3>2 DEF Offsets
    <3> QED
      BY <3>3, <3>4 DEF Offsets
  <2>6. CASE ~Connects(c)
    <3>1. /\ Asker(cl'[c])
          /\ \A o : Placed(cl[c], o) => Placed(cl'[c], o)
          /\ cl'[c].from > 0 => cl'[c].cmd = "RETR" \/ (pc = "retr" /\ Peer = c)
      BY <1>5, <2>6, PlacedActs
    <3>2. \A r \in Open' : Placed(cl'[With(r)'], r.offset)
      BY <2>2, <2>4, <3>1 DEF Offsets
    <3>3. \A x \in Clients : Asker(cl'[x])
            /\ (cl'[x].from > 0 => cl'[x].cmd = "RETR" \/ (pc' = "retr" /\ Peer' = x))
      BY <2>2, <2>3, <2>4, <3>1 DEF Offsets
    <3> QED
      BY <3>2, <3>3 DEF Offsets
  <2> QED
    BY <2>5, <2>6
<1> QED
  BY <1>1, <1>2, <1>3, <1>4, <1>5 DEF Serves, Attends

-----------------------------------------------------------------------------
(* What transfers have moved.                                              *)

\* The blocks sent, and one more.
LEMMA BlocksMore ==
  ASSUME NEW m \in Nat, NEW n \in Nat, m <= n
  PROVE  Append(Blocks(m, n), n + 1) = Blocks(m, n + 1) /\ Blocks(m, m) = <<>>
<1> DEFINE s == Blocks(m, n)  t == Blocks(m, n + 1)
<1>1. n - m \in Nat /\ n + 1 - m = n - m + 1
  OBVIOUS
<1>2. s \in Seq(Nat) /\ Len(s) = n - m /\ \A i \in 1 .. n - m : s[i] = m + i
  <2>1. s \in [1 .. n - m -> Nat]
    BY <1>1 DEF Blocks
  <2> QED
    BY <1>1, <2>1 DEF Blocks
<1>3. t \in Seq(Nat) /\ Len(t) = n - m + 1 /\ \A i \in 1 .. n - m + 1 : t[i] = m + i
  <2>1. t \in [1 .. n - m + 1 -> Nat]
    BY <1>1 DEF Blocks
  <2> QED
    BY <1>1, <2>1 DEF Blocks
<1> HIDE DEF s, t
<1>4. Append(s, n + 1) \in Seq(Nat) /\ Len(Append(s, n + 1)) = n - m + 1
  BY <1>1, <1>2
<1>5. \A i \in 1 .. n - m + 1 : Append(s, n + 1)[i] = t[i]
  BY <1>1, <1>2, <1>3
<1>6. Append(s, n + 1) = t
  BY <1>3, <1>4, <1>5, SeqEqual
<1>7. Blocks(m, m) = <<>>
  BY DEF Blocks
<1> QED
  BY <1>6, <1>7 DEF s, t

\* A RETR starts with the block its client asked for.
LEMMA SentBegins ==
  ASSUME Typed, Uses, Offsets, Begins, Sent
  PROVE  Sent'
<1> SUFFICES ASSUME pc' = "retr", Sound(cl'[Peer'])
             PROVE  pos' >= Start(cl'[Peer']) /\ cl'[Peer'].got = Blocks(Start(cl'[Peer']), pos')
  BY DEF Sent
<1> DEFINE me == cl[Peer]  you == cl'[Peer]
<1>1. /\ Peer' = Peer /\ Serving /\ me.cmd = "RETR" /\ you = [me EXCEPT !.cmd = "none"]
      /\ pos' = IF Cur.offset < FileLen THEN Cur.offset ELSE 0
  BY SameTurn DEF Begins, Stays, Peer
<1>2. me \in ClType /\ Placed(me, Cur.offset) /\ Asker(me)
  BY <1>1, PeerIs, CurIs DEF Typed, Offsets
<1>3. you.from = me.from /\ you.got = me.got /\ you.rested = me.rested
  BY <1>1, <1>2 DEF ClType
<1>4. me.from > 0 \/ ~me.rested
  BY <1>1, <1>3 DEF Sound
<1>5. me.from \in 0 .. FileLen /\ FileLen \in Nat
  BY <1>2, LengthAssumption DEF ClType
<1>6. Cur.offset = me.from /\ me.got = <<>>
  BY <1>1, <1>2, <1>4, <1>5 DEF Placed, Asker
<1>7. pos' = Start(you) /\ pos' \in Nat
  BY <1>1, <1>3, <1>5, <1>6 DEF Start
<1> QED
  BY <1>1, <1>3, <1>6, <1>7, BlocksMore

\* Each block sent is the next of the file.
LEMMA SentMoves ==
  ASSUME Typed, Uses, Sent, Moves
  PROVE  Sent'
<1> SUFFICES ASSUME pc' = "retr", ~stale', Own', Sound(cl'[Peer'])
             PROVE  pos' >= Start(cl'[Peer']) /\ cl'[Peer'].got = Blocks(Start(cl'[Peer']), pos')
  BY DEF Sent
<1> DEFINE me == cl[Peer]  you == cl'[Peer]
<1>1. Peer' = Peer /\ Pasv' = Pasv /\ sock' = sock /\ Serving /\ pc = "retr" /\ ~stale
  BY SameTurn DEF Moves, Stays, Peer
<1>2. Own /\ me \in ClType /\ pos \in Nat /\ FileLen \in Nat
  BY <1>1, PeerIs, LengthAssumption DEF Own, Typed
<1>3. pos' = pos + 1 /\ you = IF me.data = "open" THEN [me EXCEPT !.got = Append(@, pos + 1)] ELSE me
  BY <1>1, <1>2 DEF Moves
<1>4. you.data = me.data /\ you.from = me.from /\ you.rested = me.rested
        /\ (me.data = "open" => you.got = Append(me.got, pos + 1))
  <2>1. CASE me.data = "open"
    <3>1. you = [me EXCEPT !.got = Append(@, pos + 1)]
      BY <1>3, <2>1
    <3> QED
      BY <1>2, <3>1 DEF ClType
  <2>2. CASE me.data # "open"
    BY <1>3, <2>2
  <2> QED
    BY <2>1, <2>2
<1>5. Sound(me) /\ me.data = "open" /\ Start(you) = Start(me)
  BY <1>1, <1>4 DEF Sound, Start
<1>6. pos >= Start(me) /\ me.got = Blocks(Start(me), pos) /\ Start(me) \in Nat
  <2>1. me.from \in Nat
    BY <1>2 DEF ClType
  <2> QED
    BY <1>1, <1>2, <1>5, <2>1 DEF Sent, Start
<1>7. you.got = Blocks(Start(me), pos + 1)
  BY <1>2, <1>4, <1>5, <1>6, BlocksMore
<1>8. pos + 1 >= Start(me)
  BY <1>2, <1>6
<1>9. cl'[Peer'] = you
  BY <1>1
<1> QED
  BY <1>3, <1>5, <1>6, <1>7, <1>8, <1>9

\* During a RETR its client receives, or gives up.
LEMMA SentActs ==
  ASSUME Typed, Uses, Listeners, Talk, Sent, Idles \/ \E c \in Clients : Acts(c)
  PROVE  Sent'
<1> SUFFICES ASSUME pc' = "retr", ~stale', Own', Sound(cl'[Peer'])
             PROVE  pos' >= Start(cl'[Peer']) /\ cl'[Peer'].got = Blocks(Start(cl'[Peer']), pos')
  BY DEF Sent
<1> DEFINE me == cl[Peer]  you == cl'[Peer]
<1>1. pc = "retr" /\ Serving /\ Stored /\ pos' = pos
  BY TurnKept DEF SameServer, Serving, Stored
<1>2. Peer' = Peer /\ Own /\ Peer \in Clients /\ me \in ClType
  BY <1>1, TurnKept, PeerIs DEF Typed
<1>3. Awaits(me, "RETR") /\ me.ctl \in {"open", "fin"}
  BY <1>1, <1>2, PeerIs, CurIs DEF Talk, Uses, Peer
<1>4. ~stale /\ Sound(me) /\ you.got = me.got /\ you.from = me.from
  <2>1. CASE Idles
    BY <1>1, <1>2, <2>1 DEF Idles, Typed, Flags
  <2>2. ASSUME NEW c \in Clients, Acts(c) PROVE ~stale /\ Sound(me) /\ you.got = me.got /\ you.from = me.from
    <3>1. stale' = stale
      <4>1. CASE Connects(c)
        BY <4>1 DEF Connects
      <4>2. CASE JoinsBy(c)
        BY <4>2 DEF JoinsBy, JoinsAt
      <4>3. CASE Streams(c) \/ Leaves(c)
        BY <4>3 DEF Streams, Leaves
      <4>4. CASE \E k \in Cmds, n \in 0 .. FileLen : Sends(c, k, n)
        BY <4>4 DEF Sends
      <4> QED
        BY <2>2, <4>1, <4>2, <4>3, <4>4 DEF Acts
    <3>2. CASE c # Peer
      BY <1>2, <2>2, <3>1, <3>2, ActsAre DEF AllBut
    <3>3. CASE c = Peer
      <4>1. ~Connects(c)
        BY <1>3, <3>3 DEF Connects
      <4>2. ~JoinsBy(c)
        BY <1>3, <3>3 DEF JoinsBy, JoinsAt, Awaits
      <4>3. ASSUME NEW k \in Cmds, NEW n \in 0 .. FileLen PROVE ~Sends(c, k, n)
        BY <1>3, <3>3 DEF Sends, Awaits
      <4>4. CASE Streams(c)
        BY <1>2, <3>1, <3>3, <4>4 DEF Streams, SameTalk, SameSelf, Sound
      <4>5. CASE Leaves(c)
        <5>1. you = [me EXCEPT !.ctl = "fin", !.wait = FALSE,
                               !.data = IF me.data = "open" THEN "fin" ELSE me.data]
          BY <3>3, <4>5 DEF Leaves
        <5>2. you.data # "open"
          BY <1>2, <5>1 DEF ClType
        <5> QED
          BY <1>2, <5>2 DEF Sound
      <4> QED
        BY <2>2, <4>1, <4>2, <4>3, <4>4, <4>5 DEF Acts
    <3> QED
      BY <3>2, <3>3
  <2> QED
    BY <2>1, <2>2
<1> QED
  BY <1>1, <1>2, <1>4 DEF Sent, Start

\* Every step keeps what a RETR has sent.
LEMMA SentDoes ==
  ASSUME Typed, Uses, Listeners, Talk, Offsets, Sent, Serves \/ Idles \/ \E c \in Clients : Acts(c)
  PROVE  Sent'
<1>1. CASE Begins
  BY <1>1, SentBegins
<1>2. CASE Moves
  BY <1>2, SentMoves
<1>3. CASE Idles \/ \E c \in Clients : Acts(c)
  BY <1>3, SentActs
<1>4. CASE Answers \/ Closes \/ Drops \/ PortOpens \/ Joins \/ JoinsNone
  <2>1. pc' # "retr"
    BY <1>4 DEF Answers, AnswersWith, Closes, Drops, PortOpens, Joins, JoinsNone, Goes
  <2> QED
    BY <2>1 DEF Sent
<1>5. CASE Listens \/ Strays \/ Watches \/ AdmitsNone \/ Admits
  <2>1. pc' # "retr"
    BY <1>5 DEF Listens, Strays, Watches, AdmitsNone, Admits, AdmitsWith
  <2> QED
    BY <2>1 DEF Sent
<1> QED
  BY <1>1, <1>2, <1>3, <1>4, <1>5 DEF Serves

\* What a client has sent is the same while its data connection is, ...
LEMMA FedSame ==
  ASSUME NEW c, NEW d, SameData(c, d), d.ctl = c.ctl
  PROVE  (Fed(c) => Fed(d)) /\ (Unread(c) => Unread(d))
BY DEF SameData, Fed, Unread

\* ... and nothing when it closes.
LEMMA FedNone ==
  ASSUME NEW d, NoData(d)
  PROVE  Fed(d) /\ Unread(d)
BY DEF NoData, Fed, Unread

\* The task reads from the client it serves only.
LEMMA ReceivedAttends ==
  ASSUME Typed, Uses, Listeners, Attends, Received, Fed(cl'[Peer]),
         Unread(cl'[Peer]) \/ (pc' = "stor" /\ Own' /\ Peer' = Peer),
         pc' = "stor" => IF Own' THEN Writes' ELSE pos' = 0,
         ~Stored' => pos' = 0
  PROVE  Received'
<1>1. Serving /\ \A c \in Clients \ {Peer} : cl'[c] = cl[c]
  BY AttendsAre DEF Others
<1>2. \A c \in Clients \ {Peer} : Fed(cl'[c]) /\ Unread(cl'[c])
  BY <1>1 DEF Received
<1> QED
  BY <1>2 DEF Received

\* The steps that end a command, or do not begin a transfer.
LEMMA ReceivedEnds ==
  ASSUME Typed, Uses, Listeners, Talk, Received,
         Answers \/ Closes \/ Drops \/ PortOpens \/ Listens \/ Joins \/ JoinsNone \/ Strays
  PROVE  Received'
<1>0. Attends
  BY DEF Attends
<1>1. /\ Serving /\ Peer \in Clients /\ cl[Peer] \in ClType /\ Fed(cl[Peer])
      /\ Unread(cl[Peer]) \/ (pc = "stor" /\ Own)
      /\ ~Stored => pos = 0
  BY <1>0, AttendsAre, PeerIs DEF Typed, Received
<1>2. ~Stored'
  <2>1. CASE Listens \/ Strays
    BY <2>1 DEF Listens, Strays, Stored
  <2> QED
    BY <2>1 DEF Answers, AnswersWith, Closes, Drops, PortOpens, Joins, JoinsNone, Goes, Stored
<1>3. SUFFICES Fed(cl'[Peer]) /\ Unread(cl'[Peer]) /\ pos' = 0
  BY <1>0, <1>2, ReceivedAttends DEF Stored
<1>4. CASE Answers \/ Listens
  <2>1. /\ SameData(cl[Peer], cl'[Peer]) /\ SameSelf(cl[Peer], cl'[Peer])
        /\ pos' = pos /\ pc = "loop"
    BY <1>4 DEF Answers, AnswersWith, Listens
  <2> QED
    BY <1>1, <2>1, FedSame DEF SameSelf, Stored
<1>5. CASE Closes
  <2>1. pos' = 0
    BY <1>1, <1>5 DEF Closes
  <2>2. CASE Own
    BY <1>5, <2>1, <2>2, FedNone DEF Closes
  <2>3. CASE ~Own
    <3>1. SameData(cl[Peer], cl'[Peer]) /\ SameSelf(cl[Peer], cl'[Peer])
      BY <1>5, <2>3 DEF Closes
    <3> QED
      BY <1>1, <2>1, <2>3, <3>1, FedSame DEF SameSelf
  <2> QED
    BY <2>2, <2>3
<1>6. CASE Drops
  <2>1. cl'[Peer] = NewClient /\ pos' = 0
    BY <1>1, <1>6 DEF Drops
  <2>2. NoData(NewClient)
    BY DEF NewClient, NoData
  <2> QED
    BY <2>1, <2>2, FedNone
<1>7. CASE PortOpens
  <2>1. /\ pos' = 0 /\ cl[Peer].cmd = "PORT" /\ SameSelf(cl[Peer], cl'[Peer])
        /\ cl'[Peer].data = IF cl[Peer].ctl = "open" THEN "open" ELSE "fin"
        /\ cl'[Peer].unread = cl[Peer].unread /\ cl'[Peer].up = cl[Peer].up
    BY <1>1, <1>7 DEF PortOpens, Stored
  <2>2. cl[Peer].data = "none"
    BY <1>1, <2>1 DEF Talk, Polite
  <2>3. cl[Peer].up = 0 /\ cl[Peer].unread = 0
    BY <1>1, <2>2 DEF Fed, ClType
  <2> QED
    BY <2>1, <2>3 DEF Fed, Unread, SameSelf
<1>8. CASE Joins \/ JoinsNone \/ Strays
  <2>1. pos' = 0 /\ pc # "stor"
    BY <1>1, <1>8 DEF Joins, JoinsNone, Strays, Stored
  <2>2. CASE cl' = cl
    BY <1>1, <2>1, <2>2
  <2>3. CASE SameData(cl[Peer], cl'[Peer]) /\ SameSelf(cl[Peer], cl'[Peer])
    BY <1>1, <2>1, <2>3, FedSame DEF SameSelf
  <2> QED
    BY <1>8, <2>2, <2>3 DEF Joins, JoinsNone, Strays
<1> QED
  BY <1>4, <1>5, <1>6, <1>7, <1>8

\* A step of a transfer keeps the account of what was received.
LEMMA ReceivedMoves ==
  ASSUME Typed, Uses, Listeners, Received, Begins \/ Moves
  PROVE  Received'
<1>0. Attends /\ sock' = sock
  BY DEF Attends, Begins, Moves, Stays
<1>1. /\ Serving /\ Peer \in Clients /\ cl[Peer] \in ClType /\ Fed(cl[Peer])
      /\ Unread(cl[Peer]) \/ (pc = "stor" /\ Own)
      /\ Peer' = Peer /\ Own' = Own /\ Stored'
  BY <1>0, AttendsAre, PeerIs, SameTurn DEF Typed, Received, Begins, Moves, Stays, Peer, Own, Stored
<1> DEFINE me == cl[Peer]  you == cl'[Peer]
<1>2. me.unread \in Nat /\ me.up \in Nat /\ pos \in Nat
  BY <1>1, LengthAssumption DEF Typed, ClType
<1>3. cl'[Peer'] = you
  BY <1>1
<1>4. CASE pc' = "retr"
  <2>1. SameData(me, you) /\ you.ctl = me.ctl /\ pc # "stor"
    <3>1. CASE you = me
      BY <1>4, <3>1 DEF SameData, Begins, Moves
    <3>2. CASE you = [me EXCEPT !.cmd = "none"] /\ pc # "stor"
      BY <1>1, <3>2 DEF ClType, SameData
    <3>3. CASE you = [me EXCEPT !.got = Append(@, pos + 1)] /\ pc # "stor"
      BY <1>1, <3>3 DEF ClType, SameData
    <3> QED
      BY <1>4, <3>1, <3>2, <3>3 DEF Begins, Moves
  <2>2. Fed(you) /\ Unread(you)
    BY <1>1, <2>1, FedSame
  <2> QED
    BY <1>0, <1>1, <1>4, <2>2, ReceivedAttends
<1>5. CASE pc' = "stor" /\ Begins
  <2>1. you = [me EXCEPT !.cmd = "none"] /\ pc # "stor" /\ pos' = 0
    BY <1>5 DEF Begins
  <2>2. SameData(me, you) /\ you.ctl = me.ctl
    BY <1>1, <2>1 DEF ClType, SameData
  <2>3. Fed(you) /\ Unread(you)
    BY <1>1, <2>1, <2>2, FedSame
  <2>4. Writes'
    BY <1>2, <1>3, <2>1, <2>2, <2>3 DEF Writes, Fed, Unread, SameData
  <2> QED
    BY <1>0, <1>1, <2>1, <2>3, <2>4, ReceivedAttends
<1>6. CASE pc' = "stor" /\ Moves
  <2>1. /\ pc = "stor" /\ Own /\ pos' = (IF stale THEN pos ELSE pos + me.unread) /\ stale' = stale
        /\ you = [me EXCEPT !.unread = 0]
    BY <1>6 DEF Moves
  <2>2. you.unread = 0 /\ you.up = me.up /\ you.data = me.data /\ you.ctl = me.ctl
    BY <1>1, <2>1 DEF ClType
  <2>3. Fed(you)
    BY <1>1, <1>2, <2>2 DEF Fed
  <2>4. Writes
    BY <2>1 DEF Received
  <2>5. Writes'
    BY <1>2, <1>3, <2>1, <2>2, <2>4 DEF Writes
  <2> QED
    BY <1>0, <1>1, <1>6, <2>1, <2>3, <2>5, ReceivedAttends
<1> QED
  BY <1>1, <1>4, <1>5, <1>6 DEF Stored

\* A client that leaves has sent what it has sent.
LEMMA LeavesFed ==
  ASSUME Typed, NEW c \in Clients, Leaves(c)
  PROVE  /\ cl'[c].ctl = "fin" /\ cl'[c].unread = cl[c].unread /\ cl'[c].up = cl[c].up
         /\ cl'[c].data = IF cl[c].data = "open" THEN "fin" ELSE cl[c].data
<1>1. cl[c] \in ClType
  BY DEF Typed
<1>2. cl'[c] = [cl[c] EXCEPT !.ctl = "fin", !.wait = FALSE,
                             !.data = IF cl[c].data = "open" THEN "fin" ELSE cl[c].data]
  BY DEF Leaves
<1> QED
  BY <1>1, <1>2 DEF ClType

\* What a client sends is unread at first.
LEMMA FedActs ==
  ASSUME Typed, NEW c \in Clients, Acts(c), Fed(cl[c])
  PROVE  Fed(cl'[c]) /\ (Unread(cl[c]) => Unread(cl'[c]))
<1>1. cl[c] \in ClType /\ cl[c].unread \in Nat /\ cl[c].up \in Nat
  BY LengthAssumption DEF Typed, ClType
<1>2. CASE Connects(c)
  <2>1. NoData(cl'[c])
    BY <1>2 DEF Connects, NewClient, NoData
  <2> QED
    BY <2>1, FedNone
<1>3. CASE JoinsBy(c)
  <2>1. cl[c].data = "none" /\ cl[c].up = 0 /\ cl[c].unread = 0
    BY <1>1, <1>3 DEF JoinsBy, JoinsAt, Fed
  <2>2. CASE cl'[c] = [cl[c] EXCEPT !.data = "open", !.rep = "none"]
    <3>1. cl'[c].data = "open" /\ cl'[c].up = 0 /\ cl'[c].unread = 0
      BY <1>1, <2>1, <2>2 DEF ClType
    <3> QED
      BY <3>1 DEF Fed, Unread
  <2>3. CASE cl'[c] = [cl[c] EXCEPT !.rep = "none"]
    <3>1. NoData(cl'[c])
      BY <1>1, <2>1, <2>3 DEF ClType, NoData
    <3> QED
      BY <3>1, FedNone
  <2> QED
    BY <1>3, <2>2, <2>3 DEF JoinsBy, JoinsAt
<1>4. CASE Streams(c)
  BY <1>1, <1>4 DEF Streams, SameSelf, Fed, Unread
<1>5. CASE Leaves(c)
  BY <1>1, <1>5, LeavesFed DEF Fed, Unread
<1>6. CASE \E k \in Cmds, n \in 0 .. FileLen : Sends(c, k, n)
  <2>1. PICK k \in Cmds, n \in 0 .. FileLen : Sends(c, k, n)
    BY <1>6
  <2>2. NoData(cl'[c]) \/ (SameData(cl[c], cl'[c]) /\ cl'[c].ctl = cl[c].ctl)
    BY <2>1 DEF Sends
  <2> QED
    BY <2>2, FedNone, FedSame
<1> QED
  BY <1>2, <1>3, <1>4, <1>5, <1>6 DEF Acts

\* While its STOR is served a client streams, or leaves.
LEMMA WritesActs ==
  ASSUME Typed, Uses, Talk, pc = "stor", Writes, Acts(Peer), stale' = stale, pos' = pos, Peer' = Peer
  PROVE  Writes'
<1> DEFINE me == cl[Peer]  you == cl'[Peer]
<1>1. /\ Peer \in Clients /\ me \in ClType /\ Awaits(me, "STOR") /\ me.ctl \in {"open", "fin"}
      /\ cl'[Peer'] = you
  BY PeerIs, CurIs DEF Talk, Stored, Serving, Typed, Uses, Peer
<1>2. me.unread \in Nat /\ me.up \in Nat /\ pos \in Nat
  BY <1>1, LengthAssumption DEF Typed, ClType
<1>3. CASE Connects(Peer)
  BY <1>1, <1>3 DEF Connects
<1>4. CASE JoinsBy(Peer)
  BY <1>1, <1>4 DEF JoinsBy, JoinsAt, Awaits
<1>5. CASE \E k \in Cmds, n \in 0 .. FileLen : Sends(Peer, k, n)
  BY <1>1, <1>5 DEF Sends, Awaits
<1>6. CASE Streams(Peer)
  BY <1>1, <1>2, <1>6 DEF Streams, Writes
<1>7. CASE Leaves(Peer)
  <2>1. /\ you.unread = me.unread /\ you.up = me.up
        /\ you.data = IF me.data = "open" THEN "fin" ELSE me.data
    BY <1>1, <1>7, LeavesFed
  <2> QED
    BY <1>1, <1>2, <2>1 DEF Writes
<1> QED
  BY <1>3, <1>4, <1>5, <1>6, <1>7 DEF Acts

\* The step of a client leaves the volume alone.
LEMMA ActsStale ==
  ASSUME NEW c \in Clients, Acts(c)
  PROVE  stale' = stale
<1>1. CASE Connects(c)
  BY <1>1 DEF Connects
<1>2. CASE JoinsBy(c)
  BY <1>2 DEF JoinsBy, JoinsAt
<1>3. CASE Streams(c) \/ Leaves(c)
  BY <1>3 DEF Streams, Leaves
<1>4. CASE \E k \in Cmds, n \in 0 .. FileLen : Sends(c, k, n)
  BY <1>4 DEF Sends
<1> QED
  BY <1>1, <1>2, <1>3, <1>4 DEF Acts

\* Every step keeps the account of what was received.
LEMMA ReceivedDoes ==
  ASSUME Typed, Uses, Queued, Listeners, Talk, Received, Serves \/ Idles \/ \E c \in Clients : Acts(c)
  PROVE  Received'
<1>1. CASE Answers \/ Closes \/ Drops \/ PortOpens \/ Listens \/ Joins \/ JoinsNone \/ Strays
  BY <1>1, ReceivedEnds
<1>2. CASE Begins \/ Moves
  BY <1>2, ReceivedMoves
<1>3. CASE Watches \/ AdmitsNone
  <2>1. cl' = cl /\ pos' = pos /\ ~Stored /\ ~Stored'
    BY <1>3 DEF Watches, AdmitsNone, Stored
  <2> QED
    BY <2>1 DEF Received, Stored
<1>4. CASE Admits
  <2>1. PICK new \in ConnType :
           /\ AdmitsWith(new) /\ First \in Clients /\ Blank(cl'[First])
           /\ \A c \in Clients \ {First} : cl'[c] = cl[c]
    BY <1>4, AdmitsIs
  <2>2. pos' = pos /\ ~Stored /\ ~Stored'
    BY <2>1 DEF AdmitsWith, Stored
  <2>3. Fed(cl'[First]) /\ Unread(cl'[First])
    BY <2>1 DEF Blank, Fed, Unread
  <2>4. \A c \in Clients : Fed(cl'[c]) /\ Unread(cl'[c])
    BY <2>1, <2>2, <2>3 DEF Received, Stored
  <2> QED
    BY <2>2, <2>4 DEF Received, Stored
<1>5. CASE Idles
  <2>1. cl' = cl /\ pos' = pos /\ pc' = pc /\ (stale' = stale \/ (Stored => stale'))
        /\ (Serving => Peer' = Peer /\ Own' = Own)
    BY <1>5, TurnKept DEF Idles, SameServer
  <2>2. pc = "stor" => Serving /\ Stored
    BY DEF Serving, Stored
  <2>3. pc = "stor" /\ Writes => Writes'
    BY <2>1, <2>2 DEF Writes
  <2> QED
    BY <2>1, <2>2, <2>3 DEF Received, Stored
<1>6. ASSUME NEW c \in Clients, Acts(c) PROVE Received'
  <2>1. pos' = pos /\ pc' = pc /\ (Serving => Peer' = Peer /\ Own' = Own) /\ stale' = stale
        /\ \A x \in Clients \ {c} : cl'[x] = cl[x]
    BY <1>6, TurnKept, ActsStale, ActsAre DEF SameServer, AllBut
  <2>2. pc = "stor" => Serving /\ Peer' = Peer /\ Own' = Own
    BY <2>1 DEF Serving
  <2>3. Fed(cl'[c]) /\ (Unread(cl[c]) => Unread(cl'[c]))
    BY <1>6, FedActs DEF Received
  <2>4. ASSUME pc = "stor", Writes PROVE Writes'
    <3>1. CASE c = Peer
      BY <1>6, <2>1, <2>2, <2>4, <3>1, WritesActs
    <3>2. CASE c # Peer
      <4>1. Peer \in Clients
        BY <2>2, <2>4, PeerIs
      <4> QED
        BY <2>1, <2>2, <2>4, <3>2, <4>1 DEF Writes
    <3> QED
      BY <3>1, <3>2
  <2>5. \A x \in Clients : Fed(cl'[x]) /\ (Unread(cl'[x]) \/ (pc' = "stor" /\ Own' /\ Peer' = x))
    BY <2>1, <2>2, <2>3 DEF Received
  <2> QED
    BY <2>1, <2>2, <2>4, <2>5 DEF Received, Stored
<1> QED
  BY <1>1, <1>2, <1>3, <1>4, <1>5, <1>6 DEF Serves

-----------------------------------------------------------------------------
(* The invariant is inductive.                                             *)

\* The server starts with its listener, and no client.
LEMMA InitIInv == Init => IInv
<1> SUFFICES ASSUME Init PROVE IInv
  OBVIOUS
<1> USE DEF Init
<1>1. /\ sock \in [Fds -> SockType] /\ 0 \in Fds /\ MaxConn \notin Fds /\ sock[0] = Listener
      /\ \A f \in Fds \ {0} : sock[f] = Free
      /\ \A f \in Fds :
           sock[f].q = <<>> /\ sock[f].use \in {"listen", "free"} /\ (sock[f].use = "listen" <=> f = 0)
  BY FreeTyped, ListenerIn
<1>2. conns = <<>> /\ Open = {} /\ Len(conns) = 0 /\ DOMAIN conns = {}
  BY DEF Open
<1>3. cl \in [Clients -> ClType] /\ \A c \in Clients : cl[c] = NewClient
  BY NewClientTyped
<1>4. Typed
  <2>1. conns \in Seq(ConnType) /\ left \in 0 .. Len(conns) /\ pos \in Nat /\ NoFd \in Fds \cup {NoFd}
    BY <1>2
  <2>2. spent \in [Clients -> Nat] /\ Flags /\ readfds \subseteq Fds /\ tmpfds \subseteq Fds
    BY <1>1 DEF Flags
  <2> QED
    BY <1>1, <1>3, <2>1, <2>2 DEF Typed, Serving
<1>5. Counted
  <2>1. Fds \ FreeFds = {0}
    BY <1>1, FreeTyped DEF FreeFds
  <2>2. \A f \in Fds : Pending(f) = {}
    BY <1>1 DEF Pending
  <2>3. Held = {<<0, 0>>}
    BY <2>1, <2>2 DEF Held
  <2>4. IsFiniteSet(Held) /\ Cardinality(Held) = 1
    BY <2>3, FS_Singleton
  <2> QED
    BY <2>4, SocketAssumption DEF Counted
<1>6. Uses
  BY <1>1, <1>2 DEF Uses
<1>7. Queued
  BY <1>1 DEF Queued
<1>8. NewClient.cmd = "none" /\ NewClient.rep = "none" /\ NewClient.ctl = "none" /\ NewClient.data = "none"
      /\ ~NewClient.wait /\ NewClient.from = 0 /\ NewClient.up = 0 /\ NewClient.unread = 0
  BY DEF NewClient
<1>9. Listeners
  BY <1>1, <1>3, <1>8 DEF Listeners
<1>10. Talk
  BY <1>3, <1>8 DEF Talk, Polite, Stored
<1>11. Leaks
  BY <1>1, <1>3, <1>8 DEF Leaks, Remembered, Gone, Listening
<1>12. Aliases
  BY <1>2, <1>3, <1>8 DEF Aliases, Named, Joined, Asking
<1>13. Hears
  BY <1>1 DEF Hears
<1>14. Offsets
  BY <1>2, <1>3, <1>8 DEF Offsets, Asker
<1>15. Sent
  BY DEF Sent
<1>16. Received
  BY <1>3, <1>8 DEF Received, Fed, Unread, Stored
<1> QED
  BY <1>4, <1>5, <1>6, <1>7, <1>9, <1>10, <1>11, <1>12, <1>13, <1>14, <1>15, <1>16 DEF IInv

\* Every step keeps every part of the invariant.
LEMMA StepIInv == IInv /\ [Next]_vars => IInv'
<1> SUFFICES ASSUME IInv, [Next]_vars PROVE IInv'
  OBVIOUS
<1>1. Typed /\ Counted /\ Uses /\ Queued /\ Listeners /\ Talk /\ Leaks /\ Aliases /\ Hears
      /\ Offsets /\ Sent /\ Received
  BY DEF IInv
<1>2. Typed' /\ Counted' /\ (Serves \/ Idles \/ \E c \in Clients : Acts(c))
  BY <1>1, StepIs
<1>3. Uses'
  BY <1>1, <1>2, UsesServes, UsesActs
<1>4. Queued'
  BY <1>1, <1>2, QueuedDoes
<1>5. Listeners'
  BY <1>1, <1>2, ListenersDoes
<1>6. Talk'
  BY <1>1, <1>2, TalkDoes
<1>7. Leaks'
  BY <1>1, <1>2, <1>3, LeaksDoes
<1>8. Aliases'
  BY <1>1, <1>2, <1>3, AliasesDoes
<1>9. Hears'
  BY <1>1, <1>2, HearsDoes
<1>10. Offsets'
  BY <1>1, <1>2, <1>3, OffsetsDoes
<1>11. Sent'
  BY <1>1, <1>2, SentDoes
<1>12. Received'
  BY <1>1, <1>2, ReceivedDoes
<1> QED
  BY <1>2, <1>3, <1>4, <1>5, <1>6, <1>7, <1>8, <1>9, <1>10, <1>11, <1>12 DEF IInv

\* The inductive invariant holds in every reachable state.
LEMMA Inductive == Spec => []IInv
BY InitIInv, StepIInv, PTL DEF Spec

-----------------------------------------------------------------------------
(* The properties of the server, for any clients and numbers.              *)

\* The inductive invariant implies the types the runs check.
LEMMA IInvTypeOK == IInv => TypeOK
<1> SUFFICES ASSUME IInv PROVE TypeOK
  OBVIOUS
<1>1. Typed /\ Counted /\ Uses /\ Received
  BY DEF IInv
<1>2. Cardinality(Fds \ FreeFds) + Cardinality(UNION {Pending(f) : f \in Fds}) <= MaxConn
  BY <1>1, HeldIs DEF Counted
<1>3. pos \in 0 .. FileLen + UpLen
  <2>1. pos \in Nat /\ FileLen \in Nat /\ UpLen \in Nat
    BY <1>1, LengthAssumption DEF Typed
  <2>2. CASE pc = "retr"
    BY <1>1, <2>1, <2>2 DEF Typed
  <2>3. CASE pc = "stor" /\ Own
    <3>1. cl[Peer] \in ClType
      BY <1>1, <2>3, PeerIs DEF Typed, Serving
    <3>2. cl[Peer].unread \in Nat /\ cl[Peer].up \in 0 .. UpLen /\ pos + cl[Peer].unread <= cl[Peer].up
      BY <1>1, <2>3, <3>1 DEF Received, Writes, ClType
    <3> QED
      BY <2>1, <3>2
  <2>4. CASE pc # "retr" /\ ~(pc = "stor" /\ Own)
    BY <1>1, <2>1, <2>4 DEF Received, Stored
  <2> QED
    BY <2>2, <2>3, <2>4
<1>4. /\ sock \in [Fds -> SockType] /\ conns \in Seq(ConnType)
      /\ readfds \subseteq Fds /\ tmpfds \subseteq Fds
      /\ pc \in {"select", "accept", "loop", "pasv", "retr", "stor", "aliased"}
      /\ left \in 0 .. Len(conns) /\ (pc \notin {"select", "accept"} => left > 0)
      /\ awake \in BOOLEAN /\ pl \in Fds \cup {NoFd} /\ (pc = "pasv" <=> pl # NoFd)
  BY <1>1 DEF Typed, Serving
<1> QED
  BY <1>2, <1>3, <1>4 DEF TypeOK, SockType, ConnType

\* Every variable has its type, and sockets and connections not accepted are
\* no more than the netconns of LwIP: accept finds a descriptor for each.
THEOREM FtpTypeCorrect == Spec => []TypeOK
BY Inductive, IInvTypeOK, PTL

\* The inductive invariant implies the safety invariants the runs check.
LEMMA IInvSafe == IInv => ControlSockets /\ AliasNeedsCause /\ NoLeak /\ DeafNeedsCause
<1> SUFFICES ASSUME IInv PROVE ControlSockets /\ AliasNeedsCause /\ NoLeak /\ DeafNeedsCause
  OBVIOUS
<1>1. Uses /\ Leaks /\ Aliases /\ Hears
  BY DEF IInv
<1>2. ControlSockets
  BY <1>1 DEF ControlSockets, Uses, Open
<1>3. AliasNeedsCause
  BY <1>1 DEF AliasNeedsCause, Aliases
<1>4. NoLeak
  BY <1>1 DEF NoLeak, Leaks, Remembered, Listening, Open
<1>5. DeafNeedsCause
  BY <1>1 DEF DeafNeedsCause, Hears
<1> QED
  BY <1>2, <1>3, <1>4, <1>5

\* Control sockets and the entries of conn_list correspond one to one: destroy_conn
\* forgets none that is open, and leaves none that is closed.
THEOREM FtpControlSockets == Spec => []ControlSockets
BY Inductive, IInvSafe, PTL

\* pasv_sockfd, never initialised nor reset, is the client's own data connection
\* whenever it is used, unless a PASV failed or a client asked for a transfer without one.
THEOREM FtpAliasNeedsCause == Spec => []AliasNeedsCause
BY Inductive, IInvSafe, PTL

\* No data socket and no listener of a PASV is lost, unless a client gave up its
\* data connection or a PASV failed.
THEOREM FtpNoLeak == Spec => []NoLeak
BY Inductive, IInvSafe, PTL

\* ftpd_thread waits in accept without a connection only after QUIT or a broken
\* STOR closed a socket without FD_CLR.
THEOREM FtpDeafNeedsCause == Spec => []DeafNeedsCause
BY Inductive, IInvSafe, PTL

\* A transfer ends by its own steps, whatever clients do.
LEMMA Ends ==
  ASSUME Typed, Next, pc \in {"retr", "stor"}, pc' # pc
  PROVE  IF pc = "retr" THEN RetrEnds ELSE StorEnds \/ StorBreaks \/ StorGivesUp
<1>1. ~Environment
  <2>1. ASSUME NEW c \in Clients
        PROVE  Connect(c) \/ DataConnect(c) \/ DataSend(c) \/ DataFin(c) \/ DataReset(c) \/ Leave(c)
                 => UNCHANGED server
    BY DEF Connect, DataConnect, DataSend, DataFin, DataReset, Leave
  <2>2. \A c, k, n : Send(c, k, n) => UNCHANGED server
    BY DEF Send
  <2>3. TimeWaitEnds \/ (\E m \in BOOLEAN : Remount(m)) => UNCHANGED server
    BY DEF TimeWaitEnds, Remount
  <2>4. Environment => UNCHANGED server
    BY <2>1, <2>2, <2>3 DEF Environment
  <2> QED
    BY <2>4 DEF server
<1>2. ~(Select \/ AcceptFails \/ Accept \/ Hangup)
  BY DEF Select, AcceptFails, Accept, Hangup
<1>3. ~(UsesForeign \/ Noop \/ Rest \/ Quit \/ List \/ PasvFails)
  BY DEF UsesForeign, Noop, Rest, Quit, List, PasvFails, NoConnection, Asked
<1>4. ~(PortConnects \/ PortNoSocket \/ PasvListens \/ PasvAccepts \/ PasvAcceptFails)
  BY DEF PortConnects, PortNoSocket, PasvListens, PasvAccepts, PasvAcceptFails, Asked
<1>5. ~(Refused \/ RetrStarts \/ StorStarts)
  BY DEF Refused, RetrStarts, StorStarts, Asked
<1>6. ~(RetrSends \/ StorStores)
  BY DEF RetrSends, StorStores
<1>7. pc = "retr" => ~(StorEnds \/ StorBreaks \/ StorGivesUp)
  BY DEF StorEnds, StorBreaks, StorGivesUp
<1>8. pc = "stor" => ~RetrEnds
  BY DEF RetrEnds
<1> QED
  BY <1>1, <1>2, <1>3, <1>4, <1>5, <1>6, <1>7, <1>8 DEF Next, Server

\* What Sent says is what a RETR has to send when it ends.
LEMMA StepRetrWhole ==
  ASSUME IInv, [Next]_vars,
         pc = "retr", pc' # "retr", ~stale, Own, cl[Peer].data = "open",
         cl[Peer].from > 0 \/ ~cl[Peer].rested
  PROVE  LET from == IF cl[Peer].from < FileLen THEN cl[Peer].from ELSE 0
         IN cl[Peer].got = [i \in 1 .. FileLen - from |-> from + i]
<1>1. Typed /\ Sent
  BY DEF IInv
<1>2. RetrEnds
  <2>1. Next
    BY DEF vars, server
  <2> QED
    BY <1>1, <2>1, Ends
<1>3. pos = FileLen
  BY <1>2 DEF RetrEnds
<1>4. cl[Peer].got = Blocks(Start(cl[Peer]), FileLen)
  BY <1>1, <1>3 DEF Sent, Sound
<1> QED
  BY <1>4 DEF Blocks, Start

\* A client waits for 226 with its data connection closed, or with one that it broke or never had.
LEMMA StepStorWhole ==
  ASSUME IInv, [Next]_vars, NEW c \in Clients,
         cl[c].wait, cl[c].doing = "STOR", cl'[c].rep = "226", cl[c].rep # "226"
  PROVE  stale \/ pos = UpLen
<1>1. Typed /\ Counted /\ Uses /\ Queued /\ Listeners /\ Talk /\ Received
  BY DEF IInv
<1>2. Serves \/ Idles \/ \E x \in Clients : Acts(x)
  BY <1>1, StepIs
<1>3. Polite(cl[c]) /\ cl[c] \in ClType
  BY <1>1 DEF Talk, Typed
<1>4. Closes
  <2>1. CASE Answers
    BY <1>1, <2>1 DEF Answers, AnswersWith, AnsweredAs, Others
  <2>2. CASE Drops
    BY <2>2 DEF Drops, Others, NewClient
  <2>3. CASE PortOpens
    BY <2>3 DEF PortOpens, Others, AnsweredAs
  <2>4. CASE Listens
    BY <2>4 DEF Listens, Others, AnsweredAs
  <2>5. CASE Joins \/ Strays \/ Watches \/ AdmitsNone \/ Idles
    BY <2>5 DEF Joins, Strays, Watches, AdmitsNone, Idles
  <2>6. CASE JoinsNone
    BY <2>6 DEF JoinsNone, Others, AnsweredAs
  <2>7. CASE Begins \/ Moves
    <3>1. Others /\ Peer \in Clients /\ cl[Peer] \in ClType /\ cl'[Peer].rep = cl[Peer].rep
      <4>1. Attends
        BY <2>7 DEF Attends
      <4>2. Others /\ Peer \in Clients /\ cl[Peer] \in ClType
        BY <1>1, <4>1, AttendsAre, PeerIs DEF Typed
      <4>3. CASE cl'[Peer] = cl[Peer]
        BY <4>2, <4>3
      <4>4. CASE cl'[Peer] = [cl[Peer] EXCEPT !.cmd = "none"]
        BY <4>2, <4>4 DEF ClType
      <4>5. CASE cl'[Peer] = [cl[Peer] EXCEPT !.got = Append(@, pos + 1)]
        BY <4>2, <4>5 DEF ClType
      <4>6. CASE cl'[Peer] = [cl[Peer] EXCEPT !.unread = 0]
        BY <4>2, <4>6 DEF ClType
      <4> QED
        BY <2>7, <4>2, <4>3, <4>4, <4>5, <4>6 DEF Begins, Moves
    <3> QED
      BY <3>1 DEF Others
  <2>8. CASE Admits
    <3>1. PICK new \in ConnType :
            Blank(cl'[First]) /\ First \in Clients /\ \A x \in Clients \ {First} : cl'[x] = cl[x]
      BY <1>1, <2>8, AdmitsIs
    <3> QED
      BY <3>1 DEF Blank
  <2>9. ASSUME NEW x \in Clients, Acts(x) PROVE FALSE
    <3>1. x = c
      BY <2>9, ActsAre DEF AllBut
    <3>2. CASE Connects(c)
      BY <3>2 DEF Connects, NewClient
    <3>3. CASE JoinsBy(c)
      <4>1. cl'[c] = [cl[c] EXCEPT !.data = "open", !.rep = "none"] \/ cl'[c] = [cl[c] EXCEPT !.rep = "none"]
        BY <3>3 DEF JoinsBy, JoinsAt
      <4> QED
        BY <1>3, <4>1 DEF ClType
    <3>4. CASE Streams(c)
      BY <3>4 DEF Streams, SameTalk
    <3>5. CASE Leaves(c)
      <4>1. cl'[c] = [cl[c] EXCEPT !.ctl = "fin", !.wait = FALSE,
                                   !.data = IF cl[c].data = "open" THEN "fin" ELSE cl[c].data]
        BY <3>5 DEF Leaves
      <4> QED
        BY <1>3, <4>1 DEF ClType
    <3>6. CASE \E k \in Cmds, n \in 0 .. FileLen : Sends(c, k, n)
      BY <3>6 DEF Sends
    <3> QED
      BY <2>9, <3>1, <3>2, <3>3, <3>4, <3>5, <3>6 DEF Acts
  <2> QED
    BY <1>2, <2>1, <2>2, <2>3, <2>4, <2>5, <2>6, <2>7, <2>8, <2>9 DEF Serves
<1>5. c = Peer /\ Serving /\ Peer \in Clients
  BY <1>1, <1>4, PeerIs DEF Closes, Others
<1>6. pc = "stor" /\ pc' # pc
  <2>1. /\ pc # "pasv" /\ pc # "aliased" /\ (pc = "loop" => cl[c].cmd \in {"PASV", "LIST"})
        /\ pc' \in {"select", "loop"}
    BY <1>4, <1>5 DEF Closes, Goes, SameTalk
  <2>2. pc # "loop"
    BY <1>3, <2>1 DEF Polite
  <2>3. pc # "retr"
    BY <1>1, <1>5 DEF Talk, Awaits, Stored
  <2> QED
    BY <1>1, <1>5, <2>1, <2>2, <2>3 DEF Typed, Serving
<1>7. StorEnds
  <2>1. Next
    BY <1>6 DEF vars, server
  <2>2. StorEnds \/ StorBreaks \/ StorGivesUp
    BY <1>1, <1>6, <2>1, Ends
  <2>3. ~StorBreaks
    <3>1. StorBreaks => cl' = [cl EXCEPT ![Peer] = NewClient]
      BY DEF StorBreaks
    <3>2. StorBreaks => cl'[c] = NewClient
      BY <1>1, <1>5, <3>1 DEF Typed
    <3> QED
      BY <3>2 DEF NewClient
  <2>4. ~StorGivesUp
    <3>1. StorGivesUp => cl' = ClosedBy(cl)
      BY DEF StorGivesUp
    <3>2. ClosedBy(cl)[c].rep = cl[c].rep
      BY <1>1, <1>5, ClosedByGives DEF Typed, SameTalk
    <3> QED
      BY <3>1, <3>2
  <2> QED
    BY <2>2, <2>3, <2>4
<1>8. Own /\ cl[c].unread = 0 /\ cl[c].data = "fin"
  BY <1>5, <1>7 DEF StorEnds
<1>9. cl[c].ctl = "open" /\ cl[c].up = UpLen
  BY <1>1, <1>3, <1>8 DEF Polite, Received, Fed
<1>10. ~stale => pos + cl[c].unread = cl[c].up
  BY <1>1, <1>5, <1>6, <1>8 DEF Received, Writes
<1>11. pos \in Nat /\ UpLen \in Nat
  BY <1>1, LengthAssumption DEF Typed
<1> QED
  BY <1>8, <1>9, <1>10, <1>11

\* RETR in ftp_process_request: its 226 comes after the blocks asked for, in their order.
THEOREM FtpRetrWhole == Spec => RetrWhole
<1>1. IInv /\ [Next]_vars =>
        [(pc = "retr" /\ pc' # "retr" /\ ~stale /\ Own /\ cl[Peer].data = "open"
            /\ (cl[Peer].from > 0 \/ ~cl[Peer].rested)) =>
          LET from == IF cl[Peer].from < FileLen THEN cl[Peer].from ELSE 0
          IN cl[Peer].got = [i \in 1 .. FileLen - from |-> from + i]]_vars
  BY StepRetrWhole
<1> QED
  BY <1>1, Inductive, PTL DEF Spec, RetrWhole

\* STOR in ftp_process_request: its 226 comes after every block sent was written.
THEOREM FtpStorWhole == Spec => StorWhole
<1>1. IInv /\ [Next]_vars =>
        [(\E c \in Clients : cl[c].wait /\ cl[c].doing = "STOR" /\ cl'[c].rep = "226" /\ cl[c].rep # "226")
           => stale \/ pos = UpLen]_vars
  BY StepStorWhole
<1> QED
  BY <1>1, Inductive, PTL DEF Spec, StorWhole

=============================================================================
