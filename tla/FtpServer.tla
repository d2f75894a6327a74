----------------------------- MODULE FtpServer ------------------------------
(***************************************************************************)
(* The FTP server of Utilities/ftpserver/ftpd.c: one task that serves the  *)
(* listener, all control connections and their data connections with the   *)
(* few descriptors of LwIP, on a volume that TFTP and HTTP mount anew for  *)
(* every file of theirs.                                                   *)
(*                                                                         *)
(* Descriptors are numbers, as pasv_sockfd is: it may name a closed socket *)
(* or somebody else's.  The model follows the server up to the moment when *)
(* it works on a socket that is not its own, and stops there.              *)
(* Clients send one command at a time and wait for the reply.  There is    *)
(* one file, counted in blocks of FTP_BUFFER_SIZE.                         *)
(***************************************************************************)
EXTENDS Naturals, Sequences, FiniteSets

CONSTANTS
  Clients,
  NoOne,
  MaxConn,   \* MEMP_NUM_NETCONN, and NUM_SOCKETS with it
  Commands,  \* what each client asks for
  Careless,  \* clients that ask for transfers without a data connection
  FileLen,   \* blocks of the file
  UpLen,     \* blocks a client stores
  Garbage,   \* what the memory of a new connection may hold
  Budget,    \* bound: connections and commands of each client
  Mounts     \* bound: times the volume is mounted anew or unmounted

ASSUME SocketAssumption == MaxConn \in Nat /\ MaxConn >= 2
ASSUME ClientAssumption == NoOne \notin Clients /\ "abrt" \notin Clients /\ Careless \subseteq Clients
ASSUME LengthAssumption == FileLen \in Nat \ {0} /\ UpLen \in Nat \ {0}
ASSUME CommandAssumption ==
  \A c \in Clients :
    Commands[c] \subseteq {"NOOP", "PASV", "PORT", "LIST", "RETR", "STOR", "REST", "QUIT"}

ASSUME GarbageAssumption == Garbage \subseteq 0 .. MaxConn /\ Garbage # {}
ASSUME BoundAssumption == Budget \in [Clients -> Nat] /\ Mounts \in Nat

VARIABLES
  sock,     \* sockets: use, peer, queue of connections not accepted, bound to port 10000
  tw,       \* a closed connection still holds port 10000 (FIN_WAIT, TIME_WAIT)
  conns,    \* conn_list, the newest first: sockfd, pasv_sockfd, offset
  readfds, tmpfds,
  pc,       \* "select", "accept", "loop"; "pasv", "retr", "stor": waiting in a command;
            \* "aliased": at work on a socket that is not its own
  left,     \* connections of conn_list the loop has not served, from Cur on
  awake,    \* the task has not waited or slept since select returned
  pl,       \* PASV: the local sockfd
  pos,      \* RETR: blocks read of the file; STOR: blocks written to it
  mounted,  \* a volume is registered with FatFs
  locked,   \* the file has been left open for writing
  stale,    \* the volume was mounted anew, or unmounted, since the file was opened
  cl,       \* the clients
  spent,    \* connections and commands so far
  mounts,   \* mounts and unmounts so far
  misused,    \* history: a transfer was asked for without a data connection
  pasvFailed, \* history: a PASV failed
  abandoned,  \* history: a client gave up an open data connection
  uncleared,  \* history: a connection was closed without FD_CLR
  silent      \* history: a STOR was given up without a reply

server == <<conns, readfds, tmpfds, pc, left, awake, pl, pos>>
volume == <<mounted, locked, stale, mounts>>
hist == <<misused, pasvFailed, abandoned, uncleared, silent>>
vars == <<sock, tw, server, volume, cl, spent, hist>>

Fds == 0 .. MaxConn - 1
NoFd == MaxConn      \* -1, or any value that is no descriptor

Free == [use |-> "free", peer |-> NoOne, q |-> <<>>, port |-> FALSE]
Listener == [Free EXCEPT !.use = "listen"]
NewClient == [ctl |-> "none", cmd |-> "none", doing |-> "none", wait |-> FALSE, rep |-> "none",
              data |-> "none", unread |-> 0, up |-> 0, asked |-> 0, from |-> 0,
              got |-> <<>>, rested |-> FALSE]

FreeFds == {f \in Fds : sock[f].use = "free"}
Lowest(S) == CHOOSE f \in S : \A g \in S : f <= g
Highest(S) == CHOOSE f \in S : \A g \in S : g <= f

(* alloc_socket and netconn_new.  A connection that was not accepted yet   *)
(* holds a netconn too; accept_function marks in the queue that there was  *)
(* none left.                                                              *)
Pending(f) == {<<f, i>> : i \in {j \in DOMAIN sock[f].q : sock[f].q[j] # "abrt"}}

(* Mutant: connections not accepted are not counted.                       *)
NetconnFreeSockets == FreeFds # {}

NetconnFree ==
  Cardinality(Fds \ FreeFds) + Cardinality(UNION {Pending(f) : f \in Fds}) < MaxConn

(* tcp_bind without SO_REUSE: a port is busy as long as any pcb has it.    *)
PortBusy == tw \/ \E f \in Fds : sock[f].port

(* The connection the loop is at, and the client behind it.                *)
At == Len(conns) + 1 - left
Cur == conns[At]
Peer == sock[Cur.fd].peer
Pasv == Cur.pasv

(* pasv_sockfd names the data connection of this client, or somebody       *)
(* else's socket.                                                          *)
Own == Pasv \in Fds /\ sock[Pasv].use = "data" /\ sock[Pasv].peer = Peer
Foreign == Pasv \in Fds /\ sock[Pasv].use # "free" /\ ~Own

(* What select finds readable.                                             *)
Readable(f) ==
  LET s == sock[f]
  IN CASE s.use \in {"listen", "pl"} -> s.q # <<>>
       [] s.use = "ctl" -> cl[s.peer].cmd # "none" \/ cl[s.peer].ctl = "fin"
       [] s.use = "data" -> cl[s.peer].unread > 0 \/ cl[s.peer].data \in {"fin", "rst"}
       [] OTHER -> FALSE

Init ==
  /\ sock = [f \in Fds |-> IF f = 0 THEN Listener ELSE Free]
  /\ tw = FALSE
  /\ conns = <<>> /\ readfds = {0} /\ tmpfds = {}
  /\ pc = "select" /\ left = 0 /\ awake = FALSE /\ pl = NoFd /\ pos = 0
  /\ mounted = TRUE /\ locked = FALSE /\ stale = FALSE /\ mounts = 0
  /\ cl = [c \in Clients |-> NewClient]
  /\ spent = [c \in Clients |-> 0] 
  /\ misused = FALSE /\ pasvFailed = FALSE /\ abandoned = FALSE
  /\ uncleared = FALSE /\ silent = FALSE

-----------------------------------------------------------------------------
(* Tasks do not preempt one another: the others run when this one waits, in*)
(* select, accept, recv or SLEEP.                                          *)
Waits ==
  \/ ~awake /\ pc # "aliased"
  \/ pc = "accept" /\ sock[0].q = <<>>
  \/ pc = "loop" /\ ~Readable(Cur.fd)

(* Clients, and the part of LwIP that answers them (external).             *)
Connect(c) ==
  /\ Waits /\ cl[c].ctl = "none" /\ spent[c] < Budget[c]
  /\ spent' = [spent EXCEPT ![c] = @ + 1]
  /\ IF NetconnFree
     THEN /\ sock' = [sock EXCEPT ![0].q = Append(@, c)]
          /\ cl' = [cl EXCEPT ![c] = [NewClient EXCEPT !.ctl = "queued"]]
     ELSE /\ sock' = [sock EXCEPT ![0].q = Append(@, "abrt")]
          /\ cl' = [cl EXCEPT ![c] = NewClient]
  /\ UNCHANGED <<tw, server, volume, hist>>

(* A command is sent; what the client does with its data connection first. *)
Send(c, k, n) ==
  /\ Waits /\ cl[c].ctl = "open" /\ ~cl[c].wait /\ spent[c] < Budget[c]
  /\ k \in {"LIST", "RETR", "STOR"} => c \in Careless \/ cl[c].data = "open"
  /\ k = "REST" <=> n > 0
  /\ spent' = [spent EXCEPT ![c] = @ + 1]
  /\ LET drops == k \in {"PASV", "PORT", "QUIT"} /\ cl[c].data # "none"
         me == [cl[c] EXCEPT !.cmd = k, !.doing = k, !.wait = TRUE, !.rep = "none",
                  !.data = IF drops THEN "none" ELSE @,
                  !.up = IF drops THEN 0 ELSE @, !.unread = IF drops THEN 0 ELSE @]
     IN /\ abandoned' = (abandoned \/ drops)
        /\ cl' = [cl EXCEPT ![c] =
             CASE k = "REST" -> [me EXCEPT !.asked = n]
               [] k = "RETR" -> [me EXCEPT !.asked = 0, !.from = cl[c].asked, !.got = <<>>,
                                           !.rested = @ \/ cl[c].asked > 0]
               [] OTHER -> me]
  /\ misused' = (misused \/ (k \in {"LIST", "RETR", "STOR"} /\ cl[c].data # "open"))
  /\ UNCHANGED <<sock, tw, server, volume, pasvFailed, uncleared, silent>>

(* After 227 the client connects to port 10000.                            *)
DataConnect(c) ==
  /\ Waits /\ cl[c].ctl = "open" /\ cl[c].rep = "227" /\ cl[c].data = "none"
  /\ \E f \in Fds :
       /\ sock[f].use = "pl" /\ sock[f].port
       /\ IF NetconnFree
          THEN /\ sock' = [sock EXCEPT ![f].q = Append(@, c)]
               /\ cl' = [cl EXCEPT ![c].data = "open", ![c].rep = "none"]
          ELSE /\ sock' = [sock EXCEPT ![f].q = Append(@, "abrt")]
               /\ cl' = [cl EXCEPT ![c].rep = "none"]
  /\ UNCHANGED <<tw, server, volume, spent, hist>>

(* The blocks of a STOR, its end, and a data connection that breaks (to    *)
(* RETR, which does not look at what send returns, that makes no odds).    *)
DataSend(c) ==
  /\ Waits /\ cl[c].data = "open" /\ cl[c].doing = "STOR" /\ cl[c].up < UpLen
  /\ cl' = [cl EXCEPT ![c].up = @ + 1, ![c].unread = @ + 1]
  /\ UNCHANGED <<sock, tw, server, volume, spent, hist>>

DataFin(c) ==
  /\ Waits /\ cl[c].data = "open" /\ cl[c].doing = "STOR" /\ cl[c].up = UpLen
  /\ cl' = [cl EXCEPT ![c].data = "fin"]
  /\ UNCHANGED <<sock, tw, server, volume, spent, hist>>

DataReset(c) ==
  /\ Waits /\ cl[c].data = "open" /\ cl[c].doing = "STOR"
  /\ cl' = [cl EXCEPT ![c].data = "rst", ![c].unread = 0]
  /\ UNCHANGED <<sock, tw, server, volume, spent, hist>>

(* The client closes its connections.                                      *)
Leave(c) ==
  /\ Waits /\ cl[c].ctl \in {"queued", "open"}
  /\ abandoned' = (abandoned \/ cl[c].data # "none" \/ cl[c].cmd = "PORT")
  /\ cl' = [cl EXCEPT ![c].ctl = "fin", ![c].wait = FALSE,
                      ![c].data = IF @ = "open" THEN "fin" ELSE @]
  /\ UNCHANGED <<sock, tw, server, volume, spent, misused, pasvFailed, uncleared, silent>>

(* 2 MSL have passed.                                                      *)
TimeWaitEnds ==
  /\ Waits /\ tw /\ tw' = FALSE
  /\ UNCHANGED <<sock, server, volume, cl, spent, hist>>

(* A request to TFTP or HTTP mounts its own object, and the end of a TFTP  *)
(* transfer unmounts it: files left open are forgotten (f_mount).          *)
Remount(m) ==
  /\ Waits /\ mounts < Mounts /\ mounts' = mounts + 1
  /\ mounted' = m /\ locked' = FALSE
  /\ stale' = (pc \in {"retr", "stor"})
  /\ <<mounted, locked, stale>> # <<mounted', locked', stale'>>
  /\ UNCHANGED <<sock, tw, server, cl, spent, hist>>

-----------------------------------------------------------------------------
(* The loop over conn_list goes on with the first of the last n connections*)
(* whose descriptor is in fds; at the end ftpd_thread selects again.       *)
GoOn(n, fds, on) ==
  LET ready == {k \in 1 .. n : conns[Len(conns) + 1 - k].fd \in fds}
  IN IF ready = {}
     THEN left' = 0 /\ pc' = "select" /\ awake' = FALSE /\ tmpfds' = {}
     ELSE left' = Highest(ready) /\ pc' = "loop" /\ awake' = on /\ tmpfds' = fds

(* ftpd_thread: the descriptors watched, and select, which fails at a      *)
(* closed one below maxfdp1 and then leaves tmpfds as it was.              *)
Select ==
  LET watched == readfds \cup {conns[i].fd : i \in DOMAIN conns}
      last == Highest({0} \cup {conns[i].fd : i \in DOMAIN conns})
      seen == {f \in watched : f <= last}
      bad == \E f \in seen : sock[f].use = "free"
      ready == IF bad THEN watched ELSE {f \in seen : Readable(f)}
  IN /\ pc = "select" /\ ready # {}
     /\ readfds' = watched
     /\ IF 0 \in ready THEN pc' = "accept" /\ left' = 0 /\ awake' = TRUE /\ tmpfds' = ready
        ELSE GoOn(Len(conns), ready, TRUE)
     /\ UNCHANGED <<sock, tw, conns, pl, pos, volume, cl, spent, hist>>

(* accept has nothing but the mark of a connection there was no netconn for*)
AcceptFails ==
  /\ pc = "accept" /\ sock[0].q # <<>> /\ Head(sock[0].q) = "abrt"
  /\ sock' = [sock EXCEPT ![0].q = Tail(@)]
  /\ GoOn(0, {}, FALSE)
  /\ UNCHANGED <<tw, conns, readfds, pl, pos, volume, cl, spent, hist>>

(* A connection; the memory of its struct conn is what malloc returns.     *)
Accept ==
  /\ pc = "accept" /\ sock[0].q # <<>> /\ Head(sock[0].q) # "abrt"
  /\ LET fd == Lowest(FreeFds)
         c == Head(sock[0].q)
     IN /\ sock' = [sock EXCEPT ![0].q = Tail(@), ![fd] = [Free EXCEPT !.use = "ctl", !.peer = c]]
        /\ readfds' = readfds \cup {fd}
        /\ cl' = [cl EXCEPT ![c].ctl = IF @ = "queued" THEN "open" ELSE @]
        /\ \E garbage \in Garbage :
             conns' = <<[fd |-> fd, pasv |-> garbage, offset |-> 0]>> \o conns
             /\ IF fd \in tmpfds THEN left' = Len(conns) + 1 /\ pc' = "loop" /\ UNCHANGED <<awake, tmpfds>>
                ELSE GoOn(Len(conns), tmpfds, awake)
  /\ UNCHANGED <<tw, pl, pos, volume, spent, hist>>

(* close(conn->sockfd) and destroy_conn.                                   *)
Destroyed(socks) ==
  /\ sock' = [socks EXCEPT ![Cur.fd] = Free]
  /\ conns' = [i \in 1 .. Len(conns) - 1 |-> IF i < At THEN conns[i] ELSE conns[i + 1]]

(* Mutants: the entry stays in the list; its bit stays set.                *)
HangupKeeps ==
  /\ pc = "loop" /\ Cur.fd \in tmpfds
  /\ cl[Peer].cmd = "none" /\ cl[Peer].ctl = "fin"
  /\ sock' = [sock EXCEPT ![Cur.fd] = Free]
  /\ readfds' = readfds \ {Cur.fd}
  /\ cl' = [cl EXCEPT ![Peer] = NewClient]
  /\ GoOn(left - 1, tmpfds, awake)
  /\ UNCHANGED <<tw, conns, pl, pos, volume, spent, hist>>

HangupUncleared ==
  /\ pc = "loop" /\ Cur.fd \in tmpfds
  /\ cl[Peer].cmd = "none" /\ cl[Peer].ctl = "fin"
  /\ Destroyed(sock)
  /\ cl' = [cl EXCEPT ![Peer] = NewClient]
  /\ GoOn(left - 1, tmpfds, awake)
  /\ UNCHANGED <<tw, readfds, pl, pos, volume, spent, hist>>

(* recv returns 0.                                                         *)
Hangup ==
  /\ pc = "loop" /\ Cur.fd \in tmpfds
  /\ cl[Peer].cmd = "none" /\ cl[Peer].ctl = "fin"
  /\ Destroyed(sock)
  /\ readfds' = readfds \ {Cur.fd}
  /\ cl' = [cl EXCEPT ![Peer] = NewClient]
  /\ GoOn(left - 1, tmpfds, awake)
  /\ UNCHANGED <<tw, pl, pos, volume, spent, hist>>

-----------------------------------------------------------------------------
(* ftp_process_request.  A command is read, and its reply sent.            *)
Asked(k) == pc = "loop" /\ Cur.fd \in tmpfds /\ cl[Peer].cmd = k

Read == [cl EXCEPT ![Peer].cmd = "none"]
Replied(clients, r) ==
  [clients EXCEPT ![Peer].cmd = "none", ![Peer].rep = r, ![Peer].wait = FALSE,
                  ![Peer].doing = "none", ![Peer].from = 0, ![Peer].got = <<>>]

(* SLEEP(1), and on to the next connection.                                *)
Sleep == GoOn(left - 1, tmpfds, FALSE)

(* close(conn->pasv_sockfd), and its effect on client and port.            *)
Closed == IF Own THEN [sock EXCEPT ![Pasv] = Free] ELSE sock
ClosedBy(clients) ==
  IF Own THEN [clients EXCEPT ![Peer].data = "none", ![Peer].unread = 0, ![Peer].up = 0] ELSE clients
Lingers == tw \/ (Own /\ sock[Pasv].port /\ cl[Peer].data = "open")

(* PASV finds no socket, or no connection comes in three seconds.          *)
NoConnection ==
  (Asked("PASV") /\ ~NetconnFree) \/ (pc = "pasv" /\ sock[pl].q = <<>>)

(* The transfers and a failed PASV use pasv_sockfd whatever it holds.      *)
UsesForeign ==
  /\ \/ NoConnection
     \/ Asked("LIST")
     \/ (Asked("RETR") \/ Asked("STOR")) /\ mounted /\ ~locked
  /\ Foreign
  /\ pc' = "aliased" /\ pl' = NoFd
  /\ pasvFailed' = (pasvFailed \/ NoConnection)
  /\ UNCHANGED <<sock, tw, conns, readfds, tmpfds, left, awake, pos, volume, cl, spent,
                 misused, abandoned, uncleared, silent>>

(* Commands that reply and do no more (all those not named below).         *)
Noop ==
  /\ Asked("NOOP")
  /\ cl' = Replied(cl, "200")
  /\ Sleep
  /\ UNCHANGED <<sock, tw, conns, readfds, pl, pos, volume, spent, hist>>

Rest ==
  /\ Asked("REST")
  /\ conns' = [conns EXCEPT ![At].offset = cl[Peer].asked]
  /\ cl' = Replied(cl, "350")
  /\ Sleep
  /\ UNCHANGED <<sock, tw, readfds, pl, pos, volume, spent, hist>>

(* 221, close and destroy_conn, but no FD_CLR.                             *)
Quit ==
  /\ Asked("QUIT")
  /\ Destroyed(sock)
  /\ cl' = [cl EXCEPT ![Peer] = NewClient]
  /\ uncleared' = TRUE
  /\ Sleep
  /\ UNCHANGED <<tw, readfds, pl, pos, volume, spent,
                 misused, pasvFailed, abandoned, silent>>

List ==
  /\ Asked("LIST") /\ ~Foreign
  /\ sock' = Closed /\ tw' = Lingers
  /\ cl' = Replied(ClosedBy(cl), "226")
  /\ Sleep
  /\ UNCHANGED <<conns, readfds, pl, pos, volume, spent, hist>>

(* Mutant: the socket is not remembered.                                   *)
PortForgets ==
  /\ Asked("PORT") /\ NetconnFree
  /\ sock' = [sock EXCEPT ![Lowest(FreeFds)] = [Free EXCEPT !.use = "data", !.peer = Peer]]
  /\ cl' = [Replied(cl, "200") EXCEPT ![Peer].data = "open"]
  /\ Sleep
  /\ UNCHANGED <<tw, conns, readfds, pl, pos, volume, spent, hist>>

(* PORT: a socket, and a connection to the client, or 425.                 *)
PortConnects ==
  /\ Asked("PORT") /\ NetconnFree
  /\ LET fd == Lowest(FreeFds)
     IN \/ /\ sock' = [sock EXCEPT ![fd] = [Free EXCEPT !.use = "data", !.peer = Peer]]
           /\ conns' = [conns EXCEPT ![At].pasv = fd]
           /\ cl' = [Replied(cl, "200") EXCEPT ![Peer].data =
                       IF cl[Peer].ctl = "open" THEN "open" ELSE "fin"]
        \/ /\ conns' = [conns EXCEPT ![At].pasv = fd]
           /\ cl' = Replied(cl, "425")
           /\ sock' = sock
  /\ Sleep
  /\ UNCHANGED <<tw, readfds, pl, pos, volume, spent, hist>>

PortNoSocket ==
  /\ Asked("PORT") /\ ~NetconnFree
  /\ conns' = [conns EXCEPT ![At].pasv = NoFd]
  /\ cl' = Replied(cl, "425")
  /\ Sleep
  /\ UNCHANGED <<sock, tw, readfds, pl, pos, volume, spent, hist>>

(* PASV: a listener; one that could not be bound listens all the same, and *)
(* the client is sent 425 before 227.                                      *)
PasvListens ==
  /\ Asked("PASV") /\ NetconnFree
  /\ pl' = Lowest(FreeFds)
  /\ sock' = [sock EXCEPT ![pl'] = [Free EXCEPT !.use = "pl", !.peer = Peer, !.port = ~PortBusy]]
  /\ cl' = Replied(cl, IF PortBusy THEN "425" ELSE "227")
  /\ pc' = "pasv" /\ awake' = FALSE
  /\ UNCHANGED <<tw, conns, readfds, tmpfds, left, pos, volume, spent, hist>>

(* Mutant: the listener is not closed.                                     *)
PasvAcceptsKeeps ==
  /\ pc = "pasv" /\ sock[pl].q # <<>> /\ Head(sock[pl].q) # "abrt"
  /\ LET fd == Lowest(FreeFds)
     IN /\ sock' = [sock EXCEPT ![pl].q = Tail(@),
                       ![fd] = [Free EXCEPT !.use = "data", !.peer = Head(sock[pl].q), !.port = TRUE]]
        /\ conns' = [conns EXCEPT ![At].pasv = fd]
  /\ pl' = NoFd
  /\ Sleep
  /\ UNCHANGED <<tw, readfds, pos, volume, cl, spent, hist>>

(* The client's connection becomes pasv_sockfd, and the listener is closed.*)
PasvAccepts ==
  /\ pc = "pasv" /\ sock[pl].q # <<>> /\ Head(sock[pl].q) # "abrt"
  /\ LET fd == Lowest(FreeFds)
     IN /\ sock' = [sock EXCEPT ![pl] = Free,
                       ![fd] = [Free EXCEPT !.use = "data", !.peer = Head(sock[pl].q), !.port = TRUE]]
        /\ conns' = [conns EXCEPT ![At].pasv = fd]
  /\ pl' = NoFd
  /\ Sleep
  /\ UNCHANGED <<tw, readfds, pos, volume, cl, spent, hist>>

(* What pasv_sockfd holds is closed, and the listener is not.              *)
PasvFails ==
  /\ NoConnection /\ ~Foreign
  /\ cl' = ClosedBy(IF pc = "loop" THEN Replied(cl, "425") ELSE cl)
  /\ sock' = Closed /\ tw' = Lingers
  /\ pasvFailed' = TRUE
  /\ pl' = NoFd
  /\ Sleep
  /\ UNCHANGED <<conns, readfds, pos, volume, spent, misused, abandoned, uncleared, silent>>

(* There was no netconn for the connection: accept returns -1.  A command  *)
(* that the client sent meanwhile stays to be read, and has its own reply. *)
PasvAcceptFails ==
  /\ pc = "pasv" /\ sock[pl].q # <<>> /\ Head(sock[pl].q) = "abrt"
  /\ sock' = [sock EXCEPT ![pl].q = Tail(@)]
  /\ conns' = [conns EXCEPT ![At].pasv = NoFd]
  /\ cl' = IF cl[Peer].cmd = "none" THEN Replied(cl, "425") ELSE cl
  /\ pasvFailed' = TRUE
  /\ pl' = NoFd
  /\ Sleep
  /\ UNCHANGED <<tw, readfds, pos, volume, spent, misused, abandoned, uncleared, silent>>

(* RETR and STOR open the file.                                            *)
Opens == mounted /\ ~locked

(* Mutant: the reply is forgotten.                                         *)
RefusedSilently ==
  /\ Asked("RETR") \/ Asked("STOR")
  /\ ~Opens
  /\ conns' = IF Asked("RETR") THEN [conns EXCEPT ![At].offset = 0] ELSE conns
  /\ cl' = Read
  /\ Sleep
  /\ UNCHANGED <<sock, tw, readfds, pl, pos, volume, spent, hist>>

Refused ==
  /\ Asked("RETR") \/ Asked("STOR")
  /\ ~Opens
  /\ conns' = IF Asked("RETR") THEN [conns EXCEPT ![At].offset = 0] ELSE conns
  /\ cl' = Replied(cl, "550")
  /\ Sleep
  /\ UNCHANGED <<sock, tw, readfds, pl, pos, volume, spent, hist>>

(* Mutant: an offset at the end of the file is taken for one within.       *)
RetrStartsLate ==
  /\ Asked("RETR") /\ Opens /\ ~Foreign
  /\ pos' = IF Cur.offset <= FileLen THEN Cur.offset ELSE 0
  /\ stale' = FALSE
  /\ pc' = "retr" /\ awake' = FALSE
  /\ cl' = Read
  /\ UNCHANGED <<sock, tw, conns, readfds, tmpfds, left, pl, mounted, locked, mounts, spent, hist>>

(* RETR starts at the offset REST left in the connection.                  *)
RetrStarts ==
  /\ Asked("RETR") /\ Opens /\ ~Foreign
  /\ pos' = IF Cur.offset < FileLen THEN Cur.offset ELSE 0
  /\ stale' = FALSE
  /\ pc' = "retr" /\ awake' = FALSE
  /\ cl' = Read
  /\ UNCHANGED <<sock, tw, conns, readfds, tmpfds, left, pl, mounted, locked, mounts, spent, hist>>

RetrSends ==
  /\ pc = "retr" /\ ~stale /\ pos < FileLen
  /\ pos' = pos + 1
  /\ cl' = IF Own /\ cl[Peer].data = "open" THEN [cl EXCEPT ![Peer].got = Append(@, pos + 1)] ELSE cl
  /\ UNCHANGED <<sock, tw, conns, readfds, tmpfds, pc, left, awake, pl, volume, spent, hist>>

(* f_read gives nothing: at the end of the file, or because it is invalid. *)
RetrEnds ==
  /\ pc = "retr" /\ (stale \/ pos = FileLen)
  /\ sock' = Closed /\ tw' = Lingers
  /\ cl' = Replied(ClosedBy(cl), "226")
  /\ pos' = 0 /\ stale' = FALSE
  /\ Sleep
  /\ UNCHANGED <<conns, readfds, pl, mounted, locked, mounts, spent, hist>>

StorStarts ==
  /\ Asked("STOR") /\ Opens /\ ~Foreign
  /\ pos' = 0 /\ stale' = FALSE
  /\ pc' = "stor" /\ awake' = FALSE
  /\ cl' = Read
  /\ UNCHANGED <<sock, tw, conns, readfds, tmpfds, left, pl, mounted, locked, mounts, spent, hist>>

(* What was received is written; f_write is not asked whether it was.      *)
StorStores ==
  /\ pc = "stor" /\ Own /\ cl[Peer].unread > 0
  /\ pos' = IF stale THEN pos ELSE pos + cl[Peer].unread
  /\ cl' = [cl EXCEPT ![Peer].unread = 0]
  /\ UNCHANGED <<sock, tw, conns, readfds, tmpfds, pc, left, awake, pl, volume, spent, hist>>

(* Mutant: the end of the connection is noticed before its data.           *)
StorEndsEarly ==
  /\ pc = "stor" /\ Own /\ cl[Peer].data = "fin"
  /\ sock' = Closed /\ tw' = Lingers
  /\ cl' = Replied(ClosedBy(cl), "226")
  /\ pos' = 0 /\ stale' = FALSE
  /\ Sleep
  /\ UNCHANGED <<conns, readfds, pl, mounted, locked, mounts, spent, hist>>

(* The client has closed the data connection: 226.                         *)
StorEnds ==
  /\ pc = "stor" /\ Own /\ cl[Peer].unread = 0 /\ cl[Peer].data = "fin"
  /\ sock' = Closed /\ tw' = Lingers
  /\ cl' = Replied(ClosedBy(cl), "226")
  /\ pos' = 0 /\ stale' = FALSE
  /\ Sleep
  /\ UNCHANGED <<conns, readfds, pl, mounted, locked, mounts, spent, hist>>

(* recv fails: the control connection is closed as well, without FD_CLR.   *)
StorBreaks ==
  /\ pc = "stor" /\ Own /\ cl[Peer].unread = 0 /\ cl[Peer].data = "rst"
  /\ Destroyed(Closed)
  /\ cl' = [cl EXCEPT ![Peer] = NewClient]
  /\ uncleared' = TRUE
  /\ pos' = 0 /\ stale' = FALSE
  /\ Sleep
  /\ UNCHANGED <<tw, readfds, pl, mounted, locked, mounts, spent,
                 misused, pasvFailed, abandoned, silent>>

(* Three seconds without data, or no socket to wait for: the file is not   *)
(* closed and no reply is sent.                                            *)
StorGivesUp ==
  /\ pc = "stor" /\ (Own => cl[Peer].unread = 0 /\ cl[Peer].data \notin {"fin", "rst"})
  /\ locked' = (locked \/ ~stale)
  /\ sock' = Closed /\ tw' = Lingers
  /\ cl' = ClosedBy(cl)
  /\ silent' = TRUE
  /\ pos' = 0 /\ stale' = FALSE
  /\ Sleep
  /\ UNCHANGED <<conns, readfds, pl, mounted, mounts, spent,
                 misused, pasvFailed, abandoned, uncleared>>

-----------------------------------------------------------------------------
Server ==
  \/ Select \/ AcceptFails \/ Accept \/ Hangup
  \/ UsesForeign \/ Noop \/ Rest \/ Quit \/ List
  \/ PortConnects \/ PortNoSocket \/ PasvListens \/ PasvAccepts
  \/ PasvFails \/ PasvAcceptFails
  \/ Refused \/ RetrStarts \/ RetrSends \/ RetrEnds
  \/ StorStarts \/ StorStores \/ StorEnds \/ StorBreaks \/ StorGivesUp

Environment ==
  \/ \E c \in Clients :
       \/ Connect(c) \/ DataConnect(c) \/ DataSend(c) \/ DataFin(c) \/ DataReset(c) \/ Leave(c)
       \/ \E k \in Commands[c], n \in 0 .. FileLen : Send(c, k, n)
  \/ TimeWaitEnds
  \/ \E m \in BOOLEAN : Remount(m)

Next == Server \/ Environment

Spec == Init /\ [][Next]_vars

(* The task runs whenever it can, and its timeouts come.  Nothing is asked *)
(* of clients.                                                             *)
FairSpec == Spec /\ WF_vars(Server)

-----------------------------------------------------------------------------
(* Every variable has its type, and there are no more netconns than there  *)
(* are (so that accept finds a descriptor for every connection).           *)
TypeOK ==
  /\ sock \in [Fds -> [use : {"free", "listen", "pl", "ctl", "data"}, peer : Clients \cup {NoOne},
                       q : Seq(Clients \cup {"abrt"}), port : BOOLEAN]]
  /\ conns \in Seq([fd : Fds, pasv : Fds \cup {NoFd}, offset : 0 .. FileLen])
  /\ readfds \subseteq Fds /\ tmpfds \subseteq Fds
  /\ pc \in {"select", "accept", "loop", "pasv", "retr", "stor", "aliased"}
  /\ left \in 0 .. Len(conns) /\ (pc \notin {"select", "accept"} => left > 0)
  /\ awake \in BOOLEAN /\ pl \in Fds \cup {NoFd} /\ (pc = "pasv" <=> pl # NoFd)
  /\ pos \in 0 .. FileLen + UpLen
  /\ Cardinality(Fds \ FreeFds) + Cardinality(UNION {Pending(f) : f \in Fds}) <= MaxConn

(* Control sockets and connections of conn_list correspond one to one, as  *)
(* long as the server only closed sockets of its own: none is forgotten    *)
(* open, and none is waited for after its end.                             *)
ControlSockets ==
  /\ \A f \in Fds : sock[f].use = "ctl" <=> \E i \in DOMAIN conns : conns[i].fd = f
  /\ \A i, j \in DOMAIN conns : conns[i].fd = conns[j].fd => i = j

(* The server works on a socket that is not its own only after a PASV that *)
(* failed or a transfer asked for without a data connection: otherwise     *)
(* pasv_sockfd names the client's own data connection whenever it is used, *)
(* although it is never initialised nor reset.                             *)
AliasNeedsCause == pc = "aliased" => pasvFailed \/ misused

(* Every socket is the listener, a control connection, the data connection *)
(* of one, or the listener of the PASV being served - unless a PASV failed *)
(* or a client gave up a data connection.                                  *)
NoLeak ==
  \A f \in Fds \ {0} :
    /\ sock[f].use = "data" => abandoned \/ \E i \in DOMAIN conns : conns[i].pasv = f
    /\ sock[f].use = "pl" => pasvFailed \/ (pc = "pasv" /\ pl = f)

(* The server waits in accept, deaf to its clients, only after a           *)
(* connection was closed without FD_CLR.                                   *)
DeafNeedsCause == pc = "accept" /\ sock[0].q = <<>> => uncleared

(* A client whose data connection stands gets the blocks it asked for      *)
(* before 226, unless the volume was mounted anew meanwhile, or an earlier *)
(* REST of the connection still counts.                                    *)
RetrWhole ==
  [][(pc = "retr" /\ pc' # "retr" /\ ~stale /\ Own /\ cl[Peer].data = "open"
        /\ (cl[Peer].from > 0 \/ ~cl[Peer].rested)) =>
      LET from == IF cl[Peer].from < FileLen THEN cl[Peer].from ELSE 0
      IN cl[Peer].got = [i \in 1 .. FileLen - from |-> from + i]]_vars

(* A STOR is confirmed when all blocks sent were written, unless the volume*)
(* was mounted anew meanwhile.                                             *)
StorWhole ==
  [][(\E c \in Clients : cl[c].wait /\ cl[c].doing = "STOR" /\ cl'[c].rep = "226" /\ cl[c].rep # "226")
       => stale \/ pos = UpLen]_vars

(* A command of a careful client is answered, whatever the other clients   *)
(* do, unless a connection was closed without FD_CLR, a STOR was given up  *)
(* in silence, or the server has worked on a socket that is not its own.   *)
Answered ==
  \A c \in Clients \ Careless :
    cl[c].wait ~> ~cl[c].wait \/ uncleared \/ silent \/ pc = "aliased"

=============================================================================
