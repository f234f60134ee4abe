------------------------------ MODULE Sessions ------------------------------
(***************************************************************************)
(* The life of a chat connection on the server: the accepting thread       *)
(* (MasterServer.cc), the event loops of the workers (Worker.cc), the      *)
(* process-wide tables users, fds and Worker_fd, login, the heartbeat      *)
(* check, private messages and their dispatch between workers, and the     *)
(* teardown of a connection.                                               *)
(*                                                                         *)
(* Every worker is a thread.  The tables have no lock that two workers     *)
(* share (each Worker owns its UserManager and so its own _mtx), so one    *)
(* step of this module is one access to a table, to a socket or to the     *)
(* conn map of a worker.                                                   *)
(*                                                                         *)
(* A descriptor is a number the kernel gives out again once it is closed;  *)
(* a client stands for one connection, and so for the Connection object    *)
(* the server makes for it.                                                *)
(***************************************************************************)
EXTENDS Integers, FiniteSets

CONSTANTS
    Clients,       \* connections: chat sockets and heartbeat sockets
    Users,         \* account names
    Fds,           \* descriptor numbers the kernel may give to accept
    WORKER,        \* number of worker threads
    MaxFrames,     \* bound: frames that one pass of readMessage unpacks
    IdleTimeouts,  \* may a connection stay silent longer than TIME_OUT?
    NoClient, NoUser

Workers == 0 .. (WORKER - 1)
NoFd == 0          \* what users[name] yields for an absent name
NoWorker == -1

ASSUME SessionsAssumption ==
    /\ WORKER \in Nat \ {0}
    /\ Fds \subseteq Nat \ {0}
    /\ MaxFrames \in Nat \ {0}
    /\ IdleTimeouts \in BOOLEAN
    /\ NoClient \notin Clients
    /\ NoUser \notin Users

VARIABLES
    \* clients and kernel
    cl,         \* cl[c]: "out" before connect, "up", "gone" once it closed
    who,        \* the account client c logs in as (NoUser: heartbeat socket)
    backlog,    \* connections waiting for accept
    peer,       \* the client at the far end of an open descriptor
    epoll,      \* the worker whose epoll instance watches a descriptor
    inbox,      \* accounts whose messages reached client c
    \* tables of the process
    Worker_fd,  \* descriptor -> worker number, never erased
    conn,       \* conn[w]: descriptor -> Connection of worker w
    users,      \* account -> descriptor
    fds,        \* descriptor -> account
    \* the accepting thread
    mpc, mfd, mcli, turn,
    \* the workers: program counter and locals
    pc, lfd, me, left, luser, to, tw,
    \* history: who had LOGIN handled, who was answered UNLOGIN, who has held a
    \* descriptor number; and whether the process died of a bad pointer
    logged, told, held, crashed

clientVars == <<cl, who, backlog, inbox>>
tableVars  == <<Worker_fd, users, fds>>
masterVars == <<mpc, mfd, mcli, turn>>
localVars  == <<lfd, me, left, luser, to, tw>>
historyVars == <<logged, told, held>>
vars == <<clientVars, peer, epoll, tableVars, conn, masterVars, pc, localVars,
          historyVars, crashed>>

\* remove_fd holds cli_mutex from its first statement to its last.
Removing == {"erase", "unname", "unuser", "unfd", "close"}
\* readMessage is on the stack of the worker.
Handling == {"heart", "frame", "addUser", "bindFd", "route", "count", "deref"}

TypeOK ==
    /\ cl \in [Clients -> {"out", "up", "gone"}]
    /\ who \in [Clients -> Users \cup {NoUser}]
    /\ backlog \subseteq Clients
    /\ peer \in [Fds -> Clients \cup {NoClient}]
    /\ epoll \in [Fds -> Workers \cup {NoWorker}]
    /\ inbox \in [Clients -> SUBSET Users]
    /\ Worker_fd \in [Fds -> Workers]
    /\ conn \in [Workers -> [Fds -> Clients \cup {NoClient}]]
    /\ users \in [Users -> Fds \cup {NoFd}]
    /\ fds \in [Fds -> Users \cup {NoUser}]
    /\ mpc \in {"accept", "distribute", "make_queue"}
    /\ mfd \in Fds \cup {NoFd}
    /\ mcli \in Clients \cup {NoClient}
    /\ turn \in Workers
    /\ pc \in [Workers -> {"idle"} \cup Handling \cup Removing]
    /\ lfd \in [Workers -> Fds \cup {NoFd}]
    /\ me \in [Workers -> Clients \cup {NoClient}]
    /\ left \in [Workers -> 0 .. MaxFrames]
    /\ luser \in [Workers -> Users \cup {NoUser}]
    /\ to \in [Workers -> Fds \cup {NoFd}]
    /\ tw \in [Workers -> Workers \cup {NoWorker}]
    /\ logged \subseteq Clients
    /\ told \subseteq Clients
    /\ held \in [Fds -> SUBSET Clients]
    /\ crashed \in BOOLEAN

Init ==
    /\ cl = [c \in Clients |-> "out"]
    /\ who = [c \in Clients |-> NoUser]
    /\ backlog = {}
    /\ peer = [f \in Fds |-> NoClient]
    /\ epoll = [f \in Fds |-> NoWorker]
    /\ inbox = [c \in Clients |-> {}]
    /\ Worker_fd = [f \in Fds |-> 0]
    /\ conn = [w \in Workers |-> [f \in Fds |-> NoClient]]
    /\ users = [u \in Users |-> NoFd]
    /\ fds = [f \in Fds |-> NoUser]
    /\ mpc = "accept" /\ mfd = NoFd /\ mcli = NoClient /\ turn = 0
    /\ pc = [w \in Workers |-> "idle"]
    /\ lfd = [w \in Workers |-> NoFd]
    /\ me = [w \in Workers |-> NoClient]
    /\ left = [w \in Workers |-> 0]
    /\ luser = [w \in Workers |-> NoUser]
    /\ to = [w \in Workers |-> NoFd]
    /\ tw = [w \in Workers |-> NoWorker]
    /\ logged = {} /\ told = {}
    /\ held = [f \in Fds |-> {}]
    /\ crashed = FALSE

-----------------------------------------------------------------------------
(* Clients.  init connects and sends LOGIN before anything else; Heart.cc  *)
(* opens a second connection that never logs in.                           *)

Connect(c, u) ==
    /\ ~crashed
    /\ cl[c] = "out"
    /\ cl' = [cl EXCEPT ![c] = "up"]
    /\ who' = [who EXCEPT ![c] = u]
    /\ backlog' = backlog \cup {c}
    /\ UNCHANGED <<inbox, peer, epoll, tableVars, conn, masterVars, pc,
                   localVars, historyVars, crashed>>

\* The client closes its socket, exits or dies.
Quit(c) ==
    /\ ~crashed
    /\ cl[c] = "up"
    /\ cl' = [cl EXCEPT ![c] = "gone"]
    /\ UNCHANGED <<who, backlog, inbox, peer, epoll, tableVars, conn,
                   masterVars, pc, localVars, historyVars, crashed>>

-----------------------------------------------------------------------------
(* The accepting thread.                                                   *)

accept_client(c, f) ==
    /\ ~crashed
    /\ mpc = "accept"
    /\ c \in backlog
    /\ peer[f] = NoClient
    /\ backlog' = backlog \ {c}
    /\ peer' = [peer EXCEPT ![f] = c]
    /\ mfd' = f
    /\ mcli' = c
    /\ held' = [held EXCEPT ![f] = @ \cup {c}]
    /\ mpc' = "distribute"
    /\ UNCHANGED <<cl, who, inbox, epoll, tableVars, conn, turn, pc, localVars,
                   logged, told, crashed>>

\* Workers are taken in turn.
next_worker_unwrapped(t) == t + 1
next_worker(t) == (t + 1) % WORKER

distribute_worker ==
    /\ ~crashed
    /\ mpc = "distribute"
    /\ Worker_fd' = [Worker_fd EXCEPT ![mfd] = turn]
    /\ turn' = next_worker(turn)
    /\ mpc' = "make_queue"
    /\ UNCHANGED <<clientVars, peer, epoll, users, fds, conn, mfd, mcli,
                   pc, localVars, historyVars, crashed>>

\* The new Connection replaces what conn held for that number.  When that is
\* the object whose readMessage is running, the thread goes on in freed
\* memory, which may or may not bring the process down.
make_queue(w) ==
    /\ ~crashed
    /\ mpc = "make_queue"
    /\ w = Worker_fd[mfd]
    /\ pc[w] \notin Removing
    /\ conn' = [conn EXCEPT ![w][mfd] = mcli]
    /\ epoll' = [epoll EXCEPT ![mfd] = IF peer[mfd] = NoClient THEN NoWorker ELSE w]
    /\ crashed' \in IF pc[w] \in Handling /\ lfd[w] = mfd
                      THEN BOOLEAN ELSE {FALSE}
    /\ mpc' = "accept"
    /\ mfd' = NoFd
    /\ mcli' = NoClient
    /\ UNCHANGED <<clientVars, peer, tableVars, turn, pc, localVars, historyVars>>

-----------------------------------------------------------------------------
(* One worker: reading.                                                    *)

\* The locals a worker holds while it serves nobody.
Clear(w) ==
    /\ lfd' = [lfd EXCEPT ![w] = NoFd]
    /\ me' = [me EXCEPT ![w] = NoClient]
    /\ left' = [left EXCEPT ![w] = 0]
    /\ luser' = [luser EXCEPT ![w] = NoUser]
    /\ to' = [to EXCEPT ![w] = NoFd]
    /\ tw' = [tw EXCEPT ![w] = NoWorker]

\* The frame is done: unpack the next one of the buffer, or leave the loop.
FrameDone(w) ==
    \/ /\ left[w] > 1
       /\ pc' = [pc EXCEPT ![w] = "heart"]
       /\ left' = [left EXCEPT ![w] = @ - 1]
       /\ luser' = [luser EXCEPT ![w] = NoUser]
       /\ to' = [to EXCEPT ![w] = NoFd]
       /\ tw' = [tw EXCEPT ![w] = NoWorker]
       /\ UNCHANGED <<lfd, me>>
    \/ /\ left[w] = 1
       /\ pc' = [pc EXCEPT ![w] = "idle"]
       /\ Clear(w)

\* The kernel drops a closed descriptor from the epoll instance it is in.
close(f) ==
    /\ peer' = [peer EXCEPT ![f] = NoClient]
    /\ epoll' = [epoll EXCEPT ![f] = NoWorker]

\* epoll reports input and read drains n whole frames up to EAGAIN.
ReadFrames(w, f, n) ==
    /\ ~crashed
    /\ pc[w] = "idle"
    /\ epoll[f] = w
    /\ cl[peer[f]] = "up"
    /\ pc' = [pc EXCEPT ![w] = "heart"]
    /\ lfd' = [lfd EXCEPT ![w] = f]
    /\ me' = [me EXCEPT ![w] = conn[w][f]]
    /\ left' = [left EXCEPT ![w] = n]
    /\ UNCHANGED <<clientVars, peer, epoll, tableVars, conn, masterVars,
                   luser, to, tw, historyVars, crashed>>

\* read returns 0: readMessage gives up, whatever it appended to _buffer
\* before, and eventloop calls remove_fd.
ReadEof(w, f) ==
    /\ ~crashed
    /\ pc[w] = "idle"
    /\ epoll[f] = w
    /\ cl[peer[f]] = "gone"
    /\ pc' = [pc EXCEPT ![w] = "erase"]
    /\ lfd' = [lfd EXCEPT ![w] = f]
    /\ UNCHANGED <<clientVars, peer, epoll, tableVars, conn, masterVars, me,
                   left, luser, to, tw, historyVars, crashed>>

-----------------------------------------------------------------------------
(* checkHeart runs on every frame, before the frame is handled.            *)

HeartOk(w) ==
    /\ ~crashed
    /\ pc[w] = "heart"
    /\ pc' = [pc EXCEPT ![w] = "frame"]
    /\ UNCHANGED <<clientVars, peer, epoll, tableVars, conn, masterVars,
                   localVars, historyVars, crashed>>

\* More than TIME_OUT seconds of silence (or an uninitialised heart_time on
\* the first frame): the number _fd is closed, whoever owns it by now.
\* Nothing else is cleaned up, the caller ignores the result and goes on.
HeartTimeout(w) ==
    /\ ~crashed
    /\ IdleTimeouts
    /\ pc[w] = "heart"
    /\ close(lfd[w])
    /\ pc' = [pc EXCEPT ![w] = "frame"]
    /\ UNCHANGED <<clientVars, tableVars, conn, masterVars, localVars,
                   historyVars, crashed>>

-----------------------------------------------------------------------------
(* Handlers.                                                               *)

\* adduser: a name that is taken gets UNLOGIN as an answer, and no return.
adduser(w) ==
    LET c == me[w] IN
    /\ ~crashed
    /\ pc[w] = "frame"
    /\ who[c] # NoUser /\ c \notin logged
    /\ logged' = logged \cup {c}
    /\ told' = IF users[who[c]] # NoFd THEN told \cup {c} ELSE told
    /\ pc' = [pc EXCEPT ![w] = "addUser"]
    /\ UNCHANGED <<clientVars, peer, epoll, tableVars, conn, masterVars,
                   localVars, held, crashed>>

addUser(w) ==
    /\ ~crashed
    /\ pc[w] = "addUser"
    /\ users' = [users EXCEPT ![who[me[w]]] = lfd[w]]
    /\ pc' = [pc EXCEPT ![w] = "bindFd"]
    /\ UNCHANGED <<clientVars, peer, epoll, Worker_fd, fds, conn, masterVars,
                   localVars, historyVars, crashed>>

bindFd(w) ==
    /\ ~crashed
    /\ pc[w] = "bindFd"
    /\ fds' = [fds EXCEPT ![lfd[w]] = who[me[w]]]
    /\ FrameDone(w)
    /\ UNCHANGED <<clientVars, peer, epoll, Worker_fd, users, conn, masterVars,
                   historyVars, crashed>>

\* A frame that leaves presence alone (lists, groups, heartbeats), and the
\* only kind a heartbeat connection sends.
OtherFrame(w) ==
    /\ ~crashed
    /\ pc[w] = "frame"
    /\ who[me[w]] = NoUser \/ me[w] \in logged
    /\ FrameDone(w)
    /\ UNCHANGED <<clientVars, peer, epoll, tableVars, conn, masterVars,
                   historyVars, crashed>>

\* Send_msg and the other handlers that notify v: look the name up once.
\* Absent: the notice goes to Redis (see the module of the mailbox).
Send_msg(w, v) ==
    /\ ~crashed
    /\ pc[w] = "frame"
    /\ me[w] \in logged
    /\ \/ /\ users[v] = NoFd
          /\ FrameDone(w)
       \/ /\ users[v] # NoFd
          /\ to' = [to EXCEPT ![w] = users[v]]
          /\ luser' = [luser EXCEPT ![w] = v]
          /\ pc' = [pc EXCEPT ![w] = "route"]
          /\ UNCHANGED <<lfd, me, left, tw>>
    /\ UNCHANGED <<clientVars, peer, epoll, tableVars, conn, masterVars,
                   historyVars, crashed>>

dispatch(w) ==
    /\ ~crashed
    /\ pc[w] = "route"
    /\ tw' = [tw EXCEPT ![w] = Worker_fd[to[w]]]
    /\ pc' = [pc EXCEPT ![w] = "count"]
    /\ UNCHANGED <<clientVars, peer, epoll, tableVars, conn, masterVars, lfd,
                   me, left, luser, to, historyVars, crashed>>

\* Notify, first half: conn.count(to_fd) of the other worker, without a lock.
Notify_count(w) ==
    /\ ~crashed
    /\ pc[w] = "count"
    /\ \/ /\ conn[tw[w]][to[w]] # NoClient
          /\ pc' = [pc EXCEPT ![w] = "deref"]
          /\ UNCHANGED localVars
       \/ /\ conn[tw[w]][to[w]] = NoClient
          /\ FrameDone(w)
    /\ UNCHANGED <<clientVars, peer, epoll, tableVars, conn, masterVars,
                   historyVars, crashed>>

\* dispatch(_fd, to_fd, msg): the second descriptor is the addressee's.
target_swapped(w) == lfd[w]
target(w) == to[w]

\* Notify, second half: conn[to_fd]-> on an entry erased since then is a null
\* pointer; otherwise the bytes go to whoever is behind the number.
Notify_send(w) ==
    LET there == peer[target(w)] IN
    /\ ~crashed
    /\ pc[w] = "deref"
    /\ crashed' = (conn[tw[w]][target(w)] = NoClient)
    /\ inbox' = IF there = NoClient \/ crashed' THEN inbox
                ELSE [inbox EXCEPT ![there] = @ \cup {luser[w]}]
    /\ FrameDone(w)
    /\ UNCHANGED <<cl, who, backlog, peer, epoll, tableVars, conn, masterVars,
                   historyVars>>

-----------------------------------------------------------------------------
(* remove_fd, under cli_mutex: the order of its statements.                *)

removal_close_first ==
    [erase |-> "close", close |-> "unname", unname |-> "unuser",
     unuser |-> "unfd", unfd |-> "idle"]

removal ==
    [erase |-> "unname", unname |-> "unuser", unuser |-> "unfd",
     unfd |-> "close", close |-> "idle"]

\* The locals are gone once remove_fd returns.
RemoveGoto(w, label) ==
    /\ pc' = [pc EXCEPT ![w] = label]
    /\ lfd' = [lfd EXCEPT ![w] = IF label = "idle" THEN NoFd ELSE @]

EpollDel(w) ==
    epoll' = [epoll EXCEPT ![lfd[w]] = IF @ = w THEN NoWorker ELSE @]

remove_erase_keeps_conn(w) ==
    /\ ~crashed
    /\ pc[w] = "erase"
    /\ EpollDel(w)
    /\ RemoveGoto(w, removal.erase)
    /\ UNCHANGED <<clientVars, peer, tableVars, conn, masterVars, me, left,
                   luser, to, tw, historyVars, crashed>>

remove_erase(w) ==
    /\ ~crashed
    /\ pc[w] = "erase"
    /\ EpollDel(w)
    /\ conn' = [conn EXCEPT ![w][lfd[w]] = NoClient]
    /\ RemoveGoto(w, removal.erase)
    /\ UNCHANGED <<clientVars, peer, tableVars, masterVars, me, left, luser,
                   to, tw, historyVars, crashed>>

removeUser_name(w) ==
    /\ ~crashed
    /\ pc[w] = "unname"
    /\ luser' = [luser EXCEPT ![w] = fds[lfd[w]]]
    /\ RemoveGoto(w, removal.unname)
    /\ UNCHANGED <<clientVars, peer, epoll, tableVars, conn, masterVars, me,
                   left, to, tw, historyVars, crashed>>

\* users.erase(username), which erases nothing when username is "".
erase_none(name) == users
erase_user(name) == [u \in Users |-> IF u = name THEN NoFd ELSE users[u]]

removeUser_users(w) ==
    /\ ~crashed
    /\ pc[w] = "unuser"
    /\ users' = erase_user(luser[w])
    /\ luser' = [luser EXCEPT ![w] = NoUser]
    /\ RemoveGoto(w, removal.unuser)
    /\ UNCHANGED <<clientVars, peer, epoll, Worker_fd, fds, conn, masterVars,
                   me, left, to, tw, historyVars, crashed>>

removeUser_fds(w) ==
    /\ ~crashed
    /\ pc[w] = "unfd"
    /\ fds' = [fds EXCEPT ![lfd[w]] = NoUser]
    /\ RemoveGoto(w, removal.unfd)
    /\ UNCHANGED <<clientVars, peer, epoll, Worker_fd, users, conn, masterVars,
                   me, left, luser, to, tw, historyVars, crashed>>

remove_close_leaks(w) ==
    /\ ~crashed
    /\ pc[w] = "close"
    /\ RemoveGoto(w, removal.close)
    /\ UNCHANGED <<clientVars, peer, epoll, tableVars, conn, masterVars, me,
                   left, luser, to, tw, historyVars, crashed>>

remove_close(w) ==
    /\ ~crashed
    /\ pc[w] = "close"
    /\ close(lfd[w])
    /\ RemoveGoto(w, removal.close)
    /\ UNCHANGED <<clientVars, tableVars, conn, masterVars, me, left, luser,
                   to, tw, historyVars, crashed>>

-----------------------------------------------------------------------------
Client == \E c \in Clients : Quit(c) \/ \E u \in Users \cup {NoUser} : Connect(c, u)

Master ==
    \/ \E c \in Clients, f \in Fds : accept_client(c, f)
    \/ distribute_worker
    \/ \E w \in Workers : make_queue(w)

\* What worker w does once it has begun to serve a descriptor.
Serve(w) ==
    \/ HeartOk(w) \/ HeartTimeout(w)
    \/ adduser(w) \/ addUser(w) \/ bindFd(w)
    \/ OtherFrame(w)
    \/ \E v \in Users : Send_msg(w, v)
    \/ dispatch(w) \/ Notify_count(w) \/ Notify_send(w)
    \/ remove_erase(w) \/ removeUser_name(w) \/ removeUser_users(w)
    \/ removeUser_fds(w) \/ remove_close(w)

Read(w) ==
    \E f \in Fds : ReadEof(w, f) \/ \E n \in 1 .. MaxFrames : ReadFrames(w, f, n)

Next ==
    \/ Client
    \/ Master
    \/ \E w \in Workers : Read(w) \/ Serve(w)

Spec == Init /\ [][Next]_vars

\* Threads are scheduled and a handler never blocks; make_queue waits for
\* cli_mutex, which a busy worker takes again and again.  epoll_wait serves
\* ready descriptors in turn, so one whose end of file is pending is reported
\* although other descriptors keep the worker busy: strong fairness, because
\* the worker is idle only now and then.
Fairness ==
    /\ WF_vars(distribute_worker)
    /\ \A w \in Workers : SF_vars(make_queue(w)) /\ WF_vars(Serve(w))
    /\ \A w \in Workers, f \in Fds : SF_vars(ReadEof(w, f))

FairSpec == Spec /\ Fairness
-----------------------------------------------------------------------------
(* Properties.                                                             *)

\* An account is never routed to a descriptor that is closed, or that the
\* kernel has given to somebody else since: users[u] (User_manager.cc:3) leads
\* to a client that logged in as u, whatever removals and logins overlap.
RegisteredIsLive ==
    \A u \in Users :
        users[u] # NoFd => /\ peer[users[u]] # NoClient
                           /\ who[peer[users[u]]] = u

\* Two event loops never work for the same descriptor, and no conn map keeps
\* an entry for a number that now belongs to a connection of another worker
\* (Worker.cc:22-42, 89-98): teardown empties conn before close frees the number.
ServedByOneWorker ==
    \A f \in Fds, v, w \in Workers :
        v # w => /\ ~(lfd[v] = f /\ lfd[w] = f)
                 /\ ~(conn[v][f] # NoClient /\ conn[w][f] # NoClient)

\* A private message gets into the wrong hands in one way only: the addressee
\* held the descriptor number before, and the number changed hands between the
\* look-up in users and the send (connection.cc:1462-1483, Worker.cc:100-103).
MisroutedByReuseOnly ==
    \A c \in Clients : \A v \in inbox[c] :
        who[c] # v => \E f \in Fds, d \in Clients : {c, d} \subseteq held[f] /\ who[d] = v

\* A connection that is the only one ever to log in as its account stays
\* registered for as long as its socket is open and it is not being removed,
\* whatever becomes of other accounts, of silent connections and of reused
\* descriptor numbers (connection.cc:1304-1316, Worker.cc:89-98).
SoleSessionReachable ==
    \A f \in Fds :
        LET c == peer[f] IN
        (/\ c \in logged
         /\ \A d \in logged : who[d] = who[c] => d = c
         /\ \A w \in Workers : me[w] = c => pc[w] # "addUser"
         /\ \A w \in Workers : pc[w] \in Removing => lfd[w] # f)
        => users[who[c]] = f

\* UNLOGIN tells a newcomer that its account is logged in elsewhere
\* (recv_friends.cc:138) and that it has to leave: such a newcomer is not the
\* session the account is routed to.
RefusedIsNotRegistered ==
    \A u \in Users :
        users[u] # NoFd => peer[users[u]] \notin told

\* A connection whose client has closed its end is torn down and its
\* descriptor given back, however busy its worker is with other clients
\* (Worker.cc:56-98), unless the process has died.
Released ==
    \A c \in Clients, f \in Fds :
        peer[f] = c /\ cl[c] = "gone" ~> peer[f] # c \/ crashed

\* The presence table implements Presence.
Routed(u) == IF users[u] = NoFd THEN NoClient ELSE peer[users[u]]

P == INSTANCE Presence WITH
        name  <- who,
        live  <- {c \in Clients : \E f \in Fds : peer[f] = c},
        route <- [u \in Users |-> Routed(u)]

\* Every step of the server is a step of the presence table or none at all:
\* an account is routed to connected clients of that account only, and a
\* descriptor is given back only when no account is routed to it.
ImplementsPresence == P!Spec
=============================================================================
