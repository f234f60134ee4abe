--------------------------- MODULE SessionsProofs ---------------------------
(***************************************************************************)
(* Theorems about Sessions, for any number of connections, accounts,       *)
(* descriptors and workers: what the tables name is alive, and they        *)
(* implement Presence, while no connection stays silent for longer than    *)
(* TIME_OUT; who has held a number, with silent connections too.           *)
(***************************************************************************)
EXTENDS Sessions, TLAPS

-----------------------------------------------------------------------------
(* Types.  TypeOK alone is not inductive: a handler indexes the tables     *)
(* with its locals, which name something only while the handler runs.      *)

\* A client that some part of the server knows has connected.
Known(c) == c \in Clients /\ cl[c] # "out"

LocalsOK ==
    /\ \A c \in backlog : Known(c)
    /\ mpc # "accept" => mfd \in Fds /\ Known(mcli)
    /\ \A w \in Workers, f \in Fds :
          /\ conn[w][f] # NoClient => Known(conn[w][f])
          /\ epoll[f] = w => conn[w][f] # NoClient
    /\ \A w \in Workers :
          /\ pc[w] # "idle" => lfd[w] \in Fds
          /\ pc[w] \in Handling => Known(me[w])
          /\ pc[w] \in {"addUser", "bindFd"} => who[me[w]] \in Users
          /\ pc[w] \in {"route", "count", "deref"} => to[w] \in Fds /\ luser[w] \in Users
          /\ pc[w] \in {"count", "deref"} => tw[w] \in Workers

LEMMA NextWorkerType == \A t \in Workers : next_worker(t) \in Workers
  BY SessionsAssumption DEF Workers, next_worker

LEMMA ZeroIsWorker == 0 \in Workers
  BY SessionsAssumption DEF Workers

LEMMA NoWorkerIsNone == NoWorker \notin Workers
  BY DEF Workers, NoWorker

LEMMA TypeInit == Init => TypeOK
<1> SUFFICES ASSUME Init PROVE TypeOK
  OBVIOUS
<1>1. /\ cl \in [Clients -> {"out", "up", "gone"}]
      /\ who \in [Clients -> Users \cup {NoUser}]
      /\ backlog \subseteq Clients
      /\ peer \in [Fds -> Clients \cup {NoClient}]
      /\ epoll \in [Fds -> Workers \cup {NoWorker}]
      /\ inbox \in [Clients -> SUBSET Users]
  BY DEF Init
<1>2. /\ Worker_fd \in [Fds -> Workers]
      /\ conn \in [Workers -> [Fds -> Clients \cup {NoClient}]]
      /\ users \in [Users -> Fds \cup {NoFd}]
      /\ fds \in [Fds -> Users \cup {NoUser}]
  BY ZeroIsWorker DEF Init
<1>3. /\ mpc \in {"accept", "distribute", "make_queue"}
      /\ mfd \in Fds \cup {NoFd}
      /\ mcli \in Clients \cup {NoClient}
      /\ turn \in Workers
  BY ZeroIsWorker DEF Init
<1>4. /\ pc \in [Workers -> {"idle"} \cup Handling \cup Removing]
      /\ lfd \in [Workers -> Fds \cup {NoFd}]
      /\ me \in [Workers -> Clients \cup {NoClient}]
      /\ luser \in [Workers -> Users \cup {NoUser}]
      /\ to \in [Workers -> Fds \cup {NoFd}]
      /\ tw \in [Workers -> Workers \cup {NoWorker}]
  BY DEF Init
<1>5. left \in [Workers -> 0 .. MaxFrames]
  BY SessionsAssumption DEF Init
<1>6. /\ logged \subseteq Clients /\ told \subseteq Clients
      /\ held \in [Fds -> SUBSET Clients]
      /\ crashed \in BOOLEAN
  BY DEF Init
<1> QED
  BY <1>1, <1>2, <1>3, <1>4, <1>5, <1>6 DEF TypeOK

LEMMA TypeFrameDone ==
  ASSUME TypeOK, NEW w \in Workers, FrameDone(w), pc[w] \in Handling
  PROVE  /\ pc' \in [Workers -> {"idle"} \cup Handling \cup Removing]
         /\ lfd' \in [Workers -> Fds \cup {NoFd}]
         /\ me' \in [Workers -> Clients \cup {NoClient}]
         /\ left' \in [Workers -> 0 .. MaxFrames]
         /\ luser' \in [Workers -> Users \cup {NoUser}]
         /\ to' \in [Workers -> Fds \cup {NoFd}]
         /\ tw' \in [Workers -> Workers \cup {NoWorker}]
<1>1. CASE left[w] > 1
  <2>1. left[w] \in 0 .. MaxFrames /\ left[w] - 1 \in 0 .. MaxFrames
    BY <1>1, SessionsAssumption DEF TypeOK
  <2>2. /\ pc' = [pc EXCEPT ![w] = "heart"]
        /\ left' = [left EXCEPT ![w] = left[w] - 1]
        /\ luser' = [luser EXCEPT ![w] = NoUser]
        /\ to' = [to EXCEPT ![w] = NoFd]
        /\ tw' = [tw EXCEPT ![w] = NoWorker]
        /\ UNCHANGED <<lfd, me>>
    BY <1>1, <2>1, SessionsAssumption DEF FrameDone, Clear
  <2> QED
    BY <2>1, <2>2 DEF TypeOK, Handling
<1>2. CASE ~(left[w] > 1)
  <2>1. /\ pc' = [pc EXCEPT ![w] = "idle"]
        /\ Clear(w)
    BY <1>2 DEF FrameDone
  <2>2. left' \in [Workers -> 0 .. MaxFrames]
    BY <2>1, SessionsAssumption DEF Clear, TypeOK
  <2> QED
    BY <2>1, <2>2 DEF TypeOK, Clear
<1> QED
  BY <1>1, <1>2

\* Every action keeps the types.
LEMMA TypeStep == TypeOK /\ LocalsOK /\ [Next]_vars => TypeOK'
<1> SUFFICES ASSUME TypeOK, LocalsOK, [Next]_vars PROVE TypeOK'
  OBVIOUS
<1> USE DEF clientVars, tableVars, masterVars, localVars, historyVars
<1>1. ASSUME NEW c \in Clients, Quit(c) PROVE TypeOK'
  BY <1>1 DEF TypeOK, Quit
<1>2. ASSUME NEW c \in Clients, NEW u \in Users \cup {NoUser}, Connect(c, u) PROVE TypeOK'
  BY <1>2 DEF TypeOK, Connect
<1>3. ASSUME NEW c \in Clients, NEW f \in Fds, accept_client(c, f) PROVE TypeOK'
  BY <1>3 DEF TypeOK, accept_client
<1>4. ASSUME distribute_worker PROVE TypeOK'
  BY <1>4, NextWorkerType DEF TypeOK, distribute_worker
<1>5. ASSUME NEW w \in Workers, make_queue(w) PROVE TypeOK'
  BY <1>5 DEF TypeOK, make_queue
<1>6. ASSUME NEW w \in Workers, NEW f \in Fds, ReadEof(w, f) PROVE TypeOK'
  BY <1>6 DEF TypeOK, ReadEof, Removing
<1>7. ASSUME NEW w \in Workers, NEW f \in Fds,
              NEW k \in 1 .. MaxFrames, ReadFrames(w, f, k)
       PROVE TypeOK'
  <2>1. k \in 0 .. MaxFrames
    OBVIOUS
  <2> QED
    BY <1>7, <2>1 DEF TypeOK, ReadFrames, Handling
<1>8. ASSUME NEW w \in Workers, HeartOk(w) PROVE TypeOK'
  BY <1>8 DEF TypeOK, HeartOk, Handling
<1>9. ASSUME NEW w \in Workers, HeartTimeout(w) PROVE TypeOK'
  BY <1>9 DEF TypeOK, HeartTimeout, close, Handling
<1>10. ASSUME NEW w \in Workers, adduser(w) PROVE TypeOK'
  BY <1>10 DEF TypeOK, LocalsOK, Known, adduser, Handling
<1>11. ASSUME NEW w \in Workers, addUser(w) PROVE TypeOK'
  BY <1>11 DEF TypeOK, LocalsOK, Known, addUser, Handling
<1>12. ASSUME NEW w \in Workers, dispatch(w) PROVE TypeOK'
  BY <1>12 DEF TypeOK, LocalsOK, dispatch, Handling
<1>13. ASSUME NEW w \in Workers, remove_erase(w) PROVE TypeOK'
  BY <1>13 DEF TypeOK, remove_erase, EpollDel, RemoveGoto, removal, Removing
<1>14. ASSUME NEW w \in Workers, removeUser_name(w) PROVE TypeOK'
  BY <1>14 DEF TypeOK, LocalsOK, removeUser_name, RemoveGoto, removal, Removing
<1>15. ASSUME NEW w \in Workers, removeUser_users(w) PROVE TypeOK'
  BY <1>15
  DEF TypeOK, removeUser_users, erase_user, RemoveGoto, removal, Removing
<1>16. ASSUME NEW w \in Workers, removeUser_fds(w) PROVE TypeOK'
  BY <1>16 DEF TypeOK, removeUser_fds, RemoveGoto, removal, Removing
<1>17. ASSUME NEW w \in Workers, remove_close(w) PROVE TypeOK'
  BY <1>17 DEF TypeOK, remove_close, close, RemoveGoto, removal, Removing
<1>18. ASSUME NEW w \in Workers, bindFd(w) PROVE TypeOK'
  <2>1. /\ pc[w] \in Handling /\ FrameDone(w)
        /\ lfd[w] \in Fds /\ who[me[w]] \in Users
    BY <1>18 DEF LocalsOK, bindFd, Handling
  <2>2. fds' \in [Fds -> Users \cup {NoUser}]
    BY <1>18, <2>1 DEF TypeOK, bindFd
  <2> QED
    BY <1>18, <2>1, <2>2, TypeFrameDone DEF TypeOK, bindFd
<1>19. ASSUME NEW w \in Workers, OtherFrame(w) PROVE TypeOK'
  <2>1. pc[w] \in Handling /\ FrameDone(w)
    BY <1>19 DEF OtherFrame, Handling
  <2> QED
    BY <1>19, <2>1, TypeFrameDone DEF TypeOK, OtherFrame
<1>20. ASSUME NEW w \in Workers, Notify_send(w) PROVE TypeOK'
  <2>1. pc[w] \in Handling /\ FrameDone(w) /\ to[w] \in Fds /\ luser[w] \in Users
    BY <1>20 DEF LocalsOK, Notify_send, Handling
  <2>2. inbox' \in [Clients -> SUBSET Users]
    BY <1>20, <2>1, SessionsAssumption DEF TypeOK, Notify_send, target
  <2> QED
    BY <1>20, <2>1, <2>2, TypeFrameDone DEF TypeOK, Notify_send, target
<1>21. ASSUME NEW w \in Workers, NEW v \in Users, Send_msg(w, v) PROVE TypeOK'
  <2>1. pc[w] \in Handling
    BY <1>21 DEF Send_msg, Handling
  <2>2. CASE FrameDone(w)
    BY <1>21, <2>1, <2>2, TypeFrameDone DEF TypeOK, Send_msg
  <2>3. CASE ~FrameDone(w)
    <3>1. users[v] \in Fds \cup {NoFd}
      BY DEF TypeOK
    <3>2. /\ to' = [to EXCEPT ![w] = users[v]]
          /\ luser' = [luser EXCEPT ![w] = v]
          /\ pc' = [pc EXCEPT ![w] = "route"]
          /\ UNCHANGED <<lfd, me, left, tw>>
          /\ UNCHANGED <<clientVars, peer, epoll, tableVars, conn, masterVars,
                         historyVars, crashed>>
      BY <1>21, <2>3 DEF Send_msg
    <3> QED
      BY <3>1, <3>2 DEF TypeOK, Handling
  <2> QED
    BY <2>2, <2>3
<1>22. ASSUME NEW w \in Workers, Notify_count(w) PROVE TypeOK'
  <2>1. pc[w] \in Handling
    BY <1>22 DEF Notify_count, Handling
  <2>2. CASE FrameDone(w)
    BY <1>22, <2>1, <2>2, TypeFrameDone DEF TypeOK, Notify_count
  <2>3. CASE ~FrameDone(w)
    BY <1>22, <2>3 DEF TypeOK, Notify_count, Handling
  <2> QED
    BY <2>2, <2>3
<1>23. CASE UNCHANGED vars
  BY <1>23 DEF TypeOK, vars
<1> QED
  BY <1>1, <1>2, <1>3, <1>4, <1>5, <1>6, <1>7, <1>8, <1>9, <1>10, <1>11, <1>12,
     <1>13, <1>14, <1>15, <1>16, <1>17, <1>18, <1>19, <1>20, <1>21, <1>22,
     <1>23
  DEF Next, Client, Master, Read, Serve

-----------------------------------------------------------------------------
(* The inductive invariant of the silent-free server.                      *)

\* Nothing in the process refers to descriptor f.
Fresh(f) ==
    /\ fds[f] = NoUser
    /\ \A u \in Users : users[u] # f
    /\ \A w \in Workers : conn[w][f] = NoClient /\ lfd[w] # f
    /\ epoll[f] = NoWorker

\* A number is free, or on its way to a worker, only when nothing refers to it.
FreshOK ==
    /\ \A f \in Fds : peer[f] = NoClient => Fresh(f)
    /\ mpc # "accept" => Fresh(mfd) /\ peer[mfd] = mcli

\* One descriptor for each connection, and none before accept.
PeerOK ==
    /\ \A f \in Fds : peer[f] # NoClient => Known(peer[f]) /\ peer[f] \notin backlog
    /\ \A f, g \in Fds : peer[f] = peer[g] /\ peer[f] # NoClient => f = g

\* A conn entry lies with the worker that Worker_fd names.
ConnOK ==
    \A w \in Workers, f \in Fds :
        conn[w][f] # NoClient => /\ w = Worker_fd[f]
                                 /\ conn[w][f] = peer[f]
                                 /\ epoll[f] = w

\* A busy worker works for a descriptor of its own, and how far it has come
\* in remove_fd says what is left of it.
ServeOK ==
    \A w \in Workers :
        /\ pc[w] = "idle" => lfd[w] = NoFd
        /\ pc[w] # "idle" => Worker_fd[lfd[w]] = w /\ peer[lfd[w]] # NoClient
        /\ pc[w] \in Handling => me[w] = peer[lfd[w]]
        /\ pc[w] \in Handling \cup {"erase"} => conn[w][lfd[w]] = peer[lfd[w]]
        /\ pc[w] \in Removing \ {"erase"} =>
              conn[w][lfd[w]] = NoClient /\ epoll[lfd[w]] = NoWorker
        /\ pc[w] = "unuser" => luser[w] = fds[lfd[w]]
        /\ pc[w] \in {"unfd", "close"} => \A u \in Users : users[u] # lfd[w]
        /\ pc[w] = "close" => fds[lfd[w]] = NoUser

\* The two tables agree, but for the step in which addUser fills the second.
TablesOK ==
    \A u \in Users :
        users[u] # NoFd =>
            /\ peer[users[u]] # NoClient
            /\ who[peer[users[u]]] = u
            /\ \/ fds[users[u]] = u
               \/ \E w \in Workers : pc[w] = "bindFd" /\ lfd[w] = users[u]

Inv == TypeOK /\ LocalsOK /\ FreshOK /\ PeerOK /\ ConnOK /\ ServeOK /\ TablesOK

LEMMA FrameEffect ==
  ASSUME TypeOK, NEW w \in Workers, FrameDone(w)
  PROVE  /\ \A v \in Workers :
              v # w => /\ pc'[v] = pc[v] /\ lfd'[v] = lfd[v] /\ me'[v] = me[v]
                       /\ luser'[v] = luser[v] /\ to'[v] = to[v] /\ tw'[v] = tw[v]
         /\ \/ pc'[w] = "heart" /\ lfd'[w] = lfd[w] /\ me'[w] = me[w]
            \/ pc'[w] = "idle" /\ lfd'[w] = NoFd
  BY DEF TypeOK, FrameDone, Clear

\* Leaving a frame keeps each part of the invariant, if nothing else changes.
LEMMA LocalsFrame ==
  ASSUME TypeOK, LocalsOK, NEW w \in Workers, FrameDone(w), pc[w] \in Handling,
         UNCHANGED <<cl, who, backlog, epoll, conn, mpc, mfd, mcli>>
  PROVE  LocalsOK'
<1>1. ASSUME NEW v \in Workers
      PROVE  /\ pc'[v] # "idle" => lfd'[v] \in Fds
             /\ pc'[v] \in Handling => Known(me'[v])
             /\ pc'[v] \in {"addUser", "bindFd"} => who[me'[v]] \in Users
             /\ pc'[v] \in {"route", "count", "deref"} =>
                   to'[v] \in Fds /\ luser'[v] \in Users
             /\ pc'[v] \in {"count", "deref"} => tw'[v] \in Workers
  <2>1. CASE v = w
    BY <2>1, FrameEffect DEF LocalsOK, Handling
  <2>2. CASE v # w
    BY <2>2, FrameEffect DEF LocalsOK
  <2> QED
    BY <2>1, <2>2
<1> QED
  BY <1>1 DEF LocalsOK, Known

\* Every action keeps what the locals name.
LEMMA LocalsStep == TypeOK /\ LocalsOK /\ [Next]_vars => LocalsOK'
<1> SUFFICES ASSUME TypeOK, LocalsOK, [Next]_vars PROVE LocalsOK'
  OBVIOUS
<1> USE DEF clientVars, tableVars, masterVars, localVars, historyVars
<1>1. ASSUME NEW c \in Clients, Quit(c) PROVE LocalsOK'
  BY <1>1, SessionsAssumption, NoWorkerIsNone
  DEF TypeOK, LocalsOK, Known, Handling, Removing, Quit
<1>2. ASSUME NEW c \in Clients, NEW u \in Users \cup {NoUser}, Connect(c, u) PROVE LocalsOK'
  BY <1>2, SessionsAssumption, NoWorkerIsNone
  DEF TypeOK, LocalsOK, Known, Handling, Removing, Connect
<1>3. ASSUME NEW c \in Clients, NEW f \in Fds, accept_client(c, f) PROVE LocalsOK'
  BY <1>3, SessionsAssumption, NoWorkerIsNone
  DEF TypeOK, LocalsOK, Known, Handling, Removing, accept_client
<1>4. ASSUME distribute_worker PROVE LocalsOK'
  BY <1>4, SessionsAssumption, NoWorkerIsNone
  DEF TypeOK, LocalsOK, Known, Handling, Removing, distribute_worker
<1>5. ASSUME NEW w \in Workers, make_queue(w) PROVE LocalsOK'
  BY <1>5, SessionsAssumption, NoWorkerIsNone
  DEF TypeOK, LocalsOK, Known, Handling, Removing, make_queue
<1>6. ASSUME NEW w \in Workers, NEW f \in Fds, ReadEof(w, f) PROVE LocalsOK'
  BY <1>6, SessionsAssumption, NoWorkerIsNone
  DEF TypeOK, LocalsOK, Known, Handling, Removing, ReadEof
<1>7. ASSUME NEW w \in Workers, NEW f \in Fds,
              NEW k \in 1 .. MaxFrames, ReadFrames(w, f, k)
      PROVE LocalsOK'
  BY <1>7, SessionsAssumption, NoWorkerIsNone
  DEF TypeOK, LocalsOK, Known, Handling, Removing, ReadFrames
<1>8. ASSUME NEW w \in Workers, HeartOk(w) PROVE LocalsOK'
  BY <1>8, SessionsAssumption, NoWorkerIsNone
  DEF TypeOK, LocalsOK, Known, Handling, Removing, HeartOk
<1>9. ASSUME NEW w \in Workers, HeartTimeout(w) PROVE LocalsOK'
  BY <1>9, SessionsAssumption, NoWorkerIsNone
  DEF TypeOK, LocalsOK, Known, Handling, Removing, HeartTimeout, close
<1>10. ASSUME NEW w \in Workers, adduser(w) PROVE LocalsOK'
  BY <1>10, SessionsAssumption, NoWorkerIsNone
  DEF TypeOK, LocalsOK, Known, Handling, Removing, adduser
<1>11. ASSUME NEW w \in Workers, addUser(w) PROVE LocalsOK'
  BY <1>11, SessionsAssumption, NoWorkerIsNone
  DEF TypeOK, LocalsOK, Known, Handling, Removing, addUser
<1>12. ASSUME NEW w \in Workers, bindFd(w) PROVE LocalsOK'
  <2>1. /\ FrameDone(w) /\ pc[w] \in Handling
        /\ UNCHANGED <<cl, who, backlog, epoll, conn, mpc, mfd, mcli>>
    BY <1>12 DEF bindFd, Handling
  <2> QED
    BY <2>1, LocalsFrame
<1>13. ASSUME NEW w \in Workers, OtherFrame(w) PROVE LocalsOK'
  <2>1. /\ FrameDone(w) /\ pc[w] \in Handling
        /\ UNCHANGED <<cl, who, backlog, epoll, conn, mpc, mfd, mcli>>
    BY <1>13 DEF OtherFrame, Handling
  <2> QED
    BY <2>1, LocalsFrame
<1>14. ASSUME NEW w \in Workers, NEW v \in Users, Send_msg(w, v) PROVE LocalsOK'
  <2>1. /\ pc[w] \in Handling
        /\ UNCHANGED <<cl, who, backlog, epoll, conn, mpc, mfd, mcli>>
    BY <1>14 DEF Send_msg, Handling
  <2>2. CASE FrameDone(w)
    BY <2>1, <2>2, LocalsFrame
  <2>3. CASE ~FrameDone(w)
    BY <1>14, <2>3, SessionsAssumption
    DEF TypeOK, LocalsOK, Known, Handling, Removing, Send_msg
  <2> QED
    BY <2>2, <2>3
<1>15. ASSUME NEW w \in Workers, dispatch(w) PROVE LocalsOK'
  BY <1>15, SessionsAssumption, NoWorkerIsNone
  DEF TypeOK, LocalsOK, Known, Handling, Removing, dispatch
<1>16. ASSUME NEW w \in Workers, Notify_count(w) PROVE LocalsOK'
  <2>1. /\ pc[w] \in Handling
        /\ UNCHANGED <<cl, who, backlog, epoll, conn, mpc, mfd, mcli>>
    BY <1>16 DEF Notify_count, Handling
  <2>2. CASE FrameDone(w)
    BY <2>1, <2>2, LocalsFrame
  <2>3. CASE ~FrameDone(w)
    BY <1>16, <2>3, SessionsAssumption
    DEF TypeOK, LocalsOK, Known, Handling, Removing, Notify_count
  <2> QED
    BY <2>2, <2>3
<1>17. ASSUME NEW w \in Workers, Notify_send(w) PROVE LocalsOK'
  <2>1. /\ FrameDone(w) /\ pc[w] \in Handling
        /\ UNCHANGED <<cl, who, backlog, epoll, conn, mpc, mfd, mcli>>
    BY <1>17 DEF Notify_send, Handling
  <2> QED
    BY <2>1, LocalsFrame
<1>18. ASSUME NEW w \in Workers, remove_erase(w) PROVE LocalsOK'
  BY <1>18, SessionsAssumption, NoWorkerIsNone
  DEF TypeOK, LocalsOK, Known, Handling, Removing, remove_erase, EpollDel,
      RemoveGoto, removal
<1>19. ASSUME NEW w \in Workers, removeUser_name(w) PROVE LocalsOK'
  BY <1>19, SessionsAssumption, NoWorkerIsNone
  DEF TypeOK, LocalsOK, Known, Handling, Removing, removeUser_name, RemoveGoto,
      removal
<1>20. ASSUME NEW w \in Workers, removeUser_users(w) PROVE LocalsOK'
  BY <1>20, SessionsAssumption, NoWorkerIsNone
  DEF TypeOK, LocalsOK, Known, Handling, Removing, removeUser_users,
      erase_user, RemoveGoto, removal
<1>21. ASSUME NEW w \in Workers, removeUser_fds(w) PROVE LocalsOK'
  BY <1>21, SessionsAssumption, NoWorkerIsNone
  DEF TypeOK, LocalsOK, Known, Handling, Removing, removeUser_fds, RemoveGoto,
      removal
<1>22. ASSUME NEW w \in Workers, remove_close(w) PROVE LocalsOK'
  BY <1>22, SessionsAssumption, NoWorkerIsNone
  DEF TypeOK, LocalsOK, Known, Handling, Removing, remove_close, close,
      RemoveGoto, removal
<1>23. CASE UNCHANGED vars
  BY <1>23 DEF TypeOK, LocalsOK, Known, Handling, Removing, vars
<1> QED
  BY <1>1, <1>2, <1>3, <1>4, <1>5, <1>6, <1>7, <1>8, <1>9, <1>10, <1>11,
     <1>12, <1>13, <1>14, <1>15, <1>16, <1>17, <1>18, <1>19, <1>20, <1>21,
     <1>22, <1>23
  DEF Next, Client, Master, Read, Serve

\* Types, timeouts included: what the workers hold at each step of a teardown.
THEOREM TypeCorrect == Spec => []TypeOK
<1>1. Init => TypeOK /\ LocalsOK
  BY TypeInit, NoWorkerIsNone DEF Init, LocalsOK, Handling
<1>2. TypeOK /\ LocalsOK /\ [Next]_vars => (TypeOK /\ LocalsOK)'
  BY TypeStep, LocalsStep
<1> QED
  BY <1>1, <1>2, PTL DEF Spec

-----------------------------------------------------------------------------
(* The steps of Inv.                                                       *)

\* Two workers never have the same descriptor in hand.
LEMMA OwnDescriptor ==
  ASSUME Inv, NEW v \in Workers, NEW w \in Workers,
         pc[w] # "idle", lfd[v] = lfd[w]
  PROVE  v = w
  BY SessionsAssumption DEF Inv, LocalsOK, ServeOK, NoFd

LEMMA FreshFrame ==
  ASSUME Inv, NEW w \in Workers, FrameDone(w),
         UNCHANGED <<peer, users, conn, epoll, mpc, mfd, mcli>>,
         \A f \in Fds : fds'[f] # fds[f] => lfd[w] = f
  PROVE  FreshOK'
<1>1. \A v \in Workers : lfd'[v] \in {lfd[v], NoFd}
  BY FrameEffect DEF Inv
<1>2. ASSUME NEW f \in Fds, Fresh(f) PROVE Fresh(f)'
  BY <1>1, <1>2, SessionsAssumption DEF Fresh, NoFd
<1> QED
  BY <1>2 DEF Inv, FreshOK, LocalsOK

LEMMA ServeFrame ==
  ASSUME Inv, NEW w \in Workers, FrameDone(w), pc[w] \in Handling,
         UNCHANGED <<peer, epoll, conn, users, fds, Worker_fd>>
  PROVE  ServeOK'
<1>1. ASSUME NEW v \in Workers, v # w
      PROVE  /\ pc'[v] = pc[v] /\ lfd'[v] = lfd[v]
             /\ me'[v] = me[v] /\ luser'[v] = luser[v]
  BY <1>1, FrameEffect DEF Inv
<1>2. \/ pc'[w] = "heart" /\ lfd'[w] = lfd[w] /\ me'[w] = me[w]
      \/ pc'[w] = "idle" /\ lfd'[w] = NoFd
  BY FrameEffect DEF Inv
<1> QED
  BY <1>1, <1>2 DEF Inv, ServeOK, Handling, Removing

LEMMA TablesFrame ==
  ASSUME Inv, NEW w \in Workers, FrameDone(w), pc[w] # "bindFd",
         UNCHANGED <<peer, who, users, fds>>
  PROVE  TablesOK'
  BY FrameEffect DEF Inv, TablesOK

\* Free descriptors, and those on their way to a worker, stay unreferenced.
LEMMA FreshStep == Inv /\ ~IdleTimeouts /\ [Next]_vars => FreshOK'
<1> SUFFICES ASSUME Inv, ~IdleTimeouts, [Next]_vars PROVE FreshOK'
  OBVIOUS
<1> USE DEF clientVars, tableVars, masterVars, localVars, historyVars
<1>1. ASSUME NEW c \in Clients, Quit(c) PROVE FreshOK'
  BY <1>1, SessionsAssumption, NoWorkerIsNone, OwnDescriptor
  DEF Inv, TypeOK, LocalsOK, FreshOK, Fresh, ServeOK, Handling, Removing, Quit
<1>2. ASSUME NEW c \in Clients, NEW u \in Users \cup {NoUser}, Connect(c, u) PROVE FreshOK'
  BY <1>2, SessionsAssumption, NoWorkerIsNone, OwnDescriptor
  DEF Inv, TypeOK, LocalsOK, FreshOK, Fresh, ServeOK, Handling, Removing,
      Connect
<1>3. ASSUME NEW c \in Clients, NEW f \in Fds, accept_client(c, f) PROVE FreshOK'
  BY <1>3, SessionsAssumption, NoWorkerIsNone, OwnDescriptor
  DEF Inv, TypeOK, LocalsOK, FreshOK, Fresh, ServeOK, Handling, Removing,
      accept_client
<1>4. ASSUME distribute_worker PROVE FreshOK'
  BY <1>4, SessionsAssumption, NoWorkerIsNone, OwnDescriptor
  DEF Inv, TypeOK, LocalsOK, FreshOK, Fresh, ServeOK, Handling, Removing,
      distribute_worker
<1>5. ASSUME NEW w \in Workers, make_queue(w) PROVE FreshOK'
  BY <1>5, SessionsAssumption, NoWorkerIsNone, OwnDescriptor
  DEF Inv, TypeOK, LocalsOK, FreshOK, Fresh, ServeOK, Handling, Removing,
      make_queue
<1>6. ASSUME NEW w \in Workers, NEW f \in Fds, ReadEof(w, f) PROVE FreshOK'
  BY <1>6, SessionsAssumption, NoWorkerIsNone, OwnDescriptor
  DEF Inv, TypeOK, LocalsOK, FreshOK, Fresh, ServeOK, Handling, Removing,
      ReadEof
<1>7. ASSUME NEW w \in Workers, NEW f \in Fds,
              NEW k \in 1 .. MaxFrames, ReadFrames(w, f, k)
      PROVE FreshOK'
  BY <1>7, SessionsAssumption, NoWorkerIsNone, OwnDescriptor
  DEF Inv, TypeOK, LocalsOK, FreshOK, Fresh, ServeOK, Handling, Removing,
      ReadFrames
<1>8. ASSUME NEW w \in Workers, HeartOk(w) PROVE FreshOK'
  BY <1>8, SessionsAssumption, NoWorkerIsNone, OwnDescriptor
  DEF Inv, TypeOK, LocalsOK, FreshOK, Fresh, ServeOK, Handling, Removing,
      HeartOk
<1>9. ASSUME NEW w \in Workers, HeartTimeout(w) PROVE FreshOK'
  BY <1>9 DEF HeartTimeout
<1>10. ASSUME NEW w \in Workers, adduser(w) PROVE FreshOK'
  BY <1>10, SessionsAssumption, NoWorkerIsNone, OwnDescriptor
  DEF Inv, TypeOK, LocalsOK, FreshOK, Fresh, ServeOK, Handling, Removing,
      adduser
<1>11. ASSUME NEW w \in Workers, addUser(w) PROVE FreshOK'
  BY <1>11, SessionsAssumption, NoWorkerIsNone, OwnDescriptor
  DEF Inv, TypeOK, LocalsOK, FreshOK, Fresh, ServeOK, Handling, Removing,
      addUser
<1>12. ASSUME NEW w \in Workers, bindFd(w) PROVE FreshOK'
  <2>1. /\ FrameDone(w)
        /\ UNCHANGED <<peer, users, conn, epoll, mpc, mfd, mcli>>
        /\ \A f \in Fds : fds'[f] # fds[f] => lfd[w] = f
    BY <1>12 DEF bindFd, Inv, TypeOK
  <2> QED
    BY <2>1, FreshFrame
<1>13. ASSUME NEW w \in Workers, OtherFrame(w) PROVE FreshOK'
  <2>1. /\ FrameDone(w)
        /\ UNCHANGED <<peer, users, conn, epoll, mpc, mfd, mcli>>
        /\ \A f \in Fds : fds'[f] # fds[f] => lfd[w] = f
    BY <1>13 DEF OtherFrame, Inv, TypeOK
  <2> QED
    BY <2>1, FreshFrame
<1>14. ASSUME NEW w \in Workers, NEW v \in Users, Send_msg(w, v) PROVE FreshOK'
  <2>1. UNCHANGED <<peer, users, fds, conn, epoll, mpc, mfd, mcli>>
    BY <1>14 DEF Send_msg
  <2>2. CASE FrameDone(w)
    BY <2>1, <2>2, FreshFrame
  <2>3. CASE ~FrameDone(w)
    BY <1>14, <2>3 DEF Inv, LocalsOK, FreshOK, Fresh, Send_msg
  <2> QED
    BY <2>2, <2>3
<1>15. ASSUME NEW w \in Workers, dispatch(w) PROVE FreshOK'
  BY <1>15, SessionsAssumption, NoWorkerIsNone, OwnDescriptor
  DEF Inv, TypeOK, LocalsOK, FreshOK, Fresh, ServeOK, Handling, Removing,
      dispatch
<1>16. ASSUME NEW w \in Workers, Notify_count(w) PROVE FreshOK'
  <2>1. UNCHANGED <<peer, users, fds, conn, epoll, mpc, mfd, mcli>>
    BY <1>16 DEF Notify_count
  <2>2. CASE FrameDone(w)
    BY <2>1, <2>2, FreshFrame
  <2>3. CASE ~FrameDone(w)
    BY <1>16, <2>3 DEF Inv, LocalsOK, FreshOK, Fresh, Notify_count
  <2> QED
    BY <2>2, <2>3
<1>17. ASSUME NEW w \in Workers, Notify_send(w) PROVE FreshOK'
  <2>1. /\ FrameDone(w)
        /\ UNCHANGED <<peer, users, conn, epoll, mpc, mfd, mcli>>
        /\ \A f \in Fds : fds'[f] # fds[f] => lfd[w] = f
    BY <1>17 DEF Notify_send, Inv, TypeOK
  <2> QED
    BY <2>1, FreshFrame
<1>18. ASSUME NEW w \in Workers, remove_erase(w) PROVE FreshOK'
  BY <1>18, SessionsAssumption, NoWorkerIsNone, OwnDescriptor
  DEF Inv, TypeOK, LocalsOK, FreshOK, Fresh, ServeOK, Handling, Removing,
      remove_erase, EpollDel, RemoveGoto, removal
<1>19. ASSUME NEW w \in Workers, removeUser_name(w) PROVE FreshOK'
  BY <1>19, SessionsAssumption, NoWorkerIsNone, OwnDescriptor
  DEF Inv, TypeOK, LocalsOK, FreshOK, Fresh, ServeOK, Handling, Removing,
      removeUser_name, RemoveGoto, removal
<1>20. ASSUME NEW w \in Workers, removeUser_users(w) PROVE FreshOK'
  <2>1. UNCHANGED <<peer, fds, conn, epoll, mpc, mfd, mcli, lfd>>
    BY <1>20 DEF removeUser_users, RemoveGoto, removal, Inv, TypeOK
  <2>2. ASSUME NEW f \in Fds, Fresh(f) PROVE Fresh(f)'
    BY <1>20, <2>1, <2>2, SessionsAssumption
    DEF Fresh, NoFd, removeUser_users, erase_user
  <2> QED
    BY <2>1, <2>2 DEF Inv, FreshOK, LocalsOK
<1>21. ASSUME NEW w \in Workers, removeUser_fds(w) PROVE FreshOK'
  BY <1>21, SessionsAssumption, NoWorkerIsNone, OwnDescriptor
  DEF Inv, TypeOK, LocalsOK, FreshOK, Fresh, ServeOK, Handling, Removing,
      removeUser_fds, RemoveGoto, removal
<1>22. ASSUME NEW w \in Workers, remove_close(w) PROVE FreshOK'
  <2>0. PICK g \in Fds : g = lfd[w]
    BY <1>22 DEF remove_close, Inv, LocalsOK
  <2>1. /\ UNCHANGED <<users, fds, conn, mpc, mfd, mcli>>
        /\ peer' = [peer EXCEPT ![g] = NoClient]
        /\ epoll' = [epoll EXCEPT ![g] = NoWorker]
        /\ lfd' = [lfd EXCEPT ![w] = NoFd]
        /\ pc[w] = "close"
    BY <1>22, <2>0 DEF remove_close, close, RemoveGoto, removal
  <2>2. peer[g] # NoClient
    BY <2>0, <2>1 DEF Inv, LocalsOK, ServeOK
  <2>3. \A v \in Workers : lfd'[v] # g
    BY <2>0, <2>1, OwnDescriptor, SessionsAssumption DEF NoFd, Inv, TypeOK
  <2>4. \A v \in Workers : conn[v][g] = NoClient
    BY <2>0, <2>1 DEF Inv, ConnOK, ServeOK, Removing
  <2>5. Fresh(g)'
    BY <2>0, <2>1, <2>3, <2>4 DEF Fresh, Inv, ServeOK, TypeOK
  <2>6. ASSUME NEW f \in Fds, Fresh(f) PROVE Fresh(f)'
    BY <2>1, <2>6, SessionsAssumption DEF Fresh, NoFd, Inv, TypeOK
  <2>7. ASSUME NEW f \in Fds, peer'[f] = NoClient PROVE Fresh(f)'
    <3>1. CASE f = g
      BY <3>1, <2>5
    <3>2. CASE f # g
      BY <3>2, <2>1, <2>6, <2>7 DEF Inv, FreshOK, TypeOK
    <3> QED
      BY <3>1, <3>2
  <2>8. mpc # "accept" => mfd # g
    BY <2>0, <2>1 DEF Inv, FreshOK, Fresh
  <2>9. mpc # "accept" => Fresh(mfd)' /\ peer'[mfd] = mcli
    BY <2>1, <2>6, <2>8 DEF Inv, FreshOK, LocalsOK, TypeOK
  <2> QED
    BY <2>1, <2>7, <2>9 DEF FreshOK
<1>23. CASE UNCHANGED vars
  BY <1>23
  DEF Inv, TypeOK, LocalsOK, FreshOK, Fresh, ServeOK, Handling, Removing, vars
<1> QED
  BY <1>1, <1>2, <1>3, <1>4, <1>5, <1>6, <1>7, <1>8, <1>9, <1>10, <1>11,
     <1>12, <1>13, <1>14, <1>15, <1>16, <1>17, <1>18, <1>19, <1>20, <1>21,
     <1>22, <1>23
  DEF Next, Client, Master, Read, Serve

\* Descriptors stay one to a connection.
LEMMA PeerStep == Inv /\ ~IdleTimeouts /\ [Next]_vars => PeerOK'
<1> SUFFICES ASSUME Inv, ~IdleTimeouts, [Next]_vars PROVE PeerOK'
  OBVIOUS
<1> USE DEF clientVars, tableVars, masterVars, localVars, historyVars
<1>1. ASSUME NEW c \in Clients, Quit(c) PROVE PeerOK'
  BY <1>1, SessionsAssumption DEF Inv, TypeOK, LocalsOK, PeerOK, Known, Quit
<1>2. ASSUME NEW c \in Clients, NEW u \in Users \cup {NoUser}, Connect(c, u) PROVE PeerOK'
  BY <1>2, SessionsAssumption DEF Inv, TypeOK, LocalsOK, PeerOK, Known, Connect
<1>3. ASSUME NEW c \in Clients, NEW f \in Fds, accept_client(c, f) PROVE PeerOK'
  BY <1>3, SessionsAssumption
  DEF Inv, TypeOK, LocalsOK, PeerOK, Known, accept_client
<1>4. ASSUME distribute_worker PROVE PeerOK'
  BY <1>4, SessionsAssumption
  DEF Inv, TypeOK, LocalsOK, PeerOK, Known, distribute_worker
<1>5. ASSUME NEW w \in Workers, make_queue(w) PROVE PeerOK'
  BY <1>5, SessionsAssumption
  DEF Inv, TypeOK, LocalsOK, PeerOK, Known, make_queue
<1>6. ASSUME NEW w \in Workers, NEW f \in Fds, ReadEof(w, f) PROVE PeerOK'
  BY <1>6, SessionsAssumption DEF Inv, TypeOK, LocalsOK, PeerOK, Known, ReadEof
<1>7. ASSUME NEW w \in Workers, NEW f \in Fds,
              NEW k \in 1 .. MaxFrames, ReadFrames(w, f, k)
      PROVE PeerOK'
  BY <1>7, SessionsAssumption
  DEF Inv, TypeOK, LocalsOK, PeerOK, Known, ReadFrames
<1>8. ASSUME NEW w \in Workers, HeartOk(w) PROVE PeerOK'
  BY <1>8, SessionsAssumption DEF Inv, TypeOK, LocalsOK, PeerOK, Known, HeartOk
<1>9. ASSUME NEW w \in Workers, HeartTimeout(w) PROVE PeerOK'
  BY <1>9 DEF HeartTimeout
<1>10. ASSUME NEW w \in Workers, adduser(w) PROVE PeerOK'
  BY <1>10, SessionsAssumption
  DEF Inv, TypeOK, LocalsOK, PeerOK, Known, adduser
<1>11. ASSUME NEW w \in Workers, addUser(w) PROVE PeerOK'
  BY <1>11, SessionsAssumption
  DEF Inv, TypeOK, LocalsOK, PeerOK, Known, addUser
<1>12. ASSUME NEW w \in Workers, bindFd(w) PROVE PeerOK'
  <2>1. FrameDone(w)
    BY <1>12 DEF bindFd
  <2> QED
    BY <1>12, SessionsAssumption, <2>1, FrameEffect
    DEF Inv, TypeOK, LocalsOK, PeerOK, Known, bindFd
<1>13. ASSUME NEW w \in Workers, OtherFrame(w) PROVE PeerOK'
  <2>1. FrameDone(w)
    BY <1>13 DEF OtherFrame
  <2> QED
    BY <1>13, SessionsAssumption, <2>1, FrameEffect
    DEF Inv, TypeOK, LocalsOK, PeerOK, Known, OtherFrame
<1>14. ASSUME NEW w \in Workers, NEW v \in Users, Send_msg(w, v) PROVE PeerOK'
  <2>1. CASE FrameDone(w)
    BY <1>14, SessionsAssumption, <2>1, FrameEffect
    DEF Inv, TypeOK, LocalsOK, PeerOK, Known, Send_msg
  <2>2. CASE ~FrameDone(w)
    BY <1>14, SessionsAssumption, <2>2
    DEF Inv, TypeOK, LocalsOK, PeerOK, Known, Send_msg
  <2> QED
    BY <2>1, <2>2
<1>15. ASSUME NEW w \in Workers, dispatch(w) PROVE PeerOK'
  BY <1>15, SessionsAssumption
  DEF Inv, TypeOK, LocalsOK, PeerOK, Known, dispatch
<1>16. ASSUME NEW w \in Workers, Notify_count(w) PROVE PeerOK'
  <2>1. CASE FrameDone(w)
    BY <1>16, SessionsAssumption, <2>1, FrameEffect
    DEF Inv, TypeOK, LocalsOK, PeerOK, Known, Notify_count
  <2>2. CASE ~FrameDone(w)
    BY <1>16, SessionsAssumption, <2>2
    DEF Inv, TypeOK, LocalsOK, PeerOK, Known, Notify_count
  <2> QED
    BY <2>1, <2>2
<1>17. ASSUME NEW w \in Workers, Notify_send(w) PROVE PeerOK'
  <2>1. FrameDone(w)
    BY <1>17 DEF Notify_send
  <2> QED
    BY <1>17, SessionsAssumption, <2>1, FrameEffect
    DEF Inv, TypeOK, LocalsOK, PeerOK, Known, Notify_send
<1>18. ASSUME NEW w \in Workers, remove_erase(w) PROVE PeerOK'
  BY <1>18, SessionsAssumption
  DEF Inv, TypeOK, LocalsOK, PeerOK, Known, remove_erase, EpollDel, RemoveGoto,
      removal
<1>19. ASSUME NEW w \in Workers, removeUser_name(w) PROVE PeerOK'
  BY <1>19, SessionsAssumption
  DEF Inv, TypeOK, LocalsOK, PeerOK, Known, removeUser_name, RemoveGoto,
      removal
<1>20. ASSUME NEW w \in Workers, removeUser_users(w) PROVE PeerOK'
  BY <1>20, SessionsAssumption
  DEF Inv, TypeOK, LocalsOK, PeerOK, Known, removeUser_users, erase_user,
      RemoveGoto, removal
<1>21. ASSUME NEW w \in Workers, removeUser_fds(w) PROVE PeerOK'
  BY <1>21, SessionsAssumption
  DEF Inv, TypeOK, LocalsOK, PeerOK, Known, removeUser_fds, RemoveGoto, removal
<1>22. ASSUME NEW w \in Workers, remove_close(w) PROVE PeerOK'
  BY <1>22, SessionsAssumption
  DEF Inv, TypeOK, LocalsOK, PeerOK, Known, remove_close, close, RemoveGoto,
      removal
<1>23. CASE UNCHANGED vars
  BY <1>23 DEF Inv, TypeOK, LocalsOK, PeerOK, Known, vars
<1> QED
  BY <1>1, <1>2, <1>3, <1>4, <1>5, <1>6, <1>7, <1>8, <1>9, <1>10, <1>11,
     <1>12, <1>13, <1>14, <1>15, <1>16, <1>17, <1>18, <1>19, <1>20, <1>21,
     <1>22, <1>23
  DEF Next, Client, Master, Read, Serve

\* A conn entry stays with the worker of its descriptor.
LEMMA ConnStep == Inv /\ ~IdleTimeouts /\ [Next]_vars => ConnOK'
<1> SUFFICES ASSUME Inv, ~IdleTimeouts, [Next]_vars PROVE ConnOK'
  OBVIOUS
<1> USE DEF clientVars, tableVars, masterVars, localVars, historyVars
<1>1. ASSUME NEW c \in Clients, Quit(c) PROVE ConnOK'
  BY <1>1, SessionsAssumption, NoWorkerIsNone
  DEF Inv, TypeOK, LocalsOK, ConnOK, FreshOK, Fresh, ServeOK, Handling,
      Removing, Quit
<1>2. ASSUME NEW c \in Clients, NEW u \in Users \cup {NoUser}, Connect(c, u) PROVE ConnOK'
  BY <1>2, SessionsAssumption, NoWorkerIsNone
  DEF Inv, TypeOK, LocalsOK, ConnOK, FreshOK, Fresh, ServeOK, Handling,
      Removing, Connect
<1>3. ASSUME NEW c \in Clients, NEW f \in Fds, accept_client(c, f) PROVE ConnOK'
  BY <1>3, SessionsAssumption, NoWorkerIsNone
  DEF Inv, TypeOK, LocalsOK, ConnOK, FreshOK, Fresh, ServeOK, Handling,
      Removing, accept_client
<1>4. ASSUME distribute_worker PROVE ConnOK'
  BY <1>4, SessionsAssumption, NoWorkerIsNone
  DEF Inv, TypeOK, LocalsOK, ConnOK, FreshOK, Fresh, ServeOK, Handling,
      Removing, distribute_worker
<1>5. ASSUME NEW w \in Workers, make_queue(w) PROVE ConnOK'
  BY <1>5, SessionsAssumption, NoWorkerIsNone
  DEF Inv, TypeOK, LocalsOK, ConnOK, FreshOK, Fresh, ServeOK, Handling,
      Removing, make_queue
<1>6. ASSUME NEW w \in Workers, NEW f \in Fds, ReadEof(w, f) PROVE ConnOK'
  BY <1>6, SessionsAssumption, NoWorkerIsNone
  DEF Inv, TypeOK, LocalsOK, ConnOK, FreshOK, Fresh, ServeOK, Handling,
      Removing, ReadEof
<1>7. ASSUME NEW w \in Workers, NEW f \in Fds,
              NEW k \in 1 .. MaxFrames, ReadFrames(w, f, k)
      PROVE ConnOK'
  BY <1>7, SessionsAssumption, NoWorkerIsNone
  DEF Inv, TypeOK, LocalsOK, ConnOK, FreshOK, Fresh, ServeOK, Handling,
      Removing, ReadFrames
<1>8. ASSUME NEW w \in Workers, HeartOk(w) PROVE ConnOK'
  BY <1>8, SessionsAssumption, NoWorkerIsNone
  DEF Inv, TypeOK, LocalsOK, ConnOK, FreshOK, Fresh, ServeOK, Handling,
      Removing, HeartOk
<1>9. ASSUME NEW w \in Workers, HeartTimeout(w) PROVE ConnOK'
  BY <1>9 DEF HeartTimeout
<1>10. ASSUME NEW w \in Workers, adduser(w) PROVE ConnOK'
  BY <1>10, SessionsAssumption, NoWorkerIsNone
  DEF Inv, TypeOK, LocalsOK, ConnOK, FreshOK, Fresh, ServeOK, Handling,
      Removing, adduser
<1>11. ASSUME NEW w \in Workers, addUser(w) PROVE ConnOK'
  BY <1>11, SessionsAssumption, NoWorkerIsNone
  DEF Inv, TypeOK, LocalsOK, ConnOK, FreshOK, Fresh, ServeOK, Handling,
      Removing, addUser
<1>12. ASSUME NEW w \in Workers, bindFd(w) PROVE ConnOK'
  <2>1. FrameDone(w)
    BY <1>12 DEF bindFd
  <2> QED
    BY <1>12, SessionsAssumption, NoWorkerIsNone, <2>1, FrameEffect
    DEF Inv, TypeOK, LocalsOK, ConnOK, FreshOK, Fresh, ServeOK, Handling,
        Removing, bindFd
<1>13. ASSUME NEW w \in Workers, OtherFrame(w) PROVE ConnOK'
  <2>1. FrameDone(w)
    BY <1>13 DEF OtherFrame
  <2> QED
    BY <1>13, SessionsAssumption, NoWorkerIsNone, <2>1, FrameEffect
    DEF Inv, TypeOK, LocalsOK, ConnOK, FreshOK, Fresh, ServeOK, Handling,
        Removing, OtherFrame
<1>14. ASSUME NEW w \in Workers, NEW v \in Users, Send_msg(w, v) PROVE ConnOK'
  <2>1. CASE FrameDone(w)
    BY <1>14, SessionsAssumption, NoWorkerIsNone, <2>1, FrameEffect
    DEF Inv, TypeOK, LocalsOK, ConnOK, FreshOK, Fresh, ServeOK, Handling,
        Removing, Send_msg
  <2>2. CASE ~FrameDone(w)
    BY <1>14, SessionsAssumption, NoWorkerIsNone, <2>2
    DEF Inv, TypeOK, LocalsOK, ConnOK, FreshOK, Fresh, ServeOK, Handling,
        Removing, Send_msg
  <2> QED
    BY <2>1, <2>2
<1>15. ASSUME NEW w \in Workers, dispatch(w) PROVE ConnOK'
  BY <1>15, SessionsAssumption, NoWorkerIsNone
  DEF Inv, TypeOK, LocalsOK, ConnOK, FreshOK, Fresh, ServeOK, Handling,
      Removing, dispatch
<1>16. ASSUME NEW w \in Workers, Notify_count(w) PROVE ConnOK'
  <2>1. CASE FrameDone(w)
    BY <1>16, SessionsAssumption, NoWorkerIsNone, <2>1, FrameEffect
    DEF Inv, TypeOK, LocalsOK, ConnOK, FreshOK, Fresh, ServeOK, Handling,
        Removing, Notify_count
  <2>2. CASE ~FrameDone(w)
    BY <1>16, SessionsAssumption, NoWorkerIsNone, <2>2
    DEF Inv, TypeOK, LocalsOK, ConnOK, FreshOK, Fresh, ServeOK, Handling,
        Removing, Notify_count
  <2> QED
    BY <2>1, <2>2
<1>17. ASSUME NEW w \in Workers, Notify_send(w) PROVE ConnOK'
  <2>1. FrameDone(w)
    BY <1>17 DEF Notify_send
  <2> QED
    BY <1>17, SessionsAssumption, NoWorkerIsNone, <2>1, FrameEffect
    DEF Inv, TypeOK, LocalsOK, ConnOK, FreshOK, Fresh, ServeOK, Handling,
        Removing, Notify_send
<1>18. ASSUME NEW w \in Workers, remove_erase(w) PROVE ConnOK'
  BY <1>18, SessionsAssumption, NoWorkerIsNone
  DEF Inv, TypeOK, LocalsOK, ConnOK, FreshOK, Fresh, ServeOK, Handling,
      Removing, remove_erase, EpollDel, RemoveGoto, removal
<1>19. ASSUME NEW w \in Workers, removeUser_name(w) PROVE ConnOK'
  BY <1>19, SessionsAssumption, NoWorkerIsNone
  DEF Inv, TypeOK, LocalsOK, ConnOK, FreshOK, Fresh, ServeOK, Handling,
      Removing, removeUser_name, RemoveGoto, removal
<1>20. ASSUME NEW w \in Workers, removeUser_users(w) PROVE ConnOK'
  BY <1>20, SessionsAssumption, NoWorkerIsNone
  DEF Inv, TypeOK, LocalsOK, ConnOK, FreshOK, Fresh, ServeOK, Handling,
      Removing, removeUser_users, erase_user, RemoveGoto, removal
<1>21. ASSUME NEW w \in Workers, removeUser_fds(w) PROVE ConnOK'
  BY <1>21, SessionsAssumption, NoWorkerIsNone
  DEF Inv, TypeOK, LocalsOK, ConnOK, FreshOK, Fresh, ServeOK, Handling,
      Removing, removeUser_fds, RemoveGoto, removal
<1>22. ASSUME NEW w \in Workers, remove_close(w) PROVE ConnOK'
  BY <1>22, SessionsAssumption, NoWorkerIsNone
  DEF Inv, TypeOK, LocalsOK, ConnOK, FreshOK, Fresh, ServeOK, Handling,
      Removing, remove_close, close, RemoveGoto, removal
<1>23. CASE UNCHANGED vars
  BY <1>23
  DEF Inv, TypeOK, LocalsOK, ConnOK, FreshOK, Fresh, ServeOK, Handling,
      Removing, vars
<1> QED
  BY <1>1, <1>2, <1>3, <1>4, <1>5, <1>6, <1>7, <1>8, <1>9, <1>10, <1>11,
     <1>12, <1>13, <1>14, <1>15, <1>16, <1>17, <1>18, <1>19, <1>20, <1>21,
     <1>22, <1>23
  DEF Next, Client, Master, Read, Serve

\* A busy worker keeps its descriptor to itself.
LEMMA ServeStep == Inv /\ ~IdleTimeouts /\ [Next]_vars => ServeOK'
<1> SUFFICES ASSUME Inv, ~IdleTimeouts, [Next]_vars PROVE ServeOK'
  OBVIOUS
<1> USE DEF clientVars, tableVars, masterVars, localVars, historyVars
<1>1. ASSUME NEW c \in Clients, Quit(c) PROVE ServeOK'
  BY <1>1, SessionsAssumption, OwnDescriptor
  DEF Inv, TypeOK, LocalsOK, ServeOK, FreshOK, Fresh, TablesOK, Handling,
      Removing, Quit
<1>2. ASSUME NEW c \in Clients, NEW u \in Users \cup {NoUser}, Connect(c, u) PROVE ServeOK'
  BY <1>2, SessionsAssumption, OwnDescriptor
  DEF Inv, TypeOK, LocalsOK, ServeOK, FreshOK, Fresh, TablesOK, Handling,
      Removing, Connect
<1>3. ASSUME NEW c \in Clients, NEW f \in Fds, accept_client(c, f) PROVE ServeOK'
  BY <1>3, SessionsAssumption, OwnDescriptor
  DEF Inv, TypeOK, LocalsOK, ServeOK, FreshOK, Fresh, TablesOK, Handling,
      Removing, accept_client
<1>4. ASSUME distribute_worker PROVE ServeOK'
  BY <1>4, SessionsAssumption, OwnDescriptor
  DEF Inv, TypeOK, LocalsOK, ServeOK, FreshOK, Fresh, TablesOK, Handling,
      Removing, distribute_worker
<1>5. ASSUME NEW w \in Workers, make_queue(w) PROVE ServeOK'
  BY <1>5, SessionsAssumption, OwnDescriptor
  DEF Inv, TypeOK, LocalsOK, ServeOK, FreshOK, Fresh, TablesOK, Handling,
      Removing, make_queue
<1>6. ASSUME NEW w \in Workers, NEW f \in Fds, ReadEof(w, f) PROVE ServeOK'
  BY <1>6, SessionsAssumption
  DEF Inv, TypeOK, LocalsOK, ServeOK, ConnOK, Handling, Removing, ReadEof
<1>7. ASSUME NEW w \in Workers, NEW f \in Fds,
              NEW k \in 1 .. MaxFrames, ReadFrames(w, f, k)
      PROVE ServeOK'
  BY <1>7, SessionsAssumption
  DEF Inv, TypeOK, LocalsOK, ServeOK, ConnOK, Handling, Removing, ReadFrames
<1>8. ASSUME NEW w \in Workers, HeartOk(w) PROVE ServeOK'
  BY <1>8, SessionsAssumption, OwnDescriptor
  DEF Inv, TypeOK, LocalsOK, ServeOK, FreshOK, Fresh, TablesOK, Handling,
      Removing, HeartOk
<1>9. ASSUME NEW w \in Workers, HeartTimeout(w) PROVE ServeOK'
  BY <1>9 DEF HeartTimeout
<1>10. ASSUME NEW w \in Workers, adduser(w) PROVE ServeOK'
  BY <1>10, SessionsAssumption, OwnDescriptor
  DEF Inv, TypeOK, LocalsOK, ServeOK, FreshOK, Fresh, TablesOK, Handling,
      Removing, adduser
<1>11. ASSUME NEW w \in Workers, addUser(w) PROVE ServeOK'
  BY <1>11, SessionsAssumption, OwnDescriptor
  DEF Inv, TypeOK, LocalsOK, ServeOK, FreshOK, Fresh, TablesOK, Handling,
      Removing, addUser
<1>12. ASSUME NEW w \in Workers, bindFd(w) PROVE ServeOK'
  <2>1. /\ FrameDone(w) /\ pc[w] = "bindFd" /\ lfd[w] \in Fds
        /\ UNCHANGED <<peer, epoll, conn, users, Worker_fd>>
        /\ fds' = [fds EXCEPT ![lfd[w]] = who[me[w]]]
    BY <1>12 DEF bindFd, Inv, LocalsOK
  <2>2. \A v \in Workers : v # w => lfd[v] # lfd[w]
    BY <2>1, OwnDescriptor
  <2>3. \A v \in Workers : v # w => fds'[lfd[v]] = fds[lfd[v]]
    BY <2>1, <2>2 DEF Inv, TypeOK
  <2> QED
    BY <2>1, <2>3, FrameEffect DEF Inv, ServeOK, Handling, Removing
<1>13. ASSUME NEW w \in Workers, OtherFrame(w) PROVE ServeOK'
  <2>1. /\ FrameDone(w) /\ pc[w] \in Handling
        /\ UNCHANGED <<peer, epoll, conn, users, fds, Worker_fd>>
    BY <1>13 DEF OtherFrame, Handling
  <2> QED
    BY <2>1, ServeFrame
<1>14. ASSUME NEW w \in Workers, NEW v \in Users, Send_msg(w, v) PROVE ServeOK'
  <2>1. /\ pc[w] \in Handling
        /\ UNCHANGED <<peer, epoll, conn, users, fds, Worker_fd>>
    BY <1>14 DEF Send_msg, Handling
  <2>2. CASE FrameDone(w)
    BY <2>1, <2>2, ServeFrame
  <2>3. CASE ~FrameDone(w)
    BY <1>14, <2>3, SessionsAssumption
    DEF Inv, TypeOK, LocalsOK, ServeOK, Handling, Removing, Send_msg
  <2> QED
    BY <2>2, <2>3
<1>15. ASSUME NEW w \in Workers, dispatch(w) PROVE ServeOK'
  BY <1>15, SessionsAssumption, OwnDescriptor
  DEF Inv, TypeOK, LocalsOK, ServeOK, FreshOK, Fresh, TablesOK, Handling,
      Removing, dispatch
<1>16. ASSUME NEW w \in Workers, Notify_count(w) PROVE ServeOK'
  <2>1. /\ pc[w] \in Handling
        /\ UNCHANGED <<peer, epoll, conn, users, fds, Worker_fd>>
    BY <1>16 DEF Notify_count, Handling
  <2>2. CASE FrameDone(w)
    BY <2>1, <2>2, ServeFrame
  <2>3. CASE ~FrameDone(w)
    BY <1>16, <2>3, SessionsAssumption
    DEF Inv, TypeOK, LocalsOK, ServeOK, Handling, Removing, Notify_count
  <2> QED
    BY <2>2, <2>3
<1>17. ASSUME NEW w \in Workers, Notify_send(w) PROVE ServeOK'
  <2>1. /\ FrameDone(w) /\ pc[w] \in Handling
        /\ UNCHANGED <<peer, epoll, conn, users, fds, Worker_fd>>
    BY <1>17 DEF Notify_send, Handling
  <2> QED
    BY <2>1, ServeFrame
<1>18. ASSUME NEW w \in Workers, remove_erase(w) PROVE ServeOK'
  <2>1. pc[w] = "erase" /\ lfd[w] \in Fds /\ epoll[lfd[w]] = w
    BY <1>18 DEF Inv, LocalsOK, ServeOK, ConnOK, remove_erase, Handling
  <2>2. \A v \in Workers : v # w => lfd[v] # lfd[w]
    BY <2>1, OwnDescriptor
  <2>3. /\ UNCHANGED <<peer, fds, users, Worker_fd, me, luser>>
        /\ epoll' = [epoll EXCEPT ![lfd[w]] = NoWorker]
        /\ conn' = [conn EXCEPT ![w][lfd[w]] = NoClient]
        /\ pc' = [pc EXCEPT ![w] = "unname"]
        /\ lfd' = lfd
    BY <1>18, <2>1 DEF remove_erase, EpollDel, RemoveGoto, removal, Inv, TypeOK
  <2> QED
    BY <2>1, <2>2, <2>3 DEF Inv, TypeOK, LocalsOK, ServeOK, Handling, Removing
<1>19. ASSUME NEW w \in Workers, removeUser_name(w) PROVE ServeOK'
  BY <1>19, SessionsAssumption, OwnDescriptor
  DEF Inv, TypeOK, LocalsOK, ServeOK, FreshOK, Fresh, TablesOK, Handling,
      Removing, removeUser_name, RemoveGoto, removal
<1>20. ASSUME NEW w \in Workers, removeUser_users(w) PROVE ServeOK'
  <2>1. pc[w] = "unuser" /\ lfd[w] \in Fds /\ luser[w] = fds[lfd[w]]
    BY <1>20 DEF Inv, LocalsOK, ServeOK, removeUser_users
  <2>2. \A v \in Workers : v # w => lfd[v] # lfd[w]
    BY <2>1, OwnDescriptor
  <2>3. /\ UNCHANGED <<peer, epoll, conn, fds, Worker_fd, me>>
        /\ users' = [u \in Users |-> IF u = luser[w] THEN NoFd ELSE users[u]]
        /\ luser' = [luser EXCEPT ![w] = NoUser]
        /\ pc' = [pc EXCEPT ![w] = "unfd"]
        /\ lfd' = lfd
    BY <1>20 DEF removeUser_users, erase_user, RemoveGoto, removal, Inv, TypeOK
  <2>4. \A u \in Users : users[u] = lfd[w] => fds[lfd[w]] = u
    BY <2>1, <2>2, SessionsAssumption DEF Inv, TablesOK, NoFd
  <2>5. \A u \in Users : users'[u] # lfd[w]
    BY <2>1, <2>3, <2>4, SessionsAssumption DEF NoFd
  <2>6. ASSUME NEW v \in Workers, pc[v] \in {"unfd", "close"}
        PROVE  \A u \in Users : users'[u] # lfd[v]
    BY <2>3, <2>6, SessionsAssumption DEF Inv, LocalsOK, ServeOK, NoFd
  <2> QED
    BY <2>1, <2>2, <2>3, <2>5, <2>6
    DEF Inv, TypeOK, LocalsOK, ServeOK, Handling, Removing
<1>21. ASSUME NEW w \in Workers, removeUser_fds(w) PROVE ServeOK'
  BY <1>21, SessionsAssumption, OwnDescriptor
  DEF Inv, TypeOK, LocalsOK, ServeOK, FreshOK, Fresh, TablesOK, Handling,
      Removing, removeUser_fds, RemoveGoto, removal
<1>22. ASSUME NEW w \in Workers, remove_close(w) PROVE ServeOK'
  BY <1>22, SessionsAssumption, OwnDescriptor
  DEF Inv, TypeOK, LocalsOK, ServeOK, FreshOK, Fresh, TablesOK, Handling,
      Removing, remove_close, close, RemoveGoto, removal
<1>23. CASE UNCHANGED vars
  BY <1>23
  DEF Inv, TypeOK, LocalsOK, ServeOK, FreshOK, Fresh, TablesOK, Handling,
      Removing, vars
<1> QED
  BY <1>1, <1>2, <1>3, <1>4, <1>5, <1>6, <1>7, <1>8, <1>9, <1>10, <1>11,
     <1>12, <1>13, <1>14, <1>15, <1>16, <1>17, <1>18, <1>19, <1>20, <1>21,
     <1>22, <1>23
  DEF Next, Client, Master, Read, Serve

\* The tables keep naming live connections.
LEMMA TablesStep == Inv /\ ~IdleTimeouts /\ [Next]_vars => TablesOK'
<1> SUFFICES ASSUME Inv, ~IdleTimeouts, [Next]_vars PROVE TablesOK'
  OBVIOUS
<1> USE DEF clientVars, tableVars, masterVars, localVars, historyVars
<1>1. ASSUME NEW c \in Clients, Quit(c) PROVE TablesOK'
  BY <1>1, SessionsAssumption, OwnDescriptor
  DEF Inv, TypeOK, LocalsOK, TablesOK, PeerOK, ServeOK, FreshOK, Fresh, Known,
      Handling, Removing, Quit
<1>2. ASSUME NEW c \in Clients, NEW u \in Users \cup {NoUser}, Connect(c, u) PROVE TablesOK'
  BY <1>2 DEF Inv, TypeOK, TablesOK, PeerOK, Known, Connect
<1>3. ASSUME NEW c \in Clients, NEW f \in Fds, accept_client(c, f) PROVE TablesOK'
  BY <1>3, SessionsAssumption, OwnDescriptor
  DEF Inv, TypeOK, LocalsOK, TablesOK, PeerOK, ServeOK, FreshOK, Fresh, Known,
      Handling, Removing, accept_client
<1>4. ASSUME distribute_worker PROVE TablesOK'
  BY <1>4, SessionsAssumption, OwnDescriptor
  DEF Inv, TypeOK, LocalsOK, TablesOK, PeerOK, ServeOK, FreshOK, Fresh, Known,
      Handling, Removing, distribute_worker
<1>5. ASSUME NEW w \in Workers, make_queue(w) PROVE TablesOK'
  BY <1>5, SessionsAssumption, OwnDescriptor
  DEF Inv, TypeOK, LocalsOK, TablesOK, PeerOK, ServeOK, FreshOK, Fresh, Known,
      Handling, Removing, make_queue
<1>6. ASSUME NEW w \in Workers, NEW f \in Fds, ReadEof(w, f) PROVE TablesOK'
  BY <1>6, SessionsAssumption, OwnDescriptor
  DEF Inv, TypeOK, LocalsOK, TablesOK, PeerOK, ServeOK, FreshOK, Fresh, Known,
      Handling, Removing, ReadEof
<1>7. ASSUME NEW w \in Workers, NEW f \in Fds,
              NEW k \in 1 .. MaxFrames, ReadFrames(w, f, k)
      PROVE TablesOK'
  BY <1>7, SessionsAssumption, OwnDescriptor
  DEF Inv, TypeOK, LocalsOK, TablesOK, PeerOK, ServeOK, FreshOK, Fresh, Known,
      Handling, Removing, ReadFrames
<1>8. ASSUME NEW w \in Workers, HeartOk(w) PROVE TablesOK'
  BY <1>8, SessionsAssumption, OwnDescriptor
  DEF Inv, TypeOK, LocalsOK, TablesOK, PeerOK, ServeOK, FreshOK, Fresh, Known,
      Handling, Removing, HeartOk
<1>9. ASSUME NEW w \in Workers, HeartTimeout(w) PROVE TablesOK'
  BY <1>9 DEF HeartTimeout
<1>10. ASSUME NEW w \in Workers, adduser(w) PROVE TablesOK'
  BY <1>10, SessionsAssumption, OwnDescriptor
  DEF Inv, TypeOK, LocalsOK, TablesOK, PeerOK, ServeOK, FreshOK, Fresh, Known,
      Handling, Removing, adduser
<1>11. ASSUME NEW w \in Workers, addUser(w) PROVE TablesOK'
  BY <1>11, SessionsAssumption, OwnDescriptor
  DEF Inv, TypeOK, LocalsOK, TablesOK, PeerOK, ServeOK, FreshOK, Fresh, Known,
      Handling, Removing, addUser
<1>12. ASSUME NEW w \in Workers, bindFd(w) PROVE TablesOK'
  <2>1. /\ FrameDone(w) /\ pc[w] = "bindFd" /\ lfd[w] \in Fds
        /\ UNCHANGED <<peer, who, users>>
        /\ fds' = [fds EXCEPT ![lfd[w]] = who[me[w]]]
        /\ me[w] = peer[lfd[w]]
    BY <1>12 DEF bindFd, Inv, LocalsOK, ServeOK, Handling
  <2>2. ASSUME NEW u \in Users, users[u] # NoFd
        PROVE  \/ fds'[users[u]] = u
               \/ \E v \in Workers : pc'[v] = "bindFd" /\ lfd'[v] = users[u]
    <3>1. CASE users[u] = lfd[w]
      BY <2>1, <2>2, <3>1 DEF Inv, TypeOK, TablesOK
    <3>2. CASE users[u] # lfd[w]
      <4>1. CASE fds[users[u]] = u
        BY <2>1, <3>2, <4>1 DEF Inv, TypeOK
      <4>2. CASE fds[users[u]] # u
        <5>1. PICK v \in Workers : pc[v] = "bindFd" /\ lfd[v] = users[u]
          BY <2>2, <4>2 DEF Inv, TablesOK
        <5>2. v # w
          BY <3>2, <5>1
        <5>3. pc'[v] = "bindFd" /\ lfd'[v] = users[u]
          BY <2>1, <5>1, <5>2, FrameEffect DEF Inv
        <5> QED
          BY <2>1, <5>3
      <4> QED
        BY <4>1, <4>2
    <3> QED
      BY <3>1, <3>2
  <2> QED
    BY <2>1, <2>2 DEF Inv, TablesOK
<1>13. ASSUME NEW w \in Workers, OtherFrame(w) PROVE TablesOK'
  <2>1. /\ FrameDone(w) /\ pc[w] = "frame"
        /\ UNCHANGED <<peer, who, users, fds>>
    BY <1>13 DEF OtherFrame
  <2> QED
    BY <2>1, TablesFrame
<1>14. ASSUME NEW w \in Workers, NEW v \in Users, Send_msg(w, v) PROVE TablesOK'
  <2>1. pc[w] = "frame" /\ UNCHANGED <<peer, who, users, fds>>
    BY <1>14 DEF Send_msg
  <2>2. CASE FrameDone(w)
    BY <2>1, <2>2, TablesFrame
  <2>3. CASE ~FrameDone(w)
    BY <1>14, <2>1, <2>3 DEF Inv, TypeOK, TablesOK, Send_msg
  <2> QED
    BY <2>2, <2>3
<1>15. ASSUME NEW w \in Workers, dispatch(w) PROVE TablesOK'
  BY <1>15, SessionsAssumption, OwnDescriptor
  DEF Inv, TypeOK, LocalsOK, TablesOK, PeerOK, ServeOK, FreshOK, Fresh, Known,
      Handling, Removing, dispatch
<1>16. ASSUME NEW w \in Workers, Notify_count(w) PROVE TablesOK'
  <2>1. pc[w] = "count" /\ UNCHANGED <<peer, who, users, fds>>
    BY <1>16 DEF Notify_count
  <2>2. CASE FrameDone(w)
    BY <2>1, <2>2, TablesFrame
  <2>3. CASE ~FrameDone(w)
    BY <1>16, <2>1, <2>3 DEF Inv, TypeOK, TablesOK, Notify_count
  <2> QED
    BY <2>2, <2>3
<1>17. ASSUME NEW w \in Workers, Notify_send(w) PROVE TablesOK'
  <2>1. /\ FrameDone(w) /\ pc[w] = "deref"
        /\ UNCHANGED <<peer, who, users, fds>>
    BY <1>17 DEF Notify_send
  <2> QED
    BY <2>1, TablesFrame
<1>18. ASSUME NEW w \in Workers, remove_erase(w) PROVE TablesOK'
  BY <1>18, SessionsAssumption, OwnDescriptor
  DEF Inv, TypeOK, LocalsOK, TablesOK, PeerOK, ServeOK, FreshOK, Fresh, Known,
      Handling, Removing, remove_erase, EpollDel, RemoveGoto, removal
<1>19. ASSUME NEW w \in Workers, removeUser_name(w) PROVE TablesOK'
  BY <1>19, SessionsAssumption, OwnDescriptor
  DEF Inv, TypeOK, LocalsOK, TablesOK, PeerOK, ServeOK, FreshOK, Fresh, Known,
      Handling, Removing, removeUser_name, RemoveGoto, removal
<1>20. ASSUME NEW w \in Workers, removeUser_users(w) PROVE TablesOK'
  BY <1>20, SessionsAssumption, OwnDescriptor
  DEF Inv, TypeOK, LocalsOK, TablesOK, PeerOK, ServeOK, FreshOK, Fresh, Known,
      Handling, Removing, removeUser_users, erase_user, RemoveGoto, removal
<1>21. ASSUME NEW w \in Workers, removeUser_fds(w) PROVE TablesOK'
  BY <1>21, SessionsAssumption, OwnDescriptor
  DEF Inv, TypeOK, LocalsOK, TablesOK, PeerOK, ServeOK, FreshOK, Fresh, Known,
      Handling, Removing, removeUser_fds, RemoveGoto, removal
<1>22. ASSUME NEW w \in Workers, remove_close(w) PROVE TablesOK'
  BY <1>22, SessionsAssumption, OwnDescriptor
  DEF Inv, TypeOK, LocalsOK, TablesOK, PeerOK, ServeOK, FreshOK, Fresh, Known,
      Handling, Removing, remove_close, close, RemoveGoto, removal
<1>23. CASE UNCHANGED vars
  BY <1>23
  DEF Inv, TypeOK, LocalsOK, TablesOK, PeerOK, ServeOK, FreshOK, Fresh, Known,
      Handling, Removing, vars
<1> QED
  BY <1>1, <1>2, <1>3, <1>4, <1>5, <1>6, <1>7, <1>8, <1>9, <1>10, <1>11,
     <1>12, <1>13, <1>14, <1>15, <1>16, <1>17, <1>18, <1>19, <1>20, <1>21,
     <1>22, <1>23
  DEF Next, Client, Master, Read, Serve

-----------------------------------------------------------------------------
(* Theorems.                                                               *)

LEMMA InvInit == Init => Inv
<1> SUFFICES ASSUME Init PROVE Inv
  OBVIOUS
<1>1. TypeOK
  BY TypeInit
<1>2. LocalsOK
  BY NoWorkerIsNone DEF Init, LocalsOK, Handling
<1>3. FreshOK /\ PeerOK /\ ConnOK /\ TablesOK
  BY SessionsAssumption
  DEF Init, FreshOK, Fresh, PeerOK, ConnOK, TablesOK, NoFd
<1>4. ServeOK
  BY DEF Init, ServeOK, Handling, Removing
<1> QED
  BY <1>1, <1>2, <1>3, <1>4 DEF Inv

\* What holds in every reachable state as long as checkHeart times no connection
\* out: which worker, table and socket a descriptor number belongs to.
THEOREM InvCorrect == ASSUME ~IdleTimeouts PROVE Spec => []Inv
<1>1. Init => Inv
  BY InvInit
<1>2. Inv /\ [Next]_vars => Inv'
  <2> SUFFICES ASSUME Inv, [Next]_vars PROVE Inv'
    OBVIOUS
  <2>1. TypeOK' /\ LocalsOK'
    BY TypeStep, LocalsStep DEF Inv
  <2>2. FreshOK' /\ PeerOK' /\ ConnOK' /\ ServeOK' /\ TablesOK'
    BY FreshStep, PeerStep, ConnStep, ServeStep, TablesStep
  <2> QED
    BY <2>1, <2>2 DEF Inv
<1> QED
  BY <1>1, <1>2, PTL DEF Spec

\* If checkHeart times no connection out (connection.cc:1571), no account is ever
\* routed to a descriptor that is closed or that belongs to a client of another:
\* however logins, messages and teardowns of any number of workers overlap, users
\* (User_manager.cc:3) is right about the descriptors it names.
THEOREM RegistrationsAreLive == ASSUME ~IdleTimeouts PROVE Spec => []RegisteredIsLive
<1>1. Inv => RegisteredIsLive
  BY DEF Inv, TablesOK, RegisteredIsLive
<1> QED
  BY <1>1, InvCorrect, PTL

\* If checkHeart times no connection out, no descriptor is in the hands of two
\* event loops, nor in two conn maps (Worker.cc:22-42, 89-98).
THEOREM OneWorkerPerDescriptor == ASSUME ~IdleTimeouts PROVE Spec => []ServedByOneWorker
<1>1. Inv => ServedByOneWorker
  <2> SUFFICES ASSUME Inv, NEW f \in Fds, NEW v \in Workers, NEW w \in Workers, v # w
               PROVE  /\ ~(lfd[v] = f /\ lfd[w] = f)
                      /\ ~(conn[v][f] # NoClient /\ conn[w][f] # NoClient)
    BY DEF ServedByOneWorker
  <2>1. ~(lfd[v] = f /\ lfd[w] = f)
    BY SessionsAssumption DEF Inv, ServeOK, NoFd
  <2>2. ~(conn[v][f] # NoClient /\ conn[w][f] # NoClient)
    BY DEF Inv, ConnOK
  <2> QED
    BY <2>1, <2>2
<1> QED
  BY <1>1, InvCorrect, PTL

-----------------------------------------------------------------------------
(* The refinement of Presence.                                             *)

LiveClients == {c \in Clients : \E f \in Fds : peer[f] = c}
Route == [u \in Users |-> Routed(u)]

LEMMA StepRefines ==
  ASSUME Inv, ~IdleTimeouts, [Next]_vars
  PROVE  [P!Next]_(P!vars)
<1> USE DEF clientVars, tableVars, masterVars, localVars
<1>0. ASSUME UNCHANGED <<who, peer, users>>
      PROVE  UNCHANGED P!vars
  BY <1>0 DEF P!vars, Routed
<1>1. ASSUME NEW c \in Clients, NEW u \in Users \cup {NoUser}, Connect(c, u)
      PROVE  P!Arrive(c, u)
  <2>1. \A f \in Fds : peer[f] # c
    BY <1>1, SessionsAssumption DEF Inv, PeerOK, Known, Connect
  <2>2. /\ who' = [who EXCEPT ![c] = u]
        /\ UNCHANGED <<peer, users>>
    BY <1>1 DEF Connect
  <2> QED
    BY <2>1, <2>2 DEF P!Arrive, Routed
<1>2. ASSUME NEW c \in Clients, NEW f \in Fds, accept_client(c, f)
      PROVE  P!Open(c)
  <2>1. /\ peer[f] = NoClient /\ Fresh(f)
        /\ peer' = [peer EXCEPT ![f] = c]
        /\ UNCHANGED <<who, users>>
    BY <1>2 DEF accept_client, Inv, FreshOK
  <2>2. LiveClients' = LiveClients \cup {c}
    BY <2>1, SessionsAssumption DEF LiveClients, Inv, TypeOK
  <2>3. Route' = Route
    <3>1. ASSUME NEW u \in Users PROVE Routed(u)' = Routed(u)
      <4>1. users[u] # f
        BY <2>1 DEF Fresh
      <4> QED
        BY <2>1, <4>1 DEF Routed, Inv, TypeOK
    <3> QED
      BY <3>1 DEF Route
  <2> QED
    BY <2>1, <2>2, <2>3 DEF P!Open, LiveClients, Route
<1>3. ASSUME NEW w \in Workers, addUser(w)
      PROVE  me[w] \in Clients /\ P!Register(me[w])
  <2>0. PICK c \in Clients : c = me[w]
    BY <1>3 DEF addUser, Inv, LocalsOK, Known, Handling
  <2>1. PICK u \in Users : u = who[c]
    BY <1>3, <2>0 DEF addUser, Inv, LocalsOK
  <2>2. PICK g \in Fds : g = lfd[w]
    BY <1>3 DEF addUser, Inv, LocalsOK
  <2>3. /\ users' = [users EXCEPT ![u] = g]
        /\ UNCHANGED <<who, peer>>
    BY <1>3, <2>0, <2>1, <2>2 DEF addUser
  <2>4. peer[g] = c
    BY <1>3, <2>0, <2>2 DEF addUser, Inv, ServeOK, Handling
  <2>5. g # NoFd
    BY SessionsAssumption DEF NoFd
  <2>6. c \in LiveClients
    BY <2>4 DEF LiveClients
  <2>7. Route' = [Route EXCEPT ![u] = c]
    <3>1. ASSUME NEW v \in Users
          PROVE  Routed(v)' = IF v = u THEN c ELSE Routed(v)
      BY <2>3, <2>4, <2>5 DEF Routed, Inv, TypeOK
    <3> QED
      BY <3>1 DEF Route
  <2>8. LiveClients' = LiveClients
    BY <2>3 DEF LiveClients
  <2> QED
    BY <2>0, <2>1, <2>3, <2>6, <2>7, <2>8 DEF P!Register, LiveClients, Route
<1>4. ASSUME NEW w \in Workers, removeUser_users(w)
      PROVE  (\E u \in Users : P!Unregister(u)) \/ UNCHANGED P!vars
  <2>1. /\ users' = [u \in Users |-> IF u = luser[w] THEN NoFd ELSE users[u]]
        /\ UNCHANGED <<who, peer>>
    BY <1>4 DEF removeUser_users, erase_user
  <2>2. CASE luser[w] \in Users
    <3>1. PICK u \in Users : u = luser[w]
      BY <2>2
    <3>2. Route' = [Route EXCEPT ![u] = NoClient]
      BY <2>1, <3>1 DEF Route, Routed
    <3>3. LiveClients' = LiveClients
      BY <2>1 DEF LiveClients
    <3>4. P!Unregister(u)
      BY <2>1, <3>2, <3>3 DEF P!Unregister, LiveClients, Route
    <3> QED
      BY <3>4
  <2>3. CASE luser[w] \notin Users
    <3>1. \A u \in Users : users'[u] = users[u]
      BY <2>1, <2>3
    <3>2. users' = users
      BY <2>1, <2>3 DEF Inv, TypeOK
    <3> QED
      BY <1>0, <2>1, <3>2
  <2> QED
    BY <2>2, <2>3
<1>5. ASSUME NEW w \in Workers, remove_close(w)
      PROVE  \E c \in Clients : P!Close(c)
  <2>1. PICK g \in Fds : g = lfd[w]
    BY <1>5 DEF remove_close, Inv, LocalsOK
  <2>2. PICK c \in Clients : c = peer[g]
    BY <1>5, <2>1 DEF remove_close, Inv, TypeOK, ServeOK
  <2>3. /\ peer' = [peer EXCEPT ![g] = NoClient]
        /\ UNCHANGED <<who, users>>
        /\ \A u \in Users : users[u] # g
    BY <1>5, <2>1 DEF remove_close, close, Inv, ServeOK
  <2>4. \A f \in Fds : peer[f] = c => f = g
    BY <2>2, SessionsAssumption DEF Inv, PeerOK
  <2>5. \A u \in Users : Routed(u) # c
    BY <2>3, <2>4, SessionsAssumption DEF Routed, Inv, TypeOK
  <2>6. Route' = Route
    <3>1. ASSUME NEW u \in Users PROVE Routed(u)' = Routed(u)
      BY <2>3 DEF Routed, Inv, TypeOK
    <3> QED
      BY <3>1 DEF Route
  <2>7. c \in LiveClients
    BY <2>2 DEF LiveClients
  <2>8. LiveClients' = LiveClients \ {c}
    BY <2>2, <2>3, <2>4, SessionsAssumption DEF LiveClients, Inv, TypeOK
  <2>9. \A u \in Users : Route[u] # c
    BY <2>5 DEF Route
  <2> QED
    BY <2>3, <2>6, <2>7, <2>8, <2>9 DEF P!Close, LiveClients, Route
<1>6. CASE \/ \E c \in Clients : Quit(c)
           \/ distribute_worker
           \/ \E w \in Workers : make_queue(w) \/ Read(w)
           \/ UNCHANGED vars
  <2>1. UNCHANGED <<who, peer, users>>
    BY <1>6
    DEF Quit, distribute_worker, make_queue, Read, ReadEof, ReadFrames, vars
  <2> QED
    BY <1>0, <2>1
<1>7. ASSUME NEW w \in Workers,
             \/ HeartOk(w) \/ HeartTimeout(w) \/ adduser(w) \/ bindFd(w)
             \/ OtherFrame(w) \/ (\E v \in Users : Send_msg(w, v))
             \/ dispatch(w) \/ Notify_count(w) \/ Notify_send(w)
             \/ remove_erase(w) \/ removeUser_name(w) \/ removeUser_fds(w)
      PROVE  UNCHANGED P!vars
  <2>1. UNCHANGED <<who, peer, users>>
    BY <1>7
    DEF HeartOk, HeartTimeout, adduser, bindFd, OtherFrame, Send_msg, dispatch,
        Notify_count, Notify_send, remove_erase, removeUser_name, removeUser_fds
  <2> QED
    BY <1>0, <2>1
<1> QED
  BY <1>1, <1>2, <1>3, <1>4, <1>5, <1>6, <1>7
  DEF Next, Client, Master, Read, Serve, P!Next

\* If checkHeart times no connection out, the server implements Presence: whatever
\* the workers, the accepting thread and the clients do, what the tables users and
\* fds show is a behaviour of that table, in which an account is routed to its own
\* connected clients only and a socket is given back only when nothing is routed
\* to it.
THEOREM SessionsImplementPresence ==
  ASSUME ~IdleTimeouts PROVE Spec => ImplementsPresence
<1>1. Init => P!Init
  BY SessionsAssumption DEF Init, P!Init, Routed
<1>2. Inv /\ [Next]_vars => [P!Next]_(P!vars)
  BY StepRefines
<1> QED
  BY <1>1, <1>2, InvCorrect, PTL DEF Spec, ImplementsPresence, P!Spec

-----------------------------------------------------------------------------
(* Numbers and names.  Silent connections are allowed here: what follows   *)
(* rests on who has ever held a number, which closing it does not change.  *)

\* Every reference to a connection under a number is to one that has held it.
HeldOK ==
    /\ \A f \in Fds : \A c \in held[f] : Known(c) /\ c \notin backlog
    /\ \A f, g \in Fds : f # g => held[f] \cap held[g] = {}
    /\ \A f \in Fds : peer[f] # NoClient => peer[f] \in held[f]
    /\ mpc # "accept" => mcli \in held[mfd]
    /\ \A w \in Workers, f \in Fds : conn[w][f] # NoClient => conn[w][f] \in held[f]
    /\ \A w \in Workers : pc[w] \in Handling => me[w] \in held[lfd[w]]

\* The account was logged in with a connection of that number, perhaps not the
\* one that has it now.
Held(u, f) == \E d \in logged : d \in held[f] /\ who[d] = u

\* Every name in the tables, and under way, was logged in under its number.
NamesOK ==
    /\ \A c \in logged : who[c] \in Users /\ \E f \in Fds : c \in held[f]
    /\ \A u \in Users : users[u] # NoFd => Held(u, users[u])
    /\ \A f \in Fds : fds[f] # NoUser => Held(fds[f], f)
    /\ \A w \in Workers :
          /\ pc[w] \in {"addUser", "bindFd"} => me[w] \in logged
          /\ pc[w] = "unuser" /\ luser[w] # NoUser => Held(luser[w], lfd[w])
          /\ pc[w] \in {"route", "count", "deref"} => Held(luser[w], to[w])

\* A message came through a number that its addressee had at some time.
MailOK ==
    \A c \in Clients : \A v \in inbox[c] : \E f \in Fds : c \in held[f] /\ Held(v, f)

LEMMA HeldFrame ==
  ASSUME TypeOK, HeldOK, NEW w \in Workers, FrameDone(w), pc[w] \in Handling,
         UNCHANGED <<cl, backlog, peer, conn, mpc, mfd, mcli, held>>
  PROVE  HeldOK'
<1>1. ASSUME NEW v \in Workers, pc'[v] \in Handling
      PROVE  me'[v] \in held'[lfd'[v]]
  <2>1. CASE v = w
    BY <1>1, <2>1, FrameEffect DEF HeldOK, Handling
  <2>2. CASE v # w
    BY <1>1, <2>2, FrameEffect DEF HeldOK
  <2> QED
    BY <2>1, <2>2
<1> QED
  BY <1>1 DEF HeldOK, Known

\* Every action keeps who has held a number.
LEMMA HeldStep == TypeOK /\ LocalsOK /\ HeldOK /\ [Next]_vars => HeldOK'
<1> SUFFICES ASSUME TypeOK, LocalsOK, HeldOK, [Next]_vars PROVE HeldOK'
  OBVIOUS
<1> USE DEF clientVars, tableVars, masterVars, localVars, historyVars
<1>1. ASSUME NEW c \in Clients, Quit(c)
      PROVE  HeldOK'
  BY <1>1, SessionsAssumption, NoWorkerIsNone
  DEF TypeOK, LocalsOK, HeldOK, Known, Handling, Removing, Quit
<1>2. ASSUME NEW c \in Clients, NEW u \in Users \cup {NoUser}, Connect(c, u)
      PROVE  HeldOK'
  BY <1>2, SessionsAssumption, NoWorkerIsNone
  DEF TypeOK, LocalsOK, HeldOK, Known, Handling, Removing, Connect
<1>3. ASSUME NEW c \in Clients, NEW f \in Fds, accept_client(c, f)
      PROVE  HeldOK'
  BY <1>3, SessionsAssumption, NoWorkerIsNone
  DEF TypeOK, LocalsOK, HeldOK, Known, Handling, Removing, accept_client
<1>4. ASSUME distribute_worker
      PROVE  HeldOK'
  BY <1>4, SessionsAssumption, NoWorkerIsNone
  DEF TypeOK, LocalsOK, HeldOK, Known, Handling, Removing, distribute_worker
<1>5. ASSUME NEW w \in Workers, make_queue(w)
      PROVE  HeldOK'
  BY <1>5, SessionsAssumption, NoWorkerIsNone
  DEF TypeOK, LocalsOK, HeldOK, Known, Handling, Removing, make_queue
<1>6. ASSUME NEW w \in Workers, NEW f \in Fds, ReadEof(w, f)
      PROVE  HeldOK'
  BY <1>6, SessionsAssumption, NoWorkerIsNone
  DEF TypeOK, LocalsOK, HeldOK, Known, Handling, Removing, ReadEof
<1>7. ASSUME NEW w \in Workers, NEW f \in Fds, NEW k \in 1 .. MaxFrames, ReadFrames(w, f, k)
      PROVE  HeldOK'
  BY <1>7, SessionsAssumption, NoWorkerIsNone
  DEF TypeOK, LocalsOK, HeldOK, Known, Handling, Removing, ReadFrames
<1>8. ASSUME NEW w \in Workers, HeartOk(w)
      PROVE  HeldOK'
  BY <1>8, SessionsAssumption, NoWorkerIsNone
  DEF TypeOK, LocalsOK, HeldOK, Known, Handling, Removing, HeartOk
<1>9. ASSUME NEW w \in Workers, HeartTimeout(w)
      PROVE  HeldOK'
  BY <1>9, SessionsAssumption, NoWorkerIsNone
  DEF TypeOK, LocalsOK, HeldOK, Known, Handling, Removing, HeartTimeout, close
<1>10. ASSUME NEW w \in Workers, adduser(w)
      PROVE  HeldOK'
  BY <1>10, SessionsAssumption, NoWorkerIsNone
  DEF TypeOK, LocalsOK, HeldOK, Known, Handling, Removing, adduser
<1>11. ASSUME NEW w \in Workers, addUser(w)
      PROVE  HeldOK'
  BY <1>11, SessionsAssumption, NoWorkerIsNone
  DEF TypeOK, LocalsOK, HeldOK, Known, Handling, Removing, addUser
<1>12. ASSUME NEW w \in Workers, bindFd(w)
      PROVE  HeldOK'
  <2>1. FrameDone(w) /\ pc[w] \in Handling /\ UNCHANGED <<cl, backlog, peer, conn, mpc, mfd, mcli, held>>
    BY <1>12 DEF bindFd, Handling
  <2> QED
    BY <2>1, HeldFrame
<1>13. ASSUME NEW w \in Workers, OtherFrame(w)
      PROVE  HeldOK'
  <2>1. FrameDone(w) /\ pc[w] \in Handling /\ UNCHANGED <<cl, backlog, peer, conn, mpc, mfd, mcli, held>>
    BY <1>13 DEF OtherFrame, Handling
  <2> QED
    BY <2>1, HeldFrame
<1>14. ASSUME NEW w \in Workers, NEW v \in Users, Send_msg(w, v)
      PROVE  HeldOK'
  <2>1. pc[w] \in Handling /\ UNCHANGED <<cl, backlog, peer, conn, mpc, mfd, mcli, held>>
    BY <1>14 DEF Send_msg, Handling
  <2>2. CASE FrameDone(w)
    BY <2>1, <2>2, HeldFrame
  <2>3. CASE ~FrameDone(w)
    BY <1>14, <2>3, SessionsAssumption DEF TypeOK, LocalsOK, HeldOK, Known, Handling, Removing, Send_msg
  <2> QED
    BY <2>2, <2>3
<1>15. ASSUME NEW w \in Workers, dispatch(w)
      PROVE  HeldOK'
  BY <1>15, SessionsAssumption, NoWorkerIsNone
  DEF TypeOK, LocalsOK, HeldOK, Known, Handling, Removing, dispatch
<1>16. ASSUME NEW w \in Workers, Notify_count(w)
      PROVE  HeldOK'
  <2>1. pc[w] \in Handling /\ UNCHANGED <<cl, backlog, peer, conn, mpc, mfd, mcli, held>>
    BY <1>16 DEF Notify_count, Handling
  <2>2. CASE FrameDone(w)
    BY <2>1, <2>2, HeldFrame
  <2>3. CASE ~FrameDone(w)
    BY <1>16, <2>3, SessionsAssumption DEF TypeOK, LocalsOK, HeldOK, Known, Handling, Removing, Notify_count
  <2> QED
    BY <2>2, <2>3
<1>17. ASSUME NEW w \in Workers, Notify_send(w)
      PROVE  HeldOK'
  <2>1. FrameDone(w) /\ pc[w] \in Handling /\ UNCHANGED <<cl, backlog, peer, conn, mpc, mfd, mcli, held>>
    BY <1>17 DEF Notify_send, Handling
  <2> QED
    BY <2>1, HeldFrame
<1>18. ASSUME NEW w \in Workers, remove_erase(w)
      PROVE  HeldOK'
  BY <1>18, SessionsAssumption, NoWorkerIsNone
  DEF TypeOK, LocalsOK, HeldOK, Known, Handling, Removing, remove_erase, EpollDel, RemoveGoto, removal
<1>19. ASSUME NEW w \in Workers, removeUser_name(w)
      PROVE  HeldOK'
  BY <1>19, SessionsAssumption, NoWorkerIsNone
  DEF TypeOK, LocalsOK, HeldOK, Known, Handling, Removing, removeUser_name, RemoveGoto, removal
<1>20. ASSUME NEW w \in Workers, removeUser_users(w)
      PROVE  HeldOK'
  BY <1>20, SessionsAssumption, NoWorkerIsNone
  DEF TypeOK, LocalsOK, HeldOK, Known, Handling, Removing, removeUser_users, erase_user, RemoveGoto, removal
<1>21. ASSUME NEW w \in Workers, removeUser_fds(w)
      PROVE  HeldOK'
  BY <1>21, SessionsAssumption, NoWorkerIsNone
  DEF TypeOK, LocalsOK, HeldOK, Known, Handling, Removing, removeUser_fds, RemoveGoto, removal
<1>22. ASSUME NEW w \in Workers, remove_close(w)
      PROVE  HeldOK'
  BY <1>22, SessionsAssumption, NoWorkerIsNone
  DEF TypeOK, LocalsOK, HeldOK, Known, Handling, Removing, remove_close, close, RemoveGoto, removal
<1>23. CASE UNCHANGED vars
  BY <1>23 DEF TypeOK, LocalsOK, HeldOK, Known, Handling, Removing, vars
<1> QED
  BY <1>1, <1>2, <1>3, <1>4, <1>5, <1>6, <1>7, <1>8, <1>9, <1>10, <1>11, <1>12, <1>13, <1>14, <1>15, <1>16, <1>17, <1>18, <1>19, <1>20, <1>21, <1>22, <1>23
  DEF Next, Client, Master, Read, Serve

\* What has happened stays so.
LEMMA HistoryStays ==
  ASSUME TypeOK, LocalsOK, HeldOK, [Next]_vars
  PROVE  /\ \A c \in Clients : cl[c] # "out" => who'[c] = who[c]
         /\ \A f \in Fds : held[f] \subseteq held'[f]
         /\ logged \subseteq logged'
<1> DEFINE Stays == /\ \A c \in Clients : cl[c] # "out" => who'[c] = who[c]
                    /\ \A f \in Fds : held[f] \subseteq held'[f]
                    /\ logged \subseteq logged'
<1> USE DEF clientVars, tableVars, masterVars, localVars, historyVars
<1>1. ASSUME NEW c \in Clients, NEW u \in Users \cup {NoUser}, Connect(c, u)
      PROVE  Stays
  BY <1>1 DEF TypeOK, Connect
<1>2. ASSUME NEW c \in Clients, NEW f \in Fds, accept_client(c, f)
      PROVE  Stays
  BY <1>2 DEF TypeOK, accept_client
<1>3. ASSUME NEW w \in Workers, adduser(w)
      PROVE  Stays
  BY <1>3 DEF adduser
<1>4. CASE UNCHANGED <<who, held, logged>>
  BY <1>4
<1>5. ASSUME NEW c \in Clients, Quit(c)
      PROVE  Stays
  BY <1>5, <1>4 DEF Quit
<1>6. ASSUME distribute_worker \/ \E w \in Workers : make_queue(w)
      PROVE  Stays
  BY <1>6, <1>4 DEF distribute_worker, make_queue
<1>7. ASSUME NEW w \in Workers, Read(w)
      PROVE  Stays
  BY <1>7, <1>4 DEF Read, ReadEof, ReadFrames
<1>8. ASSUME NEW w \in Workers, Serve(w), ~adduser(w)
      PROVE  Stays
  BY <1>8, <1>4
  DEF Serve, HeartOk, HeartTimeout, addUser, bindFd, OtherFrame, Send_msg, dispatch,
      Notify_count, Notify_send, remove_erase, removeUser_name, removeUser_users,
      removeUser_fds, remove_close
<1>9. CASE UNCHANGED vars
  BY <1>9, <1>4 DEF vars
<1> QED
  BY <1>1, <1>2, <1>3, <1>5, <1>6, <1>7, <1>8, <1>9 DEF Next, Client, Master

\* The same in the state after the step.
HeldAfter(u, f) == \E d \in logged' : d \in held'[f] /\ who'[d] = u

LEMMA HeldStays ==
  ASSUME TypeOK, LocalsOK, HeldOK, [Next]_vars, NEW u, NEW f \in Fds, Held(u, f)
  PROVE  HeldAfter(u, f)
<1>1. PICK d \in logged : d \in held[f] /\ who[d] = u
  BY DEF Held
<1>2. d \in Clients /\ cl[d] # "out"
  BY <1>1 DEF HeldOK, Known
<1>3. d \in logged' /\ d \in held'[f] /\ who'[d] = u
  BY <1>1, <1>2, HistoryStays
<1> QED
  BY <1>3 DEF HeldAfter

\* Only worker w has moved, and it holds no name that was not logged in.
LEMMA NamesMove ==
  ASSUME TypeOK, LocalsOK, HeldOK, NamesOK, [Next]_vars, NEW w \in Workers,
         \A v \in Workers : v # w => /\ pc'[v] = pc[v] /\ lfd'[v] = lfd[v] /\ me'[v] = me[v]
                                     /\ luser'[v] = luser[v] /\ to'[v] = to[v],
         pc'[w] \in {"addUser", "bindFd"} => me'[w] \in logged',
         pc'[w] = "unuser" /\ luser'[w] # NoUser => HeldAfter(luser'[w], lfd'[w]),
         pc'[w] \in {"route", "count", "deref"} => HeldAfter(luser'[w], to'[w]),
         \A u \in Users : users'[u] \in {users[u], NoFd} \/ HeldAfter(u, users'[u]),
         \A f \in Fds : fds'[f] \in {fds[f], NoUser} \/ HeldAfter(fds'[f], f),
         \A c \in logged' : c \in logged \/ (who[c] \in Users /\ \E f \in Fds : c \in held[f])
  PROVE  NamesOK'
<1>1. ASSUME NEW v \in Workers
      PROVE  /\ pc'[v] \in {"addUser", "bindFd"} => me'[v] \in logged'
             /\ pc'[v] = "unuser" /\ luser'[v] # NoUser => HeldAfter(luser'[v], lfd'[v])
             /\ pc'[v] \in {"route", "count", "deref"} => HeldAfter(luser'[v], to'[v])
  <2>1. CASE v = w
    BY <2>1
  <2>2. CASE v # w
    <3>1. /\ pc'[v] = pc[v] /\ lfd'[v] = lfd[v] /\ me'[v] = me[v]
          /\ luser'[v] = luser[v] /\ to'[v] = to[v]
      BY <2>2
    <3>2. pc[v] # "idle" => lfd[v] \in Fds
      BY DEF LocalsOK
    <3>3. pc[v] \in {"route", "count", "deref"} => to[v] \in Fds
      BY DEF LocalsOK
    <3>4. pc[v] = "unuser" /\ luser[v] # NoUser => HeldAfter(luser[v], lfd[v])
      BY <3>2, HeldStays DEF NamesOK
    <3>5. pc[v] \in {"route", "count", "deref"} => HeldAfter(luser[v], to[v])
      BY <3>3, HeldStays DEF NamesOK
    <3>6. pc[v] \in {"addUser", "bindFd"} => me[v] \in logged'
      BY HistoryStays DEF NamesOK
    <3> QED
      BY <3>1, <3>4, <3>5, <3>6
  <2> QED
    BY <2>1, <2>2
<1>2. \A u \in Users : users'[u] # NoFd => HeldAfter(u, users'[u])
  BY HeldStays DEF NamesOK, TypeOK
<1>3. \A f \in Fds : fds'[f] # NoUser => HeldAfter(fds'[f], f)
  BY HeldStays DEF NamesOK
<1>4. ASSUME NEW c \in logged'
      PROVE  who'[c] \in Users /\ \E f \in Fds : c \in held'[f]
  <2>1. PICK f \in Fds : c \in held[f] /\ who[c] \in Users
    BY DEF NamesOK
  <2>2. c \in Clients /\ cl[c] # "out"
    BY <2>1 DEF HeldOK, Known
  <2> QED
    BY <2>1, <2>2, HistoryStays
<1> QED
  BY <1>1, <1>2, <1>3, <1>4 DEF NamesOK, Held, HeldAfter

LEMMA NamesFrame ==
  ASSUME TypeOK, LocalsOK, HeldOK, NamesOK, [Next]_vars,
         NEW w \in Workers, FrameDone(w), UNCHANGED <<users, logged>>,
         \A f \in Fds : fds'[f] = fds[f] \/ HeldAfter(fds'[f], f)
  PROVE  NamesOK'
<1>1. /\ \A v \in Workers : v # w => /\ pc'[v] = pc[v] /\ lfd'[v] = lfd[v] /\ me'[v] = me[v]
                                     /\ luser'[v] = luser[v] /\ to'[v] = to[v]
      /\ pc'[w] \in {"heart", "idle"}
  BY FrameEffect
<1> QED
  BY <1>1, NamesMove

\* Every action keeps that names go with numbers.
LEMMA NamesStep ==
  ASSUME TypeOK, LocalsOK, HeldOK, NamesOK, [Next]_vars
  PROVE  NamesOK'
<1> USE DEF clientVars, tableVars, masterVars, localVars, historyVars
<1>1. CASE UNCHANGED <<pc, lfd, me, luser, to, users, fds, logged>>
  <2>1. PICK w \in Workers : w = 0
    BY ZeroIsWorker
  <2>2. pc[w] # "idle" => lfd[w] \in Fds
    BY DEF LocalsOK
  <2>3. pc[w] \in {"route", "count", "deref"} => to[w] \in Fds
    BY DEF LocalsOK
  <2>4. pc[w] = "unuser" /\ luser[w] # NoUser => HeldAfter(luser[w], lfd[w])
    BY <2>2, HeldStays DEF NamesOK
  <2>5. pc[w] \in {"route", "count", "deref"} => HeldAfter(luser[w], to[w])
    BY <2>3, HeldStays DEF NamesOK
  <2>6. pc[w] \in {"addUser", "bindFd"} => me[w] \in logged
    BY DEF NamesOK
  <2> QED
    BY <1>1, <2>4, <2>5, <2>6, NamesMove
<1>2. CASE Client \/ Master \/ UNCHANGED vars
  BY <1>1, <1>2
  DEF Client, Master, vars, Quit, Connect, accept_client, distribute_worker, make_queue
<1>3. ASSUME NEW w \in Workers, Read(w)
      PROVE  NamesOK'
  <2>1. /\ \A v \in Workers : v # w => /\ pc'[v] = pc[v] /\ lfd'[v] = lfd[v] /\ me'[v] = me[v]
                                       /\ luser'[v] = luser[v] /\ to'[v] = to[v]
        /\ pc'[w] \in {"heart", "erase"}
        /\ UNCHANGED <<users, fds, logged>>
    BY <1>3 DEF TypeOK, Read, ReadEof, ReadFrames
  <2> QED
    BY <2>1, NamesMove
<1>4. ASSUME NEW w \in Workers, Serve(w)
      PROVE  NamesOK'
  <2> DEFINE Alone == \A v \in Workers :
               v # w => /\ pc'[v] = pc[v] /\ lfd'[v] = lfd[v] /\ me'[v] = me[v]
                        /\ luser'[v] = luser[v] /\ to'[v] = to[v]
  <2>1. CASE HeartOk(w) \/ HeartTimeout(w)
    <3>1. Alone /\ pc'[w] = "frame" /\ UNCHANGED <<users, fds, logged>>
      BY <2>1 DEF TypeOK, HeartOk, HeartTimeout
    <3> QED
      BY <3>1, NamesMove
  <2>2. CASE adduser(w)
    <3>1. /\ Alone /\ pc'[w] = "addUser" /\ me'[w] = me[w]
          /\ logged' = logged \cup {me[w]} /\ UNCHANGED <<users, fds>>
      BY <2>2 DEF TypeOK, adduser
    <3>2. me[w] \in held[lfd[w]] /\ lfd[w] \in Fds /\ who[me[w]] \in Users
      BY <2>2 DEF TypeOK, HeldOK, LocalsOK, Known, adduser, Handling
    <3> QED
      BY <3>1, <3>2, NamesMove
  <2>3. CASE addUser(w)
    <3>1. /\ Alone /\ pc'[w] = "bindFd" /\ me'[w] = me[w] /\ UNCHANGED <<fds, logged>>
          /\ \A u \in Users : u # who[me[w]] => users'[u] = users[u]
          /\ users'[who[me[w]]] = lfd[w]
      BY <2>3 DEF TypeOK, LocalsOK, addUser
    <3>2. me[w] \in held[lfd[w]] /\ lfd[w] \in Fds /\ me[w] \in logged
      BY <2>3 DEF HeldOK, LocalsOK, NamesOK, addUser, Handling
    <3>3. HeldAfter(who[me[w]], lfd[w])
      BY <3>2, HeldStays DEF Held
    <3> QED
      BY <3>1, <3>2, <3>3, NamesMove
  <2>4. CASE bindFd(w)
    <3>1. FrameDone(w) /\ fds' = [fds EXCEPT ![lfd[w]] = who[me[w]]] /\ UNCHANGED <<users, logged>>
      BY <2>4 DEF bindFd
    <3>2. me[w] \in held[lfd[w]] /\ lfd[w] \in Fds /\ me[w] \in logged
      BY <2>4 DEF HeldOK, LocalsOK, NamesOK, bindFd, Handling
    <3>3. HeldAfter(who[me[w]], lfd[w])
      BY <3>2, HeldStays DEF Held
    <3>4. \A f \in Fds : fds'[f] = fds[f] \/ HeldAfter(fds'[f], f)
      BY <3>1, <3>2, <3>3 DEF TypeOK
    <3> QED
      BY <3>1, <3>4, NamesFrame
  <2>5. CASE OtherFrame(w) \/ Notify_send(w)
    <3>1. FrameDone(w) /\ UNCHANGED <<users, fds, logged>>
      BY <2>5 DEF OtherFrame, Notify_send
    <3> QED
      BY <3>1, NamesFrame
  <2>6. ASSUME NEW v \in Users, Send_msg(w, v)
        PROVE  NamesOK'
    <3>1. CASE FrameDone(w)
      <4>1. UNCHANGED <<users, fds, logged>>
        BY <2>6 DEF Send_msg
      <4> QED
        BY <3>1, <4>1, NamesFrame
    <3>2. CASE ~FrameDone(w)
      <4>1. /\ Alone /\ pc'[w] = "route" /\ to'[w] = users[v] /\ luser'[w] = v /\ users[v] # NoFd
            /\ UNCHANGED <<users, fds, logged>>
        BY <2>6, <3>2 DEF TypeOK, Send_msg
      <4>2. HeldAfter(v, users[v])
        BY <4>1, HeldStays DEF NamesOK, TypeOK
      <4> QED
        BY <4>1, <4>2, NamesMove
    <3> QED
      BY <3>1, <3>2
  <2>7. CASE dispatch(w)
    <3>1. /\ Alone /\ pc[w] = "route" /\ pc'[w] = "count" /\ to'[w] = to[w] /\ luser'[w] = luser[w]
          /\ UNCHANGED <<users, fds, logged>>
      BY <2>7 DEF TypeOK, dispatch
    <3>2. HeldAfter(luser[w], to[w])
      BY <3>1, HeldStays DEF NamesOK, LocalsOK
    <3> QED
      BY <3>1, <3>2, NamesMove
  <2>8. CASE Notify_count(w)
    <3>1. CASE FrameDone(w)
      <4>1. UNCHANGED <<users, fds, logged>>
        BY <2>8 DEF Notify_count
      <4> QED
        BY <3>1, <4>1, NamesFrame
    <3>2. CASE ~FrameDone(w)
      <4>1. /\ Alone /\ pc[w] = "count" /\ pc'[w] = "deref" /\ to'[w] = to[w]
            /\ luser'[w] = luser[w] /\ UNCHANGED <<users, fds, logged>>
        BY <2>8, <3>2 DEF TypeOK, Notify_count
      <4>2. HeldAfter(luser[w], to[w])
        BY <4>1, HeldStays DEF NamesOK, LocalsOK
      <4> QED
        BY <4>1, <4>2, NamesMove
    <3> QED
      BY <3>1, <3>2
  <2>9. CASE removeUser_name(w)
    <3>1. /\ Alone /\ pc[w] = "unname" /\ pc'[w] = "unuser" /\ lfd'[w] = lfd[w]
          /\ luser'[w] = fds[lfd[w]] /\ UNCHANGED <<users, fds, logged>>
      BY <2>9 DEF TypeOK, removeUser_name, RemoveGoto, removal
    <3>2. lfd[w] \in Fds
      BY <3>1 DEF LocalsOK
    <3>3. fds[lfd[w]] # NoUser => HeldAfter(fds[lfd[w]], lfd[w])
      BY <3>2, HeldStays DEF NamesOK
    <3> QED
      BY <3>1, <3>3, NamesMove
  <2>10. CASE removeUser_users(w)
    <3>1. /\ Alone /\ pc'[w] = "unfd" /\ UNCHANGED <<fds, logged>>
          /\ \A u \in Users : users'[u] \in {users[u], NoFd}
      BY <2>10 DEF TypeOK, removeUser_users, RemoveGoto, removal, erase_user
    <3> QED
      BY <3>1, NamesMove
  <2>11. CASE removeUser_fds(w)
    <3>1. /\ Alone /\ pc'[w] = "close" /\ UNCHANGED <<users, logged>>
          /\ \A f \in Fds : fds'[f] \in {fds[f], NoUser}
      BY <2>11 DEF TypeOK, removeUser_fds, RemoveGoto, removal
    <3> QED
      BY <3>1, NamesMove
  <2>12. CASE remove_erase(w) \/ remove_close(w)
    <3>1. Alone /\ pc'[w] \in {"unname", "idle"} /\ UNCHANGED <<users, fds, logged>>
      BY <2>12 DEF TypeOK, remove_erase, remove_close, RemoveGoto, removal
    <3> QED
      BY <3>1, NamesMove
  <2> QED
    BY <1>4, <2>1, <2>2, <2>3, <2>4, <2>5, <2>6, <2>7, <2>8, <2>9, <2>10, <2>11, <2>12 DEF Serve
<1> QED
  BY <1>2, <1>3, <1>4 DEF Next

\* Messages stay where they came; only Notify_send brings one.
LEMMA MailStep ==
  ASSUME TypeOK, LocalsOK, HeldOK, NamesOK, MailOK, [Next]_vars
  PROVE  MailOK'
<1>1. ASSUME NEW c \in Clients, NEW v \in inbox[c]
      PROVE  \E f \in Fds : c \in held'[f] /\ HeldAfter(v, f)
  <2>1. PICK f \in Fds : c \in held[f] /\ Held(v, f)
    BY <1>1 DEF MailOK
  <2> QED
    BY <2>1, HeldStays, HistoryStays
<1>2. CASE UNCHANGED inbox
  BY <1>1, <1>2 DEF MailOK, Held, HeldAfter
<1>3. ASSUME NEW w \in Workers, Notify_send(w)
      PROVE  MailOK'
  <2>1. /\ to[w] \in Fds /\ Held(luser[w], to[w])
        /\ peer[to[w]] # NoClient => peer[to[w]] \in held[to[w]]
    BY <1>3 DEF Notify_send, LocalsOK, NamesOK, HeldOK
  <2>2. HeldAfter(luser[w], to[w]) /\ held[to[w]] \subseteq held'[to[w]]
    BY <2>1, HeldStays, HistoryStays
  <2>3. \/ UNCHANGED inbox
        \/ /\ peer[to[w]] # NoClient
           /\ inbox' = [inbox EXCEPT ![peer[to[w]]] = @ \cup {luser[w]}]
    BY <1>3 DEF Notify_send, target
  <2>4. CASE /\ peer[to[w]] # NoClient
             /\ inbox' = [inbox EXCEPT ![peer[to[w]]] = @ \cup {luser[w]}]
    <3> SUFFICES ASSUME NEW c \in Clients, NEW v \in inbox'[c]
                 PROVE  \E f \in Fds : c \in held'[f] /\ HeldAfter(v, f)
      BY DEF MailOK, Held, HeldAfter
    <3>1. v \in inbox[c] \/ (c = peer[to[w]] /\ v = luser[w])
      BY <2>4 DEF TypeOK
    <3> QED
      BY <1>1, <2>1, <2>2, <2>4, <3>1
  <2> QED
    BY <1>2, <2>3, <2>4
<1>4. CASE UNCHANGED vars
  BY <1>2, <1>4 DEF vars, clientVars
<1>5. CASE Client \/ Master
  BY <1>2, <1>5
  DEF Client, Master, Quit, Connect, accept_client, distribute_worker, make_queue, clientVars
<1>6. ASSUME NEW w \in Workers, Read(w)
      PROVE  MailOK'
  BY <1>2, <1>6 DEF Read, ReadEof, ReadFrames, clientVars
<1>7. ASSUME NEW w \in Workers, Serve(w)
      PROVE  MailOK'
  BY <1>2, <1>3, <1>7
  DEF Serve, HeartOk, HeartTimeout, adduser, addUser, bindFd, OtherFrame, Send_msg, dispatch,
      Notify_count, remove_erase, removeUser_name, removeUser_users,
      removeUser_fds, remove_close, clientVars
<1> QED
  BY <1>4, <1>5, <1>6, <1>7 DEF Next

\* The four together, with what a sole session has.
NumbersInv == TypeOK /\ LocalsOK /\ HeldOK /\ NamesOK /\ MailOK /\ SoleSessionReachable

\* If the table did and does lead to f, unless the session was beginning or ending.
LEMMA SoleStep ==
  ASSUME NumbersInv, [Next]_vars
  PROVE  SoleSessionReachable'
<1> SUFFICES ASSUME NEW f \in Fds, NEW c, c = peer'[f], c \in logged',
                    \A d \in logged' : who'[d] = who'[c] => d = c,
                    \A w \in Workers : me'[w] = c => pc'[w] # "addUser",
                    \A w \in Workers : pc'[w] \in Removing => lfd'[w] # f
             PROVE  users'[who'[c]] = f
  BY DEF SoleSessionReachable
<1> USE DEF NumbersInv, clientVars, tableVars, masterVars, localVars, historyVars
<1>0. TypeOK' /\ LocalsOK' /\ HeldOK' /\ NamesOK'
  BY TypeStep, LocalsStep, HeldStep, NamesStep
<1>1. c \in Clients /\ c # NoClient /\ c \in held'[f] /\ logged' \subseteq Clients
  BY <1>0, SessionsAssumption DEF TypeOK, HeldOK
<1>2. \A g \in Fds : c \in held'[g] => g = f
  BY <1>0, <1>1 DEF HeldOK
<1>3. /\ \A d \in Clients : cl[d] # "out" => who'[d] = who[d]
      /\ \A g \in Fds : held[g] \subseteq held'[g] /\ \A d \in held[g] : Known(d)
      /\ logged \subseteq logged'
  BY HistoryStays DEF HeldOK
\* What is under a name of the account is under f.
<1>4. ASSUME NEW g \in Fds, HeldAfter(who'[c], g)
      PROVE  g = f
  BY <1>1, <1>2, <1>4 DEF HeldAfter
<1>5. ASSUME c \in logged, peer[f] = c,
             \A w \in Workers : me[w] = c => pc[w] # "addUser",
             \A w \in Workers : pc[w] \in Removing => lfd[w] # f
      PROVE  users[who'[c]] = f /\ who'[c] = who[c]
  <2>1. \E g \in Fds : c \in held[g]
    BY <1>5 DEF NamesOK
  <2>2. cl[c] # "out"
    BY <2>1, <1>3 DEF Known
  <2>3. who'[c] = who[c]
    BY <1>1, <1>3, <2>2
  <2>4. ASSUME NEW d \in logged, who[d] = who[c]
        PROVE  d = c
    <3>1. cl[d] # "out" /\ d \in Clients
      BY <1>1, <1>3 DEF NamesOK, Known
    <3> QED
      BY <1>3, <2>3, <2>4, <3>1
  <2> QED
    BY <1>5, <2>3, <2>4 DEF SoleSessionReachable
<1>6. ASSUME NEW w \in Workers,
             \A v \in Workers : v # w => pc'[v] = pc[v] /\ lfd'[v] = lfd[v] /\ me'[v] = me[v],
             c \in logged, peer[f] = c, me[w] = c => pc[w] # "addUser",
             pc[w] \in Removing => lfd[w] # f
      PROVE  users[who'[c]] = f /\ who'[c] = who[c]
  BY <1>5, <1>6
<1>7. c \in logged => c \notin backlog
  BY DEF NamesOK, HeldOK
<1>8. CASE UNCHANGED <<peer, pc, me, lfd, users, logged>>
  BY <1>5, <1>8
<1>9. CASE UNCHANGED vars \/ Client
  BY <1>8, <1>9 DEF vars, Client, Quit, Connect
<1>10. CASE Master
  <2>1. ASSUME NEW d \in Clients, NEW g \in Fds, accept_client(d, g)
        PROVE  users'[who'[c]] = f
    <3>1. d \in backlog /\ peer' = [peer EXCEPT ![g] = d] /\ UNCHANGED <<pc, me, lfd, users, logged>>
      BY <2>1 DEF accept_client
    <3>2. g # f
      BY <1>1, <1>7, <3>1 DEF TypeOK
    <3>3. peer[f] = c
      BY <3>1, <3>2 DEF TypeOK
    <3> QED
      BY <1>5, <3>1, <3>3
  <2> QED
    BY <1>8, <1>10, <2>1 DEF Master, distribute_worker, make_queue
<1>11. ASSUME NEW w \in Workers, Read(w)
       PROVE  users'[who'[c]] = f
  <2>1. /\ \A v \in Workers : v # w => pc'[v] = pc[v] /\ lfd'[v] = lfd[v] /\ me'[v] = me[v]
        /\ pc[w] = "idle" /\ UNCHANGED <<peer, users, logged>>
    BY <1>11 DEF TypeOK, Read, ReadEof, ReadFrames
  <2> QED
    BY <1>6, <2>1 DEF Removing
<1>12. ASSUME NEW w \in Workers, Serve(w)
       PROVE  users'[who'[c]] = f
  <2>1. CASE HeartOk(w) \/ HeartTimeout(w)
    <3>1. /\ \A v \in Workers : v # w => pc'[v] = pc[v] /\ lfd'[v] = lfd[v] /\ me'[v] = me[v]
          /\ pc[w] = "heart" /\ UNCHANGED <<users, logged>>
      BY <2>1 DEF TypeOK, HeartOk, HeartTimeout
    <3>2. peer'[f] # NoClient => peer[f] = peer'[f]
      BY <2>1 DEF TypeOK, HeartOk, HeartTimeout, close
    <3> QED
      BY <1>1, <1>6, <3>1, <3>2 DEF Removing
  <2>2. CASE adduser(w)
    <3>1. /\ \A v \in Workers : v # w => pc'[v] = pc[v] /\ lfd'[v] = lfd[v] /\ me'[v] = me[v]
          /\ pc[w] = "frame" /\ pc'[w] = "addUser" /\ me'[w] = me[w]
          /\ logged' = logged \cup {me[w]} /\ UNCHANGED <<users, peer>>
      BY <2>2 DEF TypeOK, adduser
    <3> QED
      BY <1>6, <3>1 DEF Removing
  <2>3. CASE addUser(w)
    <3>1. /\ \A v \in Workers : v # w => pc'[v] = pc[v] /\ lfd'[v] = lfd[v] /\ me'[v] = me[v]
          /\ pc[w] = "addUser" /\ pc'[w] = "bindFd" /\ UNCHANGED <<peer, logged, who, held>>
          /\ users' = [users EXCEPT ![who[me[w]]] = lfd[w]]
      BY <2>3 DEF TypeOK, addUser
    <3>2. /\ me[w] \in held[lfd[w]] /\ lfd[w] \in Fds /\ me[w] \in logged
          /\ who[me[w]] \in Users
      BY <3>1 DEF HeldOK, LocalsOK, NamesOK, Handling
    <3>3. users'[who[me[w]]] = lfd[w]
          /\ \A u \in Users : u # who[me[w]] => users'[u] = users[u]
      BY <3>1, <3>2 DEF TypeOK
    <3>4. CASE me[w] = c
      BY <1>2, <3>1, <3>2, <3>3, <3>4
    <3>5. CASE me[w] # c
      <4>1. who[me[w]] # who[c] /\ who[c] \in Users
        BY <3>1, <3>2, <3>5 DEF NamesOK
      <4> QED
        BY <1>6, <3>1, <3>3, <3>5, <4>1 DEF Removing
    <3> QED
      BY <3>4, <3>5
  <2>4. CASE \/ bindFd(w) \/ OtherFrame(w) \/ (\E v \in Users : Send_msg(w, v))
             \/ dispatch(w) \/ Notify_count(w) \/ Notify_send(w)
    <3>1. \A v \in Workers : v # w => pc'[v] = pc[v] /\ lfd'[v] = lfd[v] /\ me'[v] = me[v]
      <4>1. FrameDone(w) \/ (UNCHANGED <<lfd, me>> /\ \E label : pc' = [pc EXCEPT ![w] = label])
        BY <2>4 DEF bindFd, OtherFrame, Send_msg, dispatch, Notify_count, Notify_send
      <4> QED
        BY <4>1, FrameEffect DEF TypeOK
    <3>2. /\ pc[w] \in {"bindFd", "frame", "route", "count", "deref"}
          /\ UNCHANGED <<peer, users, logged>>
      BY <2>4 DEF bindFd, OtherFrame, Send_msg, dispatch, Notify_count, Notify_send
    <3> QED
      BY <1>6, <3>1, <3>2 DEF Removing
  <2>5. CASE remove_erase(w) \/ removeUser_name(w) \/ removeUser_fds(w)
    <3>1. /\ \A v \in Workers : v # w => pc'[v] = pc[v] /\ lfd'[v] = lfd[v] /\ me'[v] = me[v]
          /\ pc[w] \in Removing /\ pc'[w] \in Removing /\ lfd'[w] = lfd[w]
          /\ UNCHANGED <<peer, users, logged>>
      BY <2>5
      DEF TypeOK, remove_erase, removeUser_name, removeUser_fds, RemoveGoto, removal, Removing
    <3> QED
      BY <1>6, <3>1 DEF Removing
  <2>6. CASE removeUser_users(w)
    <3>1. /\ \A v \in Workers : v # w => pc'[v] = pc[v] /\ lfd'[v] = lfd[v] /\ me'[v] = me[v]
          /\ pc[w] = "unuser" /\ pc'[w] \in Removing /\ lfd'[w] = lfd[w]
          /\ UNCHANGED <<peer, logged, who, held>>
          /\ users' = erase_user(luser[w])
      BY <2>6
      DEF TypeOK, removeUser_users, RemoveGoto, removal, Removing
    <3>2. lfd[w] # f /\ lfd[w] \in Fds
      BY <3>1 DEF LocalsOK
    <3>3. who[c] \in Users /\ who[c] # NoUser
      BY <3>1, SessionsAssumption DEF NamesOK
    <3>4. luser[w] # who[c]
      <4>1. ASSUME luser[w] = who[c]
            PROVE  FALSE
        <5>1. Held(who[c], lfd[w])
          BY <3>1, <3>3, <4>1 DEF NamesOK
        <5>2. HeldAfter(who'[c], lfd[w])
          BY <3>1, <3>2, <5>1, HeldStays
        <5> QED
          BY <1>4, <3>2, <5>2
      <4> QED
        BY <4>1
    <3>5. users'[who[c]] = users[who[c]]
      BY <3>1, <3>3, <3>4 DEF erase_user
    <3> QED
      BY <1>6, <3>1, <3>2, <3>5 DEF Removing
  <2>7. CASE remove_close(w)
    <3>1. /\ \A v \in Workers : v # w => pc'[v] = pc[v] /\ lfd'[v] = lfd[v] /\ me'[v] = me[v]
          /\ pc[w] = "close" /\ UNCHANGED <<users, logged>>
          /\ peer' = [peer EXCEPT ![lfd[w]] = NoClient]
      BY <2>7 DEF TypeOK, remove_close, close, RemoveGoto, removal
    <3>2. lfd[w] # f /\ peer[f] = c
      BY <1>1, <3>1 DEF TypeOK
    <3> QED
      BY <1>6, <3>1, <3>2
  <2> QED
    BY <1>12, <2>1, <2>2, <2>3, <2>4, <2>5, <2>6, <2>7 DEF Serve
<1> QED
  BY <1>9, <1>10, <1>11, <1>12 DEF Next

LEMMA NumbersInit == Init => NumbersInv
<1> SUFFICES ASSUME Init PROVE NumbersInv
  OBVIOUS
<1>1. TypeOK
  BY TypeInit
<1>2. LocalsOK
  BY NoWorkerIsNone DEF Init, LocalsOK, Handling
<1>3. HeldOK
  BY DEF Init, HeldOK, Handling
<1>4. NamesOK
  BY DEF Init, NamesOK
<1>5. MailOK
  BY DEF Init, MailOK
<1>6. SoleSessionReachable
  BY DEF Init, SoleSessionReachable
<1> QED
  BY <1>1, <1>2, <1>3, <1>4, <1>5, <1>6 DEF NumbersInv

\* In every reachable state every reference to a connection, an account or a
\* message under a descriptor number is to one that had the number at some time,
\* silent connections that are closed by checkHeart (connection.cc:1571) included.
THEOREM NumbersCorrect == Spec => []NumbersInv
<1>1. Init => NumbersInv
  BY NumbersInit
<1>2. NumbersInv /\ [Next]_vars => NumbersInv'
  <2> SUFFICES ASSUME NumbersInv, [Next]_vars PROVE NumbersInv'
    OBVIOUS
  <2>1. TypeOK' /\ LocalsOK' /\ HeldOK'
    BY TypeStep, LocalsStep, HeldStep DEF NumbersInv
  <2>2. NamesOK' /\ MailOK' /\ SoleSessionReachable'
    BY NamesStep, MailStep, SoleStep DEF NumbersInv
  <2> QED
    BY <2>1, <2>2 DEF NumbersInv
<1> QED
  BY <1>1, <1>2, PTL DEF Spec

\* A private message reaches somebody else than its addressee only if the number
\* changed hands after the look-up in users (connection.cc:1462-1483).
THEOREM MisroutedCorrect == Spec => []MisroutedByReuseOnly
<1>1. NumbersInv => MisroutedByReuseOnly
  <2> SUFFICES ASSUME NumbersInv, NEW c \in Clients, NEW v \in inbox[c]
               PROVE  \E f \in Fds, d \in Clients : {c, d} \subseteq held[f] /\ who[d] = v
    BY DEF MisroutedByReuseOnly
  <2>1. PICK f \in Fds : c \in held[f] /\ Held(v, f)
    BY DEF NumbersInv, MailOK
  <2>2. PICK d \in logged : d \in held[f] /\ who[d] = v
    BY <2>1 DEF Held
  <2> QED
    BY <2>1, <2>2 DEF NumbersInv, TypeOK
<1> QED
  BY <1>1, NumbersCorrect, PTL

\* The only connection that ever logs in to an account keeps it, whatever is
\* silent, torn down or reused around it (connection.cc:1304-1316).
THEOREM SoleSessionCorrect == Spec => []SoleSessionReachable
<1>1. NumbersInv => SoleSessionReachable
  BY DEF NumbersInv
<1> QED
  BY <1>1, NumbersCorrect, PTL
=============================================================================
