------------------------------ MODULE Presence ------------------------------
(***************************************************************************)
(* What the presence table of the chat server promises, without file       *)
(* descriptors, threads or sockets.  A client connects as one account,     *)
(* the table routes each account to at most one client, and                *)
(*   - an account is only ever routed to a connected client that           *)
(*     logged in as that account, and                                      *)
(*   - a client's socket is given back only when nothing is routed to it.  *)
(* Sessions.tla is the program; it implements this module as long as no    *)
(* connection falls silent for longer than TIME_OUT.                       *)
(***************************************************************************)
CONSTANTS Clients, Users, NoClient, NoUser

VARIABLES
    name,    \* the account a client authenticated as, NoUser before that
    live,    \* the clients whose socket the server holds open
    route    \* the client messages for an account are sent to, or NoClient

vars == <<name, live, route>>

Init ==
    /\ name = [c \in Clients |-> NoUser]
    /\ live = {}
    /\ route = [u \in Users |-> NoClient]

\* A client process starts its chat socket for account u; the connection of
\* the heartbeat process stays anonymous (u = NoUser).
Arrive(c, u) ==
    /\ c \notin live
    /\ name' = [name EXCEPT ![c] = u]
    /\ UNCHANGED <<live, route>>

Open(c) ==
    /\ live' = live \cup {c}
    /\ UNCHANGED <<name, route>>

Register(c) ==
    /\ c \in live
    /\ name[c] \in Users
    /\ route' = [route EXCEPT ![name[c]] = c]
    /\ UNCHANGED <<name, live>>

Unregister(u) ==
    /\ route' = [route EXCEPT ![u] = NoClient]
    /\ UNCHANGED <<name, live>>

Close(c) ==
    /\ c \in live
    /\ \A u \in Users : route[u] # c
    /\ live' = live \ {c}
    /\ UNCHANGED <<name, route>>

Next ==
    \/ \E c \in Clients, u \in Users \cup {NoUser} : Arrive(c, u)
    \/ \E c \in Clients : Open(c) \/ Register(c) \/ Close(c)
    \/ \E u \in Users : Unregister(u)

Spec == Init /\ [][Next]_vars

\* A routed account leads to a connected client that logged in as it.
RouteIsLive ==
    \A u \in Users :
        route[u] # NoClient => /\ route[u] \in live
                               /\ name[route[u]] = u
=============================================================================
