------------------------------- MODULE Friends -------------------------------
(***************************************************************************)
(* Friends: the friend sets, the requests a user has to decide and the     *)
(* notices that wait for a user who is offline (all in Redis), the         *)
(* handlers of connection.cc that use them, and the caches of the client   *)
(* from which its menus decide what may be sent.                           *)
(*                                                                         *)
(* As in Groups a handler is a program of commands: one RedisClient call,  *)
(* one look-up in the table users, or one message to a client.  An account *)
(* has one connection at a time here, and presence is the set of accounts  *)
(* users has an entry for; Sessions says how far that table can be trusted.*)
(***************************************************************************)
EXTENDS Naturals, Sequences, FiniteSets, SequencesExt

CONSTANTS
    Users,        \* account names
    WORKER,       \* worker threads, and so handlers that run at a time
    MaxLogins,    \* bound: logins
    MaxRequests,  \* bound: choices made in the menus
    Pending,      \* bound: the requests Redis holds when the server starts
    NoUser

ASSUME FriendsAssumption ==
    /\ IsFiniteSet(Users)
    /\ WORKER \in Nat \ {0}
    /\ Pending \in [Users -> SUBSET Users]
    /\ MaxLogins \in Nat
    /\ MaxRequests \in Nat
    /\ NoUser \notin Users

VARIABLES
    \* Redis
    account,      \* accounts that exist
    friends,      \* user:Friend:<name>
    requests,     \* requeset:Friend:<name>, by whom
    response,     \* requeset:Response:<name>: notices, keyed by their text
    \* the server
    online,       \* accounts with an entry in users
    todo,         \* what is left of the handler that serves a user
    frames,       \* programs of the frames a client has sent
    \* the client
    up,           \* accounts whose client runs
    chan,         \* messages on their way to it
    cache, friend_res, friends_block, friends_by_block,
    \* history: who asked whom, who accepted whom; pairs befriended and
    \* separated at the same time; notices filed and not yet sent, with
    \* whether users had an entry for the addressee when they were filed
    asked, accepted, mixed, filed,
    logins, served  \* logins and choices made

redisVars == <<account, friends, requests, response>>
clientVars == <<up, cache, friend_res, friends_block, friends_by_block>>
historyVars == <<asked, accepted, mixed, filed>>
vars == <<redisVars, online, todo, frames, chan, clientVars, historyVars, logins, served>>

\* The texts that are stored for a user who is offline, without their colours.
Kinds == {"request", "accepted", "refused", "deleted", "gone", "message",
          "block", "unblock"}
Notices == Kinds \X Users

\* A message of the server: about is what it lists.
Messages ==
    [kind : Kinds, from : Users, about : {{}}]
    \cup [kind : {"LOGINLIST", "FDLIST", "USERNTF"}, from : Users, about : SUBSET Users]
    \cup [kind : {"RESPONSE"}, from : Users, about : SUBSET Notices]

Commands ==
    {"addUser", "users", "dispatch", "getFields", "getHash", "setUserGroups",
     "removeUserGroups", "setResKey", "deleteHash", "deleteHashMember",
     "deleteHashMembers", "deleteHashKey"}

TypeOK ==
    /\ account \subseteq Users
    /\ friends \in [Users -> SUBSET Users]
    /\ requests \in [Users -> SUBSET Users]
    /\ response \in [Users -> SUBSET Notices]
    /\ online \subseteq Users
    /\ up \subseteq Users
    /\ \A u \in Users :
          /\ \A i \in DOMAIN todo[u] : todo[u][i].cmd \in Commands
          /\ \A i \in DOMAIN chan[u] : chan[u][i] \in Messages
    /\ cache \in [Users -> SUBSET Users]
    /\ friend_res \in [Users -> SUBSET Users]
    /\ friends_block \in [Users -> SUBSET Users]
    /\ friends_by_block \in [Users -> SUBSET Users]
    /\ asked \subseteq Users \X Users
    /\ accepted \subseteq Users \X Users
    /\ mixed \subseteq SUBSET Users
    /\ filed \subseteq Users \X Notices \X BOOLEAN
    /\ logins \in 0 .. MaxLogins
    /\ served \in 0 .. MaxRequests

\* A server that starts finds friendships and open requests in Redis.
Init ==
    /\ account = Users
    /\ friends \in {r \in [Users -> SUBSET Users] :
                      \A u, v \in Users : u \notin r[u] /\ (v \in r[u] <=> u \in r[v])}
    /\ requests = Pending
    /\ response = [u \in Users |-> {}]
    /\ online = {} /\ up = {}
    /\ todo = [u \in Users |-> << >>]
    /\ frames = [u \in Users |-> << >>]
    /\ chan = [u \in Users |-> << >>]
    /\ cache = [u \in Users |-> {}]
    /\ friend_res = [u \in Users |-> {}]
    /\ friends_block = [u \in Users |-> {}]
    /\ friends_by_block = [u \in Users |-> {}]
    /\ asked = {p \in Users \X Users : p[1] \in requests[p[2]]}
    /\ accepted = {} /\ mixed = {} /\ filed = {}
    /\ logins = 0 /\ served = 0

-----------------------------------------------------------------------------
(* Programs.                                                               *)

Message(kind, u, about) == [kind |-> kind, from |-> u, about |-> about]
Cmd(cmd) == [cmd |-> cmd]
On(cmd, x, y) == [cmd |-> cmd, who |-> x, other |-> y]
Read(cmd, x, kind) == [cmd |-> cmd, who |-> x, kind |-> kind]
File(name, x, notice) == [cmd |-> "setResKey", name |-> name, who |-> x, notice |-> notice]
Dispatch(x, m) == [cmd |-> "dispatch", who |-> x, msg |-> m]

\* users[x]: on for an entry, off for none.
Lookup(x, on, off) == [cmd |-> "users", who |-> x, on |-> on, off |-> off]

\* Tell x: at once when it is online, at its next login when it is not.
Notify(u, x, kind) ==
    Lookup(x, << Dispatch(x, Message(kind, u, {})) >>,
              << File("Response", x, << kind, u >>) >>)

adduser_program_reads_first(u) ==
    << Read("getHash", u, "RESPONSE"), Cmd("addUser"),
       Read("getFields", u, "LOGINLIST"), Cmd("deleteHash") >>

\* The lists, then the notices; what has been sent is deleted.
adduser_program(u) ==
    << Cmd("addUser"), Read("getFields", u, "LOGINLIST"),
       Read("getHash", u, "RESPONSE"), Cmd("deleteHash") >>

send_addFriend_program_swapped(u, x) ==
    << Lookup(x, << File("Friend", u, x), Dispatch(x, Message("request", u, {})) >>,
                 << File("Response", x, << "request", u >>), File("Friend", u, x) >>) >>

\* For a name without an account u is told so, and the rest happens as well.
send_addFriend_program(u, x) ==
    << Lookup(x, << File("Friend", x, u), Dispatch(x, Message("request", u, {})) >>,
                 << File("Response", x, << "request", u >>), File("Friend", x, u) >>) >>

addFriend_program(u, x, decide) ==
    IF decide
    THEN << On("setUserGroups", u, x), On("setUserGroups", x, u), Notify(u, x, "accepted") >>
    ELSE << Notify(u, x, "refused") >>

Delete_notify_program(u, x) == << On("deleteHashMember", u, x) >>

send_user_notify_program(u) == << Read("getHash", u, "USERNTF") >>

send_List_program(u) == << Read("getFields", u, "FDLIST") >>

deleteFriend_one_side(u, x) ==
    << On("removeUserGroups", u, x), On("removeUserGroups", u, x) >>
deleteFriend(u, x) ==
    << On("removeUserGroups", u, x), On("removeUserGroups", x, u) >>

Send_delete_friend_program(u, x) == deleteFriend(u, x) \o << Notify(u, x, "deleted") >>

Send_msg_program(u, x) == << Notify(u, x, "message") >>
block_program(u, x) == << Notify(u, x, "block") >>
unblock_program(u, x) == << Notify(u, x, "unblock") >>

\* The friends the client named, in the order it named them.
del_account_program(u, order) ==
    LET each(x) == deleteFriend(u, x) \o << Notify(u, x, "gone") >>
        n == 3 * Len(order)
    IN [i \in 1 .. n + 2 |->
          IF i <= n THEN each(order[(i + 2) \div 3])[1 + ((i + 2) % 3)]
          ELSE Cmd(IF i = n + 1 THEN "deleteHashMembers" ELSE "deleteHashKey")]
-----------------------------------------------------------------------------
(* The client.                                                             *)

\* A choice in a menu of u's client sends these frames.  Bound: not before the
\* server has taken those of the choice before.
Request(u, programs) ==
    /\ served < MaxRequests
    /\ frames[u] = << >>
    /\ served' = served + 1
    /\ frames' = [frames EXCEPT ![u] = programs]
    /\ UNCHANGED <<redisVars, online, todo, logins>>

login(u) ==
    /\ logins < MaxLogins
    /\ u \in account \ up
    /\ u \notin online /\ todo[u] = << >> /\ frames[u] = << >>
    /\ logins' = logins + 1
    /\ frames' = [frames EXCEPT ![u] = << adduser_program(u) >>]
    /\ up' = up \cup {u}
    /\ UNCHANGED <<redisVars, online, todo, chan, cache, friend_res, friends_block,
                   friends_by_block, historyVars, served>>

\* The process ends, and its caches with it.
Exit(u) ==
    /\ up' = up \ {u}
    /\ chan' = [chan EXCEPT ![u] = << >>]
    /\ cache' = [cache EXCEPT ![u] = {}]
    /\ friend_res' = [friend_res EXCEPT ![u] = {}]
    /\ friends_block' = [friends_block EXCEPT ![u] = {}]
    /\ friends_by_block' = [friends_by_block EXCEPT ![u] = {}]

quit(u) ==
    /\ u \in up
    /\ Exit(u)
    /\ UNCHANGED <<redisVars, online, todo, frames, historyVars, logins, served>>

send_add_friend(u, x) ==
    /\ u \in up
    /\ x # u /\ x \notin cache[u]
    /\ Request(u, << send_addFriend_program(u, x) >>)
    /\ asked' = asked \cup {<< u, x >>}
    /\ UNCHANGED <<chan, clientVars, accepted, mixed, filed>>

handleReq(u) ==
    /\ u \in up
    /\ Request(u, << send_user_notify_program(u) >>)
    /\ UNCHANGED <<chan, clientVars, historyVars>>

\* friend_res keeps the names that have been decided.
decide_add_friend(u, x, select) ==
    /\ u \in up
    /\ x \in friend_res[u]
    /\ Request(u, (IF select = "drop" THEN << >>
                   ELSE << addFriend_program(u, x, select = "accept") >>)
                  \o << Delete_notify_program(u, x) >>)
    /\ cache' = [cache EXCEPT ![u] = IF select = "accept" THEN @ \cup {x} ELSE @]
    /\ UNCHANGED <<chan, up, friend_res, friends_block, friends_by_block, historyVars>>

send_delete_friend(u, x) ==
    /\ u \in up
    /\ x \in cache[u]
    /\ Request(u, << Send_delete_friend_program(u, x) >>)
    /\ cache' = [cache EXCEPT ![u] = @ \ {x}]
    /\ UNCHANGED <<chan, up, friend_res, friends_block, friends_by_block, historyVars>>

send_List(u) ==
    /\ u \in up
    /\ Request(u, << send_List_program(u) >>)
    /\ UNCHANGED <<chan, clientVars, historyVars>>

send_msg(u, x) ==
    /\ u \in up
    /\ x \in cache[u] \ friends_by_block[u]
    /\ Request(u, << Send_msg_program(u, x) >>)
    /\ UNCHANGED <<chan, clientVars, historyVars>>

block_friend(u, x) ==
    /\ u \in up
    /\ x \in cache[u] \ friends_block[u]
    /\ Request(u, << block_program(u, x) >>)
    /\ friends_block' = [friends_block EXCEPT ![u] = @ \cup {x}]
    /\ UNCHANGED <<chan, up, cache, friend_res, friends_by_block, historyVars>>

\* The name is erased from friends_block and inserted again.
unblock_friend(u, x) ==
    /\ u \in up
    /\ x \in cache[u] \cap friends_block[u]
    /\ Request(u, << unblock_program(u, x) >>)
    /\ UNCHANGED <<chan, clientVars, historyVars>>

\* The client names the friends it knows of, and exits.
del_account(u) ==
    /\ u \in up
    /\ \E order \in SetToSeqs(cache[u]) : Request(u, << del_account_program(u, order) >>)
    /\ Exit(u)
    /\ UNCHANGED historyVars

\* What the messages do to the caches.  Of the stored notices only that of a
\* block is recognised: for the other the client looks for a text in red that
\* the server writes in green.
Befriended_by_notices(m) ==
    IF m.kind \in {"LOGINLIST", "FDLIST", "RESPONSE"} THEN m.about
    ELSE IF m.kind = "accepted" THEN {m.from} ELSE {}

Befriended(m) ==
    IF m.kind \in {"LOGINLIST", "FDLIST"} THEN m.about
    ELSE IF m.kind = "accepted" THEN {m.from} ELSE {}
Separated(m) == IF m.kind = "deleted" \/ m.kind = "gone" THEN {m.from} ELSE {}
Blockers(m) ==
    IF m.kind = "RESPONSE" THEN {x \in Users : << "block", x >> \in m.about}
    ELSE IF m.kind = "block" THEN {m.from} ELSE {}
Unblockers(m) == IF m.kind = "unblock" THEN {m.from} ELSE {}

receive(u) ==
    /\ u \in up
    /\ chan[u] # << >>
    /\ LET m == Head(chan[u]) IN
        /\ cache' = [cache EXCEPT ![u] = (@ \cup Befriended(m)) \ Separated(m)]
        /\ friends_block' = [friends_block EXCEPT ![u] = @ \ Separated(m)]
        /\ friends_by_block' = [friends_by_block EXCEPT ![u] =
                (@ \cup (Blockers(m) \cap cache[u])) \ (Unblockers(m) \cap cache[u])]
        /\ friend_res' = [friend_res EXCEPT ![u] =
                @ \cup IF m.kind = "USERNTF" THEN m.about ELSE {}]
    /\ chan' = [chan EXCEPT ![u] = Tail(@)]
    /\ UNCHANGED <<redisVars, online, todo, frames, up, historyVars, logins, served>>

-----------------------------------------------------------------------------
(* The server: frames.                                                     *)

Busy(u) == todo[u] # << >>

readMessage(u) ==
    /\ ~Busy(u) /\ frames[u] # << >>
    /\ Cardinality({v \in Users : Busy(v)}) < WORKER
    /\ todo' = [todo EXCEPT ![u] = Head(frames[u])]
    /\ frames' = [frames EXCEPT ![u] = Tail(@)]
    /\ UNCHANGED <<redisVars, online, chan, clientVars, historyVars, logins, served>>

\* A descriptor that has been looked up leads nowhere once it is closed.
Closed(x, program) ==
    [i \in DOMAIN program |->
        IF program[i].cmd = "dispatch" /\ program[i].who = x
        THEN [program[i] EXCEPT !.who = NoUser] ELSE program[i]]

\* End of file, after the frames that were read before it or along with
\* frames that are dropped.
removeUser(u) ==
    /\ u \notin up
    /\ u \in online \/ frames[u] # << >>
    /\ ~Busy(u)
    /\ online' = online \ {u}
    /\ frames' = [frames EXCEPT ![u] = << >>]
    /\ todo' = [v \in Users |-> Closed(u, todo[v])]
    /\ UNCHANGED <<redisVars, chan, clientVars, historyVars, logins, served>>

-----------------------------------------------------------------------------
(* The server: commands.                                                   *)

Now(u) == Head(todo[u])
Doing(u, cmd) == Busy(u) /\ Now(u).cmd = cmd

\* The handler goes on, with these commands first.
GoOn(u, first) ==
    /\ todo' = [todo EXCEPT ![u] = first \o Tail(@)]
    /\ UNCHANGED <<frames, clientVars, logins, served>>

addUser(u) ==
    /\ Doing(u, "addUser")
    /\ online' = online \cup {u}
    /\ GoOn(u, << >>)
    /\ UNCHANGED <<redisVars, chan, historyVars>>

users(u) ==
    /\ Doing(u, "users")
    /\ GoOn(u, IF Now(u).who \in online THEN Now(u).on ELSE Now(u).off)
    /\ UNCHANGED <<redisVars, online, chan, historyVars>>

\* What the client only prints is not followed any further.
Printed == {"request", "refused", "message"}

dispatch(u) ==
    LET x == Now(u).who m == Now(u).msg IN
    /\ Doing(u, "dispatch")
    /\ chan' = [v \in Users |->
                   IF v = x /\ v \in up /\ m.kind \notin Printed THEN Append(chan[v], m)
                   ELSE chan[v]]
    /\ filed' = {f \in filed : ~(m.kind = "RESPONSE" /\ f[1] = u /\ f[2] \in m.about)}
    /\ GoOn(u, << >>)
    /\ UNCHANGED <<redisVars, online, asked, accepted, mixed>>

getFields(u) ==
    /\ Doing(u, "getFields")
    /\ GoOn(u, << Dispatch(u, Message(Now(u).kind, u, friends[Now(u).who])) >>)
    /\ UNCHANGED <<redisVars, online, chan, historyVars>>

getHash(u) ==
    LET kind == Now(u).kind
        all == IF kind = "USERNTF" THEN requests[Now(u).who] ELSE response[Now(u).who]
    IN
    /\ Doing(u, "getHash")
    /\ GoOn(u, << Dispatch(u, Message(kind, u, all)) >>)
    /\ UNCHANGED <<redisVars, online, chan, historyVars>>

\* Someone else is about to write the other way to the same pair.
Meets(u, cmd) ==
    \E v \in Users \ {u} : \E i \in DOMAIN todo[v] :
        /\ todo[v][i].cmd = cmd
        /\ {todo[v][i].who, todo[v][i].other} = {Now(u).who, Now(u).other}
Pair(u) == {Now(u).who, Now(u).other}

setUserGroups(u) ==
    /\ Doing(u, "setUserGroups")
    /\ friends' = [friends EXCEPT ![Now(u).who] = @ \cup {Now(u).other}]
    /\ accepted' = IF Now(u).who = u THEN accepted \cup {<< u, Now(u).other >>} ELSE accepted
    /\ mixed' = IF Meets(u, "removeUserGroups") THEN mixed \cup {Pair(u)} ELSE mixed
    /\ GoOn(u, << >>)
    /\ UNCHANGED <<account, requests, response, online, chan, asked, filed>>

removeUserGroups(u) ==
    /\ Doing(u, "removeUserGroups")
    /\ friends' = [friends EXCEPT ![Now(u).who] = @ \ {Now(u).other}]
    /\ mixed' = IF Meets(u, "setUserGroups") THEN mixed \cup {Pair(u)} ELSE mixed
    /\ GoOn(u, << >>)
    /\ UNCHANGED <<account, requests, response, online, chan, asked, accepted, filed>>

setResKey(u) ==
    LET x == Now(u).who n == Now(u).notice IN
    /\ Doing(u, "setResKey")
    /\ IF Now(u).name = "Friend"
       THEN /\ requests' = [requests EXCEPT ![x] = @ \cup {n}]
            /\ UNCHANGED <<response, filed>>
       ELSE /\ response' = [response EXCEPT ![x] = @ \cup {n}]
            /\ filed' = filed \cup {<< x, n, x \in online >>}
            /\ UNCHANGED requests
    /\ GoOn(u, << >>)
    /\ UNCHANGED <<account, friends, online, chan, asked, accepted, mixed>>

deleteHash(u) ==
    /\ Doing(u, "deleteHash")
    /\ response' = [response EXCEPT ![u] = {}]
    /\ GoOn(u, << >>)
    /\ UNCHANGED <<account, friends, requests, online, chan, historyVars>>

deleteHashMember(u) ==
    /\ Doing(u, "deleteHashMember")
    /\ requests' = [requests EXCEPT ![Now(u).who] = @ \ {Now(u).other}]
    /\ GoOn(u, << >>)
    /\ UNCHANGED <<account, friends, response, online, chan, historyVars>>

deleteHashMembers(u) ==
    /\ Doing(u, "deleteHashMembers")
    /\ requests' = [requests EXCEPT ![u] = {}]
    /\ GoOn(u, << >>)
    /\ UNCHANGED <<account, friends, response, online, chan, historyVars>>

deleteHashKey(u) ==
    /\ Doing(u, "deleteHashKey")
    /\ account' = account \ {u}
    /\ GoOn(u, << >>)
    /\ UNCHANGED <<friends, requests, response, online, chan, historyVars>>

-----------------------------------------------------------------------------
Menu(u) ==
    \/ login(u) \/ quit(u) \/ receive(u)
    \/ handleReq(u) \/ send_List(u) \/ del_account(u)
    \/ \E x \in Users :
        \/ send_add_friend(u, x) \/ send_delete_friend(u, x) \/ send_msg(u, x)
        \/ block_friend(u, x) \/ unblock_friend(u, x)
        \/ \E select \in {"accept", "refuse", "drop"} : decide_add_friend(u, x, select)

Handler(u) ==
    \/ readMessage(u) \/ removeUser(u)
    \/ addUser(u) \/ users(u) \/ dispatch(u) \/ getFields(u) \/ getHash(u)
    \/ setUserGroups(u) \/ removeUserGroups(u) \/ setResKey(u) \/ deleteHash(u)
    \/ deleteHashMember(u) \/ deleteHashMembers(u) \/ deleteHashKey(u)

Next == \E u \in Users : Menu(u) \/ Handler(u)

Spec == Init /\ [][Next]_vars
-----------------------------------------------------------------------------
(* Properties.                                                             *)

\* A notice that is filed while its addressee has no entry in users stays in
\* Redis until a login has sent it (connection.cc:1351-1367): deleting the whole
\* hash never takes one that the login did not read.
OfflineNoticeKept ==
    \A f \in filed : ~f[3] => f[2] \in response[f[1]]

\* Login sends the messages that came in meanwhile (connection.cc:1349), so a
\* notice that has been filed for a user is in Redis until it has been sent.
NoticeKept ==
    \A f \in filed : f[2] \in response[f[1]]

\* Friendship is mutual, unless an acceptance and a deletion for the same two
\* users ran on two workers at the same time (User_manager.cc:28-43).
AsymmetryNeedsOverlap ==
    \A u, v \in Users :
        \/ u \in friends[v] <=> v \in friends[u]
        \/ {u, v} \in mixed
        \/ \E w \in Users : \E i \in DOMAIN todo[w] :
              /\ todo[w][i].cmd \in {"setUserGroups", "removeUserGroups"}
              /\ {todo[w][i].who, todo[w][i].other} = {u, v}

\* Nobody is befriended who has not asked for it, although the server takes
\* the acceptance of any name from a client (connection.cc:1373-1398).
AcceptedWereAsked ==
    \A p \in accepted : << p[2], p[1] >> \in asked
=============================================================================
