------------------------------- MODULE Chats -------------------------------
(***************************************************************************)
(* Messages between friends and in a group, and the histories Redis keeps  *)
(* of them: Send_msg, group_chat and the four handlers that answer with a  *)
(* history.  A talk is the set of the accounts that take part in it.       *)
(*                                                                         *)
(* A worker serves its connections one frame at a time; a step is one      *)
(* command to Redis, one look-up in users, or one message dispatched.      *)
(* Presence is simpler than in Sessions (an account logs in again only     *)
(* after its last connection has been removed), nobody joins or leaves the *)
(* group (that is in Groups), and how a notice reaches the user who was    *)
(* offline is in Friends.                                                  *)
(***************************************************************************)
EXTENDS Naturals, Sequences, FiniteSets, SequencesExt, FiniteSetsExt

CONSTANTS
    Users,
    Group,      \* the accounts that belong to the group
    Friends,    \* the pairs that are friends
    Workers,
    Present,    \* bound: the users who are logged in at the start
    Cap,        \* messages a history keeps (100)
    Recent,     \* messages shown when a talk is opened (10)
    MaxMessages, MaxOpens, MaxExits, MaxLogins, MaxRoles,  \* bounds: messages
                \* typed, histories asked for, exits, logins after the start,
                \* members missed because their role was being changed
    NoWorker, NoUser

Talks == Friends \cup {Group}

ASSUME ChatsAssumption ==
    /\ {Group, Present} \subseteq SUBSET Users
    /\ \A t \in Friends : t \subseteq Users /\ Cardinality(t) = 2 /\ t # Group
    /\ {Cap, Recent} \subseteq Nat \ {0} /\ Recent <= Cap
    /\ {MaxMessages, MaxOpens, MaxExits, MaxLogins, MaxRoles} \subseteq Nat
    /\ IsFiniteSet(Workers)
    /\ NoWorker \notin Workers /\ NoUser \notin Users

VARIABLES
    hist,       \* chat:Friend:<a>:<b> and chat:group:<uuid>
    session,    \* the connection of a user's client, 0 for none
    users,      \* the connection users leads to, 0 for none
    owner,      \* the worker of a user's connection
    pc, cur,    \* what a worker is doing
    screen,     \* messages a client has got since it logged in, in order
    listed,     \* messages that came in a history
    \* history: all that was ever pushed; how much of it there was when a user
    \* last read a history; the members a message missed because their role
    \* was being changed; what became of each message for each addressee
    pushed, opened, skipped, fate,
    typed, opens, exits, logins

clients == <<session, screen, listed, opened>>
bounds == <<typed, opens, exits, logins>>
vars == <<hist, users, owner, pc, cur, clients, pushed, skipped,
          fate, bounds>>

\* A message of the past, of an account that is gone.
Old(t) == [by |-> NoUser, talk |-> t, no |-> 0]
Messages ==
    [by : Users, talk : Talks, no : 1 .. MaxMessages] \cup {Old(t) : t \in Talks}
NotOpened == MaxMessages + 2
Sessions == 0 .. MaxLogins + 1

\* What a worker knows while it handles a frame of by's connection.
Work(u, t, m, window) ==
    [by |-> u, talk |-> t, msg |-> m, left |-> {}, to |-> u, fd |-> 0,
     window |-> window, list |-> << >>, at |-> 0]
NoMessage == [no |-> 0]
NoWork == [msg |-> NoMessage]

TypeOK ==
    /\ \A t \in Talks :
          /\ hist[t] \in Seq(Messages) /\ pushed[t] \in Seq(Messages)
          /\ \A i \in DOMAIN pushed[t] : pushed[t][i].talk = t
    /\ session \in [Users -> Sessions] /\ users \in [Users -> Sessions]
    /\ owner \in [Users -> Workers \cup {NoWorker}]
    /\ \A u \in Users : users[u] = 0 <=> owner[u] = NoWorker
    /\ pc \in [Workers -> {"idle", "rpush", "ltrim", "members", "users", "file",
                           "dispatch", "lrange", "answer"}]
    /\ \A w \in Workers : pc[w] # "idle" =>
          owner[cur[w].by] = w /\ users[cur[w].by] # 0 /\ cur[w].left \subseteq cur[w].talk
    /\ \A u \in Users : screen[u] \in Seq(Messages) /\ listed[u] \subseteq Messages
    /\ opened \in [Users -> [Talks -> 0 .. NotOpened]]
    /\ skipped \subseteq Messages \X Group
    /\ fate \subseteq Messages \X Users \X {"screen", "notice", "lost"}

\* The server is up, Present are logged in, and there is a history.
Init ==
    /\ hist = [t \in Talks |-> << Old(t) >>]
    /\ session = [u \in Users |-> IF u \in Present THEN 1 ELSE 0] /\ users = session
    /\ owner \in {o \in [Users -> Workers \cup {NoWorker}] :
                   \A u \in Users : session[u] = 0 <=> o[u] = NoWorker}
    /\ pc = [w \in Workers |-> "idle"]
    /\ cur = [w \in Workers |-> NoWork]
    /\ screen = [u \in Users |-> << >>] /\ listed = [u \in Users |-> {}]
    /\ pushed = hist
    /\ opened = [u \in Users |-> [t \in Talks |-> NotOpened]]
    /\ skipped = {} /\ fate = {}
    /\ typed = 0 /\ opens = 0 /\ exits = 0 /\ logins = 0

-----------------------------------------------------------------------------
(* Clients and their connections.                                          *)

login(u, w) ==
    /\ session[u] = 0 /\ users[u] = 0 /\ logins < MaxLogins
    /\ logins' = logins + 1
    /\ session' = [session EXCEPT ![u] = logins' + 1]
    /\ users' = [users EXCEPT ![u] = logins' + 1]
    /\ owner' = [owner EXCEPT ![u] = w]
    /\ UNCHANGED <<hist, pc, cur, screen, listed, opened, pushed,
                   skipped, fate, typed, opens, exits>>

exit(u) ==
    /\ session[u] # 0 /\ exits < MaxExits
    /\ exits' = exits + 1
    /\ session' = [session EXCEPT ![u] = 0]
    /\ screen' = [screen EXCEPT ![u] = << >>] /\ listed' = [listed EXCEPT ![u] = {}]
    /\ opened' = [opened EXCEPT ![u] = [t \in Talks |-> NotOpened]]
    /\ UNCHANGED <<hist, users, owner, pc, cur, pushed, skipped,
                   fate, typed, opens, logins>>

\* The worker removes the connection between two frames.
remove_fd(u) ==
    /\ session[u] = 0 /\ users[u] # 0 /\ pc[owner[u]] = "idle"
    /\ users' = [users EXCEPT ![u] = 0] /\ owner' = [owner EXCEPT ![u] = NoWorker]
    /\ UNCHANGED <<hist, pc, cur, clients, pushed, skipped,
                   fate, bounds>>

-----------------------------------------------------------------------------
(* The handlers.                                                           *)

\* A worker that may take up a frame of u.
Takes_any(w, u) == users[u] # 0 /\ pc[w] = "idle"
Takes(w, u) == users[u] # 0 /\ pc[w] = "idle" /\ owner[u] = w

Begin(w, at, work) ==
    /\ pc' = [pc EXCEPT ![w] = at]
    /\ cur' = [cur EXCEPT ![w] = IF at = "idle" THEN NoWork ELSE work]
Continue(w, at) == Begin(w, at, cur[w])

\* Send_msg, group_chat: the message goes into the history first.
chat(w, u, t) ==
    LET m == [by |-> u, talk |-> t, no |-> typed + 1] IN
    /\ Takes(w, u) /\ u \in t /\ typed < MaxMessages
    /\ typed' = typed + 1
    /\ Begin(w, "rpush", [Work(u, t, m, 0) EXCEPT !.left = t \ {u}])
    /\ UNCHANGED <<hist, users, owner, clients, pushed, skipped,
                   fate, opens, exits, logins>>

\* setChatList is two commands.
rpush(w) ==
    LET m == cur[w].msg  t == m.talk IN
    /\ pc[w] = "rpush"
    /\ hist' = [hist EXCEPT ![t] = Append(@, m)]
    /\ pushed' = [pushed EXCEPT ![t] = Append(@, m)]
    /\ Continue(w, "ltrim")
    /\ UNCHANGED <<users, owner, clients, skipped, fate, bounds>>

\* The elements from - k to - 1 of a list.
Lasts_one_less(s, k) == SubSeq(s, IF Len(s) < k THEN 1 ELSE Len(s) - k + 2, Len(s))
Lasts_from_head(s, k) == SubSeq(s, 1, IF Len(s) < k THEN Len(s) ELSE k)
Lasts(s, k) == SubSeq(s, IF Len(s) < k THEN 1 ELSE Len(s) - k + 1, Len(s))

ltrim(w) ==
    LET t == cur[w].talk IN
    /\ pc[w] = "ltrim"
    /\ hist' = [hist EXCEPT ![t] = Lasts(@, Cap)]
    /\ Continue(w, IF t = Group THEN "members" ELSE "users")
    /\ UNCHANGED <<users, owner, clients, pushed, skipped, fate, bounds>>

After(left) == IF left = {} THEN "idle" ELSE "users"

\* add_manager and del_manager replace the entry of a member, whose text holds
\* the role, by two commands: a member may be missing when the set is read.
getGroupMember(w) ==
    /\ pc[w] = "members"
    /\ \E moving \in SUBSET (Group \ {cur[w].by}) :
          LET left == Group \ ({cur[w].by} \cup moving) IN
          /\ Cardinality(skipped) + Cardinality(moving) <= MaxRoles
          /\ skipped' = skipped \cup ({cur[w].msg} \X moving)
          /\ Begin(w, After(left), [cur[w] EXCEPT !.left = left])
    /\ UNCHANGED <<hist, users, owner, clients, pushed, fate, bounds>>

\* One turn of the loop over the addressees: is there an entry in users?
lookup(w, x) ==
    /\ pc[w] = "users" /\ x \in cur[w].left
    /\ Begin(w, IF users[x] = 0 THEN "file" ELSE "dispatch",
             [cur[w] EXCEPT !.to = x, !.fd = users[x], !.left = @ \ {x}])
    /\ UNCHANGED <<hist, users, owner, clients, pushed, skipped,
                   fate, bounds>>

\* A notice for an addressee who is offline, and on to the next.
Filed_returns(w) == "idle"
Filed(w) == After(cur[w].left)

setResKey(w) ==
    /\ pc[w] = "file"
    /\ fate' = fate \cup {<< cur[w].msg, cur[w].to, "notice" >>}
    /\ Continue(w, Filed(w))
    /\ UNCHANGED <<hist, users, owner, clients, pushed, skipped, bounds>>

\* The message is lost if that connection has been closed meanwhile.
dispatch(w) ==
    LET m == cur[w].msg  x == cur[w].to  there == session[x] = cur[w].fd IN
    /\ pc[w] = "dispatch"
    /\ screen' = IF there THEN [screen EXCEPT ![x] = Append(@, m)] ELSE screen
    /\ fate' = fate \cup {<< m, x, IF there THEN "screen" ELSE "lost" >>}
    /\ Continue(w, After(cur[w].left))
    /\ UNCHANGED <<hist, users, owner, session, listed, opened,
                   pushed, skipped, bounds>>

\* ONLINEMSG and ONLINECHATMSG ask for the Recent last messages, OFFLINEMSG and
\* CHATGROUPLIST for all.
open(w, u, t, window) ==
    /\ Takes(w, u) /\ u \in t /\ opens < MaxOpens
    /\ opens' = opens + 1
    /\ Begin(w, "lrange", Work(u, t, NoMessage, window))
    /\ UNCHANGED <<hist, users, owner, clients, pushed, skipped,
                   fate, typed, exits, logins>>

lrange(w) ==
    LET t == cur[w].talk IN
    /\ pc[w] = "lrange"
    /\ Begin(w, "answer", [cur[w] EXCEPT !.list = Lasts(hist[t], cur[w].window),
                                         !.at = Len(pushed[t])])
    /\ UNCHANGED <<hist, users, owner, clients, pushed, skipped,
                   fate, bounds>>

answer(w) ==
    LET u == cur[w].by IN
    /\ pc[w] = "answer"
    /\ IF session[u] # 0
       THEN /\ listed' = [listed EXCEPT ![u] = @ \cup ToSet(cur[w].list)]
            /\ opened' = [opened EXCEPT ![u][cur[w].talk] = cur[w].at]
       ELSE UNCHANGED <<listed, opened>>
    /\ Continue(w, "idle")
    /\ UNCHANGED <<hist, users, owner, session, screen, pushed,
                   skipped, fate, bounds>>

-----------------------------------------------------------------------------
Handler(w) ==
    \/ rpush(w) \/ ltrim(w) \/ getGroupMember(w) \/ setResKey(w) \/ dispatch(w)
    \/ lrange(w) \/ answer(w)
    \/ \E x \in Users : lookup(w, x)

Next ==
    \/ \E w \in Workers :
          \/ Handler(w)
          \/ \E u \in Users :
                \/ login(u, w)
                \/ \E t \in Talks :
                      chat(w, u, t) \/ \E k \in {Recent, Cap} : open(w, u, t, k)
    \/ \E u \in Users : exit(u) \/ remove_fd(u)

Spec == Init /\ [][Next]_vars
-----------------------------------------------------------------------------
(* Properties.                                                             *)

Trimming(t) == {w \in Workers : pc[w] = "ltrim" /\ cur[w].talk = t}
InHand(m, x) ==
    \E w \in Workers :
        /\ pc[w] # "idle" /\ cur[w].msg = m
        /\ \/ pc[w] \in {"rpush", "ltrim", "members"}
           \/ x \in cur[w].left
           \/ pc[w] \in {"file", "dispatch"} /\ cur[w].to = x

\* A history holds the latest messages without a gap, however many workers push
\* and trim at a time: never fewer than Cap if there were as many, and more
\* only as long as somebody has still to trim (RedisClient.cc:125-137).
HistoryIsLatest ==
    \A t \in Talks :
        /\ IsSuffix(hist[t], pushed[t])
        /\ Len(hist[t]) >= Min({Cap, Len(pushed[t])})
        /\ Len(hist[t]) <= Cap + Cardinality(Trimming(t))

\* Whoever opens a talk sees its last messages and then all that follow: what
\* was not in the history comes by itself, since a message is put into the
\* history before anybody is looked up.  A member whose role is being changed
\* is the exception (connection.cc:1173-1196, 1441-1484, 694-740).
OpenedIsComplete ==
    \A u \in Users, t \in Talks :
        session[u] # 0 /\ opened[u][t] # NotOpened =>
            \A i \in DOMAIN pushed[t] :
                LET m == pushed[t][i] IN
                i + Recent > opened[u][t] /\ m.by # u =>
                    \/ m \in ToSet(screen[u]) \cup listed[u]
                    \/ InHand(m, u)
                    \/ << m, u >> \in skipped

\* Messages of one sender come in the order they were typed, on every screen
\* and in every history (Worker.cc:56-87, connection.cc:694-740).
SenderOrder ==
    \A s \in {screen[u] : u \in Users} \cup {hist[t] : t \in Talks} :
        \A i, j \in DOMAIN s : i < j /\ s[i].by = s[j].by => s[i].no < s[j].no

\* One addressee who is offline or leaves costs nobody else a message: each one
\* gets it once, or is left one notice, or has closed its connection between
\* the look-up and the send (connection.cc:708-738, 1462-1483).
NobodyForgotten ==
    \A t \in Talks : \A i \in DOMAIN pushed[t] : \A x \in t :
        LET m == pushed[t][i]
            fates == {f \in fate : f[1] = m /\ f[2] = x}
        IN
        m # Old(t) /\ x # m.by /\ ~InHand(m, x) /\ << m, x >> \notin skipped =>
            Cardinality(fates) = 1
=============================================================================
