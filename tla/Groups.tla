------------------------------- MODULE Groups -------------------------------
(***************************************************************************)
(* Groups: what connection.cc keeps about them in Redis, the requests the  *)
(* menus of the client let a user send, and the handlers that serve them.  *)
(*                                                                         *)
(* A group is an index entry owner:name -> uuid, a set of members with     *)
(* roles, a hash of managers, and an entry in the list of every member.    *)
(* No two of these are updated together: a handler is a program of Redis   *)
(* commands, each of which is atomic, and the programs of handlers that    *)
(* run on different workers interleave.  One action of this module is one  *)
(* command (the RedisClient method of that name); a handler action starts  *)
(* its program.  Notices to the users concerned are not modelled here.     *)
(***************************************************************************)
EXTENDS Naturals, Sequences, FiniteSets, SequencesExt

CONSTANTS
    Users,      \* account names
    Founders,   \* bound: the accounts that create groups
    Applicants, \* bound: the accounts that apply for membership
    Names,      \* group names
    Uuids,      \* group identifiers; one whose traces are gone may come again
    MaxRequests, \* bound: requests served
    WORKER,     \* worker threads, and so handlers that run at a time
    NoUser, NoUuid

Keys == Names \X Founders      \* g_name + "   ---" + u_name
NoKey == <<NoUser, NoUser>>
Roles == {"owner", "manager", "member"}
NoRole == "none"

ASSUME GroupsAssumption ==
    /\ IsFiniteSet(Users) /\ Founders \subseteq Users
    /\ Applicants \subseteq Users
    /\ WORKER \in Nat \ {0}
    /\ MaxRequests \in Nat
    /\ NoUser \notin Users \cup Names
    /\ NoUuid \notin Uuids

VARIABLES
    \* Redis
    account,    \* accounts that exist
    index,      \* group_owner:<u_name>:<g_name> -> uuid
    members,    \* group:<uuid>:members, a set of user:role
    managers,   \* group:<uuid>:managers, user -> role
    lists,      \* user:<name>:groups
    notify,     \* join requests a user has to decide: applicant -> group
    \* the handler that serves a user, and what is left of its program
    job, todo,
    \* the client's _name and _statue: the group it has entered, its role there
    menu,
    \* history: who is out of a group, by someone of which role or with the
    \* account; whether a handler went on with an uninitialised uuid
    kicked, garbage,
    served,     \* requests begun
    mixed,      \* history: users concerned by two handlers that ran at a time
    crashed

redisVars == <<account, index, members, managers, lists, notify>>
vars == <<redisVars, job, todo, menu, kicked, garbage, served, mixed, crashed>>

Commands ==
    {"GroupExists", "getGroupuuid", "userFieldHexists", "getGroupManager",
     "getManagers", "isManager", "getGroupMember", "choose", "addGroup",
     "delGroup", "SetGroupMember", "removeGroupMember", "delGroupMember",
     "UserSetGroups", "UserRemoveGroups", "SetGroupManager",
     "removeGroupManager", "delGroupManager", "setGroupNotify",
     "delGroupNotify", "deleteHashKey"}

\* What the result of a command means to the rest of its program.
Modes == {"go",       \* nothing
          "needs",    \* stop when the command found or changed nothing
          "unless",   \* stop when it did
          "or",       \* leave out the next command when it did
          "and"}      \* leave out the next command when it did not

Steps == [cmd : Commands, mode : Modes, who : Users \cup {NoUser},
          role : Roles \cup {NoRole},
          key : Keys \cup {NoKey} \cup (Founders \X Names)]

\* del_member does different things for the two roles it is offered to.
del_member_as == [owner |-> "del_member_owner", manager |-> "del_member_manager"]
NoJob == [op |-> "none", key |-> NoKey, id |-> NoUuid, x |-> NoUser]
Ops == {"add_group", "join_group", "group_decide", "group_choice",
        "add_manager", "del_manager", "add_member", "del_member_owner",
        "del_member_manager", "leave_group", "disband_group", "del_account"}

TypeOK ==
    /\ account \subseteq Users
    /\ index \in [Keys -> Uuids \cup {NoUuid}]
    /\ members \in [Uuids -> SUBSET (Users \X Roles)]
    /\ managers \in [Uuids -> [Users -> {"owner", "manager", NoRole}]]
    /\ lists \in [Users -> SUBSET Keys]
    /\ notify \in [Users -> [Users -> Keys \cup {NoKey}]]
    /\ job \in [Users -> [op : Ops \cup {"none"}, key : Keys \cup {NoKey},
                          id : Uuids \cup {NoUuid}, x : Users \cup {NoUser}]]
    /\ \A u \in Users : \A i \in DOMAIN todo[u] : todo[u][i] \in Steps
    /\ menu \in [Users -> [key : Keys \cup {NoKey}, role : Roles \cup {NoRole}]]
    /\ kicked \subseteq Users \X Keys \X {"owner", "manager", "account"}
    /\ garbage \in BOOLEAN
    /\ served \in 0 .. MaxRequests
    /\ mixed \subseteq Users
    /\ crashed \in BOOLEAN

NoMenu == [key |-> NoKey, role |-> NoRole]

Init ==
    /\ account = Users
    /\ index = [k \in Keys |-> NoUuid]
    /\ members = [id \in Uuids |-> {}]
    /\ managers = [id \in Uuids |-> [u \in Users |-> NoRole]]
    /\ lists = [u \in Users |-> {}]
    /\ notify = [u \in Users |-> [x \in Users |-> NoKey]]
    /\ job = [u \in Users |-> NoJob]
    /\ todo = [u \in Users |-> << >>]
    /\ menu = [u \in Users |-> NoMenu]
    /\ kicked = {}
    /\ garbage = FALSE
    /\ served = 0
    /\ mixed = {}
    /\ crashed = FALSE

-----------------------------------------------------------------------------
(* Programs.                                                               *)

Step(cmd, mode, x, r, k) ==
    [cmd |-> cmd, mode |-> mode, who |-> x, role |-> r, key |-> k]
On(cmd, k) == Step(cmd, "go", NoUser, NoRole, k)
For(cmd, x, r, k) == Step(cmd, "go", x, r, k)
If(cmd, mode, x, r, k) == Step(cmd, mode, x, r, k)

add_group_program(u, k) ==
    << If("GroupExists", "unless", NoUser, NoRole, k),
       On("addGroup", k),
       For("SetGroupMember", u, "owner", k),
       For("UserSetGroups", u, NoRole, k),
       For("SetGroupManager", u, "owner", k) >>

join_group_program(u, k) ==
    << If("GroupExists", "needs", NoUser, NoRole, k),
       On("getGroupuuid", k),
       For("getManagers", u, NoRole, k) >>

group_decide_program(x, k, accept) ==
    << On("getGroupuuid", k) >>
    \o (IF accept
        THEN << If("userFieldHexists", "needs", x, NoRole, k),
                For("SetGroupMember", x, "member", k),
                For("UserSetGroups", x, NoRole, k) >>
        ELSE << >>)
    \o << For("getManagers", x, NoRole, k) >>

add_manager_program(x, k) ==
    << On("getGroupuuid", k),
       If("SetGroupManager", "needs", x, "manager", k),
       For("removeGroupMember", x, "member", k),
       For("SetGroupMember", x, "manager", k) >>

del_manager_program_as_member(x, k) ==
    << On("getGroupuuid", k),
       For("SetGroupManager", x, "member", k),
       For("removeGroupMember", x, "manager", k),
       For("SetGroupMember", x, "member", k) >>

del_manager_program(x, k) ==
    << On("getGroupuuid", k),
       If("removeGroupManager", "needs", x, NoRole, k),
       For("removeGroupMember", x, "manager", k),
       For("SetGroupMember", x, "member", k) >>

add_member_program(x, k) ==
    << On("getGroupuuid", k),
       If("SetGroupMember", "needs", x, "member", k),
       For("UserSetGroups", x, NoRole, k) >>

del_member_owner_program_swapped(x, k) ==
    << On("getGroupuuid", k),
       If("removeGroupMember", "or", x, "member", k),
       If("removeGroupMember", "needs", x, "manager", k),
       For("UserRemoveGroups", x, NoRole, << k[2], k[1] >>),
       For("removeGroupManager", x, NoRole, k) >>

\* removeGroupMember(uuid, x:member) || removeGroupMember(uuid, x:manager)
del_member_owner_program(x, k) ==
    << On("getGroupuuid", k),
       If("removeGroupMember", "or", x, "member", k),
       If("removeGroupMember", "needs", x, "manager", k),
       For("UserRemoveGroups", x, NoRole, k),
       For("removeGroupManager", x, NoRole, k) >>

\* UserRemoveGroups takes the group's name before its owner's.
swapped(k) == << k[2], k[1] >>

del_member_manager_program(x, k) ==
    << On("getGroupuuid", k),
       For("getGroupManager", x, NoRole, k),
       If("removeGroupMember", "needs", x, "member", k),
       For("UserRemoveGroups", x, NoRole, swapped(k)),
       For("removeGroupManager", x, NoRole, k) >>

leave_group_program_keeps_role(u, k, statue) ==
    << On("getGroupuuid", k),
       If("removeGroupMember", "needs", u, statue, k),
       For("UserRemoveGroups", u, NoRole, k) >>

leave_group_program(u, k, statue) ==
    << On("getGroupuuid", k),
       If("removeGroupMember", "needs", u, statue, k),
       If("isManager", "and", u, NoRole, k),
       For("removeGroupManager", u, NoRole, k),
       For("UserRemoveGroups", u, NoRole, k) >>

\* The loop over the members is unrolled when they have been read.
disband_program(k) == << On("getGroupuuid", k), On("getGroupMember", k) >>

disband_rest(k) ==
    << On("delGroup", k),
       For("UserRemoveGroups", k[2], NoRole, k),
       On("delGroupManager", k),
       On("delGroupMember", k) >>

\* One group of del_account, once its uuid and the user's role are known.
del_account_group(u, k, status) ==
    IF status = "owner"
    THEN disband_program(k)
    ELSE << For("removeGroupMember", u, "member", k),
            For("removeGroupManager", u, NoRole, k) >>

\* f applied to the elements of S, in the order Redis returned them.
Each(S, f(_)) ==
    { [i \in DOMAIN order |-> f(order[i])] : order \in SetToSeqs(S) }
-----------------------------------------------------------------------------
(* Running a program.                                                      *)

Busy(u) == todo[u] # << >>

\* Whose membership a handler may change.
Concerned(u, op, x) ==
    IF op \in {"disband_group", "del_account"} THEN Users
    ELSE IF op \in {"add_group", "leave_group"} THEN {u}
    ELSE IF op \in {"group_decide", "add_member", "del_member_owner",
                    "del_member_manager", "add_manager", "del_manager"} THEN {x}
    ELSE {}

\* A frame of u's connection reaches a worker that is free.  Bounds: so many
\* requests; and once a handler works for a group it made up, the others finish
\* and none begins.  (mixed: two handlers that concern a user ran at a time.)
Begin(u, op, k, x, program) ==
    /\ ~crashed /\ ~garbage
    /\ mixed' = mixed \cup
          {y \in Concerned(u, op, x) : \E v \in Users :
              Busy(v) /\ y \in Concerned(v, job[v].op, job[v].x)}
    /\ served < MaxRequests
    /\ served' = served + 1
    /\ u \in account
    /\ ~Busy(u)
    /\ Cardinality({v \in Users : Busy(v)}) < WORKER
    /\ job' = [job EXCEPT ![u] = [op |-> op, key |-> k, id |-> NoUuid, x |-> x]]
    /\ todo' = [todo EXCEPT ![u] = program]
    /\ UNCHANGED <<redisVars, menu, kicked, garbage, crashed>>

Now(u) == Head(todo[u])
id(u) == job[u].id
Doing(u, cmd) == ~crashed /\ Busy(u) /\ Now(u).cmd = cmd

\* What is left once the command has answered (found: it found or changed
\* something).
Rest(u, found) ==
    LET rest == Tail(todo[u]) mode == Now(u).mode IN
    IF (mode = "needs" /\ ~found) \/ (mode = "unless" /\ found) THEN << >>
    ELSE IF (mode = "or" /\ found) \/ (mode = "and" /\ ~found) THEN Tail(rest)
    ELSE rest

\* The program goes on with left, for the group with this id.
GoOn(u, left, g) ==
    /\ todo' = [todo EXCEPT ![u] = left]
    /\ job' = [job EXCEPT ![u] = IF left = << >> THEN NoJob
                                 ELSE [@ EXCEPT !.id = g]]

Return(u, found) == GoOn(u, Rest(u, found), id(u))

Crash ==
    /\ crashed' = TRUE
    /\ UNCHANGED <<redisVars, job, todo, menu, kicked, garbage, served, mixed>>

-----------------------------------------------------------------------------
(* Requests of the menus: what the client checks before it sends.          *)

add_group(u, k) ==
    /\ k[2] = u
    /\ Begin(u, "add_group", k, NoUser, add_group_program(u, k))

join_group(u, k) ==
    /\ u \in Applicants
    /\ k \notin lists[u]
    /\ Begin(u, "join_group", k, u, join_group_program(u, k))

\* Any member may decide, on any name, whether or not it applied.
group_decide(u, k, x, accept) ==
    /\ k \in lists[u]
    /\ Begin(u, "group_decide", k, x, group_decide_program(x, k, accept))

group_choice(u, k) ==
    /\ k \in lists[u]
    /\ Begin(u, "group_choice", k, NoUser,
             << On("getGroupuuid", k), On("choose", k) >>)

\* The menu of a group offers what the role of the moment of entry allows.
add_member(u, x) ==
    LET k == menu[u].key IN
    /\ menu[u].role \in {"owner", "manager"}
    /\ x # u
    /\ Begin(u, "add_member", k, x, add_member_program(x, k))

del_member(u, x) ==
    LET k == menu[u].key IN
    \/ /\ menu[u].role = "owner"
       /\ Begin(u, "del_member_owner", k, x, del_member_owner_program(x, k))
    \/ /\ menu[u].role = "manager"
       /\ Begin(u, "del_member_manager", k, x, del_member_manager_program(x, k))

add_manager(u, x) ==
    LET k == menu[u].key IN
    /\ menu[u].role = "owner"
    /\ Begin(u, "add_manager", k, x, add_manager_program(x, k))

del_manager(u, x) ==
    LET k == menu[u].key IN
    /\ menu[u].role = "owner"
    /\ Begin(u, "del_manager", k, x, del_manager_program(x, k))

leave_group_unguarded(u) ==
    LET k == menu[u].key IN
    /\ menu[u].role # NoRole
    /\ Begin(u, "leave_group", k, NoUser, leave_group_program(u, k, menu[u].role))

leave_group(u) ==
    LET k == menu[u].key IN
    /\ menu[u].role \in {"manager", "member"}
    /\ Begin(u, "leave_group", k, NoUser, leave_group_program(u, k, menu[u].role))

disband_froup(u) ==
    LET k == menu[u].key IN
    /\ menu[u].role = "owner"
    /\ Begin(u, "disband_group", k, NoUser, disband_program(k))

del_account_program(u, order) ==
    IF order = << >> THEN << For("deleteHashKey", u, NoRole, NoKey) >>
    ELSE [i \in 1 .. 2 * Len(order) + 1 |->
            IF i = 2 * Len(order) + 1 THEN For("deleteHashKey", u, NoRole, NoKey)
            ELSE IF i % 2 = 1 THEN On("getGroupuuid", order[(i + 1) \div 2])
            ELSE For("getGroupManager", u, NoRole, order[i \div 2])]

\* The client sends the groups it knows of, and leaves.  It sends a map from
\* names to owners: of the groups with one name it sends one.
OnePerName(S) ==
    {T \in SUBSET S : \A k \in S : Cardinality({j \in T : j[1] = k[1]}) = 1}

del_account(u) ==
    \E T \in OnePerName(lists[u]) : \E order \in SetToSeqs(T) :
        Begin(u, "del_account", NoKey, NoUser, del_account_program(u, order))

-----------------------------------------------------------------------------
(* Redis commands that read.                                               *)

GroupExists(u) ==
    /\ Doing(u, "GroupExists")
    /\ Return(u, index[Now(u).key] # NoUuid)
    /\ UNCHANGED <<redisVars, menu, kicked, garbage, served, mixed, crashed>>

userFieldHexists(u) ==
    /\ Doing(u, "userFieldHexists")
    /\ Return(u, Now(u).who \in account)
    /\ UNCHANGED <<redisVars, menu, kicked, garbage, served, mixed, crashed>>

\* getGroupuuid dereferences what GET returned: for a name without a group that
\* is an empty optional.  The process dies, or goes on with whatever string
\* the uninitialised storage holds, possibly that of another group.
getGroupuuid(u) ==
    LET found == index[Now(u).key] IN
    /\ Doing(u, "getGroupuuid")
    /\ \/ /\ found # NoUuid
          /\ GoOn(u, Tail(todo[u]), found)
          /\ UNCHANGED <<redisVars, menu, kicked, garbage, served, mixed, crashed>>
       \/ /\ found = NoUuid
          /\ \E g \in Uuids : GoOn(u, Tail(todo[u]), g)
          /\ garbage' = TRUE
          /\ UNCHANGED <<redisVars, menu, kicked, served, mixed, crashed>>
       \/ found = NoUuid /\ Crash

\* The role of one user, by HGET: of a user without an entry, again, an empty
\* optional is dereferenced.
statuses(u) ==
    LET r == managers[id(u)][Now(u).who] IN
    IF r # NoRole THEN {r} ELSE Roles

getGroupManager(u) ==
    /\ Doing(u, "getGroupManager")
    /\ \/ /\ \E status \in statuses(u) :
                GoOn(u, IF job[u].op = "del_account"
                        THEN del_account_group(u, Now(u).key, status) \o Tail(todo[u])
                        ELSE IF status \in {"owner", "manager"} THEN << >>
                        ELSE Tail(todo[u]), id(u))
          /\ UNCHANGED <<redisVars, menu, kicked, garbage, served, mixed, crashed>>
       \/ managers[id(u)][Now(u).who] = NoRole /\ Crash

\* The managers are read, and a command for each of them follows.
getManagers(u) ==
    LET cmd == IF job[u].op = "join_group" THEN "setGroupNotify" ELSE "delGroupNotify"
        one(m) == For(cmd, m, NoRole, Now(u).key)
        all == {m \in Users : managers[id(u)][m] # NoRole}
    IN
    /\ Doing(u, "getManagers")
    /\ \E each \in Each(all, one) : GoOn(u, each \o Tail(todo[u]), id(u))
    /\ UNCHANGED <<redisVars, menu, kicked, garbage, served, mixed, crashed>>

isManager(u) ==
    /\ Doing(u, "isManager")
    /\ Return(u, managers[id(u)][Now(u).who] # NoRole)
    /\ UNCHANGED <<redisVars, menu, kicked, garbage, served, mixed, crashed>>

\* disband_froup reads the members and leaves their lists one by one.
getGroupMember(u) ==
    LET k == Now(u).key
        one(m) == For("UserRemoveGroups", m, NoRole, k)
        all == {m[1] : m \in members[id(u)]}
    IN
    /\ Doing(u, "getGroupMember")
    /\ \E each \in Each(all, one) :
          GoOn(u, each \o disband_rest(k) \o Tail(todo[u]), id(u))
    /\ UNCHANGED <<redisVars, menu, kicked, garbage, served, mixed, crashed>>

\* The answer of group_choice: whoever is no manager is called a member.
choose(u) ==
    /\ Doing(u, "choose")
    /\ menu' = [menu EXCEPT ![u] =
          [key |-> Now(u).key,
           role |-> IF managers[id(u)][u] = NoRole THEN "member" ELSE managers[id(u)][u]]]
    /\ Return(u, TRUE)
    /\ UNCHANGED <<redisVars, kicked, garbage, served, mixed, crashed>>

-----------------------------------------------------------------------------
(* Redis commands that write.                                              *)

\* generate_uuid yields one that nothing refers to.
Fresh(g) ==
    /\ members[g] = {}
    /\ \A u \in Users : managers[g][u] = NoRole /\ job[u].id # g
    /\ \A k \in Keys : index[k] # g

addGroup(u) ==
    /\ Doing(u, "addGroup")
    /\ \E g \in Uuids :
        /\ Fresh(g)
        /\ index' = [index EXCEPT ![Now(u).key] = g]
        /\ GoOn(u, Tail(todo[u]), g)
    /\ UNCHANGED <<account, members, managers, lists, notify, menu, kicked,
                   garbage, served, mixed, crashed>>

delGroup(u) ==
    /\ Doing(u, "delGroup")
    /\ index' = [index EXCEPT ![Now(u).key] = NoUuid]
    /\ Return(u, TRUE)
    /\ UNCHANGED <<account, members, managers, lists, notify, menu, kicked,
                   garbage, served, mixed, crashed>>

SetGroupMember(u) ==
    LET m == << Now(u).who, Now(u).role >> IN
    /\ Doing(u, "SetGroupMember")
    /\ members' = [members EXCEPT ![id(u)] = @ \cup {m}]
    /\ Return(u, m \notin members[id(u)])
    /\ UNCHANGED <<account, index, managers, lists, notify, menu, kicked,
                   garbage, served, mixed, crashed>>

\* del_member tells the user as soon as the entry is gone.
removeGroupMember(u) ==
    LET m == << Now(u).who, Now(u).role >> found == m \in members[id(u)] IN
    /\ Doing(u, "removeGroupMember")
    /\ members' = [members EXCEPT ![id(u)] = @ \ {m}]
    /\ kicked' = kicked \cup
          (IF ~found THEN {}
           ELSE {<< Now(u).who, job[u].key, r >> :
                 r \in {r \in DOMAIN del_member_as : job[u].op = del_member_as[r]}})
    /\ Return(u, found)
    /\ UNCHANGED <<account, index, managers, lists, notify, menu, garbage, served, mixed, crashed>>

delGroupMember(u) ==
    /\ Doing(u, "delGroupMember")
    /\ members' = [members EXCEPT ![id(u)] = {}]
    /\ Return(u, TRUE)
    /\ UNCHANGED <<account, index, managers, lists, notify, menu, kicked,
                   garbage, served, mixed, crashed>>

UserSetGroups(u) ==
    LET x == Now(u).who k == Now(u).key IN
    /\ Doing(u, "UserSetGroups")
    /\ lists' = [lists EXCEPT ![x] = @ \cup {k}]
    /\ kicked' = {out \in kicked : ~(out[1] = x /\ out[2] = k)}
    /\ Return(u, TRUE)
    /\ UNCHANGED <<account, index, members, managers, notify, menu, garbage,
                   served, mixed, crashed>>

UserRemoveGroups(u) ==
    /\ Doing(u, "UserRemoveGroups")
    /\ lists' = [lists EXCEPT ![Now(u).who] = @ \ {Now(u).key}]
    /\ Return(u, TRUE)
    /\ UNCHANGED <<account, index, members, managers, notify, menu, kicked,
                   garbage, served, mixed, crashed>>

\* HSET overwrites, and answers whether the field is new.
SetGroupManager(u) ==
    LET x == Now(u).who IN
    /\ Doing(u, "SetGroupManager")
    /\ managers' = [managers EXCEPT ![id(u)][x] = Now(u).role]
    /\ Return(u, managers[id(u)][x] = NoRole)
    /\ UNCHANGED <<account, index, members, lists, notify, menu, kicked,
                   garbage, served, mixed, crashed>>

removeGroupManager(u) ==
    LET x == Now(u).who IN
    /\ Doing(u, "removeGroupManager")
    /\ managers' = [managers EXCEPT ![id(u)][x] = NoRole]
    /\ Return(u, managers[id(u)][x] # NoRole)
    /\ UNCHANGED <<account, index, members, lists, notify, menu, kicked,
                   garbage, served, mixed, crashed>>

delGroupManager(u) ==
    /\ Doing(u, "delGroupManager")
    /\ managers' = [managers EXCEPT ![id(u)] = [x \in Users |-> NoRole]]
    /\ Return(u, TRUE)
    /\ UNCHANGED <<account, index, members, lists, notify, menu, kicked,
                   garbage, served, mixed, crashed>>

\* The request is filed under the applicant: one per manager and applicant.
setGroupNotify(u) ==
    /\ Doing(u, "setGroupNotify")
    /\ notify' = [notify EXCEPT ![Now(u).who][job[u].x] = job[u].key]
    /\ Return(u, TRUE)
    /\ UNCHANGED <<account, index, members, managers, lists, menu, kicked,
                   garbage, served, mixed, crashed>>

delGroupNotify(u) ==
    /\ Doing(u, "delGroupNotify")
    /\ notify' = [notify EXCEPT ![Now(u).who][job[u].x] = NoKey]
    /\ Return(u, TRUE)
    /\ UNCHANGED <<account, index, members, managers, lists, menu, kicked,
                   garbage, served, mixed, crashed>>

\* The account is gone; the list user:<name>:groups stays.
deleteHashKey(u) ==
    /\ Doing(u, "deleteHashKey")
    /\ account' = account \ {u}
    /\ menu' = [menu EXCEPT ![u] = NoMenu]
    /\ kicked' = kicked \cup {<< u, k, "account" >> : k \in lists[u]}
    /\ Return(u, TRUE)
    /\ UNCHANGED <<index, members, managers, lists, notify, garbage,
                   served, mixed, crashed>>

\* The freed name is registered again (module Auth), by anybody, who finds the
\* list of the account that is gone.
saveUser(u) ==
    /\ ~crashed /\ ~garbage
    /\ served < MaxRequests
    /\ served' = served + 1
    /\ u \notin account
    /\ account' = account \cup {u}
    /\ UNCHANGED <<index, members, managers, lists, notify, job, todo, menu, kicked,
                   garbage, mixed, crashed>>

-----------------------------------------------------------------------------
Request(u) ==
    \/ del_account(u) \/ leave_group(u) \/ disband_froup(u)
    \/ \E k \in Keys :
        \/ add_group(u, k) \/ join_group(u, k) \/ group_choice(u, k)
        \/ \E x \in Users, accept \in BOOLEAN : group_decide(u, k, x, accept)
    \/ \E x \in Users :
        add_member(u, x) \/ del_member(u, x) \/ add_manager(u, x) \/ del_manager(u, x)

Command(u) ==
    \/ GroupExists(u) \/ userFieldHexists(u) \/ getGroupuuid(u)
    \/ getGroupManager(u) \/ getManagers(u) \/ isManager(u)
    \/ getGroupMember(u) \/ choose(u)
    \/ addGroup(u) \/ delGroup(u)
    \/ SetGroupMember(u) \/ removeGroupMember(u) \/ delGroupMember(u)
    \/ UserSetGroups(u) \/ UserRemoveGroups(u)
    \/ SetGroupManager(u) \/ removeGroupManager(u) \/ delGroupManager(u)
    \/ setGroupNotify(u) \/ delGroupNotify(u) \/ deleteHashKey(u)

Next == \E u \in Users : Request(u) \/ Command(u) \/ saveUser(u)

Spec == Init /\ [][Next]_vars
-----------------------------------------------------------------------------
(* Properties.                                                             *)

Quiet == \A u \in Users : ~Busy(u)
Settled(g) == \A u \in Users : Busy(u) => id(u) # g
Belongs(x, g) == \E r \in Roles : << x, r >> \in members[g]

\* Nobody has the rights of a manager in a group without being one of its
\* members, whatever appointments, dismissals, kicks, departures and account
\* deletions overlap: managers loses a user after members does, and an appointed
\* user is put among the members after (connection.cc:314-425, 469-649).
ManagersAreMembers ==
    \A k \in Keys :
        LET g == index[k] IN
        (g # NoUuid /\ ~garbage /\ Settled(g)) =>
            \A x \in Users : managers[g][x] # NoRole => Belongs(x, g)

\* As long as a group exists its founder is among its members as the owner:
\* the chat of the group and its disbanding reach the founder, however often
\* it was appointed, dismissed or "kicked" (connection.cc:428-565).
OwnerKeepsEntry ==
    \A k \in Keys :
        LET g == index[k] IN
        (g # NoUuid /\ ~garbage /\ Settled(g)) => << k[2], "owner" >> \in members[g]

\* x is known to find k in its list without belonging to it: a manager kicked x,
\* or an earlier account of that name was deleted with k in its list.
Excused(x, k) == \E r \in {"manager", "account"} : << x, k, r >> \in kicked

\* A user who finds a group in its list is a member of it, unless a manager
\* kicked the user, or the name was another account's, whose list nobody clears
\* (connection.cc:171-223), or two handlers that may change whether this very
\* user is a member ran at the same time (a kick between the SetGroupMember and
\* the UserSetGroups of an acceptance, connection.cc:840-841 against 528-565).
ListedAreMembers ==
    (Quiet /\ ~garbage) =>
        \A x \in account \ mixed : \A k \in lists[x] :
            index[k] # NoUuid /\ ~Excused(x, k) => Belongs(x, index[k])

\* Who has been told of having been moved out of a group (connection.cc:531)
\* does not find it in its list any more.
KickedIsUnlisted ==
    (Quiet /\ ~garbage) =>
        \A out \in kicked : out[3] # "account" => out[2] \notin lists[out[1]]
=============================================================================
