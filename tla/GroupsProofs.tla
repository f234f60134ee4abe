---------------------------- MODULE GroupsProofs ----------------------------
(***************************************************************************)
(* A group that exists has its owner among its members, and its managers   *)
(* are members, whatever handlers overlap.  The argument follows the       *)
(* programs of the handlers: what a command leaves to do is done by the    *)
(* commands that come after it, for the same group.  The second half is    *)
(* about the lists of the users, in the same way.                          *)
(***************************************************************************)
EXTENDS Groups, FiniteSetTheorems, SequenceTheorems, TLAPS

\* Commands that need no uuid.
NoId == {"GroupExists", "getGroupuuid", "addGroup", "deleteHashKey"}

\* A command has the arguments it needs; most go on whatever they find.
FieldsOK(c) ==
    /\ c.cmd \in {"SetGroupMember", "removeGroupMember", "UserSetGroups", "UserRemoveGroups",
                  "SetGroupManager", "removeGroupManager", "setGroupNotify", "delGroupNotify",
                  "isManager", "getGroupManager", "userFieldHexists"} => c.who \in Users
    /\ c.cmd \in {"GroupExists", "getGroupuuid", "addGroup", "delGroup", "getGroupMember",
                  "getManagers", "getGroupManager", "choose", "UserSetGroups"} => c.key \in Keys
    /\ c.cmd \in {"SetGroupMember", "removeGroupMember"} => c.role \in Roles
    /\ c.cmd = "removeGroupMember" => c.role # "owner"
    /\ c.cmd = "SetGroupManager" => c.role \in {"owner", "manager"}
    /\ c.mode = "or" => c.cmd = "removeGroupMember"
    /\ c.mode = "and" <=> c.cmd = "isManager"
    /\ c.mode = "unless" => c.cmd = "GroupExists"
    /\ c.mode = "needs" => c.cmd \notin {"UserRemoveGroups", "UserSetGroups"}

\* From p on the program puts x among the members, or takes its rights away.
Mending(s, p, x) ==
    \/ /\ p <= Len(s) /\ s[p].who = x
       /\ s[p].cmd \in {"SetGroupMember", "removeGroupManager"}
    \/ /\ p < Len(s) /\ s[p + 1].who = x
       /\ \/ /\ s[p].cmd = "UserRemoveGroups" /\ s[p + 1].cmd = "removeGroupManager"
          \/ /\ s[p].cmd = "isManager" /\ s[p].who = x
             /\ s[p + 1].cmd = "removeGroupManager"
          \/ /\ s[p].cmd = "removeGroupMember" /\ s[p].mode = "go"
             /\ s[p + 1].cmd = "SetGroupMember"
Mends(s, x) == Mending(s, 1, x)

\* Whoever loses an entry among the members, or gets the rights of a manager,
\* is seen to next.
RemovalOK(s, i) ==
    s[i].cmd = "removeGroupMember" =>
        \/ s[i].mode # "or" /\ Mending(s, i + 1, s[i].who)
        \/ /\ s[i].mode = "or" /\ i < Len(s) /\ s[i + 1].cmd = "removeGroupMember"
           /\ s[i + 1].who = s[i].who /\ s[i + 1].mode = "needs" /\ Mending(s, i + 2, s[i].who)
AppointOK(s, i) ==
    /\ s[i].cmd = "SetGroupManager" /\ s[i].role = "manager" => Mending(s, i + 1, s[i].who)
    /\ s[i].cmd = "isManager" => Mending(s, i, s[i].who)

\* What comes after what.
NextOK(s, i) ==
    /\ s[i].cmd = "GroupExists" => i < Len(s) /\ s[i + 1].cmd \in {"addGroup", "getGroupuuid"}
    /\ s[i].cmd = "addGroup" => /\ i < Len(s) /\ s[i + 1].cmd = "SetGroupMember"
                                /\ s[i + 1].who = s[i].key[2] /\ s[i + 1].role = "owner"
    /\ s[i].cmd = "deleteHashKey" => i = Len(s)
    /\ i < Len(s) /\ s[i + 1].cmd = "getGroupMember" =>
          s[i].cmd = "getGroupuuid" /\ s[i].key = s[i + 1].key

Founds(c) == c.cmd = "SetGroupManager" /\ c.role = "owner"

\* ... and what before: the group is found or made at once before it is taken
\* away, or its founder put among its managers.
BeforeOK(s, i) ==
    /\ s[i].cmd = "delGroup" => \A h \in 1 .. i - 1 : s[h].cmd = "UserRemoveGroups"
    /\ s[i].cmd = "delGroupMember" =>
          \A h \in 1 .. i - 1 : s[h].cmd \in {"UserRemoveGroups", "delGroup", "delGroupManager"}
    /\ Founds(s[i]) =>
          \A h \in 1 .. i - 1 :
             /\ s[h].cmd \in {"GroupExists", "addGroup", "SetGroupMember", "UserSetGroups"}
             /\ s[h].cmd = "addGroup" => s[h].key[2] = s[i].who

ProgramOK(s) ==
    \A i \in 1 .. Len(s) :
        /\ FieldsOK(s[i]) /\ RemovalOK(s, i) /\ AppointOK(s, i)
        /\ NextOK(s, i) /\ BeforeOK(s, i)

\* A handler for this job has this program left.
JobOK(j, s) ==
    /\ j.op \in {"del_member_owner", "del_member_manager"} => j.key \in Keys
    /\ \A i \in 1 .. Len(s) :
          s[i].cmd \in {"setGroupNotify", "delGroupNotify", "getManagers"} =>
              j.x \in Users /\ j.key \in Keys
    /\ s # << >> => s[1].cmd \in NoId \/ j.id \in Uuids

Jobs == [op : Ops \cup {"none"}, key : Keys \cup {NoKey},
         id : Uuids \cup {NoUuid}, x : Users \cup {NoUser}]

TablesOK ==
    /\ account \subseteq Users
    /\ index \in [Keys -> Uuids \cup {NoUuid}]
    /\ members \in [Uuids -> SUBSET (Users \X Roles)]
    /\ managers \in [Uuids -> [Users -> {"owner", "manager", NoRole}]]
    /\ lists \in [Users -> SUBSET Keys] /\ \A u \in Users : IsFiniteSet(lists[u])
    /\ notify \in [Users -> [Users -> Keys \cup {NoKey}]]
    /\ job \in [Users -> Jobs] /\ todo \in [Users -> Seq(Steps)]
    /\ menu \in [Users -> [key : Keys \cup {NoKey}, role : Roles \cup {NoRole}]]
    /\ \A u \in Users : menu[u].role # NoRole => menu[u].key \in Keys
    /\ kicked \subseteq Users \X Keys \X {"owner", "manager", "account"}
    /\ garbage \in BOOLEAN /\ crashed \in BOOLEAN
    /\ served \in 0 .. MaxRequests /\ mixed \subseteq Users

ProgramsOK == \A u \in Users : ProgramOK(todo[u]) /\ JobOK(job[u], todo[u])

\* What a handler does with the uuid g it has got, it does to the group of the
\* key it has got it for.
KeyOK(ix, g, s) ==
    /\ s # << >> /\ s[1].cmd = "getGroupMember" => \A k \in Keys : ix[k] = g => k = s[1].key
    /\ \A i \in 1 .. Len(s) :
          /\ s[i].cmd = "delGroup" => \A k \in Keys : ix[k] = g => k = s[i].key
          /\ s[i].cmd = "delGroupMember" /\ (\A h \in 1 .. Len(s) : s[h].cmd # "delGroup") =>
                \A k \in Keys : ix[k] # g
          /\ Founds(s[i]) /\ s[1].cmd \notin {"GroupExists", "addGroup"} =>
                \A k \in Keys : ix[k] = g => k[2] = s[i].who

KeysOK ==
    /\ \A j, k \in Keys : index[j] = index[k] /\ index[k] # NoUuid => j = k
    /\ \A u \in Users : KeyOK(index, id(u), todo[u])

\* The founder is a member, or becomes one next.
OwnersOK ==
    \A k \in Keys : index[k] # NoUuid =>
        \/ << k[2], "owner" >> \in members[index[k]]
        \/ \E u \in Users :
              /\ Busy(u) /\ id(u) = index[k] /\ Now(u).cmd = "SetGroupMember"
              /\ Now(u).who = k[2] /\ Now(u).role = "owner"

Mended(g, x) == \E u \in Users : id(u) = g /\ Mends(todo[u], x)

\* So is a manager, or ceases to be one.
ManagersOK ==
    \A g \in Uuids, x \in Users :
        (\E k \in Keys : index[k] = g) /\ managers[g][x] # NoRole => Belongs(x, g) \/ Mended(g, x)

Inv == TablesOK /\ ProgramsOK /\ (~garbage => KeysOK /\ OwnersOK /\ ManagersOK)

-----------------------------------------------------------------------------
(* Sequences.                                                              *)

LEMMA GroupsConstants ==
  /\ IsFiniteSet(Users) /\ Founders \subseteq Users /\ Applicants \subseteq Users
  /\ MaxRequests \in Nat /\ NoUser \notin Users /\ NoUuid \notin Uuids
  BY GroupsAssumption

\* t goes on as s does from k on.
Shift(s, t, k) ==
    /\ Len(s) \in Nat /\ Len(t) \in Nat /\ k \in Nat /\ Len(s) = Len(t) + k
    /\ \A i \in 1 .. Len(t) : t[i] = s[i + k]

LEMMA MendingShift ==
  ASSUME NEW s, NEW t, NEW k, Shift(s, t, k), NEW p \in Nat \ {0}, NEW x
  PROVE  Mending(t, p, x) <=> Mending(s, p + k, x)
<1>1. /\ Len(s) \in Nat /\ Len(t) \in Nat /\ k \in Nat /\ Len(s) = Len(t) + k
      /\ \A i \in 1 .. Len(t) : t[i] = s[i + k]
  BY DEF Shift
<1>2. /\ p <= Len(t) <=> p + k <= Len(s)
      /\ p < Len(t) <=> p + k < Len(s)
      /\ p < Len(t) => p <= Len(t)
  BY <1>1
<1>3. p <= Len(t) => t[p] = s[p + k]
  BY <1>1
<1>4. p < Len(t) => t[p + 1] = s[(p + k) + 1]
  <2>1. p < Len(t) => p + 1 \in 1 .. Len(t) /\ (p + 1) + k = (p + k) + 1
    BY <1>1
  <2> QED
    BY <1>1, <2>1
<1> QED
  BY <1>2, <1>3, <1>4 DEF Mending

\* f comes first in t.
Prefix(f, t) ==
    /\ Len(f) \in Nat /\ Len(t) \in Nat /\ Len(f) <= Len(t)
    /\ \A i \in 1 .. Len(f) : t[i] = f[i]

LEMMA MendingPrefix ==
  ASSUME NEW f, NEW t, Prefix(f, t), NEW p \in Nat \ {0}, NEW x, Mending(f, p, x)
  PROVE  Mending(t, p, x)
<1>1. /\ Len(f) \in Nat /\ Len(t) \in Nat /\ Len(f) <= Len(t)
      /\ \A i \in 1 .. Len(f) : t[i] = f[i]
  BY DEF Prefix
<1>2. /\ p <= Len(f) => p <= Len(t) /\ t[p] = f[p]
      /\ p < Len(f) => p < Len(t) /\ t[p] = f[p] /\ t[p + 1] = f[p + 1]
  BY <1>1
<1> QED
  BY <1>2 DEF Mending

\* What a program promises about its i-th command, without looking back.
AheadOK(s, i) ==
    /\ FieldsOK(s[i]) /\ RemovalOK(s, i) /\ AppointOK(s, i) /\ NextOK(s, i)

LEMMA AheadShift ==
  ASSUME NEW s, NEW t, NEW k, Shift(s, t, k), NEW i \in 1 .. Len(t)
  PROVE  AheadOK(s, i + k) <=> AheadOK(t, i)
<1>1. /\ Len(s) \in Nat /\ Len(t) \in Nat /\ k \in Nat /\ Len(s) = Len(t) + k
      /\ \A j \in 1 .. Len(t) : t[j] = s[j + k]
  BY DEF Shift
<1>2. t[i] = s[i + k] /\ i \in Nat \ {0}
  BY <1>1
<1>3. /\ i < Len(t) <=> i + k < Len(s)
      /\ i = Len(t) <=> i + k = Len(s)
      /\ i < Len(t) => t[i + 1] = s[(i + k) + 1]
  <2>1. i < Len(t) => i + 1 \in 1 .. Len(t) /\ (i + 1) + k = (i + k) + 1
    BY <1>1
  <2>2. i < Len(t) => t[i + 1] = s[(i + k) + 1]
    BY <1>1, <2>1
  <2> QED
    BY <1>1, <2>2
<1>4. ASSUME NEW x
      PROVE  /\ Mending(t, i, x) <=> Mending(s, i + k, x)
             /\ Mending(t, i + 1, x) <=> Mending(s, (i + k) + 1, x)
             /\ Mending(t, i + 2, x) <=> Mending(s, (i + k) + 2, x)
  <2>1. (i + 1) + k = (i + k) + 1 /\ (i + 2) + k = (i + k) + 2
        /\ i + 1 \in Nat \ {0} /\ i + 2 \in Nat \ {0}
    BY <1>1
  <2>2. /\ Mending(t, i, x) <=> Mending(s, i + k, x)
        /\ Mending(t, i + 1, x) <=> Mending(s, (i + 1) + k, x)
        /\ Mending(t, i + 2, x) <=> Mending(s, (i + 2) + k, x)
    BY <1>2, <2>1, MendingShift
  <2> QED
    BY <2>1, <2>2
<1>5. FieldsOK(s[i + k]) <=> FieldsOK(t[i])
  BY <1>2
<1>6. RemovalOK(s, i + k) <=> RemovalOK(t, i)
  BY <1>2, <1>3, <1>4 DEF RemovalOK
<1>7. AppointOK(s, i + k) <=> AppointOK(t, i)
  BY <1>2, <1>4 DEF AppointOK
<1>8. NextOK(s, i + k) <=> NextOK(t, i)
  BY <1>2, <1>3 DEF NextOK
<1> QED
  BY <1>5, <1>6, <1>7, <1>8 DEF AheadOK

LEMMA AheadPrefix ==
  ASSUME NEW f, NEW t, Prefix(f, t), NEW i \in 1 .. Len(f), AheadOK(f, i),
         f[i].cmd # "deleteHashKey",
         i = Len(f) /\ i < Len(t) => t[i + 1].cmd # "getGroupMember"
  PROVE  AheadOK(t, i)
<1>1. /\ Len(f) \in Nat /\ Len(t) \in Nat /\ Len(f) <= Len(t)
      /\ \A j \in 1 .. Len(f) : t[j] = f[j]
  BY DEF Prefix
<1>2. t[i] = f[i] /\ i \in Nat \ {0}
  BY <1>1
<1>3. i < Len(f) => i < Len(t) /\ t[i + 1] = f[i + 1]
  BY <1>1
<1>4. i = Len(f) \/ i < Len(f)
  BY <1>1
<1>5. ASSUME NEW x
      PROVE  /\ Mending(f, i, x) => Mending(t, i, x)
             /\ Mending(f, i + 1, x) => Mending(t, i + 1, x)
             /\ Mending(f, i + 2, x) => Mending(t, i + 2, x)
  <2>1. i + 1 \in Nat \ {0} /\ i + 2 \in Nat \ {0}
    OBVIOUS
  <2> QED
    BY <1>2, <2>1, MendingPrefix
<1>6. FieldsOK(t[i])
  BY <1>2 DEF AheadOK
<1>7. RemovalOK(t, i)
  BY <1>2, <1>3, <1>5 DEF AheadOK, RemovalOK
<1>8. AppointOK(t, i)
  BY <1>2, <1>5 DEF AheadOK, AppointOK
<1>9. NextOK(t, i)
  BY <1>2, <1>3, <1>4 DEF AheadOK, NextOK
<1> QED
  BY <1>6, <1>7, <1>8, <1>9 DEF AheadOK

LEMMA ProgramParts ==
  ASSUME NEW s
  PROVE  ProgramOK(s) <=> \A i \in 1 .. Len(s) : AheadOK(s, i) /\ BeforeOK(s, i)
  BY DEF ProgramOK, AheadOK

LEMMA EmptyProgram == << >> \in Seq(Steps) /\ Len(<< >>) = 0 /\ ProgramOK(<< >>)
<1>1. << >> \in Seq(Steps) /\ Len(<< >>) = 0
  OBVIOUS
<1>2. 1 .. 0 = {}
  OBVIOUS
<1> QED
  BY <1>1, <1>2 DEF ProgramOK

LEMMA TailShift ==
  ASSUME NEW s \in Seq(Steps), s # << >>
  PROVE  Tail(s) \in Seq(Steps) /\ Shift(s, Tail(s), 1) /\ Head(s) = s[1] /\ s[1] \in Steps
         /\ 1 \in 1 .. Len(s)
<1>1. Tail(s) \in Seq(Steps) /\ Len(Tail(s)) = Len(s) - 1 
      /\ \A i \in 1 .. Len(Tail(s)) : Tail(s)[i] = s[i + 1]
  BY HeadTailProperties
<1>2. Len(s) \in Nat \ {0} /\ Len(Tail(s)) \in Nat
  BY <1>1, EmptySeq, LenProperties
<1>3. 1 \in 1 .. Len(s)
  BY <1>2
<1>4. s[1] \in Steps
  BY <1>3
<1>5. Head(s) = s[1]
  OBVIOUS
<1> QED
  BY <1>1, <1>2, <1>3, <1>4, <1>5 DEF Shift

LEMMA TailOK ==
  ASSUME NEW s \in Seq(Steps), s # << >>, ProgramOK(s)
  PROVE  ProgramOK(Tail(s))
<1>1. PICK t : t = Tail(s)
  OBVIOUS
<1>2. t \in Seq(Steps) /\ Shift(s, t, 1)
  BY <1>1, TailShift
<1>3. /\ Len(s) \in Nat /\ Len(t) \in Nat /\ Len(s) = Len(t) + 1
      /\ \A i \in 1 .. Len(t) : t[i] = s[i + 1] /\ i + 1 \in 1 .. Len(s)
  BY <1>2 DEF Shift
<1>4. ASSUME NEW i \in 1 .. Len(t)
      PROVE  AheadOK(t, i)
  BY <1>2, <1>3, AheadShift, ProgramParts
<1>5. ASSUME NEW i \in 1 .. Len(t)
      PROVE  BeforeOK(t, i)
  <2>1. BeforeOK(s, i + 1) /\ t[i] = s[i + 1]
    BY <1>3, ProgramParts
  <2>2. ASSUME NEW h \in 1 .. i - 1
        PROVE  h + 1 \in 1 .. (i + 1) - 1 /\ t[h] = s[h + 1]
    BY <1>3, <2>2
  <2> QED
    BY <2>1, <2>2 DEF BeforeOK
<1> QED
  BY <1>1, <1>4, <1>5, ProgramParts

\* Nothing in t looks back beyond t.
Plain(t) ==
    /\ \A i \in 1 .. Len(t) : t[i].cmd \notin {"delGroup", "delGroupMember"} /\ ~Founds(t[i])
    /\ Len(t) > 0 => t[1].cmd # "getGroupMember"

LEMMA PlainTail ==
  ASSUME NEW s \in Seq(Steps), s # << >>, ProgramOK(s),
         s[1].cmd \notin {"UserRemoveGroups", "UserSetGroups", "delGroup", "delGroupManager",
                          "GroupExists", "addGroup", "SetGroupMember", "getGroupuuid"}
  PROVE  Plain(Tail(s))
<1>1. PICK t : t = Tail(s)
  OBVIOUS
<1>2. t \in Seq(Steps) /\ Shift(s, t, 1)
  BY <1>1, TailShift
<1>3. /\ Len(s) \in Nat /\ Len(t) \in Nat /\ Len(s) = Len(t) + 1
      /\ \A i \in 1 .. Len(t) : t[i] = s[i + 1] /\ i + 1 \in 1 .. Len(s)
  BY <1>2 DEF Shift
<1>4. ASSUME NEW i \in 1 .. Len(t)
      PROVE  t[i].cmd \notin {"delGroup", "delGroupMember"} /\ ~Founds(t[i])
  <2>1. BeforeOK(s, i + 1) /\ t[i] = s[i + 1]
    BY <1>3, ProgramParts
  <2>2. 1 \in 1 .. (i + 1) - 1
    BY <1>3
  <2> QED
    BY <2>1, <2>2 DEF BeforeOK
<1>5. ASSUME Len(t) > 0
      PROVE  t[1].cmd # "getGroupMember"
  <2>1. 1 \in 1 .. Len(t) /\ 1 \in 1 .. Len(s) /\ 1 < Len(s) /\ 1 + 1 = 2
    BY <1>3, <1>5
  <2>2. t[1] = s[2] /\ NextOK(s, 1)
    BY <1>3, <2>1, ProgramParts DEF AheadOK
  <2> QED
    BY <2>1, <2>2 DEF NextOK
<1> QED
  BY <1>1, <1>4, <1>5 DEF Plain

LEMMA JoinOK ==
  ASSUME NEW f \in Seq(Steps), NEW t \in Seq(Steps), ProgramOK(f), ProgramOK(t),
         \A i \in 1 .. Len(f) : f[i].cmd # "deleteHashKey", Plain(t)
  PROVE  f \o t \in Seq(Steps) /\ ProgramOK(f \o t)
<1>1. PICK r : r = f \o t
  OBVIOUS
<1>2. /\ r \in Seq(Steps) /\ Len(r) = Len(f) + Len(t)
      /\ \A i \in 1 .. Len(f) + Len(t) : r[i] = IF i <= Len(f) THEN f[i] ELSE t[i - Len(f)]
  BY <1>1, ConcatProperties
<1>3. Len(f) \in Nat /\ Len(t) \in Nat /\ Len(r) \in Nat
  BY <1>2, LenProperties
<1>4. Prefix(f, r)
  BY <1>2, <1>3 DEF Prefix
<1>5. Shift(r, t, Len(f))
  <2>1. ASSUME NEW i \in 1 .. Len(t)
        PROVE  t[i] = r[i + Len(f)]
    <3>1. i + Len(f) \in 1 .. Len(f) + Len(t) /\ ~(i + Len(f) <= Len(f)) /\ (i + Len(f)) - Len(f) = i
      BY <1>3
    <3> QED
      BY <1>2, <3>1
  <2> QED
    BY <1>2, <1>3, <2>1 DEF Shift
<1>6. ASSUME NEW i \in 1 .. Len(f)
      PROVE  AheadOK(r, i) /\ BeforeOK(r, i)
  <2>1. AheadOK(f, i) /\ BeforeOK(f, i)
    BY ProgramParts
  <2>2. ASSUME i = Len(f), i < Len(r)
        PROVE  r[i + 1].cmd # "getGroupMember"
    <3>1. Len(t) > 0 /\ i + 1 \in 1 .. Len(f) + Len(t) /\ ~(i + 1 <= Len(f)) /\ (i + 1) - Len(f) = 1
      BY <1>2, <1>3, <2>2
    <3>2. r[i + 1] = t[1]
      BY <1>2, <3>1
    <3> QED
      BY <3>1, <3>2 DEF Plain
  <2>3. AheadOK(r, i)
    BY <1>4, <2>1, <2>2, AheadPrefix
  <2>4. ASSUME NEW h \in 1 .. i - 1
        PROVE  r[h] = f[h]
    BY <1>3, <1>4, <2>4 DEF Prefix
  <2>5. r[i] = f[i]
    BY <1>4 DEF Prefix
  <2>6. BeforeOK(r, i)
    BY <2>1, <2>4, <2>5 DEF BeforeOK
  <2> QED
    BY <2>3, <2>6
<1>7. ASSUME NEW j \in 1 .. Len(t)
      PROVE  AheadOK(t, j) /\ ~(t[j].cmd \in {"delGroup", "delGroupMember"}) /\ ~Founds(t[j])
  BY ProgramParts DEF Plain
<1>8. ASSUME NEW i \in 1 .. Len(r), i \notin 1 .. Len(f)
      PROVE  AheadOK(r, i) /\ BeforeOK(r, i)
  <2>1. PICK j \in 1 .. Len(t) : j = i - Len(f) /\ i = j + Len(f)
    BY <1>2, <1>3, <1>8
  <2>2. r[i] = t[j]
    BY <1>5, <2>1 DEF Shift
  <2>3. BeforeOK(r, i)
    BY <1>7, <2>2 DEF BeforeOK
  <2>4. AheadOK(r, i)
    BY ZenonT(60), <1>5, <1>7, <2>1, AheadShift
  <2> QED
    BY <2>3, <2>4
<1> QED
  BY <1>1, <1>2, <1>6, <1>8, ProgramParts

-----------------------------------------------------------------------------
(* Programs.                                                               *)

AllKeys == Keys \cup {NoKey} \cup (Founders \X Names)

\* A command, field by field.
Is(c, cmd, mode, x, r, k) ==
    c \in Steps /\ c.cmd = cmd /\ c.mode = mode /\ c.who = x /\ c.role = r /\ c.key = k

LEMMA StepIs ==
  ASSUME NEW cmd \in Commands, NEW mode \in Modes, NEW x \in Users \cup {NoUser},
         NEW r \in Roles \cup {NoRole}, NEW k \in AllKeys
  PROVE  /\ Is(If(cmd, mode, x, r, k), cmd, mode, x, r, k)
         /\ Is(For(cmd, x, r, k), cmd, "go", x, r, k)
         /\ Is(On(cmd, k), cmd, "go", NoUser, NoRole, k)
<1>1. "go" \in Modes /\ NoRole \in Roles \cup {NoRole} /\ NoUser \in Users \cup {NoUser}
  BY DEF Modes
<1>2. /\ Step(cmd, mode, x, r, k) \in Steps /\ Step(cmd, "go", x, r, k) \in Steps
      /\ Step(cmd, "go", NoUser, NoRole, k) \in Steps
  BY <1>1 DEF Step, Steps, AllKeys
<1> QED
  BY <1>2 DEF Is, If, For, On, Step

LEMMA CommandNames ==
  /\ {"GroupExists", "getGroupuuid", "userFieldHexists", "getGroupManager",
      "getManagers", "isManager", "getGroupMember", "choose", "addGroup",
      "delGroup", "SetGroupMember", "removeGroupMember", "delGroupMember",
      "UserSetGroups", "UserRemoveGroups", "SetGroupManager",
      "removeGroupManager", "delGroupManager", "setGroupNotify",
      "delGroupNotify", "deleteHashKey"} \subseteq Commands
  /\ {"go", "needs", "unless", "or", "and"} \subseteq Modes
  /\ {"owner", "manager", "member"} \subseteq Roles \cup {NoRole}
  /\ NoRole \in Roles \cup {NoRole} /\ NoUser \in Users \cup {NoUser}
  /\ Users \subseteq Users \cup {NoUser} /\ Keys \subseteq AllKeys /\ NoKey \in AllKeys
  /\ \A k \in Keys : k[2] \in Founders /\ k[2] \in Users /\ swapped(k) \in AllKeys
<1>1. \A k \in Keys : k[2] \in Founders /\ swapped(k) \in Founders \X Names
  BY DEF Keys, swapped
<1>2. \A k \in Keys : k[2] \in Users
  BY <1>1, GroupsConstants
<1>3. /\ {"owner", "manager", "member"} \subseteq Roles \cup {NoRole}
      /\ NoRole \in Roles \cup {NoRole} /\ NoUser \in Users \cup {NoUser}
      /\ Users \subseteq Users \cup {NoUser}
  BY DEF Roles
<1>4. Keys \subseteq AllKeys /\ NoKey \in AllKeys
  BY DEF AllKeys
<1>5. \A k \in Keys : swapped(k) \in AllKeys
  BY <1>1 DEF AllKeys
<1>6. {"go", "needs", "unless", "or", "and"} \subseteq Modes
  BY DEF Modes
<1>7. {"GroupExists", "getGroupuuid", "userFieldHexists", "getGroupManager",
       "getManagers", "isManager", "getGroupMember", "choose", "addGroup",
       "delGroup", "SetGroupMember", "removeGroupMember", "delGroupMember",
       "UserSetGroups", "UserRemoveGroups", "SetGroupManager",
       "removeGroupManager", "delGroupManager", "setGroupNotify",
       "delGroupNotify", "deleteHashKey"} \subseteq Commands
  BY DEF Commands
<1> QED
  BY <1>1, <1>2, <1>3, <1>4, <1>5, <1>6, <1>7

\* A program that can begin: it neither ends a group nor relies on a uuid.
FreshProgram(s) ==
    /\ ProgramOK(s) /\ s # << >> /\ s[1].cmd \in NoId
    /\ \A i \in 1 .. Len(s) : s[i].cmd \notin {"delGroup", "delGroupMember"}
    /\ \A i \in 1 .. Len(s) : Founds(s[i]) => s[1].cmd = "GroupExists"

\* What a command promises by itself.
LEMMA FieldsAre ==
  ASSUME NEW c, NEW cmd, NEW mode, NEW x, NEW r, NEW k, Is(c, cmd, mode, x, r, k)
  PROVE  FieldsOK(c) <=>
            /\ cmd \in {"SetGroupMember", "removeGroupMember", "UserSetGroups", "UserRemoveGroups",
                        "SetGroupManager", "removeGroupManager", "setGroupNotify", "delGroupNotify",
                        "isManager", "getGroupManager", "userFieldHexists"} => x \in Users
            /\ cmd \in {"GroupExists", "getGroupuuid", "addGroup", "delGroup", "getGroupMember",
                        "getManagers", "getGroupManager", "choose", "UserSetGroups"} => k \in Keys
            /\ cmd \in {"SetGroupMember", "removeGroupMember"} => r \in Roles
            /\ cmd = "removeGroupMember" => r # "owner"
            /\ cmd = "SetGroupManager" => r \in {"owner", "manager"}
            /\ mode = "or" => cmd = "removeGroupMember"
            /\ mode = "and" <=> cmd = "isManager"
            /\ mode = "unless" => cmd = "GroupExists"
            /\ mode = "needs" => cmd \notin {"UserRemoveGroups", "UserSetGroups"}
  BY DEF Is, FieldsOK

Opening(s, i) ==
    /\ s[1].cmd \in NoId /\ s[i].cmd \notin {"delGroup", "delGroupMember"}
    /\ Founds(s[i]) => s[1].cmd = "GroupExists"

LEMMA FreshIf ==
  ASSUME NEW s \in Seq(Steps), Len(s) \in Nat \ {0},
         \A i \in 1 .. Len(s) : AheadOK(s, i) /\ BeforeOK(s, i),
         \A i \in 1 .. Len(s) : Opening(s, i)
  PROVE  FreshProgram(s)
<1>1. 1 \in 1 .. Len(s) /\ s # << >>
  BY EmptySeq
<1>2. ProgramOK(s)
  BY ProgramParts
<1>3. s[1].cmd \in NoId
  BY <1>1 DEF Opening
<1> QED
  BY <1>1, <1>2, <1>3 DEF FreshProgram, Opening

\* The program asks no managers, and tells them nothing.
Asking == {"setGroupNotify", "delGroupNotify", "getManagers"}
AsksNobody(s) == \A i \in 1 .. Len(s) : s[i].cmd \notin Asking

LEMMA TupleOfTwo ==
  ASSUME NEW S, NEW a \in S, NEW b \in S,
         NEW s, s = << a, b >>
  PROVE  s \in Seq(S) /\ Len(s) = 2 /\ s[1] = a /\ s[2] = b
  OBVIOUS

LEMMA TupleOfThree ==
  ASSUME NEW S, NEW a \in S, NEW b \in S, NEW c \in S,
         NEW s, s = << a, b, c >>
  PROVE  s \in Seq(S) /\ Len(s) = 3 /\ s[1] = a /\ s[2] = b /\ s[3] = c
  OBVIOUS

LEMMA TupleOfFour ==
  ASSUME NEW S, NEW a \in S, NEW b \in S, NEW c \in S, NEW d \in S,
         NEW s, s = << a, b, c, d >>
  PROVE  s \in Seq(S) /\ Len(s) = 4 /\ s[1] = a /\ s[2] = b /\ s[3] = c /\ s[4] = d
  OBVIOUS

LEMMA TupleOfFive ==
  ASSUME NEW S, NEW a \in S, NEW b \in S, NEW c \in S, NEW d \in S, NEW e \in S,
         NEW s, s = << a, b, c, d, e >>
  PROVE  s \in Seq(S) /\ Len(s) = 5 /\ s[1] = a /\ s[2] = b /\ s[3] = c /\ s[4] = d /\ s[5] = e
  OBVIOUS

LEMMA OneAndOne ==
  ASSUME NEW S, NEW a \in S, NEW b \in S
  PROVE  << a >> \o << >> \o << b >> = << a, b >>
<1>1. << a >> \in Seq(S) /\ << b >> \in Seq(S) /\ << a >> \o << >> = << a >>
  BY ConcatEmptySeq
<1>2. PICK t : t = << a >> \o << b >>
  OBVIOUS
<1>3. /\ t \in Seq(S) /\ Len(t) = 2
      /\ \A i \in 1 .. 2 : t[i] = IF i <= 1 THEN << a >>[i] ELSE << b >>[i - 1]
  BY <1>1, <1>2, ConcatProperties
<1>4. t[1] = a /\ t[2] = b
  BY <1>3
<1>5. t = << a, b >>
  BY <1>3, <1>4
<1> QED
  BY <1>1, <1>2, <1>5

LEMMA ThreeAndTwo ==
  ASSUME NEW S, NEW a \in S, NEW b \in S, NEW c \in S, NEW d \in S, NEW e \in S
  PROVE  << a >> \o << b, c, d >> \o << e >> = << a, b, c, d, e >>
<1>1. << a >> \in Seq(S) /\ << b, c, d >> \in Seq(S) /\ << e >> \in Seq(S)
  OBVIOUS
<1>2. PICK t : t = << a >> \o << b, c, d >>
  OBVIOUS
<1>3. /\ t \in Seq(S) /\ Len(t) = 4
      /\ \A i \in 1 .. 4 : t[i] = IF i <= 1 THEN << a >>[i] ELSE << b, c, d >>[i - 1]
  BY <1>1, <1>2, ConcatProperties
<1>4. t[1] = a /\ t[2] = b /\ t[3] = c /\ t[4] = d
  BY <1>3
<1>5. PICK r : r = t \o << e >>
  OBVIOUS
<1>6. /\ r \in Seq(S) /\ Len(r) = 5
      /\ \A i \in 1 .. 5 : r[i] = IF i <= 4 THEN t[i] ELSE << e >>[i - 4]
  <2>1. Len(t) = 4 /\ Len(<< e >>) = 1 /\ 4 + 1 = 5
    BY <1>3
  <2>2. /\ t \o << e >> \in Seq(S) /\ Len(t \o << e >>) = Len(t) + Len(<< e >>)
        /\ \A i \in 1 .. Len(t) + Len(<< e >>) :
              (t \o << e >>)[i] = IF i <= Len(t) THEN t[i] ELSE << e >>[i - Len(t)]
    BY <1>1, <1>3, ConcatProperties
  <2> QED
    BY <1>5, <2>1, <2>2
<1>7. r[1] = t[1] /\ r[2] = t[2] /\ r[3] = t[3] /\ r[4] = t[4] /\ r[5] = << e >>[1]
  BY <1>6
<1>8. r = << a, b, c, d, e >>
  BY <1>4, <1>6, <1>7
<1> QED
  BY <1>2, <1>5, <1>8

\* The commands that make a group.
LEMMA AddGroupSteps ==
  ASSUME NEW u \in Users, NEW k \in Keys, k[2] = u,
         NEW s, s = add_group_program(u, k)
  PROVE  /\ s \in Seq(Steps) /\ Len(s) = 5
         /\ Is(s[1], "GroupExists", "unless", NoUser, NoRole, k)
         /\ Is(s[2], "addGroup", "go", NoUser, NoRole, k)
         /\ Is(s[3], "SetGroupMember", "go", u, "owner", k)
         /\ Is(s[4], "UserSetGroups", "go", u, NoRole, k)
         /\ Is(s[5], "SetGroupManager", "go", u, "owner", k)
<1> DEFINE a == If("GroupExists", "unless", NoUser, NoRole, k)
           b == On("addGroup", k)
           c == For("SetGroupMember", u, "owner", k)
           d == For("UserSetGroups", u, NoRole, k)
           e == For("SetGroupManager", u, "owner", k)
<1>1. /\ Is(a, "GroupExists", "unless", NoUser, NoRole, k)
      /\ Is(b, "addGroup", "go", NoUser, NoRole, k)
      /\ Is(c, "SetGroupMember", "go", u, "owner", k)
      /\ Is(d, "UserSetGroups", "go", u, NoRole, k)
      /\ Is(e, "SetGroupManager", "go", u, "owner", k)
  BY CommandNames, StepIs
<1>2. a \in Steps /\ b \in Steps /\ c \in Steps /\ d \in Steps /\ e \in Steps
  BY <1>1 DEF Is
<1>3. s = << a, b, c, d, e >>
  BY DEF add_group_program
<1> HIDE DEF a, b, c, d, e
<1>4. s \in Seq(Steps) /\ Len(s) = 5 /\ s[1] = a /\ s[2] = b /\ s[3] = c /\ s[4] = d /\ s[5] = e
  BY <1>2, <1>3, TupleOfFive
<1> QED
  BY <1>1, <1>4

LEMMA AddGroupProgram ==
  ASSUME NEW u \in Users, NEW k \in Keys, k[2] = u,
         NEW s, s = add_group_program(u, k)
  PROVE  s \in Seq(Steps) /\ FreshProgram(s) /\ AsksNobody(s)
<1>1. /\ s \in Seq(Steps) /\ Len(s) = 5
      /\ Is(s[1], "GroupExists", "unless", NoUser, NoRole, k)
      /\ Is(s[2], "addGroup", "go", NoUser, NoRole, k)
      /\ Is(s[3], "SetGroupMember", "go", u, "owner", k)
      /\ Is(s[4], "UserSetGroups", "go", u, NoRole, k)
      /\ Is(s[5], "SetGroupManager", "go", u, "owner", k)
  BY AddGroupSteps
<1>7. s[1].cmd = "GroupExists" /\ s[2].cmd = "addGroup" /\ s[3].cmd = "SetGroupMember" /\ s[4].cmd = "UserSetGroups" /\ s[5].cmd = "SetGroupManager"
  BY <1>1 DEF Is
<1>8. Len(s) \in Nat \ {0}
  BY <1>1
<1>9. ASSUME NEW i \in 1 .. Len(s)
      PROVE  i = 1 \/ i = 2 \/ i = 3 \/ i = 4 \/ i = 5
  BY <1>1
<1>2. ASSUME NEW i \in 1 .. Len(s)
      PROVE  FieldsOK(s[i])
  <2>1. i = 1 \/ i = 2 \/ i = 3 \/ i = 4 \/ i = 5
    BY <1>9
  <2>2. {"owner", "manager", "member"} = Roles
    BY DEF Roles
  <2> QED
    BY <1>1, <2>1, <2>2 DEF FieldsOK, Is
<1>3. ASSUME NEW i \in 1 .. Len(s)
      PROVE  AheadOK(s, i) /\ BeforeOK(s, i)
  <2>1. i = 1 \/ i = 2 \/ i = 3 \/ i = 4 \/ i = 5
    BY <1>9
  <2>2. FieldsOK(s[i])
    BY <1>2
  <2>3. RemovalOK(s, i)
    BY <1>1, <2>1 DEF RemovalOK, Mending, Is
  <2>4. AppointOK(s, i)
    BY <1>1, <2>1 DEF AppointOK, Mending, Is
  <2>5. NextOK(s, i)
    BY <1>1, <1>7, <2>1 DEF NextOK, Is
  <2>6. BeforeOK(s, i)
    BY <1>1, <2>1 DEF BeforeOK, Founds, Is
  <2> QED
    BY <2>2, <2>3, <2>4, <2>5, <2>6 DEF AheadOK
<1>4. ASSUME NEW i \in 1 .. Len(s)
      PROVE  Opening(s, i)
  <2>1. i = 1 \/ i = 2 \/ i = 3 \/ i = 4 \/ i = 5
    BY <1>9
  <2> QED
    BY <1>1, <2>1 DEF Opening, Founds, NoId, Is
<1>5. ASSUME NEW i \in 1 .. Len(s)
      PROVE  s[i].cmd \notin Asking
  <2>1. i = 1 \/ i = 2 \/ i = 3 \/ i = 4 \/ i = 5
    BY <1>9
  <2> QED
    BY <1>7, <2>1 DEF Asking
<1>6. FreshProgram(s)
  BY <1>1, <1>8, <1>3, <1>4, FreshIf
<1>10. AsksNobody(s)
  BY <1>5 DEF AsksNobody
<1> QED
  BY <1>1, <1>6, <1>10

\* The commands of an application.
LEMMA JoinSteps ==
  ASSUME NEW u \in Users, NEW k \in Keys,
         NEW s, s = join_group_program(u, k)
  PROVE  /\ s \in Seq(Steps) /\ Len(s) = 3
         /\ Is(s[1], "GroupExists", "needs", NoUser, NoRole, k)
         /\ Is(s[2], "getGroupuuid", "go", NoUser, NoRole, k)
         /\ Is(s[3], "getManagers", "go", u, NoRole, k)
<1> DEFINE a == If("GroupExists", "needs", NoUser, NoRole, k)
           b == On("getGroupuuid", k)
           c == For("getManagers", u, NoRole, k)
<1>1. /\ Is(a, "GroupExists", "needs", NoUser, NoRole, k)
      /\ Is(b, "getGroupuuid", "go", NoUser, NoRole, k)
      /\ Is(c, "getManagers", "go", u, NoRole, k)
  BY CommandNames, StepIs
<1>2. a \in Steps /\ b \in Steps /\ c \in Steps
  BY <1>1 DEF Is
<1>3. s = << a, b, c >>
  BY DEF join_group_program
<1> HIDE DEF a, b, c
<1>4. s \in Seq(Steps) /\ Len(s) = 3 /\ s[1] = a /\ s[2] = b /\ s[3] = c
  BY <1>2, <1>3, TupleOfThree
<1> QED
  BY <1>1, <1>4

LEMMA JoinProgram ==
  ASSUME NEW u \in Users, NEW k \in Keys,
         NEW s, s = join_group_program(u, k)
  PROVE  s \in Seq(Steps) /\ FreshProgram(s)
<1>1. /\ s \in Seq(Steps) /\ Len(s) = 3
      /\ Is(s[1], "GroupExists", "needs", NoUser, NoRole, k)
      /\ Is(s[2], "getGroupuuid", "go", NoUser, NoRole, k)
      /\ Is(s[3], "getManagers", "go", u, NoRole, k)
  BY JoinSteps
<1>7. s[1].cmd = "GroupExists" /\ s[2].cmd = "getGroupuuid" /\ s[3].cmd = "getManagers"
  BY <1>1 DEF Is
<1>8. Len(s) \in Nat \ {0}
  BY <1>1
<1>9. ASSUME NEW i \in 1 .. Len(s)
      PROVE  i = 1 \/ i = 2 \/ i = 3
  BY <1>1
<1>2. ASSUME NEW i \in 1 .. Len(s)
      PROVE  FieldsOK(s[i])
  <2>1. i = 1 \/ i = 2 \/ i = 3
    BY <1>9
  <2>2. {"owner", "manager", "member"} = Roles
    BY DEF Roles
  <2> QED
    BY <1>1, <2>1, <2>2 DEF FieldsOK, Is
<1>3. ASSUME NEW i \in 1 .. Len(s)
      PROVE  AheadOK(s, i) /\ BeforeOK(s, i)
  <2>1. i = 1 \/ i = 2 \/ i = 3
    BY <1>9
  <2>2. FieldsOK(s[i])
    BY <1>2
  <2>3. RemovalOK(s, i)
    BY <1>1, <2>1 DEF RemovalOK, Mending, Is
  <2>4. AppointOK(s, i)
    BY <1>1, <2>1 DEF AppointOK, Mending, Is
  <2>5. NextOK(s, i)
    BY <1>1, <1>7, <2>1 DEF NextOK
  <2>6. BeforeOK(s, i)
    BY <1>1, <2>1 DEF BeforeOK, Founds, Is
  <2> QED
    BY <2>2, <2>3, <2>4, <2>5, <2>6 DEF AheadOK
<1>4. ASSUME NEW i \in 1 .. Len(s)
      PROVE  Opening(s, i)
  <2>1. i = 1 \/ i = 2 \/ i = 3
    BY <1>9
  <2> QED
    BY <1>1, <2>1 DEF Opening, Founds, NoId, Is
<1>6. FreshProgram(s)
  BY <1>1, <1>8, <1>3, <1>4, FreshIf
<1> QED
  BY <1>1, <1>6

\* The commands of an acceptance.
LEMMA AcceptSteps ==
  ASSUME NEW x \in Users, NEW k \in Keys,
         NEW s, s = << On("getGroupuuid", k) >>
                 \o << If("userFieldHexists", "needs", x, NoRole, k),
                       For("SetGroupMember", x, "member", k),
                       For("UserSetGroups", x, NoRole, k) >>
                 \o << For("getManagers", x, NoRole, k) >>
  PROVE  /\ s \in Seq(Steps) /\ Len(s) = 5
         /\ Is(s[1], "getGroupuuid", "go", NoUser, NoRole, k)
         /\ Is(s[2], "userFieldHexists", "needs", x, NoRole, k)
         /\ Is(s[3], "SetGroupMember", "go", x, "member", k)
         /\ Is(s[4], "UserSetGroups", "go", x, NoRole, k)
         /\ Is(s[5], "getManagers", "go", x, NoRole, k)
<1> DEFINE a == On("getGroupuuid", k)
           b == If("userFieldHexists", "needs", x, NoRole, k)
           c == For("SetGroupMember", x, "member", k)
           d == For("UserSetGroups", x, NoRole, k)
           e == For("getManagers", x, NoRole, k)
<1>1. /\ Is(a, "getGroupuuid", "go", NoUser, NoRole, k)
      /\ Is(b, "userFieldHexists", "needs", x, NoRole, k)
      /\ Is(c, "SetGroupMember", "go", x, "member", k)
      /\ Is(d, "UserSetGroups", "go", x, NoRole, k)
      /\ Is(e, "getManagers", "go", x, NoRole, k)
  BY CommandNames, StepIs
<1>2. a \in Steps /\ b \in Steps /\ c \in Steps /\ d \in Steps /\ e \in Steps
  BY <1>1 DEF Is
<1>3. s = << a, b, c, d, e >>
  BY <1>2, ThreeAndTwo
<1> HIDE DEF a, b, c, d, e
<1>4. s \in Seq(Steps) /\ Len(s) = 5 /\ s[1] = a /\ s[2] = b /\ s[3] = c /\ s[4] = d /\ s[5] = e
  BY <1>2, <1>3, TupleOfFive
<1> QED
  BY <1>1, <1>4

LEMMA AcceptProgram ==
  ASSUME NEW x \in Users, NEW k \in Keys,
         NEW s, s = << On("getGroupuuid", k) >>
                 \o << If("userFieldHexists", "needs", x, NoRole, k),
                       For("SetGroupMember", x, "member", k),
                       For("UserSetGroups", x, NoRole, k) >>
                 \o << For("getManagers", x, NoRole, k) >>
  PROVE  s \in Seq(Steps) /\ FreshProgram(s)
<1>1. /\ s \in Seq(Steps) /\ Len(s) = 5
      /\ Is(s[1], "getGroupuuid", "go", NoUser, NoRole, k)
      /\ Is(s[2], "userFieldHexists", "needs", x, NoRole, k)
      /\ Is(s[3], "SetGroupMember", "go", x, "member", k)
      /\ Is(s[4], "UserSetGroups", "go", x, NoRole, k)
      /\ Is(s[5], "getManagers", "go", x, NoRole, k)
  BY AcceptSteps
<1>7. s[1].cmd = "getGroupuuid" /\ s[2].cmd = "userFieldHexists" /\ s[3].cmd = "SetGroupMember" /\ s[4].cmd = "UserSetGroups" /\ s[5].cmd = "getManagers"
  BY <1>1 DEF Is
<1>8. Len(s) \in Nat \ {0}
  BY <1>1
<1>9. ASSUME NEW i \in 1 .. Len(s)
      PROVE  i = 1 \/ i = 2 \/ i = 3 \/ i = 4 \/ i = 5
  BY <1>1
<1>2. ASSUME NEW i \in 1 .. Len(s)
      PROVE  FieldsOK(s[i])
  <2>1. i = 1 \/ i = 2 \/ i = 3 \/ i = 4 \/ i = 5
    BY <1>9
  <2>2. {"owner", "manager", "member"} = Roles
    BY DEF Roles
  <2> QED
    BY <1>1, <2>1, <2>2 DEF FieldsOK, Is
<1>3. ASSUME NEW i \in 1 .. Len(s)
      PROVE  AheadOK(s, i) /\ BeforeOK(s, i)
  <2>1. i = 1 \/ i = 2 \/ i = 3 \/ i = 4 \/ i = 5
    BY <1>9
  <2>2. FieldsOK(s[i])
    BY <1>2
  <2>3. RemovalOK(s, i)
    BY <1>1, <2>1 DEF RemovalOK, Mending, Is
  <2>4. AppointOK(s, i)
    BY <1>1, <2>1 DEF AppointOK, Mending, Is
  <2>5. NextOK(s, i)
    BY <1>1, <1>7, <2>1 DEF NextOK
  <2>6. BeforeOK(s, i)
    BY <1>1, <2>1 DEF BeforeOK, Founds, Is
  <2> QED
    BY <2>2, <2>3, <2>4, <2>5, <2>6 DEF AheadOK
<1>4. ASSUME NEW i \in 1 .. Len(s)
      PROVE  Opening(s, i)
  <2>1. i = 1 \/ i = 2 \/ i = 3 \/ i = 4 \/ i = 5
    BY <1>9
  <2> QED
    BY <1>1, <2>1 DEF Opening, Founds, NoId, Is
<1>6. FreshProgram(s)
  BY <1>1, <1>8, <1>3, <1>4, FreshIf
<1> QED
  BY <1>1, <1>6

\* The commands of a refusal.
LEMMA RefuseSteps ==
  ASSUME NEW x \in Users, NEW k \in Keys,
         NEW s, s = << On("getGroupuuid", k) >> \o << >> \o << For("getManagers", x, NoRole, k) >>
  PROVE  /\ s \in Seq(Steps) /\ Len(s) = 2
         /\ Is(s[1], "getGroupuuid", "go", NoUser, NoRole, k)
         /\ Is(s[2], "getManagers", "go", x, NoRole, k)
<1> DEFINE a == On("getGroupuuid", k)
           b == For("getManagers", x, NoRole, k)
<1>1. /\ Is(a, "getGroupuuid", "go", NoUser, NoRole, k)
      /\ Is(b, "getManagers", "go", x, NoRole, k)
  BY CommandNames, StepIs
<1>2. a \in Steps /\ b \in Steps
  BY <1>1 DEF Is
<1>3. s = << a, b >>
  BY <1>2, OneAndOne
<1> HIDE DEF a, b
<1>4. s \in Seq(Steps) /\ Len(s) = 2 /\ s[1] = a /\ s[2] = b
  BY <1>2, <1>3, TupleOfTwo
<1> QED
  BY <1>1, <1>4

LEMMA RefuseProgram ==
  ASSUME NEW x \in Users, NEW k \in Keys,
         NEW s, s = << On("getGroupuuid", k) >> \o << >> \o << For("getManagers", x, NoRole, k) >>
  PROVE  s \in Seq(Steps) /\ FreshProgram(s)
<1>1. /\ s \in Seq(Steps) /\ Len(s) = 2
      /\ Is(s[1], "getGroupuuid", "go", NoUser, NoRole, k)
      /\ Is(s[2], "getManagers", "go", x, NoRole, k)
  BY RefuseSteps
<1>7. s[1].cmd = "getGroupuuid" /\ s[2].cmd = "getManagers"
  BY <1>1 DEF Is
<1>8. Len(s) \in Nat \ {0}
  BY <1>1
<1>9. ASSUME NEW i \in 1 .. Len(s)
      PROVE  i = 1 \/ i = 2
  BY <1>1
<1>2. ASSUME NEW i \in 1 .. Len(s)
      PROVE  FieldsOK(s[i])
  <2>1. i = 1 \/ i = 2
    BY <1>9
  <2>2. {"owner", "manager", "member"} = Roles
    BY DEF Roles
  <2> QED
    BY <1>1, <2>1, <2>2 DEF FieldsOK, Is
<1>3. ASSUME NEW i \in 1 .. Len(s)
      PROVE  AheadOK(s, i) /\ BeforeOK(s, i)
  <2>1. i = 1 \/ i = 2
    BY <1>9
  <2>2. FieldsOK(s[i])
    BY <1>2
  <2>3. RemovalOK(s, i)
    BY <1>1, <2>1 DEF RemovalOK, Mending, Is
  <2>4. AppointOK(s, i)
    BY <1>1, <2>1 DEF AppointOK, Mending, Is
  <2>5. NextOK(s, i)
    BY <1>1, <1>7, <2>1 DEF NextOK
  <2>6. BeforeOK(s, i)
    BY <1>1, <2>1 DEF BeforeOK, Founds, Is
  <2> QED
    BY <2>2, <2>3, <2>4, <2>5, <2>6 DEF AheadOK
<1>4. ASSUME NEW i \in 1 .. Len(s)
      PROVE  Opening(s, i)
  <2>1. i = 1 \/ i = 2
    BY <1>9
  <2> QED
    BY <1>1, <2>1 DEF Opening, Founds, NoId, Is
<1>6. FreshProgram(s)
  BY <1>1, <1>8, <1>3, <1>4, FreshIf
<1> QED
  BY <1>1, <1>6

\* The commands of an appointment.
LEMMA AddManagerSteps ==
  ASSUME NEW x \in Users, NEW k \in Keys,
         NEW s, s = add_manager_program(x, k)
  PROVE  /\ s \in Seq(Steps) /\ Len(s) = 4
         /\ Is(s[1], "getGroupuuid", "go", NoUser, NoRole, k)
         /\ Is(s[2], "SetGroupManager", "needs", x, "manager", k)
         /\ Is(s[3], "removeGroupMember", "go", x, "member", k)
         /\ Is(s[4], "SetGroupMember", "go", x, "manager", k)
<1> DEFINE a == On("getGroupuuid", k)
           b == If("SetGroupManager", "needs", x, "manager", k)
           c == For("removeGroupMember", x, "member", k)
           d == For("SetGroupMember", x, "manager", k)
<1>1. /\ Is(a, "getGroupuuid", "go", NoUser, NoRole, k)
      /\ Is(b, "SetGroupManager", "needs", x, "manager", k)
      /\ Is(c, "removeGroupMember", "go", x, "member", k)
      /\ Is(d, "SetGroupMember", "go", x, "manager", k)
  BY CommandNames, StepIs
<1>2. a \in Steps /\ b \in Steps /\ c \in Steps /\ d \in Steps
  BY <1>1 DEF Is
<1>3. s = << a, b, c, d >>
  BY DEF add_manager_program
<1> HIDE DEF a, b, c, d
<1>4. s \in Seq(Steps) /\ Len(s) = 4 /\ s[1] = a /\ s[2] = b /\ s[3] = c /\ s[4] = d
  BY <1>2, <1>3, TupleOfFour
<1> QED
  BY <1>1, <1>4

LEMMA AddManagerProgram ==
  ASSUME NEW x \in Users, NEW k \in Keys,
         NEW s, s = add_manager_program(x, k)
  PROVE  s \in Seq(Steps) /\ FreshProgram(s) /\ AsksNobody(s)
<1>1. /\ s \in Seq(Steps) /\ Len(s) = 4
      /\ Is(s[1], "getGroupuuid", "go", NoUser, NoRole, k)
      /\ Is(s[2], "SetGroupManager", "needs", x, "manager", k)
      /\ Is(s[3], "removeGroupMember", "go", x, "member", k)
      /\ Is(s[4], "SetGroupMember", "go", x, "manager", k)
  BY AddManagerSteps
<1>7. s[1].cmd = "getGroupuuid" /\ s[2].cmd = "SetGroupManager" /\ s[3].cmd = "removeGroupMember" /\ s[4].cmd = "SetGroupMember"
  BY <1>1 DEF Is
<1>8. Len(s) \in Nat \ {0}
  BY <1>1
<1>9. ASSUME NEW i \in 1 .. Len(s)
      PROVE  i = 1 \/ i = 2 \/ i = 3 \/ i = 4
  BY <1>1
<1>2. ASSUME NEW i \in 1 .. Len(s)
      PROVE  FieldsOK(s[i])
  <2>1. i = 1 \/ i = 2 \/ i = 3 \/ i = 4
    BY <1>9
  <2>2. {"owner", "manager", "member"} = Roles
    BY DEF Roles
  <2> QED
    BY <1>1, <2>1, <2>2 DEF FieldsOK, Is
<1>3. ASSUME NEW i \in 1 .. Len(s)
      PROVE  AheadOK(s, i) /\ BeforeOK(s, i)
  <2>1. i = 1 \/ i = 2 \/ i = 3 \/ i = 4
    BY <1>9
  <2>2. FieldsOK(s[i])
    BY <1>2
  <2>3. RemovalOK(s, i)
    BY <1>1, <2>1 DEF RemovalOK, Mending, Is
  <2>4. AppointOK(s, i)
    BY <1>1, <2>1 DEF AppointOK, Mending, Is
  <2>5. NextOK(s, i)
    BY <1>1, <1>7, <2>1 DEF NextOK
  <2>6. BeforeOK(s, i)
    BY <1>1, <2>1 DEF BeforeOK, Founds, Is
  <2> QED
    BY <2>2, <2>3, <2>4, <2>5, <2>6 DEF AheadOK
<1>4. ASSUME NEW i \in 1 .. Len(s)
      PROVE  Opening(s, i)
  <2>1. i = 1 \/ i = 2 \/ i = 3 \/ i = 4
    BY <1>9
  <2> QED
    BY <1>1, <2>1 DEF Opening, Founds, NoId, Is
<1>5. ASSUME NEW i \in 1 .. Len(s)
      PROVE  s[i].cmd \notin Asking
  <2>1. i = 1 \/ i = 2 \/ i = 3 \/ i = 4
    BY <1>9
  <2> QED
    BY <1>7, <2>1 DEF Asking
<1>6. FreshProgram(s)
  BY <1>1, <1>8, <1>3, <1>4, FreshIf
<1>10. AsksNobody(s)
  BY <1>5 DEF AsksNobody
<1> QED
  BY <1>1, <1>6, <1>10

\* The commands of a dismissal.
LEMMA DelManagerSteps ==
  ASSUME NEW x \in Users, NEW k \in Keys,
         NEW s, s = del_manager_program(x, k)
  PROVE  /\ s \in Seq(Steps) /\ Len(s) = 4
         /\ Is(s[1], "getGroupuuid", "go", NoUser, NoRole, k)
         /\ Is(s[2], "removeGroupManager", "needs", x, NoRole, k)
         /\ Is(s[3], "removeGroupMember", "go", x, "manager", k)
         /\ Is(s[4], "SetGroupMember", "go", x, "member", k)
<1> DEFINE a == On("getGroupuuid", k)
           b == If("removeGroupManager", "needs", x, NoRole, k)
           c == For("removeGroupMember", x, "manager", k)
           d == For("SetGroupMember", x, "member", k)
<1>1. /\ Is(a, "getGroupuuid", "go", NoUser, NoRole, k)
      /\ Is(b, "removeGroupManager", "needs", x, NoRole, k)
      /\ Is(c, "removeGroupMember", "go", x, "manager", k)
      /\ Is(d, "SetGroupMember", "go", x, "member", k)
  BY CommandNames, StepIs
<1>2. a \in Steps /\ b \in Steps /\ c \in Steps /\ d \in Steps
  BY <1>1 DEF Is
<1>3. s = << a, b, c, d >>
  BY DEF del_manager_program
<1> HIDE DEF a, b, c, d
<1>4. s \in Seq(Steps) /\ Len(s) = 4 /\ s[1] = a /\ s[2] = b /\ s[3] = c /\ s[4] = d
  BY <1>2, <1>3, TupleOfFour
<1> QED
  BY <1>1, <1>4

LEMMA DelManagerProgram ==
  ASSUME NEW x \in Users, NEW k \in Keys,
         NEW s, s = del_manager_program(x, k)
  PROVE  s \in Seq(Steps) /\ FreshProgram(s) /\ AsksNobody(s)
<1>1. /\ s \in Seq(Steps) /\ Len(s) = 4
      /\ Is(s[1], "getGroupuuid", "go", NoUser, NoRole, k)
      /\ Is(s[2], "removeGroupManager", "needs", x, NoRole, k)
      /\ Is(s[3], "removeGroupMember", "go", x, "manager", k)
      /\ Is(s[4], "SetGroupMember", "go", x, "member", k)
  BY DelManagerSteps
<1>7. s[1].cmd = "getGroupuuid" /\ s[2].cmd = "removeGroupManager" /\ s[3].cmd = "removeGroupMember" /\ s[4].cmd = "SetGroupMember"
  BY <1>1 DEF Is
<1>8. Len(s) \in Nat \ {0}
  BY <1>1
<1>9. ASSUME NEW i \in 1 .. Len(s)
      PROVE  i = 1 \/ i = 2 \/ i = 3 \/ i = 4
  BY <1>1
<1>2. ASSUME NEW i \in 1 .. Len(s)
      PROVE  FieldsOK(s[i])
  <2>1. i = 1 \/ i = 2 \/ i = 3 \/ i = 4
    BY <1>9
  <2>2. {"owner", "manager", "member"} = Roles
    BY DEF Roles
  <2> QED
    BY <1>1, <2>1, <2>2 DEF FieldsOK, Is
<1>3. ASSUME NEW i \in 1 .. Len(s)
      PROVE  AheadOK(s, i) /\ BeforeOK(s, i)
  <2>1. i = 1 \/ i = 2 \/ i = 3 \/ i = 4
    BY <1>9
  <2>2. FieldsOK(s[i])
    BY <1>2
  <2>3. RemovalOK(s, i)
    BY <1>1, <2>1 DEF RemovalOK, Mending, Is
  <2>4. AppointOK(s, i)
    BY <1>1, <2>1 DEF AppointOK, Mending, Is
  <2>5. NextOK(s, i)
    BY <1>1, <1>7, <2>1 DEF NextOK
  <2>6. BeforeOK(s, i)
    BY <1>1, <2>1 DEF BeforeOK, Founds, Is
  <2> QED
    BY <2>2, <2>3, <2>4, <2>5, <2>6 DEF AheadOK
<1>4. ASSUME NEW i \in 1 .. Len(s)
      PROVE  Opening(s, i)
  <2>1. i = 1 \/ i = 2 \/ i = 3 \/ i = 4
    BY <1>9
  <2> QED
    BY <1>1, <2>1 DEF Opening, Founds, NoId, Is
<1>5. ASSUME NEW i \in 1 .. Len(s)
      PROVE  s[i].cmd \notin Asking
  <2>1. i = 1 \/ i = 2 \/ i = 3 \/ i = 4
    BY <1>9
  <2> QED
    BY <1>7, <2>1 DEF Asking
<1>6. FreshProgram(s)
  BY <1>1, <1>8, <1>3, <1>4, FreshIf
<1>10. AsksNobody(s)
  BY <1>5 DEF AsksNobody
<1> QED
  BY <1>1, <1>6, <1>10

\* The commands that add a member.
LEMMA AddMemberSteps ==
  ASSUME NEW x \in Users, NEW k \in Keys,
         NEW s, s = add_member_program(x, k)
  PROVE  /\ s \in Seq(Steps) /\ Len(s) = 3
         /\ Is(s[1], "getGroupuuid", "go", NoUser, NoRole, k)
         /\ Is(s[2], "SetGroupMember", "needs", x, "member", k)
         /\ Is(s[3], "UserSetGroups", "go", x, NoRole, k)
<1> DEFINE a == On("getGroupuuid", k)
           b == If("SetGroupMember", "needs", x, "member", k)
           c == For("UserSetGroups", x, NoRole, k)
<1>1. /\ Is(a, "getGroupuuid", "go", NoUser, NoRole, k)
      /\ Is(b, "SetGroupMember", "needs", x, "member", k)
      /\ Is(c, "UserSetGroups", "go", x, NoRole, k)
  BY CommandNames, StepIs
<1>2. a \in Steps /\ b \in Steps /\ c \in Steps
  BY <1>1 DEF Is
<1>3. s = << a, b, c >>
  BY DEF add_member_program
<1> HIDE DEF a, b, c
<1>4. s \in Seq(Steps) /\ Len(s) = 3 /\ s[1] = a /\ s[2] = b /\ s[3] = c
  BY <1>2, <1>3, TupleOfThree
<1> QED
  BY <1>1, <1>4

LEMMA AddMemberProgram ==
  ASSUME NEW x \in Users, NEW k \in Keys,
         NEW s, s = add_member_program(x, k)
  PROVE  s \in Seq(Steps) /\ FreshProgram(s) /\ AsksNobody(s)
<1>1. /\ s \in Seq(Steps) /\ Len(s) = 3
      /\ Is(s[1], "getGroupuuid", "go", NoUser, NoRole, k)
      /\ Is(s[2], "SetGroupMember", "needs", x, "member", k)
      /\ Is(s[3], "UserSetGroups", "go", x, NoRole, k)
  BY AddMemberSteps
<1>7. s[1].cmd = "getGroupuuid" /\ s[2].cmd = "SetGroupMember" /\ s[3].cmd = "UserSetGroups"
  BY <1>1 DEF Is
<1>8. Len(s) \in Nat \ {0}
  BY <1>1
<1>9. ASSUME NEW i \in 1 .. Len(s)
      PROVE  i = 1 \/ i = 2 \/ i = 3
  BY <1>1
<1>2. ASSUME NEW i \in 1 .. Len(s)
      PROVE  FieldsOK(s[i])
  <2>1. i = 1 \/ i = 2 \/ i = 3
    BY <1>9
  <2>2. {"owner", "manager", "member"} = Roles
    BY DEF Roles
  <2> QED
    BY <1>1, <2>1, <2>2 DEF FieldsOK, Is
<1>3. ASSUME NEW i \in 1 .. Len(s)
      PROVE  AheadOK(s, i) /\ BeforeOK(s, i)
  <2>1. i = 1 \/ i = 2 \/ i = 3
    BY <1>9
  <2>2. FieldsOK(s[i])
    BY <1>2
  <2>3. RemovalOK(s, i)
    BY <1>1, <2>1 DEF RemovalOK, Mending, Is
  <2>4. AppointOK(s, i)
    BY <1>1, <2>1 DEF AppointOK, Mending, Is
  <2>5. NextOK(s, i)
    BY <1>1, <1>7, <2>1 DEF NextOK
  <2>6. BeforeOK(s, i)
    BY <1>1, <2>1 DEF BeforeOK, Founds, Is
  <2> QED
    BY <2>2, <2>3, <2>4, <2>5, <2>6 DEF AheadOK
<1>4. ASSUME NEW i \in 1 .. Len(s)
      PROVE  Opening(s, i)
  <2>1. i = 1 \/ i = 2 \/ i = 3
    BY <1>9
  <2> QED
    BY <1>1, <2>1 DEF Opening, Founds, NoId, Is
<1>5. ASSUME NEW i \in 1 .. Len(s)
      PROVE  s[i].cmd \notin Asking
  <2>1. i = 1 \/ i = 2 \/ i = 3
    BY <1>9
  <2> QED
    BY <1>7, <2>1 DEF Asking
<1>6. FreshProgram(s)
  BY <1>1, <1>8, <1>3, <1>4, FreshIf
<1>10. AsksNobody(s)
  BY <1>5 DEF AsksNobody
<1> QED
  BY <1>1, <1>6, <1>10

\* The commands of a kick by the owner.
LEMMA DelByOwnerSteps ==
  ASSUME NEW x \in Users, NEW k \in Keys,
         NEW s, s = del_member_owner_program(x, k)
  PROVE  /\ s \in Seq(Steps) /\ Len(s) = 5
         /\ Is(s[1], "getGroupuuid", "go", NoUser, NoRole, k)
         /\ Is(s[2], "removeGroupMember", "or", x, "member", k)
         /\ Is(s[3], "removeGroupMember", "needs", x, "manager", k)
         /\ Is(s[4], "UserRemoveGroups", "go", x, NoRole, k)
         /\ Is(s[5], "removeGroupManager", "go", x, NoRole, k)
<1> DEFINE a == On("getGroupuuid", k)
           b == If("removeGroupMember", "or", x, "member", k)
           c == If("removeGroupMember", "needs", x, "manager", k)
           d == For("UserRemoveGroups", x, NoRole, k)
           e == For("removeGroupManager", x, NoRole, k)
<1>1. /\ Is(a, "getGroupuuid", "go", NoUser, NoRole, k)
      /\ Is(b, "removeGroupMember", "or", x, "member", k)
      /\ Is(c, "removeGroupMember", "needs", x, "manager", k)
      /\ Is(d, "UserRemoveGroups", "go", x, NoRole, k)
      /\ Is(e, "removeGroupManager", "go", x, NoRole, k)
  BY CommandNames, StepIs
<1>2. a \in Steps /\ b \in Steps /\ c \in Steps /\ d \in Steps /\ e \in Steps
  BY <1>1 DEF Is
<1>3. s = << a, b, c, d, e >>
  BY DEF del_member_owner_program
<1> HIDE DEF a, b, c, d, e
<1>4. s \in Seq(Steps) /\ Len(s) = 5 /\ s[1] = a /\ s[2] = b /\ s[3] = c /\ s[4] = d /\ s[5] = e
  BY <1>2, <1>3, TupleOfFive
<1> QED
  BY <1>1, <1>4

LEMMA DelByOwnerProgram ==
  ASSUME NEW x \in Users, NEW k \in Keys,
         NEW s, s = del_member_owner_program(x, k)
  PROVE  s \in Seq(Steps) /\ FreshProgram(s) /\ AsksNobody(s)
<1>1. /\ s \in Seq(Steps) /\ Len(s) = 5
      /\ Is(s[1], "getGroupuuid", "go", NoUser, NoRole, k)
      /\ Is(s[2], "removeGroupMember", "or", x, "member", k)
      /\ Is(s[3], "removeGroupMember", "needs", x, "manager", k)
      /\ Is(s[4], "UserRemoveGroups", "go", x, NoRole, k)
      /\ Is(s[5], "removeGroupManager", "go", x, NoRole, k)
  BY DelByOwnerSteps
<1>7. s[1].cmd = "getGroupuuid" /\ s[2].cmd = "removeGroupMember" /\ s[3].cmd = "removeGroupMember" /\ s[4].cmd = "UserRemoveGroups" /\ s[5].cmd = "removeGroupManager"
  BY <1>1 DEF Is
<1>8. Len(s) \in Nat \ {0}
  BY <1>1
<1>9. ASSUME NEW i \in 1 .. Len(s)
      PROVE  i = 1 \/ i = 2 \/ i = 3 \/ i = 4 \/ i = 5
  BY <1>1
<1>2. ASSUME NEW i \in 1 .. Len(s)
      PROVE  FieldsOK(s[i])
  <2>1. i = 1 \/ i = 2 \/ i = 3 \/ i = 4 \/ i = 5
    BY <1>9
  <2>2. {"owner", "manager", "member"} = Roles
    BY DEF Roles
  <2> QED
    BY <1>1, <2>1, <2>2 DEF FieldsOK, Is
<1>3. ASSUME NEW i \in 1 .. Len(s)
      PROVE  AheadOK(s, i) /\ BeforeOK(s, i)
  <2>1. i = 1 \/ i = 2 \/ i = 3 \/ i = 4 \/ i = 5
    BY <1>9
  <2>2. FieldsOK(s[i])
    BY <1>2
  <2>3. RemovalOK(s, i)
    BY <1>1, <2>1 DEF RemovalOK, Mending, Is
  <2>4. AppointOK(s, i)
    BY <1>1, <2>1 DEF AppointOK, Mending, Is
  <2>5. NextOK(s, i)
    BY <1>1, <1>7, <2>1 DEF NextOK
  <2>6. BeforeOK(s, i)
    BY <1>1, <2>1 DEF BeforeOK, Founds, Is
  <2> QED
    BY <2>2, <2>3, <2>4, <2>5, <2>6 DEF AheadOK
<1>4. ASSUME NEW i \in 1 .. Len(s)
      PROVE  Opening(s, i)
  <2>1. i = 1 \/ i = 2 \/ i = 3 \/ i = 4 \/ i = 5
    BY <1>9
  <2> QED
    BY <1>1, <2>1 DEF Opening, Founds, NoId, Is
<1>5. ASSUME NEW i \in 1 .. Len(s)
      PROVE  s[i].cmd \notin Asking
  <2>1. i = 1 \/ i = 2 \/ i = 3 \/ i = 4 \/ i = 5
    BY <1>9
  <2> QED
    BY <1>7, <2>1 DEF Asking
<1>6. FreshProgram(s)
  BY <1>1, <1>8, <1>3, <1>4, FreshIf
<1>10. AsksNobody(s)
  BY <1>5 DEF AsksNobody
<1> QED
  BY <1>1, <1>6, <1>10

\* The commands of a kick by a manager.
LEMMA DelByManagerSteps ==
  ASSUME NEW x \in Users, NEW k \in Keys,
         NEW s, s = del_member_manager_program(x, k)
  PROVE  /\ s \in Seq(Steps) /\ Len(s) = 5
         /\ Is(s[1], "getGroupuuid", "go", NoUser, NoRole, k)
         /\ Is(s[2], "getGroupManager", "go", x, NoRole, k)
         /\ Is(s[3], "removeGroupMember", "needs", x, "member", k)
         /\ Is(s[4], "UserRemoveGroups", "go", x, NoRole, swapped(k))
         /\ Is(s[5], "removeGroupManager", "go", x, NoRole, k)
<1> DEFINE a == On("getGroupuuid", k)
           b == For("getGroupManager", x, NoRole, k)
           c == If("removeGroupMember", "needs", x, "member", k)
           d == For("UserRemoveGroups", x, NoRole, swapped(k))
           e == For("removeGroupManager", x, NoRole, k)
<1>1. /\ Is(a, "getGroupuuid", "go", NoUser, NoRole, k)
      /\ Is(b, "getGroupManager", "go", x, NoRole, k)
      /\ Is(c, "removeGroupMember", "needs", x, "member", k)
      /\ Is(d, "UserRemoveGroups", "go", x, NoRole, swapped(k))
      /\ Is(e, "removeGroupManager", "go", x, NoRole, k)
  BY CommandNames, StepIs
<1>2. a \in Steps /\ b \in Steps /\ c \in Steps /\ d \in Steps /\ e \in Steps
  BY <1>1 DEF Is
<1>3. s = << a, b, c, d, e >>
  BY DEF del_member_manager_program
<1> HIDE DEF a, b, c, d, e
<1>4. s \in Seq(Steps) /\ Len(s) = 5 /\ s[1] = a /\ s[2] = b /\ s[3] = c /\ s[4] = d /\ s[5] = e
  BY <1>2, <1>3, TupleOfFive
<1> QED
  BY <1>1, <1>4

LEMMA DelByManagerProgram ==
  ASSUME NEW x \in Users, NEW k \in Keys,
         NEW s, s = del_member_manager_program(x, k)
  PROVE  s \in Seq(Steps) /\ FreshProgram(s) /\ AsksNobody(s)
<1>1. /\ s \in Seq(Steps) /\ Len(s) = 5
      /\ Is(s[1], "getGroupuuid", "go", NoUser, NoRole, k)
      /\ Is(s[2], "getGroupManager", "go", x, NoRole, k)
      /\ Is(s[3], "removeGroupMember", "needs", x, "member", k)
      /\ Is(s[4], "UserRemoveGroups", "go", x, NoRole, swapped(k))
      /\ Is(s[5], "removeGroupManager", "go", x, NoRole, k)
  BY DelByManagerSteps
<1>7. s[1].cmd = "getGroupuuid" /\ s[2].cmd = "getGroupManager" /\ s[3].cmd = "removeGroupMember" /\ s[4].cmd = "UserRemoveGroups" /\ s[5].cmd = "removeGroupManager"
  BY <1>1 DEF Is
<1>8. Len(s) \in Nat \ {0}
  BY <1>1
<1>9. ASSUME NEW i \in 1 .. Len(s)
      PROVE  i = 1 \/ i = 2 \/ i = 3 \/ i = 4 \/ i = 5
  BY <1>1
<1>2. ASSUME NEW i \in 1 .. Len(s)
      PROVE  FieldsOK(s[i])
  <2>1. i = 1 \/ i = 2 \/ i = 3 \/ i = 4 \/ i = 5
    BY <1>9
  <2>2. {"owner", "manager", "member"} = Roles
    BY DEF Roles
  <2> QED
    BY <1>1, <2>1, <2>2 DEF FieldsOK, Is
<1>3. ASSUME NEW i \in 1 .. Len(s)
      PROVE  AheadOK(s, i) /\ BeforeOK(s, i)
  <2>1. i = 1 \/ i = 2 \/ i = 3 \/ i = 4 \/ i = 5
    BY <1>9
  <2>2. FieldsOK(s[i])
    BY <1>2
  <2>3. RemovalOK(s, i)
    BY <1>1, <2>1 DEF RemovalOK, Mending, Is
  <2>4. AppointOK(s, i)
    BY <1>1, <2>1 DEF AppointOK, Mending, Is
  <2>5. NextOK(s, i)
    BY <1>1, <1>7, <2>1 DEF NextOK
  <2>6. BeforeOK(s, i)
    BY <1>1, <2>1 DEF BeforeOK, Founds, Is
  <2> QED
    BY <2>2, <2>3, <2>4, <2>5, <2>6 DEF AheadOK
<1>4. ASSUME NEW i \in 1 .. Len(s)
      PROVE  Opening(s, i)
  <2>1. i = 1 \/ i = 2 \/ i = 3 \/ i = 4 \/ i = 5
    BY <1>9
  <2> QED
    BY <1>1, <2>1 DEF Opening, Founds, NoId, Is
<1>5. ASSUME NEW i \in 1 .. Len(s)
      PROVE  s[i].cmd \notin Asking
  <2>1. i = 1 \/ i = 2 \/ i = 3 \/ i = 4 \/ i = 5
    BY <1>9
  <2> QED
    BY <1>7, <2>1 DEF Asking
<1>6. FreshProgram(s)
  BY <1>1, <1>8, <1>3, <1>4, FreshIf
<1>10. AsksNobody(s)
  BY <1>5 DEF AsksNobody
<1> QED
  BY <1>1, <1>6, <1>10

\* The commands of a departure.
LEMMA LeaveSteps ==
  ASSUME NEW u \in Users, NEW k \in Keys, NEW r \in {"manager", "member"},
         NEW s, s = leave_group_program(u, k, r)
  PROVE  /\ s \in Seq(Steps) /\ Len(s) = 5
         /\ Is(s[1], "getGroupuuid", "go", NoUser, NoRole, k)
         /\ Is(s[2], "removeGroupMember", "needs", u, r, k)
         /\ Is(s[3], "isManager", "and", u, NoRole, k)
         /\ Is(s[4], "removeGroupManager", "go", u, NoRole, k)
         /\ Is(s[5], "UserRemoveGroups", "go", u, NoRole, k)
<1> DEFINE a == On("getGroupuuid", k)
           b == If("removeGroupMember", "needs", u, r, k)
           c == If("isManager", "and", u, NoRole, k)
           d == For("removeGroupManager", u, NoRole, k)
           e == For("UserRemoveGroups", u, NoRole, k)
<1>1. /\ Is(a, "getGroupuuid", "go", NoUser, NoRole, k)
      /\ Is(b, "removeGroupMember", "needs", u, r, k)
      /\ Is(c, "isManager", "and", u, NoRole, k)
      /\ Is(d, "removeGroupManager", "go", u, NoRole, k)
      /\ Is(e, "UserRemoveGroups", "go", u, NoRole, k)
  BY CommandNames, StepIs
<1>2. a \in Steps /\ b \in Steps /\ c \in Steps /\ d \in Steps /\ e \in Steps
  BY <1>1 DEF Is
<1>3. s = << a, b, c, d, e >>
  BY DEF leave_group_program
<1> HIDE DEF a, b, c, d, e
<1>4. s \in Seq(Steps) /\ Len(s) = 5 /\ s[1] = a /\ s[2] = b /\ s[3] = c /\ s[4] = d /\ s[5] = e
  BY <1>2, <1>3, TupleOfFive
<1> QED
  BY <1>1, <1>4

LEMMA LeaveProgram ==
  ASSUME NEW u \in Users, NEW k \in Keys, NEW r \in {"manager", "member"},
         NEW s, s = leave_group_program(u, k, r)
  PROVE  s \in Seq(Steps) /\ FreshProgram(s) /\ AsksNobody(s)
<1>1. /\ s \in Seq(Steps) /\ Len(s) = 5
      /\ Is(s[1], "getGroupuuid", "go", NoUser, NoRole, k)
      /\ Is(s[2], "removeGroupMember", "needs", u, r, k)
      /\ Is(s[3], "isManager", "and", u, NoRole, k)
      /\ Is(s[4], "removeGroupManager", "go", u, NoRole, k)
      /\ Is(s[5], "UserRemoveGroups", "go", u, NoRole, k)
  BY LeaveSteps
<1>7. s[1].cmd = "getGroupuuid" /\ s[2].cmd = "removeGroupMember" /\ s[3].cmd = "isManager" /\ s[4].cmd = "removeGroupManager" /\ s[5].cmd = "UserRemoveGroups"
  BY <1>1 DEF Is
<1>8. Len(s) \in Nat \ {0}
  BY <1>1
<1>9. ASSUME NEW i \in 1 .. Len(s)
      PROVE  i = 1 \/ i = 2 \/ i = 3 \/ i = 4 \/ i = 5
  BY <1>1
<1>2. ASSUME NEW i \in 1 .. Len(s)
      PROVE  FieldsOK(s[i])
  <2>1. i = 1 \/ i = 2 \/ i = 3 \/ i = 4 \/ i = 5
    BY <1>9
  <2>2. {"owner", "manager", "member"} = Roles
    BY DEF Roles
  <2> QED
    BY <1>1, <2>1, <2>2 DEF FieldsOK, Is
<1>3. ASSUME NEW i \in 1 .. Len(s)
      PROVE  AheadOK(s, i) /\ BeforeOK(s, i)
  <2>1. i = 1 \/ i = 2 \/ i = 3 \/ i = 4 \/ i = 5
    BY <1>9
  <2>2. FieldsOK(s[i])
    BY <1>2
  <2>3. RemovalOK(s, i)
    BY <1>1, <2>1 DEF RemovalOK, Mending, Is
  <2>4. AppointOK(s, i)
    BY <1>1, <2>1 DEF AppointOK, Mending, Is
  <2>5. NextOK(s, i)
    BY <1>1, <1>7, <2>1 DEF NextOK
  <2>6. BeforeOK(s, i)
    BY <1>1, <2>1 DEF BeforeOK, Founds, Is
  <2> QED
    BY <2>2, <2>3, <2>4, <2>5, <2>6 DEF AheadOK
<1>4. ASSUME NEW i \in 1 .. Len(s)
      PROVE  Opening(s, i)
  <2>1. i = 1 \/ i = 2 \/ i = 3 \/ i = 4 \/ i = 5
    BY <1>9
  <2> QED
    BY <1>1, <2>1 DEF Opening, Founds, NoId, Is
<1>5. ASSUME NEW i \in 1 .. Len(s)
      PROVE  s[i].cmd \notin Asking
  <2>1. i = 1 \/ i = 2 \/ i = 3 \/ i = 4 \/ i = 5
    BY <1>9
  <2> QED
    BY <1>7, <2>1 DEF Asking
<1>6. FreshProgram(s)
  BY <1>1, <1>8, <1>3, <1>4, FreshIf
<1>10. AsksNobody(s)
  BY <1>5 DEF AsksNobody
<1> QED
  BY <1>1, <1>6, <1>10

\* The commands that disband a group, as far as they are known.
LEMMA DisbandSteps ==
  ASSUME NEW k \in Keys,
         NEW s, s = disband_program(k)
  PROVE  /\ s \in Seq(Steps) /\ Len(s) = 2
         /\ Is(s[1], "getGroupuuid", "go", NoUser, NoRole, k)
         /\ Is(s[2], "getGroupMember", "go", NoUser, NoRole, k)
<1> DEFINE a == On("getGroupuuid", k)
           b == On("getGroupMember", k)
<1>1. /\ Is(a, "getGroupuuid", "go", NoUser, NoRole, k)
      /\ Is(b, "getGroupMember", "go", NoUser, NoRole, k)
  BY CommandNames, StepIs
<1>2. a \in Steps /\ b \in Steps
  BY <1>1 DEF Is
<1>3. s = << a, b >>
  BY DEF disband_program
<1> HIDE DEF a, b
<1>4. s \in Seq(Steps) /\ Len(s) = 2 /\ s[1] = a /\ s[2] = b
  BY <1>2, <1>3, TupleOfTwo
<1> QED
  BY <1>1, <1>4

LEMMA DisbandProgram ==
  ASSUME NEW k \in Keys,
         NEW s, s = disband_program(k)
  PROVE  s \in Seq(Steps) /\ FreshProgram(s) /\ AsksNobody(s)
<1>1. /\ s \in Seq(Steps) /\ Len(s) = 2
      /\ Is(s[1], "getGroupuuid", "go", NoUser, NoRole, k)
      /\ Is(s[2], "getGroupMember", "go", NoUser, NoRole, k)
  BY DisbandSteps
<1>7. s[1].cmd = "getGroupuuid" /\ s[2].cmd = "getGroupMember"
  BY <1>1 DEF Is
<1>8. Len(s) \in Nat \ {0}
  BY <1>1
<1>9. ASSUME NEW i \in 1 .. Len(s)
      PROVE  i = 1 \/ i = 2
  BY <1>1
<1>2. ASSUME NEW i \in 1 .. Len(s)
      PROVE  FieldsOK(s[i])
  <2>1. i = 1 \/ i = 2
    BY <1>9
  <2>2. {"owner", "manager", "member"} = Roles
    BY DEF Roles
  <2> QED
    BY <1>1, <2>1, <2>2 DEF FieldsOK, Is
<1>3. ASSUME NEW i \in 1 .. Len(s)
      PROVE  AheadOK(s, i) /\ BeforeOK(s, i)
  <2>1. i = 1 \/ i = 2
    BY <1>9
  <2>2. FieldsOK(s[i])
    BY <1>2
  <2>3. RemovalOK(s, i)
    BY <1>1, <2>1 DEF RemovalOK, Mending, Is
  <2>4. AppointOK(s, i)
    BY <1>1, <2>1 DEF AppointOK, Mending, Is
  <2>5. NextOK(s, i)
    BY <1>1, <1>7, <2>1 DEF NextOK, Is
  <2>6. BeforeOK(s, i)
    BY <1>1, <2>1 DEF BeforeOK, Founds, Is
  <2> QED
    BY <2>2, <2>3, <2>4, <2>5, <2>6 DEF AheadOK
<1>4. ASSUME NEW i \in 1 .. Len(s)
      PROVE  Opening(s, i)
  <2>1. i = 1 \/ i = 2
    BY <1>9
  <2> QED
    BY <1>1, <2>1 DEF Opening, Founds, NoId, Is
<1>5. ASSUME NEW i \in 1 .. Len(s)
      PROVE  s[i].cmd \notin Asking
  <2>1. i = 1 \/ i = 2
    BY <1>9
  <2> QED
    BY <1>7, <2>1 DEF Asking
<1>6. FreshProgram(s)
  BY <1>1, <1>8, <1>3, <1>4, FreshIf
<1>10. AsksNobody(s)
  BY <1>5 DEF AsksNobody
<1> QED
  BY <1>1, <1>6, <1>10

\* The commands of an entry.
LEMMA ChoiceSteps ==
  ASSUME NEW k \in Keys,
         NEW s, s = << On("getGroupuuid", k), On("choose", k) >>
  PROVE  /\ s \in Seq(Steps) /\ Len(s) = 2
         /\ Is(s[1], "getGroupuuid", "go", NoUser, NoRole, k)
         /\ Is(s[2], "choose", "go", NoUser, NoRole, k)
<1> DEFINE a == On("getGroupuuid", k)
           b == On("choose", k)
<1>1. /\ Is(a, "getGroupuuid", "go", NoUser, NoRole, k)
      /\ Is(b, "choose", "go", NoUser, NoRole, k)
  BY CommandNames, StepIs
<1>2. a \in Steps /\ b \in Steps
  BY <1>1 DEF Is
<1>3. s = << a, b >>
  OBVIOUS
<1> HIDE DEF a, b
<1>4. s \in Seq(Steps) /\ Len(s) = 2 /\ s[1] = a /\ s[2] = b
  BY <1>2, <1>3, TupleOfTwo
<1> QED
  BY <1>1, <1>4

LEMMA ChoiceProgram ==
  ASSUME NEW k \in Keys,
         NEW s, s = << On("getGroupuuid", k), On("choose", k) >>
  PROVE  s \in Seq(Steps) /\ FreshProgram(s) /\ AsksNobody(s)
<1>1. /\ s \in Seq(Steps) /\ Len(s) = 2
      /\ Is(s[1], "getGroupuuid", "go", NoUser, NoRole, k)
      /\ Is(s[2], "choose", "go", NoUser, NoRole, k)
  BY ChoiceSteps
<1>7. s[1].cmd = "getGroupuuid" /\ s[2].cmd = "choose"
  BY <1>1 DEF Is
<1>8. Len(s) \in Nat \ {0}
  BY <1>1
<1>9. ASSUME NEW i \in 1 .. Len(s)
      PROVE  i = 1 \/ i = 2
  BY <1>1
<1>2. ASSUME NEW i \in 1 .. Len(s)
      PROVE  FieldsOK(s[i])
  <2>1. i = 1 \/ i = 2
    BY <1>9
  <2>2. {"owner", "manager", "member"} = Roles
    BY DEF Roles
  <2> QED
    BY <1>1, <2>1, <2>2 DEF FieldsOK, Is
<1>3. ASSUME NEW i \in 1 .. Len(s)
      PROVE  AheadOK(s, i) /\ BeforeOK(s, i)
  <2>1. i = 1 \/ i = 2
    BY <1>9
  <2>2. FieldsOK(s[i])
    BY <1>2
  <2>3. RemovalOK(s, i)
    BY <1>1, <2>1 DEF RemovalOK, Mending, Is
  <2>4. AppointOK(s, i)
    BY <1>1, <2>1 DEF AppointOK, Mending, Is
  <2>5. NextOK(s, i)
    BY <1>1, <1>7, <2>1 DEF NextOK
  <2>6. BeforeOK(s, i)
    BY <1>1, <2>1 DEF BeforeOK, Founds, Is
  <2> QED
    BY <2>2, <2>3, <2>4, <2>5, <2>6 DEF AheadOK
<1>4. ASSUME NEW i \in 1 .. Len(s)
      PROVE  Opening(s, i)
  <2>1. i = 1 \/ i = 2
    BY <1>9
  <2> QED
    BY <1>1, <2>1 DEF Opening, Founds, NoId, Is
<1>5. ASSUME NEW i \in 1 .. Len(s)
      PROVE  s[i].cmd \notin Asking
  <2>1. i = 1 \/ i = 2
    BY <1>9
  <2> QED
    BY <1>7, <2>1 DEF Asking
<1>6. FreshProgram(s)
  BY <1>1, <1>8, <1>3, <1>4, FreshIf
<1>10. AsksNobody(s)
  BY <1>5 DEF AsksNobody
<1> QED
  BY <1>1, <1>6, <1>10

-----------------------------------------------------------------------------
(* The program that deletes an account.                                    *)

\* It looks at one group after the other.
Looking(s, i) ==
    \/ s[i].cmd = "getGroupuuid" /\ s[i].mode = "go" /\ s[i].key \in Keys
    \/ s[i].cmd = "getGroupManager" /\ s[i].mode = "go" /\ s[i].who \in Users /\ s[i].key \in Keys
    \/ s[i].cmd = "deleteHashKey" /\ s[i].mode = "go" /\ i = Len(s)

LEMMA LookingProgram ==
  ASSUME NEW s \in Seq(Steps), Len(s) \in Nat \ {0}, s[1].cmd \in NoId,
         \A i \in 1 .. Len(s) : Looking(s, i)
  PROVE  FreshProgram(s) /\ AsksNobody(s)
<1>1. ASSUME NEW i \in 1 .. Len(s)
      PROVE  /\ s[i].cmd \in {"getGroupuuid", "getGroupManager", "deleteHashKey"}
             /\ s[i].mode = "go"
  BY DEF Looking
<1>2. ASSUME NEW i \in 1 .. Len(s)
      PROVE  AheadOK(s, i) /\ BeforeOK(s, i)
  <2>1. FieldsOK(s[i])
    <3>1. Looking(s, i)
      OBVIOUS
    <3> QED
      BY <1>1, <3>1 DEF FieldsOK, Looking
  <2>2. RemovalOK(s, i)
    BY <1>1 DEF RemovalOK
  <2>3. AppointOK(s, i)
    BY <1>1 DEF AppointOK
  <2>4. NextOK(s, i)
    <3>1. s[i].cmd = "deleteHashKey" => i = Len(s)
      BY DEF Looking
    <3>2. i < Len(s) => i + 1 \in 1 .. Len(s)
      OBVIOUS
    <3>3. i < Len(s) => s[i + 1].cmd # "getGroupMember"
      BY <1>1, <3>2
    <3> QED
      BY <1>1, <3>1, <3>3 DEF NextOK
  <2>5. BeforeOK(s, i)
    BY <1>1 DEF BeforeOK, Founds
  <2> QED
    BY <2>1, <2>2, <2>3, <2>4, <2>5 DEF AheadOK
<1>3. ASSUME NEW i \in 1 .. Len(s)
      PROVE  Opening(s, i)
  BY <1>1 DEF Opening, Founds
<1>4. FreshProgram(s)
  BY <1>2, <1>3, FreshIf
<1> QED
  BY <1>1, <1>4 DEF AsksNobody, Asking

LEMMA DelAccountProgram ==
  ASSUME NEW u \in Users, NEW n \in Nat, NEW order \in [1 .. n -> Keys],
         NEW s, s = del_account_program(u, order)
  PROVE  s \in Seq(Steps) /\ FreshProgram(s) /\ AsksNobody(s)
<1>1. order \in Seq(Keys) /\ Len(order) = n
  OBVIOUS
<1> DEFINE last == For("deleteHashKey", u, NoRole, NoKey)
<1>2. Is(last, "deleteHashKey", "go", u, NoRole, NoKey)
  BY CommandNames, StepIs
<1>3. ASSUME NEW k \in Keys
      PROVE  /\ Is(On("getGroupuuid", k), "getGroupuuid", "go", NoUser, NoRole, k)
             /\ Is(For("getGroupManager", u, NoRole, k), "getGroupManager", "go", u, NoRole, k)
  BY CommandNames, StepIs
<1>4. CASE n = 0
  <2>1. order = << >>
    BY <1>1, <1>4, EmptySeq
  <2>2. s = << last >>
    BY <2>1 DEF del_account_program
  <2> HIDE DEF last
  <2>3. last \in Steps
    BY <1>2 DEF Is
  <2>4. s \in Seq(Steps) /\ Len(s) = 1 /\ s[1] = last
    BY <2>2, <2>3
  <2>5. Looking(s, 1) /\ s[1].cmd = "deleteHashKey"
    BY <1>2, <2>4 DEF Looking, Is
  <2>6. s[1].cmd \in NoId
    BY <2>5 DEF NoId
  <2>7. \A i \in 1 .. Len(s) : i = 1
    BY <2>4
  <2>8. Len(s) \in Nat \ {0}
    BY <2>4
  <2> QED
    BY <2>4, <2>5, <2>6, <2>7, <2>8, LookingProgram
<1>5. CASE n # 0
  <2> DEFINE m == 2 * n + 1
             at(i) == IF i = m THEN last
                      ELSE IF i % 2 = 1 THEN On("getGroupuuid", order[(i + 1) \div 2])
                      ELSE For("getGroupManager", u, NoRole, order[i \div 2])
  <2>1. order # << >>
    BY <1>1, <1>5
  <2>2. s = [i \in 1 .. m |-> at(i)]
    BY <1>1, <2>1 DEF del_account_program
  <2>3. m \in Nat \ {0} /\ 1 \in 1 .. m /\ m # 1 /\ 1 % 2 = 1
    BY <1>5
  <2>4. ASSUME NEW i \in 1 .. m, i # m
        PROVE  /\ i % 2 = 1 => (i + 1) \div 2 \in 1 .. n
               /\ i % 2 # 1 => i \div 2 \in 1 .. n
    BY <2>4
  <2>5. ASSUME NEW i \in 1 .. m
        PROVE  /\ i = m => at(i) = last
               /\ i # m => \E k \in Keys : \/ at(i) = On("getGroupuuid", k)
                                           \/ at(i) = For("getGroupManager", u, NoRole, k)
               /\ i # m /\ i % 2 = 1 => \E k \in Keys : at(i) = On("getGroupuuid", k)
    BY <2>4
  <2> HIDE DEF last, at, m
  <2>6. ASSUME NEW i \in 1 .. m
        PROVE  at(i) \in Steps
    BY <1>2, <1>3, <2>5 DEF Is
  <2>7. s \in [1 .. m -> Steps]
    BY <2>2, <2>6
  <2>8. s \in Seq(Steps) /\ Len(s) = m /\ \A i \in 1 .. Len(s) : s[i] = at(i)
    BY <2>2, <2>3, <2>7
  <2>9. ASSUME NEW i \in 1 .. Len(s)
        PROVE  Looking(s, i)
    <3>1. s[i] = at(i) /\ i \in 1 .. m /\ Len(s) = m
      BY <2>8
    <3>2. CASE i = m
      BY <1>2, <2>5, <3>1, <3>2 DEF Looking, Is
    <3>3. CASE i # m
      <4>1. PICK k \in Keys : \/ s[i] = On("getGroupuuid", k)
                              \/ s[i] = For("getGroupManager", u, NoRole, k)
        BY <2>5, <3>1, <3>3
      <4> QED
        BY <1>3, <4>1 DEF Looking, Is
    <3> QED
      BY <3>2, <3>3
  <2>10. s[1].cmd \in NoId
    <3>1. PICK k \in Keys : s[1] = On("getGroupuuid", k)
      BY <2>3, <2>5, <2>8
    <3> QED
      BY <1>3, <3>1 DEF NoId, Is
  <2> QED
    BY <2>3, <2>8, <2>9, <2>10, LookingProgram
<1> QED
  BY <1>4, <1>5

-----------------------------------------------------------------------------
(* Programs that grow.                                                     *)

\* Nothing follows from commands of other names.
Consequential == {"removeGroupMember", "SetGroupManager", "isManager", "GroupExists",
                  "addGroup", "deleteHashKey", "getGroupMember"}

LEMMA SimpleAhead ==
  ASSUME NEW s \in Seq(Steps),
         \A i \in 1 .. Len(s) : FieldsOK(s[i]) /\ s[i].cmd \notin Consequential
  PROVE  \A i \in 1 .. Len(s) : AheadOK(s, i)
<1> SUFFICES ASSUME NEW i \in 1 .. Len(s)
             PROVE  AheadOK(s, i)
  OBVIOUS
<1>1. PICK n \in Nat : n = Len(s)
  BY LenProperties
<1>2. FieldsOK(s[i]) /\ s[i].cmd \notin Consequential
  OBVIOUS
<1>3. RemovalOK(s, i)
  BY <1>2 DEF RemovalOK, Consequential
<1>4. AppointOK(s, i)
  BY <1>2 DEF AppointOK, Consequential
<1>5. NextOK(s, i)
  <2>1. i < Len(s) => i + 1 \in 1 .. Len(s)
    BY <1>1
  <2>2. i < Len(s) => s[i + 1].cmd # "getGroupMember"
    BY <2>1 DEF Consequential
  <2> QED
    BY <1>2, <2>2 DEF NextOK, Consequential
<1> QED
  BY <1>2, <1>3, <1>4, <1>5 DEF AheadOK

\* The orders in which a finite set can be read.
LEMMA OrderOf ==
  ASSUME NEW S, IsFiniteSet(S), NEW order \in SetToSeqs(S)
  PROVE  \E n \in Nat : order \in [1 .. n -> S] /\ DOMAIN order = 1 .. n
<1>1. PICK n \in Nat : n = Cardinality(S)
  BY FS_CardinalityType
<1>2. order \in [1 .. n -> S]
  BY <1>1 DEF SetToSeqs
<1> QED
  BY <1>2

LEMMA SeqOfSteps ==
  ASSUME NEW n \in Nat, NEW s, s \in [1 .. n -> Steps]
  PROVE  s \in Seq(Steps) /\ Len(s) = n
  OBVIOUS

LEMMA NoticesOK ==
  ASSUME NEW n \in Nat, NEW order \in [1 .. n -> Users], NEW k \in Keys,
         NEW cmd \in {"setGroupNotify", "delGroupNotify"},
         NEW s, s = [i \in 1 .. n |-> For(cmd, order[i], NoRole, k)]
  PROVE  s \in Seq(Steps) /\ ProgramOK(s) /\ \A i \in 1 .. Len(s) : s[i].cmd = cmd
<1>1. cmd \in Commands
  BY CommandNames
<1>2. ASSUME NEW i \in 1 .. n
      PROVE  Is(s[i], cmd, "go", order[i], NoRole, k) /\ order[i] \in Users
  <2>1. order[i] \in Users /\ s[i] = For(cmd, order[i], NoRole, k)
    OBVIOUS
  <2> QED
    BY <1>1, <2>1, CommandNames, StepIs
<1>3. s \in Seq(Steps) /\ Len(s) = n
  <2>1. \A i \in 1 .. n : s[i] \in Steps
    BY <1>2 DEF Is
  <2>2. s \in [1 .. n -> Steps]
    BY <2>1
  <2> QED
    BY <2>2, SeqOfSteps
<1>4. ASSUME NEW i \in 1 .. Len(s)
      PROVE  s[i].cmd = cmd /\ FieldsOK(s[i]) /\ s[i].cmd \notin Consequential
  <2>1. Is(s[i], cmd, "go", order[i], NoRole, k) /\ order[i] \in Users
    BY <1>2, <1>3
  <2> QED
    BY <2>1 DEF Is, FieldsOK, Consequential
<1>5. \A i \in 1 .. Len(s) : AheadOK(s, i)
  BY <1>3, <1>4, SimpleAhead
<1>6. \A i \in 1 .. Len(s) : BeforeOK(s, i)
  BY <1>4 DEF BeforeOK, Founds
<1> QED
  BY <1>3, <1>4, <1>5, <1>6, ProgramParts

\* The members of a group that is disbanded lose it, and then it goes.
Disbanding(s, k) ==
    /\ s \in Seq(Steps) /\ ProgramOK(s) /\ Len(s) \in Nat \ {0}
    /\ \A i \in 1 .. Len(s) :
          /\ s[i].cmd \in {"UserRemoveGroups", "delGroup", "delGroupManager", "delGroupMember"}
          /\ s[i].cmd = "delGroup" => s[i].key = k
    /\ \E i \in 1 .. Len(s) : s[i].cmd = "delGroup"

LEMMA DisbandingOK ==
  ASSUME NEW n \in Nat, NEW order \in [1 .. n -> Users], NEW k \in Keys,
         NEW e, e = [i \in 1 .. n |-> For("UserRemoveGroups", order[i], NoRole, k)],
         NEW s, s = e \o disband_rest(k)
  PROVE  Disbanding(s, k)
<1> DEFINE a == On("delGroup", k)
           b == For("UserRemoveGroups", k[2], NoRole, k)
           c == On("delGroupManager", k)
           d == On("delGroupMember", k)
<1>1. /\ Is(a, "delGroup", "go", NoUser, NoRole, k)
      /\ Is(b, "UserRemoveGroups", "go", k[2], NoRole, k)
      /\ Is(c, "delGroupManager", "go", NoUser, NoRole, k)
      /\ Is(d, "delGroupMember", "go", NoUser, NoRole, k)
      /\ k[2] \in Users
  BY CommandNames, StepIs
<1>2. a \in Steps /\ b \in Steps /\ c \in Steps /\ d \in Steps
  BY <1>1 DEF Is
<1>3. PICK r : r = disband_rest(k)
  OBVIOUS
<1>4. r = << a, b, c, d >>
  BY <1>3 DEF disband_rest
<1> HIDE DEF a, b, c, d
<1>5. r \in Seq(Steps) /\ Len(r) = 4 /\ r[1] = a /\ r[2] = b /\ r[3] = c /\ r[4] = d
  BY <1>2, <1>4, TupleOfFour
<1>6. ASSUME NEW i \in 1 .. n
      PROVE  Is(e[i], "UserRemoveGroups", "go", order[i], NoRole, k) /\ order[i] \in Users
  <2>1. order[i] \in Users /\ e[i] = For("UserRemoveGroups", order[i], NoRole, k)
    OBVIOUS
  <2> QED
    BY <2>1, CommandNames, StepIs
<1>7. e \in Seq(Steps) /\ Len(e) = n
  <2>1. \A i \in 1 .. n : e[i] \in Steps
    BY <1>6 DEF Is
  <2>2. e \in [1 .. n -> Steps]
    BY <2>1
  <2> QED
    BY <2>2, SeqOfSteps
<1>8. /\ s \in Seq(Steps) /\ Len(s) = n + 4
      /\ \A i \in 1 .. n + 4 : s[i] = IF i <= n THEN e[i] ELSE r[i - n]
  <2>1. /\ e \o r \in Seq(Steps) /\ Len(e \o r) = Len(e) + Len(r)
        /\ \A i \in 1 .. Len(e) + Len(r) :
              (e \o r)[i] = IF i <= Len(e) THEN e[i] ELSE r[i - Len(e)]
    BY ZenonT(60), <1>5, <1>7, ConcatProperties
  <2> QED
    BY <1>3, <1>5, <1>7, <2>1
<1>9. ASSUME NEW i \in 1 .. Len(s)
      PROVE  \/ i \in 1 .. n /\ s[i] = e[i]
             \/ i = n + 1 /\ s[i] = a
             \/ i = n + 2 /\ s[i] = b
             \/ i = n + 3 /\ s[i] = c
             \/ i = n + 4 /\ s[i] = d
  <2>1. i \in 1 .. n \/ i = n + 1 \/ i = n + 2 \/ i = n + 3 \/ i = n + 4
    BY <1>8
  <2>2. i \in 1 .. n + 4
    BY <1>8
  <2> QED
    BY <1>5, <1>8, <2>1, <2>2
<1>10. ASSUME NEW i \in 1 .. Len(s)
       PROVE  /\ FieldsOK(s[i]) /\ s[i].cmd \notin Consequential /\ ~Founds(s[i])
              /\ s[i].cmd \in {"UserRemoveGroups", "delGroup", "delGroupManager", "delGroupMember"}
              /\ s[i].cmd = "delGroup" <=> i = n + 1
              /\ s[i].cmd = "delGroup" => s[i].key = k
              /\ s[i].cmd = "delGroupMember" <=> i = n + 4
              /\ s[i].cmd = "delGroupManager" <=> i = n + 3
  <2>1. CASE i \in 1 .. n /\ s[i] = e[i]
    <3>1. Is(s[i], "UserRemoveGroups", "go", order[i], NoRole, k) /\ order[i] \in Users
      BY <1>6, <2>1
    <3>2. i # n + 1 /\ i # n + 3 /\ i # n + 4
      BY <2>1
    <3> QED
      BY <3>1, <3>2 DEF Is, FieldsOK, Founds, Consequential
  <2>2. CASE i = n + 1 /\ s[i] = a
    <3>1. n + 1 # n + 3 /\ n + 1 # n + 4
      OBVIOUS
    <3> QED
      BY <1>1, <2>2, <3>1 DEF Is, FieldsOK, Founds, Consequential
  <2>3. CASE i = n + 2 /\ s[i] = b
    <3>1. n + 2 # n + 1 /\ n + 2 # n + 3 /\ n + 2 # n + 4
      OBVIOUS
    <3> QED
      BY <1>1, <2>3, <3>1 DEF Is, FieldsOK, Founds, Consequential
  <2>4. CASE i = n + 3 /\ s[i] = c
    <3>1. n + 3 # n + 1 /\ n + 3 # n + 4
      OBVIOUS
    <3> QED
      BY <1>1, <2>4, <3>1 DEF Is, FieldsOK, Founds, Consequential
  <2>5. CASE i = n + 4 /\ s[i] = d
    <3>1. n + 4 # n + 1 /\ n + 4 # n + 3
      OBVIOUS
    <3> QED
      BY <1>1, <2>5, <3>1 DEF Is, FieldsOK, Founds, Consequential
  <2> QED
    BY <1>9, <2>1, <2>2, <2>3, <2>4, <2>5
<1>11. ASSUME NEW i \in 1 .. Len(s)
       PROVE  BeforeOK(s, i)
  <2>1. \A h \in 1 .. i - 1 : h \in 1 .. Len(s) /\ (i = n + 1 => h # n + 1 /\ h # n + 3 /\ h # n + 4)
                              /\ (i = n + 4 => h # n + 4)
    BY <1>8
  <2>2. s[i].cmd = "delGroup" => \A h \in 1 .. i - 1 : s[h].cmd = "UserRemoveGroups"
    BY <1>10, <2>1
  <2>3. s[i].cmd = "delGroupMember" =>
          \A h \in 1 .. i - 1 : s[h].cmd \in {"UserRemoveGroups", "delGroup", "delGroupManager"}
    BY <1>10, <2>1
  <2> QED
    BY <1>10, <2>2, <2>3 DEF BeforeOK
<1>12. \A i \in 1 .. Len(s) : AheadOK(s, i)
  BY <1>8, <1>10, SimpleAhead
<1>13. ProgramOK(s)
  BY <1>11, <1>12, ProgramParts
<1>14. n + 1 \in 1 .. Len(s) /\ Len(s) \in Nat \ {0}
  BY <1>8
<1>15. \E i \in 1 .. Len(s) : s[i].cmd = "delGroup"
  BY <1>10, <1>14
<1> QED
  BY <1>8, <1>10, <1>13, <1>14, <1>15 DEF Disbanding

LEMMA DelAccountGroup ==
  ASSUME NEW u \in Users, NEW k \in Keys, NEW r, NEW s, s = del_account_group(u, k, r)
  PROVE  s \in Seq(Steps) /\ ProgramOK(s) /\ AsksNobody(s) /\ Plain(s)
         /\ \A i \in 1 .. Len(s) : s[i].cmd # "deleteHashKey"
<1>1. CASE r = "owner"
  <2>1. s = disband_program(k)
    BY <1>1 DEF del_account_group
  <2>2. PICK p : p = disband_program(k)
    OBVIOUS
  <2>3. p \in Seq(Steps) /\ FreshProgram(p) /\ AsksNobody(p)
    BY <2>2, DisbandProgram
  <2>4. ProgramOK(p) /\ Len(p) = 2 /\ p[1].cmd = "getGroupuuid" /\ p[2].cmd = "getGroupMember"
    BY <2>2, <2>3 DEF FreshProgram, disband_program, On, Step
  <2>5. \A i \in 1 .. Len(p) : i = 1 \/ i = 2
    BY <2>4
  <2>6. \A i \in 1 .. Len(p) : /\ p[i].cmd \notin {"delGroup", "delGroupMember", "deleteHashKey"}
                               /\ ~Founds(p[i])
    BY <2>4, <2>5 DEF Founds
  <2>7. Plain(p)
    BY <2>4, <2>6 DEF Plain
  <2> QED
    BY <2>1, <2>2, <2>3, <2>4, <2>6, <2>7
<1>2. CASE r # "owner"
  <2> DEFINE a == For("removeGroupMember", u, "member", k)
             b == For("removeGroupManager", u, NoRole, k)
  <2>1. /\ Is(a, "removeGroupMember", "go", u, "member", k)
        /\ Is(b, "removeGroupManager", "go", u, NoRole, k)
    BY CommandNames, StepIs
  <2>2. a \in Steps /\ b \in Steps
    BY <2>1 DEF Is
  <2>3. s = << a, b >>
    BY <1>2 DEF del_account_group
  <2> HIDE DEF a, b
  <2>4. s \in Seq(Steps) /\ Len(s) = 2 /\ s[1] = a /\ s[2] = b
    BY <2>2, <2>3, TupleOfTwo
  <2>5. ASSUME NEW i \in 1 .. Len(s)
        PROVE  i = 1 \/ i = 2
    BY <2>4
  <2>6. ASSUME NEW i \in 1 .. Len(s)
        PROVE  AheadOK(s, i) /\ BeforeOK(s, i)
    <3>1. i = 1 \/ i = 2
      BY <2>5
    <3>2. FieldsOK(s[i])
      BY <2>1, <2>4, <3>1 DEF FieldsOK, Is, Roles
    <3>3. RemovalOK(s, i)
      BY <2>1, <2>4, <3>1 DEF RemovalOK, Mending, Is
    <3>4. AppointOK(s, i)
      BY <2>1, <2>4, <3>1 DEF AppointOK, Mending, Is
    <3>5. NextOK(s, i)
      BY <2>1, <2>4, <3>1 DEF NextOK, Is
    <3>6. BeforeOK(s, i)
      BY <2>1, <2>4, <3>1 DEF BeforeOK, Founds, Is
    <3> QED
      BY <3>2, <3>3, <3>4, <3>5, <3>6 DEF AheadOK
  <2>7. ProgramOK(s)
    BY <2>6, ProgramParts
  <2>8. /\ s[1].cmd = "removeGroupMember" /\ s[2].cmd = "removeGroupManager"
    BY <2>1, <2>4 DEF Is
  <2>9. Plain(s) /\ AsksNobody(s) /\ \A i \in 1 .. Len(s) : s[i].cmd # "deleteHashKey"
    BY <2>5, <2>8 DEF Plain, AsksNobody, Asking, Founds
  <2> QED
    BY <2>4, <2>7, <2>9
<1> QED
  BY <1>1, <1>2

-----------------------------------------------------------------------------
(* Joining programs, and what they know of their group.                    *)

\* r is f and then t.
Joined(f, t, r) ==
    /\ r \in Seq(Steps) /\ Len(f) \in Nat /\ Len(t) \in Nat /\ Len(r) = Len(f) + Len(t)
    /\ \A i \in 1 .. Len(r) : \/ i \in 1 .. Len(f) /\ r[i] = f[i]
                              \/ \E j \in 1 .. Len(t) : i = j + Len(f) /\ r[i] = t[j]
    /\ \A i \in 1 .. Len(f) : i \in 1 .. Len(r) /\ r[i] = f[i]

LEMMA JoinedAt ==
  ASSUME NEW f \in Seq(Steps), NEW t \in Seq(Steps), NEW r, r = f \o t
  PROVE  Joined(f, t, r)
<1>1. /\ r \in Seq(Steps) /\ Len(r) = Len(f) + Len(t)
      /\ \A i \in 1 .. Len(f) + Len(t) : r[i] = IF i <= Len(f) THEN f[i] ELSE t[i - Len(f)]
  BY ConcatProperties
<1>2. Len(f) \in Nat /\ Len(t) \in Nat
  BY LenProperties
<1>3. ASSUME NEW i \in 1 .. Len(r), i \notin 1 .. Len(f)
      PROVE  \E j \in 1 .. Len(t) : i = j + Len(f) /\ r[i] = t[j]
  <2>1. i - Len(f) \in 1 .. Len(t) /\ i = (i - Len(f)) + Len(f) /\ ~(i <= Len(f))
    BY <1>1, <1>2, <1>3
  <2> QED
    BY <1>1, <2>1
<1>4. ASSUME NEW i \in 1 .. Len(r), i \in 1 .. Len(f)
      PROVE  r[i] = f[i]
  BY <1>1, <1>2, <1>4
<1>5. ASSUME NEW i \in 1 .. Len(f)
      PROVE  i \in 1 .. Len(r)
  BY <1>1, <1>2
<1> QED
  BY <1>1, <1>2, <1>3, <1>4, <1>5 DEF Joined

LEMMA JoinPlain ==
  ASSUME NEW f \in Seq(Steps), NEW t \in Seq(Steps), Plain(f), Plain(t)
  PROVE  Plain(f \o t)
<1>1. PICK r : r = f \o t
  OBVIOUS
<1>2. /\ r \in Seq(Steps) /\ Len(f) \in Nat /\ Len(t) \in Nat /\ Len(r) = Len(f) + Len(t)
      /\ \A i \in 1 .. Len(r) : \/ i \in 1 .. Len(f) /\ r[i] = f[i]
                                \/ \E j \in 1 .. Len(t) : i = j + Len(f) /\ r[i] = t[j]
  <2>1. Joined(f, t, r)
    BY <1>1, JoinedAt
  <2> QED
    BY <2>1 DEF Joined
<1>3. ASSUME NEW i \in 1 .. Len(r)
      PROVE  r[i].cmd \notin {"delGroup", "delGroupMember"} /\ ~Founds(r[i])
  BY <1>2 DEF Plain
<1>4. ASSUME Len(r) > 0
      PROVE  r[1].cmd # "getGroupMember"
  <2>1. 1 \in 1 .. Len(r)
    BY <1>2, <1>4
  <2>2. CASE 1 \in 1 .. Len(f) /\ r[1] = f[1]
    <3>1. Len(f) > 0
      BY <1>2, <2>2
    <3> QED
      BY <2>2, <3>1 DEF Plain
  <2>3. ASSUME NEW j \in 1 .. Len(t), 1 = j + Len(f), r[1] = t[j]
        PROVE  r[1].cmd # "getGroupMember"
    <3>1. j = 1 /\ Len(t) > 0
      BY <1>2, <2>3
    <3> QED
      BY <2>3, <3>1 DEF Plain
  <2> QED
    BY <1>2, <2>1, <2>2, <2>3
<1> QED
  BY <1>1, <1>3, <1>4 DEF Plain

LEMMA JoinAsksNobody ==
  ASSUME NEW f \in Seq(Steps), NEW t \in Seq(Steps), AsksNobody(f), AsksNobody(t)
  PROVE  AsksNobody(f \o t)
<1>1. PICK r : r = f \o t
  OBVIOUS
<1>2. \A i \in 1 .. Len(r) : \/ i \in 1 .. Len(f) /\ r[i] = f[i]
                             \/ \E j \in 1 .. Len(t) : i = j + Len(f) /\ r[i] = t[j]
  <2>1. Joined(f, t, r)
    BY <1>1, JoinedAt
  <2> QED
    BY <2>1 DEF Joined
<1> QED
  BY <1>1, <1>2 DEF AsksNobody

\* t is s without its first command.
AfterFirst(s, t) ==
    /\ t \in Seq(Steps) /\ Len(s) \in Nat \ {0} /\ Len(t) \in Nat /\ Len(s) = Len(t) + 1
    /\ s[1] \in Steps /\ 1 \in 1 .. Len(s)
    /\ \A i \in 1 .. Len(t) : /\ t[i] = s[i + 1] /\ i + 1 \in 1 .. Len(s)
                              /\ 1 \in 1 .. (i + 1) - 1
    /\ t # << >> => 1 \in 1 .. Len(t) /\ t[1] = s[2] /\ 1 < Len(s)

LEMMA TailAfter ==
  ASSUME NEW s \in Seq(Steps), s # << >>, NEW t, t = Tail(s)
  PROVE  AfterFirst(s, t)
<1>1. t \in Seq(Steps) /\ Shift(s, t, 1) /\ s[1] \in Steps /\ 1 \in 1 .. Len(s)
  BY TailShift
<1>2. /\ Len(s) \in Nat /\ Len(t) \in Nat /\ Len(s) = Len(t) + 1
      /\ \A i \in 1 .. Len(t) : t[i] = s[i + 1]
  BY <1>1 DEF Shift
<1>3. Len(s) \in Nat \ {0}
  BY <1>2
<1>4. ASSUME NEW i \in 1 .. Len(t)
      PROVE  t[i] = s[i + 1] /\ i + 1 \in 1 .. Len(s) /\ 1 \in 1 .. (i + 1) - 1
  BY <1>2
<1>5. ASSUME t # << >>
      PROVE  1 \in 1 .. Len(t) /\ t[1] = s[2] /\ 1 < Len(s)
  <2>1. Len(t) # 0
    BY <1>1, <1>5, EmptySeq
  <2>2. 1 \in 1 .. Len(t) /\ 1 + 1 = 2 /\ 1 < Len(s)
    BY <1>2, <2>1
  <2> QED
    BY <1>2, <2>2
<1> QED
  BY <1>1, <1>2, <1>3, <1>4, <1>5 DEF AfterFirst

LEMMA KeyPlain ==
  ASSUME NEW ix, NEW g, NEW s \in Seq(Steps), Plain(s)
  PROVE  KeyOK(ix, g, s)
<1>1. s # << >> => Len(s) > 0
  <2>1. Len(s) \in Nat
    BY LenProperties
  <2>2. s # << >> => Len(s) # 0
    BY EmptySeq
  <2> QED
    BY <2>1, <2>2
<1> QED
  BY <1>1 DEF KeyOK, Plain

LEMMA KeyNoId ==
  ASSUME NEW ix, NEW g, NEW s \in Seq(Steps), ProgramOK(s), s = << >> \/ s[1].cmd \in NoId
  PROVE  KeyOK(ix, g, s)
<1>1. CASE s = << >>
  <2>1. 1 .. Len(s) = {}
    BY <1>1
  <2> QED
    BY <1>1, <2>1 DEF KeyOK
<1>2. CASE s # << >>
  <2>1. PICK n \in Nat : n = Len(s)
    BY LenProperties
  <2>2. ASSUME NEW i \in 1 .. Len(s), i # 1
        PROVE  1 \in 1 .. i - 1
    BY <2>1, <2>2
  <2>3. \A i \in 1 .. Len(s) : BeforeOK(s, i)
    BY ProgramParts
  <2>4. ASSUME NEW i \in 1 .. Len(s)
        PROVE  /\ s[i].cmd \notin {"delGroup", "delGroupMember"}
               /\ Founds(s[i]) => s[1].cmd \in {"GroupExists", "addGroup"}
    <3>1. s[1].cmd \in NoId
      BY <1>2
    <3>2. CASE i = 1
      BY <3>1, <3>2 DEF NoId, Founds
    <3>3. CASE i # 1
      BY <2>2, <2>3, <3>1, <3>3 DEF BeforeOK, NoId
    <3> QED
      BY <3>2, <3>3
  <2> QED
    BY <1>2, <2>4 DEF KeyOK, NoId
<1> QED
  BY <1>1, <1>2

LEMMA KeyMonotone ==
  ASSUME NEW ix, NEW jx, NEW g, NEW s, KeyOK(ix, g, s),
         \A k \in Keys : jx[k] = g => ix[k] = g
  PROVE  KeyOK(jx, g, s)
  BY DEF KeyOK

LEMMA KeyTail ==
  ASSUME NEW ix, NEW g, NEW s \in Seq(Steps), s # << >>, ProgramOK(s), KeyOK(ix, g, s),
         s[1].cmd \notin {"getGroupuuid", "delGroup", "addGroup"}
  PROVE  KeyOK(ix, g, Tail(s))
<1>1. PICK t : t = Tail(s)
  OBVIOUS
<1>2. AfterFirst(s, t)
  BY <1>1, TailAfter
<1>3. \A i \in 1 .. Len(s) : AheadOK(s, i) /\ BeforeOK(s, i)
  BY ProgramParts
<1>4. NextOK(s, 1)
  BY <1>2, <1>3 DEF AfterFirst, AheadOK
<1>5. t # << >> => t[1].cmd # "getGroupMember"
  <2>1. t # << >> => 1 < Len(s) /\ t[1] = s[1 + 1]
    BY <1>2 DEF AfterFirst
  <2> QED
    BY <1>4, <2>1 DEF NextOK
<1>6. ASSUME NEW i \in 1 .. Len(t), t[i].cmd = "delGroup"
      PROVE  \A k \in Keys : ix[k] = g => k = t[i].key
  BY <1>2, <1>6 DEF AfterFirst, KeyOK
<1>7. ASSUME NEW i \in 1 .. Len(t), t[i].cmd = "delGroupMember",
             \A h \in 1 .. Len(t) : t[h].cmd # "delGroup"
      PROVE  \A k \in Keys : ix[k] # g
  <2>1. ASSUME NEW h \in 1 .. Len(s)
        PROVE  s[h].cmd # "delGroup"
    <3>1. h = 1 \/ (h - 1 \in 1 .. Len(t) /\ (h - 1) + 1 = h)
      BY <1>2 DEF AfterFirst
    <3> QED
      BY <1>2, <1>7, <3>1 DEF AfterFirst
  <2>2. i + 1 \in 1 .. Len(s) /\ s[i + 1].cmd = "delGroupMember"
    BY <1>2, <1>7 DEF AfterFirst
  <2> QED
    BY <2>1, <2>2 DEF KeyOK
<1>8. ASSUME NEW i \in 1 .. Len(t), Founds(t[i]), t[1].cmd \notin {"GroupExists", "addGroup"}
      PROVE  \A k \in Keys : ix[k] = g => k[2] = t[i].who
  <2>1. t[i] = s[i + 1] /\ i + 1 \in 1 .. Len(s) /\ t # << >>
    BY <1>2, <1>8 DEF AfterFirst
  <2>2. s[1].cmd # "GroupExists"
    <3>1. ASSUME s[1].cmd = "GroupExists"
          PROVE  FALSE
      <4>1. s[1 + 1].cmd \in {"addGroup", "getGroupuuid"} /\ 1 + 1 = 2
        BY <1>4, <3>1 DEF NextOK
      <4>2. t[1].cmd = "getGroupuuid" /\ t[1] = s[2]
        BY <1>2, <1>8, <2>1, <4>1 DEF AfterFirst
      <4>3. i # 1
        BY <1>8, <4>2 DEF Founds
      <4>4. 2 \in 1 .. (i + 1) - 1
        BY <1>2, <4>3 DEF AfterFirst
      <4>5. BeforeOK(s, i + 1)
        BY <1>3, <2>1
      <4> QED
        BY <1>8, <2>1, <4>2, <4>4, <4>5 DEF BeforeOK
    <3> QED
      BY <3>1
  <2> QED
    BY <1>8, <2>1, <2>2 DEF KeyOK
<1> QED
  BY <1>1, <1>5, <1>6, <1>7, <1>8 DEF KeyOK

LEMMA KeyFound ==
  ASSUME NEW ix, NEW g, NEW s \in Seq(Steps), s # << >>, ProgramOK(s),
         s[1].cmd = "getGroupuuid", \A k \in Keys : ix[k] = g => k = s[1].key
  PROVE  KeyOK(ix, g, Tail(s))
<1>1. PICK t : t = Tail(s)
  OBVIOUS
<1>2. AfterFirst(s, t)
  BY <1>1, TailAfter
<1>3. \A i \in 1 .. Len(s) : AheadOK(s, i) /\ BeforeOK(s, i)
  BY ProgramParts
<1>4. ASSUME t # << >>, t[1].cmd = "getGroupMember"
      PROVE  \A k \in Keys : ix[k] = g => k = t[1].key
  <2>1. NextOK(s, 1)
    BY <1>2, <1>3 DEF AfterFirst, AheadOK
  <2>2. 1 < Len(s) /\ t[1] = s[1 + 1]
    BY <1>2, <1>4 DEF AfterFirst
  <2> QED
    BY <1>4, <2>1, <2>2 DEF NextOK
<1>5. ASSUME NEW i \in 1 .. Len(t)
      PROVE  t[i].cmd \notin {"delGroup", "delGroupMember"} /\ ~Founds(t[i])
  <2>1. BeforeOK(s, i + 1) /\ t[i] = s[i + 1] /\ 1 \in 1 .. (i + 1) - 1
    BY <1>2, <1>3 DEF AfterFirst
  <2> QED
    BY <2>1 DEF BeforeOK
<1> QED
  BY <1>1, <1>4, <1>5 DEF KeyOK

LEMMA KeyMade ==
  ASSUME NEW ix, NEW g, NEW s \in Seq(Steps), s # << >>, ProgramOK(s),
         s[1].cmd = "addGroup", \A k \in Keys : ix[k] = g => k = s[1].key
  PROVE  KeyOK(ix, g, Tail(s))
<1>1. PICK t : t = Tail(s)
  OBVIOUS
<1>2. AfterFirst(s, t)
  BY <1>1, TailAfter
<1>3. \A i \in 1 .. Len(s) : AheadOK(s, i) /\ BeforeOK(s, i)
  BY ProgramParts
<1>4. t # << >> => t[1].cmd # "getGroupMember"
  <2>1. NextOK(s, 1)
    BY <1>2, <1>3 DEF AfterFirst, AheadOK
  <2>2. t # << >> => 1 < Len(s) /\ t[1] = s[1 + 1]
    BY <1>2 DEF AfterFirst
  <2> QED
    BY <2>1, <2>2 DEF NextOK
<1>5. ASSUME NEW i \in 1 .. Len(t)
      PROVE  /\ t[i].cmd \notin {"delGroup", "delGroupMember"}
             /\ Founds(t[i]) => s[1].key[2] = t[i].who
  <2>1. BeforeOK(s, i + 1) /\ t[i] = s[i + 1] /\ 1 \in 1 .. (i + 1) - 1
    BY <1>2, <1>3 DEF AfterFirst
  <2> QED
    BY <2>1 DEF BeforeOK
<1> QED
  BY <1>1, <1>4, <1>5 DEF KeyOK

LEMMA KeyGone ==
  ASSUME NEW ix, NEW g, NEW s \in Seq(Steps), s # << >>, ProgramOK(s),
         s[1].cmd = "delGroup", \A k \in Keys : ix[k] # g
  PROVE  KeyOK(ix, g, Tail(s))
<1>1. PICK t : t = Tail(s)
  OBVIOUS
<1>2. AfterFirst(s, t)
  BY <1>1, TailAfter
<1> QED
  BY <1>1 DEF KeyOK

-----------------------------------------------------------------------------
(* What is left of a program.                                              *)

\* The command found something, or it did not.
GoesFound(s, left) ==
    /\ s[1].mode = "unless" => left = << >>
    /\ s[1].mode = "or" => left = Tail(Tail(s))
    /\ s[1].mode \notin {"unless", "or"} => left = Tail(s)
GoesMissing(s, left) ==
    /\ s[1].mode = "needs" => left = << >>
    /\ s[1].mode = "and" => left = Tail(Tail(s))
    /\ s[1].mode \notin {"needs", "and"} => left = Tail(s)

LEMMA LeftIs ==
  ASSUME NEW s \in Seq(Steps), s # << >>, ProgramOK(s), NEW left,
         GoesFound(s, left) \/ GoesMissing(s, left)
  PROVE  \/ left = << >> \/ left = Tail(s)
         \/ /\ left = Tail(Tail(s)) /\ Tail(s) \in Seq(Steps) /\ Tail(s) # << >>
            /\ s[1].cmd \in {"removeGroupMember", "isManager"}
            /\ Tail(s)[1].cmd \in {"removeGroupMember", "removeGroupManager"}
            /\ Tail(s)[1] = s[2]
<1>1. PICK t : t = Tail(s)
  OBVIOUS
<1>2. AfterFirst(s, t)
  BY <1>1, TailAfter
<1>3. AheadOK(s, 1)
  BY <1>2, ProgramParts DEF AfterFirst
<1>4. CASE s[1].mode = "or"
  <2>1. s[1].cmd = "removeGroupMember"
    BY <1>3, <1>4 DEF AheadOK, FieldsOK
  <2>2. 1 < Len(s) /\ s[1 + 1].cmd = "removeGroupMember" /\ 1 + 1 = 2
    BY <1>3, <1>4, <2>1 DEF AheadOK, RemovalOK
  <2>3. t # << >>
    BY <1>2, <2>2, EmptySeq DEF AfterFirst
  <2>4. t[1] = s[2] /\ t \in Seq(Steps)
    BY <1>2, <2>3 DEF AfterFirst
  <2> QED
    BY <1>1, <1>4, <2>1, <2>2, <2>3, <2>4 DEF GoesFound, GoesMissing
<1>5. CASE s[1].mode = "and"
  <2>1. s[1].cmd = "isManager"
    BY <1>3, <1>5 DEF AheadOK, FieldsOK
  <2>2. Mending(s, 1, s[1].who)
    BY <1>3, <2>1 DEF AheadOK, AppointOK
  <2>3. 1 < Len(s) /\ s[1 + 1].cmd = "removeGroupManager" /\ 1 + 1 = 2
    BY <2>1, <2>2 DEF Mending
  <2>4. t # << >>
    BY <1>2, <2>3, EmptySeq DEF AfterFirst
  <2>5. t[1] = s[2] /\ t \in Seq(Steps)
    BY <1>2, <2>4 DEF AfterFirst
  <2> QED
    BY <1>1, <1>5, <2>1, <2>3, <2>4, <2>5 DEF GoesFound, GoesMissing
<1> QED
  BY <1>4, <1>5 DEF GoesFound, GoesMissing

LEMMA TailAsksNobody ==
  ASSUME NEW s \in Seq(Steps), s # << >>, AsksNobody(s)
  PROVE  AsksNobody(Tail(s))
<1>1. PICK t : t = Tail(s)
  OBVIOUS
<1>2. AfterFirst(s, t)
  BY <1>1, TailAfter
<1> QED
  BY <1>1, <1>2 DEF AfterFirst, AsksNobody

\* What is left is a program, and asks no more managers than before.
LeftFine(s, left) ==
    /\ left \in Seq(Steps) /\ ProgramOK(left)
    /\ AsksNobody(s) => AsksNobody(left)

LEMMA TailFine ==
  ASSUME NEW s \in Seq(Steps), s # << >>, ProgramOK(s)
  PROVE  LeftFine(s, Tail(s))
<1>1. PICK t : t = Tail(s)
  OBVIOUS
<1>2. t \in Seq(Steps)
  BY <1>1, TailAfter DEF AfterFirst
<1>3. ProgramOK(t)
  BY <1>1, TailOK
<1>4. AsksNobody(s) => AsksNobody(t)
  BY <1>1, TailAsksNobody
<1> QED
  BY <1>1, <1>2, <1>3, <1>4 DEF LeftFine

LEMMA EmptyFine ==
  ASSUME NEW s
  PROVE  LeftFine(s, << >>)
<1>1. 1 .. Len(<< >>) = {}
  OBVIOUS
<1> QED
  BY <1>1, EmptyProgram DEF LeftFine, AsksNobody

LEMMA LeftOK ==
  ASSUME NEW s \in Seq(Steps), s # << >>, ProgramOK(s), NEW left,
         GoesFound(s, left) \/ GoesMissing(s, left),
         s[1].cmd \notin {"getGroupuuid", "addGroup"}
  PROVE  LeftFine(s, left) /\ (left = << >> \/ left[1].cmd \in NoId \/ s[1].cmd \notin NoId)
<1>1. CASE left = << >>
  BY <1>1, EmptyFine
<1>2. CASE left = Tail(s)
  <2>1. LeftFine(s, left)
    BY <1>2, TailFine
  <2>2. AfterFirst(s, left)
    BY <1>2, TailAfter
  <2>3. AheadOK(s, 1)
    BY <2>2, ProgramParts DEF AfterFirst
  <2>4. CASE s[1].cmd = "GroupExists"
    <3>1. s[1 + 1].cmd \in {"addGroup", "getGroupuuid"} /\ 1 + 1 = 2
      BY <2>3, <2>4 DEF AheadOK, NextOK
    <3>2. left # << >> => left[1].cmd \in NoId
      BY <2>2, <3>1 DEF AfterFirst, NoId
    <3> QED
      BY <2>1, <3>2
  <2>5. CASE s[1].cmd = "deleteHashKey"
    <3>1. 1 = Len(s)
      BY <2>3, <2>5 DEF AheadOK, NextOK
    <3>2. left = << >>
      BY <2>2, <3>1 DEF AfterFirst
    <3> QED
      BY <2>1, <3>2
  <2>6. CASE s[1].cmd \notin {"GroupExists", "deleteHashKey"}
    BY <2>1, <2>6 DEF NoId
  <2> QED
    BY <2>4, <2>5, <2>6
<1>3. CASE /\ left = Tail(Tail(s)) /\ Tail(s) \in Seq(Steps) /\ Tail(s) # << >>
           /\ s[1].cmd \in {"removeGroupMember", "isManager"}
  <2>1. PICK t : t = Tail(s)
    OBVIOUS
  <2>2. LeftFine(s, t)
    BY <2>1, TailFine
  <2>3. LeftFine(t, left)
    BY <1>3, <2>1, <2>2, TailFine DEF LeftFine
  <2>4. LeftFine(s, left)
    BY <2>2, <2>3 DEF LeftFine
  <2> QED
    BY <1>3, <2>4 DEF NoId
<1> QED
  BY <1>1, <1>2, <1>3, LeftIs

LEMMA LeftKeys ==
  ASSUME NEW s \in Seq(Steps), s # << >>, ProgramOK(s), NEW left,
         GoesFound(s, left) \/ GoesMissing(s, left),
         s[1].cmd \notin {"getGroupuuid", "addGroup", "delGroup"},
         NEW ix, NEW g, KeyOK(ix, g, s)
  PROVE  KeyOK(ix, g, left)
<1>1. PICK t : t = Tail(s)
  OBVIOUS
<1>2. KeyOK(ix, g, t)
  BY <1>1, KeyTail
<1>3. CASE left = << >>
  BY <1>3, EmptyProgram, KeyNoId
<1>4. CASE /\ left = Tail(Tail(s)) /\ Tail(s) \in Seq(Steps) /\ Tail(s) # << >>
           /\ Tail(s)[1].cmd \in {"removeGroupMember", "removeGroupManager"}
  <2>1. t \in Seq(Steps) /\ t # << >> /\ ProgramOK(t)
    BY <1>1, <1>4, TailOK
  <2>2. t[1].cmd \notin {"getGroupuuid", "delGroup", "addGroup"}
    BY <1>1, <1>4
  <2> QED
    BY <1>1, <1>2, <1>4, <2>1, <2>2, KeyTail
<1> QED
  BY <1>1, <1>2, <1>3, <1>4, LeftIs

\* Who is to be seen to still is, unless the command just did so.
LEMMA MendsTail ==
  ASSUME NEW s \in Seq(Steps), s # << >>, NEW x, Mends(s, x), NEW t, t = Tail(s)
  PROVE  \/ s[1].who = x /\ s[1].cmd \in {"SetGroupMember", "removeGroupManager"}
         \/ /\ Mends(t, x)
            /\ \/ s[1].cmd = "UserRemoveGroups"
               \/ s[1].cmd = "isManager" /\ s[1].who = x
               \/ s[1].cmd = "removeGroupMember" /\ s[1].mode = "go"
<1>1. AfterFirst(s, t)
  BY TailAfter
<1>2. CASE s[1].who = x /\ s[1].cmd \in {"SetGroupMember", "removeGroupManager"}
  BY <1>2
<1>3. CASE ~(s[1].who = x /\ s[1].cmd \in {"SetGroupMember", "removeGroupManager"})
  <2>1. /\ 1 < Len(s) /\ s[2].who = x
        /\ \/ /\ s[1].cmd = "UserRemoveGroups" /\ s[2].cmd = "removeGroupManager"
           \/ /\ s[1].cmd = "isManager" /\ s[1].who = x /\ s[2].cmd = "removeGroupManager"
           \/ /\ s[1].cmd = "removeGroupMember" /\ s[1].mode = "go" /\ s[2].cmd = "SetGroupMember"
    <3>1. 1 + 1 = 2
      OBVIOUS
    <3>2. Mending(s, 1, x)
      BY DEF Mends
    <3> QED
      BY <1>3, <3>1, <3>2 DEF Mending
  <2>2. t # << >>
    <3>1. Len(t) # 0
      <4>1. 1 < Len(s) /\ Len(t) \in Nat /\ Len(s) = Len(t) + 1
        BY <1>1, <2>1 DEF AfterFirst
      <4> QED
        BY <4>1
    <3> QED
      BY <3>1
  <2>3. t[1] = s[2] /\ 1 <= Len(t)
    BY <1>1, <2>2 DEF AfterFirst
  <2>4. Mends(t, x)
    BY <2>1, <2>3 DEF Mends, Mending
  <2> QED
    BY <2>1, <2>4
<1> QED
  BY <1>2, <1>3

LEMMA MendsLeft ==
  ASSUME NEW s \in Seq(Steps), s # << >>, ProgramOK(s), NEW x, Mends(s, x), NEW left,
         \/ GoesFound(s, left)
         \/ GoesMissing(s, left) /\ ~(s[1].cmd = "isManager" /\ s[1].who = x)
  PROVE  \/ s[1].who = x /\ s[1].cmd \in {"SetGroupMember", "removeGroupManager"}
         \/ Mends(left, x)
<1>1. PICK t : t = Tail(s)
  OBVIOUS
<1>2. AfterFirst(s, t)
  BY <1>1, TailAfter
<1>3. FieldsOK(s[1])
  BY <1>2, ProgramParts DEF AfterFirst, AheadOK
<1>4. CASE s[1].who = x /\ s[1].cmd \in {"SetGroupMember", "removeGroupManager"}
  BY <1>4
<1>5. CASE Mends(t, x) /\ s[1].cmd = "UserRemoveGroups"
  <2>1. s[1].mode \notin {"needs", "unless", "or", "and"}
    BY <1>3, <1>5 DEF FieldsOK
  <2>2. left = t
    BY <1>1, <2>1 DEF GoesFound, GoesMissing
  <2> QED
    BY <1>5, <2>2
<1>6. CASE Mends(t, x) /\ s[1].cmd = "isManager" /\ s[1].who = x
  <2>1. s[1].mode = "and"
    BY <1>3, <1>6 DEF FieldsOK
  <2>2. left = t
    BY <1>1, <1>6, <2>1 DEF GoesFound
  <2> QED
    BY <1>6, <2>2
<1>7. CASE Mends(t, x) /\ s[1].mode = "go"
  <2>1. left = t
    BY <1>1, <1>7 DEF GoesFound, GoesMissing
  <2> QED
    BY <1>7, <2>1
<1> QED
  BY <1>1, <1>4, <1>5, <1>6, <1>7, MendsTail

\* Nobody is seen to by a program that begins otherwise.
LEMMA MendsNobody ==
  ASSUME NEW s \in Seq(Steps),
         s # << >> => s[1].cmd \notin {"SetGroupMember", "removeGroupManager", "UserRemoveGroups",
                                       "isManager", "removeGroupMember"},
         NEW x
  PROVE  ~Mends(s, x)
<1>1. s = << >> => ~(1 <= Len(s)) /\ ~(1 < Len(s))
  OBVIOUS
<1> QED
  BY <1>1 DEF Mends, Mending

-----------------------------------------------------------------------------
(* A step of one handler.                                                  *)

\* u's handler has left to do, for the group g; the others have not moved.
Moved(u, left, g) ==
    /\ todo'[u] = left /\ job'[u].id = IF left = << >> THEN NoUuid ELSE g
    /\ \A v \in Users \ {u} : todo'[v] = todo[v] /\ job'[v] = job[v]

Programmed ==
    /\ job' \in [Users -> Jobs] /\ todo' \in [Users -> Seq(Steps)] /\ ProgramsOK'

Shared == index \in [Keys -> Uuids \cup {NoUuid}] /\ job \in [Users -> Jobs]
          /\ todo \in [Users -> Seq(Steps)] /\ ProgramsOK

LEMMA SharedHolds ==
  ASSUME TablesOK, ProgramsOK
  PROVE  Shared
  BY DEF TablesOK, Shared

LEMMA GoneOn ==
  ASSUME Shared, NEW u \in Users, todo[u] # << >>, NEW left, NEW g \in Uuids \cup {NoUuid},
         GoOn(u, left, g), LeftFine(todo[u], left),
         left = << >> \/ left[1].cmd \in NoId \/ g \in Uuids
  PROVE  Programmed /\ Moved(u, left, g)
<1>1. /\ job \in [Users -> Jobs] /\ todo \in [Users -> Seq(Steps)]
      /\ todo' = [todo EXCEPT ![u] = left]
      /\ job' = [job EXCEPT ![u] = IF left = << >> THEN NoJob ELSE [job[u] EXCEPT !.id = g]]
  BY DEF Shared, GoOn
<1>2. left \in Seq(Steps) /\ ProgramOK(left) /\ (AsksNobody(todo[u]) => AsksNobody(left))
  BY DEF LeftFine
<1>3. todo' \in [Users -> Seq(Steps)]
  BY <1>1, <1>2
<1>4. PICK n : n = IF left = << >> THEN NoJob ELSE [job[u] EXCEPT !.id = g]
  OBVIOUS
<1>5. job[u] \in Jobs /\ NoJob \in Jobs
  BY <1>1 DEF Jobs, NoJob
<1>6. /\ n \in Jobs
      /\ left = << >> => n.op = "none" /\ n.id = NoUuid
      /\ left # << >> => n.op = job[u].op /\ n.key = job[u].key /\ n.x = job[u].x /\ n.id = g
  BY <1>4, <1>5 DEF Jobs, NoJob
<1>7. job' \in [Users -> Jobs] /\ job'[u] = n
  BY <1>1, <1>4, <1>6
<1>8. Moved(u, left, g)
  <2>1. todo'[u] = left /\ job'[u].id = IF left = << >> THEN NoUuid ELSE g
    BY <1>1, <1>6, <1>7
  <2>2. \A v \in Users \ {u} : todo'[v] = todo[v] /\ job'[v] = job[v]
    BY <1>1
  <2> QED
    BY <2>1, <2>2 DEF Moved
<1>9. ProgramOK(todo[u]) /\ JobOK(job[u], todo[u])
  BY DEF Shared, ProgramsOK
<1>10. JobOK(n, left)
  <2>1. CASE left = << >>
    <3>1. \A i \in 1 .. Len(left) : FALSE
      BY <2>1
    <3> QED
      BY <1>6, <2>1, <3>1 DEF JobOK
  <2>2. CASE left # << >>
    <3>1. n.op \in {"del_member_owner", "del_member_manager"} => n.key \in Keys
      BY <1>6, <1>9, <2>2 DEF JobOK
    <3>2. CASE AsksNobody(todo[u])
      <4>1. \A i \in 1 .. Len(left) : left[i].cmd \notin Asking
        BY <1>2, <3>2 DEF AsksNobody
      <4> QED
        BY <1>6, <2>2, <3>1, <4>1 DEF JobOK, Asking
    <3>3. CASE ~AsksNobody(todo[u])
      <4>1. PICK j \in 1 .. Len(todo[u]) : todo[u][j].cmd \in Asking
        BY <3>3 DEF AsksNobody
      <4>2. n.x \in Users /\ n.key \in Keys
        BY <1>6, <1>9, <2>2, <4>1 DEF JobOK, Asking
      <4> QED
        BY <1>6, <2>2, <3>1, <4>2 DEF JobOK
    <3> QED
      BY <3>2, <3>3
  <2> QED
    BY <2>1, <2>2
<1>11. ProgramsOK'
  <2> SUFFICES ASSUME NEW v \in Users
               PROVE  ProgramOK(todo'[v]) /\ JobOK(job'[v], todo'[v])
    BY DEF ProgramsOK
  <2>1. CASE v = u
    BY <1>1, <1>2, <1>7, <1>10, <2>1
  <2>2. CASE v # u
    BY <1>1, <2>2 DEF Shared, ProgramsOK
  <2> QED
    BY <2>1, <2>2
<1> QED
  BY <1>3, <1>7, <1>8, <1>11 DEF Programmed

\* What a handler knows of its group stays true while others find, make and
\* disband groups.
LEMMA KeysKept ==
  ASSUME Shared, KeysOK, Programmed, NEW u \in Users, NEW left, NEW g, Moved(u, left, g),
         KeyOK(index', g, left),
         \A j, k \in Keys : index'[j] = index'[k] /\ index'[k] # NoUuid => j = k,
         \A v \in Users, k \in Keys : v # u /\ id(v) \in Uuids /\ index'[k] = id(v) => index[k] = id(v)
  PROVE  KeysOK'
<1>1. ASSUME NEW v \in Users
      PROVE  KeyOK(index', job'[v].id, todo'[v])
  <2>1. todo'[v] \in Seq(Steps) /\ ProgramOK(todo'[v])
    BY DEF Programmed, ProgramsOK
  <2>2. CASE v = u
    <3>1. todo'[u] = left
      BY DEF Moved
    <3>2. CASE left = << >>
      BY <2>1, <2>2, <3>1, <3>2, KeyNoId
    <3>3. CASE left # << >>
      BY <2>2, <3>1, <3>3 DEF Moved
    <3> QED
      BY <3>2, <3>3
  <2>3. CASE v # u
    <3>1. todo'[v] = todo[v] /\ job'[v].id = id(v)
      BY <2>3 DEF Moved, id
    <3>2. CASE todo[v] = << >> \/ todo[v][1].cmd \in NoId
      BY <2>1, <3>1, <3>2, KeyNoId
    <3>3. CASE ~(todo[v] = << >> \/ todo[v][1].cmd \in NoId)
      <4>1. id(v) \in Uuids
        BY <3>3 DEF Shared, ProgramsOK, JobOK, id
      <4>2. KeyOK(index, id(v), todo[v])
        BY DEF KeysOK
      <4>3. \A k \in Keys : index'[k] = id(v) => index[k] = id(v)
        BY <2>3, <4>1
      <4>4. KeyOK(index', id(v), todo[v])
        BY <4>2, <4>3, KeyMonotone
      <4> QED
        BY <3>1, <4>4
    <3> QED
      BY <3>2, <3>3
  <2> QED
    BY <2>2, <2>3
<1> QED
  BY <1>1 DEF KeysOK, id

\* The founder of a group is among its members as before, or has just been put
\* there, or is next.
LEMMA OwnersKept ==
  ASSUME Shared, OwnersOK, Programmed, NEW u \in Users, NEW left, NEW g, Moved(u, left, g),
         \A k \in Keys : index'[k] # NoUuid =>
            \/ /\ index'[k] = index[k]
               /\ << k[2], "owner" >> \in members[index[k]] =>
                     << k[2], "owner" >> \in members'[index[k]]
               /\ Busy(u) /\ id(u) = index[k] /\ Now(u).cmd = "SetGroupMember"
                  /\ Now(u).who = k[2] /\ Now(u).role = "owner" =>
                     << k[2], "owner" >> \in members'[index[k]]
            \/ /\ left # << >> /\ g = index'[k] /\ left[1].cmd = "SetGroupMember"
               /\ left[1].who = k[2] /\ left[1].role = "owner"
  PROVE  OwnersOK'
<1>1. ASSUME NEW k \in Keys, index'[k] # NoUuid
      PROVE  \/ << k[2], "owner" >> \in members'[index'[k]]
             \/ \E v \in Users :
                   /\ todo'[v] # << >> /\ job'[v].id = index'[k]
                   /\ Head(todo'[v]).cmd = "SetGroupMember"
                   /\ Head(todo'[v]).who = k[2] /\ Head(todo'[v]).role = "owner"
  <2>1. CASE /\ left # << >> /\ g = index'[k] /\ left[1].cmd = "SetGroupMember"
             /\ left[1].who = k[2] /\ left[1].role = "owner"
    <3>1. todo'[u] = left /\ job'[u].id = g /\ left \in Seq(Steps)
      BY <2>1 DEF Moved, Programmed
    <3>2. Head(todo'[u]) = left[1]
      BY <3>1, <2>1, TailShift
    <3> QED
      BY <2>1, <3>1, <3>2
  <2>2. CASE /\ index'[k] = index[k]
             /\ << k[2], "owner" >> \in members[index[k]] =>
                   << k[2], "owner" >> \in members'[index[k]]
             /\ Busy(u) /\ id(u) = index[k] /\ Now(u).cmd = "SetGroupMember"
                /\ Now(u).who = k[2] /\ Now(u).role = "owner" =>
                   << k[2], "owner" >> \in members'[index[k]]
    <3>1. CASE << k[2], "owner" >> \in members[index[k]]
      BY <2>2, <3>1
    <3>2. ASSUME NEW v \in Users, Busy(v), id(v) = index[k], Now(v).cmd = "SetGroupMember",
                 Now(v).who = k[2], Now(v).role = "owner"
          PROVE  \/ << k[2], "owner" >> \in members'[index'[k]]
                 \/ /\ todo'[v] # << >> /\ job'[v].id = index'[k]
                    /\ Head(todo'[v]).cmd = "SetGroupMember"
                    /\ Head(todo'[v]).who = k[2] /\ Head(todo'[v]).role = "owner"
      <4>1. CASE v = u
        BY <2>2, <3>2, <4>1
      <4>2. CASE v # u
        BY <2>2, <3>2, <4>2 DEF Moved, Busy, Now, id
      <4> QED
        BY <4>1, <4>2
    <3>3. \/ << k[2], "owner" >> \in members[index[k]]
          \/ \E v \in Users :
                /\ Busy(v) /\ id(v) = index[k] /\ Now(v).cmd = "SetGroupMember"
                /\ Now(v).who = k[2] /\ Now(v).role = "owner"
      BY <1>1, <2>2 DEF OwnersOK
    <3> QED
      BY <3>1, <3>2, <3>3
  <2> QED
    BY <1>1, <2>1, <2>2
<1> QED
  BY <1>1 DEF OwnersOK, Busy, id, Now

\* Of the manager x of the group h: x is a member, or is seen to by the
\* handler that moved, or by another one, as before.
LEMMA ManagersKept ==
  ASSUME Shared, ManagersOK, Programmed, NEW u \in Users, NEW left, NEW g, Moved(u, left, g),
         \A h \in Uuids, x \in Users :
            (\E k \in Keys : index'[k] = h) /\ managers'[h][x] # NoRole =>
               \/ Belongs(x, h)'
               \/ g = h /\ Mends(left, x)
               \/ \E v \in Users : v # u /\ id(v) = h /\ Mends(todo[v], x)
               \/ /\ \E k \in Keys : index[k] = h
                  /\ managers[h][x] # NoRole
                  /\ Belongs(x, h) => Belongs(x, h)'
                  /\ id(u) = h /\ Mends(todo[u], x) =>
                        Belongs(x, h)' \/ (g = h /\ Mends(left, x))
  PROVE  ManagersOK'
<1>1. ASSUME NEW h \in Uuids, NEW x \in Users, \E k \in Keys : index'[k] = h, managers'[h][x] # NoRole
      PROVE  Belongs(x, h)' \/ \E v \in Users : job'[v].id = h /\ Mends(todo'[v], x)
  <2>1. ASSUME g = h, Mends(left, x)
        PROVE  job'[u].id = h /\ Mends(todo'[u], x)
    <3>1. left # << >>
      BY <2>1, MendsNobody, EmptyProgram
    <3> QED
      BY <2>1, <3>1 DEF Moved
  <2>2. ASSUME NEW v \in Users, v # u, id(v) = h, Mends(todo[v], x)
        PROVE  job'[v].id = h /\ Mends(todo'[v], x)
    BY <2>2 DEF Moved, id
  <2>3. ASSUME \E k \in Keys : index[k] = h, managers[h][x] # NoRole,
               Belongs(x, h) => Belongs(x, h)',
               id(u) = h /\ Mends(todo[u], x) => Belongs(x, h)' \/ (g = h /\ Mends(left, x))
        PROVE  Belongs(x, h)' \/ \E v \in Users : job'[v].id = h /\ Mends(todo'[v], x)
    <3>1. Belongs(x, h) \/ \E v \in Users : id(v) = h /\ Mends(todo[v], x)
      BY <2>3 DEF ManagersOK, Mended
    <3>2. ASSUME NEW v \in Users, id(v) = h, Mends(todo[v], x)
          PROVE  Belongs(x, h)' \/ \E w \in Users : job'[w].id = h /\ Mends(todo'[w], x)
      <4>1. CASE v = u
        BY <2>1, <2>3, <3>2, <4>1
      <4>2. CASE v # u
        BY <2>2, <3>2, <4>2
      <4> QED
        BY <4>1, <4>2
    <3> QED
      BY <2>3, <3>1, <3>2
  <2> QED
    BY <1>1, <2>1, <2>2, <2>3
<1> QED
  BY <1>1 DEF ManagersOK, Mended, id

-----------------------------------------------------------------------------
(* Commands that read, and those that change other tables.                 *)

\* What a handler that is about to take a step knows.
Known(u) ==
    /\ todo[u] \in Seq(Steps) /\ todo[u] # << >> /\ ProgramOK(todo[u])
    /\ AheadOK(todo[u], 1)
    /\ Now(u) = todo[u][1] /\ Now(u) \in Steps /\ FieldsOK(Now(u))
    /\ id(u) \in Uuids \cup {NoUuid}
    /\ Now(u).cmd \notin NoId => id(u) \in Uuids
    /\ job[u] \in Jobs /\ JobOK(job[u], todo[u]) /\ 1 \in 1 .. Len(todo[u])

LEMMA KnownHolds ==
  ASSUME Shared, NEW u \in Users, Busy(u)
  PROVE  Known(u)
<1>1. todo[u] \in Seq(Steps) /\ todo[u] # << >> /\ job[u] \in Jobs
  BY DEF Shared, Busy
<1>2. ProgramOK(todo[u]) /\ JobOK(job[u], todo[u])
  BY DEF Shared, ProgramsOK
<1>3. Head(todo[u]) = todo[u][1] /\ todo[u][1] \in Steps /\ 1 \in 1 .. Len(todo[u])
  BY <1>1, TailShift
<1>4. AheadOK(todo[u], 1) /\ FieldsOK(todo[u][1])
  BY <1>2, <1>3, ProgramParts DEF AheadOK
<1>5. id(u) \in Uuids \cup {NoUuid}
  BY <1>1 DEF Jobs, id
<1>6. todo[u][1].cmd \notin NoId => id(u) \in Uuids
  BY <1>1, <1>2 DEF JobOK, id
<1> QED
  BY <1>1, <1>2, <1>3, <1>4, <1>5, <1>6 DEF Known, Now

LEMMA Returned ==
  ASSUME Shared, NEW u \in Users, Busy(u), NEW left, GoOn(u, left, id(u)),
         GoesFound(todo[u], left) \/ GoesMissing(todo[u], left),
         Now(u).cmd \notin {"getGroupuuid", "addGroup"}
  PROVE  Programmed /\ Moved(u, left, id(u))
<1>1. Known(u)
  BY KnownHolds
<1>2. PICK s : s = todo[u]
  OBVIOUS
<1>3. s \in Seq(Steps) /\ s # << >> /\ ProgramOK(s) /\ s[1].cmd \notin {"getGroupuuid", "addGroup"}
      /\ (s[1].cmd \notin NoId => id(u) \in Uuids) /\ id(u) \in Uuids \cup {NoUuid}
  BY <1>1, <1>2 DEF Known
<1>4. LeftFine(s, left) /\ (left = << >> \/ left[1].cmd \in NoId \/ s[1].cmd \notin NoId)
  BY <1>2, <1>3, LeftOK
<1> QED
  BY <1>2, <1>3, <1>4, GoneOn

LEMMA IndexStays ==
  ASSUME Shared, KeysOK, Programmed, NEW u \in Users, NEW left, NEW g, Moved(u, left, g),
         index' = index, KeyOK(index, g, left)
  PROVE  KeysOK'
<1>1. \A j, k \in Keys : index[j] = index[k] /\ index[k] # NoUuid => j = k
  BY DEF KeysOK
<1> QED
  BY <1>1, KeysKept

LEMMA KeysReturned ==
  ASSUME Shared, KeysOK, Programmed, NEW u \in Users, Busy(u), NEW left, Moved(u, left, id(u)),
         GoesFound(todo[u], left) \/ GoesMissing(todo[u], left),
         Now(u).cmd \notin {"getGroupuuid", "addGroup", "delGroup"}, index' = index
  PROVE  KeysOK'
<1>1. Known(u) /\ KeyOK(index, id(u), todo[u])
  BY KnownHolds DEF KeysOK
<1>2. PICK s : s = todo[u]
  OBVIOUS
<1>3. s \in Seq(Steps) /\ s # << >> /\ ProgramOK(s)
      /\ s[1].cmd \notin {"getGroupuuid", "addGroup", "delGroup"}
  BY <1>1, <1>2 DEF Known
<1>4. KeyOK(index, id(u), left)
  BY <1>1, <1>2, <1>3, LeftKeys
<1> QED
  BY <1>4, IndexStays

Safe == KeysOK /\ OwnersOK /\ ManagersOK

LEMMA Harmless ==
  ASSUME Shared, Safe, NEW u \in Users, Busy(u), NEW left, GoOn(u, left, id(u)),
         \/ GoesFound(todo[u], left)
         \/ /\ GoesMissing(todo[u], left)
            /\ Now(u).cmd = "isManager" => managers[id(u)][Now(u).who] = NoRole,
         Now(u).cmd \notin {"getGroupuuid", "addGroup", "delGroup", "SetGroupMember",
                            "removeGroupManager"},
         index' = index, members' = members, managers' = managers
  PROVE  Safe'
<1>1. Programmed /\ Moved(u, left, id(u))
  BY Returned
<1>2. Known(u)
  BY KnownHolds
<1>3. KeysOK'
  BY <1>1, KeysReturned DEF Safe
<1>4. OwnersOK'
  <2>1. OwnersOK
    BY DEF Safe
  <2> QED
    BY <1>1, <2>1, OwnersKept
<1>5. ManagersOK'
  <2>1. ASSUME NEW h \in Uuids, NEW x \in Users, managers[h][x] # NoRole, id(u) = h,
               Mends(todo[u], x)
        PROVE  Mends(left, x)
    <3>1. PICK s : s = todo[u]
      OBVIOUS
    <3>2. s \in Seq(Steps) /\ s # << >> /\ ProgramOK(s) /\ s[1] = Now(u)
      BY <1>2, <3>1 DEF Known
    <3>3. \/ GoesFound(s, left)
          \/ GoesMissing(s, left) /\ ~(s[1].cmd = "isManager" /\ s[1].who = x)
      BY <2>1, <3>1, <3>2
    <3> QED
      BY <2>1, <3>1, <3>2, <3>3, MendsLeft
  <2>2. \A h \in Uuids, x \in Users : Belongs(x, h) => Belongs(x, h)'
    BY DEF Belongs
  <2>3. ManagersOK
    BY DEF Safe
  <2> QED
    BY <1>1, <2>1, <2>2, <2>3, ManagersKept
<1> QED
  BY <1>3, <1>4, <1>5 DEF Safe

\* The program has grown, and does nothing to a group that it has not named.
LEMMA Grown ==
  ASSUME Shared, Safe, NEW u \in Users, Busy(u), NEW left, Programmed, Moved(u, left, id(u)),
         Now(u).cmd \in {"getManagers", "getGroupMember", "getGroupManager"},
         KeyOK(index, id(u), left),
         index' = index, members' = members, managers' = managers
  PROVE  Safe'
<1>1. Known(u) /\ KeysOK /\ OwnersOK /\ ManagersOK
  BY KnownHolds DEF Safe
<1>2. KeysOK'
  BY <1>1, IndexStays
<1>3. OwnersOK'
  BY <1>1, OwnersKept
<1>4. ManagersOK'
  <2>1. ASSUME NEW x \in Users
        PROVE  ~Mends(todo[u], x)
    BY <1>1, MendsNobody DEF Known
  <2>2. \A h \in Uuids, x \in Users : Belongs(x, h) => Belongs(x, h)'
    BY DEF Belongs
  <2> QED
    BY <1>1, <2>1, <2>2, ManagersKept
<1> QED
  BY <1>2, <1>3, <1>4 DEF Safe

-----------------------------------------------------------------------------
(* The commands.                                                           *)

LEMMA InvParts ==
  ASSUME Inv
  PROVE  TablesOK /\ ProgramsOK /\ Shared /\ (~garbage => Safe)
  BY SharedHolds DEF Inv, Safe

LEMMA Whole ==
  ASSUME TablesOK', ProgramsOK', ~garbage' => Safe'
  PROVE  Inv'
  BY DEF Inv, Safe

\* The command has answered as found says.
LEMMA RestGoes ==
  ASSUME NEW u, Known(u), NEW found \in BOOLEAN, NEW left, left = Rest(u, found)
  PROVE  /\ found => GoesFound(todo[u], left)
         /\ ~found => GoesMissing(todo[u], left)
<1>1. Now(u) = todo[u][1]
  BY DEF Known
<1>2. CASE found
  <2>1. left = IF todo[u][1].mode = "unless" THEN << >>
               ELSE IF todo[u][1].mode = "or" THEN Tail(Tail(todo[u])) ELSE Tail(todo[u])
    BY <1>1, <1>2 DEF Rest
  <2>2. GoesFound(todo[u], left)
    BY <2>1 DEF GoesFound
  <2> QED
    BY <1>2, <2>2
<1>3. CASE ~found
  <2>1. left = IF todo[u][1].mode = "needs" THEN << >>
               ELSE IF todo[u][1].mode = "and" THEN Tail(Tail(todo[u])) ELSE Tail(todo[u])
    BY <1>1, <1>3 DEF Rest
  <2>2. GoesMissing(todo[u], left)
    BY <2>1 DEF GoesMissing
  <2> QED
    BY <1>3, <2>2
<1> QED
  BY <1>2, <1>3

LEMMA ReturnGoes ==
  ASSUME Shared, NEW u \in Users, Busy(u), NEW found \in BOOLEAN, Return(u, found)
  PROVE  \E left :
            /\ GoOn(u, left, id(u))
            /\ found => GoesFound(todo[u], left)
            /\ ~found => GoesMissing(todo[u], left)
<1>1. Known(u)
  BY KnownHolds
<1>2. PICK left : left = Rest(u, found)
  OBVIOUS
<1>3. GoOn(u, left, id(u))
  BY <1>2 DEF Return
<1> QED
  BY <1>1, <1>2, <1>3, RestGoes
LEMMA GroupExistsKeeps ==
  ASSUME Inv, NEW u \in Users, GroupExists(u)
  PROVE  Inv'
<1>1. TablesOK /\ Shared /\ (~garbage => Safe)
  BY InvParts
<1>2. Busy(u) /\ Now(u).cmd = "GroupExists"
  BY DEF GroupExists, Doing
<1>3. PICK found \in BOOLEAN : found = (index[Now(u).key] # NoUuid)
  OBVIOUS
<1>4. Return(u, found)
  BY <1>3 DEF GroupExists
<1>5. PICK left : /\ GoOn(u, left, id(u))
                  /\ found => GoesFound(todo[u], left)
                  /\ ~found => GoesMissing(todo[u], left)
  BY <1>1, <1>2, <1>4, ReturnGoes
<1>6. UNCHANGED << redisVars, menu, kicked, garbage, served, mixed, crashed >>
  BY DEF GroupExists, redisVars
<1>7. Programmed
  BY <1>1, <1>2, <1>5, Returned
<1>8. ~garbage' => Safe'
  BY <1>1, <1>2, <1>5, <1>6, Harmless DEF redisVars
<1>9. TablesOK' /\ ProgramsOK'
  BY <1>1, <1>6, <1>7 DEF TablesOK, redisVars, Programmed
<1> QED
  BY <1>8, <1>9, Whole

LEMMA UserFieldHexistsKeeps ==
  ASSUME Inv, NEW u \in Users, userFieldHexists(u)
  PROVE  Inv'
<1>1. TablesOK /\ Shared /\ (~garbage => Safe)
  BY InvParts
<1>2. Busy(u) /\ Now(u).cmd = "userFieldHexists"
  BY DEF userFieldHexists, Doing
<1>3. PICK found \in BOOLEAN : found = (Now(u).who \in account)
  <2>1. (Now(u).who \in account) \in BOOLEAN
    OBVIOUS
  <2> QED
    BY <2>1
<1>4. Return(u, found)
  BY <1>3 DEF userFieldHexists
<1>5. PICK left : /\ GoOn(u, left, id(u))
                  /\ found => GoesFound(todo[u], left)
                  /\ ~found => GoesMissing(todo[u], left)
  BY <1>1, <1>2, <1>4, ReturnGoes
<1>6. UNCHANGED << redisVars, menu, kicked, garbage, served, mixed, crashed >>
  BY DEF userFieldHexists, redisVars
<1>7. Programmed
  BY <1>1, <1>2, <1>5, Returned
<1>8. ~garbage' => Safe'
  BY <1>1, <1>2, <1>5, <1>6, Harmless DEF redisVars
<1>9. TablesOK' /\ ProgramsOK'
  BY <1>1, <1>6, <1>7 DEF TablesOK, redisVars, Programmed
<1> QED
  BY <1>8, <1>9, Whole

LEMMA IsManagerKeeps ==
  ASSUME Inv, NEW u \in Users, isManager(u)
  PROVE  Inv'
<1>1. TablesOK /\ Shared /\ (~garbage => Safe)
  BY InvParts
<1>2. Busy(u) /\ Now(u).cmd = "isManager"
  BY DEF isManager, Doing
<1>3. PICK found \in BOOLEAN : found = (managers[id(u)][Now(u).who] # NoRole)
  OBVIOUS
<1>4. Return(u, found)
  BY <1>3 DEF isManager
<1>5. PICK left : /\ GoOn(u, left, id(u))
                  /\ found => GoesFound(todo[u], left)
                  /\ ~found => GoesMissing(todo[u], left)
  BY <1>1, <1>2, <1>4, ReturnGoes
<1>6. UNCHANGED << redisVars, menu, kicked, garbage, served, mixed, crashed >>
  BY DEF isManager, redisVars
<1>7. Programmed
  BY <1>1, <1>2, <1>5, Returned
<1>8. ~garbage' => Safe'
  BY <1>1, <1>2, <1>3, <1>5, <1>6, Harmless DEF redisVars
<1>9. TablesOK' /\ ProgramsOK'
  BY <1>1, <1>6, <1>7 DEF TablesOK, redisVars, Programmed
<1> QED
  BY <1>8, <1>9, Whole

LEMMA ChooseKeeps ==
  ASSUME Inv, NEW u \in Users, choose(u)
  PROVE  Inv'
<1>1. TablesOK /\ Shared /\ (~garbage => Safe)
  BY InvParts
<1>2. Busy(u) /\ Now(u).cmd = "choose"
  BY DEF choose, Doing
<1>3. PICK found \in BOOLEAN : found = TRUE
  OBVIOUS
<1>4. Return(u, found)
  BY <1>3 DEF choose
<1>5. PICK left : /\ GoOn(u, left, id(u))
                  /\ found => GoesFound(todo[u], left)
                  /\ ~found => GoesMissing(todo[u], left)
  BY <1>1, <1>2, <1>4, ReturnGoes
<1>6. UNCHANGED << redisVars, kicked, garbage, served, mixed, crashed >>
  BY DEF choose, redisVars
<1>7. Programmed
  BY <1>1, <1>2, <1>5, Returned
<1>8. ~garbage' => Safe'
  BY <1>1, <1>2, <1>5, <1>6, Harmless DEF redisVars
<1>10. Known(u)
  BY <1>1, <1>2, KnownHolds
<1>11. Now(u).key \in Keys /\ id(u) \in Uuids
  BY <1>2, <1>10 DEF Known, FieldsOK, NoId
<1>12. PICK r : r = IF managers[id(u)][u] = NoRole THEN "member" ELSE managers[id(u)][u]
  OBVIOUS
<1>13. r \in Roles
  BY <1>1, <1>11, <1>12 DEF TablesOK, Roles
<1>14. menu' = [menu EXCEPT ![u] = [key |-> Now(u).key, role |-> r]]
  BY <1>12 DEF choose
<1>15. /\ menu' \in [Users -> [key : Keys \cup {NoKey}, role : Roles \cup {NoRole}]]
       /\ \A v \in Users : menu'[v].role # NoRole => menu'[v].key \in Keys
  BY <1>1, <1>11, <1>13, <1>14 DEF TablesOK
<1>9. TablesOK' /\ ProgramsOK'
  BY <1>1, <1>6, <1>7, <1>15 DEF TablesOK, redisVars, Programmed
<1> QED
  BY <1>8, <1>9, Whole

LEMMA SetGroupNotifyKeeps ==
  ASSUME Inv, NEW u \in Users, setGroupNotify(u)
  PROVE  Inv'
<1>1. TablesOK /\ Shared /\ (~garbage => Safe)
  BY InvParts
<1>2. Busy(u) /\ Now(u).cmd = "setGroupNotify"
  BY DEF setGroupNotify, Doing
<1>3. PICK found \in BOOLEAN : found = TRUE
  OBVIOUS
<1>4. Return(u, found)
  BY <1>3 DEF setGroupNotify
<1>5. PICK left : /\ GoOn(u, left, id(u))
                  /\ found => GoesFound(todo[u], left)
                  /\ ~found => GoesMissing(todo[u], left)
  BY <1>1, <1>2, <1>4, ReturnGoes
<1>6. UNCHANGED << account, index, members, managers, lists, menu, kicked, garbage, served, mixed, crashed >>
  BY DEF setGroupNotify
<1>7. Programmed
  BY <1>1, <1>2, <1>5, Returned
<1>8. ~garbage' => Safe'
  BY <1>1, <1>2, <1>5, <1>6, Harmless
<1>10. Known(u)
  BY <1>1, <1>2, KnownHolds
<1>11. Now(u).who \in Users /\ job[u].x \in Users /\ job[u].key \in Keys
  BY <1>2, <1>10 DEF Known, FieldsOK, JobOK
<1>12. notify' = [notify EXCEPT ![Now(u).who][job[u].x] = job[u].key]
  BY DEF setGroupNotify
<1>13. notify' \in [Users -> [Users -> Keys \cup {NoKey}]]
  BY <1>1, <1>11, <1>12 DEF TablesOK
<1>9. TablesOK' /\ ProgramsOK'
  BY <1>1, <1>6, <1>7, <1>13 DEF TablesOK, Programmed
<1> QED
  BY <1>8, <1>9, Whole

LEMMA DelGroupNotifyKeeps ==
  ASSUME Inv, NEW u \in Users, delGroupNotify(u)
  PROVE  Inv'
<1>1. TablesOK /\ Shared /\ (~garbage => Safe)
  BY InvParts
<1>2. Busy(u) /\ Now(u).cmd = "delGroupNotify"
  BY DEF delGroupNotify, Doing
<1>3. PICK found \in BOOLEAN : found = TRUE
  OBVIOUS
<1>4. Return(u, found)
  BY <1>3 DEF delGroupNotify
<1>5. PICK left : /\ GoOn(u, left, id(u))
                  /\ found => GoesFound(todo[u], left)
                  /\ ~found => GoesMissing(todo[u], left)
  BY <1>1, <1>2, <1>4, ReturnGoes
<1>6. UNCHANGED << account, index, members, managers, lists, menu, kicked, garbage, served, mixed, crashed >>
  BY DEF delGroupNotify
<1>7. Programmed
  BY <1>1, <1>2, <1>5, Returned
<1>8. ~garbage' => Safe'
  BY <1>1, <1>2, <1>5, <1>6, Harmless
<1>10. Known(u)
  BY <1>1, <1>2, KnownHolds
<1>11. Now(u).who \in Users /\ job[u].x \in Users /\ job[u].key \in Keys
  BY <1>2, <1>10 DEF Known, FieldsOK, JobOK
<1>12. notify' = [notify EXCEPT ![Now(u).who][job[u].x] = NoKey]
  BY DEF delGroupNotify
<1>13. notify' \in [Users -> [Users -> Keys \cup {NoKey}]]
  BY <1>1, <1>11, <1>12 DEF TablesOK
<1>9. TablesOK' /\ ProgramsOK'
  BY <1>1, <1>6, <1>7, <1>13 DEF TablesOK, Programmed
<1> QED
  BY <1>8, <1>9, Whole

LEMMA DeleteHashKeyKeeps ==
  ASSUME Inv, NEW u \in Users, deleteHashKey(u)
  PROVE  Inv'
<1>1. TablesOK /\ Shared /\ (~garbage => Safe)
  BY InvParts
<1>2. Busy(u) /\ Now(u).cmd = "deleteHashKey"
  BY DEF deleteHashKey, Doing
<1>3. PICK found \in BOOLEAN : found = TRUE
  OBVIOUS
<1>4. Return(u, found)
  BY <1>3 DEF deleteHashKey
<1>5. PICK left : /\ GoOn(u, left, id(u))
                  /\ found => GoesFound(todo[u], left)
                  /\ ~found => GoesMissing(todo[u], left)
  BY <1>1, <1>2, <1>4, ReturnGoes
<1>6. UNCHANGED << index, members, managers, lists, notify, garbage, served, mixed, crashed >>
  BY DEF deleteHashKey
<1>7. Programmed
  BY <1>1, <1>2, <1>5, Returned
<1>8. ~garbage' => Safe'
  BY <1>1, <1>2, <1>5, <1>6, Harmless
<1>10. account' \subseteq Users
  BY <1>1 DEF deleteHashKey, TablesOK
<1>11. menu' = [menu EXCEPT ![u] = NoMenu]
  BY DEF deleteHashKey
<1>12. /\ menu' \in [Users -> [key : Keys \cup {NoKey}, role : Roles \cup {NoRole}]]
       /\ \A v \in Users : menu'[v].role # NoRole => menu'[v].key \in Keys
  BY <1>1, <1>11 DEF TablesOK, NoMenu
<1>13. kicked' \subseteq Users \X Keys \X {"owner", "manager", "account"}
  <2>1. kicked' = kicked \cup {<< u, k, "account" >> : k \in lists[u]}
    BY DEF deleteHashKey
  <2>2. /\ kicked \subseteq Users \X Keys \X {"owner", "manager", "account"}
        /\ lists[u] \subseteq Keys
    BY <1>1 DEF TablesOK
  <2> QED
    BY <2>1, <2>2
<1>9. TablesOK' /\ ProgramsOK'
  BY <1>1, <1>6, <1>7, <1>10, <1>12, <1>13 DEF TablesOK, Programmed
<1> QED
  BY <1>8, <1>9, Whole

LEMMA UserSetGroupsKeeps ==
  ASSUME Inv, NEW u \in Users, UserSetGroups(u)
  PROVE  Inv'
<1>1. TablesOK /\ Shared /\ (~garbage => Safe)
  BY InvParts
<1>2. Busy(u) /\ Now(u).cmd = "UserSetGroups"
  BY DEF UserSetGroups, Doing
<1>3. PICK found \in BOOLEAN : found = TRUE
  OBVIOUS
<1>4. Return(u, found)
  BY <1>3 DEF UserSetGroups
<1>5. PICK left : /\ GoOn(u, left, id(u))
                  /\ found => GoesFound(todo[u], left)
                  /\ ~found => GoesMissing(todo[u], left)
  BY <1>1, <1>2, <1>4, ReturnGoes
<1>6. UNCHANGED << account, index, members, managers, notify, menu, garbage, served, mixed, crashed >>
  BY DEF UserSetGroups
<1>7. Programmed
  BY <1>1, <1>2, <1>5, Returned
<1>8. ~garbage' => Safe'
  BY <1>1, <1>2, <1>5, <1>6, Harmless
<1>10. Known(u)
  BY <1>1, <1>2, KnownHolds
<1>11. Now(u).who \in Users /\ Now(u).key \in Keys
  BY <1>2, <1>10 DEF Known, FieldsOK
<1>12. PICK S : S = lists[Now(u).who] \cup {Now(u).key}
  OBVIOUS
<1>13. S \in SUBSET Keys /\ IsFiniteSet(S)
  <2>1. lists[Now(u).who] \in SUBSET Keys /\ IsFiniteSet(lists[Now(u).who])
    BY <1>1, <1>11 DEF TablesOK
  <2> QED
    BY <1>11, <1>12, <2>1, FS_AddElement
<1>14. lists' = [lists EXCEPT ![Now(u).who] = S]
  BY <1>12 DEF UserSetGroups
<1>15. lists' \in [Users -> SUBSET Keys] /\ \A v \in Users : IsFiniteSet(lists'[v])
  BY <1>1, <1>13, <1>14 DEF TablesOK
<1>16. kicked' \subseteq Users \X Keys \X {"owner", "manager", "account"}
  <2>1. kicked' \subseteq kicked
    BY DEF UserSetGroups
  <2> QED
    BY <1>1, <2>1 DEF TablesOK
<1>9. TablesOK' /\ ProgramsOK'
  BY <1>1, <1>6, <1>7, <1>15, <1>16 DEF TablesOK, Programmed
<1> QED
  BY <1>8, <1>9, Whole

LEMMA UserRemoveGroupsKeeps ==
  ASSUME Inv, NEW u \in Users, UserRemoveGroups(u)
  PROVE  Inv'
<1>1. TablesOK /\ Shared /\ (~garbage => Safe)
  BY InvParts
<1>2. Busy(u) /\ Now(u).cmd = "UserRemoveGroups"
  BY DEF UserRemoveGroups, Doing
<1>3. PICK found \in BOOLEAN : found = TRUE
  OBVIOUS
<1>4. Return(u, found)
  BY <1>3 DEF UserRemoveGroups
<1>5. PICK left : /\ GoOn(u, left, id(u))
                  /\ found => GoesFound(todo[u], left)
                  /\ ~found => GoesMissing(todo[u], left)
  BY <1>1, <1>2, <1>4, ReturnGoes
<1>6. UNCHANGED << account, index, members, managers, notify, menu, kicked, garbage, served, mixed, crashed >>
  BY DEF UserRemoveGroups
<1>7. Programmed
  BY <1>1, <1>2, <1>5, Returned
<1>8. ~garbage' => Safe'
  BY <1>1, <1>2, <1>5, <1>6, Harmless
<1>10. Known(u)
  BY <1>1, <1>2, KnownHolds
<1>11. Now(u).who \in Users
  BY <1>2, <1>10 DEF Known, FieldsOK
<1>12. PICK S : S = lists[Now(u).who] \ {Now(u).key}
  OBVIOUS
<1>13. S \in SUBSET Keys /\ IsFiniteSet(S)
  <2>1. lists[Now(u).who] \in SUBSET Keys /\ IsFiniteSet(lists[Now(u).who])
    BY <1>1, <1>11 DEF TablesOK
  <2>2. S \subseteq lists[Now(u).who]
    BY <1>12
  <2> QED
    BY <2>1, <2>2, FS_Subset
<1>14. lists' = [lists EXCEPT ![Now(u).who] = S]
  BY <1>12 DEF UserRemoveGroups
<1>15. lists' \in [Users -> SUBSET Keys] /\ \A v \in Users : IsFiniteSet(lists'[v])
  BY <1>1, <1>13, <1>14 DEF TablesOK
<1>9. TablesOK' /\ ProgramsOK'
  BY <1>1, <1>6, <1>7, <1>15 DEF TablesOK, Programmed
<1> QED
  BY <1>8, <1>9, Whole
LEMMA MendingTail ==
  ASSUME NEW s, NEW t, Shift(s, t, 1), NEW x
  PROVE  /\ Mending(t, 1, x) <=> Mending(s, 2, x)
         /\ Mending(t, 2, x) <=> Mending(s, 3, x)
<1>1. 1 \in Nat \ {0} /\ 2 \in Nat \ {0} /\ 1 + 1 = 2 /\ 2 + 1 = 3
  OBVIOUS
<1>2. /\ Mending(t, 1, x) <=> Mending(s, 1 + 1, x)
      /\ Mending(t, 2, x) <=> Mending(s, 2 + 1, x)
  BY <1>1, MendingShift
<1> QED
  BY <1>1, <1>2

LEMMA SetGroupMemberKeeps ==
  ASSUME Inv, NEW u \in Users, SetGroupMember(u)
  PROVE  Inv'
<1>1. TablesOK /\ Shared /\ (~garbage => Safe)
  BY InvParts
<1>2. Busy(u) /\ Now(u).cmd = "SetGroupMember"
  BY DEF SetGroupMember, Doing
<1>3. PICK found \in BOOLEAN : found = (<< Now(u).who, Now(u).role >> \notin members[id(u)])
  OBVIOUS
<1>4. Return(u, found)
  BY <1>3 DEF SetGroupMember
<1>5. PICK left : /\ GoOn(u, left, id(u))
                  /\ found => GoesFound(todo[u], left)
                  /\ ~found => GoesMissing(todo[u], left)
  BY <1>1, <1>2, <1>4, ReturnGoes
<1>6. UNCHANGED << account, index, managers, lists, notify, menu, kicked, garbage, served, mixed, crashed >>
  BY DEF SetGroupMember
<1>7. Programmed /\ Moved(u, left, id(u))
  BY <1>1, <1>2, <1>5, Returned
<1>10. Known(u)
  BY <1>1, <1>2, KnownHolds
<1>11. id(u) \in Uuids /\ Now(u).who \in Users /\ Now(u).role \in Roles
  BY <1>2, <1>10 DEF Known, FieldsOK, NoId
<1>12. members' = [members EXCEPT ![id(u)] = members[id(u)] \cup {<< Now(u).who, Now(u).role >>}]
  BY DEF SetGroupMember
<1>13. members' \in [Uuids -> SUBSET (Users \X Roles)]
  BY <1>1, <1>11, <1>12 DEF TablesOK
<1>9. TablesOK' /\ ProgramsOK'
  BY <1>1, <1>6, <1>7, <1>13 DEF TablesOK, Programmed
<1>14. /\ \A h \in Uuids : members[h] \subseteq members'[h]
       /\ << Now(u).who, Now(u).role >> \in members'[id(u)]
  BY <1>1, <1>11, <1>12 DEF TablesOK
<1>15. \A k \in Keys : index[k] # NoUuid => index[k] \in Uuids
  BY <1>1 DEF TablesOK
<1>8. ASSUME ~garbage'
      PROVE  Safe'
  <2>0. KeysOK /\ OwnersOK /\ ManagersOK
    BY <1>1, <1>6, <1>8 DEF Safe
  <2>1. KeysOK'
    BY <1>1, <1>2, <1>5, <1>6, <1>7, <2>0, KeysReturned
  <2>2. OwnersOK'
    BY <1>1, <1>6, <1>7, <1>14, <1>15, <2>0, OwnersKept
  <2>3. ManagersOK'
    <3>1. ASSUME NEW h \in Uuids, NEW x \in Users, Belongs(x, h)
          PROVE  Belongs(x, h)'
      BY <1>14, <3>1 DEF Belongs
    <3>2. ASSUME NEW h \in Uuids, NEW x \in Users, id(u) = h, Mends(todo[u], x)
          PROVE  Belongs(x, h)' \/ Mends(left, x)
      <4>1. PICK s : s = todo[u]
        OBVIOUS
      <4>2. s \in Seq(Steps) /\ s # << >> /\ ProgramOK(s) /\ s[1] = Now(u)
        BY <1>10, <4>1 DEF Known
      <4>3. \/ GoesFound(s, left)
            \/ GoesMissing(s, left) /\ ~(s[1].cmd = "isManager" /\ s[1].who = x)
        BY <1>2, <1>5, <4>1, <4>2
      <4>4. Now(u).who = x \/ Mends(left, x)
        BY <3>2, <4>1, <4>2, <4>3, MendsLeft
      <4> QED
        BY <1>11, <1>14, <3>2, <4>4 DEF Belongs
    <3> QED
      BY <1>1, <1>6, <1>7, <2>0, <3>1, <3>2, ManagersKept
  <2> QED
    BY <2>1, <2>2, <2>3 DEF Safe
<1> QED
  BY <1>8, <1>9, Whole

LEMMA RemoveGroupMemberKeeps ==
  ASSUME Inv, NEW u \in Users, removeGroupMember(u)
  PROVE  Inv'
<1>1. TablesOK /\ Shared /\ (~garbage => Safe)
  BY InvParts
<1>2. Busy(u) /\ Now(u).cmd = "removeGroupMember"
  BY DEF removeGroupMember, Doing
<1>3. PICK found \in BOOLEAN : found = (<< Now(u).who, Now(u).role >> \in members[id(u)])
  <2>1. (<< Now(u).who, Now(u).role >> \in members[id(u)]) \in BOOLEAN
    OBVIOUS
  <2> QED
    BY <2>1
<1>4. Return(u, found)
  BY <1>3 DEF removeGroupMember
<1>5. PICK left : /\ GoOn(u, left, id(u))
                  /\ found => GoesFound(todo[u], left)
                  /\ ~found => GoesMissing(todo[u], left)
  BY <1>1, <1>2, <1>4, ReturnGoes
<1>6. UNCHANGED << account, index, managers, lists, notify, menu, garbage, served, mixed, crashed >>
  BY DEF removeGroupMember
<1>7. Programmed /\ Moved(u, left, id(u))
  BY <1>1, <1>2, <1>5, Returned
<1>10. Known(u)
  BY <1>1, <1>2, KnownHolds
<1>11. /\ id(u) \in Uuids /\ Now(u).who \in Users /\ Now(u).role \in Roles
       /\ Now(u).role # "owner"
  BY <1>2, <1>10 DEF Known, FieldsOK, NoId
<1>12. members' = [members EXCEPT ![id(u)] = members[id(u)] \ {<< Now(u).who, Now(u).role >>}]
  BY DEF removeGroupMember
<1>13. members' \in [Uuids -> SUBSET (Users \X Roles)]
  BY <1>1, <1>11, <1>12 DEF TablesOK
<1>16. kicked' \subseteq Users \X Keys \X {"owner", "manager", "account"}
  <2>1. kicked \subseteq Users \X Keys \X {"owner", "manager", "account"}
    BY <1>1 DEF TablesOK
  <2>2. ASSUME NEW out \in kicked', out \notin kicked
        PROVE  out \in Users \X Keys \X {"owner", "manager"}
    <3>1. PICK r \in {"owner", "manager"} :
            out = << Now(u).who, job[u].key, r >> /\ job[u].op = del_member_as[r]
      BY <2>2 DEF removeGroupMember, del_member_as
    <3>2. job[u].op \in {"del_member_owner", "del_member_manager"}
      BY <3>1 DEF del_member_as
    <3>3. job[u].key \in Keys
      BY <1>10, <3>2 DEF Known, JobOK
    <3> QED
      BY <1>11, <3>1, <3>3
  <2> QED
    BY <2>1, <2>2
<1>9. TablesOK' /\ ProgramsOK'
  BY <1>1, <1>6, <1>7, <1>13, <1>16 DEF TablesOK, Programmed
<1>14. /\ \A h \in Uuids, y \in Users : << y, "owner" >> \in members[h] => << y, "owner" >> \in members'[h]
       /\ \A h \in Uuids : h # id(u) => members'[h] = members[h]
       /\ \A x \in Users, r \in Roles : x # Now(u).who =>
             (<< x, r >> \in members[id(u)] => << x, r >> \in members'[id(u)])
       /\ ~found => members'[id(u)] = members[id(u)]
  BY <1>1, <1>3, <1>11, <1>12 DEF TablesOK
<1>15. \A k \in Keys : k[2] \in Users /\ (index[k] # NoUuid => index[k] \in Uuids)
  BY <1>1, CommandNames DEF TablesOK
<1>8. ASSUME ~garbage'
      PROVE  Safe'
  <2>0. KeysOK /\ OwnersOK /\ ManagersOK
    BY <1>1, <1>6, <1>8 DEF Safe
  <2>1. KeysOK'
    BY <1>1, <1>2, <1>5, <1>6, <1>7, <2>0, KeysReturned
  <2>2. OwnersOK'
    BY <1>1, <1>2, <1>6, <1>7, <1>14, <1>15, <2>0, OwnersKept
  <2>3. ManagersOK'
    <3>1. PICK s : s = todo[u]
      OBVIOUS
    <3>2. /\ s \in Seq(Steps) /\ s # << >> /\ ProgramOK(s) /\ s[1] = Now(u)
          /\ FieldsOK(s[1]) /\ RemovalOK(s, 1)
      BY <1>10, <3>1 DEF Known, AheadOK
    <3>3. ASSUME NEW h \in Uuids, NEW x \in Users, ~(h = id(u) /\ x = Now(u).who /\ found),
                 Belongs(x, h)
          PROVE  Belongs(x, h)'
      BY <1>14, <3>3 DEF Belongs
    <3>4. ASSUME NEW x \in Users, Mends(todo[u], x)
          PROVE  Mends(left, x)
      <4>1. \/ GoesFound(s, left)
            \/ GoesMissing(s, left) /\ ~(s[1].cmd = "isManager" /\ s[1].who = x)
        BY <1>2, <1>5, <3>1, <3>2
      <4> QED
        BY <1>2, <3>1, <3>2, <3>4, <4>1, MendsLeft
    <3>5. ASSUME found
          PROVE  Mends(left, Now(u).who)
      <4>1. GoesFound(s, left)
        BY <1>5, <3>1, <3>5
      <4>2. PICK x : x = s[1].who
        OBVIOUS
      <4>3. PICK t : t = Tail(s)
        OBVIOUS
      <4>4. t \in Seq(Steps) /\ Shift(s, t, 1) /\ 1 + 1 = 2 /\ 2 + 1 = 3 /\ 1 + 2 = 3
        BY <3>2, <4>3, TailShift
      <4>5. CASE s[1].mode # "or" /\ Mending(s, 2, x)
        <5>1. left = t
          BY <1>2, <3>2, <4>1, <4>3, <4>5 DEF GoesFound, FieldsOK
        <5>2. Mending(t, 1, x)
          BY <4>4, <4>5, MendingTail
        <5> QED
          BY <3>2, <4>2, <5>1, <5>2 DEF Mends
      <4>6. CASE s[1].mode = "or" /\ 1 < Len(s) /\ Mending(s, 3, x)
        <5>1. left = Tail(t)
          BY <4>1, <4>3, <4>6 DEF GoesFound
        <5>2. t # << >>
          <6>1. Len(t) # 0
            BY <4>4, <4>6 DEF Shift
          <6> QED
            BY <6>1
        <5>3. Mending(t, 2, x)
          BY <4>4, <4>6, MendingTail
        <5>4. Shift(t, Tail(t), 1)
          BY <4>4, <5>2, TailShift
        <5>5. Mending(left, 1, x)
          BY <4>4, <5>1, <5>3, <5>4, MendingShift
        <5> QED
          BY <3>2, <4>2, <5>5 DEF Mends
      <4>7. \/ s[1].mode # "or" /\ Mending(s, 1 + 1, x)
            \/ s[1].mode = "or" /\ 1 < Len(s) /\ Mending(s, 1 + 2, x)
        BY <1>2, <3>2, <4>2 DEF RemovalOK
      <4> QED
        BY <4>4, <4>5, <4>6, <4>7
    <3> QED
      BY <1>1, <1>6, <1>7, <2>0, <3>3, <3>4, <3>5, ManagersKept
  <2> QED
    BY <2>1, <2>2, <2>3 DEF Safe
<1> QED
  BY <1>8, <1>9, Whole

LEMMA DelGroupMemberKeeps ==
  ASSUME Inv, NEW u \in Users, delGroupMember(u)
  PROVE  Inv'
<1>1. TablesOK /\ Shared /\ (~garbage => Safe)
  BY InvParts
<1>2. Busy(u) /\ Now(u).cmd = "delGroupMember"
  BY DEF delGroupMember, Doing
<1>3. PICK found \in BOOLEAN : found = TRUE
  OBVIOUS
<1>4. Return(u, found)
  BY <1>3 DEF delGroupMember
<1>5. PICK left : /\ GoOn(u, left, id(u))
                  /\ found => GoesFound(todo[u], left)
                  /\ ~found => GoesMissing(todo[u], left)
  BY <1>1, <1>2, <1>4, ReturnGoes
<1>6. UNCHANGED << account, index, managers, lists, notify, menu, kicked, garbage, served, mixed, crashed >>
  BY DEF delGroupMember
<1>7. Programmed /\ Moved(u, left, id(u))
  BY <1>1, <1>2, <1>5, Returned
<1>10. Known(u)
  BY <1>1, <1>2, KnownHolds
<1>11. id(u) \in Uuids
  BY <1>2, <1>10 DEF Known, NoId
<1>12. members' = [members EXCEPT ![id(u)] = {}]
  BY DEF delGroupMember
<1>13. members' \in [Uuids -> SUBSET (Users \X Roles)]
  BY <1>1, <1>12 DEF TablesOK
<1>9. TablesOK' /\ ProgramsOK'
  BY <1>1, <1>6, <1>7, <1>13 DEF TablesOK, Programmed
<1>14. \A h \in Uuids : h # id(u) => members'[h] = members[h]
  BY <1>1, <1>12 DEF TablesOK
<1>15. \A k \in Keys : index[k] # NoUuid => index[k] \in Uuids
  BY <1>1 DEF TablesOK
<1>8. ASSUME ~garbage'
      PROVE  Safe'
  <2>0. KeysOK /\ OwnersOK /\ ManagersOK
    BY <1>1, <1>6, <1>8 DEF Safe
  \* Its group is not to be found any more.
  <2>9. \A k \in Keys : index[k] # id(u)
    <3>1. PICK s : s = todo[u]
      OBVIOUS
    <3>2. /\ s \in Seq(Steps) /\ s # << >> /\ ProgramOK(s) /\ s[1].cmd = "delGroupMember"
          /\ 1 \in 1 .. Len(s) /\ Len(s) \in Nat
      BY <1>2, <1>10, <3>1, LenProperties DEF Known
    <3>3. ASSUME NEW i \in 1 .. Len(s), s[i].cmd = "delGroup"
          PROVE  FALSE
      <4>1. i # 1
        BY <3>2, <3>3
      <4>2. 1 \in 1 .. i - 1
        BY <3>2, <4>1
      <4>3. BeforeOK(s, i)
        BY <3>2, ProgramParts
      <4> QED
        BY <3>2, <3>3, <4>2, <4>3 DEF BeforeOK
    <3>4. KeyOK(index, id(u), s)
      BY <2>0, <3>1 DEF KeysOK
    <3> QED
      BY <3>2, <3>3, <3>4 DEF KeyOK
  <2>1. KeysOK'
    BY <1>1, <1>2, <1>5, <1>6, <1>7, <2>0, KeysReturned
  <2>2. OwnersOK'
    BY <1>1, <1>2, <1>6, <1>7, <1>14, <1>15, <2>9, <2>0, OwnersKept
  <2>3. ManagersOK'
    <3>1. ASSUME NEW h \in Uuids, NEW x \in Users, h # id(u), Belongs(x, h)
          PROVE  Belongs(x, h)'
      BY <1>14, <3>1 DEF Belongs
    <3> QED
      BY <1>1, <1>6, <1>7, <2>0, <2>9, <3>1, ManagersKept
  <2> QED
    BY <2>1, <2>2, <2>3 DEF Safe
<1> QED
  BY <1>8, <1>9, Whole

LEMMA SetGroupManagerKeeps ==
  ASSUME Inv, NEW u \in Users, SetGroupManager(u)
  PROVE  Inv'
<1>1. TablesOK /\ Shared /\ (~garbage => Safe)
  BY InvParts
<1>2. Busy(u) /\ Now(u).cmd = "SetGroupManager"
  BY DEF SetGroupManager, Doing
<1>3. PICK found \in BOOLEAN : found = (managers[id(u)][Now(u).who] = NoRole)
  OBVIOUS
<1>4. Return(u, found)
  BY <1>3 DEF SetGroupManager
<1>5. PICK left : /\ GoOn(u, left, id(u))
                  /\ found => GoesFound(todo[u], left)
                  /\ ~found => GoesMissing(todo[u], left)
  BY <1>1, <1>2, <1>4, ReturnGoes
<1>6. UNCHANGED << account, index, members, lists, notify, menu, kicked, garbage, served, mixed, crashed >>
  BY DEF SetGroupManager
<1>7. Programmed /\ Moved(u, left, id(u))
  BY <1>1, <1>2, <1>5, Returned
<1>10. Known(u)
  BY <1>1, <1>2, KnownHolds
<1>11. id(u) \in Uuids /\ Now(u).who \in Users /\ Now(u).role \in {"owner", "manager"}
  BY <1>2, <1>10 DEF Known, FieldsOK, NoId
<1>12. managers' = [managers EXCEPT ![id(u)][Now(u).who] = Now(u).role]
  BY DEF SetGroupManager
<1>13. managers' \in [Uuids -> [Users -> {"owner", "manager", NoRole}]]
  BY <1>1, <1>11, <1>12 DEF TablesOK
<1>9. TablesOK' /\ ProgramsOK'
  BY <1>1, <1>6, <1>7, <1>13 DEF TablesOK, Programmed
<1>14. \A h \in Uuids, x \in Users : Belongs(x, h) => Belongs(x, h)'
  BY <1>6 DEF Belongs
<1>15. \A h \in Uuids, x \in Users : ~(h = id(u) /\ x = Now(u).who) => managers'[h][x] = managers[h][x]
  BY <1>1, <1>11, <1>12 DEF TablesOK
<1>8. ASSUME ~garbage'
      PROVE  Safe'
  <2>0. KeysOK /\ OwnersOK /\ ManagersOK
    BY <1>1, <1>6, <1>8 DEF Safe
  <2>1. KeysOK'
    BY <1>1, <1>2, <1>5, <1>6, <1>7, <2>0, KeysReturned
  <2>2. OwnersOK'
    BY <1>1, <1>2, <1>6, <1>7, <2>0, OwnersKept
  <2>3. ManagersOK'
    <3>1. PICK s : s = todo[u]
      OBVIOUS
    <3>2. /\ s \in Seq(Steps) /\ s # << >> /\ ProgramOK(s) /\ s[1] = Now(u)
          /\ FieldsOK(s[1]) /\ AppointOK(s, 1) /\ 1 \in 1 .. Len(s)
      BY <1>10, <3>1 DEF Known, AheadOK
    <3>3. ASSUME NEW x \in Users
          PROVE  ~Mends(todo[u], x)
      BY <1>2, <3>1, <3>2, MendsNobody
    <3>4. ASSUME Now(u).role = "manager", found
          PROVE  Mends(left, Now(u).who)
      <4>1. left = Tail(s)
        BY <1>2, <1>5, <3>1, <3>2, <3>4 DEF GoesFound, FieldsOK
      <4>2. PICK x : x = s[1].who
        OBVIOUS
      <4>3. Mending(s, 1 + 1, x) /\ Shift(s, left, 1)
        BY <1>2, <3>2, <3>4, <4>1, <4>2, TailShift DEF AppointOK
      <4>4. Mending(left, 1, x)
        BY <4>3, MendingShift
      <4> QED
        BY <3>2, <4>2, <4>4 DEF Mends
    <3>5. ASSUME NEW k \in Keys, index[k] = id(u), Now(u).role = "owner"
          PROVE  \/ Belongs(Now(u).who, id(u))
                 \/ \E v \in Users : v # u /\ id(v) = id(u) /\ Mends(todo[v], Now(u).who)
      <4>1. KeyOK(index, id(u), s)
        BY <2>0, <3>1 DEF KeysOK
      <4>2. Founds(s[1]) /\ s[1].cmd \notin {"GroupExists", "addGroup"}
        BY <1>2, <3>2, <3>5 DEF Founds
      <4>3. k[2] = Now(u).who
        BY <3>2, <3>5, <4>1, <4>2 DEF KeyOK
      <4>4. index[k] # NoUuid
        BY <1>11, <3>5, GroupsConstants
      <4>5. CASE << k[2], "owner" >> \in members[index[k]]
        BY <3>5, <4>3, <4>5 DEF Belongs, Roles
      <4>6. ASSUME NEW v \in Users, Busy(v), id(v) = index[k], Now(v).cmd = "SetGroupMember",
                   Now(v).who = k[2]
            PROVE  v # u /\ id(v) = id(u) /\ Mends(todo[v], Now(u).who)
        <5>1. Known(v)
          BY <1>1, <4>6, KnownHolds
        <5>2. 1 <= Len(todo[v])
          <6>1. 1 \in 1 .. Len(todo[v]) /\ Len(todo[v]) \in Nat
            BY <5>1, LenProperties DEF Known
          <6> QED
            BY <6>1
        <5>3. todo[v][1].who = Now(u).who /\ todo[v][1].cmd = "SetGroupMember"
          BY <4>3, <4>6, <5>1 DEF Known
        <5> QED
          BY <1>2, <3>5, <4>6, <5>2, <5>3 DEF Mends, Mending
      <4> QED
        BY <2>0, <4>4, <4>5, <4>6 DEF OwnersOK
    <3>6. ASSUME NEW h \in Uuids, NEW x \in Users, NEW k \in Keys, index[k] = h,
                 managers'[h][x] # NoRole
          PROVE  \/ Belongs(x, h)'
                 \/ id(u) = h /\ Mends(left, x)
                 \/ \E v \in Users : v # u /\ id(v) = h /\ Mends(todo[v], x)
                 \/ managers[h][x] # NoRole
      <4>1. CASE ~(h = id(u) /\ x = Now(u).who)
        BY <1>15, <3>6, <4>1
      <4>2. CASE h = id(u) /\ x = Now(u).who /\ Now(u).role = "owner"
        BY <1>14, <3>5, <3>6, <4>2
      <4>3. CASE h = id(u) /\ x = Now(u).who /\ Now(u).role = "manager"
        BY <1>3, <3>4, <4>3
      <4> QED
        BY <1>11, <4>1, <4>2, <4>3
    <3> QED
      BY <1>1, <1>6, <1>7, <1>14, <2>0, <3>3, <3>6, ManagersKept
  <2> QED
    BY <2>1, <2>2, <2>3 DEF Safe
<1> QED
  BY <1>8, <1>9, Whole

LEMMA RemoveGroupManagerKeeps ==
  ASSUME Inv, NEW u \in Users, removeGroupManager(u)
  PROVE  Inv'
<1>1. TablesOK /\ Shared /\ (~garbage => Safe)
  BY InvParts
<1>2. Busy(u) /\ Now(u).cmd = "removeGroupManager"
  BY DEF removeGroupManager, Doing
<1>3. PICK found \in BOOLEAN : found = (managers[id(u)][Now(u).who] # NoRole)
  OBVIOUS
<1>4. Return(u, found)
  BY <1>3 DEF removeGroupManager
<1>5. PICK left : /\ GoOn(u, left, id(u))
                  /\ found => GoesFound(todo[u], left)
                  /\ ~found => GoesMissing(todo[u], left)
  BY <1>1, <1>2, <1>4, ReturnGoes
<1>6. UNCHANGED << account, index, members, lists, notify, menu, kicked, garbage, served, mixed, crashed >>
  BY DEF removeGroupManager
<1>7. Programmed /\ Moved(u, left, id(u))
  BY <1>1, <1>2, <1>5, Returned
<1>10. Known(u)
  BY <1>1, <1>2, KnownHolds
<1>11. id(u) \in Uuids /\ Now(u).who \in Users
  BY <1>2, <1>10 DEF Known, FieldsOK, NoId
<1>12. managers' = [managers EXCEPT ![id(u)][Now(u).who] = NoRole]
  BY DEF removeGroupManager
<1>13. managers' \in [Uuids -> [Users -> {"owner", "manager", NoRole}]]
  BY <1>1, <1>11, <1>12 DEF TablesOK
<1>9. TablesOK' /\ ProgramsOK'
  BY <1>1, <1>6, <1>7, <1>13 DEF TablesOK, Programmed
<1>14. \A h \in Uuids, x \in Users : Belongs(x, h) => Belongs(x, h)'
  BY <1>6 DEF Belongs
<1>15. /\ \A h \in Uuids, x \in Users : ~(h = id(u) /\ x = Now(u).who) => managers'[h][x] = managers[h][x]
       /\ managers'[id(u)][Now(u).who] = NoRole
  BY <1>1, <1>11, <1>12 DEF TablesOK
<1>8. ASSUME ~garbage'
      PROVE  Safe'
  <2>0. KeysOK /\ OwnersOK /\ ManagersOK
    BY <1>1, <1>6, <1>8 DEF Safe
  <2>1. KeysOK'
    BY <1>1, <1>2, <1>5, <1>6, <1>7, <2>0, KeysReturned
  <2>2. OwnersOK'
    BY <1>1, <1>2, <1>6, <1>7, <2>0, OwnersKept
  <2>3. ManagersOK'
    <3>1. ASSUME NEW x \in Users, Mends(todo[u], x), x # Now(u).who
          PROVE  Mends(left, x)
      <4>1. PICK s : s = todo[u]
        OBVIOUS
      <4>2. s \in Seq(Steps) /\ s # << >> /\ ProgramOK(s) /\ s[1] = Now(u)
        BY <1>10, <4>1 DEF Known
      <4>3. \/ GoesFound(s, left)
            \/ GoesMissing(s, left) /\ ~(s[1].cmd = "isManager" /\ s[1].who = x)
        BY <1>2, <1>5, <4>1, <4>2
      <4> QED
        BY <3>1, <4>1, <4>2, <4>3, MendsLeft
    <3> QED
      BY <1>1, <1>6, <1>7, <1>14, <1>15, <2>0, <3>1, ManagersKept
  <2> QED
    BY <2>1, <2>2, <2>3 DEF Safe
<1> QED
  BY <1>8, <1>9, Whole

LEMMA DelGroupManagerKeeps ==
  ASSUME Inv, NEW u \in Users, delGroupManager(u)
  PROVE  Inv'
<1>1. TablesOK /\ Shared /\ (~garbage => Safe)
  BY InvParts
<1>2. Busy(u) /\ Now(u).cmd = "delGroupManager"
  BY DEF delGroupManager, Doing
<1>3. PICK found \in BOOLEAN : found = TRUE
  OBVIOUS
<1>4. Return(u, found)
  BY <1>3 DEF delGroupManager
<1>5. PICK left : /\ GoOn(u, left, id(u))
                  /\ found => GoesFound(todo[u], left)
                  /\ ~found => GoesMissing(todo[u], left)
  BY <1>1, <1>2, <1>4, ReturnGoes
<1>6. UNCHANGED << account, index, members, lists, notify, menu, kicked, garbage, served, mixed, crashed >>
  BY DEF delGroupManager
<1>7. Programmed /\ Moved(u, left, id(u))
  BY <1>1, <1>2, <1>5, Returned
<1>10. Known(u)
  BY <1>1, <1>2, KnownHolds
<1>11. id(u) \in Uuids
  BY <1>2, <1>10 DEF Known, NoId
<1>12. managers' = [managers EXCEPT ![id(u)] = [x \in Users |-> NoRole]]
  BY DEF delGroupManager
<1>13. managers' \in [Uuids -> [Users -> {"owner", "manager", NoRole}]]
  BY <1>1, <1>11, <1>12 DEF TablesOK
<1>9. TablesOK' /\ ProgramsOK'
  BY <1>1, <1>6, <1>7, <1>13 DEF TablesOK, Programmed
<1>14. \A h \in Uuids, x \in Users : Belongs(x, h) => Belongs(x, h)'
  BY <1>6 DEF Belongs
<1>15. /\ \A h \in Uuids : h # id(u) => managers'[h] = managers[h]
       /\ \A x \in Users : managers'[id(u)][x] = NoRole
  BY <1>1, <1>11, <1>12 DEF TablesOK
<1>8. ASSUME ~garbage'
      PROVE  Safe'
  <2>0. KeysOK /\ OwnersOK /\ ManagersOK
    BY <1>1, <1>6, <1>8 DEF Safe
  <2>1. KeysOK'
    BY <1>1, <1>2, <1>5, <1>6, <1>7, <2>0, KeysReturned
  <2>2. OwnersOK'
    BY <1>1, <1>2, <1>6, <1>7, <2>0, OwnersKept
  <2>3. ManagersOK'
    BY <1>1, <1>6, <1>7, <1>14, <1>15, <2>0, ManagersKept
  <2> QED
    BY <2>1, <2>2, <2>3 DEF Safe
<1> QED
  BY <1>8, <1>9, Whole

LEMMA DelGroupKeeps ==
  ASSUME Inv, NEW u \in Users, delGroup(u)
  PROVE  Inv'
<1>1. TablesOK /\ Shared /\ (~garbage => Safe)
  BY InvParts
<1>2. Busy(u) /\ Now(u).cmd = "delGroup"
  BY DEF delGroup, Doing
<1>3. PICK found \in BOOLEAN : found = TRUE
  OBVIOUS
<1>4. Return(u, found)
  BY <1>3 DEF delGroup
<1>5. PICK left : GoOn(u, left, id(u)) /\ GoesFound(todo[u], left)
  <2>1. \E left : /\ GoOn(u, left, id(u))
                  /\ found => GoesFound(todo[u], left)
                  /\ ~found => GoesMissing(todo[u], left)
    BY <1>1, <1>2, <1>4, ReturnGoes
  <2> QED
    BY <1>3, <2>1
<1>6. /\ UNCHANGED << account, members, managers, lists, notify, menu, kicked, garbage, served,
                      mixed, crashed >>
      /\ index' = [index EXCEPT ![Now(u).key] = NoUuid]
  BY DEF delGroup
<1>7. Programmed /\ Moved(u, left, id(u))
  BY <1>1, <1>2, <1>5, Returned
<1>8. Known(u) /\ id(u) \in Uuids /\ Now(u).key \in Keys
  BY <1>1, <1>2, KnownHolds DEF Known, FieldsOK, NoId
<1>9. TablesOK' /\ ProgramsOK'
  <2>1. index' \in [Keys -> Uuids \cup {NoUuid}]
    BY <1>1, <1>6 DEF TablesOK
  <2> QED
    BY <1>1, <1>6, <1>7, <2>1 DEF TablesOK, Programmed
<1>10. \A k \in Keys : index'[k] # NoUuid => index'[k] = index[k]
  BY <1>1, <1>6, <1>8 DEF TablesOK
<1>11. NoUuid \notin Uuids
  BY GroupsConstants
<1>12. ASSUME ~garbage'
       PROVE  Safe'
  <2>1. KeysOK /\ OwnersOK /\ ManagersOK
    BY <1>1, <1>6, <1>12 DEF Safe
  <2>2. PICK s : s = todo[u]
    OBVIOUS
  <2>3. /\ s \in Seq(Steps) /\ s # << >> /\ ProgramOK(s) /\ s[1] = Now(u)
        /\ FieldsOK(s[1]) /\ 1 \in 1 .. Len(s)
    BY <1>8, <2>2 DEF Known
  <2>4. left = Tail(s)
    BY <1>2, <1>5, <2>2, <2>3 DEF GoesFound, FieldsOK
  <2>5. \A k \in Keys : index[k] = id(u) => k = Now(u).key
    BY <1>2, <2>1, <2>2, <2>3 DEF KeysOK, KeyOK
  <2>6. \A k \in Keys : index'[k] # id(u)
    <3>1. index'[Now(u).key] = NoUuid
      BY <1>1, <1>6, <1>8 DEF TablesOK
    <3> QED
      BY <1>8, <1>10, <1>11, <2>5, <3>1
  <2>7. KeyOK(index', id(u), left)
    BY <1>2, <2>3, <2>4, <2>6, KeyGone
  <2>8. KeysOK'
    <3>1. \A j, k \in Keys : index'[j] = index'[k] /\ index'[k] # NoUuid => j = k
      BY <1>10, <2>1 DEF KeysOK
    <3>2. \A v \in Users, k \in Keys :
              v # u /\ id(v) \in Uuids /\ index'[k] = id(v) => index[k] = id(v)
      BY <1>10, <1>11
    <3> QED
      BY <1>1, <1>7, <2>1, <2>7, <3>1, <3>2, KeysKept
  <2>9. OwnersOK'
    BY <1>1, <1>2, <1>6, <1>7, <1>10, <2>1, OwnersKept
  <2>10. ManagersOK'
    <3>1. ASSUME NEW x \in Users
          PROVE  ~Mends(todo[u], x)
      BY <1>2, <2>2, <2>3, MendsNobody
    <3>2. \A h \in Uuids, x \in Users : Belongs(x, h) => Belongs(x, h)'
      BY <1>6 DEF Belongs
    <3>3. \A h \in Uuids, k \in Keys : index'[k] = h => index[k] = h
      BY <1>10, <1>11
    <3> QED
      BY <1>1, <1>6, <1>7, <2>1, <3>1, <3>2, <3>3, ManagersKept
  <2> QED
    BY <2>8, <2>9, <2>10 DEF Safe
<1> QED
  BY <1>9, <1>12, Whole

LEMMA AddGroupKeeps ==
  ASSUME Inv, NEW u \in Users, addGroup(u)
  PROVE  Inv'
<1>1. TablesOK /\ Shared /\ (~garbage => Safe)
  BY InvParts
<1>2. Busy(u) /\ Now(u).cmd = "addGroup"
  BY DEF addGroup, Doing
<1>3. PICK g \in Uuids : /\ Fresh(g) /\ index' = [index EXCEPT ![Now(u).key] = g]
                         /\ GoOn(u, Tail(todo[u]), g)
  BY DEF addGroup
<1>4. UNCHANGED << account, members, managers, lists, notify, menu, kicked, garbage, served,
                   mixed, crashed >>
  BY DEF addGroup
<1>5. Known(u) /\ Now(u).key \in Keys
  BY <1>1, <1>2, KnownHolds DEF Known, FieldsOK
<1>6. PICK s : s = todo[u]
  OBVIOUS
<1>7. /\ s \in Seq(Steps) /\ s # << >> /\ ProgramOK(s) /\ s[1] = Now(u)
      /\ NextOK(s, 1) /\ 1 \in 1 .. Len(s)
  BY <1>5, <1>6 DEF Known, AheadOK
<1>8. PICK left : left = Tail(s)
  OBVIOUS
<1>9. Programmed /\ Moved(u, left, g)
  <2>1. LeftFine(todo[u], left) /\ GoOn(u, left, g)
    BY <1>3, <1>6, <1>7, <1>8, TailFine
  <2> QED
    BY <1>1, <1>2, <2>1, GoneOn DEF Busy
<1>10. TablesOK' /\ ProgramsOK'
  <2>1. index' \in [Keys -> Uuids \cup {NoUuid}]
    BY <1>1, <1>3 DEF TablesOK
  <2> QED
    BY <1>1, <1>4, <1>9, <2>1 DEF TablesOK, Programmed
<1>11. /\ \A k \in Keys : k # Now(u).key => index'[k] = index[k]
       /\ index'[Now(u).key] = g
       /\ \A k \in Keys : index[k] # g
       /\ \A v \in Users : id(v) # g
       /\ \A x \in Users : managers[g][x] = NoRole
  BY <1>1, <1>3, <1>5 DEF TablesOK, Fresh, id
<1>12. ASSUME ~garbage'
       PROVE  Safe'
  <2>1. KeysOK /\ OwnersOK /\ ManagersOK
    BY <1>1, <1>4, <1>12 DEF Safe
  <2>2. KeyOK(index', g, left)
    <3>1. \A k \in Keys : index'[k] = g => k = s[1].key
      BY <1>7, <1>11
    <3> QED
      BY <1>2, <1>7, <1>8, <3>1, KeyMade
  <2>3. KeysOK'
    <3>1. \A j, k \in Keys : index'[j] = index'[k] /\ index'[k] # NoUuid => j = k
      BY <1>11, <2>1 DEF KeysOK
    <3>2. \A v \in Users, k \in Keys :
              v # u /\ id(v) \in Uuids /\ index'[k] = id(v) => index[k] = id(v)
      BY <1>11
    <3> QED
      BY <1>1, <1>9, <2>1, <2>2, <3>1, <3>2, KeysKept
  <2>4. /\ left # << >> /\ left[1].cmd = "SetGroupMember"
        /\ left[1].who = Now(u).key[2] /\ left[1].role = "owner"
    <3>1. /\ 1 < Len(s) /\ s[2].cmd = "SetGroupMember"
          /\ s[2].who = s[1].key[2] /\ s[2].role = "owner"
      <4>1. 1 + 1 = 2
        OBVIOUS
      <4> QED
        BY <1>2, <1>7, <4>1 DEF NextOK
    <3>2. AfterFirst(s, left)
      BY <1>7, <1>8, TailAfter
    <3>3. left # << >>
      <4>1. Len(left) # 0
        BY <3>1, <3>2 DEF AfterFirst
      <4> QED
        BY <4>1
    <3>4. left[1] = s[2]
      BY <3>2, <3>3 DEF AfterFirst
    <3> QED
      BY <1>7, <3>1, <3>3, <3>4
  <2>5. OwnersOK'
    BY <1>1, <1>2, <1>4, <1>9, <1>11, <2>1, <2>4, OwnersKept
  <2>6. ManagersOK'
    <3>1. ASSUME NEW x \in Users
          PROVE  ~Mends(todo[u], x)
      BY <1>2, <1>6, <1>7, MendsNobody
    <3>2. \A h \in Uuids, x \in Users : Belongs(x, h) => Belongs(x, h)'
      BY <1>4 DEF Belongs
    <3>3. \A h \in Uuids, k \in Keys : h # g /\ index'[k] = h => index[k] = h
      BY <1>11
    <3> QED
      BY <1>1, <1>4, <1>9, <1>11, <2>1, <3>1, <3>2, <3>3, ManagersKept
  <2> QED
    BY <2>3, <2>5, <2>6 DEF Safe
<1> QED
  BY <1>10, <1>12, Whole

\* A name is registered again.
LEMMA SaveUserKeeps ==
  ASSUME Inv, NEW u \in Users, saveUser(u)
  PROVE  Inv'
<1>1. TablesOK /\ ProgramsOK /\ (~garbage => Safe)
  BY InvParts
<1>2. /\ UNCHANGED << index, members, managers, lists, notify, job, todo, menu, kicked,
                      garbage, mixed, crashed >>
      /\ account' = account \cup {u} /\ served' = served + 1 /\ served < MaxRequests
  BY DEF saveUser
<1>3. TablesOK'
  <2>1. account' \subseteq Users /\ served' \in 0 .. MaxRequests
    BY <1>1, <1>2, GroupsConstants DEF TablesOK
  <2> QED
    BY <1>1, <1>2, <2>1 DEF TablesOK
<1>4. ProgramsOK'
  BY <1>1, <1>2 DEF ProgramsOK
<1>5. ASSUME ~garbage'
      PROVE  Safe'
  <2>1. Safe
    BY <1>1, <1>2, <1>5
  <2>2. KeysOK'
    BY <1>2, <2>1 DEF Safe, KeysOK, id
  <2>3. OwnersOK'
    BY <1>2, <2>1 DEF Safe, OwnersOK, Busy, id, Now
  <2>4. ManagersOK'
    BY <1>2, <2>1 DEF Safe, ManagersOK, Mended, Belongs, id
  <2> QED
    BY <2>2, <2>3, <2>4 DEF Safe
<1> QED
  BY <1>3, <1>4, <1>5, Whole

LEMMA CrashKeeps ==
  ASSUME Inv, Crash
  PROVE  Inv'
<1>1. TablesOK /\ ProgramsOK /\ (~garbage => Safe)
  BY InvParts
<1>2. UNCHANGED << account, index, members, managers, lists, notify, job, todo, menu, kicked,
                   garbage, served, mixed >> /\ crashed' = TRUE
  BY DEF Crash, redisVars
<1>3. TablesOK'
  BY <1>1, <1>2 DEF TablesOK
<1>4. ProgramsOK'
  BY <1>1, <1>2 DEF ProgramsOK
<1>5. ASSUME ~garbage'
      PROVE  Safe'
  <2>1. Safe
    BY <1>1, <1>2, <1>5
  <2>2. KeysOK'
    BY <1>2, <2>1 DEF Safe, KeysOK, id
  <2>3. OwnersOK'
    BY <1>2, <2>1 DEF Safe, OwnersOK, Busy, id, Now
  <2>4. ManagersOK'
    BY <1>2, <2>1 DEF Safe, ManagersOK, Mended, Belongs, id
  <2> QED
    BY <2>2, <2>3, <2>4 DEF Safe
<1> QED
  BY <1>3, <1>4, <1>5, Whole

LEMMA GetGroupuuidKeeps ==
  ASSUME Inv, NEW u \in Users, getGroupuuid(u)
  PROVE  Inv'
<1>1. TablesOK /\ Shared /\ (~garbage => Safe)
  BY InvParts
<1>2. Busy(u) /\ Now(u).cmd = "getGroupuuid"
  BY DEF getGroupuuid, Doing
<1>3. Known(u) /\ Now(u).key \in Keys
  BY <1>1, <1>2, KnownHolds DEF Known, FieldsOK
<1>4. PICK s : s = todo[u]
  OBVIOUS
<1>5. s \in Seq(Steps) /\ s # << >> /\ ProgramOK(s) /\ s[1] = Now(u)
  BY <1>3, <1>4 DEF Known
<1>6. PICK left : left = Tail(s)
  OBVIOUS
<1>7. ASSUME NEW g \in Uuids, GoOn(u, Tail(todo[u]), g)
      PROVE  Programmed /\ Moved(u, left, g)
  <2>1. LeftFine(todo[u], left) /\ GoOn(u, left, g)
    BY <1>4, <1>5, <1>6, <1>7, TailFine
  <2> QED
    BY <1>1, <1>2, <2>1, GoneOn DEF Busy
<1>8. CASE /\ index[Now(u).key] # NoUuid /\ GoOn(u, Tail(todo[u]), index[Now(u).key])
           /\ UNCHANGED << redisVars, menu, kicked, garbage, served, mixed, crashed >>
  <2>1. PICK g \in Uuids : g = index[Now(u).key]
    BY <1>1, <1>3, <1>8 DEF TablesOK
  <2>2. Programmed /\ Moved(u, left, g)
    BY <1>7, <1>8, <2>1
  <2>3. TablesOK' /\ ProgramsOK'
    BY <1>1, <1>8, <2>2 DEF TablesOK, redisVars, Programmed
  <2>4. ASSUME ~garbage'
        PROVE  Safe'
    <3>1. KeysOK /\ OwnersOK /\ ManagersOK
      BY <1>1, <1>8, <2>4 DEF Safe
    <3>2. \A k \in Keys : index[k] = g => k = s[1].key
      BY <1>3, <1>5, <1>8, <2>1, <3>1 DEF KeysOK
    <3>3. KeyOK(index, g, left)
      BY <1>2, <1>5, <1>6, <3>2, KeyFound
    <3>4. KeysOK'
      BY <1>1, <1>8, <2>2, <3>1, <3>3, IndexStays DEF redisVars
    <3>5. OwnersOK'
      BY <1>1, <1>2, <1>8, <2>2, <3>1, OwnersKept DEF redisVars
    <3>6. ManagersOK'
      <4>1. ASSUME NEW x \in Users
            PROVE  ~Mends(todo[u], x)
        BY <1>2, <1>4, <1>5, MendsNobody
      <4>2. \A h \in Uuids, x \in Users : Belongs(x, h) => Belongs(x, h)'
        BY <1>8 DEF Belongs, redisVars
      <4> QED
        BY <1>1, <1>8, <2>2, <3>1, <4>1, <4>2, ManagersKept DEF redisVars
    <3> QED
      BY <3>4, <3>5, <3>6 DEF Safe
  <2> QED
    BY <2>3, <2>4, Whole
<1>9. CASE /\ \E g \in Uuids : GoOn(u, Tail(todo[u]), g)
           /\ garbage' = TRUE /\ UNCHANGED << redisVars, menu, kicked, served, mixed, crashed >>
  <2>1. Programmed
    BY <1>7, <1>9
  <2>2. TablesOK' /\ ProgramsOK'
    BY <1>1, <1>9, <2>1 DEF TablesOK, redisVars, Programmed
  <2> QED
    BY <1>9, <2>2, Whole
<1> QED
  BY <1>8, <1>9, CrashKeeps DEF getGroupuuid

\* What a grown program does to its group.
LEMMA GrownKeeps ==
  ASSUME Inv, NEW u \in Users, Busy(u), NEW left, GoOn(u, left, id(u)), LeftFine(todo[u], left),
         Now(u).cmd \in {"getManagers", "getGroupMember", "getGroupManager"},
         ~garbage => KeyOK(index, id(u), left),
         UNCHANGED << redisVars, menu, kicked, garbage, served, mixed, crashed >>
  PROVE  Inv'
<1>1. TablesOK /\ Shared /\ (~garbage => Safe)
  BY InvParts
<1>2. Known(u) /\ id(u) \in Uuids
  BY <1>1, KnownHolds DEF Known, NoId
<1>3. Programmed /\ Moved(u, left, id(u))
  BY <1>1, <1>2, GoneOn DEF Busy
<1>4. TablesOK' /\ ProgramsOK'
  BY <1>1, <1>3 DEF TablesOK, redisVars, Programmed
<1>5. ~garbage' => Safe'
  BY <1>1, <1>3, Grown DEF redisVars
<1> QED
  BY <1>4, <1>5, Whole

LEMMA GetManagersKeeps ==
  ASSUME Inv, NEW u \in Users, getManagers(u)
  PROVE  Inv'
<1>1. Shared /\ Busy(u) /\ Now(u).cmd = "getManagers"
  BY InvParts DEF getManagers, Doing
<1>2. Known(u) /\ Now(u).key \in Keys
  BY <1>1, KnownHolds DEF Known, FieldsOK
<1>3. PICK s : s = todo[u]
  OBVIOUS
<1>4. s \in Seq(Steps) /\ s # << >> /\ ProgramOK(s) /\ s[1] = Now(u) /\ 1 \in 1 .. Len(s)
  BY <1>2, <1>3 DEF Known
<1>5. PICK t : t = Tail(s)
  OBVIOUS
<1>6. t \in Seq(Steps) /\ ProgramOK(t)
  BY <1>4, <1>5, TailAfter, TailOK DEF AfterFirst
<1>7. Plain(t)
  BY <1>1, <1>4, <1>5, PlainTail
<1>8. PICK cmd : cmd = IF job[u].op = "join_group" THEN "setGroupNotify" ELSE "delGroupNotify"
  OBVIOUS
<1>9. cmd \in {"setGroupNotify", "delGroupNotify"}
  BY <1>8
<1>10. PICK all : all = {m \in Users : managers[id(u)][m] # NoRole}
  OBVIOUS
<1>11. PICK order \in SetToSeqs(all) :
         GoOn(u, [i \in DOMAIN order |-> For(cmd, order[i], NoRole, Now(u).key)] \o t, id(u))
  BY <1>3, <1>5, <1>8, <1>10 DEF getManagers, Each
<1>12. IsFiniteSet(all) /\ all \subseteq Users
  <2>1. all \subseteq Users
    BY <1>10
  <2> QED
    BY <2>1, GroupsConstants, FS_Subset
<1>13. PICK n \in Nat : order \in [1 .. n -> all] /\ DOMAIN order = 1 .. n
  BY <1>12, OrderOf
<1>14. order \in [1 .. n -> Users]
  BY <1>12, <1>13
<1>15. PICK e : e = [i \in 1 .. n |-> For(cmd, order[i], NoRole, Now(u).key)]
  OBVIOUS
<1>16. e \in Seq(Steps) /\ ProgramOK(e) /\ \A i \in 1 .. Len(e) : e[i].cmd = cmd
  BY <1>2, <1>9, <1>14, <1>15, NoticesOK
<1>17. Plain(e) /\ \A i \in 1 .. Len(e) : e[i].cmd # "deleteHashKey"
  <2>1. Len(e) > 0 => 1 \in 1 .. Len(e)
    BY <1>16, LenProperties
  <2> QED
    BY <1>9, <1>16, <2>1 DEF Plain, Founds
<1>18. PICK left : left = e \o t
  OBVIOUS
<1>19. left \in Seq(Steps) /\ ProgramOK(left) /\ Plain(left)
  BY <1>6, <1>7, <1>16, <1>17, <1>18, JoinOK, JoinPlain
<1>20. LeftFine(todo[u], left)
  <2>1. ~AsksNobody(s)
    BY <1>1, <1>4 DEF AsksNobody, Asking
  <2> QED
    BY <1>3, <1>19, <2>1 DEF LeftFine
<1>21. GoOn(u, left, id(u))
  BY <1>11, <1>13, <1>15, <1>18
<1>22. KeyOK(index, id(u), left)
  BY <1>19, KeyPlain
<1>23. UNCHANGED << redisVars, menu, kicked, garbage, served, mixed, crashed >>
  BY DEF getManagers
<1> QED
  BY <1>1, <1>20, <1>21, <1>22, <1>23, GrownKeeps

LEMMA GetGroupMemberKeeps ==
  ASSUME Inv, NEW u \in Users, getGroupMember(u)
  PROVE  Inv'
<1>1. TablesOK /\ Shared /\ (~garbage => Safe) /\ Busy(u) /\ Now(u).cmd = "getGroupMember"
  BY InvParts DEF getGroupMember, Doing
<1>2. Known(u) /\ Now(u).key \in Keys /\ id(u) \in Uuids
  BY <1>1, KnownHolds DEF Known, FieldsOK, NoId
<1>3. PICK s : s = todo[u]
  OBVIOUS
<1>4. s \in Seq(Steps) /\ s # << >> /\ ProgramOK(s) /\ s[1] = Now(u) /\ 1 \in 1 .. Len(s)
  BY <1>2, <1>3 DEF Known
<1>5. PICK t : t = Tail(s)
  OBVIOUS
<1>6. t \in Seq(Steps) /\ ProgramOK(t) /\ (AsksNobody(s) => AsksNobody(t))
  BY <1>4, <1>5, TailAfter, TailOK, TailAsksNobody DEF AfterFirst
<1>7. Plain(t)
  BY <1>1, <1>4, <1>5, PlainTail
<1>8. PICK k : k = Now(u).key
  OBVIOUS
<1>9. PICK all : all = {m[1] : m \in members[id(u)]}
  OBVIOUS
<1>10. PICK order \in SetToSeqs(all) :
         GoOn(u, [i \in DOMAIN order |-> For("UserRemoveGroups", order[i], NoRole, k)]
                 \o disband_rest(k) \o t, id(u))
  BY <1>3, <1>5, <1>8, <1>9 DEF getGroupMember, Each
<1>11. IsFiniteSet(all) /\ all \subseteq Users
  <2>1. members[id(u)] \subseteq Users \X Roles
    BY <1>1, <1>2 DEF TablesOK
  <2>2. all \subseteq Users
    BY <1>9, <2>1
  <2> QED
    BY <2>2, GroupsConstants, FS_Subset
<1>12. PICK n \in Nat : order \in [1 .. n -> all] /\ DOMAIN order = 1 .. n
  BY <1>11, OrderOf
<1>13. order \in [1 .. n -> Users]
  BY <1>11, <1>12
<1>14. PICK e : e = [i \in 1 .. n |-> For("UserRemoveGroups", order[i], NoRole, k)]
  OBVIOUS
<1>15. PICK f : f = e \o disband_rest(k)
  OBVIOUS
<1>16. Disbanding(f, k)
  BY <1>2, <1>8, <1>13, <1>14, <1>15, DisbandingOK
<1>17. PICK left : left = f \o t
  OBVIOUS
<1>18. /\ f \in Seq(Steps) /\ ProgramOK(f) /\ Len(f) \in Nat \ {0}
       /\ \A i \in 1 .. Len(f) :
             /\ f[i].cmd \in {"UserRemoveGroups", "delGroup", "delGroupManager", "delGroupMember"}
             /\ f[i].cmd = "delGroup" => f[i].key = k
       /\ \E i \in 1 .. Len(f) : f[i].cmd = "delGroup"
  BY <1>16 DEF Disbanding
<1>19. left \in Seq(Steps) /\ ProgramOK(left)
  <2>1. \A i \in 1 .. Len(f) : f[i].cmd # "deleteHashKey"
    BY <1>18
  <2> QED
    BY <1>6, <1>7, <1>17, <1>18, <2>1, JoinOK
<1>20. LeftFine(todo[u], left)
  <2>1. AsksNobody(f)
    BY <1>18 DEF AsksNobody, Asking
  <2>2. AsksNobody(s) => AsksNobody(left)
    BY <1>6, <1>17, <1>18, <2>1, JoinAsksNobody
  <2> QED
    BY <1>3, <1>19, <2>2 DEF LeftFine
<1>21. GoOn(u, left, id(u))
  BY <1>10, <1>12, <1>14, <1>15, <1>17
<1>22. ASSUME ~garbage
       PROVE  KeyOK(index, id(u), left)
  <2>1. \A j \in Keys : index[j] = id(u) => j = k
    BY <1>1, <1>3, <1>4, <1>8, <1>22 DEF Safe, KeysOK, KeyOK
  <2>2. Joined(f, t, left)
    BY <1>6, <1>17, <1>18, JoinedAt
  <2>3. ASSUME NEW i \in 1 .. Len(left)
        PROVE  \/ i \in 1 .. Len(f) /\ left[i] = f[i]
               \/ \E j \in 1 .. Len(t) : i = j + Len(f) /\ left[i] = t[j]
    BY <2>2 DEF Joined
  <2>4. ASSUME NEW i \in 1 .. Len(left)
        PROVE  ~Founds(left[i]) /\ (left[i].cmd = "delGroup" => left[i].key = k)
    BY <1>7, <1>18, <2>3 DEF Plain, Founds
  <2>5. \E i \in 1 .. Len(left) : left[i].cmd = "delGroup"
    BY <1>18, <2>2 DEF Joined
  <2>6. left[1].cmd # "getGroupMember"
    <3>1. 1 \in 1 .. Len(f)
      BY <1>18
    <3>2. left[1] = f[1]
      BY <2>2, <3>1 DEF Joined
    <3> QED
      BY <1>18, <3>1, <3>2
  <2> QED
    BY <2>1, <2>4, <2>5, <2>6 DEF KeyOK
<1>23. UNCHANGED << redisVars, menu, kicked, garbage, served, mixed, crashed >>
  BY DEF getGroupMember
<1> QED
  BY <1>1, <1>20, <1>21, <1>22, <1>23, GrownKeeps

LEMMA GetGroupManagerKeeps ==
  ASSUME Inv, NEW u \in Users, getGroupManager(u)
  PROVE  Inv'
<1>1. Shared /\ Busy(u) /\ Now(u).cmd = "getGroupManager"
  BY InvParts DEF getGroupManager, Doing, Crash
<1>2. Known(u) /\ Now(u).key \in Keys
  BY <1>1, KnownHolds DEF Known, FieldsOK
<1>3. PICK s : s = todo[u]
  OBVIOUS
<1>4. s \in Seq(Steps) /\ s # << >> /\ ProgramOK(s) /\ s[1] = Now(u)
  BY <1>2, <1>3 DEF Known
<1>5. PICK t : t = Tail(s)
  OBVIOUS
<1>6. t \in Seq(Steps) /\ ProgramOK(t) /\ (AsksNobody(s) => AsksNobody(t)) /\ LeftFine(s, t)
  BY <1>4, <1>5, TailAfter, TailOK, TailAsksNobody, TailFine DEF AfterFirst
<1>7. Plain(t)
  BY <1>1, <1>4, <1>5, PlainTail
<1>8. ASSUME NEW left, GoOn(u, left, id(u)),
             UNCHANGED << redisVars, menu, kicked, garbage, served, mixed, crashed >>,
             left \in Seq(Steps), LeftFine(s, left), Plain(left)
      PROVE  Inv'
  BY <1>1, <1>3, <1>8, KeyPlain, GrownKeeps
<1>9. ASSUME NEW r, NEW left,
             left = IF job[u].op = "del_account"
                    THEN del_account_group(u, Now(u).key, r) \o t
                    ELSE IF r \in {"owner", "manager"} THEN << >> ELSE t
      PROVE  left \in Seq(Steps) /\ LeftFine(s, left) /\ Plain(left)
  <2>1. CASE job[u].op = "del_account"
    <3>1. PICK f : f = del_account_group(u, Now(u).key, r)
      OBVIOUS
    <3>2. /\ f \in Seq(Steps) /\ ProgramOK(f) /\ AsksNobody(f) /\ Plain(f)
          /\ \A i \in 1 .. Len(f) : f[i].cmd # "deleteHashKey"
      BY <1>2, <3>1, DelAccountGroup
    <3>3. left = f \o t
      BY <1>9, <2>1, <3>1
    <3>4. left \in Seq(Steps) /\ ProgramOK(left) /\ Plain(left)
      BY <1>6, <1>7, <3>2, <3>3, JoinOK, JoinPlain
    <3>5. AsksNobody(s) => AsksNobody(left)
      BY <1>6, <3>2, <3>3, JoinAsksNobody
    <3> QED
      BY <3>4, <3>5 DEF LeftFine
  <2>2. CASE left = << >>
    <3>1. 1 .. Len(left) = {} /\ ~(Len(left) > 0)
      BY <2>2
    <3> QED
      BY <2>2, <3>1, EmptyFine, EmptyProgram DEF Plain
  <2>3. CASE left = t
    BY <1>6, <1>7, <2>3
  <2> QED
    BY <1>9, <2>1, <2>2, <2>3
<1>10. CASE /\ \E r \in statuses(u) :
                 GoOn(u, IF job[u].op = "del_account"
                         THEN del_account_group(u, Now(u).key, r) \o Tail(todo[u])
                         ELSE IF r \in {"owner", "manager"} THEN << >>
                         ELSE Tail(todo[u]), id(u))
            /\ UNCHANGED << redisVars, menu, kicked, garbage, served, mixed, crashed >>
  <2>1. PICK r, left :
          /\ left = IF job[u].op = "del_account"
                    THEN del_account_group(u, Now(u).key, r) \o t
                    ELSE IF r \in {"owner", "manager"} THEN << >> ELSE t
          /\ GoOn(u, left, id(u))
    BY <1>3, <1>5, <1>10
  <2> QED
    BY <1>8, <1>9, <1>10, <2>1
<1> QED
  BY <1>10, CrashKeeps DEF getGroupManager

-----------------------------------------------------------------------------
(* Requests.                                                               *)

LEMMA Begun ==
  ASSUME Inv, NEW u \in Users, NEW op \in Ops, NEW k \in Keys \cup {NoKey},
         NEW x \in Users \cup {NoUser}, NEW program \in Seq(Steps),
         Begin(u, op, k, x, program), FreshProgram(program),
         AsksNobody(program) \/ (x \in Users /\ k \in Keys),
         x \in Users \/ op \in {"add_group", "group_choice", "leave_group", "disband_group",
                               "del_account"},
         op \in {"del_member_owner", "del_member_manager"} => k \in Keys
  PROVE  Inv'
<1>1. TablesOK /\ ProgramsOK /\ Shared /\ (~garbage => Safe)
  BY InvParts
<1>2. PICK n : n = [op |-> op, key |-> k, id |-> NoUuid, x |-> x]
  OBVIOUS
<1>3. /\ job' = [job EXCEPT ![u] = n] /\ todo' = [todo EXCEPT ![u] = program]
      /\ todo[u] = << >> /\ served < MaxRequests /\ served' = served + 1
      /\ UNCHANGED << redisVars, menu, kicked, garbage, crashed >>
  BY <1>2 DEF Begin, Busy
<1>4. n \in Jobs /\ n.op = op /\ n.key = k /\ n.id = NoUuid /\ n.x = x
  BY <1>2 DEF Jobs
<1>5. ProgramOK(program) /\ program # << >> /\ program[1].cmd \in NoId
  BY DEF FreshProgram
<1>6. JobOK(n, program)
  <2>1. CASE AsksNobody(program)
    <3>1. \A i \in 1 .. Len(program) :
             program[i].cmd \notin {"setGroupNotify", "delGroupNotify", "getManagers"}
      BY <2>1 DEF AsksNobody, Asking
    <3> QED
      BY <1>4, <1>5, <3>1 DEF JobOK
  <2>2. CASE x \in Users /\ k \in Keys
    BY <1>4, <1>5, <2>2 DEF JobOK
  <2> QED
    BY <2>1, <2>2
<1>7. /\ job' \in [Users -> Jobs] /\ todo' \in [Users -> Seq(Steps)]
      /\ job'[u] = n /\ todo'[u] = program
      /\ \A v \in Users \ {u} : todo'[v] = todo[v] /\ job'[v] = job[v]
  BY <1>1, <1>3, <1>4 DEF Shared
<1>8. ProgramsOK'
  <2> SUFFICES ASSUME NEW v \in Users
               PROVE  ProgramOK(todo'[v]) /\ JobOK(job'[v], todo'[v])
    BY DEF ProgramsOK
  <2>1. CASE v = u
    BY <1>5, <1>6, <1>7, <2>1
  <2>2. CASE v # u
    BY <1>1, <1>7, <2>2 DEF ProgramsOK
  <2> QED
    BY <2>1, <2>2
<1>9. Programmed /\ Moved(u, program, NoUuid)
  BY <1>4, <1>7, <1>8 DEF Programmed, Moved
<1>10. TablesOK'
  <2>1. served' \in 0 .. MaxRequests
    BY <1>1, <1>3, GroupsConstants DEF TablesOK
  <2>2. mixed' \subseteq Users
    <3>1. Concerned(u, op, x) \subseteq Users
      <4>1. CASE x \in Users
        BY <4>1 DEF Concerned
      <4>2. CASE op \in {"add_group", "group_choice", "leave_group", "disband_group",
                         "del_account"}
        BY <4>2 DEF Concerned
      <4> QED
        BY <4>1, <4>2
    <3>2. mixed' \subseteq mixed \cup Concerned(u, op, x)
      BY DEF Begin
    <3> QED
      BY <1>1, <3>1, <3>2 DEF TablesOK
  <2> QED
    BY <1>1, <1>3, <1>7, <2>1, <2>2 DEF TablesOK, redisVars
<1>11. ASSUME ~garbage'
       PROVE  Safe'
  <2>1. KeysOK /\ OwnersOK /\ ManagersOK
    BY <1>1, <1>3, <1>11 DEF Safe
  <2>2. KeyOK(index, NoUuid, program)
    BY <1>5, KeyNoId
  <2>3. KeysOK'
    BY <1>1, <1>3, <1>9, <2>1, <2>2, IndexStays DEF redisVars
  <2>4. OwnersOK'
    BY <1>1, <1>3, <1>9, <2>1, OwnersKept DEF Busy, redisVars
  <2>5. ManagersOK'
    <3>1. ASSUME NEW y \in Users
          PROVE  ~Mends(todo[u], y)
      BY <1>3, EmptyProgram, MendsNobody
    <3>2. \A h \in Uuids, y \in Users : Belongs(y, h) => Belongs(y, h)'
      BY <1>3 DEF Belongs, redisVars
    <3> QED
      BY <1>1, <1>3, <1>9, <2>1, <3>1, <3>2, ManagersKept DEF redisVars
  <2> QED
    BY <2>3, <2>4, <2>5 DEF Safe
<1> QED
  BY <1>8, <1>10, <1>11, Whole

LEMMA OpNames ==
  /\ {"add_group", "join_group", "group_decide", "group_choice", "add_manager", "del_manager",
      "add_member", "del_member_owner", "del_member_manager", "leave_group", "disband_group",
      "del_account"} \subseteq Ops
  /\ NoUser \in Users \cup {NoUser} /\ NoKey \in Keys \cup {NoKey}
  BY DEF Ops

\* A request for a group that no program asks the managers of.
LEMMA BegunQuietly ==
  ASSUME Inv, NEW u \in Users, NEW op \in Ops, NEW k \in Keys,
         NEW x \in Users \cup {NoUser}, NEW program \in Seq(Steps),
         Begin(u, op, k, x, program), FreshProgram(program), AsksNobody(program),
         x \in Users \/ op \in {"add_group", "group_choice", "leave_group", "disband_group",
                               "del_account"}
  PROVE  Inv'
  BY Begun

LEMMA MenuKey ==
  ASSUME Inv, NEW u \in Users, menu[u].role # NoRole
  PROVE  menu[u].key \in Keys
  BY InvParts DEF TablesOK

LEMMA GroupRequests ==
  ASSUME Inv, NEW u \in Users, NEW k \in Keys,
         \/ add_group(u, k) \/ join_group(u, k) \/ group_choice(u, k)
         \/ \E x \in Users, accept \in BOOLEAN : group_decide(u, k, x, accept)
  PROVE  Inv'
<1>1. CASE add_group(u, k)
  <2>1. PICK s : s = add_group_program(u, k)
    OBVIOUS
  <2>2. k[2] = u /\ Begin(u, "add_group", k, NoUser, s)
    BY <1>1, <2>1 DEF add_group
  <2>3. s \in Seq(Steps) /\ FreshProgram(s) /\ AsksNobody(s)
    BY <2>1, <2>2, AddGroupProgram
  <2> QED
    BY <2>2, <2>3, OpNames, BegunQuietly
<1>2. CASE join_group(u, k)
  <2>1. PICK s : s = join_group_program(u, k)
    OBVIOUS
  <2>2. Begin(u, "join_group", k, u, s)
    BY <1>2, <2>1 DEF join_group
  <2>3. s \in Seq(Steps) /\ FreshProgram(s)
    BY <2>1, JoinProgram
  <2> QED
    BY <2>2, <2>3, OpNames, Begun
<1>3. CASE group_choice(u, k)
  <2>1. PICK s : s = << On("getGroupuuid", k), On("choose", k) >>
    OBVIOUS
  <2>2. Begin(u, "group_choice", k, NoUser, s)
    BY <1>3, <2>1 DEF group_choice
  <2>3. s \in Seq(Steps) /\ FreshProgram(s) /\ AsksNobody(s)
    BY <2>1, ChoiceProgram
  <2> QED
    BY <2>2, <2>3, OpNames, BegunQuietly
<1>4. ASSUME NEW x \in Users, NEW accept \in BOOLEAN, group_decide(u, k, x, accept)
      PROVE  Inv'
  <2>1. PICK s : /\ Begin(u, "group_decide", k, x, s)
                 /\ \/ s = << On("getGroupuuid", k) >>
                           \o << If("userFieldHexists", "needs", x, NoRole, k),
                                 For("SetGroupMember", x, "member", k),
                                 For("UserSetGroups", x, NoRole, k) >>
                           \o << For("getManagers", x, NoRole, k) >>
                    \/ s = << On("getGroupuuid", k) >> \o << >>
                           \o << For("getManagers", x, NoRole, k) >>
    BY <1>4 DEF group_decide, group_decide_program
  <2>2. s \in Seq(Steps) /\ FreshProgram(s)
    BY <2>1, AcceptProgram, RefuseProgram
  <2> QED
    BY <2>1, <2>2, OpNames, Begun
<1> QED
  BY <1>1, <1>2, <1>3, <1>4

LEMMA MemberRequests ==
  ASSUME Inv, NEW u \in Users, NEW x \in Users,
         add_member(u, x) \/ del_member(u, x) \/ add_manager(u, x) \/ del_manager(u, x)
  PROVE  Inv'
<1>1. PICK k : k = menu[u].key
  OBVIOUS
<1>2. \/ /\ menu[u].role \in {"owner", "manager"}
         /\ Begin(u, "add_member", k, x, add_member_program(x, k))
      \/ /\ menu[u].role = "owner"
         /\ Begin(u, "del_member_owner", k, x, del_member_owner_program(x, k))
      \/ /\ menu[u].role = "manager"
         /\ Begin(u, "del_member_manager", k, x, del_member_manager_program(x, k))
      \/ /\ menu[u].role = "owner"
         /\ Begin(u, "add_manager", k, x, add_manager_program(x, k))
      \/ /\ menu[u].role = "owner"
         /\ Begin(u, "del_manager", k, x, del_manager_program(x, k))
  BY <1>1 DEF add_member, del_member, add_manager, del_manager
<1>3. k \in Keys
  <2>1. menu[u].role # NoRole
    BY <1>2 DEF NoRole
  <2> QED
    BY <1>1, <2>1, MenuKey
<1>4. CASE Begin(u, "add_member", k, x, add_member_program(x, k))
  <2>1. PICK s : s = add_member_program(x, k)
    OBVIOUS
  <2>2. s \in Seq(Steps) /\ FreshProgram(s) /\ AsksNobody(s)
    BY <1>3, <2>1, AddMemberProgram
  <2> QED
    BY <1>3, <1>4, <2>1, <2>2, OpNames, BegunQuietly
<1>5. CASE Begin(u, "del_member_owner", k, x, del_member_owner_program(x, k))
  <2>1. PICK s : s = del_member_owner_program(x, k)
    OBVIOUS
  <2>2. s \in Seq(Steps) /\ FreshProgram(s) /\ AsksNobody(s)
    BY <1>3, <2>1, DelByOwnerProgram
  <2> QED
    BY <1>3, <1>5, <2>1, <2>2, OpNames, BegunQuietly
<1>6. CASE Begin(u, "del_member_manager", k, x, del_member_manager_program(x, k))
  <2>1. PICK s : s = del_member_manager_program(x, k)
    OBVIOUS
  <2>2. s \in Seq(Steps) /\ FreshProgram(s) /\ AsksNobody(s)
    BY <1>3, <2>1, DelByManagerProgram
  <2> QED
    BY <1>3, <1>6, <2>1, <2>2, OpNames, BegunQuietly
<1>7. CASE Begin(u, "add_manager", k, x, add_manager_program(x, k))
  <2>1. PICK s : s = add_manager_program(x, k)
    OBVIOUS
  <2>2. s \in Seq(Steps) /\ FreshProgram(s) /\ AsksNobody(s)
    BY <1>3, <2>1, AddManagerProgram
  <2> QED
    BY <1>3, <1>7, <2>1, <2>2, OpNames, BegunQuietly
<1>8. CASE Begin(u, "del_manager", k, x, del_manager_program(x, k))
  <2>1. PICK s : s = del_manager_program(x, k)
    OBVIOUS
  <2>2. s \in Seq(Steps) /\ FreshProgram(s) /\ AsksNobody(s)
    BY <1>3, <2>1, DelManagerProgram
  <2> QED
    BY <1>3, <1>8, <2>1, <2>2, OpNames, BegunQuietly
<1> QED
  BY <1>2, <1>4, <1>5, <1>6, <1>7, <1>8

LEMMA LeaveKeeps ==
  ASSUME Inv, NEW u \in Users, leave_group(u) \/ disband_froup(u)
  PROVE  Inv'
<1>1. PICK k : k = menu[u].key
  OBVIOUS
<1>2. CASE leave_group(u)
  <2>1. PICK r : r = menu[u].role
    OBVIOUS
  <2>2. PICK s : s = leave_group_program(u, k, r)
    OBVIOUS
  <2>3. r \in {"manager", "member"} /\ Begin(u, "leave_group", k, NoUser, s)
    BY <1>1, <1>2, <2>1, <2>2 DEF leave_group
  <2>4. k \in Keys
    BY <1>1, <2>1, <2>3, MenuKey DEF NoRole
  <2>5. s \in Seq(Steps) /\ FreshProgram(s) /\ AsksNobody(s)
    BY <2>2, <2>3, <2>4, LeaveProgram
  <2> QED
    BY <2>3, <2>4, <2>5, OpNames, BegunQuietly
<1>3. CASE disband_froup(u)
  <2>1. PICK s : s = disband_program(k)
    OBVIOUS
  <2>2. menu[u].role = "owner" /\ Begin(u, "disband_group", k, NoUser, s)
    BY <1>1, <1>3, <2>1 DEF disband_froup
  <2>3. k \in Keys
    BY <1>1, <2>2, MenuKey DEF NoRole
  <2>4. s \in Seq(Steps) /\ FreshProgram(s) /\ AsksNobody(s)
    BY <2>1, <2>3, DisbandProgram
  <2> QED
    BY <2>2, <2>3, <2>4, OpNames, BegunQuietly
<1> QED
  BY <1>2, <1>3

LEMMA DelAccountKeeps ==
  ASSUME Inv, NEW u \in Users, del_account(u)
  PROVE  Inv'
<1>1. PICK T \in OnePerName(lists[u]) : \E order \in SetToSeqs(T) :
        Begin(u, "del_account", NoKey, NoUser, del_account_program(u, order))
  BY DEF del_account
<1>2. PICK order \in SetToSeqs(T) :
        Begin(u, "del_account", NoKey, NoUser, del_account_program(u, order))
  BY <1>1
<1>3. T \subseteq Keys /\ IsFiniteSet(T)
  <2>1. lists[u] \subseteq Keys /\ IsFiniteSet(lists[u])
    BY InvParts DEF TablesOK
  <2>2. T \subseteq lists[u]
    BY DEF OnePerName
  <2> QED
    BY <2>1, <2>2, FS_Subset
<1>4. PICK n \in Nat : order \in [1 .. n -> T] /\ DOMAIN order = 1 .. n
  BY <1>3, OrderOf
<1>5. order \in [1 .. n -> Keys]
  BY <1>3, <1>4
<1>6. PICK s : s = del_account_program(u, order)
  OBVIOUS
<1>7. s \in Seq(Steps) /\ FreshProgram(s) /\ AsksNobody(s)
  BY <1>5, <1>6, DelAccountProgram
<1> QED
  BY <1>2, <1>6, <1>7, OpNames, Begun

-----------------------------------------------------------------------------
(* Every state.                                                            *)

LEMMA InitInv ==
  ASSUME Init
  PROVE  Inv
<1>1. NoUuid \notin Uuids /\ MaxRequests \in Nat
  BY GroupsConstants
<1>2. NoJob \in Jobs /\ IsFiniteSet({})
  BY FS_EmptySet DEF NoJob, Jobs
<1>3. TablesOK
  <2>1. /\ job \in [Users -> Jobs] /\ todo \in [Users -> Seq(Steps)]
    BY <1>2 DEF Init
  <2>2. /\ menu \in [Users -> [key : Keys \cup {NoKey}, role : Roles \cup {NoRole}]]
        /\ \A u \in Users : menu[u].role # NoRole => menu[u].key \in Keys
    BY DEF Init, NoMenu
  <2>3. /\ lists \in [Users -> SUBSET Keys] /\ \A u \in Users : IsFiniteSet(lists[u])
        /\ notify \in [Users -> [Users -> Keys \cup {NoKey}]]
    BY <1>2 DEF Init
  <2>4. /\ account \subseteq Users /\ index \in [Keys -> Uuids \cup {NoUuid}]
        /\ members \in [Uuids -> SUBSET (Users \X Roles)]
    BY DEF Init
  <2>5. managers \in [Uuids -> [Users -> {"owner", "manager", NoRole}]]
    <3>1. [u \in Users |-> NoRole] \in [Users -> {"owner", "manager", NoRole}]
      OBVIOUS
    <3> QED
      BY <3>1 DEF Init
  <2>6. /\ kicked \subseteq Users \X Keys \X {"owner", "manager", "account"}
        /\ garbage \in BOOLEAN /\ crashed \in BOOLEAN
        /\ served \in 0 .. MaxRequests /\ mixed \subseteq Users
    <3>1. kicked = {} /\ mixed = {} /\ served = 0 /\ ~garbage /\ garbage \in BOOLEAN
      BY DEF Init
    <3>2. crashed \in BOOLEAN
      BY DEF Init
    <3>3. 0 \in 0 .. MaxRequests
      BY <1>1
    <3> QED
      BY <3>1, <3>2, <3>3
  <2> QED
    BY <2>1, <2>2, <2>3, <2>4, <2>5, <2>6 DEF TablesOK
<1>4. ProgramsOK
  <2> SUFFICES ASSUME NEW u \in Users
               PROVE  ProgramOK(todo[u]) /\ JobOK(job[u], todo[u])
    BY DEF ProgramsOK
  <2>1. todo[u] = << >> /\ job[u] = NoJob
    BY DEF Init
  <2>2. 1 .. Len(<< >>) = {}
    OBVIOUS
  <2> QED
    BY <2>1, <2>2, EmptyProgram DEF JobOK, NoJob
<1>5. KeysOK
  <2>1. \A u \in Users : todo[u] = << >>
    BY DEF Init
  <2>2. \A k \in Keys : index[k] = NoUuid
    BY DEF Init
  <2>3. \A u \in Users : KeyOK(index, id(u), todo[u])
    BY <2>1, EmptyProgram, KeyNoId
  <2> QED
    BY <2>2, <2>3 DEF KeysOK
<1>6. OwnersOK
  BY DEF Init, OwnersOK
<1>7. ManagersOK
  BY DEF Init, ManagersOK
<1> QED
  BY <1>3, <1>4, <1>5, <1>6, <1>7 DEF Inv

LEMMA NextInv ==
  ASSUME Inv, [Next]_vars
  PROVE  Inv'
<1>1. ASSUME NEW u \in Users, Request(u)
      PROVE  Inv'
  <2>1. CASE del_account(u) \/ leave_group(u) \/ disband_froup(u)
    BY <2>1, DelAccountKeeps, LeaveKeeps
  <2>2. ASSUME NEW k \in Keys,
               \/ add_group(u, k) \/ join_group(u, k) \/ group_choice(u, k)
               \/ \E x \in Users, accept \in BOOLEAN : group_decide(u, k, x, accept)
        PROVE  Inv'
    BY <2>2, GroupRequests
  <2>3. ASSUME NEW x \in Users,
               add_member(u, x) \/ del_member(u, x) \/ add_manager(u, x) \/ del_manager(u, x)
        PROVE  Inv'
    BY <2>3, MemberRequests
  <2> QED
    BY <1>1, <2>1, <2>2, <2>3 DEF Request
<1>2. ASSUME NEW u \in Users, Command(u)
      PROVE  Inv'
  <2>1. CASE \/ GroupExists(u) \/ userFieldHexists(u) \/ getGroupuuid(u)
             \/ getGroupManager(u) \/ getManagers(u) \/ isManager(u)
             \/ getGroupMember(u) \/ choose(u)
    BY <2>1, GroupExistsKeeps, UserFieldHexistsKeeps, GetGroupuuidKeeps, GetGroupManagerKeeps,
       GetManagersKeeps, IsManagerKeeps, GetGroupMemberKeeps, ChooseKeeps
  <2>2. CASE \/ addGroup(u) \/ delGroup(u)
             \/ SetGroupMember(u) \/ removeGroupMember(u) \/ delGroupMember(u)
             \/ UserSetGroups(u) \/ UserRemoveGroups(u)
    BY <2>2, AddGroupKeeps, DelGroupKeeps, SetGroupMemberKeeps, RemoveGroupMemberKeeps,
       DelGroupMemberKeeps, UserSetGroupsKeeps, UserRemoveGroupsKeeps
  <2>3. CASE \/ SetGroupManager(u) \/ removeGroupManager(u) \/ delGroupManager(u)
             \/ setGroupNotify(u) \/ delGroupNotify(u) \/ deleteHashKey(u)
    BY <2>3, SetGroupManagerKeeps, RemoveGroupManagerKeeps, DelGroupManagerKeeps,
       SetGroupNotifyKeeps, DelGroupNotifyKeeps, DeleteHashKeyKeeps
  <2> QED
    BY <1>2, <2>1, <2>2, <2>3 DEF Command
<1>3. CASE UNCHANGED vars
  <2>1. TablesOK /\ ProgramsOK /\ (~garbage => Safe)
    BY InvParts
  <2>2. UNCHANGED << account, index, members, managers, lists, notify, job, todo, menu, kicked,
                     garbage, served, mixed, crashed >>
    BY <1>3 DEF vars, redisVars
  <2>3. TablesOK'
    BY <2>1, <2>2 DEF TablesOK
  <2>4. ProgramsOK'
    BY <2>1, <2>2 DEF ProgramsOK
  <2>5. ASSUME ~garbage'
        PROVE  Safe'
    <3>1. Safe
      BY <2>1, <2>2, <2>5
    <3>2. KeysOK'
      BY <2>2, <3>1 DEF Safe, KeysOK, id
    <3>3. OwnersOK'
      BY <2>2, <3>1 DEF Safe, OwnersOK, Busy, id, Now
    <3>4. ManagersOK'
      BY <2>2, <3>1 DEF Safe, ManagersOK, Mended, Belongs, id
    <3> QED
      BY <3>2, <3>3, <3>4 DEF Safe
  <2> QED
    BY <2>3, <2>4, <2>5, Whole
<1>4. ASSUME NEW u \in Users, saveUser(u)
      PROVE  Inv'
  BY <1>4, SaveUserKeeps
<1> QED
  BY <1>1, <1>2, <1>3, <1>4 DEF Next

\* In every reachable state, for any users, groups, workers and bounds, the
\* programs of the handlers (connection.cc:284-858) are such that what one of
\* their Redis commands leaves undone is done by the ones that come next, and
\* the tables agree up to that.
THEOREM InvCorrect == Spec => []Inv
<1>1. Init => Inv
  BY InitInv
<1>2. Inv /\ [Next]_vars => Inv'
  BY NextInv
<1> QED
  BY <1>1, <1>2, PTL DEF Spec

\* Every table, program and menu has the shape the handlers rely on, also when
\* a handler works for a group that it made up.
THEOREM TypeCorrect == Spec => []TypeOK
<1>1. Inv => TypeOK
  <2> SUFFICES ASSUME Inv
               PROVE  TypeOK
    OBVIOUS
  <2>1. TablesOK
    BY InvParts
  <2>2. \A u \in Users : \A i \in DOMAIN todo[u] : todo[u][i] \in Steps
    BY <2>1 DEF TablesOK
  <2> QED
    BY <2>1, <2>2 DEF TypeOK, TablesOK, Jobs
<1> QED
  BY <1>1, InvCorrect, PTL

\* As long as a group exists its founder is among its members as the owner,
\* once no handler works for the group (connection.cc:428-565).
THEOREM OwnersCorrect == Spec => []OwnerKeepsEntry
<1>1. Inv => OwnerKeepsEntry
  <2> SUFFICES ASSUME Inv, NEW k \in Keys, index[k] # NoUuid, ~garbage, Settled(index[k])
               PROVE  << k[2], "owner" >> \in members[index[k]]
    BY DEF OwnerKeepsEntry
  <2>1. OwnersOK
    BY InvParts DEF Safe
  <2> QED
    BY <2>1 DEF OwnersOK, Settled
<1> QED
  BY <1>1, InvCorrect, PTL

\* Nobody has the rights of a manager in a group without being one of its
\* members, once no handler works for the group, however appointments, kicks,
\* departures and account deletions overlap (connection.cc:314-425, 469-649).
THEOREM ManagersCorrect == Spec => []ManagersAreMembers
<1>1. Inv => ManagersAreMembers
  <2> SUFFICES ASSUME Inv, NEW k \in Keys, index[k] # NoUuid, ~garbage, Settled(index[k]),
                      NEW x \in Users, managers[index[k]][x] # NoRole
               PROVE  Belongs(x, index[k])
    BY DEF ManagersAreMembers
  <2>1. TablesOK /\ ManagersOK
    BY InvParts DEF Safe
  <2>2. index[k] \in Uuids
    BY <2>1 DEF TablesOK
  <2>3. Belongs(x, index[k]) \/ Mended(index[k], x)
    BY <2>1, <2>2 DEF ManagersOK
  <2>4. ASSUME NEW u \in Users, id(u) = index[k], Mends(todo[u], x)
        PROVE  FALSE
    <3>1. todo[u] = << >>
      BY <2>4 DEF Settled, Busy
    <3> QED
      BY <2>4, <3>1, EmptyProgram, MendsNobody
  <2> QED
    BY <2>3, <2>4 DEF Mended
<1> QED
  BY <1>1, InvCorrect, PTL

-----------------------------------------------------------------------------
(* What users find in their lists.                                         *)

\* Commands that rely on the group of their key being the one of the handler's
\* uuid, where users come and go.
Keyed(c) ==
    \/ c.cmd \in {"userFieldHexists", "getGroupManager", "getGroupMember", "SetGroupMember",
                  "removeGroupMember"}
    \/ c.cmd = "SetGroupManager" /\ c.role = "manager"
    \/ c.cmd = "removeGroupManager" /\ c.mode = "needs"

\* From p on the program takes the group k out of the list of x.
Removal(c, x, k) == c.cmd = "UserRemoveGroups" /\ c.who = x /\ c.key = k
Removing(s, p, x, k) ==
    \/ p <= Len(s) /\ Removal(s[p], x, k)
    \/ /\ p + 1 <= Len(s) /\ Removal(s[p + 1], x, k)
       /\ s[p].cmd = "removeGroupManager" /\ s[p].mode = "go"
    \/ /\ p + 2 <= Len(s) /\ Removal(s[p + 2], x, k)
       /\ s[p].cmd = "isManager"
       /\ s[p + 1].cmd = "removeGroupManager" /\ s[p + 1].mode = "go"

\* What a handler of u for the job j does, it does for the users it concerns.
OwnOK(u, j, c) ==
    /\ Keyed(c) => c.key \in Keys /\ Concerned(u, j.op, j.x) \subseteq Users
    /\ c.cmd \in {"SetGroupMember", "UserSetGroups"} =>
          c.who \in Concerned(u, j.op, j.x) /\ j.op \notin {"disband_group", "del_account"}
    /\ c.cmd = "removeGroupMember" => c.who \in Concerned(u, j.op, j.x)
    /\ c.cmd \in {"getGroupMember", "delGroup"} => j.op \in {"disband_group", "del_account"}
    /\ c.cmd = "addGroup" => j.op = "add_group" /\ c.key[2] = u
    /\ c.cmd = "deleteHashKey" => j.op = "del_account"
    /\ j.op = "del_account" => c.mode = "go" /\ (c.cmd = "removeGroupMember" => c.who = u)

\* What comes before what: the uuid of a group before what relies on it, the
\* entry among the members before the one in the user's list.
LinkOK(j, s, i) ==
    i < Len(s) =>
        /\ Keyed(s[i + 1]) =>
              /\ s[i].key = s[i + 1].key
              /\ \/ s[i].cmd = "getGroupuuid"
                 \/ s[i].cmd = "addGroup" /\ j.op # "del_account"
                 \/ Keyed(s[i]) /\ s[i].cmd # "getGroupMember" /\ j.op # "del_account"
        /\ s[i + 1].cmd = "addGroup" =>
              s[i].cmd = "GroupExists" /\ s[i].mode = "unless" /\ s[i].key = s[i + 1].key
        /\ s[i + 1].cmd = "UserSetGroups" =>
              s[i].cmd = "SetGroupMember" /\ s[i].who = s[i + 1].who /\ s[i].key = s[i + 1].key

\* Whoever ceases to be a member comes back at once, or loses the entry in the
\* list next -- but for those a manager kicks, and an account that is deleted.
OutOK(j, s, i) ==
    s[i].cmd = "removeGroupMember" =>
        \/ j.op = "del_account"
        \/ j.op = "del_member_manager" /\ s[i].key = j.key
        \/ /\ s[i].mode = "go" /\ i < Len(s) /\ s[i + 1].cmd = "SetGroupMember"
           /\ s[i + 1].who = s[i].who /\ s[i + 1].key = s[i].key
        \/ s[i].mode = "needs" /\ Removing(s, i + 1, s[i].who, s[i].key)
        \/ s[i].mode = "or" /\ Removing(s, i + 2, s[i].who, s[i].key)

PlaceOK(u, j, s, i) == OwnOK(u, j, s[i]) /\ LinkOK(j, s, i) /\ OutOK(j, s, i)
CourseOK(u, j, s) ==
    /\ \A i \in 1 .. Len(s) : PlaceOK(u, j, s, i)
    /\ j.op = "del_account" /\ s # << >> => s[Len(s)].cmd = "deleteHashKey"

CoursesOK == \A u \in Users : CourseOK(u, job[u], todo[u])

Concern(u) == Concerned(u, job[u].op, job[u].x)

\* Two handlers that run at a time concern nobody but users it is known of.
ApartOK ==
    \A u, v \in Users : u # v /\ Busy(u) /\ Busy(v) => Concern(u) \cap Concern(v) \subseteq mixed

\* A handler that relies on its uuid, for somebody who is its only concern,
\* has the uuid of the group.
HeldOK ==
    \A u \in Users : Busy(u) /\ Keyed(Now(u)) /\ ~(Concern(u) \subseteq mixed) =>
        index[Now(u).key] = id(u)

\* A group is made where there is none.
MakesOK == \A u \in Users : Busy(u) /\ Now(u).cmd = "addGroup" => index[Now(u).key] = NoUuid

\* No handler is about to end the group.
Doomed(k) ==
    \E u \in Users : \E i \in 1 .. Len(todo[u]) : todo[u][i].cmd = "delGroup" /\ todo[u][i].key = k
InGroup(x, k) == index[k] # NoUuid /\ Belongs(x, index[k]) /\ ~Doomed(k)

SetsOK ==
    \A u \in Users : Busy(u) /\ Now(u).cmd = "UserSetGroups" /\ Now(u).who \notin mixed =>
        InGroup(Now(u).who, Now(u).key)

\* The handler of u removes the entry k of x, makes x a member again, or deletes
\* the account of x.
Leaving(s, x, k) ==
    \E p \in 1 .. Len(s) :
        Removing(s, p, x, k) /\ \A h \in 1 .. p - 1 : s[h].cmd = "UserRemoveGroups"
Returning(s, x, k) == Head(s).cmd = "SetGroupMember" /\ Head(s).who = x /\ Head(s).key = k
Settling(u, x, k) ==
    /\ Busy(u)
    /\ \/ Leaving(todo[u], x, k) \/ Returning(todo[u], x, k)
       \/ u = x /\ job[u].op = "del_account"

ListedOK ==
    \A x \in Users \ mixed : \A k \in lists[x] :
        ~Excused(x, k) =>
            InGroup(x, k) \/ \E u \in Users : Settling(u, x, k)

ListInv == CoursesOK /\ ApartOK /\ (~garbage => HeldOK /\ MakesOK /\ SetsOK /\ ListedOK)

-----------------------------------------------------------------------------
(* Courses of commands.                                                    *)

\* What is removed from p on in the rest is removed from p + k on in the whole.
LEMMA RemovingShift ==
  ASSUME NEW s, NEW t, NEW k, Shift(s, t, k), NEW p \in Nat \ {0}, NEW x, NEW g
  PROVE  Removing(t, p, x, g) <=> Removing(s, p + k, x, g)
<1>1. /\ Len(s) \in Nat /\ Len(t) \in Nat /\ k \in Nat /\ Len(s) = Len(t) + k
      /\ \A i \in 1 .. Len(t) : t[i] = s[i + k]
  BY DEF Shift
<1>2. /\ p <= Len(t) <=> p + k <= Len(s)
      /\ p + 1 <= Len(t) <=> (p + k) + 1 <= Len(s)
      /\ p + 2 <= Len(t) <=> (p + k) + 2 <= Len(s)
      /\ p + 2 <= Len(t) => p + 1 <= Len(t)
      /\ p + 1 <= Len(t) => p <= Len(t)
  BY <1>1
<1>3. p <= Len(t) => t[p] = s[p + k]
  BY <1>1
<1>4. p + 1 <= Len(t) => t[p + 1] = s[(p + k) + 1]
  <2>1. p + 1 <= Len(t) => p + 1 \in 1 .. Len(t) /\ (p + 1) + k = (p + k) + 1
    BY <1>1
  <2> QED
    BY <1>1, <2>1
<1>5. p + 2 <= Len(t) => t[p + 2] = s[(p + k) + 2]
  <2>1. p + 2 <= Len(t) => p + 2 \in 1 .. Len(t) /\ (p + 2) + k = (p + k) + 2
    BY <1>1
  <2> QED
    BY <1>1, <2>1
<1> QED
  BY <1>2, <1>3, <1>4, <1>5 DEF Removing, Removal

\* What is removed from p on in a program is so when the program goes on.
LEMMA RemovingPrefix ==
  ASSUME NEW f, NEW t, Prefix(f, t), NEW p \in Nat \ {0}, NEW x, NEW g, Removing(f, p, x, g)
  PROVE  Removing(t, p, x, g)
<1>1. /\ Len(f) \in Nat /\ Len(t) \in Nat /\ Len(f) <= Len(t)
      /\ \A i \in 1 .. Len(f) : t[i] = f[i]
  BY DEF Prefix
<1>2. /\ p <= Len(f) => p <= Len(t) /\ t[p] = f[p]
      /\ p + 1 <= Len(f) => p + 1 <= Len(t) /\ t[p] = f[p] /\ t[p + 1] = f[p + 1]
      /\ p + 2 <= Len(f) => p + 2 <= Len(t) /\ t[p] = f[p] /\ t[p + 1] = f[p + 1] /\ t[p + 2] = f[p + 2]
  BY <1>1
<1> QED
  BY <1>2 DEF Removing, Removal

\* A place of the rest is a place of the whole.
LEMMA PlaceShift ==
  ASSUME NEW s, NEW t, NEW k, Shift(s, t, k), NEW i \in 1 .. Len(t), NEW u, NEW j
  PROVE  PlaceOK(u, j, s, i + k) <=> PlaceOK(u, j, t, i)
<1>1. /\ Len(s) \in Nat /\ Len(t) \in Nat /\ k \in Nat /\ Len(s) = Len(t) + k
      /\ \A h \in 1 .. Len(t) : t[h] = s[h + k]
  BY DEF Shift
<1>2. t[i] = s[i + k] /\ i \in Nat \ {0}
  BY <1>1
<1>3. /\ i < Len(t) <=> i + k < Len(s)
      /\ i < Len(t) => t[i + 1] = s[(i + k) + 1]
  <2>1. i < Len(t) => i + 1 \in 1 .. Len(t) /\ (i + 1) + k = (i + k) + 1
    BY <1>1
  <2>2. i < Len(t) => t[i + 1] = s[(i + k) + 1]
    BY <1>1, <2>1
  <2> QED
    BY <1>1, <2>2
<1>4. ASSUME NEW x, NEW g
      PROVE  /\ Removing(t, i + 1, x, g) <=> Removing(s, (i + k) + 1, x, g)
             /\ Removing(t, i + 2, x, g) <=> Removing(s, (i + k) + 2, x, g)
  <2>1. (i + 1) + k = (i + k) + 1 /\ (i + 2) + k = (i + k) + 2
        /\ i + 1 \in Nat \ {0} /\ i + 2 \in Nat \ {0}
    BY <1>1
  <2>2. /\ Removing(t, i + 1, x, g) <=> Removing(s, (i + 1) + k, x, g)
        /\ Removing(t, i + 2, x, g) <=> Removing(s, (i + 2) + k, x, g)
    BY <2>1, RemovingShift
  <2> QED
    BY <2>1, <2>2
<1>5. OwnOK(u, j, s[i + k]) <=> OwnOK(u, j, t[i])
  BY <1>2
<1>6. LinkOK(j, s, i + k) <=> LinkOK(j, t, i)
  BY <1>2, <1>3 DEF LinkOK
<1>7. OutOK(j, s, i + k) <=> OutOK(j, t, i)
  BY <1>2, <1>3, <1>4 DEF OutOK
<1> QED
  BY <1>5, <1>6, <1>7 DEF PlaceOK

\* What may follow a program of which nothing is known.
Loose(t) ==
    t # << >> => ~Keyed(t[1]) /\ t[1].cmd \notin {"addGroup", "UserSetGroups"}

\* A place is one still when the program goes on.
LEMMA PlacePrefix ==
  ASSUME NEW f, NEW t, Prefix(f, t), NEW i \in 1 .. Len(f), NEW u, NEW j, PlaceOK(u, j, f, i),
         i = Len(f) /\ i < Len(t) =>
            ~Keyed(t[i + 1]) /\ t[i + 1].cmd \notin {"addGroup", "UserSetGroups"}
  PROVE  PlaceOK(u, j, t, i)
<1>1. /\ Len(f) \in Nat /\ Len(t) \in Nat /\ Len(f) <= Len(t)
      /\ \A h \in 1 .. Len(f) : t[h] = f[h]
  BY DEF Prefix
<1>2. t[i] = f[i] /\ i \in Nat \ {0}
  BY <1>1
<1>3. i < Len(f) => i < Len(t) /\ t[i + 1] = f[i + 1]
  BY <1>1
<1>4. i = Len(f) \/ i < Len(f)
  BY <1>1
<1>5. ASSUME NEW x, NEW g
      PROVE  /\ Removing(f, i + 1, x, g) => Removing(t, i + 1, x, g)
             /\ Removing(f, i + 2, x, g) => Removing(t, i + 2, x, g)
  <2>1. i + 1 \in Nat \ {0} /\ i + 2 \in Nat \ {0}
    OBVIOUS
  <2> QED
    BY <2>1, RemovingPrefix
<1>6. OwnOK(u, j, t[i])
  BY <1>2 DEF PlaceOK
<1>7. LinkOK(j, t, i)
  BY <1>2, <1>3, <1>4 DEF PlaceOK, LinkOK
<1>8. OutOK(j, t, i)
  BY <1>2, <1>3, <1>5 DEF PlaceOK, OutOK
<1> QED
  BY <1>6, <1>7, <1>8 DEF PlaceOK

\* Nothing is left of a course, and it is one.
LEMMA CourseEmpty ==
  ASSUME NEW u, NEW j
  PROVE  CourseOK(u, j, << >>)
<1>1. 1 .. Len(<< >>) = {}
  OBVIOUS
<1> QED
  BY <1>1 DEF CourseOK

\* The rest of a course is one.
LEMMA CourseTail ==
  ASSUME NEW s \in Seq(Steps), s # << >>, NEW u, NEW j, CourseOK(u, j, s)
  PROVE  CourseOK(u, j, Tail(s))
<1>1. PICK t : t = Tail(s)
  OBVIOUS
<1>2. t \in Seq(Steps) /\ Shift(s, t, 1) /\ AfterFirst(s, t)
  BY <1>1, TailShift, TailAfter
<1>3. ASSUME NEW i \in 1 .. Len(t)
      PROVE  PlaceOK(u, j, t, i)
  <2>1. i + 1 \in 1 .. Len(s)
    BY <1>2 DEF AfterFirst
  <2>2. PlaceOK(u, j, s, i + 1)
    BY <2>1 DEF CourseOK
  <2> QED
    BY <1>2, <2>2, PlaceShift
<1>4. ASSUME j.op = "del_account", t # << >>
      PROVE  t[Len(t)].cmd = "deleteHashKey"
  <2>1. Len(t) \in Nat /\ Len(t) \in 1 .. Len(t) /\ Len(s) = Len(t) + 1
    <3>1. Len(t) \in Nat /\ Len(s) = Len(t) + 1 /\ 1 \in 1 .. Len(t)
      BY <1>2, <1>4 DEF AfterFirst
    <3> QED
      BY <3>1
  <2>2. t[Len(t)] = s[Len(s)]
    BY <1>2, <2>1 DEF AfterFirst
  <2> QED
    BY <1>4, <2>2 DEF CourseOK
<1> QED
  BY <1>1, <1>3, <1>4 DEF CourseOK

\* What a command leaves of a course is one.
LEMMA CourseLeft ==
  ASSUME NEW s \in Seq(Steps), s # << >>, ProgramOK(s), NEW left,
         GoesFound(s, left) \/ GoesMissing(s, left), NEW u, NEW j, CourseOK(u, j, s)
  PROVE  CourseOK(u, j, left)
<1>1. PICK t : t = Tail(s)
  OBVIOUS
<1>2. CourseOK(u, j, t)
  BY <1>1, CourseTail
<1>3. CASE left = Tail(Tail(s)) /\ Tail(s) \in Seq(Steps) /\ Tail(s) # << >>
  BY <1>1, <1>2, <1>3, CourseTail
<1> QED
  BY <1>1, <1>2, <1>3, CourseEmpty, LeftIs

\* The course is one for the request, whatever group the handler has found.
LEMMA SameCourse ==
  ASSUME NEW u, NEW j, NEW n, n.op = j.op, n.key = j.key, n.x = j.x, NEW s, CourseOK(u, j, s)
  PROVE  CourseOK(u, n, s)
<1>1. ASSUME NEW i \in 1 .. Len(s)
      PROVE  PlaceOK(u, n, s, i)
  <2>1. OwnOK(u, j, s[i]) /\ LinkOK(j, s, i) /\ OutOK(j, s, i)
    BY DEF CourseOK, PlaceOK
  <2>2. OwnOK(u, n, s[i])
    BY <2>1 DEF OwnOK
  <2>3. LinkOK(n, s, i)
    BY <2>1 DEF LinkOK
  <2>4. OutOK(n, s, i)
    BY <2>1 DEF OutOK
  <2> QED
    BY <2>2, <2>3, <2>4 DEF PlaceOK
<1> QED
  BY <1>1 DEF CourseOK

\* A course goes on with another.
LEMMA CourseJoin ==
  ASSUME NEW f \in Seq(Steps), NEW t \in Seq(Steps), NEW u, NEW j,
         \A i \in 1 .. Len(f) : PlaceOK(u, j, f, i),
         CourseOK(u, j, t), Loose(t), t # << >> \/ j.op # "del_account"
  PROVE  CourseOK(u, j, f \o t)
<1>1. PICK r : r = f \o t
  OBVIOUS
<1>2. /\ r \in Seq(Steps) /\ Len(r) = Len(f) + Len(t)
      /\ \A i \in 1 .. Len(f) + Len(t) : r[i] = IF i <= Len(f) THEN f[i] ELSE t[i - Len(f)]
  BY <1>1, ConcatProperties
<1>3. Len(f) \in Nat /\ Len(t) \in Nat /\ Len(r) \in Nat
  BY <1>2, LenProperties
<1>4. Prefix(f, r)
  BY <1>2, <1>3 DEF Prefix
<1>5. ASSUME NEW i \in 1 .. Len(t)
      PROVE  t[i] = r[i + Len(f)]
  <2>1. i + Len(f) \in 1 .. Len(f) + Len(t) /\ ~(i + Len(f) <= Len(f)) /\ (i + Len(f)) - Len(f) = i
    BY <1>3
  <2> QED
    BY <1>2, <2>1
<1>6. Shift(r, t, Len(f))
  BY <1>2, <1>3, <1>5 DEF Shift
<1>7. ASSUME NEW i \in 1 .. Len(f)
      PROVE  PlaceOK(u, j, r, i)
  <2>1. ASSUME i = Len(f), i < Len(r)
        PROVE  ~Keyed(r[i + 1]) /\ r[i + 1].cmd \notin {"addGroup", "UserSetGroups"}
    <3>1. 1 \in 1 .. Len(t) /\ 1 + Len(f) = i + 1
      BY <1>2, <1>3, <2>1
    <3>2. r[i + 1] = t[1] /\ t # << >>
      BY <1>5, <3>1
    <3> QED
      BY <3>2 DEF Loose
  <2> QED
    BY <1>4, <2>1, PlacePrefix
<1>8. ASSUME NEW i \in 1 .. Len(r), i \notin 1 .. Len(f)
      PROVE  PlaceOK(u, j, r, i)
  <2>1. PICK h \in 1 .. Len(t) : i = h + Len(f)
    <3>1. i - Len(f) \in 1 .. Len(t) /\ i = (i - Len(f)) + Len(f)
      BY <1>2, <1>3, <1>8
    <3> QED
      BY <3>1
  <2>2. PlaceOK(u, j, t, h)
    BY DEF CourseOK
  <2> QED
    BY <1>6, <2>1, <2>2, PlaceShift
<1>9. ASSUME j.op = "del_account"
      PROVE  r[Len(r)].cmd = "deleteHashKey"
  <2>1. t[Len(t)].cmd = "deleteHashKey" /\ Len(t) # 0
    BY <1>9, EmptySeq DEF CourseOK
  <2>2. Len(t) \in 1 .. Len(t) /\ Len(t) + Len(f) = Len(r)
    BY <1>2, <1>3, <2>1
  <2>3. t[Len(t)] = r[Len(t) + Len(f)]
    BY <1>5, <2>2
  <2> QED
    BY <2>1, <2>2, <2>3
<1> QED
  BY <1>1, <1>7, <1>8, <1>9 DEF CourseOK

\* What comes after commands that make the program grow relies on nothing.
LEMMA LooseAfter ==
  ASSUME NEW s \in Seq(Steps), s # << >>, NEW u, NEW j, CourseOK(u, j, s),
         \/ s[1].cmd \in {"getManagers", "getGroupMember"}
         \/ s[1].cmd = "getGroupManager" /\ j.op = "del_account"
  PROVE  Loose(Tail(s))
<1>1. PICK t : t = Tail(s)
  OBVIOUS
<1>2. AfterFirst(s, t)
  BY <1>1, TailAfter
<1>3. ASSUME t # << >>
      PROVE  ~Keyed(t[1]) /\ t[1].cmd \notin {"addGroup", "UserSetGroups"}
  <2>1. t[1] = s[2] /\ 1 < Len(s) /\ 1 \in 1 .. Len(s) /\ 1 + 1 = 2
    BY <1>2, <1>3 DEF AfterFirst
  <2>2. LinkOK(j, s, 1)
    BY <2>1 DEF CourseOK, PlaceOK
  <2>3. s[1].cmd = "getManagers" => ~Keyed(s[1])
    BY DEF Keyed
  <2> QED
    BY <2>1, <2>2, <2>3 DEF LinkOK
<1> QED
  BY <1>1, <1>3 DEF Loose

-----------------------------------------------------------------------------
(* What the next command relies on.                                        *)

\* The first two commands of a course.
LEMMA LinkFirst ==
  ASSUME NEW s \in Seq(Steps), s # << >>, NEW u, NEW j, CourseOK(u, j, s), Tail(s) # << >>
  PROVE  /\ Keyed(Tail(s)[1]) =>
               /\ s[1].key = Tail(s)[1].key
               /\ s[1].cmd \in {"getGroupuuid", "addGroup"} \/ Keyed(s[1])
         /\ Tail(s)[1].cmd = "addGroup" =>
               s[1].cmd = "GroupExists" /\ s[1].mode = "unless" /\ s[1].key = Tail(s)[1].key
         /\ Tail(s)[1].cmd = "UserSetGroups" =>
               s[1].cmd = "SetGroupMember" /\ s[1].who = Tail(s)[1].who /\ s[1].key = Tail(s)[1].key
<1>1. PICK t : t = Tail(s)
  OBVIOUS
<1>2. AfterFirst(s, t)
  BY <1>1, TailAfter
<1>3. t[1] = s[2] /\ 1 < Len(s) /\ 1 \in 1 .. Len(s) /\ 1 + 1 = 2
  BY <1>1, <1>2 DEF AfterFirst
<1>4. LinkOK(j, s, 1)
  BY <1>3 DEF CourseOK, PlaceOK
<1> QED
  BY <1>1, <1>3, <1>4 DEF LinkOK

\* What the command that is left first relies on.
LEMMA LinkLeft ==
  ASSUME NEW s \in Seq(Steps), s # << >>, ProgramOK(s), NEW left,
         GoesFound(s, left) \/ GoesMissing(s, left), NEW u, NEW j, CourseOK(u, j, s), left # << >>
  PROVE  /\ Keyed(left[1]) =>
               /\ s[1].key = left[1].key
               /\ s[1].cmd \in {"getGroupuuid", "addGroup"} \/ Keyed(s[1])
         /\ left[1].cmd = "addGroup" =>
               /\ s[1].cmd = "GroupExists" /\ s[1].mode = "unless" /\ s[1].key = left[1].key
               /\ ~GoesFound(s, left)
         /\ left[1].cmd = "UserSetGroups" =>
               s[1].cmd = "SetGroupMember" /\ s[1].who = left[1].who /\ s[1].key = left[1].key
<1>1. PICK t : t = Tail(s)
  OBVIOUS
<1>2. CASE left = t
  <2>1. GoesFound(s, left) => s[1].mode # "unless"
    BY DEF GoesFound
  <2> QED
    BY <1>1, <1>2, <2>1, LinkFirst
<1>3. CASE /\ left = Tail(t) /\ t \in Seq(Steps) /\ t # << >>
           /\ t[1].cmd \in {"removeGroupMember", "removeGroupManager"}
  <2>1. CourseOK(u, j, t)
    BY <1>1, CourseTail
  <2>2. /\ Keyed(left[1]) => t[1].key = left[1].key /\ Keyed(t[1])
        /\ left[1].cmd # "addGroup" /\ left[1].cmd # "UserSetGroups"
    BY <1>3, <2>1, LinkFirst
  <2>3. Keyed(t[1]) => s[1].key = t[1].key /\ (s[1].cmd \in {"getGroupuuid", "addGroup"} \/ Keyed(s[1]))
    BY <1>1, <1>3, LinkFirst
  <2> QED
    BY <2>2, <2>3
<1> QED
  BY <1>1, <1>2, <1>3, LeftIs

\* What is left has been there before.
LEMMA LeftWithin ==
  ASSUME NEW s \in Seq(Steps), s # << >>, ProgramOK(s), NEW left,
         GoesFound(s, left) \/ GoesMissing(s, left), NEW i \in 1 .. Len(left)
  PROVE  \E h \in 1 .. Len(s) : s[h] = left[i]
<1>1. PICK t : t = Tail(s)
  OBVIOUS
<1>2. ASSUME NEW h \in 1 .. Len(t)
      PROVE  h + 1 \in 1 .. Len(s) /\ s[h + 1] = t[h]
  BY <1>1, TailAfter DEF AfterFirst
<1>3. CASE left = t
  BY <1>2, <1>3
<1>4. CASE left = Tail(t) /\ t \in Seq(Steps) /\ t # << >>
  <2>1. i + 1 \in 1 .. Len(t) /\ t[i + 1] = left[i]
    BY <1>4, TailAfter DEF AfterFirst
  <2> QED
    BY <1>2, <2>1
<1>5. CASE left = << >>
  <2>1. 1 .. Len(left) = {}
    BY <1>5
  <2> QED
    BY <2>1
<1> QED
  BY <1>1, <1>3, <1>4, <1>5, LeftIs

\* A program that leaves the list of x still does, unless the command did so.
LEMMA LeavingLeft ==
  ASSUME NEW s \in Seq(Steps), s # << >>, ProgramOK(s), NEW left,
         GoesFound(s, left) \/ GoesMissing(s, left), NEW x, NEW k, Leaving(s, x, k)
  PROVE  Removal(s[1], x, k) \/ (left # << >> /\ Leaving(left, x, k))
<1>1. PICK t : t = Tail(s)
  OBVIOUS
<1>2. AfterFirst(s, t) /\ Shift(s, t, 1)
  BY <1>1, TailAfter, TailShift
<1>3. FieldsOK(s[1])
  BY <1>2, ProgramParts DEF AfterFirst, AheadOK
<1>4. PICK p \in 1 .. Len(s) :
         Removing(s, p, x, k) /\ \A h \in 1 .. p - 1 : s[h].cmd = "UserRemoveGroups"
  BY DEF Leaving
<1>5. /\ Len(s) \in Nat \ {0} /\ Len(t) \in Nat /\ Len(s) = Len(t) + 1 /\ t \in Seq(Steps)
      /\ \A i \in 1 .. Len(t) : t[i] = s[i + 1]
  BY <1>2 DEF AfterFirst
<1>6. ASSUME NEW r \in Seq(Steps), Removing(r, 1, x, k)
      PROVE  r # << >> /\ Leaving(r, x, k)
  <2>1. Len(r) \in Nat /\ 1 <= Len(r)
    BY <1>6, LenProperties DEF Removing
  <2>2. 1 \in 1 .. Len(r) /\ 1 .. 1 - 1 = {} /\ r # << >>
    BY <2>1
  <2> QED
    BY <1>6, <2>2 DEF Leaving
<1>7. CASE p # 1
  <2>1. p - 1 \in Nat \ {0} /\ (p - 1) + 1 = p /\ p - 1 \in 1 .. Len(t) /\ 1 \in 1 .. p - 1
    BY <1>5, <1>7
  <2>2. s[1].cmd = "UserRemoveGroups"
    BY <1>4, <2>1
  <2>3. s[1].mode \notin {"needs", "unless", "or", "and"}
    BY <1>3, <2>2 DEF FieldsOK
  <2>4. left = t
    BY <1>1, <2>3 DEF GoesFound, GoesMissing
  <2>5. Removing(t, p - 1, x, k)
    BY <1>2, <1>4, <2>1, RemovingShift
  <2>6. ASSUME NEW h \in 1 .. (p - 1) - 1
        PROVE  t[h].cmd = "UserRemoveGroups"
    <3>1. h \in 1 .. Len(t) /\ h + 1 \in 1 .. p - 1
      BY <2>1
    <3> QED
      BY <1>4, <1>5, <3>1
  <2>7. t # << >>
    <3>1. Len(t) # 0
      BY <2>1
    <3> QED
      BY <3>1
  <2> QED
    BY <2>1, <2>4, <2>5, <2>6, <2>7 DEF Leaving
<1>8. CASE p = 1
  <2>0. /\ 2 <= Len(s) => 1 <= Len(t) /\ t[1] = s[2]
        /\ 3 <= Len(s) => 2 <= Len(t) /\ t[1] = s[2] /\ t[2] = s[3]
    BY <1>5
  <2>1. \/ Removal(s[1], x, k)
        \/ /\ 2 <= Len(s) /\ Removal(s[2], x, k)
           /\ s[1].cmd = "removeGroupManager" /\ s[1].mode = "go"
        \/ /\ 3 <= Len(s) /\ Removal(s[3], x, k) /\ s[1].cmd = "isManager"
           /\ s[2].cmd = "removeGroupManager" /\ s[2].mode = "go"
    <3>1. 1 + 1 = 2 /\ 1 + 2 = 3
      OBVIOUS
    <3> QED
      BY <1>4, <1>8, <3>1 DEF Removing
  <2>2. CASE /\ 2 <= Len(s) /\ Removal(s[2], x, k) /\ s[1].mode = "go"
    <3>1. left = t
      BY <1>1, <2>2 DEF GoesFound, GoesMissing
    <3>2. Removing(t, 1, x, k)
      BY <2>0, <2>2 DEF Removing
    <3> QED
      BY <1>5, <1>6, <3>1, <3>2
  <2>3. CASE /\ 3 <= Len(s) /\ Removal(s[3], x, k) /\ s[1].cmd = "isManager"
             /\ s[2].cmd = "removeGroupManager" /\ s[2].mode = "go"
    <3>1. s[1].mode = "and"
      BY <1>3, <2>3 DEF FieldsOK
    <3>2. left = t \/ left = Tail(t)
      BY <1>1, <3>1 DEF GoesFound, GoesMissing
    <3>3. Removing(t, 1, x, k)
      <4>1. 1 + 1 = 2 /\ 2 <= Len(t) /\ Removal(t[2], x, k)
            /\ t[1].cmd = "removeGroupManager" /\ t[1].mode = "go"
        BY <2>0, <2>3
      <4> QED
        BY <4>1 DEF Removing
    <3>4. t # << >>
      BY <1>5, <1>6, <3>3
    <3>5. AfterFirst(t, Tail(t))
      BY <1>5, <3>4, TailAfter
    <3>6. Removing(Tail(t), 1, x, k)
      <4>1. 1 <= Len(Tail(t)) /\ Tail(t)[1] = t[2]
        <5>1. /\ Len(Tail(t)) \in Nat /\ Len(t) = Len(Tail(t)) + 1
              /\ \A i \in 1 .. Len(Tail(t)) : Tail(t)[i] = t[i + 1]
          BY <3>5 DEF AfterFirst
        <5> QED
          BY <2>0, <2>3, <5>1
      <4> QED
        BY <2>0, <2>3, <4>1 DEF Removing
    <3>7. Tail(t) \in Seq(Steps)
      BY <3>5 DEF AfterFirst
    <3> QED
      BY <1>5, <1>6, <3>2, <3>3, <3>6, <3>7
  <2> QED
    BY <2>1, <2>2, <2>3
<1> QED
  BY <1>7, <1>8

-----------------------------------------------------------------------------
(* A step of one handler, and the lists.                                   *)

\* u's handler has left to do, for the same request.
Stepped(u, left, g) ==
    /\ Moved(u, left, g)
    /\ left # << >> => job'[u].op = job[u].op /\ job'[u].key = job[u].key /\ job'[u].x = job[u].x

\* A handler that goes on serves the request it has begun.
LEMMA SteppedOn ==
  ASSUME Shared, NEW u \in Users, NEW left, NEW g, GoOn(u, left, g), Moved(u, left, g)
  PROVE  Stepped(u, left, g)
<1>1. job \in [Users -> Jobs]
  BY DEF Shared
<1>2. left # << >> => job'[u] = [job[u] EXCEPT !.id = g]
  BY <1>1 DEF GoOn
<1>3. job[u] \in Jobs
  BY <1>1
<1>4. left # << >> => job'[u].op = job[u].op /\ job'[u].key = job[u].key /\ job'[u].x = job[u].x
  BY <1>2, <1>3 DEF Jobs
<1> QED
  BY <1>4 DEF Stepped

\* The handlers that have not moved.
LEMMA Others ==
  ASSUME NEW u \in Users, NEW left, NEW g, Stepped(u, left, g), NEW v \in Users, v # u
  PROVE  /\ todo'[v] = todo[v] /\ job'[v] = job[v]
         /\ Busy(v)' <=> Busy(v) 
         /\ Now(v)' = Now(v) /\ id(v)' = id(v) /\ Concern(v)' = Concern(v)
         /\ \A x, k : Settling(v, x, k)' <=> Settling(v, x, k)
<1>1. todo'[v] = todo[v] /\ job'[v] = job[v]
  BY DEF Stepped, Moved
<1>2. Busy(v)' <=> Busy(v) 
  BY <1>1 DEF Busy
<1>3. Now(v)' = Now(v) /\ id(v)' = id(v)
  BY <1>1 DEF Now, id
<1>4. Concern(v)' = Concern(v)
  BY <1>1 DEF Concern
<1>5. ASSUME NEW x, NEW k
      PROVE  Settling(v, x, k)' <=> Settling(v, x, k)
  BY <1>1, <1>2 DEF Settling
<1> QED
  BY <1>1, <1>2, <1>3, <1>4, <1>5

\* The handler that has moved.
LEMMA Mover ==
  ASSUME NEW u \in Users, NEW left \in Seq(Steps), NEW g, Stepped(u, left, g)
  PROVE  /\ todo'[u] = left /\ (Busy(u)' <=> left # << >>)
         /\ left # << >> => /\ Now(u)' = left[1] /\ id(u)' = g /\ Concern(u)' = Concern(u)
                            /\ job'[u].op = job[u].op
<1>1. todo'[u] = left /\ job'[u].id = IF left = << >> THEN NoUuid ELSE g
  BY DEF Stepped, Moved
<1>2. Busy(u)' <=> left # << >>
  BY <1>1 DEF Busy
<1>3. left # << >> => Now(u)' = left[1]
  <2>1. left # << >> => Head(left) = left[1]
    OBVIOUS
  <2> QED
    BY <1>1, <2>1 DEF Now
<1>4. left # << >> => id(u)' = g
  BY <1>1 DEF id
<1>5. left # << >> => Concern(u)' = Concern(u) /\ job'[u].op = job[u].op
  BY DEF Stepped, Concern
<1> QED
  BY <1>1, <1>2, <1>3, <1>4, <1>5

\* Courses go on, and concern the same users.
LEMMA CoursesStep ==
  ASSUME CoursesOK, ApartOK, NEW u \in Users, Busy(u), NEW left \in Seq(Steps), NEW g,
         Stepped(u, left, g), CourseOK(u, job[u], left), mixed' = mixed
  PROVE  CoursesOK' /\ ApartOK'
<1>1. CoursesOK'
  <2> SUFFICES ASSUME NEW v \in Users
               PROVE  CourseOK(v, job'[v], todo'[v])
    BY DEF CoursesOK
  <2>1. CASE v # u
    BY <2>1, Others DEF CoursesOK
  <2>2. CASE v = u /\ left = << >>
    <3>1. todo'[v] = << >>
      BY <2>2, Mover
    <3> QED
      BY <3>1, CourseEmpty
  <2>3. CASE v = u /\ left # << >>
    <3>1. todo'[v] = left
      BY <2>3, Mover
    <3>2. job'[u].op = job[u].op /\ job'[u].key = job[u].key /\ job'[u].x = job[u].x
      BY <2>3 DEF Stepped
    <3> QED
      BY <2>3, <3>1, <3>2, SameCourse
  <2> QED
    BY <2>1, <2>2, <2>3
<1>2. ASSUME NEW v \in Users
      PROVE  Busy(v)' => Busy(v) /\ Concern(v)' = Concern(v)
  <2>1. CASE v = u
    BY <2>1, Mover
  <2>2. CASE v # u
    BY <2>2, Others
  <2> QED
    BY <2>1, <2>2
<1>3. ApartOK'
  <2> SUFFICES ASSUME NEW v \in Users, NEW w \in Users, v # w, Busy(v)', Busy(w)'
               PROVE  Concern(v)' \cap Concern(w)' \subseteq mixed'
    BY DEF ApartOK
  <2>1. Concern(v) \cap Concern(w) \subseteq mixed
    BY <1>2 DEF ApartOK
  <2> QED
    BY <1>2, <2>1
<1> QED
  BY <1>1, <1>3

\* What is left relies on what is so now.
NextFine(u, left, g) ==
    left # << >> =>
        /\ Keyed(left[1]) /\ ~(Concern(u) \subseteq mixed) => index'[left[1].key] = g
        /\ left[1].cmd = "addGroup" => index'[left[1].key] = NoUuid
        /\ left[1].cmd = "UserSetGroups" /\ left[1].who \notin mixed =>
              InGroup(left[1].who, left[1].key)'

\* Nobody leaves a group but by a handler that sees to it.
Kept(u) ==
    \A x \in Users \ mixed, k \in Keys :
        InGroup(x, k) => \/ InGroup(x, k)'
                         \/ x \in Concern(u) /\ (Settling(u, x, k)' \/ Excused(x, k)')

\* Nobody is listed anew but in a group; and what a handler sees to is done.
Listing ==
    \A x \in Users \ mixed : \A k \in lists'[x] :
        ~Excused(x, k)' =>
            InGroup(x, k)' \/ (k \in lists[x] /\ ~Excused(x, k))
Settles(u) ==
    \A x \in Users \ mixed : \A k \in lists'[x] :
        Settling(u, x, k) => Settling(u, x, k)' \/ InGroup(x, k)' \/ Excused(x, k)'

Lists == HeldOK /\ MakesOK /\ SetsOK /\ ListedOK

\* The lists after a step.
LEMMA ListsStep ==
  ASSUME Shared, Shared', TablesOK', CoursesOK, ApartOK, Lists,
         NEW u \in Users, Busy(u), NEW left \in Seq(Steps), NEW g, Stepped(u, left, g),
         mixed' = mixed,
         \A v \in Users \ {u} :
            Busy(v) /\ ((Keyed(Now(v)) /\ ~(Concern(v) \subseteq mixed)) \/ Now(v).cmd = "addGroup") =>
                index'[Now(v).key] = index[Now(v).key],
         NextFine(u, left, g), Kept(u), Listing, Settles(u)
  PROVE  Lists'
<1>1. HeldOK /\ MakesOK /\ SetsOK /\ ListedOK
  BY DEF Lists
<1>2. HeldOK'
  <2> SUFFICES ASSUME NEW v \in Users, Busy(v)', Keyed(Now(v)'), ~(Concern(v)' \subseteq mixed)
               PROVE  index'[Now(v)'.key] = id(v)'
    BY DEF HeldOK, Keyed
  <2>1. CASE v = u
    BY <2>1, Mover DEF NextFine
  <2>2. CASE v # u
    <3>1. Busy(v) /\ Keyed(Now(v)) /\ ~(Concern(v) \subseteq mixed) /\ id(v)' = id(v) /\ Now(v)' = Now(v)
      BY <2>2, Others
    <3>2. index[Now(v).key] = id(v)
      BY <1>1, <3>1 DEF HeldOK
    <3> QED
      BY <2>2, <3>1, <3>2
  <2> QED
    BY <2>1, <2>2
<1>3. MakesOK'
  <2> SUFFICES ASSUME NEW v \in Users, Busy(v)', Now(v)'.cmd = "addGroup"
               PROVE  index'[Now(v)'.key] = NoUuid
    BY DEF MakesOK
  <2>1. CASE v = u
    BY <2>1, Mover DEF NextFine
  <2>2. CASE v # u
    <3>1. Busy(v) /\ Now(v).cmd = "addGroup" /\ Now(v)' = Now(v)
      BY <2>2, Others
    <3>2. index[Now(v).key] = NoUuid
      BY <1>1, <3>1 DEF MakesOK
    <3> QED
      BY <2>2, <3>1, <3>2
  <2> QED
    BY <2>1, <2>2
<1>4. SetsOK'
  <2> SUFFICES ASSUME NEW v \in Users, Busy(v)', Now(v)'.cmd = "UserSetGroups",
                      NEW x, x = Now(v)'.who, x \notin mixed, NEW k, k = Now(v)'.key
               PROVE  InGroup(x, k)'
    BY DEF SetsOK, InGroup, Belongs, Doomed
  <2>1. CASE v = u
    BY <2>1, Mover DEF NextFine
  <2>2. CASE v # u
    <3>1. Busy(v) /\ Now(v).cmd = "UserSetGroups" /\ x = Now(v).who /\ k = Now(v).key
      BY <2>2, Others
    <3>2. InGroup(x, k)
      BY <1>1, <3>1 DEF SetsOK
    <3>3. Known(v)
      BY <3>1, KnownHolds
    <3>4. x \in Users /\ k \in Keys
      BY <3>1, <3>3 DEF Known, FieldsOK
    <3>5. x \in Concern(v)
      <4>1. PlaceOK(v, job[v], todo[v], 1) /\ Now(v) = todo[v][1]
        BY <3>3 DEF Known, CoursesOK, CourseOK
      <4> QED
        BY <3>1, <4>1 DEF PlaceOK, OwnOK, Concern
    <3>6. Concern(v) \cap Concern(u) \subseteq mixed
      BY <2>2, <3>1 DEF ApartOK
    <3>7. x \notin Concern(u)
      BY <3>5, <3>6
    <3> QED
      BY <3>2, <3>4, <3>7 DEF Kept
  <2> QED
    BY <2>1, <2>2
<1>5. ListedOK'
  <2> SUFFICES ASSUME NEW x \in Users \ mixed, NEW k \in lists'[x],
                      ~Excused(x, k)', ~InGroup(x, k)'
               PROVE  \E v \in Users : Settling(v, x, k)'
    BY DEF ListedOK
  <2>1. k \in lists[x] /\ ~Excused(x, k) /\ x \in Users \ mixed
    BY DEF Listing
  <2>2. x \in Users \ mixed /\ k \in Keys
    BY DEF TablesOK
  <2>3. CASE InGroup(x, k)
    BY <2>2, <2>3 DEF Kept
  <2>4. CASE ~InGroup(x, k)
    <3>1. PICK v \in Users : Settling(v, x, k)
      BY <1>1, <2>1, <2>4 DEF ListedOK
    <3>2. CASE v = u
      BY <3>1, <3>2 DEF Settles
    <3>3. CASE v # u
      BY <3>1, <3>3, Others
    <3> QED
      BY <3>2, <3>3
  <2> QED
    BY <2>3, <2>4
<1> QED
  BY <1>2, <1>3, <1>4, <1>5 DEF Lists

\* The answer of most commands changes nothing of the order of the rest.
LEMMA GoesTail ==
  ASSUME NEW s, FieldsOK(s[1]), s[1].cmd \notin {"GroupExists", "removeGroupMember"}
  PROVE  GoesFound(s, Tail(s))
  BY DEF FieldsOK, GoesFound

\* No program begins to leave a list with another command.
LEMMA LeavingHead ==
  ASSUME NEW s \in Seq(Steps), NEW x, NEW k, Leaving(s, x, k)
  PROVE  s[1].cmd \in {"UserRemoveGroups", "removeGroupManager", "isManager"}
<1>1. PICK p \in 1 .. Len(s) :
         Removing(s, p, x, k) /\ \A h \in 1 .. p - 1 : s[h].cmd = "UserRemoveGroups"
  BY DEF Leaving
<1>2. Len(s) \in Nat
  BY LenProperties
<1>3. CASE p = 1
  BY <1>1, <1>3 DEF Removing, Removal
<1>4. CASE p # 1
  <2>1. 1 \in 1 .. p - 1
    BY <1>2, <1>4
  <2> QED
    BY <1>1, <2>1
<1> QED
  BY <1>3, <1>4

\* The deletion of an account goes on to its last command.
LEMMA DeletionGoesOn ==
  ASSUME NEW s \in Seq(Steps), s # << >>, NEW u, NEW j, CourseOK(u, j, s), j.op = "del_account",
         s[1].cmd # "deleteHashKey"
  PROVE  Tail(s) # << >> /\ s[1].mode = "go"
<1>1. PICK t : t = Tail(s)
  OBVIOUS
<1>2. AfterFirst(s, t)
  BY <1>1, TailAfter
<1>3. PlaceOK(u, j, s, 1)
  BY <1>2 DEF AfterFirst, CourseOK
<1>4. s[1].mode = "go"
  BY <1>3 DEF PlaceOK, OwnOK
<1>5. ASSUME t = << >>
      PROVE  FALSE
  <2>1. Len(s) = 1
    BY <1>2, <1>5 DEF AfterFirst
  <2> QED
    BY <2>1 DEF CourseOK
<1> QED
  BY <1>1, <1>4, <1>5

\* What a handler sees to it still does, unless the command has done so.
LEMMA SettlesLeft ==
  ASSUME NEW u \in Users, Busy(u), Known(u), CoursesOK, NEW left \in Seq(Steps), NEW g,
         Stepped(u, left, g), GoesFound(todo[u], left) \/ GoesMissing(todo[u], left),
         NEW x, NEW k, Settling(u, x, k)
  PROVE  \/ Settling(u, x, k)' \/ Removal(Now(u), x, k)
         \/ Now(u).cmd = "SetGroupMember" /\ Now(u).who = x /\ Now(u).key = k
         \/ Now(u).cmd = "deleteHashKey" /\ u = x
<1>1. PICK s : s = todo[u]
  OBVIOUS
<1>2. s \in Seq(Steps) /\ s # << >> /\ ProgramOK(s) /\ Now(u) = s[1] /\ CourseOK(u, job[u], s)
  BY <1>1 DEF Known, CoursesOK
<1>3. todo'[u] = left /\ (left # << >> => Busy(u)' /\ job'[u].op = job[u].op)
  BY Mover
<1>4. CASE Leaving(s, x, k)
  <2>1. Removal(s[1], x, k) \/ (left # << >> /\ Leaving(left, x, k))
    BY <1>1, <1>2, <1>4, LeavingLeft
  <2>2. left # << >> /\ Leaving(left, x, k) => Settling(u, x, k)'
    BY <1>3 DEF Settling
  <2> QED
    BY <1>2, <2>1, <2>2
<1>5. CASE Returning(s, x, k)
  <2>1. Now(u) = Head(s)
    BY <1>1 DEF Now
  <2> QED
    BY <1>5, <2>1 DEF Returning
<1>6. CASE u = x /\ job[u].op = "del_account" /\ Now(u).cmd # "deleteHashKey"
  <2>1. Tail(s) # << >> /\ s[1].mode = "go"
    BY <1>2, <1>6, DeletionGoesOn
  <2>2. left = Tail(s)
    BY <1>1, <2>1 DEF GoesFound, GoesMissing
  <2> QED
    BY <1>3, <1>6, <2>1, <2>2 DEF Settling
<1> QED
  BY <1>1, <1>4, <1>5, <1>6 DEF Settling

\* No group is to be ended that was not before.
LEMMA DoomedLeft ==
  ASSUME NEW u \in Users, Busy(u), Known(u), NEW left \in Seq(Steps), NEW g,
         Stepped(u, left, g), GoesFound(todo[u], left) \/ GoesMissing(todo[u], left), NEW k,
         Doomed(k)'
  PROVE  Doomed(k)
<1>0. PICK v \in Users : \E i \in 1 .. Len(todo'[v]) : todo'[v][i].cmd = "delGroup" /\ todo'[v][i].key = k
  BY DEF Doomed
<1>1. PICK i \in 1 .. Len(todo'[v]) : todo'[v][i].cmd = "delGroup" /\ todo'[v][i].key = k
  BY <1>0
<1>2. CASE v # u
  <2>1. todo'[v] = todo[v]
    BY <1>2, Others
  <2> QED
    BY <1>1, <2>1 DEF Doomed
<1>3. CASE v = u
  <2>1. todo'[u] = left
    BY Mover
  <2>2. \E h \in 1 .. Len(todo[u]) : todo[u][h] = left[i]
    BY <1>1, <1>3, <2>1, LeftWithin DEF Known
  <2> QED
    BY <1>1, <1>3, <2>1, <2>2 DEF Doomed
<1> QED
  BY <1>2, <1>3

\* A member is one still when the tables of the group have not changed.
LEMMA InGroupStays ==
  ASSUME NEW x, NEW k, InGroup(x, k), index'[k] = index[k],
         \A r \in Roles : << x, r >> \in members[index[k]] => << x, r >> \in members'[index[k]],
         Doomed(k)' => Doomed(k)
  PROVE  InGroup(x, k)'
<1>1. index[k] # NoUuid /\ ~Doomed(k) /\ \E r \in Roles : << x, r >> \in members[index[k]]
  BY DEF InGroup, Belongs
<1>2. \E r \in Roles : << x, r >> \in members'[index'[k]]
  BY <1>1
<1> QED
  BY <1>1, <1>2 DEF InGroup, Belongs

\* What is left relies on the group the handler has, or on what it has found.
LEMMA NextLeft ==
  ASSUME NEW u \in Users, Busy(u), Known(u), CoursesOK, Lists, NEW left \in Seq(Steps),
         NEW found \in BOOLEAN, found => GoesFound(todo[u], left), ~found => GoesMissing(todo[u], left),
         Now(u).cmd \notin {"getGroupuuid", "addGroup", "SetGroupMember"},
         Now(u).cmd = "GroupExists" => found = (index[Now(u).key] # NoUuid),
         left # << >> => index'[left[1].key] = index[left[1].key]
  PROVE  NextFine(u, left, id(u))
<1>1. PICK s : s = todo[u]
  OBVIOUS
<1>2. s \in Seq(Steps) /\ s # << >> /\ ProgramOK(s) /\ Now(u) = s[1] /\ CourseOK(u, job[u], s)
  BY <1>1 DEF Known, CoursesOK
<1>3. GoesFound(s, left) \/ GoesMissing(s, left)
  BY <1>1
<1> SUFFICES ASSUME left # << >>
             PROVE  /\ Keyed(left[1]) /\ ~(Concern(u) \subseteq mixed) => index'[left[1].key] = id(u)
                    /\ left[1].cmd = "addGroup" => index'[left[1].key] = NoUuid
                    /\ left[1].cmd # "UserSetGroups"
  BY DEF NextFine
<1>4. /\ Keyed(left[1]) =>
               /\ s[1].key = left[1].key
               /\ s[1].cmd \in {"getGroupuuid", "addGroup"} \/ Keyed(s[1])
      /\ left[1].cmd = "addGroup" =>
               /\ s[1].cmd = "GroupExists" /\ s[1].mode = "unless" /\ s[1].key = left[1].key
               /\ ~GoesFound(s, left)
      /\ left[1].cmd = "UserSetGroups" =>
               s[1].cmd = "SetGroupMember" /\ s[1].who = left[1].who /\ s[1].key = left[1].key
  BY <1>2, <1>3, LinkLeft
<1>5. Keyed(s[1]) /\ ~(Concern(u) \subseteq mixed) => index[s[1].key] = id(u)
  BY <1>2 DEF Lists, HeldOK
<1>6. Keyed(left[1]) /\ ~(Concern(u) \subseteq mixed) => index'[left[1].key] = id(u)
  BY <1>2, <1>4, <1>5
<1>7. left[1].cmd = "addGroup" => index'[left[1].key] = NoUuid
  BY <1>1, <1>2, <1>4
<1> QED
  BY <1>2, <1>4, <1>6, <1>7

\* A command has answered: the courses go on.
LEMMA ReturnedCourse ==
  ASSUME Inv, ListInv, NEW u \in Users, Busy(u), NEW found \in BOOLEAN, Return(u, found),
         Now(u).cmd \notin {"getGroupuuid", "addGroup"}, mixed' = mixed
  PROVE  /\ Known(u) /\ CoursesOK' /\ ApartOK'
         /\ \E left \in Seq(Steps) :
               /\ Stepped(u, left, id(u))
               /\ found => GoesFound(todo[u], left)
               /\ ~found => GoesMissing(todo[u], left)
<1>1. Shared /\ Known(u)
  BY InvParts, KnownHolds
<1>2. PICK left : /\ GoOn(u, left, id(u))
                  /\ found => GoesFound(todo[u], left)
                  /\ ~found => GoesMissing(todo[u], left)
  BY <1>1, ReturnGoes
<1>3. GoesFound(todo[u], left) \/ GoesMissing(todo[u], left)
  BY <1>2
<1>4. Programmed /\ Moved(u, left, id(u))
  BY <1>1, <1>2, <1>3, Returned
<1>5. todo'[u] = left /\ left \in Seq(Steps)
  BY <1>4 DEF Moved, Programmed
<1>6. Stepped(u, left, id(u))
  BY <1>1, <1>2, <1>4, SteppedOn
<1>7. CoursesOK /\ ApartOK
  BY DEF ListInv
<1>8. CourseOK(u, job[u], left)
  <2>1. PICK s : s = todo[u]
    OBVIOUS
  <2>2. s \in Seq(Steps) /\ s # << >> /\ ProgramOK(s) /\ CourseOK(u, job[u], s)
    BY <1>1, <1>7, <2>1 DEF Known, CoursesOK
  <2> QED
    BY <1>3, <2>1, <2>2, CourseLeft
<1>9. CoursesOK' /\ ApartOK'
  BY <1>5, <1>6, <1>7, <1>8, CoursesStep
<1> QED
  BY <1>1, <1>2, <1>5, <1>6, <1>9

\* What the lists keep, they keep also when the step is one of these.
LEMMA Relisted ==
  ASSUME ListInv, CoursesOK', ApartOK', ~garbage' => ~garbage, ~garbage /\ ~garbage' => Lists'
  PROVE  ListInv'
  BY DEF ListInv, Lists

Quietly == {"GroupExists", "userFieldHexists", "isManager", "choose", "setGroupNotify",
            "delGroupNotify", "SetGroupManager", "removeGroupManager", "delGroupManager"}

\* A command that touches neither members nor lists.
LEMMA QuietLists ==
  ASSUME Inv, Inv', ListInv, NEW u \in Users, Busy(u), NEW found \in BOOLEAN, Return(u, found),
         Now(u).cmd \in Quietly, Now(u).cmd = "GroupExists" => found = (index[Now(u).key] # NoUuid),
         index' = index, members' = members, lists' = lists, kicked' = kicked, account' = account,
         mixed' = mixed, garbage' = garbage
  PROVE  ListInv'
<1>1. Now(u).cmd \notin {"getGroupuuid", "addGroup", "SetGroupMember", "UserRemoveGroups", "deleteHashKey"}
  BY DEF Quietly
<1>2. Known(u) /\ CoursesOK' /\ ApartOK'
  BY <1>1, ReturnedCourse
<1>3. PICK left \in Seq(Steps) : /\ Stepped(u, left, id(u))
                                 /\ found => GoesFound(todo[u], left)
                                 /\ ~found => GoesMissing(todo[u], left)
  BY <1>1, ReturnedCourse
<1>4. GoesFound(todo[u], left) \/ GoesMissing(todo[u], left)
  BY <1>3
<1>5. ASSUME ~garbage
      PROVE  Lists'
  <2>1. Shared /\ Shared' /\ TablesOK' /\ CoursesOK /\ ApartOK /\ Lists
    <3>1. Shared /\ TablesOK' /\ ProgramsOK'
      BY InvParts DEF Inv
    <3>2. Shared'
      BY <3>1 DEF Shared, TablesOK
    <3> QED
      BY <1>5, <3>1, <3>2 DEF ListInv, Lists
  <2>2. NextFine(u, left, id(u))
    BY <1>1, <1>2, <1>3, <2>1, NextLeft
  <2>3. Kept(u)
    <3> SUFFICES ASSUME NEW x \in Users \ mixed, NEW k \in Keys, InGroup(x, k)
                 PROVE  InGroup(x, k)'
      BY DEF Kept
    <3>1. Doomed(k)' => Doomed(k)
      BY <1>2, <1>3, <1>4, DoomedLeft
    <3> QED
      BY <3>1, InGroupStays
  <2>4. Listing
    BY DEF Listing, Excused
  <2>5. Settles(u)
    <3> SUFFICES ASSUME NEW x \in Users \ mixed, NEW k \in lists'[x], Settling(u, x, k)
                 PROVE  Settling(u, x, k)'
      BY DEF Settles
    <3>1. ~Removal(Now(u), x, k)
      BY <1>1 DEF Removal
    <3> QED
      BY <1>1, <1>2, <1>3, <1>4, <2>1, <3>1, SettlesLeft
  <2> QED
    BY <1>3, <2>1, <2>2, <2>3, <2>4, <2>5, ListsStep
<1> QED
  BY <1>2, <1>5, Relisted

-----------------------------------------------------------------------------
(* The commands, and the lists.                                            *)

\* Commands that touch neither members nor lists.
LEMMA QuietCommands ==
  ASSUME Inv, Inv', ListInv, NEW u \in Users,
         \/ GroupExists(u) \/ userFieldHexists(u) \/ isManager(u) \/ choose(u)
         \/ setGroupNotify(u) \/ delGroupNotify(u)
         \/ SetGroupManager(u) \/ removeGroupManager(u) \/ delGroupManager(u)
  PROVE  ListInv'
<1>1. CASE GroupExists(u)
  <2>1. Busy(u) /\ Now(u).cmd = "GroupExists"
    BY <1>1 DEF GroupExists, Doing
  <2>2. PICK found \in BOOLEAN : found = (index[Now(u).key] # NoUuid)
    OBVIOUS
  <2>3. Return(u, found)
    BY <1>1, <2>2 DEF GroupExists
  <2>4. UNCHANGED << index, members, lists, kicked, account, mixed, garbage >>
    BY <1>1 DEF GroupExists, redisVars
  <2> QED
    BY <2>1, <2>2, <2>3, <2>4, QuietLists DEF Quietly
<1>2. CASE userFieldHexists(u)
  <2>1. Busy(u) /\ Now(u).cmd = "userFieldHexists"
    BY <1>2 DEF userFieldHexists, Doing
  <2>2. PICK found \in BOOLEAN : Return(u, found)
    <3>1. (Now(u).who \in account) \in BOOLEAN
      OBVIOUS
    <3> QED
      BY <1>2, <3>1 DEF userFieldHexists
  <2>3. UNCHANGED << index, members, lists, kicked, account, mixed, garbage >>
    BY <1>2 DEF userFieldHexists, redisVars
  <2> QED
    BY <2>1, <2>2, <2>3, QuietLists DEF Quietly
<1>3. CASE isManager(u)
  <2>1. Busy(u) /\ Now(u).cmd = "isManager"
    BY <1>3 DEF isManager, Doing
  <2>2. PICK found \in BOOLEAN : Return(u, found)
    <3>1. (managers[id(u)][Now(u).who] # NoRole) \in BOOLEAN
      OBVIOUS
    <3> QED
      BY <1>3, <3>1 DEF isManager
  <2>3. UNCHANGED << index, members, lists, kicked, account, mixed, garbage >>
    BY <1>3 DEF isManager, redisVars
  <2> QED
    BY <2>1, <2>2, <2>3, QuietLists DEF Quietly
<1>4. CASE choose(u)
  <2>1. Busy(u) /\ Now(u).cmd = "choose" /\ Return(u, TRUE)
    BY <1>4 DEF choose, Doing
  <2>2. UNCHANGED << index, members, lists, kicked, account, mixed, garbage >>
    BY <1>4 DEF choose, redisVars
  <2> QED
    BY <2>1, <2>2, QuietLists DEF Quietly
<1>5. CASE setGroupNotify(u)
  <2>1. Busy(u) /\ Now(u).cmd = "setGroupNotify" /\ Return(u, TRUE)
    BY <1>5 DEF setGroupNotify, Doing
  <2>2. UNCHANGED << index, members, lists, kicked, account, mixed, garbage >>
    BY <1>5 DEF setGroupNotify
  <2> QED
    BY <2>1, <2>2, QuietLists DEF Quietly
<1>6. CASE delGroupNotify(u)
  <2>1. Busy(u) /\ Now(u).cmd = "delGroupNotify" /\ Return(u, TRUE)
    BY <1>6 DEF delGroupNotify, Doing
  <2>2. UNCHANGED << index, members, lists, kicked, account, mixed, garbage >>
    BY <1>6 DEF delGroupNotify
  <2> QED
    BY <2>1, <2>2, QuietLists DEF Quietly
<1>7. CASE SetGroupManager(u)
  <2>1. Busy(u) /\ Now(u).cmd = "SetGroupManager"
    BY <1>7 DEF SetGroupManager, Doing
  <2>2. PICK found \in BOOLEAN : Return(u, found)
    <3>1. (managers[id(u)][Now(u).who] = NoRole) \in BOOLEAN
      OBVIOUS
    <3> QED
      BY <1>7, <3>1 DEF SetGroupManager
  <2>3. UNCHANGED << index, members, lists, kicked, account, mixed, garbage >>
    BY <1>7 DEF SetGroupManager
  <2> QED
    BY <2>1, <2>2, <2>3, QuietLists DEF Quietly
<1>8. CASE removeGroupManager(u)
  <2>1. Busy(u) /\ Now(u).cmd = "removeGroupManager"
    BY <1>8 DEF removeGroupManager, Doing
  <2>2. PICK found \in BOOLEAN : Return(u, found)
    <3>1. (managers[id(u)][Now(u).who] # NoRole) \in BOOLEAN
      OBVIOUS
    <3> QED
      BY <1>8, <3>1 DEF removeGroupManager
  <2>3. UNCHANGED << index, members, lists, kicked, account, mixed, garbage >>
    BY <1>8 DEF removeGroupManager
  <2> QED
    BY <2>1, <2>2, <2>3, QuietLists DEF Quietly
<1>9. CASE delGroupManager(u)
  <2>1. Busy(u) /\ Now(u).cmd = "delGroupManager" /\ Return(u, TRUE)
    BY <1>9 DEF delGroupManager, Doing
  <2>2. UNCHANGED << index, members, lists, kicked, account, mixed, garbage >>
    BY <1>9 DEF delGroupManager
  <2> QED
    BY <2>1, <2>2, QuietLists DEF Quietly
<1> QED
  BY <1>1, <1>2, <1>3, <1>4, <1>5, <1>6, <1>7, <1>8, <1>9

\* What a step of a handler relies on.
LEMMA ListParts ==
  ASSUME Inv, Inv', ListInv, ~garbage
  PROVE  Shared /\ Shared' /\ TablesOK /\ TablesOK' /\ CoursesOK /\ ApartOK /\ Lists
         /\ KeysOK
<1>1. Shared /\ TablesOK /\ TablesOK' /\ ProgramsOK'
  BY InvParts DEF Inv
<1>2. Shared'
  BY <1>1 DEF Shared, TablesOK
<1> QED
  BY <1>1, <1>2 DEF ListInv, Lists, Inv

\* What the list of an account names when it goes is known to stay there.
LEMMA DeleteHashKeyLists ==
  ASSUME Inv, Inv', ListInv, NEW u \in Users, deleteHashKey(u)
  PROVE  ListInv'
<1>0. /\ Busy(u) /\ Now(u).cmd = "deleteHashKey" /\ Return(u, TRUE) /\ account' = account \ {u}
      /\ kicked' = kicked \cup {<< u, k, "account" >> : k \in lists[u]}
      /\ UNCHANGED << index, members, lists, mixed, garbage >>
  BY DEF deleteHashKey, Doing
<1>2. Known(u) /\ CoursesOK' /\ ApartOK'
  BY <1>0, ReturnedCourse
<1>3. PICK left \in Seq(Steps) : Stepped(u, left, id(u)) /\ GoesFound(todo[u], left)
  BY <1>0, ReturnedCourse
<1>5. ASSUME ~garbage
      PROVE  Lists'
  <2>1. Shared /\ Shared' /\ TablesOK' /\ CoursesOK /\ ApartOK /\ Lists
    BY <1>5, ListParts
  <2>2. NextFine(u, left, id(u))
    BY <1>0, <1>2, <1>3, <2>1, NextLeft
  <2>3. Kept(u)
    <3> SUFFICES ASSUME NEW x \in Users \ mixed, NEW k \in Keys, InGroup(x, k)
                 PROVE  InGroup(x, k)'
      BY DEF Kept
    <3>1. Doomed(k)' => Doomed(k)
      BY <1>0, <1>2, <1>3, DoomedLeft
    <3> QED
      BY <1>0, <3>1, InGroupStays
  <2>4. Listing
    BY <1>0 DEF Listing, Excused
  <2>5. Settles(u)
    <3> SUFFICES ASSUME NEW x \in Users \ mixed, NEW k \in lists'[x], Settling(u, x, k)
                 PROVE  Settling(u, x, k)' \/ Excused(x, k)'
      BY DEF Settles
    <3>1. ~Removal(Now(u), x, k)
      BY <1>0 DEF Removal
    <3>2. x = u => Excused(x, k)'
      BY <1>0 DEF Excused
    <3>3. x # u => Settling(u, x, k)'
      BY <1>0, <1>2, <1>3, <2>1, <3>1, SettlesLeft
    <3> QED
      BY <3>2, <3>3
  <2> QED
    BY <1>0, <1>3, <2>1, <2>2, <2>3, <2>4, <2>5, ListsStep
<1> QED
  BY <1>0, <1>2, <1>5, Relisted

\* An entry of a list goes.
LEMMA UserRemoveGroupsLists ==
  ASSUME Inv, Inv', ListInv, NEW u \in Users, UserRemoveGroups(u)
  PROVE  ListInv'
<1>0. /\ Busy(u) /\ Now(u).cmd = "UserRemoveGroups" /\ Return(u, TRUE)
      /\ lists' = [lists EXCEPT ![Now(u).who] = lists[Now(u).who] \ {Now(u).key}]
      /\ UNCHANGED << index, members, account, kicked, mixed, garbage >>
  BY DEF UserRemoveGroups, Doing
<1>2. Known(u) /\ CoursesOK' /\ ApartOK'
  BY <1>0, ReturnedCourse
<1>3. PICK left \in Seq(Steps) : Stepped(u, left, id(u)) /\ GoesFound(todo[u], left)
  BY <1>0, ReturnedCourse
<1>5. ASSUME ~garbage
      PROVE  Lists'
  <2>1. Shared /\ Shared' /\ TablesOK /\ TablesOK' /\ CoursesOK /\ ApartOK /\ Lists
    BY <1>5, ListParts
  <2>6. ASSUME NEW x \in Users, NEW k \in lists'[x]
        PROVE  k \in lists[x] /\ ~Removal(Now(u), x, k)
    BY <1>0, <2>1 DEF TablesOK, Removal
  <2>7. account \subseteq Users
    BY <2>1 DEF TablesOK
  <2>2. NextFine(u, left, id(u))
    BY <1>0, <1>2, <1>3, <2>1, NextLeft
  <2>3. Kept(u)
    <3> SUFFICES ASSUME NEW x \in Users \ mixed, NEW k \in Keys, InGroup(x, k)
                 PROVE  InGroup(x, k)'
      BY DEF Kept
    <3>1. Doomed(k)' => Doomed(k)
      BY <1>0, <1>2, <1>3, DoomedLeft
    <3> QED
      BY <1>0, <3>1, InGroupStays
  <2>4. Listing
    BY <1>0, <2>6, <2>7 DEF Listing, Excused
  <2>5. Settles(u)
    <3> SUFFICES ASSUME NEW x \in Users \ mixed, NEW k \in lists'[x], Settling(u, x, k)
                 PROVE  Settling(u, x, k)'
      BY DEF Settles
    <3>1. ~Removal(Now(u), x, k)
      BY <1>0, <2>6, <2>7
    <3> QED
      BY <1>0, <1>2, <1>3, <2>1, <3>1, SettlesLeft
  <2> QED
    BY <1>0, <1>3, <2>1, <2>2, <2>3, <2>4, <2>5, ListsStep
<1> QED
  BY <1>0, <1>2, <1>5, Relisted

\* An entry of a list is made for a member of the group.
LEMMA UserSetGroupsLists ==
  ASSUME Inv, Inv', ListInv, NEW u \in Users, UserSetGroups(u)
  PROVE  ListInv'
<1>0. /\ Busy(u) /\ Now(u).cmd = "UserSetGroups" /\ Return(u, TRUE)
      /\ lists' = [lists EXCEPT ![Now(u).who] = lists[Now(u).who] \cup {Now(u).key}]
      /\ kicked' = {out \in kicked : ~(out[1] = Now(u).who /\ out[2] = Now(u).key)}
      /\ UNCHANGED << index, members, account, mixed, garbage >>
  BY DEF UserSetGroups, Doing
<1>2. Known(u) /\ CoursesOK' /\ ApartOK'
  BY <1>0, ReturnedCourse
<1>3. PICK left \in Seq(Steps) : Stepped(u, left, id(u)) /\ GoesFound(todo[u], left)
  BY <1>0, ReturnedCourse
<1>5. ASSUME ~garbage
      PROVE  Lists'
  <2>1. Shared /\ Shared' /\ TablesOK /\ TablesOK' /\ CoursesOK /\ ApartOK /\ Lists
    BY <1>5, ListParts
  <2>7. account \subseteq Users
    BY <2>1 DEF TablesOK
  <2>8. ASSUME NEW x, NEW k, InGroup(x, k)
        PROVE  InGroup(x, k)'
    <3>1. Doomed(k)' => Doomed(k)
      BY <1>0, <1>2, <1>3, DoomedLeft
    <3> QED
      BY <1>0, <2>8, <3>1, InGroupStays
  <2>2. NextFine(u, left, id(u))
    BY <1>0, <1>2, <1>3, <2>1, NextLeft
  <2>3. Kept(u)
    BY <2>8 DEF Kept
  <2>4. Listing
    <3> SUFFICES ASSUME NEW x \in Users \ mixed, NEW k \in lists'[x],
                        ~Excused(x, k)'
                 PROVE  InGroup(x, k)' \/ (k \in lists[x] /\ ~Excused(x, k))
      BY DEF Listing
    <3>1. CASE x = Now(u).who /\ k = Now(u).key
      <4>1. InGroup(x, k)
        BY <1>0, <2>1, <3>1 DEF Lists, SetsOK
      <4> QED
        BY <2>8, <4>1
    <3>2. CASE ~(x = Now(u).who /\ k = Now(u).key)
      <4>1. k \in lists[x]
        BY <1>0, <2>1, <2>7, <3>2 DEF TablesOK
      <4>2. ~Excused(x, k)
        BY <1>0, <3>2 DEF Excused
      <4> QED
        BY <4>1, <4>2
    <3> QED
      BY <3>1, <3>2
  <2>5. Settles(u)
    <3> SUFFICES ASSUME NEW x \in Users \ mixed, NEW k \in lists'[x], Settling(u, x, k)
                 PROVE  Settling(u, x, k)'
      BY DEF Settles
    <3>1. ~Removal(Now(u), x, k)
      BY <1>0 DEF Removal
    <3> QED
      BY <1>0, <1>2, <1>3, <2>1, <3>1, SettlesLeft
  <2> QED
    BY <1>0, <1>3, <2>1, <2>2, <2>3, <2>4, <2>5, ListsStep
<1> QED
  BY <1>0, <1>2, <1>5, Relisted

\* Only who disbands a group, or deletes an account, ends a group.
LEMMA DoomedBy ==
  ASSUME CoursesOK, NEW k, Doomed(k)
  PROVE  \E v \in Users : Busy(v) /\ Concern(v) = Users
                          /\ job[v].op \in {"disband_group", "del_account"}
<1>1. PICK v \in Users : \E i \in 1 .. Len(todo[v]) : todo[v][i].cmd = "delGroup"
  BY DEF Doomed
<1>2. PICK i \in 1 .. Len(todo[v]) : todo[v][i].cmd = "delGroup"
  BY <1>1
<1>3. job[v].op \in {"disband_group", "del_account"}
  BY <1>2 DEF CoursesOK, CourseOK, PlaceOK, OwnOK
<1>4. Busy(v)
  <2>1. todo[v] = << >> => 1 .. Len(todo[v]) = {}
    OBVIOUS
  <2> QED
    BY <1>1, <2>1 DEF Busy
<1> QED
  BY <1>3, <1>4 DEF Concern, Concerned

\* Who is put among the members is in a group that is there to stay.
LEMMA SetGroupMemberLists ==
  ASSUME Inv, Inv', ListInv, NEW u \in Users, SetGroupMember(u)
  PROVE  ListInv'
<1>0. /\ Busy(u) /\ Now(u).cmd = "SetGroupMember"
      /\ members' = [members EXCEPT ![id(u)] = members[id(u)] \cup {<< Now(u).who, Now(u).role >>}]
      /\ UNCHANGED << index, lists, account, kicked, mixed, garbage >>
  BY DEF SetGroupMember, Doing
<1>1. PICK found \in BOOLEAN : Return(u, found)
  <2>1. (<< Now(u).who, Now(u).role >> \notin members[id(u)]) \in BOOLEAN
    OBVIOUS
  <2> QED
    BY <2>1 DEF SetGroupMember
<1>2. Known(u) /\ CoursesOK' /\ ApartOK'
  BY <1>0, <1>1, ReturnedCourse
<1>3. PICK left \in Seq(Steps) : /\ Stepped(u, left, id(u))
                                 /\ found => GoesFound(todo[u], left)
                                 /\ ~found => GoesMissing(todo[u], left)
  BY <1>0, <1>1, ReturnedCourse
<1>4. GoesFound(todo[u], left) \/ GoesMissing(todo[u], left)
  BY <1>3
<1>5. ASSUME ~garbage
      PROVE  Lists'
  <2>1. Shared /\ Shared' /\ TablesOK /\ TablesOK' /\ CoursesOK /\ ApartOK /\ Lists
    BY <1>5, ListParts
  <2>6. /\ id(u) \in Uuids /\ Now(u).who \in Users /\ Now(u).role \in Roles
    BY <1>0, <1>2 DEF Known, FieldsOK, NoId
  <2>7. /\ \A h \in Uuids, y \in Users, r \in Roles : << y, r >> \in members[h] => << y, r >> \in members'[h]
        /\ << Now(u).who, Now(u).role >> \in members'[id(u)]
    BY <1>0, <2>1, <2>6 DEF TablesOK
  <2>8. ASSUME NEW k
        PROVE  Doomed(k)' => Doomed(k)
    BY <1>0, <1>2, <1>3, <1>4, DoomedLeft
  <2>9. PICK s : s = todo[u]
    OBVIOUS
  <2>10. s \in Seq(Steps) /\ s # << >> /\ ProgramOK(s) /\ Now(u) = s[1] /\ CourseOK(u, job[u], s)
         /\ PlaceOK(u, job[u], s, 1)
    BY <1>2, <2>1, <2>9 DEF Known, CoursesOK, CourseOK
  <2>11. Now(u).who \in Concern(u) /\ job[u].op \notin {"disband_group", "del_account"}
    BY <1>0, <2>10 DEF PlaceOK, OwnOK, Concern
  <2>12. ASSUME NEW x, NEW k, x = Now(u).who, k = Now(u).key, x \notin mixed
         PROVE  InGroup(x, k)'
    <3>1. index[k] = id(u)
      BY <1>0, <2>1, <2>11, <2>12 DEF Lists, HeldOK, Keyed
    <3>2. ~Doomed(k)
      <4> SUFFICES ASSUME Doomed(k)
                   PROVE  FALSE
        OBVIOUS
      <4>1. PICK v \in Users : Busy(v) /\ Concern(v) = Users /\ job[v].op \in {"disband_group", "del_account"}
        BY <2>1, DoomedBy
      <4>2. v # u
        BY <2>11, <4>1
      <4>3. Concern(v) \cap Concern(u) \subseteq mixed
        BY <1>0, <2>1, <4>1, <4>2 DEF ApartOK
      <4> QED
        BY <2>6, <2>11, <2>12, <4>1, <4>3
    <3>3. ~Doomed(k)'
      BY <2>8, <3>2
    <3>4. index'[k] = id(u) /\ id(u) # NoUuid
      BY <1>0, <2>6, <3>1, GroupsConstants
    <3>5. \E r \in Roles : << x, r >> \in members'[index'[k]]
      BY <2>6, <2>7, <2>12, <3>4
    <3> QED
      BY <3>3, <3>4, <3>5 DEF InGroup, Belongs
  <2>2. NextFine(u, left, id(u))
    <3> SUFFICES ASSUME left # << >>
                 PROVE  /\ Keyed(left[1]) /\ ~(Concern(u) \subseteq mixed) => index'[left[1].key] = id(u)
                        /\ left[1].cmd # "addGroup"
                        /\ left[1].cmd = "UserSetGroups" /\ left[1].who \notin mixed =>
                              InGroup(left[1].who, left[1].key)'
      BY DEF NextFine
    <3>1. /\ Keyed(left[1]) => s[1].key = left[1].key
          /\ left[1].cmd # "addGroup"
          /\ left[1].cmd = "UserSetGroups" => s[1].who = left[1].who /\ s[1].key = left[1].key
      BY <1>0, <1>4, <2>9, <2>10, LinkLeft
    <3>2. ~(Concern(u) \subseteq mixed) => index[Now(u).key] = id(u)
      BY <1>0, <2>1 DEF Lists, HeldOK, Keyed
    <3>3. ASSUME left[1].cmd = "UserSetGroups", left[1].who \notin mixed
          PROVE  InGroup(left[1].who, left[1].key)'
      <4>1. left[1].who = Now(u).who /\ left[1].key = Now(u).key
        BY <2>10, <3>1, <3>3
      <4> QED
        BY <2>12, <3>3, <4>1
    <3> QED
      BY <1>0, <2>10, <3>1, <3>2, <3>3
  <2>3. Kept(u)
    <3> SUFFICES ASSUME NEW x \in Users \ mixed, NEW k \in Keys, InGroup(x, k)
                 PROVE  InGroup(x, k)'
      BY DEF Kept
    <3>1. index[k] \in Uuids
      BY <2>1 DEF TablesOK, InGroup
    <3> QED
      BY <1>0, <2>7, <2>8, <3>1, InGroupStays
  <2>4. Listing
    BY <1>0 DEF Listing, Excused
  <2>5. Settles(u)
    <3> SUFFICES ASSUME NEW x \in Users \ mixed, NEW k \in lists'[x], Settling(u, x, k)
                 PROVE  Settling(u, x, k)' \/ InGroup(x, k)'
      BY DEF Settles
    <3>1. ~Removal(Now(u), x, k)
      BY <1>0 DEF Removal
    <3>2. Settling(u, x, k)' \/ (Now(u).who = x /\ Now(u).key = k)
      BY <1>0, <1>2, <1>3, <1>4, <2>1, <3>1, SettlesLeft
    <3>3. Now(u).who = x /\ Now(u).key = k => InGroup(x, k)'
      BY <2>12
    <3> QED
      BY <3>2, <3>3
  <2> QED
    BY <1>0, <1>3, <2>1, <2>2, <2>3, <2>4, <2>5, ListsStep
<1> QED
  BY <1>0, <1>2, <1>5, Relisted

\* A program that begins by leaving a list leaves it.
LEMMA LeavingNow ==
  ASSUME NEW s \in Seq(Steps), NEW x, NEW k, Removing(s, 1, x, k)
  PROVE  s # << >> /\ Leaving(s, x, k)
<1>1. Len(s) \in Nat /\ 1 <= Len(s)
  BY LenProperties DEF Removing
<1>2. 1 \in 1 .. Len(s) /\ 1 .. 1 - 1 = {} /\ s # << >>
  BY <1>1
<1> QED
  BY <1>2 DEF Leaving

\* Who ceases to be a member is seen to by what is left.
LEMMA OutLeft ==
  ASSUME NEW s \in Seq(Steps), s # << >>, ProgramOK(s), s[1].cmd = "removeGroupMember",
         NEW left, GoesFound(s, left), NEW x, NEW k,
         \/ s[1].mode = "go" /\ 1 < Len(s) /\ s[2].cmd = "SetGroupMember" /\ s[2].who = x /\ s[2].key = k
         \/ s[1].mode = "needs" /\ Removing(s, 2, x, k)
         \/ s[1].mode = "or" /\ Removing(s, 3, x, k)
  PROVE  left # << >> /\ (Leaving(left, x, k) \/ Returning(left, x, k))
<1>1. PICK t : t = Tail(s)
  OBVIOUS
<1>2. AfterFirst(s, t) /\ Shift(s, t, 1)
  BY <1>1, TailAfter, TailShift
<1>3. /\ Len(s) \in Nat \ {0} /\ Len(t) \in Nat /\ Len(s) = Len(t) + 1 /\ t \in Seq(Steps)
  BY <1>2 DEF AfterFirst
<1>4. CASE s[1].mode = "go" /\ 1 < Len(s) /\ s[2].cmd = "SetGroupMember" /\ s[2].who = x /\ s[2].key = k
  <2>1. left = t
    BY <1>1, <1>4 DEF GoesFound
  <2>2. t # << >>
    <3>1. Len(t) # 0
      BY <1>3, <1>4
    <3> QED
      BY <3>1
  <2>3. Head(t) = t[1] /\ t[1] = s[2]
    BY <1>2, <2>2 DEF AfterFirst
  <2> QED
    BY <1>4, <2>1, <2>2, <2>3 DEF Returning
<1>5. CASE s[1].mode = "needs" /\ Removing(s, 2, x, k)
  <2>1. left = t
    BY <1>1, <1>5 DEF GoesFound
  <2>2. 1 \in Nat \ {0} /\ 1 + 1 = 2
    OBVIOUS
  <2>3. Removing(t, 1, x, k)
    BY <1>2, <1>5, <2>2, RemovingShift
  <2> QED
    BY <1>3, <2>1, <2>3, LeavingNow
<1>6. CASE s[1].mode = "or" /\ Removing(s, 3, x, k)
  <2>1. left = Tail(t)
    BY <1>1, <1>6 DEF GoesFound
  <2>2. 1 \in Nat \ {0} /\ 2 \in Nat \ {0} /\ 1 + 1 = 2 /\ 2 + 1 = 3
    OBVIOUS
  <2>3. Removing(t, 2, x, k)
    BY <1>2, <1>6, <2>2, RemovingShift
  <2>4. t # << >>
    <3>1. \/ 2 <= Len(t) \/ 2 + 1 <= Len(t) \/ 2 + 2 <= Len(t)
      BY <2>3 DEF Removing
    <3>2. Len(t) # 0
      BY <1>3, <3>1
    <3> QED
      BY <3>2
  <2>5. PICK r : r = Tail(t)
    OBVIOUS
  <2>6. Shift(t, r, 1) /\ r \in Seq(Steps)
    BY <1>3, <2>4, <2>5, TailShift
  <2>7. Removing(r, 1, x, k) <=> Removing(t, 1 + 1, x, k)
    BY <2>2, <2>6, RemovingShift
  <2>8. Removing(r, 1, x, k)
    BY <2>2, <2>3, <2>7
  <2> QED
    BY <2>1, <2>5, <2>6, <2>8, LeavingNow
<1> QED
  BY <1>4, <1>5, <1>6

\* Who ceases to be a member comes back, is taken off the list, or was kicked.
LEMMA RemoveGroupMemberLists ==
  ASSUME Inv, Inv', ListInv, NEW u \in Users, removeGroupMember(u)
  PROVE  ListInv'
<1>0. /\ Busy(u) /\ Now(u).cmd = "removeGroupMember"
      /\ members' = [members EXCEPT ![id(u)] = members[id(u)] \ {<< Now(u).who, Now(u).role >>}]
      /\ UNCHANGED << index, lists, account, mixed, garbage >>
  BY DEF removeGroupMember, Doing
<1>1. PICK found \in BOOLEAN : /\ Return(u, found)
                               /\ found = (<< Now(u).who, Now(u).role >> \in members[id(u)])
  <2>1. (<< Now(u).who, Now(u).role >> \in members[id(u)]) \in BOOLEAN
    OBVIOUS
  <2> QED
    BY <2>1 DEF removeGroupMember
<1>2. Known(u) /\ CoursesOK' /\ ApartOK'
  BY <1>0, <1>1, ReturnedCourse
<1>3. PICK left \in Seq(Steps) : /\ Stepped(u, left, id(u))
                                 /\ found => GoesFound(todo[u], left)
                                 /\ ~found => GoesMissing(todo[u], left)
  BY <1>0, <1>1, ReturnedCourse
<1>4. GoesFound(todo[u], left) \/ GoesMissing(todo[u], left)
  BY <1>3
<1>6. /\ kicked \subseteq kicked'
      /\ found /\ job[u].op = "del_member_manager" => << Now(u).who, job[u].key, "manager" >> \in kicked'
  BY <1>1 DEF removeGroupMember, del_member_as
<1>5. ASSUME ~garbage
      PROVE  Lists'
  <2>1. Shared /\ Shared' /\ TablesOK /\ TablesOK' /\ CoursesOK /\ ApartOK /\ Lists /\ KeysOK
    BY <1>5, ListParts
  <2>6. id(u) \in Uuids
    BY <1>0, <1>2 DEF Known, NoId
  <2>7. \A h \in Uuids, y \in Users, r \in Roles :
           ~(h = id(u) /\ y = Now(u).who /\ found) =>
              (<< y, r >> \in members[h] => << y, r >> \in members'[h])
    BY <1>0, <1>1, <2>1, <2>6 DEF TablesOK
  <2>8. ASSUME NEW k
        PROVE  Doomed(k)' => Doomed(k)
    BY <1>0, <1>2, <1>3, <1>4, DoomedLeft
  <2>9. PICK s : s = todo[u]
    OBVIOUS
  <2>10. s \in Seq(Steps) /\ s # << >> /\ ProgramOK(s) /\ Now(u) = s[1] /\ CourseOK(u, job[u], s)
         /\ PlaceOK(u, job[u], s, 1)
    BY <1>2, <2>1, <2>9 DEF Known, CoursesOK, CourseOK
  <2>11. /\ Now(u).who \in Concern(u) /\ OutOK(job[u], s, 1)
         /\ job[u].op = "del_account" => Now(u).who = u
         /\ Now(u).key \in Keys
    BY <1>0, <2>10 DEF PlaceOK, OwnOK, Concern, Keyed
  <2>2. NextFine(u, left, id(u))
    BY <1>0, <1>2, <1>3, <2>1, NextLeft
  <2>12. ASSUME NEW x \in Users \ mixed, NEW k \in Keys, InGroup(x, k), index[k] = id(u),
                x = Now(u).who, found
         PROVE  Settling(u, x, k)' \/ Excused(x, k)'
    <3>1. index[Now(u).key] = id(u) /\ Now(u).key = k
      <4>1. index[Now(u).key] = id(u)
        BY <1>0, <2>1, <2>11, <2>12 DEF Lists, HeldOK, Keyed
      <4> QED
        BY <2>1, <2>6, <2>11, <2>12, <4>1, GroupsConstants DEF KeysOK
    <3>2. s[1].who = x /\ s[1].key = k /\ s[1].cmd = "removeGroupMember"
      BY <1>0, <2>10, <2>12, <3>1
    <3>3. todo'[u] = left /\ (left # << >> => Busy(u)' /\ job'[u].op = job[u].op)
      BY <1>3, Mover
    <3>4. CASE job[u].op = "del_account"
      <4>1. Tail(s) # << >> /\ s[1].mode = "go"
        BY <2>10, <3>2, <3>4, DeletionGoesOn
      <4>2. left = Tail(s)
        BY <1>3, <2>9, <2>12, <4>1 DEF GoesFound
      <4> QED
        BY <2>11, <2>12, <3>3, <3>4, <4>1, <4>2 DEF Settling
    <3>5. CASE job[u].op = "del_member_manager" /\ s[1].key = job[u].key
      BY <1>6, <2>12, <3>2, <3>5 DEF Excused
    <3>6. CASE \/ s[1].mode = "go" /\ 1 < Len(s) /\ s[2].cmd = "SetGroupMember" /\ s[2].who = x /\ s[2].key = k
               \/ s[1].mode = "needs" /\ Removing(s, 2, x, k)
               \/ s[1].mode = "or" /\ Removing(s, 3, x, k)
      <4>1. left # << >> /\ (Leaving(left, x, k) \/ Returning(left, x, k))
        BY <1>3, <2>9, <2>10, <2>12, <3>2, <3>6, OutLeft
      <4> QED
        BY <3>3, <4>1 DEF Settling
    <3> QED
      <4>1. 1 + 1 = 2 /\ 1 + 2 = 3
        OBVIOUS
      <4> QED
        BY <2>11, <3>2, <3>4, <3>5, <3>6, <4>1 DEF OutOK
  <2>3. Kept(u)
    <3> SUFFICES ASSUME NEW x \in Users \ mixed, NEW k \in Keys, InGroup(x, k)
                 PROVE  \/ InGroup(x, k)'
                        \/ x \in Concern(u) /\ (Settling(u, x, k)' \/ Excused(x, k)')
      BY DEF Kept
    <3>1. index[k] \in Uuids
      BY <2>1 DEF TablesOK, InGroup
    <3>2. CASE index[k] = id(u) /\ x = Now(u).who /\ found
      BY <2>11, <2>12, <3>2
    <3>3. CASE ~(index[k] = id(u) /\ x = Now(u).who /\ found)
      BY <1>0, <2>7, <2>8, <3>1, <3>3, InGroupStays
    <3> QED
      BY <3>2, <3>3
  <2>4. Listing
    BY <1>0, <1>6 DEF Listing, Excused
  <2>5. Settles(u)
    <3> SUFFICES ASSUME NEW x \in Users \ mixed, NEW k \in lists'[x], Settling(u, x, k)
                 PROVE  Settling(u, x, k)'
      BY DEF Settles
    <3>1. ~Removal(Now(u), x, k)
      BY <1>0 DEF Removal
    <3> QED
      BY <1>0, <1>2, <1>3, <1>4, <2>1, <3>1, SettlesLeft
  <2> QED
    BY <1>0, <1>3, <2>1, <2>2, <2>3, <2>4, <2>5, ListsStep
<1> QED
  BY <1>0, <1>2, <1>5, Relisted

\* A command that ends the members of a group that is gone.
LEMMA DelGroupMemberLists ==
  ASSUME Inv, Inv', ListInv, NEW u \in Users, delGroupMember(u)
  PROVE  ListInv'
<1>0. /\ Busy(u) /\ Now(u).cmd = "delGroupMember" /\ Return(u, TRUE)
      /\ members' = [members EXCEPT ![id(u)] = {}]
      /\ UNCHANGED << index, lists, account, kicked, mixed, garbage >>
  BY DEF delGroupMember, Doing
<1>2. Known(u) /\ CoursesOK' /\ ApartOK'
  BY <1>0, ReturnedCourse
<1>3. PICK left \in Seq(Steps) : Stepped(u, left, id(u)) /\ GoesFound(todo[u], left)
  BY <1>0, ReturnedCourse
<1>5. ASSUME ~garbage
      PROVE  Lists'
  <2>1. Shared /\ Shared' /\ TablesOK /\ TablesOK' /\ CoursesOK /\ ApartOK /\ Lists /\ KeysOK
    BY <1>5, ListParts
  <2>2. NextFine(u, left, id(u))
    BY <1>0, <1>2, <1>3, <2>1, NextLeft
  <2>6. \A k \in Keys : index[k] # id(u)
    <3>1. PICK s : s = todo[u]
      OBVIOUS
    <3>2. /\ s \in Seq(Steps) /\ s # << >> /\ ProgramOK(s) /\ s[1].cmd = "delGroupMember"
          /\ 1 \in 1 .. Len(s) /\ Len(s) \in Nat
      BY <1>0, <1>2, <3>1, LenProperties DEF Known
    <3>3. ASSUME NEW i \in 1 .. Len(s), s[i].cmd = "delGroup"
          PROVE  FALSE
      <4>1. i # 1
        BY <3>2, <3>3
      <4>2. 1 \in 1 .. i - 1
        BY <3>2, <4>1
      <4>3. BeforeOK(s, i)
        BY <3>2, ProgramParts
      <4> QED
        BY <3>2, <3>3, <4>2, <4>3 DEF BeforeOK
    <3>4. KeyOK(index, id(u), s)
      BY <2>1, <3>1 DEF KeysOK
    <3> QED
      BY <3>2, <3>3, <3>4 DEF KeyOK
  <2>3. Kept(u)
    <3> SUFFICES ASSUME NEW x \in Users \ mixed, NEW k \in Keys, InGroup(x, k)
                 PROVE  InGroup(x, k)'
      BY DEF Kept
    <3>1. Doomed(k)' => Doomed(k)
      BY <1>0, <1>2, <1>3, DoomedLeft
    <3>2. index[k] \in Uuids /\ index[k] # id(u)
      BY <2>1, <2>6 DEF TablesOK, InGroup
    <3>3. members'[index[k]] = members[index[k]]
      BY <1>0, <2>1, <3>2 DEF TablesOK
    <3> QED
      BY <1>0, <3>1, <3>3, InGroupStays
  <2>4. Listing
    BY <1>0 DEF Listing, Excused
  <2>5. Settles(u)
    <3> SUFFICES ASSUME NEW x \in Users \ mixed, NEW k \in lists'[x], Settling(u, x, k)
                 PROVE  Settling(u, x, k)'
      BY DEF Settles
    <3>1. ~Removal(Now(u), x, k)
      BY <1>0 DEF Removal
    <3> QED
      BY <1>0, <1>2, <1>3, <2>1, <3>1, SettlesLeft
  <2> QED
    BY <1>0, <1>3, <2>1, <2>2, <2>3, <2>4, <2>5, ListsStep
<1> QED
  BY <1>0, <1>2, <1>5, Relisted

\* A command that ends a group: whoever relied on it has had company.
LEMMA DelGroupLists ==
  ASSUME Inv, Inv', ListInv, NEW u \in Users, delGroup(u)
  PROVE  ListInv'
<1>0. /\ Busy(u) /\ Now(u).cmd = "delGroup" /\ Return(u, TRUE)
      /\ index' = [index EXCEPT ![Now(u).key] = NoUuid]
      /\ UNCHANGED << members, lists, account, kicked, mixed, garbage >>
  BY DEF delGroup, Doing
<1>2. Known(u) /\ CoursesOK' /\ ApartOK'
  BY <1>0, ReturnedCourse
<1>3. PICK left \in Seq(Steps) : Stepped(u, left, id(u)) /\ GoesFound(todo[u], left)
  BY <1>0, ReturnedCourse
<1>4. PICK s : s = todo[u]
  OBVIOUS
<1>6. s \in Seq(Steps) /\ s # << >> /\ ProgramOK(s) /\ Now(u) = s[1] /\ 1 \in 1 .. Len(s)
  BY <1>2, <1>4 DEF Known
<1>5. ASSUME ~garbage
      PROVE  Lists'
  <2>1. Shared /\ Shared' /\ TablesOK /\ TablesOK' /\ CoursesOK /\ ApartOK /\ Lists
    BY <1>5, ListParts
  <2>6. CourseOK(u, job[u], s) /\ Concern(u) = Users
    <3>1. CourseOK(u, job[u], s)
      BY <1>4, <2>1 DEF CoursesOK
    <3>2. job[u].op \in {"disband_group", "del_account"}
      BY <1>0, <1>6, <3>1 DEF CourseOK, PlaceOK, OwnOK
    <3> QED
      BY <3>1, <3>2 DEF Concern, Concerned
  <2>2. NextFine(u, left, id(u))
    <3>1. left # << >> => ~Keyed(left[1]) /\ left[1].cmd \notin {"addGroup", "UserSetGroups"}
      BY <1>0, <1>3, <1>4, <1>6, <2>6, LinkLeft DEF Keyed
    <3> QED
      BY <3>1 DEF NextFine
  <2>7. \A k \in Keys : k # Now(u).key => index'[k] = index[k]
    BY <1>0, <2>1 DEF TablesOK
  <2>8. ASSUME NEW v \in Users \ {u}, Busy(v),
               (Keyed(Now(v)) /\ ~(Concern(v) \subseteq mixed)) \/ Now(v).cmd = "addGroup"
        PROVE  index'[Now(v).key] = index[Now(v).key]
    <3>1. Known(v)
      BY <2>1, <2>8, KnownHolds
    <3>2. CASE Now(v).cmd = "addGroup"
      <4>1. Now(v).key \in Keys
        BY <3>1, <3>2 DEF Known, FieldsOK
      <4>2. index[Now(v).key] = NoUuid
        BY <2>1, <2>8, <3>2 DEF Lists, MakesOK
      <4> QED
        BY <1>0, <2>1, <4>1, <4>2 DEF TablesOK
    <3>3. CASE Keyed(Now(v)) /\ ~(Concern(v) \subseteq mixed)
      <4>1. PlaceOK(v, job[v], todo[v], 1) /\ Now(v) = todo[v][1]
        BY <2>1, <3>1 DEF Known, CoursesOK, CourseOK
      <4>2. Concern(v) \subseteq Users
        BY <3>3, <4>1 DEF PlaceOK, OwnOK, Concern
      <4>3. Concern(u) \cap Concern(v) \subseteq mixed
        BY <1>0, <2>1, <2>8 DEF ApartOK
      <4> QED
        BY <2>6, <3>3, <4>2, <4>3
    <3> QED
      BY <2>8, <3>2, <3>3
  <2>3. Kept(u)
    <3> SUFFICES ASSUME NEW x \in Users \ mixed, NEW k \in Keys, InGroup(x, k)
                 PROVE  InGroup(x, k)'
      BY DEF Kept
    <3>1. Doomed(k)' => Doomed(k)
      BY <1>0, <1>2, <1>3, DoomedLeft
    <3>2. k # Now(u).key
      BY <1>0, <1>4, <1>6 DEF InGroup, Doomed
    <3> QED
      BY <1>0, <2>7, <3>1, <3>2, InGroupStays
  <2>4. Listing
    BY <1>0 DEF Listing, Excused
  <2>5. Settles(u)
    <3> SUFFICES ASSUME NEW x \in Users \ mixed, NEW k \in lists'[x], Settling(u, x, k)
                 PROVE  Settling(u, x, k)'
      BY DEF Settles
    <3>1. ~Removal(Now(u), x, k)
      BY <1>0 DEF Removal
    <3> QED
      BY <1>0, <1>2, <1>3, <2>1, <3>1, SettlesLeft
  <2> QED
    BY <1>0, <1>3, <2>1, <2>2, <2>3, <2>4, <2>5, <2>8, ListsStep
<1> QED
  BY <1>0, <1>2, <1>5, Relisted

\* A handler that goes on has left to do what it says.
LEMMA GoesOn ==
  ASSUME Shared, NEW u \in Users, NEW left, NEW g, GoOn(u, left, g)
  PROVE  Stepped(u, left, g)
<1>1. job \in [Users -> Jobs] /\ todo \in [Users -> Seq(Steps)]
  BY DEF Shared
<1>2. /\ todo' = [todo EXCEPT ![u] = left]
      /\ job' = [job EXCEPT ![u] = IF left = << >> THEN NoJob ELSE [job[u] EXCEPT !.id = g]]
  BY DEF GoOn
<1>3. todo'[u] = left /\ \A v \in Users \ {u} : todo'[v] = todo[v] /\ job'[v] = job[v]
  BY <1>1, <1>2
<1>4. job'[u] = IF left = << >> THEN NoJob ELSE [job[u] EXCEPT !.id = g]
  BY <1>1, <1>2
<1>5. job[u] \in Jobs
  BY <1>1
<1>6. job'[u].id = IF left = << >> THEN NoUuid ELSE g
  BY <1>4, <1>5 DEF NoJob, Jobs
<1> QED
  BY <1>3, <1>6, SteppedOn DEF Moved

\* What a handler sees to it still does when it has just read something.
LEMMA GrownSettles ==
  ASSUME NEW u \in Users, Busy(u), Known(u), NEW left \in Seq(Steps), NEW g, Stepped(u, left, g),
         Now(u).cmd \in {"getManagers", "getGroupMember", "getGroupManager", "getGroupuuid", "addGroup"},
         job[u].op = "del_account" => left # << >>, NEW x, NEW k, Settling(u, x, k)
  PROVE  Settling(u, x, k)'
<1>1. PICK s : s = todo[u]
  OBVIOUS
<1>2. s \in Seq(Steps) /\ s # << >> /\ Now(u) = s[1] /\ Head(s) = s[1]
  BY <1>1, TailShift DEF Known
<1>3. todo'[u] = left /\ (left # << >> => Busy(u)' /\ job'[u].op = job[u].op)
  BY Mover
<1>4. ~Leaving(s, x, k)
  BY <1>2, LeavingHead
<1>5. ~Returning(s, x, k)
  BY <1>2 DEF Returning
<1> QED
  BY <1>1, <1>3, <1>4, <1>5 DEF Settling

\* A step after which the lists and the members are what they were.
LEMMA StayingLists ==
  ASSUME Inv, Inv', ListInv, NEW u \in Users, Busy(u), NEW left \in Seq(Steps), NEW g,
         Stepped(u, left, g), CourseOK(u, job[u], left),
         UNCHANGED << index, members, lists, kicked, account, mixed >>, ~garbage' => ~garbage,
         ~garbage => NextFine(u, left, g) /\ Kept(u) /\ Settles(u)
  PROVE  ListInv'
<1>1. CoursesOK' /\ ApartOK'
  BY CoursesStep DEF ListInv
<1>2. ASSUME ~garbage
      PROVE  Lists'
  <2>1. Shared /\ Shared' /\ TablesOK' /\ CoursesOK /\ ApartOK /\ Lists
    BY <1>2, ListParts
  <2>2. Listing
    BY DEF Listing, Excused
  <2> QED
    BY <1>2, <2>1, <2>2, ListsStep
<1> QED
  BY <1>1, <1>2, Relisted

\* A group is made: for a key that had none, with an identifier that had none.
LEMMA AddGroupLists ==
  ASSUME Inv, Inv', ListInv, NEW u \in Users, addGroup(u)
  PROVE  ListInv'
<1>0. /\ Busy(u) /\ Now(u).cmd = "addGroup"
      /\ UNCHANGED << members, lists, account, kicked, mixed, garbage >>
  BY DEF addGroup, Doing
<1>1. PICK g \in Uuids : GoOn(u, Tail(todo[u]), g) /\ index' = [index EXCEPT ![Now(u).key] = g]
  BY DEF addGroup
<1>2. Shared /\ Known(u)
  BY <1>0, InvParts, KnownHolds
<1>3. PICK s : s = todo[u]
  OBVIOUS
<1>4. s \in Seq(Steps) /\ s # << >> /\ ProgramOK(s) /\ Now(u) = s[1] /\ CourseOK(u, job[u], s)
      /\ PlaceOK(u, job[u], s, 1) /\ FieldsOK(s[1])
  BY <1>2, <1>3 DEF Known, ListInv, CoursesOK, CourseOK
<1>6. PICK left : left = Tail(s)
  OBVIOUS
<1>7. left \in Seq(Steps) /\ Stepped(u, left, g) /\ CourseOK(u, job[u], left) /\ GoesFound(s, left)
  BY <1>0, <1>1, <1>2, <1>3, <1>4, <1>6, GoesOn, CourseTail, GoesTail, TailShift
<1>8. CoursesOK' /\ ApartOK'
  BY <1>0, <1>7, CoursesStep DEF ListInv
<1>9. Now(u).key \in Keys /\ Now(u).key[2] = u /\ job[u].op = "add_group"
  BY <1>0, <1>4 DEF FieldsOK, PlaceOK, OwnOK
<1>5. ASSUME ~garbage
      PROVE  Lists'
  <2>1. Shared /\ Shared' /\ TablesOK /\ TablesOK' /\ CoursesOK /\ ApartOK /\ Lists
    BY <1>5, ListParts
  <2>6. /\ \A k \in Keys : k # Now(u).key => index'[k] = index[k]
        /\ index'[Now(u).key] = g /\ index[Now(u).key] = NoUuid
    BY <1>0, <1>1, <1>9, <2>1 DEF TablesOK, Lists, MakesOK
  <2>2. NextFine(u, left, g)
    <3>1. left # << >> => /\ Keyed(left[1]) => s[1].key = left[1].key
                          /\ left[1].cmd \notin {"addGroup", "UserSetGroups"}
      BY <1>0, <1>4, <1>7, LinkLeft
    <3> QED
      BY <1>4, <2>6, <3>1 DEF NextFine
  <2>8. ASSUME NEW v \in Users \ {u}, Busy(v),
               (Keyed(Now(v)) /\ ~(Concern(v) \subseteq mixed)) \/ Now(v).cmd = "addGroup"
        PROVE  index'[Now(v).key] = index[Now(v).key]
    <3>1. Known(v)
      BY <2>1, <2>8, KnownHolds
    <3>2. PlaceOK(v, job[v], todo[v], 1) /\ Now(v) = todo[v][1]
      BY <2>1, <3>1 DEF Known, CoursesOK, CourseOK
    <3>3. CASE Now(v).cmd = "addGroup"
      <4>1. Now(v).key \in Keys /\ Now(v).key[2] = v
        BY <3>1, <3>2, <3>3 DEF Known, FieldsOK, PlaceOK, OwnOK
      <4> QED
        BY <1>9, <2>6, <2>8, <4>1
    <3>4. CASE Keyed(Now(v)) /\ ~(Concern(v) \subseteq mixed)
      <4>1. Now(v).key \in Keys /\ index[Now(v).key] = id(v)
        BY <2>1, <2>8, <3>2, <3>4 DEF PlaceOK, OwnOK, Lists, HeldOK
      <4>2. id(v) \in Uuids
        BY <3>1, <3>4 DEF Known, NoId, Keyed
      <4> QED
        BY <2>6, <4>1, <4>2, GroupsConstants
    <3> QED
      BY <2>8, <3>3, <3>4
  <2>3. Kept(u)
    <3> SUFFICES ASSUME NEW x \in Users \ mixed, NEW k \in Keys, InGroup(x, k)
                 PROVE  InGroup(x, k)'
      BY DEF Kept
    <3>1. Doomed(k)' => Doomed(k)
      BY <1>0, <1>2, <1>3, <1>7, DoomedLeft
    <3>2. k # Now(u).key
      BY <2>6 DEF InGroup
    <3> QED
      BY <1>0, <2>6, <3>1, <3>2, InGroupStays
  <2>4. Listing
    BY <1>0 DEF Listing, Excused
  <2>5. Settles(u)
    <3> SUFFICES ASSUME NEW x \in Users \ mixed, NEW k \in lists'[x], Settling(u, x, k)
                 PROVE  Settling(u, x, k)'
      BY DEF Settles
    <3> QED
      BY <1>0, <1>2, <1>7, <1>9, GrownSettles
  <2> QED
    BY <1>0, <1>7, <2>1, <2>2, <2>3, <2>4, <2>5, <2>8, ListsStep
<1> QED
  BY <1>0, <1>5, <1>8, Relisted

\* What changes nothing of all that keeps it.
LEMMA SameLists ==
  ASSUME ListInv, UNCHANGED << index, members, lists, job, todo, kicked, garbage, mixed >>
  PROVE  ListInv'
<1>1. UNCHANGED << index, members, lists, job, todo, kicked, garbage, mixed >>
  OBVIOUS
<1>2. CoursesOK'
  BY <1>1 DEF ListInv, CoursesOK
<1>3. ApartOK'
  BY <1>1 DEF ListInv, ApartOK, Busy, Concern
<1>4. ASSUME ~garbage
      PROVE  HeldOK' /\ MakesOK' /\ SetsOK' /\ ListedOK'
  <2>1. HeldOK /\ MakesOK /\ SetsOK /\ ListedOK
    BY <1>4 DEF ListInv
  <2>2. HeldOK'
    BY <1>1, <2>1 DEF HeldOK, Busy, Concern, Keyed, Now, id
  <2>3. MakesOK'
    BY <1>1, <2>1 DEF MakesOK, Busy, Now
  <2>4. SetsOK'
    BY <1>1, <2>1 DEF SetsOK, Busy, Now, InGroup, Belongs, Doomed
  <2>5. ListedOK'
    BY ZenonT(60), <1>1, <2>1 DEF ListedOK, Excused, InGroup, Belongs, Doomed, Settling,
       Busy
  <2> QED
    BY <2>2, <2>3, <2>4, <2>5
<1> QED
  BY <1>1, <1>2, <1>3, <1>4 DEF ListInv

\* A name is registered again.
LEMMA SaveUserLists ==
  ASSUME ListInv, NEW u \in Users, saveUser(u)
  PROVE  ListInv'
<1>1. UNCHANGED << index, members, lists, job, todo, kicked, garbage, mixed >>
  BY DEF saveUser
<1> QED
  BY <1>1, SameLists

\* The process dies.
LEMMA CrashLists ==
  ASSUME ListInv, Crash
  PROVE  ListInv'
<1>1. UNCHANGED << index, members, lists, job, todo, kicked, garbage, mixed >>
  BY DEF Crash, redisVars
<1> QED
  BY <1>1, SameLists

\* The group of a name is looked up.
LEMMA GetGroupuuidLists ==
  ASSUME Inv, Inv', ListInv, NEW u \in Users, getGroupuuid(u)
  PROVE  ListInv'
<1>0. CASE Crash
  BY <1>0, CrashLists
<1>1. CASE ~Crash
  <2>1. Busy(u) /\ Now(u).cmd = "getGroupuuid"
    BY DEF getGroupuuid, Doing
  <2>2. PICK g \in Uuids \cup {NoUuid} :
           /\ GoOn(u, Tail(todo[u]), g)
           /\ (g = index[Now(u).key] /\ garbage' = garbage) \/ garbage' = TRUE
           /\ UNCHANGED << redisVars, menu, kicked, served, mixed, crashed >>
    <3>1. CASE /\ index[Now(u).key] # NoUuid /\ GoOn(u, Tail(todo[u]), index[Now(u).key])
               /\ UNCHANGED << redisVars, menu, kicked, garbage, served, mixed, crashed >>
      <4>1. Shared /\ Known(u)
        BY <2>1, InvParts, KnownHolds
      <4>2. Now(u).key \in Keys
        BY <2>1, <4>1 DEF Known, FieldsOK
      <4>3. index[Now(u).key] \in Uuids \cup {NoUuid}
        BY <4>1, <4>2 DEF Shared
      <4> QED
        BY <3>1, <4>3
    <3>2. CASE /\ \E g \in Uuids : GoOn(u, Tail(todo[u]), g)
               /\ garbage' = TRUE /\ UNCHANGED << redisVars, menu, kicked, served, mixed, crashed >>
      BY <3>2
    <3> QED
      BY <1>1, <3>1, <3>2 DEF getGroupuuid
  <2>3. Shared /\ Known(u)
    BY <2>1, InvParts, KnownHolds
  <2>4. PICK s : s = todo[u]
    OBVIOUS
  <2>5. s \in Seq(Steps) /\ s # << >> /\ ProgramOK(s) /\ Now(u) = s[1] /\ CourseOK(u, job[u], s)
        /\ FieldsOK(s[1])
    BY <2>3, <2>4 DEF Known, ListInv, CoursesOK
  <2>6. PICK left : left = Tail(s)
    OBVIOUS
  <2>7. left \in Seq(Steps) /\ Stepped(u, left, g) /\ CourseOK(u, job[u], left) /\ GoesFound(s, left)
    BY <2>1, <2>2, <2>3, <2>4, <2>5, <2>6, GoesOn, CourseTail, GoesTail, TailShift
  <2>8. CoursesOK' /\ ApartOK'
    BY <2>1, <2>2, <2>7, CoursesStep DEF ListInv
  <2>9. UNCHANGED << index, members, lists, account, kicked, mixed >>
    BY <2>2 DEF redisVars
  <2>10. job[u].op = "del_account" => left # << >>
    BY <2>1, <2>5, <2>6, DeletionGoesOn
  <2>11. Kept(u)
    <3> SUFFICES ASSUME NEW x \in Users \ mixed, NEW k \in Keys, InGroup(x, k)
                 PROVE  InGroup(x, k)'
      BY DEF Kept
    <3>1. Doomed(k)' => Doomed(k)
      BY <2>1, <2>3, <2>4, <2>7, DoomedLeft
    <3> QED
      BY <2>9, <3>1, InGroupStays
  <2>12. Settles(u)
    <3> SUFFICES ASSUME NEW x \in Users \ mixed, NEW k \in lists'[x], Settling(u, x, k)
                 PROVE  Settling(u, x, k)'
      BY DEF Settles
    <3> QED
      BY <2>1, <2>3, <2>7, <2>10, GrownSettles
  <2>13. CASE garbage' = TRUE
    BY <2>8, <2>13 DEF ListInv
  <2>14. CASE g = index[Now(u).key] /\ garbage' = garbage
    <3>1. left # << >> => /\ Keyed(left[1]) => s[1].key = left[1].key
                          /\ left[1].cmd \notin {"addGroup", "UserSetGroups"}
      BY <2>1, <2>5, <2>7, LinkLeft
    <3>2. NextFine(u, left, g)
      BY <2>5, <2>9, <2>14, <3>1 DEF NextFine
    <3> QED
      BY <2>1, <2>7, <2>9, <2>11, <2>12, <2>14, <3>2, StayingLists
  <2> QED
    BY <2>2, <2>13, <2>14
<1> QED
  BY <1>0, <1>1

\* A program that has grown relies on nothing.
LEMMA LooseNext ==
  ASSUME NEW u, NEW left, NEW g, Loose(left)
  PROVE  NextFine(u, left, g)
  BY DEF Loose, NextFine

\* No group is to be ended that was not, when the program has grown by others.
LEMMA DoomedGrown ==
  ASSUME NEW u \in Users, NEW left \in Seq(Steps), NEW g, Stepped(u, left, g), NEW k,
         \A i \in 1 .. Len(left) : left[i].cmd = "delGroup" /\ left[i].key = k =>
            \E h \in 1 .. Len(todo[u]) : todo[u][h] = left[i],
         Doomed(k)'
  PROVE  Doomed(k)
<1>0. PICK v \in Users : \E i \in 1 .. Len(todo'[v]) : todo'[v][i].cmd = "delGroup" /\ todo'[v][i].key = k
  BY DEF Doomed
<1>1. PICK i \in 1 .. Len(todo'[v]) : todo'[v][i].cmd = "delGroup" /\ todo'[v][i].key = k
  BY <1>0
<1>2. CASE v # u
  <2>1. todo'[v] = todo[v]
    BY <1>2, Others
  <2> QED
    BY <1>1, <2>1 DEF Doomed
<1>3. CASE v = u
  <2>1. todo'[u] = left
    BY Mover
  <2>2. \E h \in 1 .. Len(todo[u]) : todo[u][h] = left[i]
    BY <1>1, <1>3, <2>1
  <2> QED
    BY <1>1, <1>3, <2>1, <2>2 DEF Doomed
<1> QED
  BY <1>2, <1>3

\* Commands that ask for nothing before or after them.
Simply == {"setGroupNotify", "delGroupNotify", "UserRemoveGroups", "delGroup", "delGroupManager",
           "delGroupMember"}

\* A course goes on behind such commands.
LEMMA GrownCourse ==
  ASSUME NEW f \in Seq(Steps), NEW t \in Seq(Steps), NEW u, NEW j,
         \A i \in 1 .. Len(f) :
            /\ f[i].cmd \in Simply /\ f[i].mode = "go"
            /\ f[i].cmd = "delGroup" => j.op \in {"disband_group", "del_account"},
         CourseOK(u, j, t), Loose(t), t # << >> \/ j.op # "del_account", NEW left, left = f \o t
  PROVE  left \in Seq(Steps) /\ CourseOK(u, j, left) /\ Loose(left) /\ Joined(f, t, left)
         /\ (t # << >> => left # << >>)
<1>1. Joined(f, t, left)
  BY JoinedAt
<1>2. /\ left \in Seq(Steps) /\ Len(f) \in Nat /\ Len(t) \in Nat /\ Len(left) = Len(f) + Len(t)
      /\ \A i \in 1 .. Len(left) : \/ i \in 1 .. Len(f) /\ left[i] = f[i]
                                   \/ \E h \in 1 .. Len(t) : i = h + Len(f) /\ left[i] = t[h]
  BY <1>1 DEF Joined
<1>3. ASSUME NEW i \in 1 .. Len(f)
      PROVE  PlaceOK(u, j, f, i)
  <2>1. i < Len(f) => i + 1 \in 1 .. Len(f)
    BY <1>2
  <2>2. i < Len(f) => f[i + 1].cmd \in Simply /\ f[i + 1].mode = "go"
    BY <2>1
  <2>3. OwnOK(u, j, f[i])
    BY DEF OwnOK, Simply, Keyed
  <2>4. LinkOK(j, f, i)
    BY <2>2 DEF LinkOK, Simply, Keyed
  <2>5. OutOK(j, f, i)
    BY DEF OutOK, Simply
  <2> QED
    BY <2>3, <2>4, <2>5 DEF PlaceOK
<1>4. CourseOK(u, j, left)
  BY <1>3, CourseJoin
<1>5. Loose(left)
  <2> SUFFICES ASSUME left # << >>
               PROVE  ~Keyed(left[1]) /\ left[1].cmd \notin {"addGroup", "UserSetGroups"}
    BY DEF Loose
  <2>1. 1 \in 1 .. Len(left)
    <3>1. Len(left) \in Nat /\ Len(left) # 0
      BY <1>2, EmptySeq
    <3> QED
      BY <3>1
  <2>2. CASE 1 \in 1 .. Len(f) /\ left[1] = f[1]
    BY <2>2 DEF Simply, Keyed
  <2>3. CASE \E h \in 1 .. Len(t) : 1 = h + Len(f) /\ left[1] = t[h]
    <3>1. PICK h \in 1 .. Len(t) : 1 = h + Len(f) /\ left[1] = t[h]
      BY <2>3
    <3>2. h = 1 /\ Len(t) # 0
      BY <1>2, <3>1
    <3>3. t # << >>
      BY <3>2
    <3> QED
      BY <3>1, <3>2, <3>3 DEF Loose
  <2> QED
    BY <1>2, <2>1, <2>2, <2>3
<1>6. t # << >> => left # << >>
  <2>1. t # << >> => Len(t) # 0
    BY EmptySeq
  <2>2. t # << >> => Len(left) # 0
    BY <1>2, <2>1
  <2> QED
    BY <2>2
<1> QED
  BY <1>1, <1>2, <1>4, <1>5, <1>6

\* The managers are read, and a command for each of them follows.
LEMMA GetManagersLists ==
  ASSUME Inv, Inv', ListInv, NEW u \in Users, getManagers(u)
  PROVE  ListInv'
<1>1. Shared /\ Busy(u) /\ Now(u).cmd = "getManagers"
  BY InvParts DEF getManagers, Doing
<1>2. Known(u) /\ Now(u).key \in Keys
  BY <1>1, KnownHolds DEF Known, FieldsOK
<1>3. PICK s : s = todo[u]
  OBVIOUS
<1>4. s \in Seq(Steps) /\ s # << >> /\ ProgramOK(s) /\ s[1] = Now(u) /\ CourseOK(u, job[u], s)
  BY <1>2, <1>3 DEF Known, ListInv, CoursesOK
<1>5. PICK t : t = Tail(s)
  OBVIOUS
<1>6. t \in Seq(Steps) /\ CourseOK(u, job[u], t) /\ Loose(t)
      /\ (t # << >> \/ job[u].op # "del_account") /\ AfterFirst(s, t)
  BY <1>1, <1>4, <1>5, CourseTail, LooseAfter, DeletionGoesOn, TailAfter DEF AfterFirst
<1>8. PICK cmd : cmd = IF job[u].op = "join_group" THEN "setGroupNotify" ELSE "delGroupNotify"
  OBVIOUS
<1>9. cmd \in {"setGroupNotify", "delGroupNotify"}
  BY <1>8
<1>27. PICK k \in Keys : k = Now(u).key
  BY <1>2
<1>10. PICK all : all = {m \in Users : managers[id(u)][m] # NoRole}
  OBVIOUS
<1>11. PICK order \in SetToSeqs(all) :
         GoOn(u, [i \in DOMAIN order |-> For(cmd, order[i], NoRole, k)] \o t, id(u))
  BY <1>3, <1>5, <1>8, <1>10, <1>27 DEF getManagers, Each
<1>12. IsFiniteSet(all) /\ all \subseteq Users
  <2>1. all \subseteq Users
    BY <1>10
  <2> QED
    BY <2>1, GroupsConstants, FS_Subset
<1>13. PICK n \in Nat : order \in [1 .. n -> all] /\ DOMAIN order = 1 .. n
  BY <1>12, OrderOf
<1>14. order \in [1 .. n -> Users]
  BY <1>12, <1>13
<1>15. PICK e : e = [i \in 1 .. n |-> For(cmd, order[i], NoRole, k)]
  OBVIOUS
<1>16. e \in Seq(Steps) /\ \A i \in 1 .. Len(e) : e[i].cmd = cmd
  BY <1>9, <1>14, <1>15, NoticesOK
<1>17. \A i \in 1 .. Len(e) : e[i].mode = "go"
  <2>1. Len(e) = n
    <3>1. DOMAIN e = 1 .. n /\ DOMAIN e = 1 .. Len(e) /\ Len(e) \in Nat
      BY <1>15, <1>16, LenProperties
    <3> QED
      BY <3>1
  <2> QED
    BY <1>15, <2>1 DEF For, Step
<1>18. PICK left : left = e \o t
  OBVIOUS
<1>19. left \in Seq(Steps) /\ CourseOK(u, job[u], left) /\ Loose(left) /\ Joined(e, t, left)
       /\ (t # << >> => left # << >>)
  <2>1. \A i \in 1 .. Len(e) : e[i].cmd \in Simply /\ e[i].mode = "go" /\ e[i].cmd # "delGroup"
    BY <1>9, <1>16, <1>17 DEF Simply
  <2> QED
    BY <1>6, <1>16, <1>18, <2>1, GrownCourse
<1>20. Stepped(u, left, id(u))
  BY <1>1, <1>11, <1>13, <1>15, <1>18, GoesOn
<1>21. UNCHANGED << redisVars, menu, kicked, garbage, served, mixed, crashed >>
  BY DEF getManagers
<1>22. UNCHANGED << index, members, lists, account, kicked, mixed, garbage >>
  BY <1>21 DEF redisVars
<1>23. NextFine(u, left, id(u))
  BY <1>19, LooseNext
<1>24. ASSUME NEW i \in 1 .. Len(left), left[i].cmd = "delGroup"
       PROVE  \E h \in 1 .. Len(s) : s[h] = left[i]
  <2>1. PICK h \in 1 .. Len(t) : left[i] = t[h]
    BY <1>9, <1>16, <1>19, <1>24 DEF Joined
  <2> QED
    BY <1>6, <2>1 DEF AfterFirst
<1>25. Kept(u)
  <2> SUFFICES ASSUME NEW x \in Users \ mixed, NEW g \in Keys, InGroup(x, g)
               PROVE  InGroup(x, g)'
    BY DEF Kept
  <2>1. Doomed(g)' => Doomed(g)
    BY <1>3, <1>19, <1>20, <1>24, DoomedGrown
  <2> QED
    BY <1>22, <2>1, InGroupStays
<1>26. Settles(u)
  <2> SUFFICES ASSUME NEW x \in Users \ mixed, NEW g \in lists'[x], Settling(u, x, g)
               PROVE  Settling(u, x, g)'
    BY DEF Settles
  <2> QED
    BY <1>1, <1>2, <1>6, <1>19, <1>20, GrownSettles
<1> QED
  BY <1>1, <1>19, <1>20, <1>22, <1>23, <1>25, <1>26, StayingLists

\* Redis returns every element, in some order.
LEMMA OrderHas ==
  ASSUME NEW S, IsFiniteSet(S), NEW order \in SetToSeqs(S), NEW x \in S
  PROVE  \E p \in DOMAIN order : order[p] = x
<1>1. PICK n \in Nat : n = Cardinality(S)
  BY FS_CardinalityType
<1>2. order \in [1 .. n -> S] /\ \A i, j \in 1 .. n : i # j => order[i] # order[j]
  BY <1>1 DEF SetToSeqs
<1>3. order \in Injection(1 .. n, S)
  BY <1>2 DEF Injection, IsInjective
<1>4. Cardinality(1 .. n) = n
  <2>1. Cardinality(1 .. n) = IF 1 > n THEN 0 ELSE n - 1 + 1
    BY FS_Interval
  <2> QED
    BY <2>1
<1>5. order \in Surjection(1 .. n, S)
  BY <1>1, <1>3, <1>4, FS_Injection
<1> QED
  BY <1>2, <1>5 DEF Surjection

\* f goes on whatever happens, and takes k off the lists in that order first.
Emptying(f, n, order, k) ==
    /\ \A i \in 1 .. Len(f) : f[i].mode = "go"
    /\ \A p \in 1 .. n :
          p \in 1 .. Len(f) /\ Removal(f[p], order[p], k) /\ f[p].cmd = "UserRemoveGroups"

\* The members of a group that is disbanded lose it one by one.
LEMMA DisbandingGoes ==
  ASSUME NEW n \in Nat, NEW order \in [1 .. n -> Users], NEW k \in Keys,
         NEW e, e = [i \in 1 .. n |-> For("UserRemoveGroups", order[i], NoRole, k)],
         NEW f, f = e \o disband_rest(k)
  PROVE  Emptying(f, n, order, k)
<1> DEFINE a == On("delGroup", k)
           b == For("UserRemoveGroups", k[2], NoRole, k)
           c == On("delGroupManager", k)
           d == On("delGroupMember", k)
<1>1. /\ Is(a, "delGroup", "go", NoUser, NoRole, k)
      /\ Is(b, "UserRemoveGroups", "go", k[2], NoRole, k)
      /\ Is(c, "delGroupManager", "go", NoUser, NoRole, k)
      /\ Is(d, "delGroupMember", "go", NoUser, NoRole, k)
  BY CommandNames, StepIs
<1>2. a \in Steps /\ b \in Steps /\ c \in Steps /\ d \in Steps
  BY <1>1 DEF Is
<1>3. PICK r : r = disband_rest(k)
  OBVIOUS
<1>4. r = << a, b, c, d >>
  BY <1>3 DEF disband_rest
<1> HIDE DEF a, b, c, d
<1>5. r \in Seq(Steps) /\ Len(r) = 4 /\ r[1] = a /\ r[2] = b /\ r[3] = c /\ r[4] = d
  BY <1>2, <1>4, TupleOfFour
<1>6. ASSUME NEW i \in 1 .. n
      PROVE  Is(e[i], "UserRemoveGroups", "go", order[i], NoRole, k)
  <2>1. order[i] \in Users /\ e[i] = For("UserRemoveGroups", order[i], NoRole, k)
    OBVIOUS
  <2> QED
    BY <2>1, CommandNames, StepIs
<1>7. e \in Seq(Steps) /\ Len(e) = n
  <2>1. \A i \in 1 .. n : e[i] \in Steps
    BY <1>6 DEF Is
  <2>2. e \in [1 .. n -> Steps]
    BY <2>1
  <2> QED
    BY <2>2, SeqOfSteps
<1>8. Joined(e, r, f)
  BY <1>3, <1>5, <1>7, JoinedAt
<1>9. \A i \in 1 .. Len(r) : r[i].mode = "go"
  <2>1. \A i \in 1 .. Len(r) : i = 1 \/ i = 2 \/ i = 3 \/ i = 4
    BY <1>5
  <2> QED
    BY <1>1, <1>5, <2>1 DEF Is
<1>10. \A i \in 1 .. n : e[i].mode = "go"
  BY <1>6 DEF Is
<1>11. ASSUME NEW i \in 1 .. Len(f)
       PROVE  f[i].mode = "go"
  <2>1. \/ i \in 1 .. n /\ f[i] = e[i]
        \/ \E h \in 1 .. Len(r) : f[i] = r[h]
    BY <1>7, <1>8 DEF Joined
  <2> QED
    BY <1>9, <1>10, <2>1
<1>12. ASSUME NEW p \in 1 .. n
       PROVE  p \in 1 .. Len(f) /\ Removal(f[p], order[p], k) /\ f[p].cmd = "UserRemoveGroups"
  <2>1. p \in 1 .. Len(f) /\ f[p] = e[p]
    BY <1>7, <1>8 DEF Joined
  <2> QED
    BY <1>6, <2>1 DEF Removal, Is
<1> QED
  BY <1>11, <1>12 DEF Emptying

\* The members of a group are read: each of them is taken off the list next.
LEMMA GetGroupMemberLists ==
  ASSUME Inv, Inv', ListInv, NEW u \in Users, getGroupMember(u)
  PROVE  ListInv'
<1>1. Shared /\ TablesOK /\ Busy(u) /\ Now(u).cmd = "getGroupMember"
  BY InvParts DEF getGroupMember, Doing
<1>2. Known(u) /\ Now(u).key \in Keys /\ id(u) \in Uuids
  BY <1>1, KnownHolds DEF Known, FieldsOK, NoId
<1>3. PICK s : s = todo[u]
  OBVIOUS
<1>4. s \in Seq(Steps) /\ s # << >> /\ ProgramOK(s) /\ s[1] = Now(u) /\ CourseOK(u, job[u], s)
      /\ 1 \in 1 .. Len(s)
  BY <1>2, <1>3 DEF Known, ListInv, CoursesOK
<1>5. PICK t : t = Tail(s)
  OBVIOUS
<1>6. t \in Seq(Steps) /\ CourseOK(u, job[u], t) /\ Loose(t)
      /\ (t # << >> \/ job[u].op # "del_account") /\ AfterFirst(s, t)
  BY <1>1, <1>4, <1>5, CourseTail, LooseAfter, DeletionGoesOn, TailAfter DEF AfterFirst
<1>7. job[u].op \in {"disband_group", "del_account"} /\ Concern(u) = Users
  <2>1. job[u].op \in {"disband_group", "del_account"}
    BY <1>1, <1>4 DEF CourseOK, PlaceOK, OwnOK
  <2> QED
    BY <2>1 DEF Concern, Concerned
<1>8. PICK k \in Keys : k = Now(u).key
  BY <1>2
<1>9. PICK all : all = {m[1] : m \in members[id(u)]}
  OBVIOUS
<1>10. PICK order \in SetToSeqs(all) :
         GoOn(u, [i \in DOMAIN order |-> For("UserRemoveGroups", order[i], NoRole, k)]
                 \o disband_rest(k) \o t, id(u))
  BY <1>3, <1>5, <1>8, <1>9 DEF getGroupMember, Each
<1>11. IsFiniteSet(all) /\ all \subseteq Users
  <2>1. members[id(u)] \subseteq Users \X Roles
    BY <1>1, <1>2 DEF TablesOK
  <2>2. all \subseteq Users
    BY <1>9, <2>1
  <2> QED
    BY <2>2, GroupsConstants, FS_Subset
<1>12. PICK n \in Nat : order \in [1 .. n -> all] /\ DOMAIN order = 1 .. n
  BY <1>11, OrderOf
<1>13. order \in [1 .. n -> Users]
  BY <1>11, <1>12
<1>14. PICK e : e = [i \in 1 .. n |-> For("UserRemoveGroups", order[i], NoRole, k)]
  OBVIOUS
<1>15. PICK f : f = e \o disband_rest(k)
  OBVIOUS
<1>16. Disbanding(f, k)
  BY <1>13, <1>14, <1>15, DisbandingOK
<1>17. PICK left : left = f \o t
  OBVIOUS
<1>18. /\ f \in Seq(Steps) /\ Len(f) \in Nat \ {0}
       /\ \A i \in 1 .. Len(f) : /\ f[i].cmd \in Simply /\ f[i].mode = "go"
                                 /\ f[i].cmd = "delGroup" => f[i].key = k
       /\ \A p \in 1 .. n :
             p \in 1 .. Len(f) /\ Removal(f[p], order[p], k) /\ f[p].cmd = "UserRemoveGroups"
  <2>1. Emptying(f, n, order, k)
    BY <1>13, <1>14, <1>15, DisbandingGoes
  <2> QED
    BY <1>16, <2>1 DEF Disbanding, Emptying, Simply
<1>19. left \in Seq(Steps) /\ CourseOK(u, job[u], left) /\ Loose(left) /\ Joined(f, t, left)
  BY <1>6, <1>7, <1>17, <1>18, GrownCourse
<1>20. Stepped(u, left, id(u))
  BY <1>1, <1>10, <1>12, <1>14, <1>15, <1>17, GoesOn
<1>21. UNCHANGED << redisVars, menu, kicked, garbage, served, mixed, crashed >>
  BY DEF getGroupMember
<1>22. UNCHANGED << index, members, lists, account, kicked, mixed, garbage >>
  BY <1>21 DEF redisVars
<1>23. NextFine(u, left, id(u))
  BY <1>19, LooseNext
<1>24. ASSUME NEW g, g # k, Doomed(g)'
       PROVE  Doomed(g)
  <2>1. ASSUME NEW i \in 1 .. Len(left), left[i].cmd = "delGroup", left[i].key = g
        PROVE  \E h \in 1 .. Len(s) : s[h] = left[i]
    <3>1. PICK h \in 1 .. Len(t) : left[i] = t[h]
      BY <1>18, <1>19, <1>24, <2>1 DEF Joined
    <3> QED
      BY <1>6, <3>1 DEF AfterFirst
  <2> QED
    BY <1>3, <1>19, <1>20, <1>24, <2>1, DoomedGrown
<1>25. left # << >>
  <2>1. Len(left) # 0
    BY <1>18, <1>19 DEF Joined
  <2> QED
    BY <2>1
<1>26. Settles(u)
  <2> SUFFICES ASSUME NEW x \in Users \ mixed, NEW g \in lists'[x], Settling(u, x, g)
               PROVE  Settling(u, x, g)'
    BY DEF Settles
  <2> QED
    BY <1>1, <1>2, <1>19, <1>20, <1>25, GrownSettles
<1>27. ASSUME ~garbage
       PROVE  Kept(u)
  <2> SUFFICES ASSUME NEW x \in Users \ mixed, NEW g \in Keys, InGroup(x, g)
               PROVE  InGroup(x, g)' \/ (x \in Concern(u) /\ Settling(u, x, g)')
    BY DEF Kept
  <2>1. CASE g # k
    <3>1. Doomed(g)' => Doomed(g)
      BY <1>24, <2>1
    <3> QED
      BY <1>22, <3>1, InGroupStays
  <2>2. CASE g = k
    <3>1. index[k] = id(u)
      BY <1>1, <1>7, <1>8, <1>27 DEF ListInv, HeldOK, Keyed
    <3>2. x \in all
      <4>1. PICK r \in Roles : << x, r >> \in members[id(u)]
        BY <2>2, <3>1 DEF InGroup, Belongs
      <4> QED
        BY <1>9, <4>1
    <3>3. PICK p \in 1 .. n : order[p] = x
      BY <1>11, <1>12, <3>2, OrderHas
    <3>4. \A h \in 1 .. n : h \in 1 .. Len(left) /\ left[h] = f[h]
      BY <1>18, <1>19 DEF Joined
    <3>5. p \in 1 .. Len(left) /\ Removing(left, p, x, k)
      BY <1>18, <3>3, <3>4 DEF Removing
    <3>6. ASSUME NEW h \in 1 .. p - 1
          PROVE  left[h].cmd = "UserRemoveGroups"
      <4>1. h \in 1 .. n
        BY <3>3
      <4> QED
        BY <1>18, <3>4, <4>1
    <3>7. Leaving(left, x, k)
      BY <3>5, <3>6 DEF Leaving
    <3>8. todo'[u] = left /\ Busy(u)'
      BY <1>19, <1>20, <1>25, Mover
    <3> QED
      BY <1>7, <2>2, <3>7, <3>8 DEF Settling
  <2> QED
    BY <2>1, <2>2
<1> QED
  BY <1>1, <1>19, <1>20, <1>22, <1>23, <1>26, <1>27, StayingLists

\* What the deletion of an account does for one of its groups.
Resigning(f, u, j, k) ==
    /\ f \in Seq(Steps) /\ Len(f) = 2
    /\ \A i \in 1 .. Len(f) : PlaceOK(u, j, f, i) /\ f[i].cmd # "delGroup"
    /\ f[1].cmd \in {"getGroupuuid", "removeGroupMember"} /\ f[1].key = k

\* One group of an account that is deleted.
LEMMA DelAccountGroupCourse ==
  ASSUME NEW u \in Users, NEW k \in Keys, NEW r, NEW j, j.op = "del_account",
         NEW s, s = del_account_group(u, k, r)
  PROVE  Resigning(s, u, j, k)
<1>0. Concerned(u, j.op, j.x) = Users
  BY DEF Concerned
<1>1. CASE r = "owner"
  <2> DEFINE a == On("getGroupuuid", k)
             b == On("getGroupMember", k)
  <2>1. /\ Is(a, "getGroupuuid", "go", NoUser, NoRole, k)
        /\ Is(b, "getGroupMember", "go", NoUser, NoRole, k)
    BY CommandNames, StepIs
  <2>2. a \in Steps /\ b \in Steps
    BY <2>1 DEF Is
  <2>3. s = << a, b >>
    BY <1>1 DEF del_account_group, disband_program
  <2> HIDE DEF a, b
  <2>4. s \in Seq(Steps) /\ Len(s) = 2 /\ s[1] = a /\ s[2] = b
    BY <2>2, <2>3, TupleOfTwo
  <2>5. /\ s[1].cmd = "getGroupuuid" /\ s[1].mode = "go" /\ s[1].key = k
        /\ s[2].cmd = "getGroupMember" /\ s[2].mode = "go" /\ s[2].key = k
    BY <2>1, <2>4 DEF Is
  <2>6. ASSUME NEW i \in 1 .. Len(s)
        PROVE  PlaceOK(u, j, s, i) /\ s[i].cmd # "delGroup"
    <3>1. i = 1 \/ i = 2
      BY <2>4
    <3>2. OwnOK(u, j, s[i])
      BY <1>0, <2>5, <3>1 DEF OwnOK, Keyed
    <3>3. LinkOK(j, s, i)
      BY <2>4, <2>5, <3>1 DEF LinkOK, Keyed
    <3>4. OutOK(j, s, i)
      BY <2>5, <3>1 DEF OutOK
    <3> QED
      BY <2>5, <3>1, <3>2, <3>3, <3>4 DEF PlaceOK
  <2> QED
    BY <2>4, <2>5, <2>6 DEF Resigning
<1>2. CASE r # "owner"
  <2> DEFINE a == For("removeGroupMember", u, "member", k)
             b == For("removeGroupManager", u, NoRole, k)
  <2>1. /\ Is(a, "removeGroupMember", "go", u, "member", k)
        /\ Is(b, "removeGroupManager", "go", u, NoRole, k)
    BY CommandNames, StepIs
  <2>2. a \in Steps /\ b \in Steps
    BY <2>1 DEF Is
  <2>3. s = << a, b >>
    BY <1>2 DEF del_account_group
  <2> HIDE DEF a, b
  <2>4. s \in Seq(Steps) /\ Len(s) = 2 /\ s[1] = a /\ s[2] = b
    BY <2>2, <2>3, TupleOfTwo
  <2>5. /\ s[1].cmd = "removeGroupMember" /\ s[1].mode = "go" /\ s[1].key = k /\ s[1].who = u
        /\ s[2].cmd = "removeGroupManager" /\ s[2].mode = "go" /\ s[2].key = k
    BY <2>1, <2>4 DEF Is
  <2>6. ASSUME NEW i \in 1 .. Len(s)
        PROVE  PlaceOK(u, j, s, i) /\ s[i].cmd # "delGroup"
    <3>1. i = 1 \/ i = 2
      BY <2>4
    <3>2. OwnOK(u, j, s[i])
      BY <1>0, <2>5, <3>1 DEF OwnOK, Keyed
    <3>3. LinkOK(j, s, i)
      BY <2>4, <2>5, <3>1 DEF LinkOK, Keyed
    <3>4. OutOK(j, s, i)
      BY DEF OutOK
    <3> QED
      BY <2>5, <3>1, <3>2, <3>3, <3>4 DEF PlaceOK
  <2> QED
    BY <2>4, <2>5, <2>6 DEF Resigning
<1> QED
  BY <1>1, <1>2

\* The role of a user is read.
LEMMA GetGroupManagerLists ==
  ASSUME Inv, Inv', ListInv, NEW u \in Users, getGroupManager(u)
  PROVE  ListInv'
<1>0. CASE Crash
  BY <1>0, CrashLists
<1>1. Shared /\ Busy(u) /\ Now(u).cmd = "getGroupManager"
  BY InvParts DEF getGroupManager, Doing, Crash
<1>2. Known(u)
  BY <1>1, KnownHolds
<1>3. PICK s : s = todo[u]
  OBVIOUS
<1>4. s \in Seq(Steps) /\ s # << >> /\ ProgramOK(s) /\ s[1] = Now(u) /\ CourseOK(u, job[u], s)
  BY <1>2, <1>3 DEF Known, ListInv, CoursesOK
<1>5. PICK t : t = Tail(s)
  OBVIOUS
<1>6. t \in Seq(Steps) /\ CourseOK(u, job[u], t) /\ AfterFirst(s, t)
      /\ (t # << >> \/ job[u].op # "del_account")
  BY <1>1, <1>4, <1>5, CourseTail, DeletionGoesOn, TailAfter DEF AfterFirst
<1>7. PICK k \in Keys : k = Now(u).key
  BY <1>1, <1>2 DEF Known, FieldsOK
<1>8. CASE ~Crash
  <2>1. PICK r, left :
          /\ left = IF job[u].op = "del_account" THEN del_account_group(u, k, r) \o t
                    ELSE IF r \in {"owner", "manager"} THEN << >> ELSE t
          /\ GoOn(u, left, id(u))
    BY <1>3, <1>5, <1>7, <1>8 DEF getGroupManager
  <2>2. UNCHANGED << index, members, lists, account, kicked, mixed, garbage >>
    BY <1>8 DEF getGroupManager, redisVars
  <2>3. Stepped(u, left, id(u))
    BY <1>1, <2>1, GoesOn
  <2>4. ASSUME left \in Seq(Steps), CourseOK(u, job[u], left), job[u].op = "del_account" => left # << >>,
               \A i \in 1 .. Len(left) : left[i].cmd = "delGroup" =>
                  \E h \in 1 .. Len(s) : s[h] = left[i],
               left # << >> => /\ Keyed(left[1]) => left[1].key = k
                               /\ left[1].cmd \notin {"addGroup", "UserSetGroups"}
        PROVE  ListInv'
    <3>1. Kept(u)
      <4> SUFFICES ASSUME NEW x \in Users \ mixed, NEW g \in Keys, InGroup(x, g)
                   PROVE  InGroup(x, g)'
        BY DEF Kept
      <4>1. Doomed(g)' => Doomed(g)
        BY <1>3, <2>3, <2>4, DoomedGrown
      <4> QED
        BY <2>2, <4>1, InGroupStays
    <3>2. Settles(u)
      <4> SUFFICES ASSUME NEW x \in Users \ mixed, NEW g \in lists'[x], Settling(u, x, g)
                   PROVE  Settling(u, x, g)'
        BY DEF Settles
      <4> QED
        BY <1>1, <1>2, <2>3, <2>4, GrownSettles
    <3>3. ASSUME ~garbage
          PROVE  NextFine(u, left, id(u))
      <4>1. ~(Concern(u) \subseteq mixed) => index[k] = id(u)
        BY <1>1, <1>7, <3>3 DEF ListInv, HeldOK, Keyed
      <4> QED
        BY <2>2, <2>4, <4>1 DEF NextFine
    <3> QED
      BY <1>1, <2>2, <2>3, <2>4, <3>1, <3>2, <3>3, StayingLists
  <2>5. CASE job[u].op = "del_account"
    <3>1. PICK f : f = del_account_group(u, k, r)
      OBVIOUS
    <3>2. Resigning(f, u, job[u], k)
      BY <2>5, <3>1, DelAccountGroupCourse
    <3>3. /\ f \in Seq(Steps) /\ Len(f) = 2
          /\ \A i \in 1 .. Len(f) : PlaceOK(u, job[u], f, i) /\ f[i].cmd # "delGroup"
          /\ f[1].cmd \in {"getGroupuuid", "removeGroupMember"} /\ f[1].key = k
      BY <3>2 DEF Resigning
    <3>4. left = f \o t
      BY <2>1, <2>5, <3>1
    <3>5. Loose(t)
      BY <1>1, <1>4, <1>5, <2>5, LooseAfter
    <3>6. CourseOK(u, job[u], left) /\ Joined(f, t, left)
      BY <1>6, <2>5, <3>3, <3>4, <3>5, CourseJoin, JoinedAt
    <3>7. left \in Seq(Steps) /\ left[1] = f[1] /\ left # << >>
      <4>1. 1 \in 1 .. Len(f) /\ Len(left) # 0
        BY <3>3, <3>6 DEF Joined
      <4> QED
        BY <3>6, <4>1 DEF Joined
    <3>8. ASSUME NEW i \in 1 .. Len(left), left[i].cmd = "delGroup"
          PROVE  \E h \in 1 .. Len(s) : s[h] = left[i]
      <4>1. PICK h \in 1 .. Len(t) : left[i] = t[h]
        BY <3>3, <3>6, <3>8 DEF Joined
      <4> QED
        BY <1>6, <4>1 DEF AfterFirst
    <3> QED
      BY <2>4, <3>3, <3>6, <3>7, <3>8
  <2>6. CASE job[u].op # "del_account" /\ left = << >>
    <3>1. CourseOK(u, job[u], left) /\ left \in Seq(Steps) /\ 1 .. Len(left) = {}
      BY <2>6, CourseEmpty, EmptyProgram
    <3> QED
      BY <2>4, <2>6, <3>1
  <2>7. CASE job[u].op # "del_account" /\ left = t
    <3>1. \A i \in 1 .. Len(t) : \E h \in 1 .. Len(s) : s[h] = t[i]
      BY <1>6 DEF AfterFirst
    <3>2. t # << >> => /\ Keyed(t[1]) => t[1].key = k
                       /\ t[1].cmd \notin {"addGroup", "UserSetGroups"}
      BY <1>1, <1>4, <1>5, <1>7, LinkFirst
    <3> QED
      BY <1>6, <2>4, <2>7, <3>1, <3>2
  <2> QED
    BY <2>1, <2>5, <2>6, <2>7
<1> QED
  BY <1>0, <1>8

-----------------------------------------------------------------------------
(* Requests, and the lists.                                                *)

Asked(op, k, x) == [op |-> op, key |-> k, id |-> NoUuid, x |-> x]

\* A handler begins.
Started(u, j, s) ==
    /\ ~Busy(u) /\ s \in Seq(Steps) /\ s # << >>
    /\ todo'[u] = s /\ job'[u] = j
    /\ \A v \in Users \ {u} : todo'[v] = todo[v] /\ job'[v] = job[v]
    /\ mixed \subseteq mixed'
    /\ \A y \in Concerned(u, j.op, j.x), v \in Users : Busy(v) /\ y \in Concern(v) => y \in mixed'
    /\ UNCHANGED << account, index, members, lists, kicked, garbage >>

LEMMA BeginStarts ==
  ASSUME Inv, NEW u \in Users, NEW op, NEW k, NEW x, NEW s \in Seq(Steps), s # << >>,
         Begin(u, op, k, x, s)
  PROVE  Started(u, Asked(op, k, x), s)
<1>1. job \in [Users -> Jobs] /\ todo \in [Users -> Seq(Steps)]
  BY InvParts DEF TablesOK
<1>2. /\ job' = [job EXCEPT ![u] = Asked(op, k, x)] /\ todo' = [todo EXCEPT ![u] = s] /\ ~Busy(u)
  BY DEF Begin, Asked
<1>3. todo'[u] = s /\ job'[u] = Asked(op, k, x)
      /\ \A v \in Users \ {u} : todo'[v] = todo[v] /\ job'[v] = job[v]
  BY <1>1, <1>2
<1>4. mixed' = mixed \cup
          {y \in Concerned(u, op, x) : \E v \in Users : Busy(v) /\ y \in Concern(v)}
  BY DEF Begin, Concern
<1>5. UNCHANGED << account, index, members, lists, kicked, garbage >>
  BY DEF Begin, redisVars
<1>6. Asked(op, k, x).op = op /\ Asked(op, k, x).x = x
  BY DEF Asked
<1> QED
  BY <1>2, <1>3, <1>4, <1>5, <1>6 DEF Started

\* The handlers that ran before.
LEMMA StartedOthers ==
  ASSUME NEW u \in Users, NEW j, NEW s, Started(u, j, s), NEW v \in Users, v # u
  PROVE  /\ todo'[v] = todo[v] /\ job'[v] = job[v]
         /\ Busy(v)' <=> Busy(v)
         /\ Now(v)' = Now(v) /\ id(v)' = id(v) /\ Concern(v)' = Concern(v)
         /\ \A x, k : Settling(v, x, k)' <=> Settling(v, x, k)
<1>1. todo'[v] = todo[v] /\ job'[v] = job[v]
  BY DEF Started
<1>2. Busy(v)' <=> Busy(v) 
  BY <1>1 DEF Busy
<1>3. Now(v)' = Now(v) /\ id(v)' = id(v)
  BY <1>1 DEF Now, id
<1>4. Concern(v)' = Concern(v)
  BY <1>1 DEF Concern
<1>5. ASSUME NEW x, NEW k
      PROVE  Settling(v, x, k)' <=> Settling(v, x, k)
  BY <1>1, <1>2 DEF Settling
<1> QED
  BY <1>1, <1>2, <1>3, <1>4, <1>5

\* A request changes no list; what it concerns is mixed from now on with what
\* the other handlers concern.
LEMMA BegunLists ==
  ASSUME Inv, ListInv, NEW u \in Users, NEW j, NEW s, Started(u, j, s), FreshProgram(s),
         s[1].cmd # "addGroup", CourseOK(u, j, s)
  PROVE  ListInv'
<1>1. /\ UNCHANGED << account, index, members, lists, kicked, garbage >>
      /\ mixed \subseteq mixed' /\ ~Busy(u) /\ todo'[u] = s /\ job'[u] = j
      /\ s \in Seq(Steps) /\ s # << >>
  BY DEF Started
<1>2. Now(u)' = s[1] /\ Busy(u)' /\ Concern(u)' = Concerned(u, j.op, j.x)
  <2>1. Head(s) = s[1]
    BY <1>1
  <2> QED
    BY <1>1, <2>1 DEF Now, Busy, Concern
<1>3. CoursesOK /\ ApartOK
  BY DEF ListInv
<1>4. CoursesOK'
  <2> SUFFICES ASSUME NEW v \in Users
               PROVE  CourseOK(v, job'[v], todo'[v])
    BY DEF CoursesOK
  <2>1. CASE v = u
    BY <1>1, <2>1
  <2>2. CASE v # u
    BY <1>3, <2>2, StartedOthers DEF CoursesOK
  <2> QED
    BY <2>1, <2>2
<1>5. ASSUME NEW v \in Users, v # u, Busy(v)'
      PROVE  Concern(u)' \cap Concern(v)' \subseteq mixed'
  <2>1. Busy(v) /\ Concern(v)' = Concern(v)
    BY <1>5, StartedOthers
  <2> QED
    BY <1>2, <2>1 DEF Started
<1>6. ApartOK'
  <2> SUFFICES ASSUME NEW v \in Users, NEW w \in Users, v # w, Busy(v)', Busy(w)'
               PROVE  Concern(v)' \cap Concern(w)' \subseteq mixed'
    BY DEF ApartOK
  <2>1. CASE v = u \/ w = u
    BY <1>5, <2>1
  <2>2. CASE v # u /\ w # u
    <3>1. Busy(v) /\ Busy(w) /\ Concern(v)' = Concern(v) /\ Concern(w)' = Concern(w)
      BY <2>2, StartedOthers
    <3> QED
      BY <1>1, <1>3, <3>1 DEF ApartOK
  <2> QED
    BY <2>1, <2>2
<1>7. s[1].cmd \in {"GroupExists", "getGroupuuid", "deleteHashKey"}
  BY DEF FreshProgram, NoId
<1>8. ASSUME NEW k, Doomed(k)'
      PROVE  Doomed(k)
  <2>1. PICK v \in Users : \E i \in 1 .. Len(todo'[v]) :
            todo'[v][i].cmd = "delGroup" /\ todo'[v][i].key = k
    BY <1>8 DEF Doomed
  <2>2. PICK i \in 1 .. Len(todo'[v]) : todo'[v][i].cmd = "delGroup" /\ todo'[v][i].key = k
    BY <2>1
  <2>3. v # u
    BY <1>1, <2>2 DEF FreshProgram
  <2>4. todo'[v] = todo[v]
    BY <2>3, StartedOthers
  <2> QED
    BY <2>2, <2>4 DEF Doomed
<1>9. ASSUME NEW x, NEW k, InGroup(x, k)
      PROVE  InGroup(x, k)'
  <2>1. Doomed(k)' => Doomed(k)
    BY <1>8
  <2> QED
    BY <1>1, <1>9, <2>1, InGroupStays
<1>10. ASSUME ~garbage
       PROVE  HeldOK' /\ MakesOK' /\ SetsOK' /\ ListedOK'
  <2>1. HeldOK /\ MakesOK /\ SetsOK /\ ListedOK
    BY <1>10 DEF ListInv
  <2>2. HeldOK'
    <3> SUFFICES ASSUME NEW v \in Users, Busy(v)', Keyed(Now(v)'), ~(Concern(v)' \subseteq mixed')
                 PROVE  index'[Now(v)'.key] = id(v)'
      BY DEF HeldOK, Keyed
    <3>1. v # u
      BY <1>2, <1>7 DEF Keyed
    <3>2. Busy(v) /\ Keyed(Now(v)) /\ ~(Concern(v) \subseteq mixed) /\ id(v)' = id(v) /\ Now(v)' = Now(v)
      BY <1>1, <3>1, StartedOthers
    <3>3. index[Now(v).key] = id(v)
      BY <2>1, <3>2 DEF HeldOK
    <3> QED
      BY <1>1, <3>2, <3>3
  <2>3. MakesOK'
    <3> SUFFICES ASSUME NEW v \in Users, Busy(v)', Now(v)'.cmd = "addGroup"
                 PROVE  index'[Now(v)'.key] = NoUuid
      BY DEF MakesOK
    <3>1. v # u
      BY <1>2
    <3>2. Busy(v) /\ Now(v).cmd = "addGroup" /\ Now(v)' = Now(v)
      BY <3>1, StartedOthers
    <3>3. index[Now(v).key] = NoUuid
      BY <2>1, <3>2 DEF MakesOK
    <3> QED
      BY <1>1, <3>2, <3>3
  <2>4. SetsOK'
    <3> SUFFICES ASSUME NEW v \in Users, Busy(v)', Now(v)'.cmd = "UserSetGroups",
                        NEW x, x = Now(v)'.who, x \notin mixed', NEW k, k = Now(v)'.key
                 PROVE  InGroup(x, k)'
      BY DEF SetsOK, InGroup, Belongs, Doomed
    <3>1. v # u
      BY <1>2, <1>7
    <3>2. Busy(v) /\ Now(v).cmd = "UserSetGroups" /\ x = Now(v).who /\ k = Now(v).key
      BY <3>1, StartedOthers
    <3>3. InGroup(x, k)
      BY <1>1, <2>1, <3>2 DEF SetsOK
    <3> QED
      BY <1>9, <3>3
  <2>5. ListedOK'
    <3> SUFFICES ASSUME NEW x \in Users \ mixed, NEW k \in lists[x],
                        ~Excused(x, k), ~InGroup(x, k)'
                 PROVE  \E v \in Users : Settling(v, x, k)'
      BY <1>1 DEF ListedOK, Excused
    <3>1. ~InGroup(x, k)
      BY <1>9
    <3>2. PICK v \in Users : Settling(v, x, k)
      BY <2>1, <3>1 DEF ListedOK
    <3>3. v # u
      BY <1>1, <3>2 DEF Settling
    <3> QED
      BY <3>2, <3>3, StartedOthers
  <2> QED
    BY <2>2, <2>3, <2>4, <2>5
<1> QED
  BY <1>1, <1>4, <1>6, <1>10 DEF ListInv

\* Making a group is a course.
LEMMA AddGroupCourse ==
  ASSUME NEW u \in Users, NEW k \in Keys, k[2] = u,
         NEW s, s = add_group_program(u, k),
         NEW j, j.op = "add_group"
  PROVE  CourseOK(u, j, s) /\ s[1].cmd # "addGroup"
<1>1. /\ s \in Seq(Steps) /\ Len(s) = 5
      /\ Is(s[1], "GroupExists", "unless", NoUser, NoRole, k)
      /\ Is(s[2], "addGroup", "go", NoUser, NoRole, k)
      /\ Is(s[3], "SetGroupMember", "go", u, "owner", k)
      /\ Is(s[4], "UserSetGroups", "go", u, NoRole, k)
      /\ Is(s[5], "SetGroupManager", "go", u, "owner", k)
  BY AddGroupSteps
<1>2. /\ Len(s) = 5
      /\ s[1].cmd = "GroupExists" /\ s[1].mode = "unless" /\ s[1].key = k
      /\ s[2].cmd = "addGroup" /\ s[2].mode = "go" /\ s[2].key = k
      /\ s[3].cmd = "SetGroupMember" /\ s[3].mode = "go" /\ s[3].key = k /\ s[3].who = u
      /\ s[4].cmd = "UserSetGroups" /\ s[4].mode = "go" /\ s[4].key = k /\ s[4].who = u
      /\ s[5].cmd = "SetGroupManager" /\ s[5].mode = "go" /\ s[5].key = k /\ s[5].who = u /\ s[5].role = "owner"
  BY <1>1 DEF Is
<1>3. Concerned(u, j.op, j.x) = {u}
  BY DEF Concerned
<1>4. ASSUME NEW i \in 1 .. Len(s)
      PROVE  PlaceOK(u, j, s, i)
  <2>1. i = 1 \/ i = 2 \/ i = 3 \/ i = 4 \/ i = 5
    BY <1>2
  <2>2. OwnOK(u, j, s[i])
    BY <1>2, <1>3, <2>1 DEF OwnOK, Keyed
  <2>3. LinkOK(j, s, i)
    BY <1>2, <2>1 DEF LinkOK, Keyed
  <2>4. OutOK(j, s, i)
    BY <1>2, <2>1 DEF OutOK, Removing, Removal
  <2> QED
    BY <2>2, <2>3, <2>4 DEF PlaceOK
<1> QED
  BY <1>2, <1>4 DEF CourseOK

\* So is an application,
LEMMA JoinCourse ==
  ASSUME NEW u \in Users, NEW k \in Keys,
         NEW s, s = join_group_program(u, k),
         NEW j, j.op = "join_group"
  PROVE  CourseOK(u, j, s) /\ s[1].cmd # "addGroup"
<1>1. /\ s \in Seq(Steps) /\ Len(s) = 3
      /\ Is(s[1], "GroupExists", "needs", NoUser, NoRole, k)
      /\ Is(s[2], "getGroupuuid", "go", NoUser, NoRole, k)
      /\ Is(s[3], "getManagers", "go", u, NoRole, k)
  BY JoinSteps
<1>2. /\ Len(s) = 3
      /\ s[1].cmd = "GroupExists" /\ s[1].mode = "needs" /\ s[1].key = k
      /\ s[2].cmd = "getGroupuuid" /\ s[2].mode = "go" /\ s[2].key = k
      /\ s[3].cmd = "getManagers" /\ s[3].mode = "go" /\ s[3].key = k /\ s[3].who = u
  BY <1>1 DEF Is
<1>3. Concerned(u, j.op, j.x) = {}
  BY DEF Concerned
<1>4. ASSUME NEW i \in 1 .. Len(s)
      PROVE  PlaceOK(u, j, s, i)
  <2>1. i = 1 \/ i = 2 \/ i = 3
    BY <1>2
  <2>2. OwnOK(u, j, s[i])
    BY <1>2, <1>3, <2>1 DEF OwnOK, Keyed
  <2>3. LinkOK(j, s, i)
    BY <1>2, <2>1 DEF LinkOK, Keyed
  <2>4. OutOK(j, s, i)
    BY <1>2, <2>1 DEF OutOK, Removing, Removal
  <2> QED
    BY <2>2, <2>3, <2>4 DEF PlaceOK
<1> QED
  BY <1>2, <1>4 DEF CourseOK

\* an acceptance,
LEMMA AcceptCourse ==
  ASSUME NEW x \in Users, NEW k \in Keys,
         NEW s, s = << On("getGroupuuid", k) >>
                 \o << If("userFieldHexists", "needs", x, NoRole, k),
                       For("SetGroupMember", x, "member", k),
                       For("UserSetGroups", x, NoRole, k) >>
                 \o << For("getManagers", x, NoRole, k) >>,
         NEW v \in Users, NEW j, j.op = "group_decide", j.x = x
  PROVE  CourseOK(v, j, s) /\ s[1].cmd # "addGroup"
<1>1. /\ s \in Seq(Steps) /\ Len(s) = 5
      /\ Is(s[1], "getGroupuuid", "go", NoUser, NoRole, k)
      /\ Is(s[2], "userFieldHexists", "needs", x, NoRole, k)
      /\ Is(s[3], "SetGroupMember", "go", x, "member", k)
      /\ Is(s[4], "UserSetGroups", "go", x, NoRole, k)
      /\ Is(s[5], "getManagers", "go", x, NoRole, k)
  BY AcceptSteps
<1>2. /\ Len(s) = 5
      /\ s[1].cmd = "getGroupuuid" /\ s[1].mode = "go" /\ s[1].key = k
      /\ s[2].cmd = "userFieldHexists" /\ s[2].mode = "needs" /\ s[2].key = k /\ s[2].who = x
      /\ s[3].cmd = "SetGroupMember" /\ s[3].mode = "go" /\ s[3].key = k /\ s[3].who = x
      /\ s[4].cmd = "UserSetGroups" /\ s[4].mode = "go" /\ s[4].key = k /\ s[4].who = x
      /\ s[5].cmd = "getManagers" /\ s[5].mode = "go" /\ s[5].key = k /\ s[5].who = x
  BY <1>1 DEF Is
<1>3. Concerned(v, j.op, j.x) = {x}
  BY DEF Concerned
<1>4. ASSUME NEW i \in 1 .. Len(s)
      PROVE  PlaceOK(v, j, s, i)
  <2>1. i = 1 \/ i = 2 \/ i = 3 \/ i = 4 \/ i = 5
    BY <1>2
  <2>2. OwnOK(v, j, s[i])
    BY <1>2, <1>3, <2>1 DEF OwnOK, Keyed
  <2>3. LinkOK(j, s, i)
    BY <1>2, <2>1 DEF LinkOK, Keyed
  <2>4. OutOK(j, s, i)
    BY <1>2, <2>1 DEF OutOK, Removing, Removal
  <2> QED
    BY <2>2, <2>3, <2>4 DEF PlaceOK
<1> QED
  BY <1>2, <1>4 DEF CourseOK

\* a refusal,
LEMMA RefuseCourse ==
  ASSUME NEW x \in Users, NEW k \in Keys,
         NEW s, s = << On("getGroupuuid", k) >> \o << >> \o << For("getManagers", x, NoRole, k) >>,
         NEW v \in Users, NEW j, j.op = "group_decide", j.x = x
  PROVE  CourseOK(v, j, s) /\ s[1].cmd # "addGroup"
<1>1. /\ s \in Seq(Steps) /\ Len(s) = 2
      /\ Is(s[1], "getGroupuuid", "go", NoUser, NoRole, k)
      /\ Is(s[2], "getManagers", "go", x, NoRole, k)
  BY RefuseSteps
<1>2. /\ Len(s) = 2
      /\ s[1].cmd = "getGroupuuid" /\ s[1].mode = "go" /\ s[1].key = k
      /\ s[2].cmd = "getManagers" /\ s[2].mode = "go" /\ s[2].key = k /\ s[2].who = x
  BY <1>1 DEF Is
<1>3. Concerned(v, j.op, j.x) = {x}
  BY DEF Concerned
<1>4. ASSUME NEW i \in 1 .. Len(s)
      PROVE  PlaceOK(v, j, s, i)
  <2>1. i = 1 \/ i = 2
    BY <1>2
  <2>2. OwnOK(v, j, s[i])
    BY <1>2, <1>3, <2>1 DEF OwnOK, Keyed
  <2>3. LinkOK(j, s, i)
    BY <1>2, <2>1 DEF LinkOK, Keyed
  <2>4. OutOK(j, s, i)
    BY <1>2, <2>1 DEF OutOK, Removing, Removal
  <2> QED
    BY <2>2, <2>3, <2>4 DEF PlaceOK
<1> QED
  BY <1>2, <1>4 DEF CourseOK

\* an appointment,
LEMMA AddManagerCourse ==
  ASSUME NEW x \in Users, NEW k \in Keys,
         NEW s, s = add_manager_program(x, k),
         NEW v \in Users, NEW j, j.op = "add_manager", j.x = x
  PROVE  CourseOK(v, j, s) /\ s[1].cmd # "addGroup"
<1>1. /\ s \in Seq(Steps) /\ Len(s) = 4
      /\ Is(s[1], "getGroupuuid", "go", NoUser, NoRole, k)
      /\ Is(s[2], "SetGroupManager", "needs", x, "manager", k)
      /\ Is(s[3], "removeGroupMember", "go", x, "member", k)
      /\ Is(s[4], "SetGroupMember", "go", x, "manager", k)
  BY AddManagerSteps
<1>2. /\ Len(s) = 4
      /\ s[1].cmd = "getGroupuuid" /\ s[1].mode = "go" /\ s[1].key = k
      /\ s[2].cmd = "SetGroupManager" /\ s[2].mode = "needs" /\ s[2].key = k /\ s[2].who = x /\ s[2].role = "manager"
      /\ s[3].cmd = "removeGroupMember" /\ s[3].mode = "go" /\ s[3].key = k /\ s[3].who = x
      /\ s[4].cmd = "SetGroupMember" /\ s[4].mode = "go" /\ s[4].key = k /\ s[4].who = x
  BY <1>1 DEF Is
<1>3. Concerned(v, j.op, j.x) = {x}
  BY DEF Concerned
<1>4. ASSUME NEW i \in 1 .. Len(s)
      PROVE  PlaceOK(v, j, s, i)
  <2>1. i = 1 \/ i = 2 \/ i = 3 \/ i = 4
    BY <1>2
  <2>2. OwnOK(v, j, s[i])
    BY <1>2, <1>3, <2>1 DEF OwnOK, Keyed
  <2>3. LinkOK(j, s, i)
    BY <1>2, <2>1 DEF LinkOK, Keyed
  <2>4. OutOK(j, s, i)
    BY <1>2, <2>1 DEF OutOK, Removing, Removal
  <2> QED
    BY <2>2, <2>3, <2>4 DEF PlaceOK
<1> QED
  BY <1>2, <1>4 DEF CourseOK

\* a dismissal,
LEMMA DelManagerCourse ==
  ASSUME NEW x \in Users, NEW k \in Keys,
         NEW s, s = del_manager_program(x, k),
         NEW v \in Users, NEW j, j.op = "del_manager", j.x = x
  PROVE  CourseOK(v, j, s) /\ s[1].cmd # "addGroup"
<1>1. /\ s \in Seq(Steps) /\ Len(s) = 4
      /\ Is(s[1], "getGroupuuid", "go", NoUser, NoRole, k)
      /\ Is(s[2], "removeGroupManager", "needs", x, NoRole, k)
      /\ Is(s[3], "removeGroupMember", "go", x, "manager", k)
      /\ Is(s[4], "SetGroupMember", "go", x, "member", k)
  BY DelManagerSteps
<1>2. /\ Len(s) = 4
      /\ s[1].cmd = "getGroupuuid" /\ s[1].mode = "go" /\ s[1].key = k
      /\ s[2].cmd = "removeGroupManager" /\ s[2].mode = "needs" /\ s[2].key = k /\ s[2].who = x
      /\ s[3].cmd = "removeGroupMember" /\ s[3].mode = "go" /\ s[3].key = k /\ s[3].who = x
      /\ s[4].cmd = "SetGroupMember" /\ s[4].mode = "go" /\ s[4].key = k /\ s[4].who = x
  BY <1>1 DEF Is
<1>3. Concerned(v, j.op, j.x) = {x}
  BY DEF Concerned
<1>4. ASSUME NEW i \in 1 .. Len(s)
      PROVE  PlaceOK(v, j, s, i)
  <2>1. i = 1 \/ i = 2 \/ i = 3 \/ i = 4
    BY <1>2
  <2>2. OwnOK(v, j, s[i])
    BY <1>2, <1>3, <2>1 DEF OwnOK, Keyed
  <2>3. LinkOK(j, s, i)
    BY <1>2, <2>1 DEF LinkOK, Keyed
  <2>4. OutOK(j, s, i)
    BY <1>2, <2>1 DEF OutOK, Removing, Removal
  <2> QED
    BY <2>2, <2>3, <2>4 DEF PlaceOK
<1> QED
  BY <1>2, <1>4 DEF CourseOK

\* adding a member,
LEMMA AddMemberCourse ==
  ASSUME NEW x \in Users, NEW k \in Keys,
         NEW s, s = add_member_program(x, k),
         NEW v \in Users, NEW j, j.op = "add_member", j.x = x
  PROVE  CourseOK(v, j, s) /\ s[1].cmd # "addGroup"
<1>1. /\ s \in Seq(Steps) /\ Len(s) = 3
      /\ Is(s[1], "getGroupuuid", "go", NoUser, NoRole, k)
      /\ Is(s[2], "SetGroupMember", "needs", x, "member", k)
      /\ Is(s[3], "UserSetGroups", "go", x, NoRole, k)
  BY AddMemberSteps
<1>2. /\ Len(s) = 3
      /\ s[1].cmd = "getGroupuuid" /\ s[1].mode = "go" /\ s[1].key = k
      /\ s[2].cmd = "SetGroupMember" /\ s[2].mode = "needs" /\ s[2].key = k /\ s[2].who = x
      /\ s[3].cmd = "UserSetGroups" /\ s[3].mode = "go" /\ s[3].key = k /\ s[3].who = x
  BY <1>1 DEF Is
<1>3. Concerned(v, j.op, j.x) = {x}
  BY DEF Concerned
<1>4. ASSUME NEW i \in 1 .. Len(s)
      PROVE  PlaceOK(v, j, s, i)
  <2>1. i = 1 \/ i = 2 \/ i = 3
    BY <1>2
  <2>2. OwnOK(v, j, s[i])
    BY <1>2, <1>3, <2>1 DEF OwnOK, Keyed
  <2>3. LinkOK(j, s, i)
    BY <1>2, <2>1 DEF LinkOK, Keyed
  <2>4. OutOK(j, s, i)
    BY <1>2, <2>1 DEF OutOK, Removing, Removal
  <2> QED
    BY <2>2, <2>3, <2>4 DEF PlaceOK
<1> QED
  BY <1>2, <1>4 DEF CourseOK

\* a kick by the owner,
LEMMA DelByOwnerCourse ==
  ASSUME NEW x \in Users, NEW k \in Keys,
         NEW s, s = del_member_owner_program(x, k),
         NEW v \in Users, NEW j, j.op = "del_member_owner", j.x = x
  PROVE  CourseOK(v, j, s) /\ s[1].cmd # "addGroup"
<1>1. /\ s \in Seq(Steps) /\ Len(s) = 5
      /\ Is(s[1], "getGroupuuid", "go", NoUser, NoRole, k)
      /\ Is(s[2], "removeGroupMember", "or", x, "member", k)
      /\ Is(s[3], "removeGroupMember", "needs", x, "manager", k)
      /\ Is(s[4], "UserRemoveGroups", "go", x, NoRole, k)
      /\ Is(s[5], "removeGroupManager", "go", x, NoRole, k)
  BY DelByOwnerSteps
<1>2. /\ Len(s) = 5
      /\ s[1].cmd = "getGroupuuid" /\ s[1].mode = "go" /\ s[1].key = k
      /\ s[2].cmd = "removeGroupMember" /\ s[2].mode = "or" /\ s[2].key = k /\ s[2].who = x
      /\ s[3].cmd = "removeGroupMember" /\ s[3].mode = "needs" /\ s[3].key = k /\ s[3].who = x
      /\ s[4].cmd = "UserRemoveGroups" /\ s[4].mode = "go" /\ s[4].key = k /\ s[4].who = x
      /\ s[5].cmd = "removeGroupManager" /\ s[5].mode = "go" /\ s[5].key = k /\ s[5].who = x
  BY <1>1 DEF Is
<1>3. Concerned(v, j.op, j.x) = {x}
  BY DEF Concerned
<1>4. ASSUME NEW i \in 1 .. Len(s)
      PROVE  PlaceOK(v, j, s, i)
  <2>1. i = 1 \/ i = 2 \/ i = 3 \/ i = 4 \/ i = 5
    BY <1>2
  <2>2. OwnOK(v, j, s[i])
    BY <1>2, <1>3, <2>1 DEF OwnOK, Keyed
  <2>3. LinkOK(j, s, i)
    BY <1>2, <2>1 DEF LinkOK, Keyed
  <2>4. OutOK(j, s, i)
    BY <1>2, <2>1 DEF OutOK, Removing, Removal
  <2> QED
    BY <2>2, <2>3, <2>4 DEF PlaceOK
<1> QED
  BY <1>2, <1>4 DEF CourseOK

\* a kick by a manager,
LEMMA DelByManagerCourse ==
  ASSUME NEW x \in Users, NEW k \in Keys,
         NEW s, s = del_member_manager_program(x, k),
         NEW v \in Users, NEW j, j.op = "del_member_manager", j.x = x, j.key = k
  PROVE  CourseOK(v, j, s) /\ s[1].cmd # "addGroup"
<1>1. /\ s \in Seq(Steps) /\ Len(s) = 5
      /\ Is(s[1], "getGroupuuid", "go", NoUser, NoRole, k)
      /\ Is(s[2], "getGroupManager", "go", x, NoRole, k)
      /\ Is(s[3], "removeGroupMember", "needs", x, "member", k)
      /\ Is(s[4], "UserRemoveGroups", "go", x, NoRole, swapped(k))
      /\ Is(s[5], "removeGroupManager", "go", x, NoRole, k)
  BY DelByManagerSteps
<1>2. /\ Len(s) = 5
      /\ s[1].cmd = "getGroupuuid" /\ s[1].mode = "go" /\ s[1].key = k
      /\ s[2].cmd = "getGroupManager" /\ s[2].mode = "go" /\ s[2].key = k /\ s[2].who = x
      /\ s[3].cmd = "removeGroupMember" /\ s[3].mode = "needs" /\ s[3].key = k /\ s[3].who = x
      /\ s[4].cmd = "UserRemoveGroups" /\ s[4].mode = "go" /\ s[4].key = swapped(k) /\ s[4].who = x
      /\ s[5].cmd = "removeGroupManager" /\ s[5].mode = "go" /\ s[5].key = k /\ s[5].who = x
  BY <1>1 DEF Is
<1>3. Concerned(v, j.op, j.x) = {x}
  BY DEF Concerned
<1>4. ASSUME NEW i \in 1 .. Len(s)
      PROVE  PlaceOK(v, j, s, i)
  <2>1. i = 1 \/ i = 2 \/ i = 3 \/ i = 4 \/ i = 5
    BY <1>2
  <2>2. OwnOK(v, j, s[i])
    BY <1>2, <1>3, <2>1 DEF OwnOK, Keyed
  <2>3. LinkOK(j, s, i)
    BY <1>2, <2>1 DEF LinkOK, Keyed
  <2>4. OutOK(j, s, i)
    BY <1>2, <2>1 DEF OutOK, Removing, Removal
  <2> QED
    BY <2>2, <2>3, <2>4 DEF PlaceOK
<1> QED
  BY <1>2, <1>4 DEF CourseOK

\* a departure,
LEMMA LeaveCourse ==
  ASSUME NEW u \in Users, NEW k \in Keys, NEW r \in {"manager", "member"},
         NEW s, s = leave_group_program(u, k, r),
         NEW j, j.op = "leave_group"
  PROVE  CourseOK(u, j, s) /\ s[1].cmd # "addGroup"
<1>1. /\ s \in Seq(Steps) /\ Len(s) = 5
      /\ Is(s[1], "getGroupuuid", "go", NoUser, NoRole, k)
      /\ Is(s[2], "removeGroupMember", "needs", u, r, k)
      /\ Is(s[3], "isManager", "and", u, NoRole, k)
      /\ Is(s[4], "removeGroupManager", "go", u, NoRole, k)
      /\ Is(s[5], "UserRemoveGroups", "go", u, NoRole, k)
  BY LeaveSteps
<1>2. /\ Len(s) = 5
      /\ s[1].cmd = "getGroupuuid" /\ s[1].mode = "go" /\ s[1].key = k
      /\ s[2].cmd = "removeGroupMember" /\ s[2].mode = "needs" /\ s[2].key = k /\ s[2].who = u
      /\ s[3].cmd = "isManager" /\ s[3].mode = "and" /\ s[3].key = k /\ s[3].who = u
      /\ s[4].cmd = "removeGroupManager" /\ s[4].mode = "go" /\ s[4].key = k /\ s[4].who = u
      /\ s[5].cmd = "UserRemoveGroups" /\ s[5].mode = "go" /\ s[5].key = k /\ s[5].who = u
  BY <1>1 DEF Is
<1>3. Concerned(u, j.op, j.x) = {u}
  BY DEF Concerned
<1>4. ASSUME NEW i \in 1 .. Len(s)
      PROVE  PlaceOK(u, j, s, i)
  <2>1. i = 1 \/ i = 2 \/ i = 3 \/ i = 4 \/ i = 5
    BY <1>2
  <2>2. OwnOK(u, j, s[i])
    BY <1>2, <1>3, <2>1 DEF OwnOK, Keyed
  <2>3. LinkOK(j, s, i)
    BY <1>2, <2>1 DEF LinkOK, Keyed
  <2>4. OutOK(j, s, i)
    BY <1>2, <2>1 DEF OutOK, Removing, Removal
  <2> QED
    BY <2>2, <2>3, <2>4 DEF PlaceOK
<1> QED
  BY <1>2, <1>4 DEF CourseOK

\* the disbanding of a group,
LEMMA DisbandCourse ==
  ASSUME NEW k \in Keys,
         NEW s, s = disband_program(k),
         NEW v \in Users, NEW j, j.op = "disband_group"
  PROVE  CourseOK(v, j, s) /\ s[1].cmd # "addGroup"
<1>1. /\ s \in Seq(Steps) /\ Len(s) = 2
      /\ Is(s[1], "getGroupuuid", "go", NoUser, NoRole, k)
      /\ Is(s[2], "getGroupMember", "go", NoUser, NoRole, k)
  BY DisbandSteps
<1>2. /\ Len(s) = 2
      /\ s[1].cmd = "getGroupuuid" /\ s[1].mode = "go" /\ s[1].key = k
      /\ s[2].cmd = "getGroupMember" /\ s[2].mode = "go" /\ s[2].key = k
  BY <1>1 DEF Is
<1>3. Concerned(v, j.op, j.x) = Users
  BY DEF Concerned
<1>4. ASSUME NEW i \in 1 .. Len(s)
      PROVE  PlaceOK(v, j, s, i)
  <2>1. i = 1 \/ i = 2
    BY <1>2
  <2>2. OwnOK(v, j, s[i])
    BY <1>2, <1>3, <2>1 DEF OwnOK, Keyed
  <2>3. LinkOK(j, s, i)
    BY <1>2, <2>1 DEF LinkOK, Keyed
  <2>4. OutOK(j, s, i)
    BY <1>2, <2>1 DEF OutOK, Removing, Removal
  <2> QED
    BY <2>2, <2>3, <2>4 DEF PlaceOK
<1> QED
  BY <1>2, <1>4 DEF CourseOK

\* and entering a group.
LEMMA ChoiceCourse ==
  ASSUME NEW k \in Keys,
         NEW s, s = << On("getGroupuuid", k), On("choose", k) >>,
         NEW v \in Users, NEW j, j.op = "group_choice"
  PROVE  CourseOK(v, j, s) /\ s[1].cmd # "addGroup"
<1>1. /\ s \in Seq(Steps) /\ Len(s) = 2
      /\ Is(s[1], "getGroupuuid", "go", NoUser, NoRole, k)
      /\ Is(s[2], "choose", "go", NoUser, NoRole, k)
  BY ChoiceSteps
<1>2. /\ Len(s) = 2
      /\ s[1].cmd = "getGroupuuid" /\ s[1].mode = "go" /\ s[1].key = k
      /\ s[2].cmd = "choose" /\ s[2].mode = "go" /\ s[2].key = k
  BY <1>1 DEF Is
<1>3. Concerned(v, j.op, j.x) = {}
  BY DEF Concerned
<1>4. ASSUME NEW i \in 1 .. Len(s)
      PROVE  PlaceOK(v, j, s, i)
  <2>1. i = 1 \/ i = 2
    BY <1>2
  <2>2. OwnOK(v, j, s[i])
    BY <1>2, <1>3, <2>1 DEF OwnOK, Keyed
  <2>3. LinkOK(j, s, i)
    BY <1>2, <2>1 DEF LinkOK, Keyed
  <2>4. OutOK(j, s, i)
    BY <1>2, <2>1 DEF OutOK, Removing, Removal
  <2> QED
    BY <2>2, <2>3, <2>4 DEF PlaceOK
<1> QED
  BY <1>2, <1>4 DEF CourseOK

\* A pair of commands for each group, and the last one.
LooksAt(s, n, order) ==
    /\ Len(s) = 2 * n + 1
    /\ s[Len(s)].cmd = "deleteHashKey" /\ s[Len(s)].mode = "go"
    /\ \A i \in 1 .. 2 * n :
          /\ i % 2 = 1 => /\ s[i].cmd = "getGroupuuid" /\ s[i].mode = "go"
                          /\ s[i].key = order[(i + 1) \div 2]
          /\ i % 2 # 1 => /\ s[i].cmd = "getGroupManager" /\ s[i].mode = "go"
                          /\ s[i].key = order[i \div 2]

\* The commands that delete an account.
LEMMA DelAccountSteps ==
  ASSUME NEW u \in Users, NEW n \in Nat, NEW order \in [1 .. n -> Keys],
         NEW s, s = del_account_program(u, order)
  PROVE  LooksAt(s, n, order)
<1>1. order \in Seq(Keys) /\ Len(order) = n
  OBVIOUS
<1> DEFINE last == For("deleteHashKey", u, NoRole, NoKey)
<1>2. Is(last, "deleteHashKey", "go", u, NoRole, NoKey)
  BY CommandNames, StepIs
<1>3. ASSUME NEW k \in Keys
      PROVE  /\ Is(On("getGroupuuid", k), "getGroupuuid", "go", NoUser, NoRole, k)
             /\ Is(For("getGroupManager", u, NoRole, k), "getGroupManager", "go", u, NoRole, k)
  BY CommandNames, StepIs
<1>4. CASE n = 0
  <2>1. order = << >>
    BY <1>1, <1>4, EmptySeq
  <2>2. s = << last >>
    BY <2>1 DEF del_account_program
  <2> HIDE DEF last
  <2>3. Len(s) = 1 /\ s[1] = last /\ 1 .. 2 * n = {}
    BY <1>4, <2>2
  <2> QED
    BY <1>2, <1>4, <2>3 DEF Is, LooksAt
<1>5. CASE n # 0
  <2> DEFINE m == 2 * n + 1
             at(i) == IF i = m THEN last
                      ELSE IF i % 2 = 1 THEN On("getGroupuuid", order[(i + 1) \div 2])
                      ELSE For("getGroupManager", u, NoRole, order[i \div 2])
  <2>1. order # << >>
    BY <1>1, <1>5
  <2>2. s = [i \in 1 .. m |-> at(i)]
    BY <1>1, <2>1 DEF del_account_program
  <2>3. m \in 1 .. m /\ m \in Nat
    OBVIOUS
  <2>4. ASSUME NEW i \in 1 .. 2 * n
        PROVE  /\ i \in 1 .. m /\ i # m
               /\ i % 2 = 1 => (i + 1) \div 2 \in 1 .. n
               /\ i % 2 # 1 => i \div 2 \in 1 .. n
    OBVIOUS
  <2>5. at(m) = last
    OBVIOUS
  <2>6. ASSUME NEW i \in 1 .. 2 * n
        PROVE  /\ i % 2 = 1 => at(i) = On("getGroupuuid", order[(i + 1) \div 2])
               /\ i % 2 # 1 => at(i) = For("getGroupManager", u, NoRole, order[i \div 2])
    BY <2>4
  <2> HIDE DEF last, at, m
  <2>7. Len(s) = m /\ \A i \in 1 .. m : s[i] = at(i)
    BY <2>2, <2>3
  <2>8. ASSUME NEW i \in 1 .. 2 * n
        PROVE  /\ i % 2 = 1 => /\ s[i].cmd = "getGroupuuid" /\ s[i].mode = "go"
                               /\ s[i].key = order[(i + 1) \div 2]
               /\ i % 2 # 1 => /\ s[i].cmd = "getGroupManager" /\ s[i].mode = "go"
                               /\ s[i].key = order[i \div 2]
    <3>1. s[i] = at(i)
      BY <2>4, <2>7
    <3>2. CASE i % 2 = 1
      <4>1. PICK k \in Keys : k = order[(i + 1) \div 2]
        BY <2>4, <3>2
      <4>2. s[i] = On("getGroupuuid", k)
        BY <2>6, <3>1, <3>2, <4>1
      <4> QED
        BY <1>3, <3>2, <4>1, <4>2 DEF Is
    <3>3. CASE i % 2 # 1
      <4>1. PICK k \in Keys : k = order[i \div 2]
        BY <2>4, <3>3
      <4>2. s[i] = For("getGroupManager", u, NoRole, k)
        BY <2>6, <3>1, <3>3, <4>1
      <4> QED
        BY <1>3, <3>3, <4>1, <4>2 DEF Is
    <3> QED
      BY <3>2, <3>3
  <2>9. s[Len(s)] = last
    BY <2>3, <2>5, <2>7
  <2> QED
    BY <1>2, <2>7, <2>8, <2>9 DEF Is, LooksAt, m
<1> QED
  BY <1>4, <1>5

\* Deleting an account is a course: the role in a group is read of the group
\* whose uuid has been read.
LEMMA DelAccountCourse ==
  ASSUME NEW u \in Users, NEW n \in Nat, NEW order \in [1 .. n -> Keys],
         NEW s, s = del_account_program(u, order), NEW j, j.op = "del_account"
  PROVE  CourseOK(u, j, s) /\ s[1].cmd # "addGroup"
<1>0. LooksAt(s, n, order)
  BY DelAccountSteps
<1>1. /\ Len(s) = 2 * n + 1
      /\ s[Len(s)].cmd = "deleteHashKey" /\ s[Len(s)].mode = "go"
      /\ \A i \in 1 .. 2 * n :
            /\ i % 2 = 1 => /\ s[i].cmd = "getGroupuuid" /\ s[i].mode = "go"
                            /\ s[i].key = order[(i + 1) \div 2]
            /\ i % 2 # 1 => /\ s[i].cmd = "getGroupManager" /\ s[i].mode = "go"
                            /\ s[i].key = order[i \div 2]
  BY <1>0 DEF LooksAt
<1>2. ASSUME NEW i \in 1 .. 2 * n
      PROVE  /\ i % 2 = 1 => /\ s[i].cmd = "getGroupuuid" /\ s[i].mode = "go"
                             /\ s[i].key = order[(i + 1) \div 2]
             /\ i % 2 # 1 => /\ s[i].cmd = "getGroupManager" /\ s[i].mode = "go"
                             /\ s[i].key = order[i \div 2] /\ s[i].key \in Keys
  <2>1. /\ i % 2 = 1 => /\ s[i].cmd = "getGroupuuid" /\ s[i].mode = "go"
                        /\ s[i].key = order[(i + 1) \div 2]
        /\ i % 2 # 1 => /\ s[i].cmd = "getGroupManager" /\ s[i].mode = "go"
                        /\ s[i].key = order[i \div 2]
    BY <1>1
  <2>2. i % 2 # 1 => i \div 2 \in 1 .. n
    OBVIOUS
  <2>3. i % 2 # 1 => order[i \div 2] \in Keys
    BY <2>2
  <2> QED
    BY <2>1, <2>3
<1>3. Concerned(u, j.op, j.x) = Users
  BY DEF Concerned
<1>4. ASSUME NEW i \in 1 .. Len(s)
      PROVE  i = Len(s) \/ i \in 1 .. 2 * n
  BY <1>1
<1>5. ASSUME NEW i \in 1 .. Len(s)
      PROVE  /\ s[i].cmd \in {"getGroupuuid", "getGroupManager", "deleteHashKey"}
             /\ s[i].mode = "go" /\ (s[i].cmd = "getGroupManager" => s[i].key \in Keys)
  BY <1>1, <1>2, <1>4
<1>6. ASSUME NEW i \in 1 .. Len(s)
      PROVE  PlaceOK(u, j, s, i)
  <2>1. OwnOK(u, j, s[i])
    BY <1>3, <1>5 DEF OwnOK, Keyed
  <2>2. LinkOK(j, s, i)
    <3> SUFFICES ASSUME i < Len(s)
                 PROVE  /\ Keyed(s[i + 1]) => s[i].key = s[i + 1].key /\ s[i].cmd = "getGroupuuid"
                        /\ s[i + 1].cmd \notin {"addGroup", "UserSetGroups"}
      BY DEF LinkOK
    <3>1. i \in 1 .. 2 * n /\ i + 1 \in 1 .. Len(s)
      BY <1>1
    <3>2. s[i + 1].cmd \in {"getGroupuuid", "getGroupManager", "deleteHashKey"}
      BY <1>5, <3>1
    <3>3. ASSUME s[i + 1].cmd = "getGroupManager"
          PROVE  s[i].key = s[i + 1].key /\ s[i].cmd = "getGroupuuid"
      <4>1. i + 1 \in 1 .. 2 * n
        BY <1>1, <1>4, <3>1, <3>3
      <4>2. (i + 1) % 2 # 1 /\ s[i + 1].key = order[(i + 1) \div 2]
        BY <1>2, <3>3, <4>1
      <4>3. i % 2 = 1
        BY <4>2
      <4> QED
        BY <1>2, <3>1, <4>2, <4>3
    <3> QED
      BY <3>2, <3>3 DEF Keyed
  <2>3. OutOK(j, s, i)
    BY DEF OutOK
  <2> QED
    BY <2>1, <2>2, <2>3 DEF PlaceOK
<1>7. 1 \in 1 .. Len(s)
  BY <1>1
<1> QED
  BY <1>1, <1>5, <1>6, <1>7 DEF CourseOK

\* What has been asked for.
LEMMA AskedIs ==
  ASSUME NEW op, NEW k, NEW x
  PROVE  Asked(op, k, x).op = op /\ Asked(op, k, x).key = k /\ Asked(op, k, x).x = x
  BY DEF Asked

\* A program that can begin and is a course begins.
LEMMA BegunCourse ==
  ASSUME Inv, ListInv, NEW u \in Users, NEW op, NEW k, NEW x, NEW s \in Seq(Steps),
         Begin(u, op, k, x, s), FreshProgram(s), s[1].cmd # "addGroup",
         NEW j, j = Asked(op, k, x), CourseOK(u, j, s)
  PROVE  ListInv'
<1>1. s # << >>
  BY DEF FreshProgram
<1>2. Started(u, j, s)
  BY <1>1, BeginStarts
<1> QED
  BY <1>2, BegunLists

\* The requests that name a group.
LEMMA GroupRequestsLists ==
  ASSUME Inv, ListInv, NEW u \in Users, NEW k \in Keys,
         \/ add_group(u, k) \/ join_group(u, k) \/ group_choice(u, k)
         \/ \E x \in Users, accept \in BOOLEAN : group_decide(u, k, x, accept)
  PROVE  ListInv'
<1>1. CASE add_group(u, k)
  <2>1. PICK s : s = add_group_program(u, k)
    OBVIOUS
  <2>2. k[2] = u /\ Begin(u, "add_group", k, NoUser, s)
    BY <1>1, <2>1 DEF add_group
  <2>3. PICK j : j = Asked("add_group", k, NoUser)
    OBVIOUS
  <2>4. j.op = "add_group"
    BY <2>3, AskedIs
  <2>5. s \in Seq(Steps) /\ FreshProgram(s)
    BY <2>1, <2>2, AddGroupProgram
  <2>6. CourseOK(u, j, s) /\ s[1].cmd # "addGroup"
    BY <2>1, <2>2, <2>4, AddGroupCourse
  <2> QED
    BY <2>2, <2>3, <2>5, <2>6, BegunCourse
<1>2. CASE join_group(u, k)
  <2>1. PICK s : s = join_group_program(u, k)
    OBVIOUS
  <2>2. Begin(u, "join_group", k, u, s)
    BY <1>2, <2>1 DEF join_group
  <2>3. PICK j : j = Asked("join_group", k, u)
    OBVIOUS
  <2>4. j.op = "join_group"
    BY <2>3, AskedIs
  <2>5. s \in Seq(Steps) /\ FreshProgram(s)
    BY <2>1, JoinProgram
  <2>6. CourseOK(u, j, s) /\ s[1].cmd # "addGroup"
    BY <2>1, <2>4, JoinCourse
  <2> QED
    BY <2>2, <2>3, <2>5, <2>6, BegunCourse
<1>3. CASE group_choice(u, k)
  <2>1. PICK s : s = << On("getGroupuuid", k), On("choose", k) >>
    OBVIOUS
  <2>2. Begin(u, "group_choice", k, NoUser, s)
    BY <1>3, <2>1 DEF group_choice
  <2>3. PICK j : j = Asked("group_choice", k, NoUser)
    OBVIOUS
  <2>4. j.op = "group_choice"
    BY <2>3, AskedIs
  <2>5. s \in Seq(Steps) /\ FreshProgram(s)
    BY <2>1, ChoiceProgram
  <2>6. CourseOK(u, j, s) /\ s[1].cmd # "addGroup"
    BY <2>1, <2>4, ChoiceCourse
  <2> QED
    BY <2>2, <2>3, <2>5, <2>6, BegunCourse
<1>4. ASSUME NEW x \in Users, NEW accept \in BOOLEAN, group_decide(u, k, x, accept)
      PROVE  ListInv'
  <2>1. PICK s : /\ Begin(u, "group_decide", k, x, s)
                 /\ \/ s = << On("getGroupuuid", k) >>
                           \o << If("userFieldHexists", "needs", x, NoRole, k),
                                 For("SetGroupMember", x, "member", k),
                                 For("UserSetGroups", x, NoRole, k) >>
                           \o << For("getManagers", x, NoRole, k) >>
                    \/ s = << On("getGroupuuid", k) >> \o << >>
                           \o << For("getManagers", x, NoRole, k) >>
    BY <1>4 DEF group_decide, group_decide_program
  <2>2. PICK j : j = Asked("group_decide", k, x)
    OBVIOUS
  <2>3. j.op = "group_decide" /\ j.x = x
    BY <2>2, AskedIs
  <2>4. s \in Seq(Steps) /\ FreshProgram(s)
    BY <2>1, AcceptProgram, RefuseProgram
  <2>5. CourseOK(u, j, s) /\ s[1].cmd # "addGroup"
    BY <2>1, <2>3, AcceptCourse, RefuseCourse
  <2> QED
    BY <2>1, <2>2, <2>4, <2>5, BegunCourse
<1> QED
  BY <1>1, <1>2, <1>3, <1>4

\* The requests that name a user.
LEMMA MemberRequestsLists ==
  ASSUME Inv, ListInv, NEW u \in Users, NEW x \in Users,
         add_member(u, x) \/ del_member(u, x) \/ add_manager(u, x) \/ del_manager(u, x)
  PROVE  ListInv'
<1>1. PICK k : k = menu[u].key
  OBVIOUS
<1>2. \/ /\ menu[u].role \in {"owner", "manager"}
         /\ Begin(u, "add_member", k, x, add_member_program(x, k))
      \/ /\ menu[u].role = "owner"
         /\ Begin(u, "del_member_owner", k, x, del_member_owner_program(x, k))
      \/ /\ menu[u].role = "manager"
         /\ Begin(u, "del_member_manager", k, x, del_member_manager_program(x, k))
      \/ /\ menu[u].role = "owner"
         /\ Begin(u, "add_manager", k, x, add_manager_program(x, k))
      \/ /\ menu[u].role = "owner"
         /\ Begin(u, "del_manager", k, x, del_manager_program(x, k))
  BY <1>1 DEF add_member, del_member, add_manager, del_manager
<1>3. k \in Keys
  <2>1. menu[u].role # NoRole
    BY <1>2 DEF NoRole
  <2> QED
    BY <1>1, <2>1, MenuKey
<1>4. CASE Begin(u, "add_member", k, x, add_member_program(x, k))
  <2>1. PICK s : s = add_member_program(x, k)
    OBVIOUS
  <2>2. PICK j : j = Asked("add_member", k, x)
    OBVIOUS
  <2>3. j.op = "add_member" /\ j.x = x
    BY <2>2, AskedIs
  <2>4. s \in Seq(Steps) /\ FreshProgram(s)
    BY <1>3, <2>1, AddMemberProgram
  <2>5. CourseOK(u, j, s) /\ s[1].cmd # "addGroup"
    BY <1>3, <2>1, <2>3, AddMemberCourse
  <2> QED
    BY <1>4, <2>1, <2>2, <2>4, <2>5, BegunCourse
<1>5. CASE Begin(u, "del_member_owner", k, x, del_member_owner_program(x, k))
  <2>1. PICK s : s = del_member_owner_program(x, k)
    OBVIOUS
  <2>2. PICK j : j = Asked("del_member_owner", k, x)
    OBVIOUS
  <2>3. j.op = "del_member_owner" /\ j.x = x
    BY <2>2, AskedIs
  <2>4. s \in Seq(Steps) /\ FreshProgram(s)
    BY <1>3, <2>1, DelByOwnerProgram
  <2>5. CourseOK(u, j, s) /\ s[1].cmd # "addGroup"
    BY <1>3, <2>1, <2>3, DelByOwnerCourse
  <2> QED
    BY <1>5, <2>1, <2>2, <2>4, <2>5, BegunCourse
<1>6. CASE Begin(u, "del_member_manager", k, x, del_member_manager_program(x, k))
  <2>1. PICK s : s = del_member_manager_program(x, k)
    OBVIOUS
  <2>2. PICK j : j = Asked("del_member_manager", k, x)
    OBVIOUS
  <2>3. j.op = "del_member_manager" /\ j.x = x /\ j.key = k
    BY <2>2, AskedIs
  <2>4. s \in Seq(Steps) /\ FreshProgram(s)
    BY <1>3, <2>1, DelByManagerProgram
  <2>5. CourseOK(u, j, s) /\ s[1].cmd # "addGroup"
    BY <1>3, <2>1, <2>3, DelByManagerCourse
  <2> QED
    BY <1>6, <2>1, <2>2, <2>4, <2>5, BegunCourse
<1>7. CASE Begin(u, "add_manager", k, x, add_manager_program(x, k))
  <2>1. PICK s : s = add_manager_program(x, k)
    OBVIOUS
  <2>2. PICK j : j = Asked("add_manager", k, x)
    OBVIOUS
  <2>3. j.op = "add_manager" /\ j.x = x
    BY <2>2, AskedIs
  <2>4. s \in Seq(Steps) /\ FreshProgram(s)
    BY <1>3, <2>1, AddManagerProgram
  <2>5. CourseOK(u, j, s) /\ s[1].cmd # "addGroup"
    BY <1>3, <2>1, <2>3, AddManagerCourse
  <2> QED
    BY <1>7, <2>1, <2>2, <2>4, <2>5, BegunCourse
<1>8. CASE Begin(u, "del_manager", k, x, del_manager_program(x, k))
  <2>1. PICK s : s = del_manager_program(x, k)
    OBVIOUS
  <2>2. PICK j : j = Asked("del_manager", k, x)
    OBVIOUS
  <2>3. j.op = "del_manager" /\ j.x = x
    BY <2>2, AskedIs
  <2>4. s \in Seq(Steps) /\ FreshProgram(s)
    BY <1>3, <2>1, DelManagerProgram
  <2>5. CourseOK(u, j, s) /\ s[1].cmd # "addGroup"
    BY <1>3, <2>1, <2>3, DelManagerCourse
  <2> QED
    BY <1>8, <2>1, <2>2, <2>4, <2>5, BegunCourse
<1> QED
  BY <1>2, <1>4, <1>5, <1>6, <1>7, <1>8

\* Departures, and the disbanding of a group.
LEMMA LeaveLists ==
  ASSUME Inv, ListInv, NEW u \in Users, leave_group(u) \/ disband_froup(u)
  PROVE  ListInv'
<1>1. PICK k : k = menu[u].key
  OBVIOUS
<1>2. CASE leave_group(u)
  <2>1. PICK r : r = menu[u].role
    OBVIOUS
  <2>2. PICK s : s = leave_group_program(u, k, r)
    OBVIOUS
  <2>3. r \in {"manager", "member"} /\ Begin(u, "leave_group", k, NoUser, s)
    BY <1>1, <1>2, <2>1, <2>2 DEF leave_group
  <2>4. k \in Keys
    BY <1>1, <2>1, <2>3, MenuKey DEF NoRole
  <2>5. PICK j : j = Asked("leave_group", k, NoUser)
    OBVIOUS
  <2>6. j.op = "leave_group"
    BY <2>5, AskedIs
  <2>7. s \in Seq(Steps) /\ FreshProgram(s)
    BY <2>2, <2>3, <2>4, LeaveProgram
  <2>8. CourseOK(u, j, s) /\ s[1].cmd # "addGroup"
    BY <2>2, <2>3, <2>4, <2>6, LeaveCourse
  <2> QED
    BY <2>3, <2>5, <2>7, <2>8, BegunCourse
<1>3. CASE disband_froup(u)
  <2>1. PICK s : s = disband_program(k)
    OBVIOUS
  <2>2. menu[u].role = "owner" /\ Begin(u, "disband_group", k, NoUser, s)
    BY <1>1, <1>3, <2>1 DEF disband_froup
  <2>3. k \in Keys
    BY <1>1, <2>2, MenuKey DEF NoRole
  <2>4. PICK j : j = Asked("disband_group", k, NoUser)
    OBVIOUS
  <2>5. j.op = "disband_group"
    BY <2>4, AskedIs
  <2>6. s \in Seq(Steps) /\ FreshProgram(s)
    BY <2>1, <2>3, DisbandProgram
  <2>7. CourseOK(u, j, s) /\ s[1].cmd # "addGroup"
    BY <2>1, <2>3, <2>5, DisbandCourse
  <2> QED
    BY <2>2, <2>4, <2>6, <2>7, BegunCourse
<1> QED
  BY <1>2, <1>3

\* The deletion of an account.
LEMMA DelAccountLists ==
  ASSUME Inv, ListInv, NEW u \in Users, del_account(u)
  PROVE  ListInv'
<1>1. PICK T \in OnePerName(lists[u]) : \E order \in SetToSeqs(T) :
        Begin(u, "del_account", NoKey, NoUser, del_account_program(u, order))
  BY DEF del_account
<1>2. PICK order \in SetToSeqs(T) :
        Begin(u, "del_account", NoKey, NoUser, del_account_program(u, order))
  BY <1>1
<1>3. T \subseteq Keys /\ IsFiniteSet(T)
  <2>1. lists[u] \subseteq Keys /\ IsFiniteSet(lists[u])
    BY InvParts DEF TablesOK
  <2>2. T \subseteq lists[u]
    BY DEF OnePerName
  <2> QED
    BY <2>1, <2>2, FS_Subset
<1>4. PICK n \in Nat : order \in [1 .. n -> T] /\ DOMAIN order = 1 .. n
  BY <1>3, OrderOf
<1>5. order \in [1 .. n -> Keys]
  BY <1>3, <1>4
<1>6. PICK s : s = del_account_program(u, order)
  OBVIOUS
<1>7. s \in Seq(Steps) /\ FreshProgram(s)
  BY <1>5, <1>6, DelAccountProgram
<1>8. PICK j : j = Asked("del_account", NoKey, NoUser)
  OBVIOUS
<1>9. j.op = "del_account"
  BY <1>8, AskedIs
<1>10. CourseOK(u, j, s) /\ s[1].cmd # "addGroup"
  BY <1>5, <1>6, <1>9, DelAccountCourse
<1> QED
  BY <1>2, <1>6, <1>7, <1>8, <1>10, BegunCourse

-----------------------------------------------------------------------------
(* Every state, and the lists.                                             *)

\* The lists are right at first,
LEMMA InitLists ==
  ASSUME Init
  PROVE  ListInv
<1>1. \A u \in Users : todo[u] = << >> /\ ~Busy(u)
  BY DEF Init, Busy
<1>2. \A x \in Users : lists[x] = {}
  BY DEF Init
<1>3. account = Users
  BY DEF Init
<1>4. CoursesOK
  BY <1>1, CourseEmpty DEF CoursesOK
<1>5. ApartOK
  BY <1>1 DEF ApartOK
<1>6. HeldOK /\ MakesOK /\ SetsOK
  BY <1>1 DEF HeldOK, MakesOK, SetsOK
<1>7. ListedOK
  BY <1>2, <1>3 DEF ListedOK
<1> QED
  BY <1>4, <1>5, <1>6, <1>7 DEF ListInv

\* and after every step.
LEMMA NextLists ==
  ASSUME Inv, ListInv, [Next]_vars
  PROVE  ListInv'
<1>1. Inv'
  BY NextInv
<1>2. ASSUME NEW u \in Users, Request(u)
      PROVE  ListInv'
  <2>1. CASE del_account(u) \/ leave_group(u) \/ disband_froup(u)
    BY <2>1, DelAccountLists, LeaveLists
  <2>2. ASSUME NEW k \in Keys,
               \/ add_group(u, k) \/ join_group(u, k) \/ group_choice(u, k)
               \/ \E x \in Users, accept \in BOOLEAN : group_decide(u, k, x, accept)
        PROVE  ListInv'
    BY <2>2, GroupRequestsLists
  <2>3. ASSUME NEW x \in Users,
               add_member(u, x) \/ del_member(u, x) \/ add_manager(u, x) \/ del_manager(u, x)
        PROVE  ListInv'
    BY <2>3, MemberRequestsLists
  <2> QED
    BY <1>2, <2>1, <2>2, <2>3 DEF Request
<1>3. ASSUME NEW u \in Users, Command(u)
      PROVE  ListInv'
  <2>1. CASE \/ GroupExists(u) \/ userFieldHexists(u) \/ isManager(u) \/ choose(u)
             \/ setGroupNotify(u) \/ delGroupNotify(u)
             \/ SetGroupManager(u) \/ removeGroupManager(u) \/ delGroupManager(u)
    BY <1>1, <2>1, QuietCommands
  <2>2. CASE \/ getGroupuuid(u) \/ getGroupManager(u) \/ getManagers(u) \/ getGroupMember(u)
    BY <1>1, <2>2, GetGroupuuidLists, GetGroupManagerLists, GetManagersLists, GetGroupMemberLists
  <2>3. CASE \/ addGroup(u) \/ delGroup(u)
             \/ SetGroupMember(u) \/ removeGroupMember(u) \/ delGroupMember(u)
             \/ UserSetGroups(u) \/ UserRemoveGroups(u) \/ deleteHashKey(u)
    BY <1>1, <2>3, AddGroupLists, DelGroupLists, SetGroupMemberLists, RemoveGroupMemberLists,
       DelGroupMemberLists, UserSetGroupsLists, UserRemoveGroupsLists, DeleteHashKeyLists
  <2> QED
    BY <1>3, <2>1, <2>2, <2>3 DEF Command
<1>4. CASE UNCHANGED vars
  <2>1. UNCHANGED << index, members, lists, job, todo, kicked, garbage, mixed >>
    BY <1>4 DEF vars, redisVars
  <2> QED
    BY <2>1, SameLists
<1>5. ASSUME NEW u \in Users, saveUser(u)
      PROVE  ListInv'
  BY <1>5, SaveUserLists
<1> QED
  BY <1>2, <1>3, <1>4, <1>5 DEF Next

\* A user who finds a group in its list is a member of it, unless a manager
\* kicked the user, or the name was another account's that was deleted with the
\* group in its list, or two handlers that may change whether this very user is a
\* member ran at the same time (connection.cc:171-223, 284-858): as long as a
\* handler that has taken a user out of a group runs, it still takes the group
\* out of the user's list, or the account ends; and a handler that concerns no
\* user of another one works for the group that has its name.
THEOREM ListedCorrect == Spec => []ListedAreMembers
<1>1. Init => ListInv
  BY InitLists
<1>2. Inv /\ ListInv /\ [Next]_vars => ListInv'
  BY NextLists
<1>3. Inv /\ ListInv => ListedAreMembers
  <2> SUFFICES ASSUME Inv, ListInv, Quiet, ~garbage, NEW x \in account \ mixed, NEW k \in lists[x],
                      ~Excused(x, k)
               PROVE  Belongs(x, index[k])
    BY DEF ListedAreMembers
  <2>3. x \in Users \ mixed
    BY InvParts DEF TablesOK
  <2>1. InGroup(x, k) \/ \E u \in Users : Settling(u, x, k)
    BY <2>3 DEF ListInv, ListedOK
  <2>2. \A u \in Users : ~Settling(u, x, k)
    BY DEF Quiet, Settling
  <2> QED
    BY <2>1, <2>2 DEF InGroup
<1> QED
  BY <1>1, <1>2, <1>3, InvCorrect, PTL DEF Spec
============================================================================
