---------------------------- MODULE FriendsProofs ----------------------------
(***************************************************************************)
(* Friendship is mutual unless handlers overlap, notices for a user who is *)
(* offline are kept, and only who has asked is befriended.  The argument   *)
(* follows the programs of the handlers: what they have still to do.       *)
(***************************************************************************)
EXTENDS Friends, FiniteSetTheorems, SequenceTheorems, TLAPS

\* Commands, but for look-ups.
Pairs == [cmd : {"setUserGroups", "removeUserGroups", "deleteHashMember"},
          who : Users, other : Users]
Dispatches == [cmd : {"dispatch"}, who : Users \cup {NoUser}, msg : Messages]
Filings ==
    [cmd : {"setResKey"}, name : {"Friend"}, who : Users, notice : Users]
    \cup [cmd : {"setResKey"}, name : {"Response"}, who : Users, notice : Notices]
Others ==
    [cmd : {"addUser", "deleteHash", "deleteHashMembers", "deleteHashKey"}]
    \cup [cmd : {"getFields"}, who : Users, kind : {"LOGINLIST", "FDLIST"}]
    \cup [cmd : {"getHash"}, who : Users, kind : {"RESPONSE", "USERNTF"}]
Answers == Dispatches \cup Filings
Lookups == [cmd : {"users"}, who : Users, on : Seq(Answers), off : Seq(Answers)]
CommandSet == Pairs \cup Answers \cup Others \cup Lookups

TablesOK ==
    /\ account \subseteq Users
    /\ friends \in [Users -> SUBSET Users] /\ requests \in [Users -> SUBSET Users]
    /\ response \in [Users -> SUBSET Notices]
    /\ online \subseteq Users /\ up \subseteq Users
    /\ todo \in [Users -> Seq(CommandSet)] /\ frames \in [Users -> Seq(Seq(CommandSet))]
    /\ chan \in [Users -> Seq(Messages)]
    /\ cache \in [Users -> SUBSET Users] /\ friend_res \in [Users -> SUBSET Users]
    /\ friends_block \in [Users -> SUBSET Users]
    /\ friends_by_block \in [Users -> SUBSET Users]
    /\ asked \subseteq Users \X Users /\ accepted \subseteq Users \X Users
    /\ mixed \subseteq SUBSET Users /\ filed \subseteq Users \X Notices \X BOOLEAN
    /\ logins \in 0 .. MaxLogins /\ served \in 0 .. MaxRequests

-----------------------------------------------------------------------------
(* Who has asked (A: the pairs of who asked and whom).                     *)

TellsAskers(A, x, m) == m.kind = "USERNTF" => \A y \in m.about : << y, x >> \in A

AnswerAsked(A, c) ==
    /\ c.cmd = "setResKey" /\ c.name = "Friend" => << c.notice, c.who >> \in A
    /\ c.cmd = "dispatch" /\ c.who # NoUser => TellsAskers(A, c.who, c.msg)

\* A command of a handler for u: it befriends u only with somebody who has asked.
CommandAsked(A, u, c) ==
    /\ AnswerAsked(A, c)
    /\ c.cmd = "setUserGroups" /\ c.who = u => << c.other, u >> \in A
    /\ c.cmd = "getHash" => c.who = u
    /\ c.cmd = "users" =>
          /\ \A i \in 1 .. Len(c.on) : AnswerAsked(A, c.on[i])
          /\ \A i \in 1 .. Len(c.off) : AnswerAsked(A, c.off[i])

ProgramAsked(A, u, s) == \A i \in 1 .. Len(s) : CommandAsked(A, u, s[i])

AskedOK ==
    /\ \A u \in Users :
          /\ \A x \in requests[u] \cup friend_res[u] : << x, u >> \in asked
          /\ \A i \in 1 .. Len(chan[u]) : TellsAskers(asked, u, chan[u][i])
    /\ AcceptedWereAsked

-----------------------------------------------------------------------------
(* Programs that write both ways to a pair of users.                       *)

Pairing(c) == c.cmd \in {"setUserGroups", "removeUserGroups"}
Couple(c) == {c.who, c.other}
Mirror(c, d) ==
    Pairing(c) /\ Pairing(d) /\ d.cmd = c.cmd /\ d.who = c.other /\ d.other = c.who

\* What has been begun is finished next: only the first command of a program
\* may be the second of its couple.
CouplesOK(s) ==
    /\ \A i \in 2 .. Len(s) :
          Pairing(s[i]) => \/ Mirror(s[i], s[i - 1])
                           \/ i < Len(s) /\ Mirror(s[i], s[i + 1])
    /\ \A i, j \in 1 .. Len(s) :
          i < j /\ Pairing(s[i]) /\ Pairing(s[j]) /\ Couple(s[i]) = Couple(s[j])
             => j = i + 1 /\ Mirror(s[i], s[j])

Half(s) == s # << >> /\ Pairing(s[1]) /\ ~(Len(s) > 1 /\ Mirror(s[1], s[2]))

\* One way is written, the other is to be, or nobody is about it; unless an
\* acceptance and a deletion have met.
MutualOK ==
    /\ \A u \in Users : LET c == todo[u][1] IN
          Half(todo[u]) /\ Couple(c) \notin mixed /\ c.who # c.other =>
             (c.who \in friends[c.other] <=> c.cmd = "setUserGroups")
    /\ \A a, b \in Users :
          \/ a \in friends[b] <=> b \in friends[a]
          \/ {a, b} \in mixed
          \/ \E w \in Users : Half(todo[w]) /\ Couple(todo[w][1]) = {a, b}

-----------------------------------------------------------------------------
(* Login.                                                                  *)

\* F: the notices that were filed for u while it was offline.
LoginOK(s, F) ==
    \A i \in 1 .. Len(s) : s[i].cmd = "deleteHash" =>
        /\ i = 1 => F = {}
        /\ i > 1 => \/ s[i - 1].cmd = "getHash" /\ s[i - 1].kind = "RESPONSE"
                    \/ /\ i = 2 /\ s[1].cmd = "dispatch" /\ s[1].msg.kind = "RESPONSE"
                       /\ F \subseteq s[1].msg.about

Deletes(s) == \E i \in 1 .. Len(s) : s[i].cmd = "deleteHash"
FiledOffline(u) == {n \in Notices : << u, n, FALSE >> \in filed}

KeptOK ==
    /\ OfflineNoticeKept
    /\ \A u \in Users :
          /\ LoginOK(todo[u], FiledOffline(u))
          /\ Deletes(todo[u]) /\ u \notin online => todo[u][1].cmd = "addUser"

-----------------------------------------------------------------------------
\* The program of a handler that has not begun.
FrameOK(A, u, s) ==
    /\ ProgramAsked(A, u, s) /\ CouplesOK(s) /\ ~Half(s)
    /\ LoginOK(s, Notices) /\ (Deletes(s) => s[1].cmd = "addUser")

ProgramsOK ==
    \A u \in Users :
        /\ ProgramAsked(asked, u, todo[u]) /\ CouplesOK(todo[u])
        /\ \A i \in 1 .. Len(frames[u]) : FrameOK(asked, u, frames[u][i])

Inv == TablesOK /\ ProgramsOK /\ AskedOK /\ MutualOK /\ KeptOK

-----------------------------------------------------------------------------
LEMMA FriendsConstants ==
  /\ IsFiniteSet(Users) /\ NoUser \notin Users
  /\ MaxLogins \in Nat /\ MaxRequests \in Nat /\ Pending \in [Users -> SUBSET Users]
  BY FriendsAssumption

\* What a command is made of.
LEMMA Fields ==
  ASSUME NEW c \in CommandSet
  PROVE  /\ Pairing(c) => c \in Pairs /\ c.who \in Users /\ c.other \in Users
         /\ c.cmd = "deleteHashMember" => c.who \in Users /\ c.other \in Users
         /\ c.cmd = "users" => c.who \in Users /\ c.on \in Seq(Answers) /\ c.off \in Seq(Answers)
         /\ c.cmd = "getFields" => c.who \in Users /\ c.kind \in {"LOGINLIST", "FDLIST"}
         /\ c.cmd = "getHash" => c.who \in Users /\ c.kind \in {"RESPONSE", "USERNTF"}
         /\ c.cmd = "dispatch" => c.who \in Users \cup {NoUser} /\ c.msg \in Messages
         /\ c.cmd = "setResKey" => c.who \in Users
         /\ c.cmd = "setResKey" /\ c.name = "Friend" => c.notice \in Users
         /\ c.cmd = "setResKey" /\ c.name # "Friend" => c.notice \in Notices
  BY DEF CommandSet, Pairs, Answers, Dispatches, Filings, Others, Lookups, Pairing

LEMMA AnswerFields ==
  ASSUME NEW c \in Answers
  PROVE  /\ c \in CommandSet /\ c.cmd \in {"dispatch", "setResKey"}
         /\ ~Pairing(c) /\ c.cmd # "deleteHash"
         /\ \A A, u : AnswerAsked(A, c) => CommandAsked(A, u, c)
<1>1. c \in CommandSet /\ c.cmd \in {"dispatch", "setResKey"}
  BY DEF CommandSet, Answers, Dispatches, Filings
<1>2. ~Pairing(c) /\ c.cmd # "deleteHash" /\ c.cmd # "setUserGroups" /\ c.cmd # "getHash"
      /\ c.cmd # "users"
  BY <1>1 DEF Pairing
<1>3. ASSUME NEW A, NEW u, AnswerAsked(A, c)
      PROVE  CommandAsked(A, u, c)
  BY <1>2, <1>3 DEF CommandAsked
<1> QED
  BY <1>1, <1>2, <1>3

\* The first command of s gives way to f.
Spliced(s, f, t) ==
    /\ Len(f) \in Nat /\ Len(s) \in Nat /\ Len(t) = Len(f) + Len(s) - 1
    /\ \A i \in 1 .. Len(f) : t[i] = f[i]
    /\ \A j \in 2 .. Len(s) : t[Len(f) + j - 1] = s[j]
    /\ \A i \in 1 .. Len(t) : i \in 1 .. Len(f)
                              \/ \E j \in 2 .. Len(s) : i = Len(f) + j - 1 /\ t[i] = s[j]

LEMMA Shifted ==
  ASSUME NEW S, NEW s \in Seq(S), s # << >>, NEW f \in Seq(S), NEW t, t = f \o Tail(s)
  PROVE  t \in Seq(S) /\ Spliced(s, f, t)
<1>1. PICK r \in Seq(S) : r = Tail(s) /\ Len(r) = Len(s) - 1
                          /\ \A i \in 1 .. Len(r) : r[i] = s[i + 1]
  BY HeadTailProperties
<1>2. /\ t \in Seq(S) /\ Len(t) = Len(f) + Len(r)
      /\ \A i \in 1 .. Len(f) + Len(r) : t[i] = IF i <= Len(f) THEN f[i] ELSE r[i - Len(f)]
  BY <1>1, ConcatProperties
<1>3. Len(f) \in Nat /\ Len(s) \in Nat /\ Len(r) \in Nat
  BY <1>1, LenProperties
<1>4. ASSUME NEW i \in 1 .. Len(f)
      PROVE  t[i] = f[i]
  <2>1. i \in 1 .. Len(f) + Len(r) /\ i <= Len(f)
    BY <1>3
  <2> QED
    BY <1>2, <2>1
<1>5. ASSUME NEW j \in 2 .. Len(s)
      PROVE  t[Len(f) + j - 1] = s[j]
  <2> DEFINE i == Len(f) + j - 1
  <2>1. /\ i \in 1 .. Len(f) + Len(r) /\ ~(i <= Len(f))
        /\ i - Len(f) \in 1 .. Len(r) /\ i - Len(f) + 1 = j
    BY <1>1, <1>3
  <2> HIDE DEF i
  <2>2. t[i] = r[i - Len(f)] /\ r[i - Len(f)] = s[i - Len(f) + 1]
    BY <1>1, <1>2, <2>1
  <2> QED
    BY <2>1, <2>2 DEF i
<1>6. ASSUME NEW i \in 1 .. Len(t), i \notin 1 .. Len(f)
      PROVE  \E j \in 2 .. Len(s) : i = Len(f) + j - 1 /\ t[i] = s[j]
  <2>1. i - Len(f) + 1 \in 2 .. Len(s) /\ i = Len(f) + (i - Len(f) + 1) - 1
    BY <1>1, <1>2, <1>3, <1>6
  <2> QED
    BY <1>5, <2>1
<1> QED
  BY <1>1, <1>2, <1>3, <1>4, <1>5, <1>6 DEF Spliced

LEMMA MirrorBack ==
  ASSUME NEW c, NEW d, Mirror(c, d)
  PROVE  Mirror(d, c) /\ Couple(c) = Couple(d)
  BY DEF Mirror, Couple

\* Going on with f, where f finishes nothing: t is what is left of s.
Onward(A, u, s, t) ==
    /\ t \in Seq(CommandSet) /\ ProgramAsked(A, u, t) /\ CouplesOK(t)
    /\ Half(t) => Pairing(s[1]) /\ Mirror(s[1], s[2]) /\ t[1] = s[2]
    /\ Pairing(s[1]) /\ ~Half(s) => Half(t) /\ t[1] = s[2] /\ Mirror(s[1], s[2])

LEMMA Continues ==
  ASSUME NEW A, NEW u, NEW s \in Seq(CommandSet), s # << >>, NEW f \in Seq(CommandSet),
         \A i \in 1 .. Len(f) : f[i] \in Answers /\ AnswerAsked(A, f[i]),
         Pairing(s[1]) => f = << >>, ProgramAsked(A, u, s), CouplesOK(s),
         NEW t, t = f \o Tail(s)
  PROVE  Onward(A, u, s, t)
<1> DEFINE l == Len(f)
           n == Len(s)
<1>1. /\ t \in Seq(CommandSet) /\ l \in Nat /\ n \in Nat /\ Len(t) = l + n - 1
      /\ \A i \in 1 .. l : t[i] = f[i]
      /\ \A j \in 2 .. n : t[l + j - 1] = s[j]
      /\ \A i \in 1 .. Len(t) : i \in 1 .. l \/ \E j \in 2 .. n : i = l + j - 1 /\ t[i] = s[j]
  <2>1. t \in Seq(CommandSet) /\ Spliced(s, f, t)
    BY Shifted
  <2> QED
    BY <2>1 DEF Spliced
<1>2. \A i \in 1 .. l : ~Pairing(t[i]) /\ CommandAsked(A, u, t[i])
  BY <1>1, AnswerFields
<1>3. (l = 0) = (f = << >>) /\ n # 0
  BY EmptySeq, LenProperties
<1> HIDE DEF l
<1>4. ProgramAsked(A, u, t)
  BY <1>1, <1>2 DEF ProgramAsked, n
<1> HIDE DEF n
\* Where a command for a couple is in t it was in s.
<1>5. ASSUME NEW i \in 1 .. Len(t), Pairing(t[i])
      PROVE  \E j \in 2 .. n : i = l + j - 1 /\ t[i] = s[j]
  BY <1>1, <1>2, <1>5
<1>6. ASSUME NEW j \in 2 .. n, Pairing(s[j])
      PROVE  Mirror(s[j], s[j - 1]) \/ (j < n /\ Mirror(s[j], s[j + 1]))
  BY <1>6 DEF CouplesOK, n
<1>7. ASSUME NEW i \in 1 .. n, NEW j \in 1 .. n, i < j, Pairing(s[i]), Pairing(s[j]),
             Couple(s[i]) = Couple(s[j])
      PROVE  j = i + 1 /\ Mirror(s[i], s[j])
  BY <1>7 DEF CouplesOK, n
<1>8. ASSUME NEW i \in 2 .. Len(t), Pairing(t[i])
      PROVE  Mirror(t[i], t[i - 1]) \/ (i < Len(t) /\ Mirror(t[i], t[i + 1]))
  <2>1. PICK j \in 2 .. n : i = l + j - 1 /\ t[i] = s[j]
    BY <1>1, <1>5, <1>8
  <2>2. CASE j < n /\ Mirror(s[j], s[j + 1])
    <3>1. j + 1 \in 2 .. n /\ i + 1 = l + (j + 1) - 1 /\ i < Len(t)
      BY <1>1, <2>1, <2>2
    <3>2. t[i + 1] = s[j + 1]
      BY <1>1, <3>1
    <3> QED
      BY <2>1, <2>2, <3>1, <3>2
  <2>3. CASE Mirror(s[j], s[j - 1])
    <3>1. CASE j = 2
      <4>1. Pairing(s[1])
        BY <2>3, <3>1 DEF Mirror
      <4>2. l = 0 /\ i = 1
        BY <1>1, <1>3, <2>1, <3>1, <4>1
      <4> QED
        BY <4>2
    <3>2. CASE j # 2
      <4>1. j - 1 \in 2 .. n /\ i - 1 = l + (j - 1) - 1
        BY <1>1, <2>1, <3>2
      <4>2. t[i - 1] = s[j - 1]
        BY <1>1, <4>1
      <4> QED
        BY <2>1, <2>3, <4>2
    <3> QED
      BY <3>1, <3>2
  <2> QED
    BY <1>6, <1>8, <2>1, <2>2, <2>3
<1>9. ASSUME NEW i \in 1 .. Len(t), NEW j \in 1 .. Len(t), i < j, Pairing(t[i]),
             Pairing(t[j]), Couple(t[i]) = Couple(t[j])
      PROVE  j = i + 1 /\ Mirror(t[i], t[j])
  <2>1. PICK a \in 2 .. n : i = l + a - 1 /\ t[i] = s[a]
    BY <1>5, <1>9
  <2>2. PICK b \in 2 .. n : j = l + b - 1 /\ t[j] = s[b]
    BY <1>5, <1>9
  <2>3. a < b /\ a \in 1 .. n /\ b \in 1 .. n
    BY <1>1, <1>9, <2>1, <2>2
  <2>4. b = a + 1 /\ Mirror(s[a], s[b])
    BY <1>7, <1>9, <2>1, <2>2, <2>3
  <2> QED
    BY <1>1, <2>1, <2>2, <2>4
<1>10. CouplesOK(t)
  BY <1>8, <1>9 DEF CouplesOK
<1>11. ASSUME Half(t)
       PROVE  Pairing(s[1]) /\ n > 1 /\ Mirror(s[1], s[2]) /\ t[1] = s[2]
  <2>1. t # << >> /\ Pairing(t[1])
    BY <1>11 DEF Half
  <2>2. Len(t) # 0
    BY <1>1, <2>1, EmptySeq
  <2>3. 1 \in 1 .. Len(t)
    BY <1>1, <1>3, <2>2
  <2>4. PICK j \in 2 .. n : 1 = l + j - 1 /\ t[1] = s[j]
    BY <1>5, <2>1, <2>3
  <2>5. l = 0 /\ j = 2 /\ n > 1 /\ t[1] = s[2]
    BY <1>1, <2>4
  <2>6. ~(2 < n /\ Mirror(s[2], s[3]))
    <3>1. ASSUME 2 < n
          PROVE  t[2] = s[3] /\ Len(t) > 1
      <4>1. 3 \in 2 .. n /\ l + 3 - 1 = 2
        BY <1>1, <2>5, <3>1
      <4> QED
        BY <1>1, <2>5, <3>1, <4>1
    <3> QED
      BY <1>11, <2>5, <3>1 DEF Half
  <2>7. Mirror(s[2], s[1])
    <3>1. 2 \in 2 .. n /\ 2 - 1 = 1 /\ 2 + 1 = 3
      BY <2>5
    <3>2. Mirror(s[2], s[2 - 1]) \/ (2 < n /\ Mirror(s[2], s[2 + 1]))
      BY <1>6, <2>1, <2>5, <3>1
    <3> QED
      BY <2>6, <3>1, <3>2
  <2> QED
    BY <2>5, <2>7, MirrorBack DEF Mirror
<1>12. ASSUME Pairing(s[1]), ~Half(s)
       PROVE  Half(t) /\ t[1] = s[2] /\ Mirror(s[1], s[2])
  <2>1. n > 1 /\ Mirror(s[1], s[2])
    BY <1>12 DEF Half, n
  <2>2. l = 0
    BY <1>3, <1>12
  <2>3. t[1] = s[2] /\ Len(t) = n - 1
    <3>1. 2 \in 2 .. n /\ l + 2 - 1 = 1
      BY <1>1, <2>1, <2>2
    <3> QED
      BY <1>1, <2>2, <3>1
  <2>4. t # << >> /\ Pairing(t[1])
    <3>1. Len(t) # 0
      BY <1>1, <2>1, <2>3
    <3> QED
      BY <1>1, <2>1, <2>3, <3>1, EmptySeq DEF Mirror
  <2>5. ~(Len(t) > 1 /\ Mirror(t[1], t[2]))
    <3>1. SUFFICES ASSUME Len(t) > 1, Mirror(t[1], t[2]) PROVE FALSE
      OBVIOUS
    <3>2. 3 \in 2 .. n /\ l + 3 - 1 = 2 /\ 1 \in 1 .. n /\ 3 \in 1 .. n
      BY <1>1, <2>2, <2>3, <3>1
    <3>3. t[2] = s[3]
      BY <1>1, <3>2
    <3>4. Couple(s[1]) = Couple(s[3]) /\ Pairing(s[3])
      BY <2>1, <2>3, <3>1, <3>3, MirrorBack DEF Mirror
    <3> QED
      BY <1>7, <1>12, <3>2, <3>4
  <2> QED
    BY <2>1, <2>3, <2>4, <2>5 DEF Half
<1> QED
  BY <1>1, <1>4, <1>10, <1>11, <1>12 DEF n, Onward

-----------------------------------------------------------------------------
(* Login.                                                                  *)

LEMMA LoginGoesOn ==
  ASSUME NEW F, NEW G, NEW s \in Seq(CommandSet), s # << >>, NEW f \in Seq(CommandSet),
         \A i \in 1 .. Len(f) : f[i] \in Answers,
         LoginOK(s, F), NEW t, t = f \o Tail(s),
         s[1].cmd = "getHash" /\ s[1].kind = "RESPONSE" =>
            Len(f) = 1 /\ f[1].cmd = "dispatch" /\ f[1].msg.kind = "RESPONSE" /\ G \subseteq f[1].msg.about,
         s[1].cmd = "dispatch" /\ s[1].msg.kind = "RESPONSE" /\ F \subseteq s[1].msg.about =>
            f = << >> /\ G = {}
  PROVE  LoginOK(t, G) /\ (Deletes(t) => Deletes(s))
<1> DEFINE l == Len(f)
           n == Len(s)
<1>1. /\ t \in Seq(CommandSet) /\ l \in Nat /\ n \in Nat /\ Len(t) = l + n - 1
      /\ \A i \in 1 .. l : t[i] = f[i]
      /\ \A j \in 2 .. n : t[l + j - 1] = s[j]
      /\ \A i \in 1 .. Len(t) : i \in 1 .. l \/ \E j \in 2 .. n : i = l + j - 1 /\ t[i] = s[j]
  <2>1. t \in Seq(CommandSet) /\ Spliced(s, f, t)
    BY Shifted
  <2> QED
    BY <2>1 DEF Spliced
<1>2. \A i \in 1 .. l : t[i].cmd # "deleteHash"
  BY <1>1, AnswerFields
<1>3. f = << >> => l = 0
  BY EmptySeq
<1> HIDE DEF l
<1>4. ASSUME NEW i \in 1 .. Len(t), t[i].cmd = "deleteHash"
      PROVE  \E j \in 2 .. n : i = l + j - 1 /\ t[i] = s[j]
  BY <1>1, <1>2, <1>4
<1>5. \A j \in 2 .. n : s[j].cmd = "deleteHash" =>
         \/ s[j - 1].cmd = "getHash" /\ s[j - 1].kind = "RESPONSE"
         \/ j = 2 /\ s[1].cmd = "dispatch" /\ s[1].msg.kind = "RESPONSE" /\ F \subseteq s[1].msg.about
  BY <1>1 DEF LoginOK
<1>6. Deletes(t) => Deletes(s)
  BY <1>1, <1>4 DEF Deletes
<1> HIDE DEF n
<1>7. ASSUME NEW i \in 1 .. Len(t), t[i].cmd = "deleteHash"
      PROVE  /\ i = 1 => G = {}
             /\ i > 1 => \/ t[i - 1].cmd = "getHash" /\ t[i - 1].kind = "RESPONSE"
                         \/ /\ i = 2 /\ t[1].cmd = "dispatch" /\ t[1].msg.kind = "RESPONSE"
                            /\ G \subseteq t[1].msg.about
  <2>1. PICK j \in 2 .. n : i = l + j - 1 /\ t[i] = s[j]
    BY <1>4, <1>7
  <2>2. CASE j # 2
    <3>1. j - 1 \in 2 .. n /\ i - 1 = l + (j - 1) - 1 /\ i # 1
      BY <1>1, <2>1, <2>2
    <3>2. t[i - 1] = s[j - 1]
      BY <1>1, <3>1
    <3> QED
      BY <1>5, <1>7, <2>1, <2>2, <3>1, <3>2
  <2>3. CASE j = 2 /\ s[1].cmd = "getHash" /\ s[1].kind = "RESPONSE"
    <3>1. l = 1 /\ f[1].cmd = "dispatch" /\ f[1].msg.kind = "RESPONSE" /\ G \subseteq f[1].msg.about
      BY <2>3 DEF l
    <3>2. i = 2
      BY <2>1, <2>3, <3>1
    <3>3. 1 \in 1 .. l
      BY <3>1
    <3>4. t[1] = f[1]
      BY <1>1, <3>3
    <3> QED
      BY <3>1, <3>2, <3>4
  <2>4. CASE j = 2 /\ s[1].cmd = "dispatch" /\ s[1].msg.kind = "RESPONSE" /\ F \subseteq s[1].msg.about
    <3>1. i = 1 /\ G = {}
      BY <1>1, <1>3, <2>1, <2>4
    <3> QED
      BY <3>1
  <2>5. 2 - 1 = 1
    OBVIOUS
  <2> QED
    BY <1>5, <1>7, <2>1, <2>2, <2>3, <2>4, <2>5
<1>8. LoginOK(t, G)
  BY <1>7 DEF LoginOK
<1> QED
  BY <1>6, <1>8

LEMMA LoginKept ==
  ASSUME NEW F, NEW G, NEW s \in Seq(CommandSet), LoginOK(s, F),
         G \subseteq F \/ ~Deletes(s) \/ s[1].cmd = "addUser"
  PROVE  LoginOK(s, G)
<1>1. ASSUME NEW i \in 1 .. Len(s), s[i].cmd = "deleteHash"
      PROVE  /\ i = 1 => G = {}
             /\ i > 1 => \/ s[i - 1].cmd = "getHash" /\ s[i - 1].kind = "RESPONSE"
                         \/ /\ i = 2 /\ s[1].cmd = "dispatch" /\ s[1].msg.kind = "RESPONSE"
                            /\ G \subseteq s[1].msg.about
  <2>1. /\ i = 1 => F = {}
        /\ i > 1 => \/ s[i - 1].cmd = "getHash" /\ s[i - 1].kind = "RESPONSE"
                    \/ /\ i = 2 /\ s[1].cmd = "dispatch" /\ s[1].msg.kind = "RESPONSE"
                       /\ F \subseteq s[1].msg.about
    BY <1>1 DEF LoginOK
  <2>2. CASE G \subseteq F
    BY <2>1, <2>2
  <2>3. CASE ~Deletes(s)
    BY <1>1, <2>3 DEF Deletes
  <2>4. CASE s[1].cmd = "addUser"
    BY <1>1, <2>1, <2>4
  <2> QED
    BY <2>2, <2>3, <2>4
<1> QED
  BY <1>1 DEF LoginOK

-----------------------------------------------------------------------------
(* Each program of a handler is one that may begin.                        *)

LEMMA OnCommand ==
  ASSUME NEW cmd \in {"setUserGroups", "removeUserGroups", "deleteHashMember"},
         NEW x \in Users, NEW y \in Users
  PROVE  /\ On(cmd, x, y) \in CommandSet /\ On(cmd, x, y).cmd = cmd
         /\ On(cmd, x, y).who = x /\ On(cmd, x, y).other = y
  BY DEF On, CommandSet, Pairs

LEMMA OnAsked ==
  ASSUME NEW cmd \in {"setUserGroups", "removeUserGroups", "deleteHashMember"},
         NEW x \in Users, NEW y \in Users, NEW A, NEW u,
         cmd = "setUserGroups" /\ x = u => << y, u >> \in A
  PROVE  CommandAsked(A, u, On(cmd, x, y))
  BY OnCommand DEF CommandAsked, AnswerAsked

LEMMA NoticeMessage ==
  ASSUME NEW kind \in Kinds, NEW u \in Users
  PROVE  /\ Message(kind, u, {}) \in Messages /\ << kind, u >> \in Notices
         /\ Message(kind, u, {}).kind = kind /\ kind # "USERNTF" /\ kind # "RESPONSE"
  BY DEF Message, Messages, Notices, Kinds

LEMMA DispatchAnswer ==
  ASSUME NEW x \in Users, NEW m \in Messages
  PROVE  /\ Dispatch(x, m) \in Answers /\ Dispatch(x, m).cmd = "dispatch"
         /\ Dispatch(x, m).who = x /\ Dispatch(x, m).msg = m
  BY DEF Dispatch, Answers, Dispatches

LEMMA FileAnswer ==
  ASSUME NEW x \in Users, NEW name, NEW n,
         (name = "Response" /\ n \in Notices) \/ (name = "Friend" /\ n \in Users)
  PROVE  /\ File(name, x, n) \in Answers /\ File(name, x, n).cmd = "setResKey"
         /\ File(name, x, n).name = name /\ File(name, x, n).who = x /\ File(name, x, n).notice = n
  BY DEF File, Answers, Filings

LEMMA NotifyCommand ==
  ASSUME NEW u \in Users, NEW x \in Users, NEW kind \in Kinds
  PROVE  /\ Notify(u, x, kind) \in CommandSet /\ Notify(u, x, kind).cmd = "users"
         /\ \A A, v : CommandAsked(A, v, Notify(u, x, kind))
<1> DEFINE d == Dispatch(x, Message(kind, u, {}))
           e == File("Response", x, << kind, u >>)
           c == Notify(u, x, kind)
<1>1. /\ Message(kind, u, {}) \in Messages /\ << kind, u >> \in Notices
      /\ Message(kind, u, {}).kind # "USERNTF"
  BY NoticeMessage
<1>2. d \in Answers /\ d.cmd = "dispatch" /\ d.msg = Message(kind, u, {})
  BY <1>1, DispatchAnswer
<1>3. e \in Answers /\ e.cmd = "setResKey" /\ e.name = "Response"
  BY <1>1, FileAnswer
<1>4. c = [cmd |-> "users", who |-> x, on |-> << d >>, off |-> << e >>]
  BY DEF Notify, Lookup
<1> HIDE DEF d, e, c
<1>5. << d >> \in Seq(Answers) /\ << e >> \in Seq(Answers)
  BY <1>2, <1>3
<1>6. c \in CommandSet
  BY <1>4, <1>5 DEF CommandSet, Lookups
<1>7. c.cmd = "users" /\ c.on = << d >> /\ c.off = << e >>
  BY <1>4
<1>8. ASSUME NEW A
      PROVE  AnswerAsked(A, d) /\ AnswerAsked(A, e)
  BY <1>1, <1>2, <1>3 DEF AnswerAsked, TellsAskers
<1>9. ASSUME NEW A, NEW v
      PROVE  CommandAsked(A, v, c)
  <2>1. \A i \in 1 .. Len(c.on) : c.on[i] = d
    BY <1>7
  <2>2. \A i \in 1 .. Len(c.off) : c.off[i] = e
    BY <1>7
  <2> QED
    BY <1>7, <1>8, <2>1, <2>2 DEF CommandAsked, AnswerAsked
<1> QED
  BY <1>6, <1>7, <1>9 DEF c

LEMMA Harmless ==
  ASSUME NEW A, NEW u, NEW s \in Seq(CommandSet), ProgramAsked(A, u, s), s # << >>,
         \A i \in 1 .. Len(s) : ~Pairing(s[i]) /\ s[i].cmd # "deleteHash"
  PROVE  FrameOK(A, u, s)
<1>1. Len(s) \in Nat /\ Len(s) # 0
  BY EmptySeq, LenProperties
<1>2. CouplesOK(s) /\ ~Half(s)
  BY <1>1 DEF CouplesOK, Half
<1>3. LoginOK(s, Notices) /\ ~Deletes(s)
  BY DEF LoginOK, Deletes
<1> QED
  BY <1>2, <1>3 DEF FrameOK

\* One command that neither befriends, separates nor deletes.
LEMMA HarmlessOne ==
  ASSUME NEW A, NEW u, NEW c \in CommandSet, CommandAsked(A, u, c),
         ~Pairing(c), c.cmd # "deleteHash"
  PROVE  << c >> \in Seq(CommandSet) /\ FrameOK(A, u, << c >>)
<1> DEFINE s == << c >>
<1>1. s \in Seq(CommandSet) /\ s # << >> /\ \A i \in 1 .. Len(s) : s[i] = c
  OBVIOUS
<1> HIDE DEF s
<1>2. ProgramAsked(A, u, s)
  BY <1>1 DEF ProgramAsked
<1>3. FrameOK(A, u, s)
  BY <1>1, <1>2, Harmless
<1> QED
  BY <1>1, <1>3 DEF s

LEMMA FrameKept ==
  ASSUME NEW A, NEW B, A \subseteq B, NEW u
  PROVE  /\ \A c : CommandAsked(A, u, c) => CommandAsked(B, u, c)
         /\ \A s : ProgramAsked(A, u, s) => ProgramAsked(B, u, s)
         /\ \A s : FrameOK(A, u, s) => FrameOK(B, u, s)
<1>1. ASSUME NEW c, CommandAsked(A, u, c)
      PROVE  CommandAsked(B, u, c)
  <2>1. ASSUME NEW d, AnswerAsked(A, d)
        PROVE  AnswerAsked(B, d)
    BY <2>1 DEF AnswerAsked, TellsAskers
  <2> QED
    BY <1>1, <2>1 DEF CommandAsked
<1>2. ASSUME NEW s, ProgramAsked(A, u, s)
      PROVE  ProgramAsked(B, u, s)
  BY <1>1, <1>2 DEF ProgramAsked
<1> QED
  BY <1>1, <1>2 DEF FrameOK

LEMMA LoginFrame ==
  ASSUME NEW A, NEW u \in Users
  PROVE  adduser_program(u) \in Seq(CommandSet) /\ FrameOK(A, u, adduser_program(u))
<1> DEFINE s == adduser_program(u)
           b == Read("getFields", u, "LOGINLIST")
           c == Read("getHash", u, "RESPONSE")
<1>1. s = << Cmd("addUser"), b, c, Cmd("deleteHash") >>
  BY DEF adduser_program
<1>2. Cmd("addUser") \in CommandSet /\ Cmd("addUser").cmd = "addUser"
  BY DEF Cmd, CommandSet, Others
<1>3. Cmd("deleteHash") \in CommandSet /\ Cmd("deleteHash").cmd = "deleteHash"
  BY DEF Cmd, CommandSet, Others
<1>4. b \in CommandSet /\ b.cmd = "getFields"
  BY DEF Read, CommandSet, Others
<1>5. c \in CommandSet /\ c.cmd = "getHash" /\ c.kind = "RESPONSE" /\ c.who = u
  BY DEF Read, CommandSet, Others
<1> HIDE DEF s, b, c
<1>6. s \in Seq(CommandSet) /\ Len(s) = 4 /\ s # << >>
  BY <1>1, <1>2, <1>3, <1>4, <1>5
<1>7. s[1] = Cmd("addUser") /\ s[2] = b /\ s[3] = c /\ s[4] = Cmd("deleteHash")
  BY <1>1
<1>8. \A i \in 1 .. 4 : i = 1 \/ i = 2 \/ i = 3 \/ i = 4
  OBVIOUS
<1>9. \A i \in 1 .. 4 : ~Pairing(s[i]) /\ (s[i].cmd = "deleteHash" => i = 4)
                        /\ CommandAsked(A, u, s[i])
  BY <1>2, <1>3, <1>4, <1>5, <1>7, <1>8 DEF Pairing, CommandAsked, AnswerAsked
<1>10. ProgramAsked(A, u, s) /\ CouplesOK(s) /\ ~Half(s)
  BY <1>6, <1>9 DEF ProgramAsked, CouplesOK, Half
<1>11. 4 - 1 = 3
  OBVIOUS
<1>12. LoginOK(s, Notices)
  BY <1>5, <1>6, <1>7, <1>9, <1>11 DEF LoginOK
<1>13. s[1].cmd = "addUser"
  BY <1>2, <1>7
<1> QED
  BY <1>6, <1>10, <1>12, <1>13 DEF FrameOK, s

LEMMA RequestFrame ==
  ASSUME NEW u \in Users, NEW x \in Users, NEW A, << u, x >> \in A
  PROVE  /\ send_addFriend_program(u, x) \in Seq(CommandSet)
         /\ FrameOK(A, u, send_addFriend_program(u, x))
<1> DEFINE d == Dispatch(x, Message("request", u, {}))
           e == File("Response", x, << "request", u >>)
           g == File("Friend", x, u)
           c == Lookup(x, << g, d >>, << e, g >>)
<1>1. /\ Message("request", u, {}) \in Messages /\ << "request", u >> \in Notices
      /\ Message("request", u, {}).kind # "USERNTF"
  BY NoticeMessage DEF Kinds
<1>2. d \in Answers /\ d.cmd = "dispatch" /\ d.msg = Message("request", u, {})
  BY <1>1, DispatchAnswer
<1>3. e \in Answers /\ e.cmd = "setResKey" /\ e.name = "Response"
  BY <1>1, FileAnswer
<1>4. g \in Answers /\ g.cmd = "setResKey" /\ g.notice = u /\ g.who = x
  BY FileAnswer
<1>5. c = [cmd |-> "users", who |-> x, on |-> << g, d >>, off |-> << e, g >>]
  BY DEF Lookup
<1>6. send_addFriend_program(u, x) = << c >>
  BY DEF send_addFriend_program
<1> HIDE DEF d, e, g, c
<1>7. << g, d >> \in Seq(Answers) /\ << e, g >> \in Seq(Answers)
  BY <1>2, <1>3, <1>4
<1>8. c \in CommandSet
  BY <1>5, <1>7 DEF CommandSet, Lookups
<1>9. c.cmd = "users" /\ c.on = << g, d >> /\ c.off = << e, g >>
  BY <1>5
<1>10. AnswerAsked(A, d) /\ AnswerAsked(A, e) /\ AnswerAsked(A, g)
  BY <1>1, <1>2, <1>3, <1>4 DEF AnswerAsked, TellsAskers
<1>11. \A i \in 1 .. Len(c.on) : c.on[i] = g \/ c.on[i] = d
  BY <1>9
<1>12. \A i \in 1 .. Len(c.off) : c.off[i] = e \/ c.off[i] = g
  BY <1>9
<1>13. CommandAsked(A, u, c)
  BY <1>9, <1>10, <1>11, <1>12 DEF CommandAsked, AnswerAsked
<1>14. ~Pairing(c) /\ c.cmd # "deleteHash"
  BY <1>9 DEF Pairing
<1> QED
  BY <1>6, <1>8, <1>13, <1>14, HarmlessOne

LEMMA NoticeFrame ==
  ASSUME NEW A, NEW u \in Users, NEW x \in Users, NEW kind \in Kinds
  PROVE  << Notify(u, x, kind) >> \in Seq(CommandSet) /\ FrameOK(A, u, << Notify(u, x, kind) >>)
<1> DEFINE c == Notify(u, x, kind)
<1>1. c \in CommandSet /\ c.cmd = "users" /\ CommandAsked(A, u, c)
  BY NotifyCommand
<1> HIDE DEF c
<1>2. ~Pairing(c) /\ c.cmd # "deleteHash"
  BY <1>1 DEF Pairing
<1>3. << c >> \in Seq(CommandSet) /\ FrameOK(A, u, << c >>)
  BY <1>1, <1>2, HarmlessOne
<1> QED
  BY <1>3 DEF c

LEMMA ReadFrames ==
  ASSUME NEW A, NEW u \in Users
  PROVE  /\ send_user_notify_program(u) \in Seq(CommandSet)
         /\ FrameOK(A, u, send_user_notify_program(u))
         /\ send_List_program(u) \in Seq(CommandSet)
         /\ FrameOK(A, u, send_List_program(u))
<1> DEFINE b == Read("getHash", u, "USERNTF")
           c == Read("getFields", u, "FDLIST")
<1>1. b \in CommandSet /\ b.cmd = "getHash" /\ b.who = u
  BY DEF Read, CommandSet, Others
<1>2. c \in CommandSet /\ c.cmd = "getFields"
  BY DEF Read, CommandSet, Others
<1> HIDE DEF b, c
<1>3. CommandAsked(A, u, b) /\ ~Pairing(b) /\ b.cmd # "deleteHash"
  BY <1>1 DEF CommandAsked, AnswerAsked, Pairing
<1>4. CommandAsked(A, u, c) /\ ~Pairing(c) /\ c.cmd # "deleteHash"
  BY <1>2 DEF CommandAsked, AnswerAsked, Pairing
<1>5. << b >> \in Seq(CommandSet) /\ FrameOK(A, u, << b >>)
  BY <1>1, <1>3, HarmlessOne
<1>6. << c >> \in Seq(CommandSet) /\ FrameOK(A, u, << c >>)
  BY <1>2, <1>4, HarmlessOne
<1> QED
  BY <1>5, <1>6 DEF b, c, send_user_notify_program, send_List_program

LEMMA DropFrame ==
  ASSUME NEW A, NEW u \in Users, NEW x \in Users
  PROVE  /\ Delete_notify_program(u, x) \in Seq(CommandSet)
         /\ FrameOK(A, u, Delete_notify_program(u, x))
<1> DEFINE c == On("deleteHashMember", u, x)
<1>1. c \in CommandSet /\ c.cmd = "deleteHashMember" /\ CommandAsked(A, u, c)
  BY OnCommand, OnAsked
<1> HIDE DEF c
<1>2. ~Pairing(c) /\ c.cmd # "deleteHash"
  BY <1>1 DEF Pairing
<1>3. << c >> \in Seq(CommandSet) /\ FrameOK(A, u, << c >>)
  BY <1>1, <1>2, HarmlessOne
<1> QED
  BY <1>3 DEF c, Delete_notify_program

\* Both ways to one pair, then a notice.
LEMMA BothWays ==
  ASSUME NEW A, NEW u \in Users, NEW x \in Users, NEW kind \in Kinds,
         NEW cmd \in {"setUserGroups", "removeUserGroups"},
         cmd = "setUserGroups" => << x, u >> \in A,
         NEW s, s = << On(cmd, u, x), On(cmd, x, u), Notify(u, x, kind) >>
  PROVE  s \in Seq(CommandSet) /\ FrameOK(A, u, s)
<1> DEFINE a == On(cmd, u, x)
           b == On(cmd, x, u)
           c == Notify(u, x, kind)
<1>1. /\ a \in CommandSet /\ a.cmd = cmd /\ a.who = u /\ a.other = x
      /\ b \in CommandSet /\ b.cmd = cmd /\ b.who = x /\ b.other = u
  BY OnCommand
<1>2. CommandAsked(A, u, a) /\ CommandAsked(A, u, b)
  BY OnAsked
<1>3. c \in CommandSet /\ c.cmd = "users" /\ CommandAsked(A, u, c)
  BY NotifyCommand
<1>4. s = << a, b, c >>
  OBVIOUS
<1> HIDE DEF a, b, c
<1>5. s \in Seq(CommandSet) /\ Len(s) = 3 /\ s # << >> /\ s[1] = a /\ s[2] = b /\ s[3] = c
  BY <1>1, <1>3, <1>4
<1>6. \A i \in 1 .. 3 : i = 1 \/ i = 2 \/ i = 3
  OBVIOUS
<1>7. /\ Pairing(a) /\ Pairing(b) /\ ~Pairing(c) /\ Mirror(a, b) /\ Mirror(b, a)
      /\ a.cmd # "deleteHash" /\ b.cmd # "deleteHash" /\ c.cmd # "deleteHash"
  BY <1>1, <1>3 DEF Pairing, Mirror
<1>8. ProgramAsked(A, u, s)
  BY <1>2, <1>3, <1>5, <1>6 DEF ProgramAsked
<1>9. ~Half(s)
  BY <1>5, <1>7 DEF Half
<1>10. \A i \in 2 .. Len(s) : Pairing(s[i]) => Mirror(s[i], s[i - 1])
  <2>1. \A i \in 2 .. 3 : i = 2 \/ i = 3
    OBVIOUS
  <2>2. 2 - 1 = 1
    OBVIOUS
  <2> QED
    BY <1>5, <1>7, <2>1, <2>2
<1>11. \A i, j \in 1 .. Len(s) : i < j /\ Pairing(s[i]) /\ Pairing(s[j])
                                   => j = i + 1 /\ Mirror(s[i], s[j])
  <2>1. \A i, j \in 1 .. 3 : i < j => (i = 1 /\ j = 2) \/ j = 3
    OBVIOUS
  <2>2. 2 = 1 + 1
    OBVIOUS
  <2> QED
    BY <1>5, <1>7, <2>1, <2>2
<1>12. CouplesOK(s)
  BY <1>10, <1>11 DEF CouplesOK
<1>13. LoginOK(s, Notices) /\ ~Deletes(s)
  BY <1>5, <1>6, <1>7 DEF LoginOK, Deletes
<1> QED
  BY <1>5, <1>8, <1>9, <1>12, <1>13 DEF FrameOK

LEMMA DecideFrame ==
  ASSUME NEW A, NEW u \in Users, NEW x \in Users, << x, u >> \in A, NEW decide \in BOOLEAN
  PROVE  addFriend_program(u, x, decide) \in Seq(CommandSet)
         /\ FrameOK(A, u, addFriend_program(u, x, decide))
<1>1. "accepted" \in Kinds /\ "refused" \in Kinds
  BY DEF Kinds
<1>2. CASE decide
  <2>1. addFriend_program(u, x, decide)
          = << On("setUserGroups", u, x), On("setUserGroups", x, u), Notify(u, x, "accepted") >>
    BY <1>2 DEF addFriend_program
  <2> QED
    BY <1>1, <2>1, BothWays
<1>3. CASE ~decide
  <2>1. addFriend_program(u, x, decide) = << Notify(u, x, "refused") >>
    BY <1>3 DEF addFriend_program
  <2> QED
    BY <1>1, <2>1, NoticeFrame
<1> QED
  BY <1>2, <1>3

LEMMA TwoAndOne ==
  ASSUME NEW S, NEW a \in S, NEW b \in S, NEW c \in S
  PROVE  << a, b >> \o << c >> = << a, b, c >>
<1> DEFINE s == << a, b >> \o << c >>
<1>1. s \in Seq(S) /\ Len(s) = 3 /\ s[1] = a /\ s[2] = b /\ s[3] = c
  OBVIOUS
<1>2. << a, b, c >> \in Seq(S)
  OBVIOUS
<1> HIDE DEF s
<1>3. s = << a, b, c >>
  BY <1>1, <1>2
<1> QED
  BY <1>3 DEF s

LEMMA DeleteFrame ==
  ASSUME NEW A, NEW u \in Users, NEW x \in Users
  PROVE  /\ Send_delete_friend_program(u, x) \in Seq(CommandSet)
         /\ FrameOK(A, u, Send_delete_friend_program(u, x))
<1> DEFINE a == On("removeUserGroups", u, x)
           b == On("removeUserGroups", x, u)
           c == Notify(u, x, "deleted")
<1>1. Send_delete_friend_program(u, x) = << a, b >> \o << c >>
  BY DEF Send_delete_friend_program, deleteFriend
<1>2. a \in CommandSet /\ b \in CommandSet /\ c \in CommandSet
  BY OnCommand, NotifyCommand DEF Kinds
<1> HIDE DEF a, b, c
<1>3. Send_delete_friend_program(u, x) = << a, b, c >>
  BY <1>1, <1>2, TwoAndOne
<1>4. "deleted" \in Kinds
  BY DEF Kinds
<1> QED
  BY <1>3, <1>4, BothWays DEF a, b, c

-----------------------------------------------------------------------------
(* Deleting an account: three commands for each friend, then two.          *)

LEMMA Blocks ==
  ASSUME NEW m \in Nat, NEW i \in 1 .. 3 * m
  PROVE  LET q == (i + 2) \div 3
             r == 1 + ((i + 2) % 3)
         IN  q \in 1 .. m /\ r \in 1 .. 3 /\ i = 3 * (q - 1) + r
  OBVIOUS

Blocked(u, m, order, s) ==
    /\ Len(s) = 3 * m + 2
    /\ \A i \in 1 .. 3 * m : \E q \in 1 .. m, r \in 1 .. 3 :
          /\ i = 3 * (q - 1) + r
          /\ r = 1 => s[i] = On("removeUserGroups", u, order[q])
          /\ r = 2 => s[i] = On("removeUserGroups", order[q], u)
          /\ r = 3 => s[i] = Notify(u, order[q], "gone")
    /\ \A i \in 1 .. Len(s) : i \notin 1 .. 3 * m =>
          s[i] = Cmd("deleteHashMembers") \/ s[i] = Cmd("deleteHashKey")

LEMMA AccountCommands ==
  ASSUME NEW u \in Users, NEW m \in Nat, NEW order \in [1 .. m -> Users],
         NEW s, s = del_account_program(u, order)
  PROVE  s \in Seq(CommandSet) /\ Blocked(u, m, order, s)
<1> DEFINE each(x) == deleteFriend(u, x) \o << Notify(u, x, "gone") >>
           n == 3 * m
           q(i) == (i + 2) \div 3
           r(i) == 1 + ((i + 2) % 3)
<1>1. Len(order) = m
  BY DEF Seq
<1>2. s = [i \in 1 .. n + 2 |->
             IF i <= n THEN each(order[q(i)])[r(i)]
             ELSE Cmd(IF i = n + 1 THEN "deleteHashMembers" ELSE "deleteHashKey")]
  BY <1>1 DEF del_account_program
<1>3. ASSUME NEW x \in Users
      PROVE  /\ each(x)[1] = On("removeUserGroups", u, x)
             /\ each(x)[2] = On("removeUserGroups", x, u)
             /\ each(x)[3] = Notify(u, x, "gone")
             /\ each(x)[1] \in CommandSet /\ each(x)[2] \in CommandSet /\ each(x)[3] \in CommandSet
  <2> DEFINE a == On("removeUserGroups", u, x)
             b == On("removeUserGroups", x, u)
             c == Notify(u, x, "gone")
  <2>1. a \in CommandSet /\ b \in CommandSet /\ c \in CommandSet
    BY OnCommand, NotifyCommand DEF Kinds
  <2>2. each(x) = << a, b >> \o << c >>
    BY DEF deleteFriend
  <2> HIDE DEF a, b, c, each
  <2>3. each(x) = << a, b, c >>
    BY <2>1, <2>2, TwoAndOne
  <2>4. each(x)[1] = a /\ each(x)[2] = b /\ each(x)[3] = c
    BY <2>3
  <2> QED
    BY <2>1, <2>4 DEF a, b, c
<1> HIDE DEF each
<1>4. ASSUME NEW i \in 1 .. n
      PROVE  q(i) \in 1 .. m /\ r(i) \in 1 .. 3 /\ i = 3 * (q(i) - 1) + r(i)
  BY <1>4, Blocks
<1> HIDE DEF q, r
<1>5. ASSUME NEW i \in 1 .. n
      PROVE  s[i] = each(order[q(i)])[r(i)]
  <2>1. i \in 1 .. n + 2 /\ i <= n
    OBVIOUS
  <2> QED
    BY <1>2, <2>1
<1>6. ASSUME NEW i \in 1 .. n + 2, i \notin 1 .. n
      PROVE  s[i] = Cmd("deleteHashMembers") \/ s[i] = Cmd("deleteHashKey")
  <2>1. ~(i <= n)
    BY <1>6
  <2> QED
    BY <1>2, <2>1
<1>7. Cmd("deleteHashMembers") \in CommandSet /\ Cmd("deleteHashKey") \in CommandSet
  BY DEF Cmd, CommandSet, Others
<1>8. ASSUME NEW i \in 1 .. n
      PROVE  s[i] \in CommandSet
  <2>1. order[q(i)] \in Users /\ (r(i) = 1 \/ r(i) = 2 \/ r(i) = 3)
    BY <1>4
  <2> QED
    BY <1>3, <1>5, <2>1
<1>9. \A i \in 1 .. n + 2 : s[i] \in CommandSet
  BY <1>6, <1>7, <1>8
<1>10. n + 2 \in Nat /\ s \in [1 .. n + 2 -> CommandSet]
  BY <1>2, <1>9
<1> HIDE DEF n
<1>11. s \in Seq(CommandSet) /\ Len(s) = n + 2
  BY <1>10 DEF Seq
<1>12. ASSUME NEW i \in 1 .. n
       PROVE  \E q0 \in 1 .. m, r0 \in 1 .. 3 :
                 /\ i = 3 * (q0 - 1) + r0
                 /\ r0 = 1 => s[i] = On("removeUserGroups", u, order[q0])
                 /\ r0 = 2 => s[i] = On("removeUserGroups", order[q0], u)
                 /\ r0 = 3 => s[i] = Notify(u, order[q0], "gone")
  <2>1. q(i) \in 1 .. m /\ r(i) \in 1 .. 3 /\ i = 3 * (q(i) - 1) + r(i)
    BY <1>4
  <2>2. order[q(i)] \in Users
    BY <2>1
  <2>3. /\ r(i) = 1 => s[i] = On("removeUserGroups", u, order[q(i)])
        /\ r(i) = 2 => s[i] = On("removeUserGroups", order[q(i)], u)
        /\ r(i) = 3 => s[i] = Notify(u, order[q(i)], "gone")
    BY <1>3, <1>5, <2>2
  <2> QED
    BY <2>1, <2>3
<1> QED
  BY <1>6, <1>11, <1>12 DEF n, Blocked

LEMMA AccountFrame ==
  ASSUME NEW A, NEW u \in Users, NEW m \in Nat, NEW order \in [1 .. m -> Users],
         \A i, j \in 1 .. m : i # j => order[i] # order[j],
         NEW s, s = del_account_program(u, order)
  PROVE  s \in Seq(CommandSet) /\ FrameOK(A, u, s)
<1> DEFINE n == 3 * m
<1>1. /\ s \in Seq(CommandSet) /\ Len(s) = n + 2 /\ n \in Nat
      /\ \A i \in 1 .. n : \E q \in 1 .. m, r \in 1 .. 3 :
            /\ i = 3 * (q - 1) + r
            /\ r = 1 => s[i] = On("removeUserGroups", u, order[q])
            /\ r = 2 => s[i] = On("removeUserGroups", order[q], u)
            /\ r = 3 => s[i] = Notify(u, order[q], "gone")
      /\ \A i \in 1 .. Len(s) : i \notin 1 .. n =>
            s[i] = Cmd("deleteHashMembers") \/ s[i] = Cmd("deleteHashKey")
  <2>1. s \in Seq(CommandSet) /\ Blocked(u, m, order, s)
    BY AccountCommands
  <2> QED
    BY <2>1 DEF Blocked
<1>2. \A q \in 1 .. m : order[q] \in Users
  OBVIOUS
<1>3. ASSUME NEW x \in Users
      PROVE  /\ Pairing(On("removeUserGroups", u, x)) /\ Pairing(On("removeUserGroups", x, u))
             /\ Mirror(On("removeUserGroups", u, x), On("removeUserGroups", x, u))
             /\ Mirror(On("removeUserGroups", x, u), On("removeUserGroups", u, x))
             /\ Couple(On("removeUserGroups", u, x)) = {u, x}
             /\ Couple(On("removeUserGroups", x, u)) = {u, x}
             /\ CommandAsked(A, u, On("removeUserGroups", u, x))
             /\ CommandAsked(A, u, On("removeUserGroups", x, u))
             /\ On("removeUserGroups", u, x).cmd = "removeUserGroups"
             /\ On("removeUserGroups", x, u).cmd = "removeUserGroups"
  BY OnCommand, OnAsked DEF Pairing, Mirror, Couple
<1>4. ASSUME NEW x \in Users
      PROVE  /\ Notify(u, x, "gone").cmd = "users" /\ ~Pairing(Notify(u, x, "gone"))
             /\ CommandAsked(A, u, Notify(u, x, "gone"))
  BY NotifyCommand DEF Kinds, Pairing
<1>5. ASSUME NEW cmd \in {"deleteHashMembers", "deleteHashKey"}
      PROVE  Cmd(cmd).cmd = cmd /\ ~Pairing(Cmd(cmd)) /\ CommandAsked(A, u, Cmd(cmd))
  BY DEF Cmd, Pairing, CommandAsked, AnswerAsked
<1>6. ASSUME NEW i \in 1 .. Len(s)
      PROVE  CommandAsked(A, u, s[i]) /\ s[i].cmd # "deleteHash"
  <2>1. CASE i \in 1 .. n
    <3>1. PICK q \in 1 .. m, r \in 1 .. 3 :
            /\ i = 3 * (q - 1) + r
            /\ r = 1 => s[i] = On("removeUserGroups", u, order[q])
            /\ r = 2 => s[i] = On("removeUserGroups", order[q], u)
            /\ r = 3 => s[i] = Notify(u, order[q], "gone")
      BY <1>1, <2>1
    <3>2. r = 1 \/ r = 2 \/ r = 3
      OBVIOUS
    <3> QED
      BY <1>2, <1>3, <1>4, <3>1, <3>2
  <2>2. CASE i \notin 1 .. n
    BY <1>1, <1>5, <2>2
  <2> QED
    BY <2>1, <2>2
\* A command for a couple is one of the first two of its block.
<1>7. ASSUME NEW i \in 1 .. Len(s), Pairing(s[i])
      PROVE  \E q \in 1 .. m :
                /\ Couple(s[i]) = {u, order[q]}
                /\ \/ i = 3 * (q - 1) + 1 /\ s[i] = On("removeUserGroups", u, order[q])
                   \/ i = 3 * (q - 1) + 2 /\ s[i] = On("removeUserGroups", order[q], u)
  <2>1. i \in 1 .. n
    BY <1>1, <1>5, <1>7
  <2>2. PICK q \in 1 .. m, r \in 1 .. 3 :
          /\ i = 3 * (q - 1) + r
          /\ r = 1 => s[i] = On("removeUserGroups", u, order[q])
          /\ r = 2 => s[i] = On("removeUserGroups", order[q], u)
          /\ r = 3 => s[i] = Notify(u, order[q], "gone")
    BY <1>1, <2>1
  <2>3. r # 3
    BY <1>2, <1>4, <1>7, <2>2
  <2>4. r = 1 \/ r = 2
    BY <2>3
  <2> QED
    BY <1>2, <1>3, <2>2, <2>4
\* The other one of the two.
<1>8. ASSUME NEW q \in 1 .. m
      PROVE  /\ s[3 * (q - 1) + 1] = On("removeUserGroups", u, order[q])
             /\ s[3 * (q - 1) + 2] = On("removeUserGroups", order[q], u)
             /\ 3 * (q - 1) + 1 \in 1 .. Len(s) /\ 3 * (q - 1) + 2 \in 1 .. Len(s)
  <2>1. 3 * (q - 1) + 1 \in 1 .. n /\ 3 * (q - 1) + 2 \in 1 .. n
    OBVIOUS
  <2>2. ASSUME NEW k \in {1, 2}
        PROVE  /\ k = 1 => s[3 * (q - 1) + k] = On("removeUserGroups", u, order[q])
               /\ k = 2 => s[3 * (q - 1) + k] = On("removeUserGroups", order[q], u)
    <3>1. PICK i \in 1 .. n : i = 3 * (q - 1) + k
      BY <2>1
    <3>2. PICK q0 \in 1 .. m, r \in 1 .. 3 :
            /\ i = 3 * (q0 - 1) + r
            /\ r = 1 => s[i] = On("removeUserGroups", u, order[q0])
            /\ r = 2 => s[i] = On("removeUserGroups", order[q0], u)
            /\ r = 3 => s[i] = Notify(u, order[q0], "gone")
      BY <1>1
    <3>3. q0 = q /\ r = k
      BY <3>1, <3>2
    <3> QED
      BY <3>1, <3>2, <3>3
  <2> QED
    BY <1>1, <2>1, <2>2
<1>9. ASSUME NEW i \in 2 .. Len(s), Pairing(s[i])
      PROVE  Mirror(s[i], s[i - 1]) \/ (i < Len(s) /\ Mirror(s[i], s[i + 1]))
  <2>1. PICK q \in 1 .. m :
          \/ i = 3 * (q - 1) + 1 /\ s[i] = On("removeUserGroups", u, order[q])
          \/ i = 3 * (q - 1) + 2 /\ s[i] = On("removeUserGroups", order[q], u)
    BY <1>1, <1>7, <1>9
  <2>2. CASE i = 3 * (q - 1) + 1 /\ s[i] = On("removeUserGroups", u, order[q])
    <3>1. i + 1 = 3 * (q - 1) + 2 /\ i < Len(s)
      BY <1>1, <1>8, <2>2
    <3> QED
      BY <1>2, <1>3, <1>8, <2>2, <3>1
  <2>3. CASE i = 3 * (q - 1) + 2 /\ s[i] = On("removeUserGroups", order[q], u)
    <3>1. i - 1 = 3 * (q - 1) + 1
      BY <1>1, <2>3
    <3> QED
      BY <1>2, <1>3, <1>8, <2>3, <3>1
  <2> QED
    BY <2>1, <2>2, <2>3
<1>10. ASSUME NEW i \in 1 .. Len(s), NEW j \in 1 .. Len(s), i < j, Pairing(s[i]), Pairing(s[j]),
              Couple(s[i]) = Couple(s[j])
       PROVE  j = i + 1 /\ Mirror(s[i], s[j])
  <2>1. PICK a \in 1 .. m :
          /\ Couple(s[i]) = {u, order[a]}
          /\ \/ i = 3 * (a - 1) + 1 /\ s[i] = On("removeUserGroups", u, order[a])
             \/ i = 3 * (a - 1) + 2 /\ s[i] = On("removeUserGroups", order[a], u)
    BY <1>7, <1>10
  <2>2. PICK b \in 1 .. m :
          /\ Couple(s[j]) = {u, order[b]}
          /\ \/ j = 3 * (b - 1) + 1 /\ s[j] = On("removeUserGroups", u, order[b])
             \/ j = 3 * (b - 1) + 2 /\ s[j] = On("removeUserGroups", order[b], u)
    BY <1>7, <1>10
  <2>3. order[a] = order[b]
    <3>1. {u, order[a]} = {u, order[b]}
      BY <1>10, <2>1, <2>2
    <3>2. ASSUME NEW x, NEW y, {u, x} = {u, y}
          PROVE  x = y
      BY <3>2
    <3> QED
      BY <3>1, <3>2
  <2>4. a = b
    BY <2>3
  <2>5. /\ i = 3 * (a - 1) + 1 /\ j = 3 * (a - 1) + 2
    BY <1>10, <2>1, <2>2, <2>4
  <2>6. s[i] = On("removeUserGroups", u, order[a]) /\ s[j] = On("removeUserGroups", order[a], u)
    BY <1>8, <2>5
  <2> QED
    BY <1>2, <1>3, <2>5, <2>6
<1>11. CouplesOK(s)
  BY <1>9, <1>10 DEF CouplesOK
<1>12. ProgramAsked(A, u, s)
  BY <1>6 DEF ProgramAsked
<1>13. LoginOK(s, Notices) /\ ~Deletes(s)
  BY <1>6 DEF LoginOK, Deletes
<1>14. ~Half(s)
  <2>1. SUFFICES ASSUME Pairing(s[1]), ~(Len(s) > 1 /\ Mirror(s[1], s[2])) PROVE FALSE
    BY DEF Half
  <2>2. 1 \in 1 .. Len(s) /\ 2 \in 1 .. Len(s) /\ Len(s) > 1
    BY <1>1
  <2>3. PICK q \in 1 .. m :
          \/ 1 = 3 * (q - 1) + 1 /\ s[1] = On("removeUserGroups", u, order[q])
          \/ 1 = 3 * (q - 1) + 2 /\ s[1] = On("removeUserGroups", order[q], u)
    BY <1>7, <2>1, <2>2
  <2>4. q = 1 /\ 3 * (q - 1) + 1 = 1 /\ 3 * (q - 1) + 2 = 2
    BY <2>3
  <2>5. s[1] = On("removeUserGroups", u, order[q]) /\ s[2] = On("removeUserGroups", order[q], u)
    BY <1>8, <2>4
  <2> QED
    BY <1>2, <1>3, <2>1, <2>2, <2>5
<1> QED
  BY <1>1, <1>11, <1>12, <1>13, <1>14 DEF FrameOK

-----------------------------------------------------------------------------
(* The menus.                                                              *)

FramesOK(A, fs) ==
    /\ fs \in [Users -> Seq(Seq(CommandSet))]
    /\ \A u \in Users : \A i \in 1 .. Len(fs[u]) : FrameOK(A, u, fs[u][i])

\* What the clients know, and what is on its way to them.
Heard(A, known, ch) ==
    \A u \in Users : /\ \A x \in known[u] : << x, u >> \in A
                     /\ \A i \in 1 .. Len(ch[u]) : TellsAskers(A, u, ch[u][i])

LEMMA FramesSent ==
  ASSUME NEW A, NEW B, A \subseteq B, NEW fs, FramesOK(A, fs), NEW u \in Users,
         NEW p \in Seq(Seq(CommandSet)), \A i \in 1 .. Len(p) : FrameOK(B, u, p[i])
  PROVE  FramesOK(B, [fs EXCEPT ![u] = p])
<1> DEFINE gs == [fs EXCEPT ![u] = p]
<1>1. fs \in [Users -> Seq(Seq(CommandSet))]
  BY DEF FramesOK
<1>2. gs \in [Users -> Seq(Seq(CommandSet))] /\ gs[u] = p
      /\ \A v \in Users \ {u} : gs[v] = fs[v]
  BY <1>1
<1> HIDE DEF gs
<1>3. ASSUME NEW v \in Users, NEW i \in 1 .. Len(gs[v])
      PROVE  FrameOK(B, v, gs[v][i])
  <2>1. CASE v = u
    BY <1>2, <1>3, <2>1
  <2>2. CASE v # u
    <3>1. gs[v] = fs[v]
      BY <1>2, <2>2
    <3>2. FrameOK(A, v, fs[v][i])
      BY <1>3, <3>1 DEF FramesOK
    <3> QED
      BY <3>1, <3>2, FrameKept
  <2> QED
    BY <2>1, <2>2
<1> QED
  BY <1>2, <1>3 DEF FramesOK, gs

LEMMA FramesGrow ==
  ASSUME NEW A, NEW B, A \subseteq B, NEW fs, FramesOK(A, fs)
  PROVE  FramesOK(B, fs)
  BY FrameKept DEF FramesOK

\* One program, or two.
LEMMA OneProgram ==
  ASSUME NEW A, NEW u, NEW s \in Seq(CommandSet), FrameOK(A, u, s)
  PROVE  << s >> \in Seq(Seq(CommandSet)) /\ \A i \in 1 .. Len(<< s >>) : FrameOK(A, u, << s >>[i])
  OBVIOUS

LEMMA TwoPrograms ==
  ASSUME NEW A, NEW u, NEW s \in Seq(CommandSet), FrameOK(A, u, s),
         NEW t \in Seq(CommandSet), FrameOK(A, u, t)
  PROVE  /\ << s, t >> \in Seq(Seq(CommandSet))
         /\ \A i \in 1 .. Len(<< s, t >>) : FrameOK(A, u, << s, t >>[i])
<1>1. \A i \in 1 .. 2 : i = 1 \/ i = 2
  OBVIOUS
<1> QED
  BY <1>1

LEMMA Told ==
  ASSUME NEW A, NEW B, A \subseteq B
  PROVE  /\ \A u, m : TellsAskers(A, u, m) => TellsAskers(B, u, m)
         /\ \A known, ch : Heard(A, known, ch) => Heard(B, known, ch)
  BY DEF TellsAskers, Heard

LEMMA Parts ==
  ASSUME Inv
  PROVE  /\ TablesOK /\ FramesOK(asked, frames) /\ Heard(asked, friend_res, chan)
         /\ \A u \in Users : /\ \A x \in requests[u] : << x, u >> \in asked
                             /\ ProgramAsked(asked, u, todo[u]) /\ CouplesOK(todo[u])
         /\ AcceptedWereAsked /\ MutualOK /\ KeptOK
  BY DEF Inv, TablesOK, ProgramsOK, AskedOK, FramesOK, Heard

LEMMA Whole ==
  ASSUME TablesOK', FramesOK(asked', frames'), Heard(asked', friend_res', chan'),
         \A u \in Users : /\ \A x \in requests'[u] : << x, u >> \in asked'
                          /\ ProgramAsked(asked', u, todo'[u]) /\ CouplesOK(todo'[u]),
         AcceptedWereAsked', MutualOK', KeptOK'
  PROVE  Inv'
  BY DEF Inv, ProgramsOK, AskedOK, FramesOK, Heard

\* A choice in a menu leaves to the server what the server keeps.
LEMMA MenuKeeps ==
  ASSUME Inv, UNCHANGED <<redisVars, online, todo, accepted, mixed, filed>>,
         asked \subseteq asked', TablesOK', FramesOK(asked', frames'),
         Heard(asked', friend_res', chan')
  PROVE  Inv'
<1> USE DEF redisVars
<1>1. \A u \in Users : /\ \A x \in requests'[u] : << x, u >> \in asked'
                       /\ ProgramAsked(asked', u, todo'[u]) /\ CouplesOK(todo'[u])
  BY Parts, FrameKept
<1>2. AcceptedWereAsked'
  BY Parts DEF AcceptedWereAsked
<1>3. MutualOK'
  BY Parts DEF MutualOK
<1>4. KeptOK'
  BY Parts DEF KeptOK, OfflineNoticeKept, FiledOffline
<1> QED
  BY <1>1, <1>2, <1>3, <1>4, Whole

LEMMA RequestSent ==
  ASSUME Inv, NEW u \in Users, NEW p \in Seq(Seq(CommandSet)), asked \subseteq asked',
         \A i \in 1 .. Len(p) : FrameOK(asked', u, p[i]), Request(u, p)
  PROVE  /\ FramesOK(asked', frames') /\ served' \in 0 .. MaxRequests
         /\ UNCHANGED <<account, friends, requests, response, online, todo, logins>>
<1>1. FramesOK(asked, frames) /\ served \in 0 .. MaxRequests
  BY Parts DEF TablesOK
<1>2. frames' = [frames EXCEPT ![u] = p]
  BY DEF Request
<1>3. FramesOK(asked', frames')
  BY <1>1, <1>2, FramesSent
<1>4. served' \in 0 .. MaxRequests
  BY <1>1, FriendsConstants DEF Request
<1> QED
  BY <1>3, <1>4 DEF Request, redisVars

\* A choice that leaves the client as it was.
LEMMA RequestOnly ==
  ASSUME Inv, NEW u \in Users, NEW s \in Seq(CommandSet), FrameOK(asked, u, s),
         Request(u, << s >>), UNCHANGED <<chan, clientVars, historyVars>>
  PROVE  Inv'
<1> USE DEF clientVars, historyVars
<1>1. asked \subseteq asked' /\ asked' = asked
  OBVIOUS
<1>2. FrameOK(asked', u, s)
  BY <1>1
<1>3. << s >> \in Seq(Seq(CommandSet)) /\ \A i \in 1 .. Len(<< s >>) : FrameOK(asked', u, << s >>[i])
  BY <1>2, OneProgram
<1>4. /\ FramesOK(asked', frames') /\ served' \in 0 .. MaxRequests
      /\ UNCHANGED <<account, friends, requests, response, online, todo, logins>>
  BY <1>1, <1>3, RequestSent
<1>5. TablesOK'
  BY <1>4, Parts DEF TablesOK, FramesOK
<1>6. Heard(asked', friend_res', chan')
  BY Parts
<1> QED
  BY <1>1, <1>4, <1>5, <1>6, MenuKeeps DEF redisVars

\* The client exits: it knows nothing, and nothing is on its way to it.
LEMMA ExitKeeps ==
  ASSUME Inv, NEW u \in Users, Exit(u), UNCHANGED <<online, todo, historyVars, logins>>,
         UNCHANGED redisVars, FramesOK(asked', frames'), served' \in 0 .. MaxRequests
  PROVE  Inv'
<1> USE DEF redisVars, historyVars
<1>1. TablesOK /\ Heard(asked, friend_res, chan)
  BY Parts
<1>2. /\ chan \in [Users -> Seq(Messages)] /\ friend_res \in [Users -> SUBSET Users]
      /\ chan' = [chan EXCEPT ![u] = << >>] /\ friend_res' = [friend_res EXCEPT ![u] = {}]
  BY <1>1 DEF TablesOK, Exit
<1>3. chan' \in [Users -> Seq(Messages)]
  BY <1>2
<1>4. TablesOK'
  BY <1>1, <1>3 DEF TablesOK, FramesOK, Exit
<1>5. Heard(asked', friend_res', chan')
  BY <1>1, <1>2 DEF Heard
<1> QED
  BY <1>4, <1>5, MenuKeeps

LEMMA LoginStep ==
  ASSUME Inv, NEW u \in Users, login(u)
  PROVE  Inv'
<1> USE DEF redisVars, historyVars
<1> DEFINE s == adduser_program(u)
<1>1. s \in Seq(CommandSet) /\ FrameOK(asked', u, s)
  BY LoginFrame
<1> HIDE DEF s
<1>2. << s >> \in Seq(Seq(CommandSet)) /\ \A i \in 1 .. Len(<< s >>) : FrameOK(asked', u, << s >>[i])
  BY <1>1, OneProgram
<1>3. asked' = asked /\ asked \subseteq asked' /\ frames' = [frames EXCEPT ![u] = << s >>]
  BY DEF login, s
<1>4. FramesOK(asked', frames')
  <2>1. FramesOK(asked, frames)
    BY Parts
  <2>2. FramesOK(asked', [frames EXCEPT ![u] = << s >>])
    BY <1>2, <1>3, <2>1, FramesSent
  <2> QED
    BY <1>3, <2>2
<1>5. TablesOK'
  <2>1. frames' \in [Users -> Seq(Seq(CommandSet))] /\ TablesOK
    BY <1>4, Parts DEF FramesOK
  <2>2. logins' \in 0 .. MaxLogins
    BY <2>1, FriendsConstants DEF TablesOK, login
  <2>3. up' \subseteq Users
    BY <2>1 DEF TablesOK, login
  <2>4. UNCHANGED <<redisVars, online, todo, chan, cache, friend_res, friends_block,
                    friends_by_block, historyVars, served>>
    BY DEF login
  <2> QED
    BY <2>1, <2>2, <2>3, <2>4 DEF TablesOK
<1>6. Heard(asked', friend_res', chan')
  BY Parts DEF login
<1> QED
  BY <1>3, <1>4, <1>5, <1>6, MenuKeeps DEF login

LEMMA QuitStep ==
  ASSUME Inv, NEW u \in Users, quit(u)
  PROVE  Inv'
<1>1. FramesOK(asked', frames') /\ served' \in 0 .. MaxRequests
  BY Parts DEF quit, TablesOK, historyVars
<1> QED
  BY <1>1, ExitKeeps DEF quit

LEMMA DelAccountStep ==
  ASSUME Inv, NEW u \in Users, del_account(u)
  PROVE  Inv'
<1> USE DEF redisVars, historyVars
<1>1. PICK order \in SetToSeqs(cache[u]) : Request(u, << del_account_program(u, order) >>)
  BY DEF del_account
<1>2. cache[u] \in SUBSET Users /\ IsFiniteSet(cache[u])
  BY Parts, FriendsConstants, FS_Subset DEF TablesOK
<1>3. PICK m \in Nat : m = Cardinality(cache[u])
  BY <1>2, FS_CardinalityType
<1>4. order \in [1 .. m -> cache[u]] /\ \A i, j \in 1 .. m : i # j => order[i] # order[j]
  BY <1>3 DEF SetToSeqs
<1>5. order \in [1 .. m -> Users]
  BY <1>2, <1>4
<1> DEFINE s == del_account_program(u, order)
<1>6. s \in Seq(CommandSet) /\ FrameOK(asked', u, s)
  BY <1>4, <1>5, AccountFrame
<1> HIDE DEF s
<1>7. << s >> \in Seq(Seq(CommandSet)) /\ \A i \in 1 .. Len(<< s >>) : FrameOK(asked', u, << s >>[i])
  BY <1>6, OneProgram
<1>8. Request(u, << s >>) /\ asked' = asked /\ asked \subseteq asked'
  BY <1>1 DEF s, del_account
<1>9. /\ FramesOK(asked', frames') /\ served' \in 0 .. MaxRequests
      /\ UNCHANGED <<account, friends, requests, response, online, todo, logins>>
  BY <1>7, <1>8, RequestSent
<1> QED
  BY <1>9, ExitKeeps DEF del_account

LEMMA ListSteps ==
  ASSUME Inv, NEW u \in Users, handleReq(u) \/ send_List(u)
  PROVE  Inv'
<1>1. CASE handleReq(u)
  BY <1>1, ReadFrames, RequestOnly DEF handleReq
<1>2. CASE send_List(u)
  BY <1>2, ReadFrames, RequestOnly DEF send_List
<1> QED
  BY <1>1, <1>2

LEMMA NoticeSteps ==
  ASSUME Inv, NEW u \in Users, NEW x \in Users, send_msg(u, x) \/ unblock_friend(u, x)
  PROVE  Inv'
<1>1. "message" \in Kinds /\ "unblock" \in Kinds
  BY DEF Kinds
<1>2. CASE send_msg(u, x)
  BY <1>1, <1>2, NoticeFrame, RequestOnly DEF send_msg, Send_msg_program
<1>3. CASE unblock_friend(u, x)
  BY <1>1, <1>3, NoticeFrame, RequestOnly DEF unblock_friend, unblock_program
<1> QED
  BY <1>2, <1>3

\* A choice that changes what the client thinks of its friends.
LEMMA CacheKeeps ==
  ASSUME Inv, NEW u \in Users, NEW p \in Seq(Seq(CommandSet)),
         \A i \in 1 .. Len(p) : FrameOK(asked', u, p[i]), Request(u, p),
         asked \subseteq asked', asked' \subseteq Users \X Users,
         cache' \in [Users -> SUBSET Users], friends_block' \in [Users -> SUBSET Users],
         UNCHANGED <<chan, up, friend_res, friends_by_block, accepted, mixed, filed>>
  PROVE  Inv'
<1>1. /\ FramesOK(asked', frames') /\ served' \in 0 .. MaxRequests
      /\ UNCHANGED <<account, friends, requests, response, online, todo, logins>>
  BY RequestSent
<1>2. TablesOK'
  <2>1. frames' \in [Users -> Seq(Seq(CommandSet))] /\ TablesOK
    BY <1>1, Parts DEF FramesOK
  <2> QED
    BY <1>1, <2>1 DEF TablesOK
<1>3. Heard(asked', friend_res', chan')
  <2>1. Heard(asked, friend_res, chan)
    BY Parts
  <2>2. Heard(asked', friend_res, chan)
    BY <2>1, Told
  <2> QED
    BY <2>2
<1> QED
  BY <1>1, <1>2, <1>3, MenuKeeps DEF redisVars

LEMMA AddFriendStep ==
  ASSUME Inv, NEW u \in Users, NEW x \in Users, send_add_friend(u, x)
  PROVE  Inv'
<1> DEFINE s == send_addFriend_program(u, x)
<1>1. << u, x >> \in asked' /\ asked \subseteq asked' /\ asked' \subseteq Users \X Users
  BY Parts DEF TablesOK, send_add_friend
<1>2. s \in Seq(CommandSet) /\ FrameOK(asked', u, s)
  BY <1>1, RequestFrame
<1>3. Request(u, << s >>)
  BY DEF send_add_friend
<1> HIDE DEF s
<1>4. << s >> \in Seq(Seq(CommandSet)) /\ \A i \in 1 .. Len(<< s >>) : FrameOK(asked', u, << s >>[i])
  BY <1>2, OneProgram
<1>5. cache' \in [Users -> SUBSET Users] /\ friends_block' \in [Users -> SUBSET Users]
  BY Parts DEF TablesOK, send_add_friend, clientVars
<1> QED
  BY <1>1, <1>3, <1>4, <1>5, CacheKeeps DEF send_add_friend, clientVars

LEMMA DeleteFriendStep ==
  ASSUME Inv, NEW u \in Users, NEW x \in Users, send_delete_friend(u, x)
  PROVE  Inv'
<1> USE DEF historyVars
<1> DEFINE s == Send_delete_friend_program(u, x)
<1>1. s \in Seq(CommandSet) /\ FrameOK(asked', u, s)
  BY DeleteFrame
<1>2. Request(u, << s >>)
  BY DEF send_delete_friend
<1> HIDE DEF s
<1>3. << s >> \in Seq(Seq(CommandSet)) /\ \A i \in 1 .. Len(<< s >>) : FrameOK(asked', u, << s >>[i])
  BY <1>1, OneProgram
<1>4. cache' \in [Users -> SUBSET Users] /\ friends_block' \in [Users -> SUBSET Users]
  BY Parts DEF TablesOK, send_delete_friend
<1>5. asked \subseteq asked' /\ asked' \subseteq Users \X Users
  BY Parts DEF TablesOK, send_delete_friend
<1> QED
  BY <1>2, <1>3, <1>4, <1>5, CacheKeeps DEF send_delete_friend

LEMMA BlockStep ==
  ASSUME Inv, NEW u \in Users, NEW x \in Users, block_friend(u, x)
  PROVE  Inv'
<1> USE DEF historyVars
<1> DEFINE s == block_program(u, x)
<1>1. s \in Seq(CommandSet) /\ FrameOK(asked', u, s)
  BY NoticeFrame DEF block_program, Kinds
<1>2. Request(u, << s >>)
  BY DEF block_friend
<1> HIDE DEF s
<1>3. << s >> \in Seq(Seq(CommandSet)) /\ \A i \in 1 .. Len(<< s >>) : FrameOK(asked', u, << s >>[i])
  BY <1>1, OneProgram
<1>4. cache' \in [Users -> SUBSET Users] /\ friends_block' \in [Users -> SUBSET Users]
  BY Parts DEF TablesOK, block_friend
<1>5. asked \subseteq asked' /\ asked' \subseteq Users \X Users
  BY Parts DEF TablesOK, block_friend
<1> QED
  BY <1>2, <1>3, <1>4, <1>5, CacheKeeps DEF block_friend

\* A client decides only about names the server has listed for it.
LEMMA DecideStep ==
  ASSUME Inv, NEW u \in Users, NEW x \in Users,
         NEW select \in {"accept", "refuse", "drop"}, decide_add_friend(u, x, select)
  PROVE  Inv'
<1> USE DEF historyVars
<1> DEFINE s == addFriend_program(u, x, select = "accept")
           t == Delete_notify_program(u, x)
           p == (IF select = "drop" THEN << >> ELSE << s >>) \o << t >>
<1>1. asked' = asked /\ << x, u >> \in asked'
  <2>1. x \in friend_res[u]
    BY DEF decide_add_friend
  <2> QED
    BY <2>1, Parts DEF Heard, decide_add_friend
<1>2. s \in Seq(CommandSet) /\ FrameOK(asked', u, s)
  BY <1>1, DecideFrame
<1>3. t \in Seq(CommandSet) /\ FrameOK(asked', u, t)
  BY DropFrame
<1>4. Request(u, p)
  BY DEF decide_add_friend
<1> HIDE DEF s, t
<1>5. p \in Seq(Seq(CommandSet)) /\ \A i \in 1 .. Len(p) : FrameOK(asked', u, p[i])
  <2>1. CASE select = "drop"
    <3>1. p = << t >>
      BY <1>3, <2>1
    <3> HIDE DEF p
    <3> QED
      BY <1>3, <3>1, OneProgram
  <2>2. CASE select # "drop"
    <3>1. p = << s >> \o << t >>
      BY <2>2
    <3> HIDE DEF p
    <3>2. p = << s, t >>
      <4>1. p \in Seq(Seq(CommandSet)) /\ Len(p) = 2 /\ p[1] = s /\ p[2] = t
        BY <1>2, <1>3, <3>1
      <4>2. << s, t >> \in Seq(Seq(CommandSet))
        BY <1>2, <1>3
      <4> QED
        BY <4>1, <4>2
    <3> QED
      BY <1>2, <1>3, <3>2, TwoPrograms
  <2> QED
    BY <2>1, <2>2
<1> HIDE DEF p
<1>6. cache' \in [Users -> SUBSET Users] /\ friends_block' \in [Users -> SUBSET Users]
  BY Parts DEF TablesOK, decide_add_friend
<1>7. asked \subseteq asked' /\ asked' \subseteq Users \X Users
  BY <1>1, Parts DEF TablesOK
<1> QED
  BY <1>4, <1>5, <1>6, <1>7, CacheKeeps DEF decide_add_friend

\* What the fields of a message are.
LEMMA MessageFields ==
  ASSUME NEW m \in Messages
  PROVE  /\ m.from \in Users
         /\ m.kind \in {"LOGINLIST", "FDLIST", "USERNTF"} => m.about \in SUBSET Users
         /\ m.kind = "RESPONSE" => m.about \in SUBSET Notices
  BY DEF Messages, Kinds

LEMMA ReceiveStep ==
  ASSUME Inv, NEW u \in Users, receive(u)
  PROVE  Inv'
<1> USE DEF redisVars, historyVars
<1>1. TablesOK /\ FramesOK(asked, frames) /\ Heard(asked, friend_res, chan)
  BY Parts
<1>2. PICK s \in Seq(Messages) : s = chan[u] /\ s # << >>
  BY <1>1 DEF TablesOK, receive
<1>3. /\ Head(s) = s[1] /\ s[1] \in Messages /\ Tail(s) \in Seq(Messages)
      /\ Len(Tail(s)) = Len(s) - 1 /\ \A i \in 1 .. Len(s) - 1 : Tail(s)[i] = s[i + 1]
      /\ Len(s) \in Nat /\ Len(s) # 0
  BY <1>2, HeadTailProperties, LenProperties, EmptySeq
<1>4. PICK m \in Messages : m = s[1]
  BY <1>3
<1>5. /\ cache' = [cache EXCEPT ![u] = (@ \cup Befriended(m)) \ Separated(m)]
      /\ friends_block' = [friends_block EXCEPT ![u] = @ \ Separated(m)]
      /\ friends_by_block' = [friends_by_block EXCEPT ![u] =
              (@ \cup (Blockers(m) \cap cache[u])) \ (Unblockers(m) \cap cache[u])]
      /\ friend_res' = [friend_res EXCEPT ![u] = @ \cup IF m.kind = "USERNTF" THEN m.about ELSE {}]
      /\ chan' = [chan EXCEPT ![u] = Tail(s)]
      /\ UNCHANGED <<redisVars, online, todo, frames, up, historyVars, logins, served>>
  BY <1>2, <1>3, <1>4 DEF receive
<1>6. Befriended(m) \subseteq Users /\ (m.kind = "USERNTF" => m.about \subseteq Users)
  BY MessageFields DEF Befriended
<1>7. /\ chan' \in [Users -> Seq(Messages)] /\ friend_res' \in [Users -> SUBSET Users]
      /\ cache' \in [Users -> SUBSET Users] /\ friends_block' \in [Users -> SUBSET Users]
  BY <1>1, <1>3, <1>5, <1>6 DEF TablesOK
<1>8. friends_by_block' \in [Users -> SUBSET Users]
  BY <1>1, <1>5 DEF TablesOK
<1>9. TablesOK'
  BY <1>1, <1>5, <1>7, <1>8 DEF TablesOK
<1>10. /\ chan \in [Users -> Seq(Messages)] /\ friend_res \in [Users -> SUBSET Users]
       /\ chan'[u] = Tail(s) /\ \A v \in Users \ {u} : chan'[v] = chan[v]
       /\ friend_res'[u] = friend_res[u] \cup IF m.kind = "USERNTF" THEN m.about ELSE {}
       /\ \A v \in Users \ {u} : friend_res'[v] = friend_res[v]
  BY <1>1, <1>5 DEF TablesOK
<1>11. TellsAskers(asked, u, m)
  <2>1. 1 \in 1 .. Len(chan[u]) /\ chan[u][1] = m
    BY <1>2, <1>3, <1>4
  <2> QED
    BY <1>1, <2>1 DEF Heard
<1>12. ASSUME NEW v \in Users, NEW x \in friend_res'[v]
       PROVE  << x, v >> \in asked
  <2>1. CASE x \in friend_res[v]
    BY <1>1, <2>1 DEF Heard
  <2>2. CASE x \notin friend_res[v]
    <3>1. v = u /\ m.kind = "USERNTF" /\ x \in m.about
      BY <1>10, <1>12, <2>2
    <3> QED
      BY <1>11, <3>1 DEF TellsAskers
  <2> QED
    BY <2>1, <2>2
<1>13. ASSUME NEW v \in Users, NEW i \in 1 .. Len(chan'[v])
       PROVE  TellsAskers(asked, v, chan'[v][i])
  <2>1. CASE v # u
    <3>1. chan'[v] = chan[v]
      BY <1>10, <2>1
    <3> QED
      BY <1>1, <1>13, <3>1 DEF Heard
  <2>2. CASE v = u
    <3>1. chan'[v] = Tail(s) /\ i \in 1 .. Len(s) - 1
      BY <1>3, <1>10, <1>13, <2>2
    <3>2. chan'[v][i] = s[i + 1] /\ i + 1 \in 1 .. Len(s)
      BY <1>3, <3>1
    <3>3. TellsAskers(asked, u, chan[u][i + 1])
      BY <1>1, <1>2, <3>2 DEF Heard
    <3> QED
      BY <1>2, <2>2, <3>2, <3>3
  <2> QED
    BY <2>1, <2>2
<1>14. Heard(asked', friend_res', chan')
  BY <1>5, <1>12, <1>13 DEF Heard
<1> QED
  BY <1>1, <1>5, <1>9, <1>14, MenuKeeps

LEMMA MenuStep ==
  ASSUME Inv, NEW u \in Users, Menu(u)
  PROVE  Inv'
<1>1. CASE login(u) \/ quit(u) \/ receive(u)
  BY <1>1, LoginStep, QuitStep, ReceiveStep
<1>2. CASE handleReq(u) \/ send_List(u) \/ del_account(u)
  BY <1>2, ListSteps, DelAccountStep
<1>3. ASSUME NEW x \in Users,
             send_add_friend(u, x) \/ send_delete_friend(u, x) \/ send_msg(u, x)
               \/ block_friend(u, x) \/ unblock_friend(u, x)
      PROVE  Inv'
  BY <1>3, AddFriendStep, DeleteFriendStep, NoticeSteps, BlockStep
<1>4. ASSUME NEW x \in Users, NEW select \in {"accept", "refuse", "drop"},
             decide_add_friend(u, x, select)
      PROVE  Inv'
  BY <1>4, DecideStep
<1> QED
  BY <1>1, <1>2, <1>3, <1>4 DEF Menu

-----------------------------------------------------------------------------
(* Frames, and ends of connections.                                        *)

\* Friendships stand still, and so do the halves that are being written.
LEMMA MutualFrame ==
  ASSUME MutualOK, friends' = friends, mixed' = mixed,
         \A w \in Users : Half(todo'[w]) <=> Half(todo[w]),
         \A w \in Users : Half(todo[w]) => todo'[w][1] = todo[w][1]
  PROVE  MutualOK'
<1>1. ASSUME NEW w \in Users, Half(todo'[w]), Couple(todo'[w][1]) \notin mixed',
             todo'[w][1].who # todo'[w][1].other
      PROVE  todo'[w][1].who \in friends'[todo'[w][1].other] <=> todo'[w][1].cmd = "setUserGroups"
  <2>1. Half(todo[w]) /\ todo'[w][1] = todo[w][1]
    BY <1>1
  <2> QED
    BY <1>1, <2>1 DEF MutualOK
<1>2. ASSUME NEW a \in Users, NEW b \in Users
      PROVE  \/ a \in friends'[b] <=> b \in friends'[a]
             \/ {a, b} \in mixed'
             \/ \E w \in Users : Half(todo'[w]) /\ Couple(todo'[w][1]) = {a, b}
  <2>1. CASE \E w \in Users : Half(todo[w]) /\ Couple(todo[w][1]) = {a, b}
    <3>1. PICK w \in Users : Half(todo[w]) /\ Couple(todo[w][1]) = {a, b}
      BY <2>1
    <3>2. Half(todo'[w]) /\ Couple(todo'[w][1]) = {a, b}
      BY <3>1
    <3> QED
      BY <3>2
  <2>2. CASE ~\E w \in Users : Half(todo[w]) /\ Couple(todo[w][1]) = {a, b}
    BY <2>2 DEF MutualOK
  <2> QED
    BY <2>1, <2>2
<1> QED
  BY <1>1, <1>2 DEF MutualOK

LEMMA ReadStep ==
  ASSUME Inv, NEW u \in Users, readMessage(u)
  PROVE  Inv'
<1> USE DEF redisVars, clientVars, historyVars
<1>1. /\ TablesOK /\ FramesOK(asked, frames) /\ Heard(asked, friend_res, chan)
      /\ AcceptedWereAsked /\ MutualOK /\ KeptOK
      /\ \A v \in Users : /\ \A x \in requests[v] : << x, v >> \in asked
                          /\ ProgramAsked(asked, v, todo[v]) /\ CouplesOK(todo[v])
  BY Parts
<1>2. PICK fs \in Seq(Seq(CommandSet)) : fs = frames[u] /\ fs # << >>
  BY <1>1 DEF TablesOK, readMessage
<1>3. /\ Head(fs) = fs[1] /\ fs[1] \in Seq(CommandSet) /\ Tail(fs) \in Seq(Seq(CommandSet))
      /\ Len(Tail(fs)) = Len(fs) - 1 /\ \A i \in 1 .. Len(fs) - 1 : Tail(fs)[i] = fs[i + 1]
      /\ Len(fs) \in Nat /\ Len(fs) # 0
  BY <1>2, HeadTailProperties, LenProperties, EmptySeq
<1>4. PICK s \in Seq(CommandSet) : s = fs[1]
  BY <1>3
<1>5. /\ todo[u] = << >> /\ todo' = [todo EXCEPT ![u] = s] /\ frames' = [frames EXCEPT ![u] = Tail(fs)]
      /\ UNCHANGED <<redisVars, online, chan, clientVars, historyVars, logins, served>>
  BY <1>2, <1>3, <1>4 DEF readMessage, Busy
<1>6. \A i \in 1 .. Len(fs) : FrameOK(asked, u, fs[i])
  BY <1>1, <1>2 DEF FramesOK
<1>7. FrameOK(asked, u, s)
  BY <1>3, <1>4, <1>6
<1>8. FramesOK(asked', frames')
  <2>1. \A i \in 1 .. Len(Tail(fs)) : FrameOK(asked, u, Tail(fs)[i])
    <3>1. ASSUME NEW i \in 1 .. Len(Tail(fs))
          PROVE  FrameOK(asked, u, Tail(fs)[i])
      <4>1. Tail(fs)[i] = fs[i + 1] /\ i + 1 \in 1 .. Len(fs)
        BY <1>3
      <4> QED
        BY <1>6, <4>1
    <3> QED
      BY <3>1
  <2>2. FramesOK(asked, [frames EXCEPT ![u] = Tail(fs)])
    BY <1>1, <1>3, <2>1, FramesSent
  <2> QED
    BY <1>5, <2>2
<1>9. /\ todo \in [Users -> Seq(CommandSet)] /\ todo' \in [Users -> Seq(CommandSet)]
      /\ todo'[u] = s /\ \A v \in Users \ {u} : todo'[v] = todo[v]
  BY <1>1, <1>5 DEF TablesOK
<1>10. TablesOK'
  <2>1. frames' \in [Users -> Seq(Seq(CommandSet))]
    BY <1>8 DEF FramesOK
  <2> QED
    BY <1>1, <1>5, <1>9, <2>1 DEF TablesOK
<1>11. \A v \in Users : /\ \A x \in requests'[v] : << x, v >> \in asked'
                        /\ ProgramAsked(asked', v, todo'[v]) /\ CouplesOK(todo'[v])
  BY <1>1, <1>5, <1>7, <1>9 DEF FrameOK
<1>12. MutualOK'
  <2>1. ~Half(todo[u]) /\ ~Half(todo'[u])
    BY <1>5, <1>7, <1>9 DEF FrameOK, Half
  <2> QED
    BY <1>1, <1>5, <1>9, <2>1, MutualFrame
<1>13. KeptOK'
  <2>1. FiledOffline(u) \subseteq Notices
    BY DEF FiledOffline
  <2>2. LoginOK(s, FiledOffline(u))
    BY <1>7, <2>1, LoginKept DEF FrameOK
  <2>3. OfflineNoticeKept' /\ \A v : FiledOffline(v)' = FiledOffline(v)
    BY <1>1, <1>5 DEF KeptOK, OfflineNoticeKept, FiledOffline
  <2>4. ASSUME NEW v \in Users
        PROVE  /\ LoginOK(todo'[v], FiledOffline(v)')
               /\ Deletes(todo'[v]) /\ v \notin online' => todo'[v][1].cmd = "addUser"
    BY <1>1, <1>5, <1>7, <1>9, <2>2, <2>3 DEF KeptOK, FrameOK
  <2> QED
    BY <2>3, <2>4 DEF KeptOK
<1>14. AcceptedWereAsked' /\ Heard(asked', friend_res', chan')
  BY <1>1, <1>5 DEF AcceptedWereAsked
<1> QED
  BY <1>8, <1>10, <1>11, <1>12, <1>13, <1>14, Whole

LEMMA ClosedCommands ==
  ASSUME NEW x, NEW s \in Seq(CommandSet), NEW t, t = Closed(x, s)
  PROVE  /\ t \in Seq(CommandSet) /\ Len(t) = Len(s)
         /\ \A i \in 1 .. Len(s) :
               \/ t[i] = s[i]
               \/ /\ s[i].cmd = "dispatch" /\ t[i].cmd = "dispatch"
                  /\ t[i].msg = s[i].msg /\ t[i].who = NoUser
<1>1. DOMAIN s = 1 .. Len(s) /\ Len(s) \in Nat /\ \A i \in 1 .. Len(s) : s[i] \in CommandSet
  BY LenProperties, ElementOfSeq
<1> DEFINE c(i) == IF s[i].cmd = "dispatch" /\ s[i].who = x THEN [s[i] EXCEPT !.who = NoUser] ELSE s[i]
<1>2. t = [i \in 1 .. Len(s) |-> c(i)]
  BY <1>1 DEF Closed
<1>3. ASSUME NEW d \in CommandSet, d.cmd = "dispatch", NEW e, e = [d EXCEPT !.who = NoUser]
      PROVE  e \in CommandSet /\ e.cmd = "dispatch" /\ e.msg = d.msg /\ e.who = NoUser
  <2>1. d \in Dispatches
    BY <1>3 DEF CommandSet, Pairs, Answers, Dispatches, Filings, Others, Lookups
  <2> QED
    BY <1>3, <2>1 DEF Dispatches, CommandSet, Answers
<1>4. ASSUME NEW i \in 1 .. Len(s)
      PROVE  /\ t[i] \in CommandSet
             /\ \/ t[i] = s[i]
                \/ /\ s[i].cmd = "dispatch" /\ t[i].cmd = "dispatch"
                   /\ t[i].msg = s[i].msg /\ t[i].who = NoUser
  <2>1. t[i] = c(i) /\ s[i] \in CommandSet
    BY <1>1, <1>2
  <2>2. CASE s[i].cmd = "dispatch" /\ s[i].who = x
    <3>1. t[i] = [s[i] EXCEPT !.who = NoUser]
      BY <2>1, <2>2
    <3> QED
      BY <1>3, <2>1, <2>2, <3>1
  <2>3. CASE ~(s[i].cmd = "dispatch" /\ s[i].who = x)
    BY <2>1, <2>3
  <2> QED
    BY <2>2, <2>3
<1> HIDE DEF c
<1>5. t \in [1 .. Len(s) -> CommandSet]
  BY <1>2, <1>4
<1>6. t \in Seq(CommandSet) /\ Len(t) = Len(s)
  BY <1>1, <1>5 DEF Seq
<1> QED
  BY <1>4, <1>6

LEMMA ClosedKeeps ==
  ASSUME NEW A, NEW u, NEW F, NEW x, NEW s \in Seq(CommandSet), NEW t, t = Closed(x, s)
  PROVE  /\ ProgramAsked(A, u, s) => ProgramAsked(A, u, t)
         /\ CouplesOK(s) => CouplesOK(t)
         /\ LoginOK(s, F) => LoginOK(t, F)
         /\ Half(t) <=> Half(s)
         /\ Half(s) => t[1] = s[1]
         /\ Deletes(t) <=> Deletes(s)
         /\ Deletes(s) /\ s[1].cmd = "addUser" => t[1].cmd = "addUser"
<1>1. /\ t \in Seq(CommandSet) /\ Len(t) = Len(s)
      /\ \A i \in 1 .. Len(s) :
            \/ t[i] = s[i]
            \/ /\ s[i].cmd = "dispatch" /\ t[i].cmd = "dispatch"
               /\ t[i].msg = s[i].msg /\ t[i].who = NoUser
  BY ClosedCommands
<1>2. Len(s) \in Nat /\ (s = << >> <=> Len(s) = 0) /\ (t = << >> <=> Len(s) = 0)
  BY <1>1, LenProperties, EmptySeq
<1>3. ASSUME NEW i \in 1 .. Len(s)
      PROVE  /\ s[i].cmd = t[i].cmd /\ (s[i].cmd # "dispatch" => t[i] = s[i])
             /\ s[i].cmd = "dispatch" => t[i].msg = s[i].msg
             /\ Pairing(t[i]) <=> Pairing(s[i])
             /\ Pairing(s[i]) => t[i] = s[i]
  BY <1>1 DEF Pairing
<1>4. ASSUME NEW i \in 1 .. Len(s), NEW j \in 1 .. Len(s)
      PROVE  Mirror(t[i], t[j]) <=> Mirror(s[i], s[j])
  BY <1>3 DEF Mirror
<1>5. ASSUME NEW i \in 1 .. Len(s), CommandAsked(A, u, s[i])
      PROVE  CommandAsked(A, u, t[i])
  <2>1. CASE t[i] = s[i]
    BY <1>5, <2>1
  <2>2. CASE t[i].cmd = "dispatch" /\ t[i].who = NoUser
    BY <2>2 DEF CommandAsked, AnswerAsked
  <2> QED
    BY <1>1, <2>1, <2>2
<1>6. ProgramAsked(A, u, s) => ProgramAsked(A, u, t)
  BY <1>1, <1>5 DEF ProgramAsked
<1>7. CouplesOK(s) => CouplesOK(t)
  <2> HAVE CouplesOK(s)
  <2>1. ASSUME NEW i \in 2 .. Len(t), Pairing(t[i])
        PROVE  Mirror(t[i], t[i - 1]) \/ (i < Len(t) /\ Mirror(t[i], t[i + 1]))
    <3>1. i \in 2 .. Len(s) /\ i \in 1 .. Len(s) /\ i - 1 \in 1 .. Len(s)
      BY <1>1, <1>2
    <3>2. Pairing(s[i])
      BY <1>3, <2>1, <3>1
    <3>3. Mirror(s[i], s[i - 1]) \/ (i < Len(s) /\ Mirror(s[i], s[i + 1]))
      BY <3>1, <3>2 DEF CouplesOK
    <3>4. ASSUME i < Len(s)
          PROVE  i + 1 \in 1 .. Len(s)
      BY <1>2, <3>1, <3>4
    <3> QED
      BY <1>1, <1>4, <3>1, <3>3, <3>4
  <2>2. ASSUME NEW i \in 1 .. Len(t), NEW j \in 1 .. Len(t), i < j, Pairing(t[i]), Pairing(t[j]),
               Couple(t[i]) = Couple(t[j])
        PROVE  j = i + 1 /\ Mirror(t[i], t[j])
    <3>1. i \in 1 .. Len(s) /\ j \in 1 .. Len(s)
      BY <1>1
    <3>2. Pairing(s[i]) /\ Pairing(s[j]) /\ Couple(s[i]) = Couple(s[j])
      BY <1>3, <2>2, <3>1
    <3>3. j = i + 1 /\ Mirror(s[i], s[j])
      BY <2>2, <3>1, <3>2 DEF CouplesOK
    <3> QED
      BY <1>4, <3>1, <3>3
  <2> QED
    BY <2>1, <2>2 DEF CouplesOK
<1>8. LoginOK(s, F) => LoginOK(t, F)
  <2> HAVE LoginOK(s, F)
  <2>1. ASSUME NEW i \in 1 .. Len(t), t[i].cmd = "deleteHash"
        PROVE  /\ i = 1 => F = {}
               /\ i > 1 => \/ t[i - 1].cmd = "getHash" /\ t[i - 1].kind = "RESPONSE"
                           \/ /\ i = 2 /\ t[1].cmd = "dispatch" /\ t[1].msg.kind = "RESPONSE"
                              /\ F \subseteq t[1].msg.about
    <3>1. i \in 1 .. Len(s) /\ s[i].cmd = "deleteHash" /\ 1 \in 1 .. Len(s)
      BY <1>1, <1>2, <1>3, <2>1
    <3>2. /\ i = 1 => F = {}
          /\ i > 1 => \/ s[i - 1].cmd = "getHash" /\ s[i - 1].kind = "RESPONSE"
                      \/ /\ i = 2 /\ s[1].cmd = "dispatch" /\ s[1].msg.kind = "RESPONSE"
                         /\ F \subseteq s[1].msg.about
      BY <3>1 DEF LoginOK
    <3>3. ASSUME i > 1
          PROVE  i - 1 \in 1 .. Len(s)
      BY <1>2, <3>1, <3>3
    <3>4. ASSUME i > 1, s[i - 1].cmd = "getHash", s[i - 1].kind = "RESPONSE"
          PROVE  t[i - 1].cmd = "getHash" /\ t[i - 1].kind = "RESPONSE"
      <4>1. t[i - 1] = s[i - 1]
        BY <1>3, <3>3, <3>4
      <4> QED
        BY <3>4, <4>1
    <3>5. s[1].cmd = "dispatch" => t[1].cmd = "dispatch" /\ t[1].msg = s[1].msg
      BY <1>3, <3>1
    <3> QED
      BY <3>2, <3>4, <3>5
  <2> QED
    BY <2>1 DEF LoginOK
<1>9. (Half(t) <=> Half(s)) /\ (Half(s) => t[1] = s[1])
  <2>1. CASE Len(s) = 0
    BY <1>2, <2>1 DEF Half
  <2>2. CASE Len(s) = 1
    <3>1. 1 \in 1 .. Len(s)
      BY <2>2
    <3> QED
      BY <1>1, <1>2, <1>3, <2>2, <3>1 DEF Half
  <2>3. CASE Len(s) > 1
    <3>1. 1 \in 1 .. Len(s) /\ 2 \in 1 .. Len(s)
      BY <1>2, <2>3
    <3>2. (Mirror(t[1], t[2]) <=> Mirror(s[1], s[2])) /\ (Pairing(t[1]) <=> Pairing(s[1]))
          /\ (Pairing(s[1]) => t[1] = s[1])
      BY <1>3, <1>4, <3>1
    <3> QED
      BY <1>1, <1>2, <2>3, <3>2 DEF Half
  <2>4. Len(s) = 0 \/ Len(s) = 1 \/ Len(s) > 1
    <3>1. PICK n \in Nat : n = Len(s)
      BY <1>2
    <3>2. n = 0 \/ n = 1 \/ n > 1
      OBVIOUS
    <3> QED
      BY <3>1, <3>2
  <2> QED
    BY <2>1, <2>2, <2>3, <2>4
<1>10. Deletes(t) <=> Deletes(s)
  BY <1>1, <1>3 DEF Deletes
<1>11. Deletes(s) /\ s[1].cmd = "addUser" => t[1].cmd = "addUser"
  <2> HAVE Deletes(s) /\ s[1].cmd = "addUser"
  <2>1. 1 \in 1 .. Len(s)
    BY <1>2 DEF Deletes
  <2> QED
    BY <1>3, <2>1
<1> QED
  BY <1>6, <1>7, <1>8, <1>9, <1>10, <1>11

LEMMA RemoveStep ==
  ASSUME Inv, NEW u \in Users, removeUser(u)
  PROVE  Inv'
<1> USE DEF redisVars, clientVars, historyVars
<1>1. /\ TablesOK /\ FramesOK(asked, frames) /\ Heard(asked, friend_res, chan)
      /\ AcceptedWereAsked /\ MutualOK /\ KeptOK
      /\ \A v \in Users : /\ \A x \in requests[v] : << x, v >> \in asked
                          /\ ProgramAsked(asked, v, todo[v]) /\ CouplesOK(todo[v])
  BY Parts
<1>2. /\ todo[u] = << >> /\ online' = online \ {u} /\ frames' = [frames EXCEPT ![u] = << >>]
      /\ todo' = [v \in Users |-> Closed(u, todo[v])]
      /\ UNCHANGED <<redisVars, chan, clientVars, historyVars, logins, served>>
  BY DEF removeUser, Busy
<1>3. FramesOK(asked', frames')
  <2>1. << >> \in Seq(Seq(CommandSet)) /\ \A i \in 1 .. Len(<< >>) : FrameOK(asked, u, << >>[i])
    OBVIOUS
  <2>2. FramesOK(asked, [frames EXCEPT ![u] = << >>])
    BY <1>1, <2>1, FramesSent
  <2> QED
    BY <1>2, <2>2
<1>4. \A v \in Users : todo[v] \in Seq(CommandSet) /\ todo'[v] = Closed(u, todo[v])
  BY <1>1, <1>2 DEF TablesOK
<1>5. todo' \in [Users -> Seq(CommandSet)]
  BY <1>2, <1>4, ClosedCommands
<1>6. TablesOK'
  <2>1. frames' \in [Users -> Seq(Seq(CommandSet))]
    BY <1>3 DEF FramesOK
  <2> QED
    BY <1>1, <1>2, <1>5, <2>1 DEF TablesOK
<1>7. ASSUME NEW v \in Users
      PROVE  /\ \A x \in requests'[v] : << x, v >> \in asked'
             /\ ProgramAsked(asked', v, todo'[v]) /\ CouplesOK(todo'[v])
             /\ LoginOK(todo'[v], FiledOffline(v))
             /\ Half(todo'[v]) <=> Half(todo[v])
             /\ Half(todo[v]) => todo'[v][1] = todo[v][1]
             /\ Deletes(todo'[v]) <=> Deletes(todo[v])
             /\ Deletes(todo[v]) /\ todo[v][1].cmd = "addUser" => todo'[v][1].cmd = "addUser"
  <2>1. ProgramAsked(asked, v, todo[v]) /\ CouplesOK(todo[v]) /\ LoginOK(todo[v], FiledOffline(v))
    BY <1>1 DEF KeptOK
  <2>2. \A x \in requests'[v] : << x, v >> \in asked'
    BY <1>1, <1>2
  <2>3. PICK s \in Seq(CommandSet) : s = todo[v]
    BY <1>4
  <2>4. PICK F : F = FiledOffline(v)
    OBVIOUS
  <2>5. PICK A : A = asked
    OBVIOUS
  <2>6. PICK t : t = todo'[v]
    OBVIOUS
  <2>7. t = Closed(u, s)
    BY <1>4, <2>3, <2>6
  <2>8. /\ ProgramAsked(A, v, s) => ProgramAsked(A, v, t)
        /\ CouplesOK(s) => CouplesOK(t)
        /\ LoginOK(s, F) => LoginOK(t, F)
        /\ Half(t) <=> Half(s)
        /\ Half(s) => t[1] = s[1]
        /\ Deletes(t) <=> Deletes(s)
        /\ Deletes(s) /\ s[1].cmd = "addUser" => t[1].cmd = "addUser"
    BY <2>7, ClosedKeeps
  <2>9. asked' = A
    BY <1>2, <2>5
  <2> QED
    BY <2>1, <2>2, <2>3, <2>4, <2>5, <2>6, <2>8, <2>9
<1>8. MutualOK'
  BY <1>1, <1>2, <1>7, MutualFrame
<1>9. KeptOK'
  <2>1. OfflineNoticeKept' /\ \A v : FiledOffline(v)' = FiledOffline(v)
    BY <1>1, <1>2 DEF KeptOK, OfflineNoticeKept, FiledOffline
  <2>2. ~Deletes(todo[u])
    BY <1>2 DEF Deletes
  <2>3. \A v \in Users \ {u} : v \notin online' => v \notin online
    BY <1>2
  <2>4. ASSUME NEW v \in Users, Deletes(todo'[v]), v \notin online'
        PROVE  todo'[v][1].cmd = "addUser"
    <3>1. Deletes(todo[v]) /\ v # u /\ v \notin online
      BY <1>7, <2>2, <2>3, <2>4
    <3> QED
      BY <1>1, <1>7, <3>1 DEF KeptOK
  <2> QED
    BY <1>7, <2>1, <2>4 DEF KeptOK
<1>10. AcceptedWereAsked' /\ Heard(asked', friend_res', chan')
  BY <1>1, <1>2 DEF AcceptedWereAsked
<1>11. \A v \in Users : /\ \A x \in requests'[v] : << x, v >> \in asked'
                        /\ ProgramAsked(asked', v, todo'[v]) /\ CouplesOK(todo'[v])
  BY <1>7
<1> QED
  BY <1>3, <1>6, <1>8, <1>9, <1>10, <1>11, Whole

-----------------------------------------------------------------------------
(* Commands.                                                               *)

\* f: what a handler goes on with instead of the first command of s.
Answering(A, F, s, f) ==
    /\ f \in Seq(CommandSet)
    /\ \A i \in 1 .. Len(f) : f[i] \in Answers /\ AnswerAsked(A, f[i])
    /\ s[1].cmd \notin {"users", "getFields", "getHash"} => f = << >>
    /\ s[1].cmd = "getHash" /\ s[1].kind = "RESPONSE" =>
          /\ Len(f) = 1 /\ f[1].cmd = "dispatch" /\ f[1].msg.kind = "RESPONSE"
          /\ F \subseteq f[1].msg.about

\* What becomes of a program s of u (t), and of its notices (from F to G).
Follows(A, u, F, s, t) ==
    /\ Onward(A, u, s, t)
    /\ \A G : /\ G \subseteq F
              /\ s[1].cmd = "dispatch" /\ s[1].msg.kind = "RESPONSE"
                    /\ F \subseteq s[1].msg.about => G = {}
              => LoginOK(t, G)
    /\ Deletes(t) => Deletes(s)

LEMMA GoesOn ==
  ASSUME NEW A, NEW u, NEW F, NEW s \in Seq(CommandSet), s # << >>, NEW f,
         Answering(A, F, s, f), ProgramAsked(A, u, s), CouplesOK(s), LoginOK(s, F),
         NEW t, t = f \o Tail(s)
  PROVE  Follows(A, u, F, s, t)
<1>1. /\ f \in Seq(CommandSet) /\ \A i \in 1 .. Len(f) : f[i] \in Answers /\ AnswerAsked(A, f[i])
      /\ s[1].cmd \notin {"users", "getFields", "getHash"} => f = << >>
      /\ s[1].cmd = "getHash" /\ s[1].kind = "RESPONSE" =>
            /\ Len(f) = 1 /\ f[1].cmd = "dispatch" /\ f[1].msg.kind = "RESPONSE"
            /\ F \subseteq f[1].msg.about
  BY DEF Answering
<1>2. Pairing(s[1]) => f = << >>
  BY <1>1 DEF Pairing
<1>3. Onward(A, u, s, t)
  BY <1>1, <1>2, Continues
<1>4. ASSUME NEW G, G \subseteq F,
             s[1].cmd = "dispatch" /\ s[1].msg.kind = "RESPONSE" /\ F \subseteq s[1].msg.about => G = {}
      PROVE  LoginOK(t, G) /\ (Deletes(t) => Deletes(s))
  <2>1. s[1].cmd = "getHash" /\ s[1].kind = "RESPONSE" =>
           Len(f) = 1 /\ f[1].cmd = "dispatch" /\ f[1].msg.kind = "RESPONSE" /\ G \subseteq f[1].msg.about
    BY <1>1, <1>4
  <2>2. s[1].cmd = "dispatch" /\ s[1].msg.kind = "RESPONSE" /\ F \subseteq s[1].msg.about =>
           f = << >> /\ G = {}
    BY <1>1, <1>4
  <2>3. \A i \in 1 .. Len(f) : f[i] \in Answers
    BY <1>1
  <2> QED
    BY <1>1, <2>1, <2>2, <2>3, LoginGoesOn
<1>5. Deletes(t) => Deletes(s)
  <2>1. PICK G : G = {}
    OBVIOUS
  <2>2. G \subseteq F
    BY <2>1
  <2> QED
    BY <1>4, <2>1, <2>2
<1> QED
  BY <1>3, <1>4, <1>5 DEF Follows

\* A command of u's handler, with what it goes on with.
Commanded(u, f) ==
    /\ todo[u] # << >>
    /\ Answering(asked, FiledOffline(u), todo[u], f)
    /\ GoOn(u, f)

LEMMA Went ==
  ASSUME Inv, NEW u \in Users, NEW f, Commanded(u, f)
  PROVE  /\ Follows(asked, u, FiledOffline(u), todo[u], todo'[u])
         /\ todo' \in [Users -> Seq(CommandSet)]
         /\ \A v \in Users \ {u} : todo'[v] = todo[v]
         /\ \A v \in Users : ProgramAsked(asked, v, todo'[v]) /\ CouplesOK(todo'[v])
<1>1. /\ todo \in [Users -> Seq(CommandSet)]
      /\ \A v \in Users : ProgramAsked(asked, v, todo[v]) /\ CouplesOK(todo[v])
      /\ LoginOK(todo[u], FiledOffline(u))
  BY Parts DEF TablesOK, KeptOK
<1>2. /\ todo[u] # << >> /\ Answering(asked, FiledOffline(u), todo[u], f)
      /\ todo' = [todo EXCEPT ![u] = f \o Tail(@)]
  BY DEF Commanded, GoOn
<1>3. todo'[u] = f \o Tail(todo[u]) /\ \A v \in Users \ {u} : todo'[v] = todo[v]
  BY <1>1, <1>2
<1>4. Follows(asked, u, FiledOffline(u), todo[u], todo'[u])
  BY <1>1, <1>2, <1>3, GoesOn
<1>5. /\ todo'[u] \in Seq(CommandSet) /\ ProgramAsked(asked, u, todo'[u]) /\ CouplesOK(todo'[u])
  BY <1>4 DEF Follows, Onward
<1>6. todo' \in [Users -> Seq(CommandSet)]
  BY <1>1, <1>2, <1>3, <1>5
<1>7. \A v \in Users : ProgramAsked(asked, v, todo'[v]) /\ CouplesOK(todo'[v])
  BY <1>1, <1>3, <1>5
<1> QED
  BY <1>3, <1>4, <1>6, <1>7

\* What waits for the users who are offline.
LEMMA KeptGoes ==
  ASSUME Inv, NEW u \in Users, NEW f, Commanded(u, f), OfflineNoticeKept',
         LoginOK(todo'[u], FiledOffline(u)'),
         \A v \in Users \ {u} : LoginOK(todo[v], FiledOffline(v)'),
         online \subseteq online', todo[u][1].cmd = "addUser" => u \in online'
  PROVE  KeptOK'
<1>1. KeptOK
  BY Parts
<1>2. /\ Follows(asked, u, FiledOffline(u), todo[u], todo'[u])
      /\ \A v \in Users \ {u} : todo'[v] = todo[v]
  BY Went
<1>3. ASSUME NEW v \in Users
      PROVE  LoginOK(todo'[v], FiledOffline(v)')
  <2>1. CASE v = u
    BY <2>1
  <2>2. CASE v # u
    BY <1>2, <2>2
  <2> QED
    BY <2>1, <2>2
<1>4. ASSUME NEW v \in Users, Deletes(todo'[v]), v \notin online'
      PROVE  todo'[v][1].cmd = "addUser"
  <2>1. CASE v = u
    <3>1. Deletes(todo[u]) /\ u \notin online
      BY <1>2, <1>4, <2>1 DEF Follows
    <3>2. todo[u][1].cmd = "addUser"
      BY <1>1, <3>1 DEF KeptOK
    <3> QED
      BY <1>4, <2>1, <3>2
  <2>2. CASE v # u
    <3>1. todo'[v] = todo[v] /\ v \notin online
      BY <1>2, <1>4, <2>2
    <3> QED
      BY <1>1, <1>4, <3>1 DEF KeptOK
  <2> QED
    BY <2>1, <2>2
<1> QED
  BY <1>3, <1>4 DEF KeptOK

\* Where the command writes neither the notices nor what has become of them.
LEMMA KeptQuiet ==
  ASSUME Inv, NEW u \in Users, NEW f, Commanded(u, f), UNCHANGED <<response, filed>>,
         todo[u][1].cmd # "dispatch",
         online \subseteq online', todo[u][1].cmd = "addUser" => u \in online'
  PROVE  KeptOK'
<1>1. KeptOK
  BY Parts
<1>2. OfflineNoticeKept' /\ \A v : FiledOffline(v)' = FiledOffline(v)
  BY <1>1 DEF KeptOK, OfflineNoticeKept, FiledOffline
<1>3. LoginOK(todo'[u], FiledOffline(u))
  BY Went DEF Follows
<1>4. \A v \in Users : LoginOK(todo[v], FiledOffline(v))
  BY <1>1 DEF KeptOK
<1> QED
  BY <1>2, <1>3, <1>4, KeptGoes

\* Where the command is not for a couple.
LEMMA MutualQuiet ==
  ASSUME Inv, NEW u \in Users, NEW f, Commanded(u, f), ~Pairing(todo[u][1]),
         UNCHANGED <<friends, mixed>>
  PROVE  MutualOK'
<1>1. MutualOK
  BY Parts
<1>2. /\ Follows(asked, u, FiledOffline(u), todo[u], todo'[u])
      /\ \A v \in Users \ {u} : todo'[v] = todo[v]
  BY Went
<1>3. ~Half(todo[u]) /\ ~Half(todo'[u])
  BY <1>2 DEF Follows, Onward, Half
<1> QED
  BY <1>1, <1>2, <1>3, MutualFrame

LEMMA PlainStep ==
  ASSUME Inv, NEW u \in Users, NEW f, Commanded(u, f), ~Pairing(todo[u][1]),
         UNCHANGED <<friends, asked, accepted, mixed>>, KeptOK',
         account' \subseteq Users, online' \subseteq Users,
         requests' \in [Users -> SUBSET Users], response' \in [Users -> SUBSET Notices],
         chan' \in [Users -> Seq(Messages)], filed' \subseteq Users \X Notices \X BOOLEAN,
         \A v \in Users : \A x \in requests'[v] : << x, v >> \in asked,
         Heard(asked, friend_res, chan')
  PROVE  Inv'
<1> USE DEF clientVars
<1>1. /\ TablesOK /\ FramesOK(asked, frames) /\ AcceptedWereAsked
  BY Parts
<1>2. /\ todo' \in [Users -> Seq(CommandSet)]
      /\ \A v \in Users : ProgramAsked(asked, v, todo'[v]) /\ CouplesOK(todo'[v])
  BY Went
<1>3. UNCHANGED <<frames, clientVars, logins, served>>
  BY DEF Commanded, GoOn
<1>4. TablesOK'
  BY <1>1, <1>2, <1>3 DEF TablesOK
<1>5. MutualOK'
  BY MutualQuiet
<1>6. AcceptedWereAsked'
  BY <1>1 DEF AcceptedWereAsked
<1>7. FramesOK(asked', frames') /\ Heard(asked', friend_res', chan')
  BY <1>1, <1>3
<1>8. \A v \in Users : /\ \A x \in requests'[v] : << x, v >> \in asked'
                       /\ ProgramAsked(asked', v, todo'[v]) /\ CouplesOK(todo'[v])
  BY <1>2
<1> QED
  BY <1>4, <1>5, <1>6, <1>7, <1>8, Whole

LEMMA Heads ==
  ASSUME Inv, NEW u \in Users, Busy(u)
  PROVE  /\ todo[u] # << >> /\ Now(u) = todo[u][1] /\ Now(u) \in CommandSet
         /\ CommandAsked(asked, u, Now(u))
<1>1. todo[u] \in Seq(CommandSet) /\ todo[u] # << >> /\ ProgramAsked(asked, u, todo[u])
  BY Parts DEF TablesOK, Busy
<1>2. Head(todo[u]) = todo[u][1] /\ todo[u][1] \in CommandSet /\ 1 \in 1 .. Len(todo[u])
  <2>1. PICK s \in Seq(CommandSet) : s = todo[u] /\ s # << >>
    BY <1>1
  <2>2. Len(s) \in Nat /\ Len(s) # 0
    BY <2>1, LenProperties, EmptySeq
  <2>3. 1 \in 1 .. Len(s)
    BY <2>2
  <2>4. Head(s) = s[1] /\ s[1] \in CommandSet
    BY <2>1, <2>3, HeadTailProperties, ElementOfSeq
  <2> QED
    BY <2>1, <2>3, <2>4
<1> QED
  BY <1>1, <1>2 DEF Now, ProgramAsked

LEMMA NoAnswer ==
  ASSUME Inv, NEW u \in Users, Busy(u), Now(u).cmd \notin {"users", "getFields", "getHash"},
         GoOn(u, << >>)
  PROVE  Commanded(u, << >>)
<1>1. << >> \in Seq(CommandSet) /\ Len(<< >>) = 0 /\ \A i \in 1 .. 0 : FALSE
  OBVIOUS
<1> QED
  BY <1>1, Heads DEF Commanded, Answering

\* The commands that go on with nothing and write neither friends nor notices.
LEMMA QuietStep ==
  ASSUME Inv, NEW u \in Users, NEW f, Commanded(u, f), ~Pairing(todo[u][1]),
         UNCHANGED <<friends, response, chan, historyVars>>, todo[u][1].cmd # "dispatch",
         account' \subseteq account, requests' \in [Users -> SUBSET Users],
         \A v \in Users : requests'[v] \subseteq requests[v],
         online \subseteq online', online' \subseteq Users,
         todo[u][1].cmd = "addUser" => u \in online'
  PROVE  Inv'
<1> USE DEF historyVars
<1>1. TablesOK /\ Heard(asked, friend_res, chan)
  BY Parts
<1>2. KeptOK'
  BY KeptQuiet
<1>3. \A v \in Users : \A x \in requests'[v] : << x, v >> \in asked
  BY Parts
<1> QED
  BY <1>1, <1>2, <1>3, PlainStep DEF TablesOK

LEMMA AddUserStep ==
  ASSUME Inv, NEW u \in Users, addUser(u)
  PROVE  Inv'
<1> USE DEF redisVars
<1>1. Busy(u) /\ Now(u).cmd = "addUser" /\ Now(u) = todo[u][1]
  BY Heads DEF addUser, Doing
<1>2. Commanded(u, << >>) /\ ~Pairing(todo[u][1])
  BY <1>1, NoAnswer DEF addUser, Pairing
<1>3. TablesOK
  BY Parts
<1> QED
  BY <1>1, <1>2, <1>3, QuietStep DEF addUser, TablesOK

LEMMA DeleteRequestSteps ==
  ASSUME Inv, NEW u \in Users,
         deleteHashMember(u) \/ deleteHashMembers(u) \/ deleteHashKey(u)
  PROVE  Inv'
<1>1. /\ Busy(u) /\ Now(u) = todo[u][1]
      /\ Now(u).cmd \in {"deleteHashMember", "deleteHashMembers", "deleteHashKey"}
  BY Heads DEF deleteHashMember, deleteHashMembers, deleteHashKey, Doing
<1>2. GoOn(u, << >>)
  BY DEF deleteHashMember, deleteHashMembers, deleteHashKey
<1>3. /\ Now(u).cmd \notin {"users", "getFields", "getHash"} /\ ~Pairing(Now(u))
      /\ Now(u).cmd # "dispatch" /\ Now(u).cmd # "addUser"
  BY <1>1 DEF Pairing
<1>4. Commanded(u, << >>)
  BY <1>1, <1>2, <1>3, NoAnswer
<1>5. TablesOK
  BY Parts
<1>6. /\ UNCHANGED <<friends, response, chan, historyVars, online>>
      /\ account' \subseteq account
  BY DEF deleteHashMember, deleteHashMembers, deleteHashKey
<1>7. /\ requests' \in [Users -> SUBSET Users]
      /\ \A v \in Users : requests'[v] \subseteq requests[v]
  <2>1. requests \in [Users -> SUBSET Users]
    BY <1>5 DEF TablesOK
  <2>2. CASE deleteHashMember(u)
    <3>1. PICK x, y : x = Now(u).who /\ y = Now(u).other
      OBVIOUS
    <3>2. requests' = [requests EXCEPT ![x] = @ \ {y}]
      BY <2>2, <3>1 DEF deleteHashMember
    <3> QED
      BY <2>1, <3>2
  <2>3. CASE deleteHashMembers(u)
    BY <2>1, <2>3 DEF deleteHashMembers
  <2>4. CASE deleteHashKey(u)
    BY <2>1, <2>4 DEF deleteHashKey
  <2> QED
    BY <2>2, <2>3, <2>4
<1> QED
  BY <1>1, <1>3, <1>4, <1>5, <1>6, <1>7, QuietStep DEF TablesOK

\* Answers: what is dispatched, or what a look-up chooses.
LEMMA OneAnswer ==
  ASSUME Inv, NEW u \in Users, Busy(u), NEW m \in Messages, TellsAskers(asked, u, m),
         GoOn(u, << Dispatch(u, m) >>),
         Now(u).cmd \in {"getFields", "getHash"},
         Now(u).cmd = "getHash" /\ Now(u).kind = "RESPONSE" =>
            m.kind = "RESPONSE" /\ FiledOffline(u) \subseteq m.about
  PROVE  Commanded(u, << Dispatch(u, m) >>)
<1> DEFINE d == Dispatch(u, m)
           f == << d >>
<1>1. d \in Answers /\ d.cmd = "dispatch" /\ d.who = u /\ d.msg = m
  BY DispatchAnswer
<1>2. AnswerAsked(asked, d) /\ d \in CommandSet
  BY <1>1, AnswerFields DEF AnswerAsked
<1> HIDE DEF d
<1>3. f \in Seq(CommandSet) /\ Len(f) = 1 /\ f[1] = d /\ \A i \in 1 .. Len(f) : f[i] = d
  BY <1>2
<1>4. GoOn(u, f)
  BY DEF d
<1> HIDE DEF f
<1>5. todo[u] # << >> /\ Now(u) = todo[u][1]
  BY Heads
<1>6. Answering(asked, FiledOffline(u), todo[u], f)
  BY <1>1, <1>2, <1>3, <1>5 DEF Answering
<1>7. Commanded(u, f)
  BY <1>4, <1>5, <1>6 DEF Commanded
<1> QED
  BY <1>7 DEF f, d

LEMMA GetFieldsStep ==
  ASSUME Inv, NEW u \in Users, getFields(u)
  PROVE  Inv'
<1> USE DEF redisVars
<1>1. TablesOK
  BY Parts
<1>2. /\ Busy(u) /\ Now(u) = todo[u][1] /\ Now(u).cmd = "getFields"
      /\ Now(u).who \in Users /\ Now(u).kind \in {"LOGINLIST", "FDLIST"}
  BY Heads, Fields DEF getFields, Doing
<1>3. PICK m : m = Message(Now(u).kind, u, friends[Now(u).who])
  OBVIOUS
<1>4. m \in Messages /\ m.kind # "USERNTF"
  BY <1>1, <1>2, <1>3 DEF Message, Messages, TablesOK
<1>5. TellsAskers(asked, u, m)
  BY <1>4 DEF TellsAskers
<1>6. Commanded(u, << Dispatch(u, m) >>)
  BY <1>2, <1>3, <1>4, <1>5, OneAnswer DEF getFields
<1>7. ~Pairing(todo[u][1]) /\ todo[u][1].cmd # "dispatch" /\ todo[u][1].cmd # "addUser"
  BY <1>2 DEF Pairing
<1> QED
  BY <1>1, <1>6, <1>7, QuietStep DEF getFields, TablesOK

LEMMA GetHashStep ==
  ASSUME Inv, NEW u \in Users, getHash(u)
  PROVE  Inv'
<1> USE DEF redisVars
<1>1. TablesOK /\ OfflineNoticeKept
  BY Parts DEF KeptOK
<1>2. /\ Busy(u) /\ Now(u) = todo[u][1] /\ Now(u).cmd = "getHash"
      /\ Now(u).who = u /\ Now(u).kind \in {"RESPONSE", "USERNTF"}
  BY Heads, Fields DEF getHash, Doing, CommandAsked
<1>3. PICK all : all = IF Now(u).kind = "USERNTF" THEN requests[u] ELSE response[u]
  OBVIOUS
<1>4. PICK m : m = Message(Now(u).kind, u, all)
  OBVIOUS
<1>5. m \in Messages /\ m.kind = Now(u).kind /\ m.about = all
  BY <1>1, <1>2, <1>3, <1>4 DEF Message, Messages, TablesOK
<1>6. TellsAskers(asked, u, m)
  BY <1>3, <1>5, Parts DEF TellsAskers
<1>7. FiledOffline(u) \subseteq response[u]
  <2>1. ASSUME NEW n \in FiledOffline(u)
        PROVE  n \in response[u]
    <3>1. PICK e \in filed : e = << u, n, FALSE >>
      BY <2>1 DEF FiledOffline
    <3>2. e[1] = u /\ e[2] = n /\ e[3] = FALSE
      BY <3>1
    <3> QED
      BY <1>1, <3>2 DEF OfflineNoticeKept
  <2> QED
    BY <2>1
<1>8. Now(u).kind = "RESPONSE" => m.kind = "RESPONSE" /\ FiledOffline(u) \subseteq m.about
  BY <1>3, <1>5, <1>7
<1>9. GoOn(u, << Dispatch(u, m) >>)
  BY <1>2, <1>3, <1>4 DEF getHash
<1>10. Commanded(u, << Dispatch(u, m) >>)
  BY <1>2, <1>5, <1>6, <1>8, <1>9, OneAnswer
<1>11. ~Pairing(todo[u][1]) /\ todo[u][1].cmd # "dispatch" /\ todo[u][1].cmd # "addUser"
  BY <1>2 DEF Pairing
<1> QED
  BY <1>1, <1>10, <1>11, QuietStep DEF getHash, TablesOK

LEMMA UsersStep ==
  ASSUME Inv, NEW u \in Users, users(u)
  PROVE  Inv'
<1> USE DEF redisVars
<1>1. TablesOK
  BY Parts
<1>2. /\ Busy(u) /\ Now(u) = todo[u][1] /\ Now(u).cmd = "users" /\ todo[u] # << >>
      /\ Now(u).on \in Seq(Answers) /\ Now(u).off \in Seq(Answers)
      /\ CommandAsked(asked, u, Now(u))
  BY Heads, Fields DEF users, Doing
<1>3. PICK f : f = IF Now(u).who \in online THEN Now(u).on ELSE Now(u).off
  OBVIOUS
<1>4. f \in Seq(Answers) /\ \A i \in 1 .. Len(f) : AnswerAsked(asked, f[i])
  BY <1>2, <1>3 DEF CommandAsked
<1>5. f \in Seq(CommandSet) /\ \A i \in 1 .. Len(f) : f[i] \in Answers
  <2>1. Answers \subseteq CommandSet
    BY DEF CommandSet
  <2>2. \A i \in 1 .. Len(f) : f[i] \in Answers
    BY <1>4, ElementOfSeq
  <2>3. f \in Seq(CommandSet)
    BY <1>4, <2>1
  <2> QED
    BY <2>2, <2>3
<1>6. Commanded(u, f)
  BY <1>2, <1>3, <1>4, <1>5 DEF Commanded, Answering, users
<1>7. ~Pairing(todo[u][1]) /\ todo[u][1].cmd # "dispatch" /\ todo[u][1].cmd # "addUser"
  BY <1>2 DEF Pairing
<1> QED
  BY <1>1, <1>6, <1>7, QuietStep DEF users, TablesOK

LEMMA DispatchStep ==
  ASSUME Inv, NEW u \in Users, dispatch(u)
  PROVE  Inv'
<1> USE DEF redisVars
<1>1. TablesOK /\ KeptOK /\ Heard(asked, friend_res, chan)
  BY Parts
<1>2. /\ Busy(u) /\ Now(u) = todo[u][1] /\ Now(u).cmd = "dispatch"
      /\ Now(u).who \in Users \cup {NoUser} /\ Now(u).msg \in Messages
      /\ CommandAsked(asked, u, Now(u))
  BY Heads, Fields DEF dispatch, Doing
<1>3. PICK x \in Users \cup {NoUser}, m \in Messages : x = Now(u).who /\ m = Now(u).msg
  BY <1>2
<1>4. /\ chan' = [v \in Users |->
                    IF v = x /\ v \in up /\ m.kind \notin Printed THEN Append(chan[v], m) ELSE chan[v]]
      /\ filed' = {f \in filed : ~(m.kind = "RESPONSE" /\ f[1] = u /\ f[2] \in m.about)}
      /\ GoOn(u, << >>)
      /\ UNCHANGED <<redisVars, online, asked, accepted, mixed>>
  BY <1>3 DEF dispatch
<1>5. Commanded(u, << >>) /\ ~Pairing(todo[u][1]) /\ todo[u][1].cmd = "dispatch"
  BY <1>2, <1>4, NoAnswer DEF Pairing
<1>6. chan \in [Users -> Seq(Messages)]
  BY <1>1 DEF TablesOK
<1>7. chan' \in [Users -> Seq(Messages)]
  <2>1. \A v \in Users : Append(chan[v], m) \in Seq(Messages)
    BY <1>6
  <2> QED
    BY <1>4, <1>6, <2>1
<1>8. x \in Users => TellsAskers(asked, x, m)
  BY <1>2, <1>3, FriendsConstants DEF CommandAsked, AnswerAsked
<1>9. ASSUME NEW v \in Users, NEW i \in 1 .. Len(chan'[v])
      PROVE  TellsAskers(asked, v, chan'[v][i])
  <2>1. CASE chan'[v] = chan[v]
    BY <1>1, <1>9, <2>1 DEF Heard
  <2>2. CASE v = x /\ chan'[v] = Append(chan[v], m)
    <3>1. PICK s \in Seq(Messages) : s = chan[v]
      BY <1>6
    <3>2. /\ Len(Append(s, m)) = Len(s) + 1 /\ Append(s, m)[Len(s) + 1] = m
          /\ \A j \in 1 .. Len(s) : Append(s, m)[j] = s[j]
      BY AppendProperties
    <3>3. Len(s) \in Nat
      BY LenProperties
    <3>4. i \in 1 .. Len(s) \/ i = Len(s) + 1
      BY <1>9, <2>2, <3>1, <3>2, <3>3
    <3>5. \A j \in 1 .. Len(s) : TellsAskers(asked, v, s[j])
      BY <1>1, <3>1 DEF Heard
    <3>6. CASE i \in 1 .. Len(s)
      BY <2>2, <3>1, <3>2, <3>5, <3>6
    <3>7. CASE i = Len(s) + 1
      BY <1>8, <2>2, <3>1, <3>2, <3>7
    <3> QED
      BY <3>4, <3>6, <3>7
  <2> QED
    BY <1>4, <2>1, <2>2
<1>10. Heard(asked, friend_res, chan')
  BY <1>1, <1>9 DEF Heard
<1>11. /\ filed' \subseteq filed /\ filed' \subseteq Users \X Notices \X BOOLEAN
       /\ \A v \in Users : FiledOffline(v)' \subseteq FiledOffline(v)
  BY <1>1, <1>4 DEF TablesOK, FiledOffline
<1>12. LoginOK(todo'[u], FiledOffline(u)')
  <2>1. Follows(asked, u, FiledOffline(u), todo[u], todo'[u])
    BY <1>5, Went
  <2>2. ASSUME m.kind = "RESPONSE", FiledOffline(u) \subseteq m.about
        PROVE  FiledOffline(u)' = {}
    <3>1. ASSUME NEW n \in FiledOffline(u)'
          PROVE  FALSE
      <4>1. << u, n, FALSE >> \in filed' /\ n \in FiledOffline(u)
        BY <1>11, <3>1 DEF FiledOffline
      <4> QED
        BY <1>4, <2>2, <4>1
    <3> QED
      BY <3>1
  <2>3. PICK G : G = FiledOffline(u)'
    OBVIOUS
  <2>4. G \subseteq FiledOffline(u)
    BY <1>11, <2>3
  <2>5. todo[u][1].msg = m
    BY <1>2, <1>3
  <2>6. LoginOK(todo'[u], G)
    BY <2>1, <2>2, <2>3, <2>4, <2>5 DEF Follows
  <2> QED
    BY <2>3, <2>6
<1>13. ASSUME NEW v \in Users
       PROVE  LoginOK(todo[v], FiledOffline(v)')
  BY <1>1, <1>11, LoginKept DEF KeptOK, TablesOK
<1>14. OfflineNoticeKept'
  BY <1>1, <1>4, <1>11 DEF KeptOK, OfflineNoticeKept
<1>15. KeptOK'
  BY <1>4, <1>5, <1>12, <1>13, <1>14, KeptGoes
<1>16. \A v \in Users : \A y \in requests'[v] : << y, v >> \in asked
  BY <1>4, Parts
<1> QED
  BY <1>1, <1>4, <1>5, <1>7, <1>10, <1>11, <1>15, <1>16, PlainStep DEF TablesOK

LEMMA FiledParts ==
  ASSUME NEW e \in Users \X Notices \X BOOLEAN
  PROVE  /\ e[1] \in Users /\ e[2] \in Notices /\ e[3] \in BOOLEAN
         /\ ~e[3] => e = << e[1], e[2], FALSE >>
<1>1. e[1] \in Users /\ e[2] \in Notices /\ e[3] \in BOOLEAN /\ e = << e[1], e[2], e[3] >>
  OBVIOUS
<1>2. ~e[3] => e[3] = FALSE
  BY <1>1
<1> QED
  BY <1>1, <1>2

LEMMA DeleteHashStep ==
  ASSUME Inv, NEW u \in Users, deleteHash(u)
  PROVE  Inv'
<1> USE DEF historyVars
<1>1. TablesOK /\ KeptOK /\ Heard(asked, friend_res, chan)
  BY Parts
<1>2. Busy(u) /\ Now(u) = todo[u][1] /\ Now(u).cmd = "deleteHash" /\ GoOn(u, << >>)
  BY Heads DEF deleteHash, Doing
<1>3. Commanded(u, << >>) /\ ~Pairing(todo[u][1]) /\ todo[u][1].cmd # "dispatch"
      /\ todo[u][1].cmd # "addUser"
  BY <1>2, NoAnswer DEF Pairing
<1>4. /\ response' = [response EXCEPT ![u] = {}]
      /\ UNCHANGED <<account, friends, requests, online, chan, historyVars>>
  BY DEF deleteHash
<1>5. FiledOffline(u) = {}
  <2>1. PICK s \in Seq(CommandSet) : s = todo[u] /\ s # << >>
    BY <1>1, <1>2 DEF TablesOK, Busy
  <2>2. Len(s) \in Nat /\ Len(s) # 0
    BY <2>1, LenProperties, EmptySeq
  <2>3. 1 \in 1 .. Len(todo[u]) /\ todo[u][1].cmd = "deleteHash"
    BY <1>2, <2>1, <2>2
  <2>4. LoginOK(todo[u], FiledOffline(u))
    BY <1>1 DEF KeptOK
  <2> QED
    BY <2>3, <2>4 DEF LoginOK
<1>6. OfflineNoticeKept'
  <2>1. ASSUME NEW e \in filed, ~e[3]
        PROVE  e[2] \in response'[e[1]]
    <3>1. e = << e[1], e[2], FALSE >> /\ e[1] \in Users /\ e[2] \in Notices
      BY <1>1, <2>1, FiledParts DEF TablesOK
    <3>2. e[1] # u
      BY <1>5, <2>1, <3>1 DEF FiledOffline
    <3>3. e[2] \in response[e[1]]
      BY <1>1, <2>1 DEF KeptOK, OfflineNoticeKept
    <3> QED
      BY <1>1, <1>4, <3>1, <3>2, <3>3 DEF TablesOK
  <2> QED
    BY <1>4, <2>1 DEF OfflineNoticeKept
<1>7. \A v : FiledOffline(v)' = FiledOffline(v)
  BY <1>4 DEF FiledOffline
<1>8. LoginOK(todo'[u], FiledOffline(u)')
  BY <1>3, <1>7, Went DEF Follows
<1>9. \A v \in Users : LoginOK(todo[v], FiledOffline(v)')
  BY <1>1, <1>7 DEF KeptOK
<1>10. KeptOK'
  BY <1>3, <1>4, <1>6, <1>8, <1>9, KeptGoes
<1>11. \A v \in Users : \A x \in requests'[v] : << x, v >> \in asked
  BY <1>4, Parts
<1>12. response' \in [Users -> SUBSET Notices]
  BY <1>1, <1>4 DEF TablesOK
<1> QED
  BY <1>1, <1>3, <1>4, <1>10, <1>11, <1>12, PlainStep DEF TablesOK

LEMMA SetResKeyStep ==
  ASSUME Inv, NEW u \in Users, setResKey(u)
  PROVE  Inv'
<1>1. TablesOK /\ KeptOK /\ Heard(asked, friend_res, chan)
  BY Parts
<1>2. /\ Busy(u) /\ Now(u) = todo[u][1] /\ Now(u).cmd = "setResKey" /\ GoOn(u, << >>)
      /\ Now(u).who \in Users /\ (Now(u).name = "Friend" => Now(u).notice \in Users)
      /\ (Now(u).name # "Friend" => Now(u).notice \in Notices)
      /\ CommandAsked(asked, u, Now(u))
  BY Heads, Fields DEF setResKey, Doing
<1>3. Commanded(u, << >>) /\ ~Pairing(todo[u][1]) /\ todo[u][1].cmd # "dispatch"
      /\ todo[u][1].cmd # "addUser"
  BY <1>2, NoAnswer DEF Pairing
<1>4. PICK x, n : x = Now(u).who /\ n = Now(u).notice /\ x \in Users
  BY <1>2
<1>5. UNCHANGED <<account, friends, online, chan, asked, accepted, mixed>>
  BY DEF setResKey
<1>6. CASE Now(u).name = "Friend"
  <2>1. requests' = [requests EXCEPT ![x] = @ \cup {n}] /\ UNCHANGED <<response, filed>>
    BY <1>4, <1>6 DEF setResKey
  <2>2. n \in Users /\ << n, x >> \in asked
    BY <1>2, <1>4, <1>6 DEF CommandAsked, AnswerAsked
  <2>3. requests' \in [Users -> SUBSET Users]
    BY <1>1, <2>1, <2>2 DEF TablesOK
  <2>4. \A v \in Users : \A y \in requests'[v] : << y, v >> \in asked
    BY <1>1, <2>1, <2>2, Parts DEF TablesOK
  <2>5. KeptOK'
    BY <1>3, <1>5, <2>1, KeptQuiet
  <2> QED
    BY <1>1, <1>3, <1>5, <2>1, <2>3, <2>4, <2>5, PlainStep DEF TablesOK
<1>7. CASE Now(u).name # "Friend"
  <2>1. /\ response' = [response EXCEPT ![x] = @ \cup {n}]
        /\ filed' = filed \cup {<< x, n, x \in online >>}
        /\ UNCHANGED requests
    BY <1>4, <1>7 DEF setResKey
  <2>2. n \in Notices
    BY <1>2, <1>4, <1>7
  <2>3. response' \in [Users -> SUBSET Notices]
    BY <1>1, <2>1, <2>2 DEF TablesOK
  <2>4. filed' \subseteq Users \X Notices \X BOOLEAN
    <3>1. \E b \in BOOLEAN : b = (x \in online)
      <4>1. CASE x \in online
        BY <4>1
      <4>2. ASSUME x \notin online
            PROVE  FALSE = (x \in online)
        BY <4>2, SMT
      <4> QED
        BY <4>1, <4>2
    <3> PICK b \in BOOLEAN : b = (x \in online)
      BY <3>1
    <3>2. << x, n, b >> \in Users \X Notices \X BOOLEAN
      BY <1>4, <2>2
    <3>3. filed \subseteq Users \X Notices \X BOOLEAN /\ filed' = filed \cup {<< x, n, b >>}
      BY <1>1, <2>1 DEF TablesOK
    <3> QED
      BY <3>2, <3>3
  <2>5. OfflineNoticeKept'
    <3>1. /\ \A v \in Users : response[v] \subseteq response'[v]
          /\ n \in response'[x]
      <4>1. response \in [Users -> SUBSET Notices]
        BY <1>1 DEF TablesOK
      <4> QED
        BY <1>4, <2>1, <4>1
    <3>2. ASSUME NEW e \in filed', ~e[3]
          PROVE  e[2] \in response'[e[1]]
      <4>1. CASE e \in filed
        <5>1. e[2] \in response[e[1]] /\ e[1] \in Users
          BY <1>1, <3>2, <4>1 DEF KeptOK, OfflineNoticeKept, TablesOK
        <5> QED
          BY <3>1, <5>1
      <4>2. CASE e = << x, n, x \in online >>
        BY <3>1, <4>2
      <4> QED
        BY <2>1, <4>1, <4>2
    <3> QED
      BY <3>2 DEF OfflineNoticeKept
  <2>6. \A v \in Users : FiledOffline(v)' \subseteq FiledOffline(v) \/ (v = x /\ x \notin online)
    <3>1. ASSUME NEW v \in Users, v # x \/ x \in online, NEW k \in FiledOffline(v)'
          PROVE  k \in FiledOffline(v)
      <4>1. << v, k, FALSE >> \in filed' /\ k \in Notices
        BY <3>1 DEF FiledOffline
      <4>2. << v, k, FALSE >> # << x, n, x \in online >>
        BY <3>1
      <4>3. << v, k, FALSE >> \in filed
        BY <2>1, <4>1, <4>2
      <4> QED
        BY <4>1, <4>3 DEF FiledOffline
    <3> QED
      BY <3>1
  <2>7. \A v \in Users : todo[v] \in Seq(CommandSet)
    BY <1>1 DEF TablesOK
  <2>8. ASSUME NEW v \in Users \ {u}
        PROVE  LoginOK(todo[v], FiledOffline(v)')
    <3>1. LoginOK(todo[v], FiledOffline(v))
      BY <1>1 DEF KeptOK
    <3>2. FiledOffline(v)' \subseteq FiledOffline(v) \/ ~Deletes(todo[v]) \/ todo[v][1].cmd = "addUser"
      BY <1>1, <2>6 DEF KeptOK
    <3> QED
      BY <2>7, <3>1, <3>2, LoginKept
  <2>9. LoginOK(todo'[u], FiledOffline(u)')
    <3>1. /\ Follows(asked, u, FiledOffline(u), todo[u], todo'[u])
          /\ todo'[u] \in Seq(CommandSet)
      BY <1>3, Went
    <3>2. LoginOK(todo'[u], FiledOffline(u)) /\ (Deletes(todo'[u]) => Deletes(todo[u]))
      BY <1>3, <3>1 DEF Follows
    <3>3. FiledOffline(u)' \subseteq FiledOffline(u) \/ ~Deletes(todo[u])
      BY <1>1, <1>3, <2>6 DEF KeptOK
    <3> QED
      BY <3>1, <3>2, <3>3, LoginKept
  <2>10. KeptOK'
    BY <1>3, <1>5, <2>5, <2>8, <2>9, KeptGoes
  <2>11. \A v \in Users : \A y \in requests'[v] : << y, v >> \in asked
    BY <2>1, Parts
  <2> QED
    BY <1>1, <1>3, <1>5, <2>1, <2>3, <2>4, <2>10, <2>11, PlainStep DEF TablesOK
<1> QED
  BY <1>6, <1>7

\* A command for a couple: z becomes a friend of y, or is no friend of y any more.
Written(fs, gs, y, z, cmd) ==
    /\ z \in gs[y] <=> cmd = "setUserGroups"
    /\ \A a, b \in Users : b # y \/ a # z => (a \in gs[b] <=> a \in fs[b])

\* Nobody else has begun with the other command for the couple.
Alone(u, y, z, cmd) ==
    \A v \in Users \ {u} :
        Half(todo[v]) /\ Couple(todo[v][1]) = {y, z} => todo[v][1].cmd = cmd

LEMMA PairMutual ==
  ASSUME Inv, NEW u \in Users, NEW f, Commanded(u, f), NEW y \in Users, NEW z \in Users, NEW cmd,
         Pairing(todo[u][1]), todo[u][1].cmd = cmd, todo[u][1].who = y, todo[u][1].other = z,
         Written(friends, friends', y, z, cmd), mixed \subseteq mixed',
         {y, z} \notin mixed' => Alone(u, y, z, cmd)
  PROVE  MutualOK'
<1> USE DEF Written, Alone
<1> DEFINE s == todo[u]
           t == todo'[u]
<1>1. MutualOK /\ TablesOK
  BY Parts
<1>2. Onward(asked, u, s, t) /\ \A v \in Users \ {u} : todo'[v] = todo[v]
  BY Went DEF Follows
<1>3. Half(t) => t[1] = s[2] /\ Mirror(s[1], s[2])
  BY <1>2 DEF Onward
<1>4. ~Half(s) => Half(t) /\ t[1] = s[2] /\ Mirror(s[1], s[2])
  BY <1>2 DEF Onward
<1>5. Couple(s[1]) = {y, z}
  BY DEF Couple
\* The second command for a couple writes the way back.
<1>6. Mirror(s[1], s[2]) =>
         s[2].cmd = cmd /\ s[2].who = z /\ s[2].other = y /\ Couple(s[2]) = {y, z}
  BY DEF Mirror, Couple
<1> HIDE DEF s, t
<1>7. ASSUME NEW w \in Users, Half(todo'[w]), Couple(todo'[w][1]) \notin mixed',
             todo'[w][1].who # todo'[w][1].other
      PROVE  todo'[w][1].who \in friends'[todo'[w][1].other] <=> todo'[w][1].cmd = "setUserGroups"
  <2>1. CASE w = u
    <3>1. todo'[w][1].cmd = cmd /\ todo'[w][1].who = z /\ todo'[w][1].other = y
      BY <1>3, <1>6, <1>7, <2>1 DEF t
    <3> QED
      BY <3>1
  <2>2. CASE w # u
    <3>1. todo'[w] = todo[w] /\ Half(todo[w])
      BY <1>2, <1>7, <2>2
    <3>2. PICK d : d = todo[w][1]
      OBVIOUS
    <3>3. d.who \in Users /\ d.other \in Users
      <4>1. Pairing(d)
        BY <3>1, <3>2 DEF Half
      <4>2. d \in CommandSet
        <5>1. PICK r \in Seq(CommandSet) : r = todo[w] /\ r # << >>
          BY <1>1, <3>1 DEF TablesOK, Half
        <5>2. r[1] \in CommandSet
          <6>1. Len(r) \in Nat /\ Len(r) # 0
            BY <5>1, LenProperties, EmptySeq
          <6>2. 1 \in 1 .. Len(r)
            BY <6>1
          <6> QED
            BY <6>2, ElementOfSeq
        <5> QED
          BY <3>2, <5>1, <5>2
      <4> QED
        BY <4>1, <4>2, Fields
    <3>4. CASE d.other = y /\ d.who = z
      <4>1. Couple(d) = {y, z} /\ {y, z} \notin mixed'
        BY <1>7, <3>1, <3>2, <3>4 DEF Couple
      <4>2. d.cmd = cmd
        BY <2>2, <3>1, <3>2, <4>1
      <4> QED
        BY <3>1, <3>2, <3>4, <4>2
    <3>5. CASE d.other # y \/ d.who # z
      <4>1. d.who \in friends'[d.other] <=> d.who \in friends[d.other]
        BY <3>3, <3>5
      <4>2. Couple(d) \notin mixed /\ d.who # d.other
        BY <1>7, <3>1, <3>2
      <4>3. d.who \in friends[d.other] <=> d.cmd = "setUserGroups"
        BY <1>1, <3>1, <3>2, <4>2 DEF MutualOK
      <4> QED
        BY <3>1, <3>2, <4>1, <4>3
    <3> QED
      BY <3>4, <3>5
  <2> QED
    BY <2>1, <2>2
<1>8. ASSUME NEW a \in Users, NEW b \in Users
      PROVE  \/ a \in friends'[b] <=> b \in friends'[a]
             \/ {a, b} \in mixed'
             \/ \E w \in Users : Half(todo'[w]) /\ Couple(todo'[w][1]) = {a, b}
  <2>1. CASE {a, b} # {y, z}
    <3>1. (a \in friends'[b] <=> a \in friends[b]) /\ (b \in friends'[a] <=> b \in friends[a])
      <4>1. (b # y \/ a # z) /\ (a # y \/ b # z)
        BY <2>1
      <4> QED
        BY <4>1
    <3>2. CASE \E w \in Users : Half(todo[w]) /\ Couple(todo[w][1]) = {a, b}
      <4>1. PICK w \in Users : Half(todo[w]) /\ Couple(todo[w][1]) = {a, b}
        BY <3>2
      <4>2. w # u
        BY <1>5, <2>1, <4>1 DEF s
      <4>3. Half(todo'[w]) /\ Couple(todo'[w][1]) = {a, b}
        BY <1>2, <4>1, <4>2
      <4> QED
        BY <4>3
    <3>3. CASE ~\E w \in Users : Half(todo[w]) /\ Couple(todo[w][1]) = {a, b}
      <4>1. (a \in friends[b] <=> b \in friends[a]) \/ {a, b} \in mixed
        BY <1>1, <3>3 DEF MutualOK
      <4> QED
        BY <3>1, <4>1
    <3> QED
      BY <3>2, <3>3
  <2>2. CASE {a, b} = {y, z} /\ Half(t)
    <3>1. Couple(todo'[u][1]) = {a, b}
      BY <1>3, <1>6, <2>2 DEF t
    <3> QED
      BY <2>2, <3>1 DEF t
  <2>3. CASE {a, b} = {y, z} /\ ~Half(t) /\ {y, z} \notin mixed' /\ y # z
    <3>1. Half(s) /\ {y, z} \notin mixed
      BY <1>4, <2>3
    <3>2. y \in friends[z] <=> cmd = "setUserGroups"
      BY <1>1, <1>5, <2>3, <3>1 DEF MutualOK, s
    <3>3. y \in friends'[z] <=> y \in friends[z]
      BY <2>3
    <3>4. y \in friends'[z] <=> z \in friends'[y]
      BY <3>2, <3>3
    <3>5. (a = y /\ b = z) \/ (a = z /\ b = y)
      BY <2>3
    <3> QED
      BY <3>4, <3>5
  <2>4. CASE {a, b} = {y, z} /\ y = z
    <3>1. a = b
      BY <2>4
    <3> QED
      BY <3>1
  <2> QED
    BY <2>1, <2>2, <2>3, <2>4
<1> QED
  BY <1>7, <1>8 DEF MutualOK

\* The other handlers that have begun on the couple have no command of the
\* other kind for it, unless the pair is noted.
LEMMA NotMet ==
  ASSUME Inv, NEW u \in Users, NEW other \in {"setUserGroups", "removeUserGroups"},
         NEW cmd \in {"setUserGroups", "removeUserGroups"}, cmd # other,
         NEW y, NEW z, Now(u).who = y, Now(u).other = z, ~Meets(u, other)
  PROVE  Alone(u, y, z, cmd)
<1> SUFFICES ASSUME NEW v \in Users \ {u}, Half(todo[v]), Couple(todo[v][1]) = {y, z}
             PROVE  todo[v][1].cmd = cmd
  BY DEF Alone
<1>1. PICK s \in Seq(CommandSet) : s = todo[v] /\ s # << >>
  BY Parts DEF TablesOK, Half
<1>2. 1 \in DOMAIN s
  <2>1. Len(s) \in Nat /\ Len(s) # 0 /\ DOMAIN s = 1 .. Len(s)
    BY <1>1, LenProperties, EmptySeq
  <2> QED
    BY <2>1
<1>3. s[1].cmd # other
  BY <1>1, <1>2 DEF Meets, Couple
<1>4. s[1].cmd \in {"setUserGroups", "removeUserGroups"}
  BY <1>1 DEF Half, Pairing
<1> QED
  BY <1>1, <1>3, <1>4

LEMMA PairHead ==
  ASSUME Inv, NEW u \in Users, Busy(u), NEW cmd \in {"setUserGroups", "removeUserGroups"},
         Now(u).cmd = cmd, GoOn(u, << >>)
  PROVE  /\ Commanded(u, << >>) /\ Now(u) = todo[u][1] /\ Pairing(todo[u][1])
         /\ Now(u).who \in Users /\ Now(u).other \in Users
         /\ CommandAsked(asked, u, Now(u)) /\ Now(u).cmd # "dispatch" /\ Now(u).cmd # "addUser"
<1>1. Now(u) = todo[u][1] /\ Now(u) \in CommandSet /\ CommandAsked(asked, u, Now(u))
  BY Heads
<1>2. Pairing(Now(u))
  BY DEF Pairing
<1>3. Now(u).who \in Users /\ Now(u).other \in Users
  BY <1>1, <1>2, Fields
<1>4. Now(u).cmd \notin {"users", "getFields", "getHash", "dispatch", "addUser"}
  OBVIOUS
<1>5. Commanded(u, << >>)
  BY <1>4, NoAnswer
<1> QED
  BY <1>1, <1>2, <1>3, <1>4, <1>5

\* The rest of what a command for a couple has to keep.
LEMMA PairStep ==
  ASSUME Inv, NEW u \in Users, Commanded(u, << >>), MutualOK',
         todo[u][1].cmd # "dispatch", todo[u][1].cmd # "addUser",
         friends' \in [Users -> SUBSET Users], mixed' \subseteq SUBSET Users,
         accepted' \subseteq Users \X Users, \A p \in accepted' : << p[2], p[1] >> \in asked,
         UNCHANGED <<account, requests, response, online, chan, asked, filed>>
  PROVE  Inv'
<1> USE DEF clientVars
<1>1. TablesOK /\ FramesOK(asked, frames) /\ Heard(asked, friend_res, chan)
  BY Parts
<1>2. /\ todo' \in [Users -> Seq(CommandSet)]
      /\ \A v \in Users : ProgramAsked(asked, v, todo'[v]) /\ CouplesOK(todo'[v])
  BY Went
<1>3. UNCHANGED <<frames, clientVars, logins, served>>
  BY DEF Commanded, GoOn
<1>4. TablesOK'
  BY <1>1, <1>2, <1>3 DEF TablesOK
<1>5. KeptOK'
  BY KeptQuiet
<1>6. AcceptedWereAsked'
  BY DEF AcceptedWereAsked
<1>7. FramesOK(asked', frames') /\ Heard(asked', friend_res', chan')
  BY <1>1, <1>3
<1>8. \A v \in Users : /\ \A x \in requests'[v] : << x, v >> \in asked'
                       /\ ProgramAsked(asked', v, todo'[v]) /\ CouplesOK(todo'[v])
  BY <1>2, Parts
<1> QED
  BY <1>4, <1>5, <1>6, <1>7, <1>8, Whole

LEMMA SetUserGroupsStep ==
  ASSUME Inv, NEW u \in Users, setUserGroups(u)
  PROVE  Inv'
<1>1. /\ Commanded(u, << >>) /\ Now(u) = todo[u][1] /\ Pairing(todo[u][1])
      /\ Now(u).who \in Users /\ Now(u).other \in Users /\ Now(u).cmd = "setUserGroups"
      /\ CommandAsked(asked, u, Now(u)) /\ Now(u).cmd # "dispatch" /\ Now(u).cmd # "addUser"
  BY PairHead DEF setUserGroups, Doing
<1>2. PICK y, z : y = Now(u).who /\ z = Now(u).other /\ y \in Users /\ z \in Users
  BY <1>1
<1>3. /\ friends' = [friends EXCEPT ![y] = @ \cup {z}]
      /\ accepted' = IF y = u THEN accepted \cup {<< u, z >>} ELSE accepted
      /\ mixed' = IF Meets(u, "removeUserGroups") THEN mixed \cup {{y, z}} ELSE mixed
      /\ UNCHANGED <<account, requests, response, online, chan, asked, filed>>
  BY <1>2 DEF setUserGroups, Pair
<1>4. /\ friends \in [Users -> SUBSET Users] /\ mixed \subseteq SUBSET Users
      /\ accepted \subseteq Users \X Users /\ AcceptedWereAsked
  BY Parts DEF TablesOK
<1>5. /\ friends' \in [Users -> SUBSET Users] /\ z \in friends'[y]
      /\ \A a, b \in Users : b # y \/ a # z => (a \in friends'[b] <=> a \in friends[b])
  BY <1>2, <1>3, <1>4
<1>6. mixed \subseteq mixed' /\ mixed' \subseteq SUBSET Users
  BY <1>2, <1>3, <1>4
<1>7. {y, z} \notin mixed' => Alone(u, y, z, "setUserGroups")
  <2>1. SUFFICES ASSUME {y, z} \notin mixed' PROVE Alone(u, y, z, "setUserGroups")
    OBVIOUS
  <2>2. ~Meets(u, "removeUserGroups")
    BY <1>3, <2>1
  <2> QED
    BY <1>2, <2>2, NotMet
<1>8. MutualOK'
  <2>1. Written(friends, friends', y, z, "setUserGroups")
    BY <1>5 DEF Written
  <2>2. /\ todo[u][1].cmd = "setUserGroups" /\ todo[u][1].who = y /\ todo[u][1].other = z
        /\ Pairing(todo[u][1])
    BY <1>1, <1>2
  <2> QED
    BY <1>1, <1>2, <1>6, <1>7, <2>1, <2>2, PairMutual
<1>9. accepted' \subseteq Users \X Users /\ \A p \in accepted' : << p[2], p[1] >> \in asked
  <2>1. y = u => << z, u >> \in asked
    BY <1>1, <1>2 DEF CommandAsked
  <2>2. ASSUME NEW p \in accepted'
        PROVE  p \in Users \X Users /\ << p[2], p[1] >> \in asked
    <3>1. CASE p \in accepted
      BY <1>4, <3>1 DEF AcceptedWereAsked
    <3>2. CASE y = u /\ p = << u, z >>
      BY <1>2, <2>1, <3>2
    <3> QED
      BY <1>3, <2>2, <3>1, <3>2
  <2> QED
    BY <2>2
<1> QED
  BY <1>1, <1>3, <1>5, <1>6, <1>8, <1>9, PairStep

LEMMA RemoveUserGroupsStep ==
  ASSUME Inv, NEW u \in Users, removeUserGroups(u)
  PROVE  Inv'
<1>1. /\ Commanded(u, << >>) /\ Now(u) = todo[u][1] /\ Pairing(todo[u][1])
      /\ Now(u).who \in Users /\ Now(u).other \in Users /\ Now(u).cmd = "removeUserGroups"
      /\ Now(u).cmd # "dispatch" /\ Now(u).cmd # "addUser"
  BY PairHead DEF removeUserGroups, Doing
<1>2. PICK y, z : y = Now(u).who /\ z = Now(u).other /\ y \in Users /\ z \in Users
  BY <1>1
<1>3. /\ friends' = [friends EXCEPT ![y] = @ \ {z}]
      /\ mixed' = IF Meets(u, "setUserGroups") THEN mixed \cup {{y, z}} ELSE mixed
      /\ UNCHANGED <<account, requests, response, online, chan, asked, accepted, filed>>
  BY <1>2 DEF removeUserGroups, Pair
<1>4. /\ friends \in [Users -> SUBSET Users] /\ mixed \subseteq SUBSET Users
      /\ accepted \subseteq Users \X Users /\ AcceptedWereAsked
  BY Parts DEF TablesOK
<1>5. /\ friends' \in [Users -> SUBSET Users] /\ z \notin friends'[y]
      /\ \A a, b \in Users : b # y \/ a # z => (a \in friends'[b] <=> a \in friends[b])
  BY <1>2, <1>3, <1>4
<1>6. mixed \subseteq mixed' /\ mixed' \subseteq SUBSET Users
  BY <1>2, <1>3, <1>4
<1>7. {y, z} \notin mixed' => Alone(u, y, z, "removeUserGroups")
  <2>1. SUFFICES ASSUME {y, z} \notin mixed' PROVE Alone(u, y, z, "removeUserGroups")
    OBVIOUS
  <2>2. ~Meets(u, "setUserGroups")
    BY <1>3, <2>1
  <2> QED
    BY <1>2, <2>2, NotMet
<1>8. MutualOK'
  <2>1. Written(friends, friends', y, z, "removeUserGroups")
    BY <1>5 DEF Written
  <2>2. /\ todo[u][1].cmd = "removeUserGroups" /\ todo[u][1].who = y /\ todo[u][1].other = z
        /\ Pairing(todo[u][1])
    BY <1>1, <1>2
  <2> QED
    BY <1>1, <1>2, <1>6, <1>7, <2>1, <2>2, PairMutual
<1>9. accepted' \subseteq Users \X Users /\ \A p \in accepted' : << p[2], p[1] >> \in asked
  BY <1>3, <1>4 DEF AcceptedWereAsked
<1> QED
  BY <1>1, <1>3, <1>5, <1>6, <1>8, <1>9, PairStep

LEMMA HandlerStep ==
  ASSUME Inv, NEW u \in Users, Handler(u)
  PROVE  Inv'
<1>1. CASE readMessage(u) \/ removeUser(u)
  BY <1>1, ReadStep, RemoveStep
<1>2. CASE addUser(u) \/ users(u) \/ dispatch(u) \/ getFields(u) \/ getHash(u)
  BY <1>2, AddUserStep, UsersStep, DispatchStep, GetFieldsStep, GetHashStep
<1>3. CASE setUserGroups(u) \/ removeUserGroups(u) \/ setResKey(u) \/ deleteHash(u)
  BY <1>3, SetUserGroupsStep, RemoveUserGroupsStep, SetResKeyStep, DeleteHashStep
<1>4. CASE deleteHashMember(u) \/ deleteHashMembers(u) \/ deleteHashKey(u)
  BY <1>4, DeleteRequestSteps
<1> QED
  BY <1>1, <1>2, <1>3, <1>4 DEF Handler

-----------------------------------------------------------------------------
LEMMA InvInit == Init => Inv
<1> SUFFICES ASSUME Init PROVE Inv
  OBVIOUS
<1>1. \A u \in Users : todo[u] = << >> /\ frames[u] = << >> /\ chan[u] = << >> /\ friend_res[u] = {}
  BY DEF Init
<1>2. TablesOK
  <2>1. /\ todo \in [Users -> Seq(CommandSet)] /\ frames \in [Users -> Seq(Seq(CommandSet))]
        /\ chan \in [Users -> Seq(Messages)]
    BY DEF Init
  <2>2. requests \in [Users -> SUBSET Users] /\ friends \in [Users -> SUBSET Users]
    BY FriendsConstants DEF Init
  <2>3. logins \in 0 .. MaxLogins /\ served \in 0 .. MaxRequests
    BY FriendsConstants DEF Init
  <2>4. asked \subseteq Users \X Users /\ accepted = {} /\ mixed = {} /\ filed = {}
    BY DEF Init
  <2> QED
    BY <2>1, <2>2, <2>3, <2>4 DEF Init, TablesOK
<1>3. \A u \in Users : ~Half(todo[u]) /\ ~Deletes(todo[u]) /\ Len(todo[u]) = 0 /\ Len(frames[u]) = 0
  BY <1>1 DEF Half, Deletes
<1>4. ProgramsOK
  BY <1>3 DEF ProgramsOK, ProgramAsked, CouplesOK
<1>5. AskedOK
  <2>1. ASSUME NEW u \in Users, NEW x \in requests[u] \cup friend_res[u]
        PROVE  << x, u >> \in asked
    <3>1. x \in requests[u] /\ x \in Users
      BY <1>1, <1>2, <2>1 DEF TablesOK
    <3>2. << x, u >> \in Users \X Users /\ << x, u >>[1] = x /\ << x, u >>[2] = u
      BY <3>1
    <3>3. asked = {p \in Users \X Users : p[1] \in requests[p[2]]}
      BY DEF Init
    <3> QED
      BY <3>1, <3>2, <3>3
  <2>2. \A u \in Users : Len(chan[u]) = 0
    BY <1>1
  <2>3. accepted = {}
    BY DEF Init
  <2> QED
    BY <2>1, <2>2, <2>3 DEF AskedOK, AcceptedWereAsked
<1>6. MutualOK
  <2>1. \A a, b \in Users : a \in friends[b] <=> b \in friends[a]
    BY DEF Init
  <2> QED
    BY <1>3, <2>1 DEF MutualOK
<1>7. KeptOK
  <2>1. filed = {}
    BY DEF Init
  <2> QED
    BY <1>3, <2>1 DEF KeptOK, OfflineNoticeKept, LoginOK, FiledOffline
<1> QED
  BY <1>2, <1>4, <1>5, <1>6, <1>7 DEF Inv

LEMMA InvStep == Inv /\ [Next]_vars => Inv'
<1> SUFFICES ASSUME Inv, [Next]_vars PROVE Inv'
  OBVIOUS
<1>1. ASSUME NEW u \in Users, Menu(u) \/ Handler(u)
      PROVE  Inv'
  BY <1>1, MenuStep, HandlerStep
<1>2. CASE UNCHANGED vars
  <2> USE <1>2 DEF vars, redisVars, clientVars, historyVars
  <2>1. TablesOK'
    BY DEF Inv, TablesOK
  <2>2. ProgramsOK' /\ AskedOK'
    BY DEF Inv, ProgramsOK, AskedOK, AcceptedWereAsked
  <2>3. MutualOK'
    BY DEF Inv, MutualOK
  <2>4. KeptOK'
    BY DEF Inv, KeptOK, OfflineNoticeKept, FiledOffline
  <2> QED
    BY <2>1, <2>2, <2>3, <2>4 DEF Inv
<1> QED
  BY <1>1, <1>2 DEF Next

\* What every handler has still to do fits what the tables hold: see the parts
\* of Inv above.
THEOREM InvCorrect == Spec => []Inv
<1>1. Init => Inv
  BY InvInit
<1>2. Inv /\ [Next]_vars => Inv'
  BY InvStep
<1> QED
  BY <1>1, <1>2, PTL DEF Spec

\* The tables of Redis, of the server and of the clients hold what they are
\* declared to hold, whatever the handlers interleave.
THEOREM TypeCorrect == Spec => []TypeOK
<1>1. ASSUME Inv, NEW u \in Users, NEW i \in DOMAIN todo[u]
      PROVE  todo[u][i].cmd \in Commands
  <2>1. todo[u][i] \in CommandSet
    BY <1>1, ElementOfSeq, LenProperties DEF Inv, TablesOK
  <2> QED
    BY <2>1 DEF CommandSet, Pairs, Answers, Dispatches, Filings, Others, Lookups, Commands
<1>2. ASSUME Inv, NEW u \in Users, NEW i \in DOMAIN chan[u]
      PROVE  chan[u][i] \in Messages
  BY <1>2, ElementOfSeq, LenProperties DEF Inv, TablesOK
<1>3. Inv => TypeOK
  <2> HAVE Inv
  <2>1. TablesOK
    BY DEF Inv
  <2> QED
    BY <1>1, <1>2, <2>1 DEF TablesOK, TypeOK
<1> QED
  BY <1>3, InvCorrect, PTL

\* A notice filed for a user without an entry in users is in Redis until its
\* next login has sent it (connection.cc:1351-1367): the hash is deleted right
\* after it has been read and sent, and by then its owner has an entry, so that
\* nothing is filed for it as for an absent user.
THEOREM KeptCorrect == Spec => []OfflineNoticeKept
<1>1. Inv => OfflineNoticeKept
  BY DEF Inv, KeptOK
<1> QED
  BY <1>1, InvCorrect, PTL

\* Friendship is mutual between the handlers that write it, unless an acceptance
\* and a deletion for the same two users overlapped (User_manager.cc:28-43).
THEOREM MutualCorrect == Spec => []AsymmetryNeedsOverlap
<1>1. ASSUME Inv, NEW w \in Users, Half(todo[w])
      PROVE  /\ 1 \in DOMAIN todo[w] /\ todo[w][1].cmd \in {"setUserGroups", "removeUserGroups"}
             /\ Couple(todo[w][1]) = {todo[w][1].who, todo[w][1].other}
  <2>1. PICK s \in Seq(CommandSet) : s = todo[w] /\ s # << >>
    BY <1>1 DEF Inv, TablesOK, Half
  <2>2. Len(s) \in Nat /\ Len(s) # 0 /\ DOMAIN s = 1 .. Len(s)
    BY <2>1, LenProperties, EmptySeq
  <2>3. 1 \in DOMAIN s
    BY <2>2
  <2> QED
    BY <1>1, <2>1, <2>3 DEF Half, Pairing, Couple
<1> DEFINE Writing(u, v) ==
             \E w \in Users : \E i \in DOMAIN todo[w] :
                 /\ todo[w][i].cmd \in {"setUserGroups", "removeUserGroups"}
                 /\ {todo[w][i].who, todo[w][i].other} = {u, v}
<1>2. ASSUME Inv, NEW u, NEW v, NEW w \in Users, Half(todo[w]), Couple(todo[w][1]) = {u, v}
      PROVE  Writing(u, v)
  <2>1. /\ 1 \in DOMAIN todo[w] /\ todo[w][1].cmd \in {"setUserGroups", "removeUserGroups"}
        /\ {todo[w][1].who, todo[w][1].other} = {u, v}
    BY <1>1, <1>2
  <2> WITNESS w \in Users
  <2> QED
    BY <2>1
<1> HIDE DEF Writing
<1>3. Inv => \A u, v \in Users : (u \in friends[v] <=> v \in friends[u]) \/ {u, v} \in mixed \/ Writing(u, v)
  <2> SUFFICES ASSUME Inv, NEW u \in Users, NEW v \in Users,
                      ~\E w \in Users : Half(todo[w]) /\ Couple(todo[w][1]) = {u, v}
               PROVE  (u \in friends[v] <=> v \in friends[u]) \/ {u, v} \in mixed
    BY <1>2
  <2> QED
    BY DEF Inv, MutualOK
<1>4. Inv => AsymmetryNeedsOverlap
  BY <1>3 DEF AsymmetryNeedsOverlap, Writing
<1> QED
  BY <1>4, InvCorrect, PTL

\* Nobody is befriended who has not asked for it, although the server takes the
\* acceptance of any name (connection.cc:1373-1398): a client decides only about
\* names it was sent from the requests in Redis.
THEOREM AskedCorrect == Spec => []AcceptedWereAsked
<1>1. Inv => AcceptedWereAsked
  BY DEF Inv, AskedOK
<1> QED
  BY <1>1, InvCorrect, PTL
=============================================================================
