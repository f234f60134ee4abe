----------------------------- MODULE ChatsProofs -----------------------------
(***************************************************************************)
(* Theorems about Chats, for any number of accounts, workers, messages and *)
(* logins, and any length of a history.                                    *)
(***************************************************************************)
EXTENDS Chats, FiniteSetTheorems, SequenceTheorems, TLAPS

-----------------------------------------------------------------------------
(* The invariant.                                                          *)

Steps == {"idle", "rpush", "ltrim", "members", "users", "file", "dispatch",
          "lrange", "answer"}

\* A worker has a message in hand, and has not begun to look for addressees.
Storing == {"rpush", "ltrim", "members"}
Sending == Storing \cup {"users", "file", "dispatch"}

Works ==
    [by : Users, talk : Talks, msg : Messages \cup {NoMessage}, left : SUBSET Users,
     to : Users, fd : Sessions, window : {0, Recent, Cap}, list : Seq(Messages),
     at : 0 .. MaxMessages + 1]

\* The messages that have been typed.
TypedBy(m, k) == m \in Messages /\ m.by \in Users /\ m.no \in 1 .. k
Typed(m) == TypedBy(m, typed)

\* Types, and what a busy worker knows of the connection it serves.
TablesOK ==
    /\ hist \in [Talks -> Seq(Messages)] /\ pushed \in [Talks -> Seq(Messages)]
    /\ session \in [Users -> Sessions] /\ users \in [Users -> Sessions]
    /\ owner \in [Users -> Workers \cup {NoWorker}]
    /\ screen \in [Users -> Seq(Messages)] /\ listed \in [Users -> SUBSET Messages]
    /\ opened \in [Users -> [Talks -> 0 .. NotOpened]]
    /\ skipped \subseteq Messages \X Group
    /\ fate \subseteq Messages \X Users \X {"screen", "notice", "lost"}
    /\ typed \in 0 .. MaxMessages /\ logins \in 0 .. MaxLogins

WorkOK ==
    /\ pc \in [Workers -> Steps] /\ cur \in [Workers -> Works \cup {NoWork}]
    /\ \A w \in Workers : pc[w] # "idle" =>
          /\ cur[w] \in Works
          /\ cur[w].by \in cur[w].talk
          /\ cur[w].left \subseteq cur[w].talk \ {cur[w].by}
          /\ owner[cur[w].by] = w /\ users[cur[w].by] # 0

OwnerOK == \A u \in Users : users[u] = 0 <=> owner[u] = NoWorker

MessageOK ==
    \A w \in Workers : pc[w] \in Sending =>
        /\ Typed(cur[w].msg)
        /\ cur[w].msg.by = cur[w].by /\ cur[w].msg.talk = cur[w].talk
        /\ pc[w] \in Storing => cur[w].left = cur[w].talk \ {cur[w].by}
        /\ pc[w] = "members" => cur[w].talk = Group
        /\ pc[w] \in {"file", "dispatch"} =>
              cur[w].to \in cur[w].talk \ ({cur[w].by} \cup cur[w].left)

\* No two messages have the same number ...
NumbersOK ==
    \A v, w \in Workers :
        v # w /\ pc[v] \in Sending /\ pc[w] \in Sending => cur[v].msg.no # cur[w].msg.no

\* ... and what is in a history has been typed, but for the first.
PushedOK ==
    \A t \in Talks :
        /\ Len(pushed[t]) >= 1 /\ pushed[t][1] = Old(t)
        /\ \A i \in 2 .. Len(pushed[t]) : Typed(pushed[t][i]) /\ pushed[t][i].talk = t
        /\ \A i, j \in 1 .. Len(pushed[t]) : i < j =>
              /\ pushed[t][i].no # pushed[t][j].no
              /\ pushed[t][i].by = pushed[t][j].by => pushed[t][i].no < pushed[t][j].no
        /\ \A w \in Workers : pc[w] = "rpush" => \A i \in 1 .. Len(pushed[t]) :
              /\ pushed[t][i].no # cur[w].msg.no
              /\ pushed[t][i].by = cur[w].by => pushed[t][i].no < cur[w].msg.no

\* The addressees that a worker has still to see to.
Pending(w, x) ==
    \/ pc[w] \in Storing
    \/ pc[w] \in Sending /\ x \in cur[w].left
    \/ pc[w] \in {"file", "dispatch"} /\ cur[w].to = x

\* On a screen, the messages of one sender come in their order, and what is
\* still to come is younger.
ScreensOK ==
    \A u \in Users :
        /\ \A i \in 1 .. Len(screen[u]) : Typed(screen[u][i])
        /\ \A i, j \in 1 .. Len(screen[u]) :
              i < j /\ screen[u][i].by = screen[u][j].by => screen[u][i].no < screen[u][j].no
        /\ \A w \in Workers : Pending(w, u) => \A i \in 1 .. Len(screen[u]) :
              screen[u][i].by = cur[w].by => screen[u][i].no < cur[w].msg.no

\* A history is the end of all that was pushed.
EndOf(s, t) ==
    /\ Len(s) <= Len(t)
    /\ \A i \in 1 .. Len(s) : s[i] = t[i + (Len(t) - Len(s))]

HistoriesOK ==
    \A t \in Talks :
        /\ EndOf(hist[t], pushed[t])
        /\ Len(hist[t]) >= Cap \/ Len(hist[t]) >= Len(pushed[t])
        /\ Len(hist[t]) <= Cap + Cardinality(Trimming(t))

\* What becomes of a message for an addressee is decided once.
FatesOK ==
    /\ \A f \in fate : Typed(f[1])
    /\ \A f, g \in fate : f[1] = g[1] /\ f[2] = g[2] => f = g
    /\ \A w \in Workers, x \in Users : Pending(w, x) =>
          \A f \in fate : ~(f[1] = cur[w].msg /\ f[2] = x)
    /\ \A t \in Talks : \A i \in 2 .. Len(pushed[t]) : \A x \in t \ {pushed[t][i].by} :
          \/ \E w \in Workers : cur[w].msg = pushed[t][i] /\ Pending(w, x)
          \/ << pushed[t][i], x >> \in skipped
          \/ \E f \in fate : f[1] = pushed[t][i] /\ f[2] = x

\* A client that is connected is the one that users leads to; one that is not
\* has opened nothing.
SessionsOK ==
    \A u \in Users :
        /\ session[u] # 0 => session[u] = users[u]
        /\ session[u] = 0 => \A t \in Talks : opened[u][t] = NotOpened
        /\ \A t \in Talks : opened[u][t] # NotOpened => u \in t

\* A message that was pushed after u had been given a history of k messages is
\* on the screen, or on its way to this connection of u.
Coming(m, u) ==
    \/ m \in ToSet(screen[u])
    \/ << m, u >> \in skipped
    \/ \E w \in Workers :
          /\ cur[w].msg = m
          /\ \/ pc[w] \in {"ltrim", "members"}
             \/ pc[w] \in Sending /\ u \in cur[w].left
             \/ pc[w] = "dispatch" /\ cur[w].to = u /\ cur[w].fd = session[u]

Follows(u, t, k) ==
    \A i \in 1 .. Len(pushed[t]) :
        i > k /\ pushed[t][i].by # u => Coming(pushed[t][i], u)

\* The last messages of the k that were there came with the history.
Shown(t, k, seen) ==
    \A i \in 1 .. Len(pushed[t]) :
        i <= k /\ i + Recent > k => pushed[t][i] \in seen

OpenedOK ==
    /\ \A u \in Users, t \in Talks, k \in 0 .. MaxMessages + 1 :
          session[u] # 0 /\ opened[u][t] = k =>
              /\ k \in 1 .. Len(pushed[t])
              /\ Follows(u, t, k) /\ Shown(t, k, listed[u])
    /\ \A w \in Workers : pc[w] = "lrange" => cur[w].window \in {Recent, Cap}
    /\ \A w \in Workers, u \in Users, t \in Talks, k \in 0 .. MaxMessages + 1 :
          pc[w] = "answer" /\ cur[w].by = u /\ cur[w].talk = t /\ cur[w].at = k =>
              /\ k \in 1 .. Len(pushed[t])
              /\ session[u] # 0 => Follows(u, t, k)
              /\ Shown(t, k, ToSet(cur[w].list))

Inv == /\ TablesOK /\ WorkOK /\ OwnerOK /\ MessageOK /\ NumbersOK /\ PushedOK
       /\ ScreensOK /\ HistoriesOK /\ FatesOK /\ SessionsOK /\ OpenedOK

-----------------------------------------------------------------------------
(* Lists.                                                                  *)

\* The last k elements of a list (RedisClient.cc:118-137).
LEMMA LastsProperties ==
  ASSUME NEW S, NEW s \in Seq(S), NEW k \in Nat
  PROVE  /\ Lasts(s, k) \in Seq(S)
         /\ Len(Lasts(s, k)) = IF Len(s) < k THEN Len(s) ELSE k
         /\ EndOf(Lasts(s, k), s)
<1> DEFINE m == IF Len(s) < k THEN 1 ELSE Len(s) - k + 1
<1>1. Len(s) \in Nat /\ m \in 1 .. Len(s) + 1
  BY LenProperties
<1>2. \A i \in m .. Len(s) : s[i] \in S
  BY <1>1, ElementOfSeq
<1>3. /\ SubSeq(s, m, Len(s)) \in Seq(S)
      /\ Len(SubSeq(s, m, Len(s))) = IF m <= Len(s) THEN Len(s) - m + 1 ELSE 0
      /\ \A i \in 1 .. Len(s) - m + 1 : SubSeq(s, m, Len(s))[i] = s[m + i - 1]
  BY <1>1, <1>2, SubSeqProperties
<1>4. Lasts(s, k) = SubSeq(s, m, Len(s))
  BY DEF Lasts
<1>5. Len(Lasts(s, k)) = IF Len(s) < k THEN Len(s) ELSE k
  <2>1. Len(Lasts(s, k)) = IF m <= Len(s) THEN Len(s) - m + 1 ELSE 0
    BY <1>3, <1>4
  <2>2. CASE Len(s) < k
    <3>1. m = 1
      BY <2>2
    <3> HIDE DEF m
    <3> QED
      BY <1>1, <2>1, <2>2, <3>1
  <2>3. CASE ~(Len(s) < k)
    <3>1. m = Len(s) - k + 1
      BY <2>3
    <3> HIDE DEF m
    <3> QED
      BY <1>1, <2>1, <2>3, <3>1
  <2> QED
    BY <2>2, <2>3
<1>6. \A i \in 1 .. Len(Lasts(s, k)) : Lasts(s, k)[i] = s[m + i - 1]
  BY <1>1, <1>3, <1>4
<1>7. EndOf(Lasts(s, k), s)
  BY <1>1, <1>5, <1>6 DEF EndOf
<1> QED
  BY <1>3, <1>4, <1>5, <1>7

\* Appending to both keeps the end of a list its end.
LEMMA EndOfAppend ==
  ASSUME NEW S, NEW s \in Seq(S), NEW t \in Seq(S), NEW e \in S, EndOf(s, t)
  PROVE  EndOf(Append(s, e), Append(t, e))
<1>1. Len(s) \in Nat /\ Len(t) \in Nat
  BY LenProperties
<1>2. /\ Len(Append(s, e)) = Len(s) + 1 /\ Len(Append(t, e)) = Len(t) + 1
      /\ \A i \in 1 .. Len(s) : Append(s, e)[i] = s[i]
      /\ \A i \in 1 .. Len(t) : Append(t, e)[i] = t[i]
      /\ Append(s, e)[Len(s) + 1] = e /\ Append(t, e)[Len(t) + 1] = e
  BY AppendProperties
<1> QED
  BY <1>1, <1>2 DEF EndOf

LEMMA EndOfTransitive ==
  ASSUME NEW S, NEW r \in Seq(S), NEW s \in Seq(S), NEW t \in Seq(S),
         EndOf(r, s), EndOf(s, t)
  PROVE  EndOf(r, t)
<1>1. Len(r) \in Nat /\ Len(s) \in Nat /\ Len(t) \in Nat
  BY LenProperties
<1>2. ASSUME NEW i \in 1 .. Len(r)
      PROVE  r[i] = t[i + (Len(t) - Len(r))]
  <2>1. r[i] = s[i + (Len(s) - Len(r))] /\ i + (Len(s) - Len(r)) \in 1 .. Len(s)
    BY <1>1 DEF EndOf
  <2>2. s[i + (Len(s) - Len(r))] = t[(i + (Len(s) - Len(r))) + (Len(t) - Len(s))]
    BY <2>1 DEF EndOf
  <2>3. (i + (Len(s) - Len(r))) + (Len(t) - Len(s)) = i + (Len(t) - Len(r))
    BY <1>1
  <2> QED
    BY <2>1, <2>2, <2>3
<1> QED
  BY <1>1, <1>2 DEF EndOf

\* EndOf is the IsSuffix of the community modules.
LEMMA EndOfIsSuffix ==
  ASSUME NEW S, NEW s \in Seq(S), NEW t \in Seq(S), EndOf(s, t)
  PROVE  IsSuffix(s, t)
<1>1. Len(s) \in Nat /\ Len(t) \in Nat /\ Len(s) <= Len(t)
  BY LenProperties DEF EndOf
<1>2. \A i \in 1 .. Len(s) : s[i] \in S
  BY ElementOfSeq
<1>3. /\ Len(Reverse(s)) = Len(s) /\ \A i \in 1 .. Len(s) : Reverse(s)[i] = s[Len(s) - i + 1]
      /\ Len(Reverse(t)) = Len(t) /\ \A i \in 1 .. Len(t) : Reverse(t)[i] = t[Len(t) - i + 1]
  BY <1>1 DEF Reverse
<1>4. ASSUME NEW i \in 1 .. Len(s)
      PROVE  Reverse(s)[i] = Reverse(t)[i] /\ Reverse(s)[i] \in S
  <2>1. Len(s) - i + 1 \in 1 .. Len(s) /\ i \in 1 .. Len(t)
    BY <1>1
  <2>2. s[Len(s) - i + 1] = t[(Len(s) - i + 1) + (Len(t) - Len(s))]
    BY <2>1 DEF EndOf
  <2>3. (Len(s) - i + 1) + (Len(t) - Len(s)) = Len(t) - i + 1
    BY <1>1
  <2> QED
    BY <1>2, <1>3, <2>1, <2>2, <2>3
<1>5. \A i \in 1 .. Len(s) : Reverse(t)[i] \in S
  BY <1>4
<1> DEFINE a == SubSeq(Reverse(s), 1, Len(s))
           b == SubSeq(Reverse(t), 1, Len(s))
<1>6. /\ a \in Seq(S) /\ Len(a) = Len(s)
      /\ \A i \in 1 .. Len(s) : a[i] = Reverse(s)[i]
  BY <1>1, <1>4, SubSeqProperties
<1>7. /\ b \in Seq(S) /\ Len(b) = Len(s)
      /\ \A i \in 1 .. Len(s) : b[i] = Reverse(t)[i]
  BY <1>1, <1>5, SubSeqProperties
<1>8. a = b
  <2>1. \A i \in 1 .. Len(a) : a[i] = b[i]
    BY <1>4, <1>6, <1>7
  <2> QED
    BY <2>1, <1>6, <1>7, SeqEqual
<1> QED
  BY <1>1, <1>3, <1>8 DEF IsSuffix, IsPrefix

-----------------------------------------------------------------------------
(* Types, and the work in hand.                                            *)

LEMMA ConstantTypes ==
  /\ Talks \subseteq SUBSET Users /\ Group \in Talks /\ Group \subseteq Users
  /\ Cap \in Nat \ {0} /\ Recent \in Nat \ {0} /\ Recent <= Cap
  /\ MaxMessages \in Nat /\ MaxLogins \in Nat
  /\ NoWorker \notin Workers /\ NoUser \notin Users /\ IsFiniteSet(Workers)
  BY ChatsAssumption DEF Talks

LEMMA OldIsMessage == \A t \in Talks : Old(t) \in Messages
  BY DEF Messages

\* Each message of a history has a number of its own, so that there are no more
\* of them than were typed.
LEMMA PushedBound ==
  ASSUME TablesOK, PushedOK, NEW t \in Talks
  PROVE  Len(pushed[t]) \in 1 .. typed + 1
<1> DEFINE n == Len(pushed[t])
           f == [i \in 1 .. n |-> pushed[t][i].no]
<1>1. n \in Nat /\ n >= 1 /\ typed \in Nat
  BY ConstantTypes, LenProperties DEF TablesOK, PushedOK
<1>2. \A i \in 1 .. n : pushed[t][i].no \in 0 .. typed
  <2>1. pushed[t][1].no = 0
    <3>1. pushed[t][1] = Old(t)
      BY DEF PushedOK
    <3> QED
      BY <3>1 DEF Old
  <2>2. \A i \in 2 .. n : pushed[t][i].no \in 1 .. typed
    BY DEF PushedOK, Typed, TypedBy
  <2> QED
    BY <1>1, <2>1, <2>2
<1>3. \A i, j \in 1 .. n : i # j => pushed[t][i].no # pushed[t][j].no
  <2>1. \A i, j \in 1 .. n : i < j => pushed[t][i].no # pushed[t][j].no
    BY DEF PushedOK
  <2> QED
    BY <1>1, <2>1
<1>4. f \in Injection(1 .. n, 0 .. typed)
  BY <1>2, <1>3 DEF Injection, IsInjective
<1>5. IsFiniteSet(0 .. typed) /\ Cardinality(0 .. typed) = typed + 1
  BY <1>1, FS_Interval
<1>6. Cardinality(1 .. n) = n
  BY <1>1, FS_Interval
<1>7. Cardinality(1 .. n) <= Cardinality(0 .. typed)
  BY <1>4, <1>5, FS_Injection
<1> QED
  BY <1>1, <1>5, <1>6, <1>7

\* What a worker takes up, and what all the others keep.
LEMMA BeginEffect ==
  ASSUME WorkOK, NEW w \in Workers, NEW at, NEW work, Begin(w, at, work)
  PROVE  /\ pc'[w] = at /\ cur'[w] = IF at = "idle" THEN NoWork ELSE work
         /\ \A v \in Workers \ {w} : pc'[v] = pc[v] /\ cur'[v] = cur[v]
  BY DEF WorkOK, Begin

LEMMA WorkFrame ==
  ASSUME WorkOK, NEW w \in Workers, NEW at \in Steps, NEW work \in Works,
         Begin(w, at, work), UNCHANGED <<users, owner>>,
         work.by \in work.talk, work.left \subseteq work.talk \ {work.by},
         owner[work.by] = w, users[work.by] # 0
  PROVE  WorkOK'
  BY DEF WorkOK, Begin

\* A fresh frame of u is handled by the worker of its connection.
LEMMA FreshWork ==
  ASSUME TablesOK, NEW u \in Users, NEW t \in Talks, NEW m \in Messages \cup {NoMessage},
         NEW k \in {0, Recent, Cap}
  PROVE  /\ Work(u, t, m, k) \in Works
         /\ [Work(u, t, m, k) EXCEPT !.left = t \ {u}] \in Works
<1>1. 0 \in Sessions /\ 0 \in 0 .. MaxMessages + 1 /\ << >> \in Seq(Messages)
  BY ConstantTypes DEF Sessions
<1>2. t \ {u} \in SUBSET Users
  BY ConstantTypes
<1> QED
  BY <1>1, <1>2 DEF Work, Works

LEMMA WorkStep == Inv /\ [Next]_vars => WorkOK'
<1> SUFFICES ASSUME Inv, [Next]_vars PROVE WorkOK'
  OBVIOUS
<1> USE DEF clients, bounds
<1>0. TablesOK /\ WorkOK /\ OwnerOK /\ PushedOK
  BY DEF Inv
<1>1. ASSUME NEW u \in Users, NEW w \in Workers, login(u, w)
      PROVE  WorkOK'
  <2>1. /\ UNCHANGED <<pc, cur>> /\ users[u] = 0
        /\ \A v \in Users \ {u} : users'[v] = users[v] /\ owner'[v] = owner[v]
    BY <1>0, <1>1 DEF login, TablesOK
  <2>2. \A v \in Workers : pc[v] # "idle" => cur[v].by # u /\ cur[v].by \in Users
    BY <1>0, <2>1 DEF WorkOK, Works
  <2> QED
    BY <1>0, <2>1, <2>2 DEF WorkOK
<1>2. ASSUME NEW u \in Users, exit(u)
      PROVE  WorkOK'
  BY <1>0, <1>2 DEF exit, WorkOK
<1>3. ASSUME NEW u \in Users, remove_fd(u)
      PROVE  WorkOK'
  <2>1. /\ UNCHANGED <<pc, cur>> /\ pc[owner[u]] = "idle"
        /\ \A v \in Users \ {u} : users'[v] = users[v] /\ owner'[v] = owner[v]
    BY <1>0, <1>3 DEF remove_fd, TablesOK
  <2>2. \A v \in Workers : pc[v] # "idle" => cur[v].by # u /\ cur[v].by \in Users
    BY <1>0, <2>1 DEF WorkOK, Works
  <2> QED
    BY <1>0, <2>1, <2>2 DEF WorkOK
<1>4. ASSUME NEW w \in Workers, NEW u \in Users, NEW t \in Talks, chat(w, u, t)
      PROVE  WorkOK'
  <2> DEFINE m == [by |-> u, talk |-> t, no |-> typed + 1]
             work == [Work(u, t, m, 0) EXCEPT !.left = t \ {u}]
  <2>1. m \in Messages
    BY <1>0, <1>4, ConstantTypes DEF chat, TablesOK, Messages
  <2>2. work \in Works
    BY <1>0, <2>1, FreshWork
  <2>3. work.by = u /\ work.talk = t /\ work.left = t \ {u}
    BY DEF Work
  <2>4. /\ Begin(w, "rpush", work) /\ UNCHANGED <<users, owner>>
        /\ u \in t /\ owner[u] = w /\ users[u] # 0
    BY <1>4 DEF chat, Takes
  <2>5. "rpush" \in Steps
    BY DEF Steps
  <2> HIDE DEF work
  <2> QED
    BY <1>0, <2>2, <2>3, <2>4, <2>5, WorkFrame
<1>5. ASSUME NEW w \in Workers, NEW at \in Steps, Continue(w, at), pc[w] # "idle",
             UNCHANGED <<users, owner>>
      PROVE  WorkOK'
  BY <1>0, <1>5, WorkFrame DEF WorkOK, Continue
<1>6. ASSUME NEW w \in Workers, rpush(w) \/ ltrim(w) \/ setResKey(w) \/ dispatch(w) \/ answer(w)
      PROVE  WorkOK'
  <2>1. /\ \E at \in Steps : Continue(w, at)
        /\ pc[w] # "idle" /\ UNCHANGED <<users, owner>>
    BY <1>6 DEF rpush, ltrim, setResKey, dispatch, answer, After, Filed, Steps
  <2> QED
    BY <2>1, <1>5
<1>7. ASSUME NEW w \in Workers, getGroupMember(w)
      PROVE  WorkOK'
  <2>1. PICK moving \in SUBSET (Group \ {cur[w].by}) :
          LET left == Group \ ({cur[w].by} \cup moving) IN
          Begin(w, After(left), [cur[w] EXCEPT !.left = left])
    BY <1>7 DEF getGroupMember
  <2> DEFINE left == Group \ ({cur[w].by} \cup moving)
             work == [cur[w] EXCEPT !.left = left]
  <2>2. /\ cur[w] \in Works /\ cur[w].by \in cur[w].talk
        /\ owner[cur[w].by] = w /\ users[cur[w].by] # 0
        /\ cur[w].talk = Group /\ UNCHANGED <<users, owner>>
    BY <1>0, <1>7 DEF getGroupMember, WorkOK, Inv, MessageOK, Sending, Storing
  <2>3. left \in SUBSET Users
    BY ConstantTypes
  <2>4. work \in Works /\ work.by = cur[w].by /\ work.talk = Group /\ work.left = left
    BY <2>2, <2>3 DEF Works
  <2>5. After(left) \in Steps
    BY DEF After, Steps
  <2> QED
    BY <1>0, <2>1, <2>2, <2>4, <2>5, WorkFrame
<1>8. ASSUME NEW w \in Workers, NEW x \in Users, lookup(w, x)
      PROVE  WorkOK'
  <2> DEFINE work == [cur[w] EXCEPT !.to = x, !.fd = users[x], !.left = @ \ {x}]
             at == IF users[x] = 0 THEN "file" ELSE "dispatch"
  <2>1. /\ cur[w] \in Works /\ cur[w].by \in cur[w].talk
        /\ cur[w].left \subseteq cur[w].talk \ {cur[w].by}
        /\ owner[cur[w].by] = w /\ users[cur[w].by] # 0
        /\ users[x] \in Sessions
        /\ Begin(w, at, work) /\ UNCHANGED <<users, owner>>
    BY <1>0, <1>8 DEF lookup, WorkOK, TablesOK
  <2>2. /\ work \in Works /\ work.by = cur[w].by /\ work.talk = cur[w].talk
        /\ work.left = cur[w].left \ {x}
    BY <2>1 DEF Works
  <2>3. at \in Steps
    BY DEF Steps
  <2> QED
    BY <1>0, <2>1, <2>2, <2>3, WorkFrame
<1>9. ASSUME NEW w \in Workers, NEW u \in Users, NEW t \in Talks,
             NEW k \in {Recent, Cap}, open(w, u, t, k)
      PROVE  WorkOK'
  <2> DEFINE work == Work(u, t, NoMessage, k)
  <2>1. work \in Works
    BY <1>0, FreshWork
  <2>2. work.by = u /\ work.talk = t /\ work.left = {}
    BY DEF Work
  <2>3. /\ Begin(w, "lrange", work) /\ UNCHANGED <<users, owner>>
        /\ u \in t /\ owner[u] = w /\ users[u] # 0
    BY <1>9 DEF open, Takes
  <2> QED
    BY <1>0, <2>1, <2>2, <2>3, WorkFrame DEF Steps
<1>10. ASSUME NEW w \in Workers, lrange(w)
       PROVE  WorkOK'
  <2> DEFINE list == Lasts(hist[cur[w].talk], cur[w].window)
             work == [cur[w] EXCEPT !.list = list, !.at = Len(pushed[cur[w].talk])]
  <2>1. /\ cur[w] \in Works /\ cur[w].by \in cur[w].talk
        /\ cur[w].left \subseteq cur[w].talk \ {cur[w].by}
        /\ owner[cur[w].by] = w /\ users[cur[w].by] # 0
        /\ Begin(w, "answer", work) /\ UNCHANGED <<users, owner>>
    BY <1>0, <1>10 DEF lrange, WorkOK
  <2>2. cur[w].talk \in Talks /\ cur[w].window \in Nat
    BY <2>1, ConstantTypes DEF Works
  <2>3. list \in Seq(Messages)
    BY <1>0, <2>2, LastsProperties DEF TablesOK
  <2>4. Len(pushed[cur[w].talk]) \in 0 .. MaxMessages + 1
    BY <1>0, <2>2, PushedBound, ConstantTypes DEF TablesOK
  <2>5. /\ work \in Works /\ work.by = cur[w].by /\ work.talk = cur[w].talk
        /\ work.left = cur[w].left
    BY <2>1, <2>3, <2>4 DEF Works
  <2> QED
    BY <1>0, <2>1, <2>5, WorkFrame DEF Steps
<1>11. CASE UNCHANGED vars
  BY <1>0, <1>11 DEF vars, WorkOK
<1> QED
  BY <1>1, <1>2, <1>3, <1>4, <1>6, <1>7, <1>8, <1>9, <1>10, <1>11 DEF Next, Handler

\* The worker that serves a user is the only one that works for it.
LEMMA OneWorkerEach ==
  ASSUME WorkOK, NEW v \in Workers, NEW w \in Workers,
         pc[v] # "idle", pc[w] # "idle", cur[v].by = cur[w].by
  PROVE  v = w
  BY DEF WorkOK

\* What a worker that sends knows.
LEMMA SendingWork ==
  ASSUME WorkOK, MessageOK, NEW w \in Workers, pc[w] \in Sending
  PROVE  /\ cur[w] \in Works /\ cur[w].by \in Users /\ cur[w].talk \in Talks
         /\ cur[w].to \in Users /\ cur[w].left \in SUBSET Users
         /\ cur[w].msg \in Messages /\ Typed(cur[w].msg)
         /\ cur[w].msg.talk = cur[w].talk /\ cur[w].msg.by = cur[w].by
  BY DEF WorkOK, MessageOK, Works, Typed, TypedBy, Sending, Storing

\* Nobody else loses the worker of its connection.
LEMMA OwnerStep == Inv /\ [Next]_vars => OwnerOK'
<1> SUFFICES ASSUME Inv, [Next]_vars PROVE OwnerOK'
  OBVIOUS
<1>0. TablesOK /\ OwnerOK
  BY DEF Inv
<1> USE DEF clients, bounds
<1>1. ASSUME NEW u \in Users, NEW w \in Workers, login(u, w)
      PROVE  OwnerOK'
  <2>1. /\ users' = [users EXCEPT ![u] = logins + 2] /\ owner' = [owner EXCEPT ![u] = w]
        /\ logins + 2 # 0 /\ w # NoWorker
    BY <1>0, <1>1, ConstantTypes DEF login, TablesOK
  <2> QED
    BY <1>0, <2>1 DEF OwnerOK, TablesOK
<1>2. ASSUME NEW u \in Users, remove_fd(u)
      PROVE  OwnerOK'
  BY <1>0, <1>2 DEF remove_fd, OwnerOK, TablesOK
<1>3. CASE UNCHANGED <<users, owner>>
  BY <1>0, <1>3 DEF OwnerOK
<1>4. ASSUME NEW w \in Workers, Handler(w)
      PROVE  OwnerOK'
  BY <1>3, <1>4 DEF Handler, rpush, ltrim, getGroupMember, lookup, setResKey,
                    dispatch, lrange, answer
<1>5. ASSUME NEW w \in Workers, NEW u \in Users, NEW t \in Talks,
             NEW k \in {Recent, Cap}, chat(w, u, t) \/ open(w, u, t, k)
      PROVE  OwnerOK'
  BY <1>3, <1>5 DEF chat, open
<1>6. CASE UNCHANGED vars
  BY <1>3, <1>6 DEF vars
<1>7. ASSUME NEW u \in Users, exit(u)
      PROVE  OwnerOK'
  BY <1>3, <1>7 DEF exit
<1> QED
  BY <1>1, <1>2, <1>4, <1>5, <1>6, <1>7 DEF Next

LEMMA TablesStep == Inv /\ [Next]_vars => TablesOK'
<1> SUFFICES ASSUME Inv, [Next]_vars PROVE TablesOK'
  OBVIOUS
<1> USE DEF clients, bounds
<1>0. TablesOK /\ WorkOK /\ PushedOK /\ MessageOK
  BY DEF Inv
<1>1. ASSUME NEW u \in Users, NEW w \in Workers, login(u, w)
      PROVE  TablesOK'
  <2>1. logins + 1 \in 0 .. MaxLogins /\ logins + 1 + 1 \in Sessions
    BY <1>0, <1>1, ConstantTypes DEF login, TablesOK, Sessions
  <2> QED
    BY <1>0, <1>1, <2>1 DEF login, TablesOK
<1>2. ASSUME NEW u \in Users, exit(u)
      PROVE  TablesOK'
  <2>1. 0 \in Sessions /\ << >> \in Seq(Messages) /\ NotOpened \in 0 .. NotOpened
    BY ConstantTypes DEF Sessions, NotOpened
  <2>2. [t \in Talks |-> NotOpened] \in [Talks -> 0 .. NotOpened]
    BY <2>1
  <2> QED
    BY <1>0, <1>2, <2>1, <2>2 DEF exit, TablesOK
<1>3. ASSUME NEW u \in Users, remove_fd(u)
      PROVE  TablesOK'
  <2>1. 0 \in Sessions
    BY ConstantTypes DEF Sessions
  <2> QED
    BY <1>0, <1>3, <2>1 DEF remove_fd, TablesOK
<1>4. ASSUME NEW w \in Workers, NEW u \in Users, NEW t \in Talks, chat(w, u, t)
      PROVE  TablesOK'
  <2>1. typed + 1 \in 0 .. MaxMessages
    BY <1>0, <1>4, ConstantTypes DEF chat, TablesOK
  <2> QED
    BY <1>0, <1>4, <2>1 DEF chat, TablesOK
<1>5. ASSUME NEW w \in Workers, rpush(w)
      PROVE  TablesOK'
  <2> DEFINE m == cur[w].msg
             t == cur[w].msg.talk
  <2>1. m \in Messages /\ t \in Talks
    BY <1>0, <1>5, SendingWork DEF rpush, Sending, Storing
  <2>2. Append(hist[t], m) \in Seq(Messages) /\ Append(pushed[t], m) \in Seq(Messages)
    BY <1>0, <2>1, AppendProperties DEF TablesOK
  <2> QED
    BY <1>0, <1>5, <2>1, <2>2 DEF rpush, TablesOK
<1>6. ASSUME NEW w \in Workers, ltrim(w)
      PROVE  TablesOK'
  <2> DEFINE t == cur[w].talk
  <2>1. t \in Talks
    BY <1>0, <1>6, SendingWork DEF ltrim, Sending, Storing
  <2>2. Lasts(hist[t], Cap) \in Seq(Messages)
    BY <1>0, <2>1, LastsProperties, ConstantTypes DEF TablesOK
  <2> QED
    BY <1>0, <1>6, <2>1, <2>2 DEF ltrim, TablesOK
<1>7. ASSUME NEW w \in Workers, getGroupMember(w)
      PROVE  TablesOK'
  <2>1. cur[w].msg \in Messages
    BY <1>0, <1>7, SendingWork DEF getGroupMember, Sending, Storing
  <2>2. PICK moving \in SUBSET (Group \ {cur[w].by}) :
          skipped' = skipped \cup ({cur[w].msg} \X moving)
    BY <1>7 DEF getGroupMember
  <2>3. skipped' \subseteq Messages \X Group
    BY <1>0, <2>1, <2>2 DEF TablesOK
  <2> QED
    BY <1>0, <1>7, <2>3 DEF getGroupMember, TablesOK
<1>8. ASSUME NEW w \in Workers, NEW x \in Users, lookup(w, x)
      PROVE  TablesOK'
  BY <1>0, <1>8 DEF lookup, TablesOK
<1>9. ASSUME NEW w \in Workers, setResKey(w)
      PROVE  TablesOK'
  <2>1. cur[w].msg \in Messages /\ cur[w].to \in Users
    BY <1>0, <1>9, SendingWork DEF setResKey, Sending, Storing
  <2>2. fate' \subseteq Messages \X Users \X {"screen", "notice", "lost"}
    BY <1>0, <1>9, <2>1 DEF setResKey, TablesOK
  <2> QED
    BY <1>0, <1>9, <2>2 DEF setResKey, TablesOK
<1>10. ASSUME NEW w \in Workers, dispatch(w)
       PROVE  TablesOK'
  <2>1. cur[w].msg \in Messages /\ cur[w].to \in Users
    BY <1>0, <1>10, SendingWork DEF dispatch, Sending, Storing
  <2>2. fate' \subseteq Messages \X Users \X {"screen", "notice", "lost"}
    BY <1>0, <1>10, <2>1 DEF dispatch, TablesOK
  <2>3. Append(screen[cur[w].to], cur[w].msg) \in Seq(Messages)
    BY <1>0, <2>1, AppendProperties DEF TablesOK
  <2>4. screen' \in [Users -> Seq(Messages)]
    BY <1>0, <1>10, <2>1, <2>3 DEF dispatch, TablesOK
  <2> QED
    BY <1>0, <1>10, <2>2, <2>4 DEF dispatch, TablesOK
<1>11. ASSUME NEW w \in Workers, NEW u \in Users, NEW t \in Talks,
              NEW k \in {Recent, Cap}, open(w, u, t, k)
       PROVE  TablesOK'
  BY <1>0, <1>11 DEF open, TablesOK
<1>12. ASSUME NEW w \in Workers, lrange(w)
       PROVE  TablesOK'
  BY <1>0, <1>12 DEF lrange, TablesOK
<1>13. ASSUME NEW w \in Workers, answer(w)
       PROVE  TablesOK'
  <2>1. cur[w] \in Works
    BY <1>0, <1>13 DEF answer, WorkOK
  <2>2. /\ cur[w].by \in Users /\ cur[w].talk \in Talks /\ cur[w].list \in Seq(Messages)
        /\ cur[w].at \in 0 .. MaxMessages + 1
    BY <2>1 DEF Works
  <2>6. cur[w].at \in 0 .. NotOpened
    BY <2>2, ConstantTypes DEF NotOpened
  <2>3. ToSet(cur[w].list) \subseteq Messages
    BY <2>2, LenProperties, ElementOfSeq DEF ToSet
  <2>4. listed' \in [Users -> SUBSET Messages]
    <3>1. listed \in [Users -> SUBSET Messages]
      BY <1>0 DEF TablesOK
    <3>2. \/ listed' = listed
          \/ listed' = [listed EXCEPT ![cur[w].by] = @ \cup ToSet(cur[w].list)]
      BY <1>13 DEF answer
    <3> QED
      BY <2>2, <2>3, <3>1, <3>2
  <2>5. opened' \in [Users -> [Talks -> 0 .. NotOpened]]
    <3>1. opened \in [Users -> [Talks -> 0 .. NotOpened]]
      BY <1>0 DEF TablesOK
    <3>2. \/ opened' = opened
          \/ opened' = [opened EXCEPT ![cur[w].by][cur[w].talk] = cur[w].at]
      BY <1>13 DEF answer
    <3>3. [opened[cur[w].by] EXCEPT ![cur[w].talk] = cur[w].at] \in [Talks -> 0 .. NotOpened]
      BY <2>2, <2>6, <3>1
    <3> QED
      BY <2>2, <3>1, <3>2, <3>3
  <2> QED
    BY <1>0, <1>13, <2>4, <2>5 DEF answer, TablesOK
<1>14. CASE UNCHANGED vars
  BY <1>0, <1>14 DEF vars, TablesOK
<1> QED
  BY <1>1, <1>2, <1>3, <1>4, <1>5, <1>6, <1>7, <1>8, <1>9, <1>10, <1>11, <1>12,
     <1>13, <1>14 DEF Next, Handler

-----------------------------------------------------------------------------
(* Messages in hand.                                                       *)

\* What a step leaves of a message in hand: a worker that does not begin with a
\* new message goes on with the one it has, for no more addressees.
GoesOn(w) ==
    pc'[w] \in Sending =>
        /\ pc[w] \in Sending /\ (pc'[w] = "rpush" => pc[w] = "rpush")
        /\ cur'[w].msg = cur[w].msg /\ cur'[w].by = cur[w].by
        /\ cur'[w].talk = cur[w].talk
        /\ \A x \in Users : Pending(w, x)' => Pending(w, x)

Begins(w, u, t) ==
    /\ pc'[w] = "rpush" /\ pc[w] = "idle" /\ cur'[w].by = u /\ cur'[w].talk = t
    /\ cur'[w].msg = [by |-> u, talk |-> t, no |-> typed + 1]
    /\ cur'[w].left = t \ {u}
    /\ u \in Users /\ t \in Talks /\ u \in t
    /\ typed' = typed + 1 /\ typed' \in 1 .. MaxMessages
    /\ \A v \in Workers \ {w} : GoesOn(v)
    /\ UNCHANGED <<hist, pushed, screen, skipped, fate, session, users>>

Stays(w) == pc'[w] = pc[w] /\ cur'[w] = cur[w]

LEMMA StaysGoesOn == \A w \in Workers : Stays(w) => GoesOn(w)
  BY DEF Stays, GoesOn, Pending

\* The first step of a message, and all the others.
LEMMA MessageMoves ==
  ASSUME Inv, [Next]_vars
  PROVE  \/ \E w \in Workers, u \in Users, t \in Talks : chat(w, u, t) /\ Begins(w, u, t)
         \/ typed' = typed /\ \A w \in Workers : GoesOn(w)
<1> USE DEF clients, bounds
<1>0. TablesOK /\ WorkOK /\ MessageOK
  BY DEF Inv
<1>1. ASSUME NEW w \in Workers, NEW u \in Users, NEW t \in Talks, chat(w, u, t)
      PROVE  Begins(w, u, t)
  <2> DEFINE m == [by |-> u, talk |-> t, no |-> typed + 1]
             work == [Work(u, t, m, 0) EXCEPT !.left = t \ {u}]
  <2>1. Begin(w, "rpush", work) /\ pc[w] = "idle" /\ u \in t
    BY <1>1 DEF chat, Takes
  <2>2. work.by = u /\ work.talk = t /\ work.left = t \ {u} /\ work.msg = m
    BY DEF Work
  <2>3. pc'[w] = "rpush" /\ cur'[w] = work /\ \A v \in Workers \ {w} : Stays(v)
    BY <1>0, <2>1, BeginEffect DEF Stays
  <2>4. typed' = typed + 1 /\ typed' \in 1 .. MaxMessages
    BY <1>0, <1>1, ConstantTypes DEF chat, TablesOK
  <2>5. UNCHANGED <<hist, pushed, screen, skipped, fate, session, users>>
    BY <1>1 DEF chat
  <2> HIDE DEF work
  <2> QED
    BY <2>1, <2>2, <2>3, <2>4, <2>5, StaysGoesOn DEF Begins
<1> DEFINE Rest == typed' = typed /\ \A w \in Workers : GoesOn(w)
<1>2. ASSUME NEW w \in Workers, NEW at, NEW work, Begin(w, at, work), typed' = typed,
             at \in Sending => /\ pc[w] \in Sending /\ at # "rpush"
                               /\ work.msg = cur[w].msg /\ work.by = cur[w].by
                               /\ work.talk = cur[w].talk
                               /\ \A x \in Users \ work.left :
                                    at \in {"file", "dispatch"} /\ work.to = x =>
                                        Pending(w, x)
                               /\ \A x \in Users : at \in Storing \/ x \in work.left =>
                                        Pending(w, x)
      PROVE  Rest
  <2>1. /\ pc'[w] = at /\ cur'[w] = IF at = "idle" THEN NoWork ELSE work
        /\ \A v \in Workers \ {w} : Stays(v)
    BY <1>0, <1>2, BeginEffect DEF Stays
  <2>2. GoesOn(w)
    BY <1>2, <2>1 DEF GoesOn, Pending, Sending, Storing
  <2> QED
    BY <1>2, <2>1, <2>2, StaysGoesOn
<1>3. ASSUME NEW w \in Workers, rpush(w) \/ ltrim(w)
      PROVE  Rest
  <2>1. PICK at \in {"ltrim", "members", "users"} : Begin(w, at, cur[w])
    BY <1>3 DEF rpush, ltrim, Continue
  <2>2. typed' = typed /\ pc[w] \in Storing
    BY <1>3 DEF rpush, ltrim, Storing
  <2> QED
    BY <2>1, <2>2, <1>2 DEF Sending, Storing, Pending
<1>4. ASSUME NEW w \in Workers, getGroupMember(w)
      PROVE  Rest
  <2>1. PICK moving \in SUBSET (Group \ {cur[w].by}) :
          LET left == Group \ ({cur[w].by} \cup moving) IN
          Begin(w, After(left), [cur[w] EXCEPT !.left = left])
    BY <1>4 DEF getGroupMember
  <2> DEFINE left == Group \ ({cur[w].by} \cup moving)
             work == [cur[w] EXCEPT !.left = left]
  <2>2. typed' = typed /\ pc[w] = "members" /\ cur[w] \in Works
    BY <1>0, <1>4 DEF getGroupMember, WorkOK
  <2>3. work.msg = cur[w].msg /\ work.by = cur[w].by /\ work.talk = cur[w].talk
    BY <2>2 DEF Works
  <2>4. After(left) \in {"idle", "users"}
    BY DEF After
  <2>5. \A x \in Users : Pending(w, x)
    BY <2>2 DEF Pending, Storing
  <2> QED
    BY <2>1, <2>2, <2>3, <2>4, <2>5, <1>2 DEF Sending, Storing
<1>5. ASSUME NEW w \in Workers, NEW x \in Users, lookup(w, x)
      PROVE  Rest
  <2> DEFINE work == [cur[w] EXCEPT !.to = x, !.fd = users[x], !.left = @ \ {x}]
             at == IF users[x] = 0 THEN "file" ELSE "dispatch"
  <2>1. /\ Begin(w, at, work) /\ typed' = typed /\ pc[w] = "users"
        /\ cur[w] \in Works /\ x \in cur[w].left
    BY <1>0, <1>5 DEF lookup, WorkOK
  <2>2. /\ work.msg = cur[w].msg /\ work.by = cur[w].by /\ work.talk = cur[w].talk
        /\ work.left = cur[w].left \ {x} /\ work.to = x
    BY <2>1 DEF Works
  <2>3. \A y \in cur[w].left : Pending(w, y)
    BY <2>1 DEF Pending, Sending
  <2>4. at \in {"file", "dispatch"}
    OBVIOUS
  <2> QED
    BY <2>1, <2>2, <2>3, <2>4, <1>2 DEF Sending, Storing
<1>6. ASSUME NEW w \in Workers, setResKey(w) \/ dispatch(w)
      PROVE  Rest
  <2>1. /\ Begin(w, After(cur[w].left), cur[w]) /\ typed' = typed
        /\ pc[w] \in {"file", "dispatch"}
    BY <1>6 DEF setResKey, dispatch, Continue, Filed
  <2>2. After(cur[w].left) \in {"idle", "users"}
    BY DEF After
  <2>3. \A y \in cur[w].left : Pending(w, y)
    BY <2>1 DEF Pending, Sending
  <2> QED
    BY <2>1, <2>2, <2>3, <1>2 DEF Sending, Storing
<1>7. ASSUME NEW w \in Workers, NEW u \in Users, NEW t \in Talks,
             NEW k \in {Recent, Cap}, open(w, u, t, k)
      PROVE  Rest
  BY <1>2, <1>7 DEF open, Sending, Storing
<1>8. ASSUME NEW w \in Workers, lrange(w) \/ answer(w)
      PROVE  Rest
  <2>1. /\ typed' = typed
        /\ \E at \in {"answer", "idle"} : \E work : Begin(w, at, work)
    BY <1>8 DEF lrange, answer, Continue
  <2> QED
    BY <1>2, <2>1 DEF Sending, Storing
<1>9. ASSUME UNCHANGED <<pc, cur, typed>>
      PROVE  Rest
  BY <1>9, StaysGoesOn DEF Stays
<1>10. ASSUME NEW u \in Users, NEW w \in Workers, login(u, w)
       PROVE  Rest
  BY <1>9, <1>10 DEF login
<1>11. ASSUME NEW u \in Users, exit(u) \/ remove_fd(u)
       PROVE  Rest
  BY <1>9, <1>11 DEF exit, remove_fd
<1>12. ASSUME UNCHANGED vars
       PROVE  Rest
  BY <1>9, <1>12 DEF vars
<1> HIDE DEF Rest
<1>13. ASSUME \A w \in Workers, u \in Users, t \in Talks : ~chat(w, u, t)
       PROVE  Rest
  <2>1. ASSUME NEW w \in Workers, Handler(w)
        PROVE  Rest
    BY <2>1, <1>3, <1>4, <1>5, <1>6, <1>8 DEF Handler
  <2> QED
    BY <2>1, <1>7, <1>10, <1>11, <1>12, <1>13 DEF Next
<1> QED
  BY <1>1, <1>13 DEF Rest

\* A message in hand is its sender's, and goes to those who are left.
LEMMA MessageStep == Inv /\ [Next]_vars => MessageOK'
<1> SUFFICES ASSUME Inv, [Next]_vars PROVE MessageOK'
  OBVIOUS
<1> USE DEF clients, bounds
<1>0. TablesOK /\ WorkOK /\ MessageOK
  BY DEF Inv
<1>1. \A m : Typed(m) => TypedBy(m, typed')
  <2>1. typed \in Nat
    BY <1>0, ConstantTypes DEF TablesOK
  <2>2. typed' = typed \/ typed' = typed + 1
    <3>1. CASE \E w \in Workers, u \in Users, t \in Talks : Begins(w, u, t)
      BY <3>1 DEF Begins
    <3> QED
      BY <3>1, MessageMoves
  <2> QED
    BY <2>1, <2>2 DEF Typed, TypedBy
<1> DEFINE Good(w) ==
             pc[w] \in Sending =>
               /\ Typed(cur[w].msg)
               /\ cur[w].msg.by = cur[w].by /\ cur[w].msg.talk = cur[w].talk
               /\ pc[w] \in Storing => cur[w].left = cur[w].talk \ {cur[w].by}
               /\ pc[w] = "members" => cur[w].talk = Group
               /\ pc[w] \in {"file", "dispatch"} =>
                     cur[w].to \in cur[w].talk \ ({cur[w].by} \cup cur[w].left)
<1>2. \A w \in Workers : Good(w)
  BY <1>0 DEF MessageOK
<1>3. \A w \in Workers : Stays(w) => Good(w)'
  BY <1>1, <1>2 DEF Stays, Typed
<1>4. ASSUME NEW w \in Workers, NEW at, NEW work, Begin(w, at, work),
             pc'[w] = at /\ (at # "idle" => cur'[w] = work) => Good(w)'
      PROVE  \A v \in Workers : Good(v)'
  <2>1. /\ pc'[w] = at /\ (at # "idle" => cur'[w] = work)
        /\ \A v \in Workers \ {w} : Stays(v)
    BY <1>0, <1>4, BeginEffect DEF Stays
  <2> HIDE DEF Good
  <2> QED
    BY <1>3, <1>4, <2>1
<1> DEFINE All == \A v \in Workers : Good(v)'
<1>5. ASSUME NEW w \in Workers, NEW u \in Users, NEW t \in Talks, chat(w, u, t)
      PROVE  All
  <2> DEFINE m == [by |-> u, talk |-> t, no |-> typed + 1]
             work == [Work(u, t, m, 0) EXCEPT !.left = t \ {u}]
  <2>1. work.by = u /\ work.talk = t /\ work.left = t \ {u} /\ work.msg = m
    BY DEF Work
  <2>2. typed' = typed + 1 /\ typed' \in 1 .. MaxMessages
    BY <1>0, <1>5, ConstantTypes DEF chat, TablesOK
  <2>6. typed + 1 \in 1 .. MaxMessages /\ typed' \in 1 .. typed'
    BY <2>2, ConstantTypes
  <2>7. m \in Messages
    BY <2>6 DEF Messages
  <2>8. m.by = u /\ m.no = typed'
    BY <2>2
  <2>3. TypedBy(m, typed')
    BY <2>6, <2>7, <2>8 DEF TypedBy
  <2>4. Begin(w, "rpush", work)
    BY <1>5 DEF chat
  <2>5. pc'[w] = "rpush" /\ cur'[w] = work => Good(w)'
    <3>1. m.by = u /\ m.talk = t
      OBVIOUS
    <3> HIDE DEF m, work
    <3> QED
      BY <2>1, <2>3, <3>1 DEF Storing, Sending, Typed
  <2> HIDE DEF work, Good
  <2> QED
    BY <2>4, <2>5, <1>4
<1>6. ASSUME NEW w \in Workers, rpush(w) \/ ltrim(w) \/ setResKey(w) \/ dispatch(w)
      PROVE  All
  <2>1. PICK at : /\ Begin(w, at, cur[w])
                  /\ at \in {"idle", "users", "ltrim", "members"}
                  /\ at \in Storing => pc[w] \in Storing
                  /\ at = "members" => cur[w].talk = Group
    BY <1>6 DEF rpush, ltrim, setResKey, dispatch, Continue, Filed, After, Storing
  <2>2. pc[w] \in Sending
    BY <1>6 DEF rpush, ltrim, setResKey, dispatch, Sending, Storing
  <2>3. TypedBy(cur[w].msg, typed')
    <3>1. Typed(cur[w].msg)
      BY <1>2, <2>2
    <3> QED
      BY <1>1, <3>1
  <2>4. pc'[w] = at /\ (at # "idle" => cur'[w] = cur[w]) => Good(w)'
    BY <1>2, <2>1, <2>2, <2>3 DEF Sending, Storing, Typed
  <2> HIDE DEF Good
  <2> QED
    BY <1>4, <2>1, <2>4
<1>7. ASSUME NEW w \in Workers, getGroupMember(w)
      PROVE  All
  <2>1. PICK moving \in SUBSET (Group \ {cur[w].by}) :
          LET left == Group \ ({cur[w].by} \cup moving) IN
          Begin(w, After(left), [cur[w] EXCEPT !.left = left])
    BY <1>7 DEF getGroupMember
  <2> DEFINE left == Group \ ({cur[w].by} \cup moving)
             work == [cur[w] EXCEPT !.left = left]
  <2>2. pc[w] = "members" /\ cur[w] \in Works
    BY <1>0, <1>7 DEF getGroupMember, WorkOK
  <2>3. work.msg = cur[w].msg /\ work.by = cur[w].by /\ work.talk = cur[w].talk
    BY <2>2 DEF Works
  <2>4. After(left) \in {"idle", "users"}
    BY DEF After
  <2>5. pc'[w] = After(left) /\ (After(left) # "idle" => cur'[w] = work) => Good(w)'
    BY <1>1, <1>2, <2>2, <2>3, <2>4 DEF Sending, Storing, Typed
  <2> HIDE DEF Good
  <2> QED
    BY <1>4, <2>1, <2>5
<1>8. ASSUME NEW w \in Workers, NEW x \in Users, lookup(w, x)
      PROVE  All
  <2> DEFINE work == [cur[w] EXCEPT !.to = x, !.fd = users[x], !.left = @ \ {x}]
             at == IF users[x] = 0 THEN "file" ELSE "dispatch"
  <2>1. /\ Begin(w, at, work) /\ pc[w] = "users" /\ cur[w] \in Works /\ x \in cur[w].left
        /\ cur[w].left \subseteq cur[w].talk \ {cur[w].by}
    BY <1>0, <1>8 DEF lookup, WorkOK
  <2>2. /\ work.msg = cur[w].msg /\ work.by = cur[w].by /\ work.talk = cur[w].talk
        /\ work.left = cur[w].left \ {x} /\ work.to = x
    BY <2>1 DEF Works
  <2>3. at \in {"file", "dispatch"}
    OBVIOUS
  <2>4. pc'[w] = at /\ (at # "idle" => cur'[w] = work) => Good(w)'
    <3>1. TypedBy(cur[w].msg, typed') /\ cur[w].msg.by = cur[w].by /\ cur[w].msg.talk = cur[w].talk
      BY <1>1, <1>2, <2>1 DEF Sending
    <3>2. work.to \in work.talk \ ({work.by} \cup work.left)
      BY <2>1, <2>2
    <3> HIDE DEF work, at
    <3> QED
      BY <2>2, <2>3, <3>1, <3>2 DEF Sending, Storing, Typed
  <2> HIDE DEF Good, work, at
  <2> QED
    BY <1>4, <2>1, <2>4
<1>9. ASSUME NEW w \in Workers, NEW at, NEW work, Begin(w, at, work), at \notin Sending
      PROVE  All
  <2>1. pc'[w] = at => Good(w)'
    BY <1>9
  <2> HIDE DEF Good
  <2> QED
    BY <1>4, <1>9, <2>1
<1>10. ASSUME NEW w \in Workers, lrange(w) \/ answer(w)
       PROVE  All
  <2>1. \E at \in {"answer", "idle"} : \E work : Begin(w, at, work)
    BY <1>10 DEF lrange, answer, Continue
  <2> HIDE DEF Good
  <2> QED
    BY <1>9, <2>1 DEF Sending, Storing
<1>11. ASSUME NEW w \in Workers, NEW u \in Users, NEW t \in Talks,
              NEW k \in {Recent, Cap}, open(w, u, t, k)
       PROVE  All
  <2>1. Begin(w, "lrange", Work(u, t, NoMessage, k))
    BY <1>11 DEF open
  <2> HIDE DEF Good
  <2> QED
    BY <1>9, <2>1 DEF Sending, Storing
<1>12. ASSUME UNCHANGED <<pc, cur>>
       PROVE  All
  <2>1. \A v \in Workers : Stays(v)
    BY <1>12 DEF Stays
  <2> HIDE DEF Good
  <2> QED
    BY <1>3, <2>1
<1> HIDE DEF Good
<1>13. ASSUME NEW u \in Users, NEW w \in Workers, login(u, w)
       PROVE  All
  BY <1>12, <1>13 DEF login
<1>15. ASSUME NEW u \in Users, exit(u) \/ remove_fd(u)
       PROVE  All
  BY <1>12, <1>15 DEF exit, remove_fd
<1>14. All
  <2>1. ASSUME NEW w \in Workers, Handler(w)
        PROVE  All
    BY <2>1, <1>6, <1>7, <1>8, <1>10 DEF Handler
  <2>2. ASSUME UNCHANGED vars
        PROVE  All
    BY <1>12, <2>2 DEF vars
  <2> QED
    BY <2>1, <2>2, <1>5, <1>11, <1>13, <1>15 DEF Next
<1> QED
  BY <1>14 DEF Good, MessageOK

\* Which steps write what.
LEMMA Writers ==
  ASSUME [Next]_vars
  PROVE  /\ pushed' = pushed \/ \E w \in Workers : rpush(w)
         /\ hist' = hist \/ \E w \in Workers : rpush(w) \/ ltrim(w)
         /\ \/ screen' = screen
            \/ \E w \in Workers : dispatch(w)
            \/ \E u \in Users : exit(u)
         /\ fate' = fate \/ \E w \in Workers : setResKey(w) \/ dispatch(w)
         /\ skipped \subseteq skipped'
<1> USE DEF clients, bounds
<1> DEFINE F == /\ pushed' = pushed \/ \E w \in Workers : rpush(w)
                /\ hist' = hist \/ \E w \in Workers : rpush(w) \/ ltrim(w)
                /\ \/ screen' = screen
                   \/ \E w \in Workers : dispatch(w)
                   \/ \E u \in Users : exit(u)
                /\ fate' = fate \/ \E w \in Workers : setResKey(w) \/ dispatch(w)
                /\ skipped \subseteq skipped'
<1>1. ASSUME NEW w \in Workers, rpush(w) \/ ltrim(w) \/ setResKey(w) \/ dispatch(w)
      PROVE  F
  <2>1. CASE rpush(w)
    BY <2>1 DEF rpush
  <2>2. CASE ltrim(w)
    BY <2>2 DEF ltrim
  <2>3. CASE setResKey(w)
    BY <2>3 DEF setResKey
  <2>4. CASE dispatch(w)
    BY <2>4 DEF dispatch
  <2> QED
    BY <1>1, <2>1, <2>2, <2>3, <2>4
<1>2. ASSUME NEW u \in Users, exit(u)
      PROVE  F
  BY <1>2 DEF exit
<1>3. ASSUME UNCHANGED <<pushed, hist, screen, fate>>, skipped \subseteq skipped'
      PROVE  F
  BY <1>3
<1>4. ASSUME NEW w \in Workers, getGroupMember(w) \/ lrange(w) \/ answer(w)
      PROVE  F
  BY <1>3, <1>4 DEF getGroupMember, lrange, answer
<1>5. ASSUME NEW w \in Workers, NEW x \in Users, lookup(w, x)
      PROVE  F
  BY <1>3, <1>5 DEF lookup
<1>6. ASSUME NEW u \in Users, remove_fd(u)
      PROVE  F
  BY <1>3, <1>6 DEF remove_fd
<1>7. ASSUME NEW u \in Users, NEW w \in Workers, login(u, w)
      PROVE  F
  BY <1>3, <1>7 DEF login
<1>8. ASSUME NEW w \in Workers, NEW u \in Users, NEW t \in Talks,
             NEW k \in {Recent, Cap}, chat(w, u, t) \/ open(w, u, t, k)
      PROVE  F
  BY <1>3, <1>8 DEF chat, open
<1>9. ASSUME UNCHANGED vars
      PROVE  F
  BY <1>3, <1>9 DEF vars
<1>10. ASSUME NEW w \in Workers, NEW u \in Users, NEW t \in Talks, chat(w, u, t)
       PROVE  F
  BY <1>3, <1>10 DEF chat
<1> HIDE DEF F
<1>11. ASSUME NEW w \in Workers, Handler(w)
       PROVE  F
  BY <1>11, <1>1, <1>4, <1>5 DEF Handler
<1>12. F
  BY <1>2, <1>6, <1>7, <1>8, <1>9, <1>10, <1>11 DEF Next
<1> QED
  BY <1>12 DEF F

\* The order in which two workers push messages does not matter to a sender:
\* it is served by one of them.
LEMMA NumbersStep == Inv /\ [Next]_vars => NumbersOK'
<1> SUFFICES ASSUME Inv, [Next]_vars PROVE NumbersOK'
  OBVIOUS
<1>0. NumbersOK /\ MessageOK /\ typed \in Nat
  BY ConstantTypes DEF Inv, TablesOK
<1>1. \A w \in Workers : pc[w] \in Sending => cur[w].msg.no \in 1 .. typed
  BY <1>0 DEF MessageOK, Typed, TypedBy
<1>2. CASE \E w \in Workers, u \in Users, t \in Talks : Begins(w, u, t)
  <2>1. PICK w \in Workers : \E u \in Users, t \in Talks : Begins(w, u, t)
    BY <1>2
  <2>2. /\ cur'[w].msg.no = typed + 1
        /\ \A v \in Workers \ {w} : GoesOn(v)
    BY <2>1 DEF Begins
  <2>3. \A v \in Workers \ {w} : pc'[v] \in Sending =>
           pc[v] \in Sending /\ cur'[v].msg = cur[v].msg
    BY <2>2 DEF GoesOn
  <2> QED
    BY <1>0, <1>1, <2>2, <2>3 DEF NumbersOK
<1>3. CASE \A w \in Workers : GoesOn(w)
  BY <1>0, <1>3 DEF NumbersOK, GoesOn
<1> QED
  BY <1>2, <1>3, MessageMoves

LEMMA PushedStep == Inv /\ [Next]_vars => PushedOK'
<1> SUFFICES ASSUME Inv, [Next]_vars PROVE PushedOK'
  OBVIOUS
<1>0. /\ TablesOK /\ WorkOK /\ MessageOK /\ NumbersOK /\ PushedOK /\ typed \in Nat
      /\ MessageOK'
  BY ConstantTypes, MessageStep DEF Inv, TablesOK
<1>1. \A m : Typed(m) => TypedBy(m, typed')
  <2>1. typed' = typed \/ typed' = typed + 1
    <3>1. CASE \E w \in Workers, u \in Users, t \in Talks : Begins(w, u, t)
      BY <3>1 DEF Begins
    <3> QED
      BY <3>1, MessageMoves
  <2> QED
    BY <1>0, <2>1 DEF Typed, TypedBy
<1> SUFFICES ASSUME NEW t \in Talks
             PROVE  /\ Len(pushed'[t]) >= 1 /\ pushed'[t][1] = Old(t)
                    /\ \A i \in 2 .. Len(pushed'[t]) :
                          TypedBy(pushed'[t][i], typed') /\ pushed'[t][i].talk = t
                    /\ \A i, j \in 1 .. Len(pushed'[t]) : i < j =>
                          /\ pushed'[t][i].no # pushed'[t][j].no
                          /\ pushed'[t][i].by = pushed'[t][j].by =>
                                pushed'[t][i].no < pushed'[t][j].no
                    /\ \A w \in Workers : pc'[w] = "rpush" =>
                          \A i \in 1 .. Len(pushed'[t]) :
                             /\ pushed'[t][i].no # cur'[w].msg.no
                             /\ pushed'[t][i].by = cur'[w].by =>
                                   pushed'[t][i].no < cur'[w].msg.no
  BY DEF PushedOK, Typed
<1> DEFINE p == pushed[t]
           n == Len(p)
<1>2. /\ p \in Seq(Messages) /\ n \in Nat /\ n >= 1 /\ p[1] = Old(t)
      /\ \A i \in 2 .. n : Typed(p[i]) /\ p[i].talk = t
      /\ \A i, j \in 1 .. n : i < j =>
            p[i].no # p[j].no /\ (p[i].by = p[j].by => p[i].no < p[j].no)
      /\ \A w \in Workers : pc[w] = "rpush" => \A i \in 1 .. n :
            p[i].no # cur[w].msg.no /\ (p[i].by = cur[w].by => p[i].no < cur[w].msg.no)
  BY <1>0, LenProperties DEF PushedOK, TablesOK
<1>3. \A i \in 1 .. n : p[i].no \in 0 .. typed
  <2>1. p[1].no = 0
    BY <1>2 DEF Old
  <2>2. \A i \in 2 .. n : p[i].no \in 1 .. typed
    BY <1>2 DEF Typed, TypedBy
  <2> QED
    BY <1>0, <1>2, <2>1, <2>2
<1>4. CASE pushed'[t] = pushed[t]
  <2>1. \A w \in Workers : pc'[w] = "rpush" => \A i \in 1 .. n :
          p[i].no # cur'[w].msg.no /\ (p[i].by = cur'[w].by => p[i].no < cur'[w].msg.no)
    <3>1. ASSUME NEW w \in Workers, pc'[w] = "rpush", GoesOn(w)
          PROVE  /\ pc[w] = "rpush" /\ cur'[w].msg = cur[w].msg /\ cur'[w].by = cur[w].by
      BY <3>1 DEF GoesOn, Sending, Storing
    <3>2. ASSUME NEW w \in Workers, pc'[w] = "rpush",
                 NEW u \in Users, NEW s \in Talks, Begins(w, u, s)
          PROVE  cur'[w].msg.no = typed + 1
      BY <3>2 DEF Begins
    <3>3. \A w \in Workers : GoesOn(w) \/ \E u \in Users, s \in Talks : Begins(w, u, s)
      BY MessageMoves DEF Begins
    <3> QED
      BY <1>0, <1>2, <1>3, <3>1, <3>2, <3>3
  <2> QED
    BY <1>1, <1>2, <1>4, <2>1
<1>5. ASSUME NEW w \in Workers, rpush(w), cur[w].msg.talk = t
      PROVE  pushed'[t] = Append(p, cur[w].msg)
  BY <1>0, <1>5 DEF rpush, TablesOK
<1>6. ASSUME NEW w \in Workers, rpush(w), cur[w].msg.talk # t
      PROVE  pushed'[t] = p
  BY <1>0, <1>6, SendingWork DEF rpush, TablesOK, Sending, Storing
<1>7. ASSUME NEW w \in Workers, rpush(w), cur[w].msg.talk = t,
             NEW v \in Workers, pc'[v] = "rpush"
      PROVE  v # w /\ pc[v] = "rpush" /\ cur'[v] = cur[v]
  BY <1>0, <1>7, BeginEffect DEF rpush, Continue
<1>8. ASSUME NEW w \in Workers, rpush(w), cur[w].msg.talk = t
      PROVE  /\ Len(pushed'[t]) >= 1 /\ pushed'[t][1] = Old(t)
             /\ \A i \in 2 .. Len(pushed'[t]) :
                   TypedBy(pushed'[t][i], typed') /\ pushed'[t][i].talk = t
             /\ \A i, j \in 1 .. Len(pushed'[t]) : i < j =>
                   /\ pushed'[t][i].no # pushed'[t][j].no
                   /\ pushed'[t][i].by = pushed'[t][j].by =>
                         pushed'[t][i].no < pushed'[t][j].no
             /\ \A v \in Workers : pc'[v] = "rpush" =>
                   \A i \in 1 .. Len(pushed'[t]) :
                      /\ pushed'[t][i].no # cur'[v].msg.no
                      /\ pushed'[t][i].by = cur'[v].by =>
                            pushed'[t][i].no < cur'[v].msg.no
  <2> DEFINE m == cur[w].msg
             q == pushed'[t]
  <2>1. pc[w] = "rpush" /\ m \in Messages /\ Typed(m) /\ m.by = cur[w].by
    BY <1>0, <1>8, SendingWork DEF rpush, Sending, Storing
  <2>2. /\ Len(q) = n + 1 /\ q[n + 1] = m
        /\ \A i \in 1 .. n : q[i] = p[i]
    BY <1>2, <1>5, <1>8, <2>1, AppendProperties
  <2>3. \A i \in 1 .. n : p[i].no # m.no /\ (p[i].by = m.by => p[i].no < m.no)
    BY <1>2, <2>1
  <2>4. ASSUME NEW v \in Workers, pc'[v] = "rpush"
        PROVE  \A i \in 1 .. Len(q) :
                 q[i].no # cur'[v].msg.no /\ (q[i].by = cur'[v].by => q[i].no < cur'[v].msg.no)
    <3>1. v # w /\ pc[v] = "rpush" /\ cur'[v] = cur[v]
      BY <1>7, <1>8, <2>4
    <3>2. m.no # cur[v].msg.no
      BY <1>0, <2>1, <3>1 DEF NumbersOK, Sending, Storing
    <3>3. m.by # cur[v].by
      BY <1>0, <2>1, <3>1, OneWorkerEach
    <3>4. \A i \in 1 .. n : p[i].no # cur[v].msg.no
                         /\ (p[i].by = cur[v].by => p[i].no < cur[v].msg.no)
      BY <1>2, <3>1
    <3>5. cur'[v].msg = cur[v].msg /\ cur'[v].by = cur[v].by
      BY <3>1
    <3>6. ASSUME NEW i \in 1 .. Len(q)
          PROVE  q[i].no # cur[v].msg.no /\ (q[i].by = cur[v].by => q[i].no < cur[v].msg.no)
      <4>1. i \in 1 .. n \/ i = n + 1
        BY <1>2, <2>2
      <4>2. CASE i \in 1 .. n
        BY <2>2, <3>4, <4>2
      <4>3. CASE i = n + 1
        BY <2>2, <3>2, <3>3, <4>3
      <4> QED
        BY <4>1, <4>2, <4>3
    <3> HIDE DEF q
    <3> QED
      BY <3>5, <3>6
  <2>5. \A i \in 2 .. Len(q) : TypedBy(q[i], typed') /\ q[i].talk = t
    <3> HIDE DEF p, n, q, m
    <3>1. \A i \in 2 .. Len(q) : (i \in 2 .. n /\ q[i] = p[i]) \/ q[i] = m
      BY <1>2, <2>2
    <3>2. m.talk = t
      BY <1>8 DEF m
    <3> QED
      BY <1>1, <1>2, <2>1, <3>1, <3>2
  <2>6. \A i, j \in 1 .. Len(q) : i < j =>
          q[i].no # q[j].no /\ (q[i].by = q[j].by => q[i].no < q[j].no)
    <3> HIDE DEF p, n, q, m
    <3> QED
      BY <1>2, <2>2, <2>3
  <2> QED
    BY <1>2, <2>2, <2>4, <2>5, <2>6
<1>9. CASE \E w \in Workers : rpush(w)
  <2>1. PICK w \in Workers : rpush(w)
    BY <1>9
  <2> QED
    BY <2>1, <1>4, <1>6, <1>8
<1> QED
  BY <1>4, <1>9, Writers

\* What has been typed stays typed.
LEMMA TypedStays == Inv /\ [Next]_vars => \A m : Typed(m) => TypedBy(m, typed')
<1> SUFFICES ASSUME Inv, [Next]_vars PROVE \A m : Typed(m) => TypedBy(m, typed')
  OBVIOUS
<1>1. typed \in Nat
  BY ConstantTypes DEF Inv, TablesOK
<1>2. typed' = typed \/ typed' = typed + 1
  <2>1. CASE \E w \in Workers, u \in Users, t \in Talks : Begins(w, u, t)
    BY <2>1 DEF Begins
  <2> QED
    BY <2>1, MessageMoves
<1> QED
  BY <1>1, <1>2 DEF Typed, TypedBy

\* A worker that looks for addressees, or is about to, either had the message
\* before or has just been given it.
LEMMA PendingBefore ==
  ASSUME Inv, [Next]_vars, NEW w \in Workers, NEW x \in Users, Pending(w, x)'
  PROVE  \/ /\ Pending(w, x) /\ pc[w] \in Sending
            /\ cur'[w].msg = cur[w].msg /\ cur'[w].by = cur[w].by
         \/ cur'[w].msg.no = typed + 1
<1>1. GoesOn(w) \/ \E u \in Users, t \in Talks : Begins(w, u, t)
  BY MessageMoves DEF Begins
<1>2. pc'[w] \in Sending
  BY DEF Pending, Sending, Storing
<1>3. ASSUME NEW u \in Users, NEW t \in Talks, Begins(w, u, t)
      PROVE  cur'[w].msg.no = typed + 1
  BY <1>3 DEF Begins
<1>4. GoesOn(w) => /\ Pending(w, x) /\ pc[w] \in Sending
                   /\ cur'[w].msg = cur[w].msg /\ cur'[w].by = cur[w].by
  BY <1>2 DEF GoesOn
<1> QED
  BY <1>1, <1>3, <1>4

LEMMA ScreensStep == Inv /\ [Next]_vars => ScreensOK'
<1> SUFFICES ASSUME Inv, [Next]_vars PROVE ScreensOK'
  OBVIOUS
<1>0. /\ TablesOK /\ WorkOK /\ MessageOK /\ ScreensOK /\ typed \in Nat
  BY ConstantTypes DEF Inv, TablesOK
<1>1. \A m : Typed(m) => TypedBy(m, typed')
  BY TypedStays
<1> SUFFICES ASSUME NEW u \in Users
             PROVE  /\ \A i \in 1 .. Len(screen'[u]) : TypedBy(screen'[u][i], typed')
                    /\ \A i, j \in 1 .. Len(screen'[u]) :
                          i < j /\ screen'[u][i].by = screen'[u][j].by =>
                              screen'[u][i].no < screen'[u][j].no
                    /\ \A w \in Workers : Pending(w, u)' =>
                          \A i \in 1 .. Len(screen'[u]) :
                              screen'[u][i].by = cur'[w].by =>
                                  screen'[u][i].no < cur'[w].msg.no
  BY DEF ScreensOK, Typed
<1> DEFINE s == screen[u]
           n == Len(s)
<1>2. /\ s \in Seq(Messages) /\ n \in Nat
      /\ \A i \in 1 .. n : Typed(s[i])
      /\ \A i, j \in 1 .. n : i < j /\ s[i].by = s[j].by => s[i].no < s[j].no
      /\ \A w \in Workers : Pending(w, u) => \A i \in 1 .. n :
            s[i].by = cur[w].by => s[i].no < cur[w].msg.no
  BY <1>0, LenProperties DEF ScreensOK, TablesOK
<1>3. \A i \in 1 .. n : s[i].no \in 1 .. typed
  BY <1>2 DEF Typed, TypedBy
<1>4. \A w \in Workers : Pending(w, u)' => \A i \in 1 .. n :
        s[i].by = cur'[w].by => s[i].no < cur'[w].msg.no
  <2>1. ASSUME NEW w \in Workers, Pending(w, u)', NEW i \in 1 .. n, s[i].by = cur'[w].by
        PROVE  s[i].no < cur'[w].msg.no
    <3>1. CASE cur'[w].msg.no = typed + 1
      BY <1>0, <1>3, <3>1
    <3>2. CASE Pending(w, u) /\ cur'[w].msg = cur[w].msg /\ cur'[w].by = cur[w].by
      BY <1>2, <2>1, <3>2
    <3> QED
      BY <2>1, <3>1, <3>2, PendingBefore
  <2> QED
    BY <2>1
<1>5. CASE screen'[u] = screen[u]
  BY <1>1, <1>2, <1>4, <1>5
<1>6. CASE screen'[u] = << >>
  BY <1>6
<1>7. ASSUME NEW w \in Workers, dispatch(w), screen'[u] # s
      PROVE  /\ \A i \in 1 .. Len(screen'[u]) : TypedBy(screen'[u][i], typed')
             /\ \A i, j \in 1 .. Len(screen'[u]) :
                   i < j /\ screen'[u][i].by = screen'[u][j].by =>
                       screen'[u][i].no < screen'[u][j].no
             /\ \A v \in Workers : Pending(v, u)' =>
                   \A i \in 1 .. Len(screen'[u]) :
                       screen'[u][i].by = cur'[v].by =>
                           screen'[u][i].no < cur'[v].msg.no
  <2> DEFINE m == cur[w].msg
             q == screen'[u]
  <2>1. /\ pc[w] = "dispatch" /\ cur[w].to = u /\ q = Append(s, m)
    BY <1>0, <1>7 DEF dispatch, TablesOK
  <2>2. /\ m \in Messages /\ Typed(m) /\ m.by = cur[w].by /\ pc[w] \in Sending
        /\ u \notin cur[w].left
    BY <1>0, <2>1, SendingWork DEF Sending, MessageOK
  <2>3. /\ Len(q) = n + 1 /\ q[n + 1] = m
        /\ \A i \in 1 .. n : q[i] = s[i]
    BY <1>2, <2>1, <2>2, AppendProperties
  <2>4. \A i \in 1 .. n : s[i].by = m.by => s[i].no < m.no
    BY <1>2, <2>1, <2>2 DEF Pending
  <2>5. \A i \in 1 .. Len(q) : (i \in 1 .. n /\ q[i] = s[i]) \/ (i = n + 1 /\ q[i] = m)
    BY <1>2, <2>3
  <2>6. \A i \in 1 .. Len(q) : TypedBy(q[i], typed')
    BY <1>1, <1>2, <2>2, <2>5
  <2>7. \A i, j \in 1 .. Len(q) : i < j /\ q[i].by = q[j].by => q[i].no < q[j].no
    <3> HIDE DEF s, n, q, m
    <3> QED
      BY <1>2, <2>4, <2>5
  <2>8. ASSUME NEW v \in Workers, Pending(v, u)', NEW i \in 1 .. Len(q), q[i].by = cur'[v].by
        PROVE  q[i].no < cur'[v].msg.no
    <3>1. v # w
      <4>1. pc'[w] \in {"idle", "users"} /\ (pc'[w] = "users" => cur'[w] = cur[w])
        BY <1>0, <1>7, BeginEffect DEF dispatch, Continue, After
      <4>2. pc'[w] = "users" => cur'[w].left = cur[w].left
        BY <4>1
      <4>3. ~Pending(w, u)'
        BY <2>2, <4>1, <4>2 DEF Pending, Sending, Storing
      <4> QED
        BY <2>8, <4>3
    <3>2. CASE i \in 1 .. n /\ q[i] = s[i]
      BY <1>4, <2>8, <3>2
    <3>3. CASE q[i] = m
      <4>1. CASE cur'[v].msg.no = typed + 1
        BY <1>0, <2>2, <3>3, <4>1 DEF Typed, TypedBy
      <4>2. CASE pc[v] \in Sending /\ cur'[v].by = cur[v].by
        <5>1. pc[v] # "idle" /\ pc[w] # "idle"
          BY <2>1, <4>2 DEF Sending, Storing
        <5>2. cur[v].by = cur[w].by
          BY <2>2, <2>8, <3>3, <4>2
        <5> QED
          BY <1>0, <3>1, <5>1, <5>2, OneWorkerEach
      <4> QED
        BY <2>8, <4>1, <4>2, PendingBefore
    <3> QED
      BY <2>5, <3>2, <3>3
  <2> QED
    BY <2>6, <2>7, <2>8
<1>8. ASSUME NEW x \in Users, exit(x)
      PROVE  screen'[u] = s \/ screen'[u] = << >>
  BY <1>0, <1>8 DEF exit, TablesOK
<1> QED
  BY <1>5, <1>6, <1>7, <1>8, Writers

-----------------------------------------------------------------------------
(* Histories.                                                              *)

\* Only the two commands of setChatList change who has still to trim.
LEMMA Trimmers ==
  ASSUME Inv, [Next]_vars
  PROVE  \/ \E w \in Workers : rpush(w) \/ ltrim(w)
         \/ \A w \in Workers :
              /\ pc'[w] = "ltrim" <=> pc[w] = "ltrim"
              /\ pc[w] = "ltrim" => cur'[w].talk = cur[w].talk
<1> USE DEF clients, bounds
<1>0. WorkOK
  BY DEF Inv
<1> DEFINE F == \A w \in Workers :
                  /\ pc'[w] = "ltrim" <=> pc[w] = "ltrim"
                  /\ pc[w] = "ltrim" => cur'[w].talk = cur[w].talk
<1>1. ASSUME NEW w \in Workers, NEW at, NEW work, Begin(w, at, work),
             pc[w] # "ltrim", at # "ltrim"
      PROVE  F
  BY <1>0, <1>1, BeginEffect
<1>2. ASSUME UNCHANGED <<pc, cur>>
      PROVE  F
  BY <1>2
<1> HIDE DEF F
<1>3. ASSUME NEW w \in Workers, getGroupMember(w)
      PROVE  F
  <2>1. PICK left, work : Begin(w, After(left), work)
    BY <1>3 DEF getGroupMember
  <2> QED
    BY <1>1, <1>3, <2>1 DEF getGroupMember, After
<1>4. ASSUME NEW w \in Workers, NEW x \in Users, lookup(w, x)
      PROVE  F
  <2>1. PICK at \in {"file", "dispatch"} : \E work : Begin(w, at, work)
    BY <1>4 DEF lookup
  <2> QED
    BY <1>1, <1>4, <2>1 DEF lookup
<1>5. ASSUME NEW w \in Workers, setResKey(w) \/ dispatch(w) \/ lrange(w) \/ answer(w)
      PROVE  F
  <2>1. /\ \E at \in {"idle", "users", "answer"} : \E work : Begin(w, at, work)
        /\ pc[w] # "ltrim"
    BY <1>5 DEF setResKey, dispatch, lrange, answer, Continue, Filed, After
  <2> QED
    BY <1>1, <2>1
<1>6. ASSUME NEW w \in Workers, NEW u \in Users, NEW t \in Talks, chat(w, u, t)
      PROVE  F
  <2>1. pc[w] # "ltrim" /\ \E work : Begin(w, "rpush", work)
    BY <1>6 DEF chat, Takes
  <2> QED
    BY <1>1, <2>1
<1>7. ASSUME NEW w \in Workers, NEW u \in Users, NEW t \in Talks,
             NEW k \in {Recent, Cap}, open(w, u, t, k)
      PROVE  F
  BY <1>1, <1>7 DEF open, Takes
<1>8. ASSUME NEW u \in Users, exit(u) \/ remove_fd(u)
      PROVE  F
  BY <1>2, <1>8 DEF exit, remove_fd
<1>9. ASSUME NEW u \in Users, NEW w \in Workers, login(u, w)
      PROVE  F
  BY <1>2, <1>9 DEF login
<1>10. ASSUME UNCHANGED vars
       PROVE  F
  BY <1>2, <1>10 DEF vars
<1> DEFINE G == (\E w \in Workers : rpush(w) \/ ltrim(w)) \/ F
<1>11. ASSUME NEW w \in Workers, Handler(w)
       PROVE  G
  BY <1>11, <1>3, <1>4, <1>5 DEF Handler
<1>12. G
  BY <1>6, <1>7, <1>8, <1>9, <1>10, <1>11 DEF Next
<1> QED
  BY <1>12 DEF F

\* Whoever pushes a message trims after it, so that there are no more messages
\* too many than there are workers who have still to trim.
LEMMA HistoriesStep == Inv /\ [Next]_vars => HistoriesOK'
<1> SUFFICES ASSUME Inv, [Next]_vars PROVE HistoriesOK'
  OBVIOUS
<1>0. /\ TablesOK /\ WorkOK /\ MessageOK /\ HistoriesOK
      /\ Cap \in Nat \ {0} /\ IsFiniteSet(Workers)
  BY ConstantTypes DEF Inv
<1> SUFFICES ASSUME NEW t \in Talks
             PROVE  /\ EndOf(hist'[t], pushed'[t])
                    /\ Len(hist'[t]) >= Cap \/ Len(hist'[t]) >= Len(pushed'[t])
                    /\ Len(hist'[t]) <= Cap + Cardinality(Trimming(t)')
  BY DEF HistoriesOK, EndOf
<1> DEFINE h == hist[t]
           p == pushed[t]
           T == Trimming(t)
           U == {w \in Workers : pc'[w] = "ltrim" /\ cur'[w].talk = t}
<1>1. /\ h \in Seq(Messages) /\ p \in Seq(Messages) /\ Len(h) \in Nat /\ Len(p) \in Nat
      /\ EndOf(h, p) /\ (Len(h) >= Cap \/ Len(h) >= Len(p))
      /\ Len(h) <= Cap + Cardinality(T)
  BY <1>0, LenProperties DEF HistoriesOK, TablesOK
<1>2. IsFiniteSet(T) /\ IsFiniteSet(U)
  BY <1>0, FS_Subset DEF Trimming
<1>3. Cardinality(T) \in Nat /\ Cardinality(U) \in Nat
  BY <1>2, FS_CardinalityType
<1>4. Trimming(t)' = U
  BY DEF Trimming
<1> HIDE DEF T, U
<1>5. CASE hist'[t] = h /\ pushed'[t] = p /\ U = T
  BY <1>1, <1>4, <1>5
<1>6. ASSUME NEW w \in Workers, rpush(w)
      PROVE  /\ pc[w] = "rpush" /\ pc'[w] = "ltrim" /\ cur'[w] = cur[w]
             /\ \A v \in Workers \ {w} : pc'[v] = pc[v] /\ cur'[v] = cur[v]
  BY <1>0, <1>6, BeginEffect DEF rpush, Continue
<1>7. ASSUME NEW w \in Workers, rpush(w), cur[w].talk # t
      PROVE  hist'[t] = h /\ pushed'[t] = p /\ U = T
  <2>1. U = T
    BY <1>6, <1>7 DEF U, T, Trimming
  <2>2. cur[w].msg.talk # t
    BY <1>0, <1>7, SendingWork DEF rpush, Sending, Storing
  <2> QED
    BY <1>0, <1>7, <2>1, <2>2 DEF rpush, TablesOK
<1>8. ASSUME NEW w \in Workers, rpush(w), cur[w].talk = t
      PROVE  /\ EndOf(hist'[t], pushed'[t])
             /\ Len(hist'[t]) >= Cap \/ Len(hist'[t]) >= Len(pushed'[t])
             /\ Len(hist'[t]) <= Cap + Cardinality(U)
  <2> DEFINE m == cur[w].msg
  <2>1. m \in Messages /\ m.talk = t
    BY <1>0, <1>8, SendingWork DEF rpush, Sending, Storing
  <2>2. hist'[t] = Append(h, m) /\ pushed'[t] = Append(p, m)
    BY <1>0, <1>8, <2>1 DEF rpush, TablesOK
  <2>3. w \notin T /\ U = T \cup {w}
    BY <1>6, <1>8 DEF U, T, Trimming
  <2>4. Cardinality(U) = Cardinality(T) + 1
    BY <1>2, <2>3, FS_AddElement
  <2>5. Len(hist'[t]) = Len(h) + 1 /\ Len(pushed'[t]) = Len(p) + 1
    BY <1>1, <2>1, <2>2, AppendProperties
  <2>6. EndOf(hist'[t], pushed'[t])
    BY <1>1, <2>1, <2>2, EndOfAppend
  <2> QED
    BY <1>0, <1>1, <1>3, <2>4, <2>5, <2>6
<1>9. ASSUME NEW w \in Workers, ltrim(w)
      PROVE  /\ pc[w] = "ltrim" /\ pc'[w] # "ltrim" /\ pushed' = pushed
             /\ \A v \in Workers \ {w} : pc'[v] = pc[v] /\ cur'[v] = cur[v]
             /\ cur[w].talk \in Talks
  BY <1>0, <1>9, BeginEffect, SendingWork DEF ltrim, Continue, Sending, Storing
<1>10. ASSUME NEW w \in Workers, ltrim(w), cur[w].talk # t
       PROVE  hist'[t] = h /\ pushed'[t] = p /\ U = T
  <2>1. U = T
    BY <1>9, <1>10 DEF U, T, Trimming
  <2> QED
    BY <1>0, <1>10, <2>1 DEF ltrim, TablesOK
<1>11. ASSUME NEW w \in Workers, ltrim(w), cur[w].talk = t
       PROVE  /\ EndOf(hist'[t], pushed'[t])
              /\ Len(hist'[t]) >= Cap \/ Len(hist'[t]) >= Len(pushed'[t])
              /\ Len(hist'[t]) <= Cap + Cardinality(U)
  <2>1. hist'[t] = Lasts(h, Cap) /\ pushed'[t] = p
    BY <1>0, <1>11 DEF ltrim, TablesOK
  <2>2. /\ hist'[t] \in Seq(Messages)
        /\ Len(hist'[t]) = IF Len(h) < Cap THEN Len(h) ELSE Cap
        /\ EndOf(hist'[t], h)
    BY <1>0, <1>1, <2>1, LastsProperties
  <2>3. EndOf(hist'[t], pushed'[t])
    BY <1>1, <2>1, <2>2, EndOfTransitive
  <2> HIDE DEF h, p
  <2> QED
    BY <1>0, <1>1, <1>3, <2>1, <2>2, <2>3
<1>12. ASSUME ~ \E w \in Workers : rpush(w) \/ ltrim(w)
       PROVE  hist'[t] = h /\ pushed'[t] = p /\ U = T
  <2>1. U = T
    BY <1>12, Trimmers DEF U, T, Trimming
  <2> QED
    BY <1>12, <2>1, Writers
<1> QED
  BY <1>4, <1>5, <1>7, <1>8, <1>10, <1>11, <1>12

-----------------------------------------------------------------------------
(* What becomes of a message.                                              *)

\* A worker is moved by itself only.
LEMMA OwnSteps ==
  ASSUME Inv, [Next]_vars, NEW w \in Workers
  PROVE  \/ Stays(w)
         \/ Handler(w)
         \/ \E u \in Users, t \in Talks :
               chat(w, u, t) \/ \E k \in {Recent, Cap} : open(w, u, t, k)
<1> USE DEF clients, bounds
<1>0. WorkOK
  BY DEF Inv
<1>1. ASSUME NEW v \in Workers \ {w}, NEW at, NEW work, Begin(v, at, work)
      PROVE  Stays(w)
  BY <1>0, <1>1, BeginEffect DEF Stays
<1>2. ASSUME NEW v \in Workers \ {w}, Handler(v)
      PROVE  Stays(w)
  <2>1. \E at, work : Begin(v, at, work)
    <3>1. CASE \E x \in Users : lookup(v, x)
      BY <3>1 DEF lookup
    <3>2. CASE getGroupMember(v)
      BY <3>2 DEF getGroupMember
    <3> QED
      BY <1>2, <3>1, <3>2 DEF Handler, rpush, ltrim, setResKey, dispatch, lrange, answer,
                              Continue
  <2> QED
    BY <1>1, <2>1
<1>3. ASSUME NEW v \in Workers \ {w}, NEW u \in Users, NEW t \in Talks, chat(v, u, t)
      PROVE  Stays(w)
  BY <1>1, <1>3 DEF chat
<1>4. ASSUME NEW v \in Workers \ {w}, NEW u \in Users, NEW t \in Talks,
             NEW k \in {Recent, Cap}, open(v, u, t, k)
      PROVE  Stays(w)
  BY <1>1, <1>4 DEF open
<1>5. ASSUME UNCHANGED <<pc, cur>>
      PROVE  Stays(w)
  BY <1>5 DEF Stays
<1>6. ASSUME NEW u \in Users, exit(u) \/ remove_fd(u)
      PROVE  Stays(w)
  BY <1>5, <1>6 DEF exit, remove_fd
<1>7. ASSUME NEW u \in Users, NEW v \in Workers, login(u, v)
      PROVE  Stays(w)
  BY <1>5, <1>7 DEF login
<1>8. ASSUME UNCHANGED vars
      PROVE  Stays(w)
  BY <1>5, <1>8 DEF vars
<1> QED
  BY <1>2, <1>3, <1>4, <1>6, <1>7, <1>8 DEF Next

\* A worker leaves an addressee only when it is decided what he gets.
LEMMA PendingAfter ==
  ASSUME Inv, [Next]_vars, NEW w \in Workers, NEW x \in Users, Pending(w, x),
         x \in cur[w].talk \ {cur[w].by}
  PROVE  \/ cur'[w].msg = cur[w].msg /\ Pending(w, x)'
         \/ << cur[w].msg, x >> \in skipped'
         \/ \E f \in fate' : f[1] = cur[w].msg /\ f[2] = x
<1> DEFINE F == \/ cur'[w].msg = cur[w].msg /\ Pending(w, x)'
                \/ << cur[w].msg, x >> \in skipped'
                \/ \E f \in fate' : f[1] = cur[w].msg /\ f[2] = x
           m == cur[w].msg
<1>0. WorkOK /\ MessageOK
  BY DEF Inv
<1>1. /\ pc[w] \in Sending /\ cur[w] \in Works
      /\ pc[w] \in Storing => x \in cur[w].left
      /\ pc[w] = "members" => cur[w].talk = Group
  BY <1>0, SendingWork DEF Pending, Sending, Storing, MessageOK
<1>2. ASSUME Stays(w)
      PROVE  F
  BY <1>2 DEF Stays, Pending
<1>3. ASSUME NEW at \in Storing, Begin(w, at, cur[w])
      PROVE  F
  BY <1>0, <1>3, BeginEffect DEF Pending, Storing
<1>4. ASSUME NEW work, work.msg = m, x \in work.left, Begin(w, "users", work)
      PROVE  F
  <2>1. cur'[w] = work /\ pc'[w] = "users"
    BY <1>0, <1>4, BeginEffect
  <2> QED
    BY <1>4, <2>1 DEF Pending, Sending
<1>5. ASSUME rpush(w)
      PROVE  F
  BY <1>3, <1>5 DEF rpush, Continue, Storing
<1>6. ASSUME ltrim(w)
      PROVE  F
  BY <1>1, <1>3, <1>4, <1>6 DEF ltrim, Continue, Storing
<1>7. ASSUME getGroupMember(w)
      PROVE  F
  <2>1. PICK moving \in SUBSET (Group \ {cur[w].by}) :
          LET left == Group \ ({cur[w].by} \cup moving) IN
          /\ skipped' = skipped \cup ({m} \X moving)
          /\ Begin(w, After(left), [cur[w] EXCEPT !.left = left])
    BY <1>7 DEF getGroupMember
  <2> DEFINE left == Group \ ({cur[w].by} \cup moving)
             work == [cur[w] EXCEPT !.left = left]
  <2>2. x \in Group \ {cur[w].by}
    BY <1>1, <1>7 DEF getGroupMember
  <2>3. CASE x \in moving
    <3>1. << m, x >> \in {m} \X moving
      BY <2>3
    <3>2. skipped' = skipped \cup ({m} \X moving)
      BY <2>1
    <3>3. << m, x >> \in skipped'
      BY <3>1, <3>2
    <3> QED
      BY <3>3
  <2>4. CASE x \in left
    <3>1. After(left) = "users"
      BY <2>4 DEF After
    <3>2. work.msg = m /\ work.left = left
      BY <1>1 DEF Works
    <3>3. Begin(w, "users", work)
      BY <2>1, <3>1
    <3> HIDE DEF work, left, F
    <3> QED
      BY <1>4, <2>4, <3>2, <3>3
  <2> QED
    BY <2>2, <2>3, <2>4
<1>8. ASSUME NEW y \in Users, lookup(w, y)
      PROVE  F
  <2> DEFINE work == [cur[w] EXCEPT !.to = y, !.fd = users[y], !.left = @ \ {y}]
             at == IF users[y] = 0 THEN "file" ELSE "dispatch"
  <2>1. Begin(w, at, work) /\ pc[w] = "users"
    BY <1>8 DEF lookup
  <2>2. work.msg = m /\ work.left = cur[w].left \ {y} /\ work.to = y
    BY <1>1 DEF Works
  <2>3. at \in {"file", "dispatch"}
    OBVIOUS
  <2>4. pc'[w] = at /\ cur'[w] = work
    BY <1>0, <2>1, <2>3, BeginEffect
  <2>5. x \in cur[w].left
    BY <2>1 DEF Pending, Sending, Storing
  <2>6. Pending(w, x)'
    <3> HIDE DEF work, at
    <3> QED
      BY <2>2, <2>3, <2>4, <2>5 DEF Pending, Sending, Storing
  <2> QED
    BY <2>2, <2>4, <2>6
<1>9. ASSUME setResKey(w) \/ dispatch(w)
      PROVE  F
  <2>1. /\ pc[w] \in {"file", "dispatch"} /\ Begin(w, After(cur[w].left), cur[w])
        /\ \E k : fate' = fate \cup {<< m, cur[w].to, k >>}
    BY <1>9 DEF setResKey, dispatch, Continue, Filed
  <2>2. CASE cur[w].to = x
    <3>1. PICK k : fate' = fate \cup {<< m, cur[w].to, k >>}
      BY <2>1
    <3>2. << m, x, k >> \in fate'
      BY <2>2, <3>1
    <3> QED
      BY <3>2
  <2>3. CASE x \in cur[w].left
    BY <1>4, <2>1, <2>3 DEF After
  <2> QED
    BY <2>1, <2>2, <2>3 DEF Pending, Storing
<1> HIDE DEF F
<1>10. ASSUME lrange(w) \/ answer(w)
       PROVE  F
  BY <1>1, <1>10 DEF lrange, answer, Sending, Storing
<1>11. ASSUME NEW u \in Users, NEW t \in Talks, NEW k \in {Recent, Cap},
              chat(w, u, t) \/ open(w, u, t, k)
       PROVE  F
  BY <1>1, <1>11 DEF chat, open, Takes, Sending, Storing
<1>12. ASSUME Handler(w)
       PROVE  F
  BY <1>5, <1>6, <1>7, <1>8, <1>9, <1>10, <1>12 DEF Handler
<1>13. Recent \in {Recent, Cap}
  OBVIOUS
<1>14. F
  BY <1>2, <1>11, <1>12, <1>13, OwnSteps
<1> QED
  BY <1>14 DEF F

\* Nobody decides twice: a message is in the hand of one worker, which is done
\* with each addressee before it takes the next.
LEMMA FatesStep == Inv /\ [Next]_vars => FatesOK'
<1> SUFFICES ASSUME Inv, [Next]_vars PROVE FatesOK'
  OBVIOUS
<1>0. /\ TablesOK /\ WorkOK /\ MessageOK /\ PushedOK /\ FatesOK /\ typed \in Nat
      /\ PushedOK'
  BY ConstantTypes, PushedStep DEF Inv, TablesOK
<1>1. \A m : Typed(m) => TypedBy(m, typed')
  BY TypedStays
<1>2. \A m : Typed(m) => m.no # typed + 1
  BY <1>0 DEF Typed, TypedBy
<1>3. \A w \in Workers, x \in Users : Pending(w, x)' =>
        \A f \in fate : ~(f[1] = cur'[w].msg /\ f[2] = x)
  <2>1. ASSUME NEW w \in Workers, NEW x \in Users, Pending(w, x)', NEW f \in fate
        PROVE  ~(f[1] = cur'[w].msg /\ f[2] = x)
    <3>1. CASE cur'[w].msg.no = typed + 1
      BY <1>0, <1>2, <3>1 DEF FatesOK
    <3>2. CASE Pending(w, x) /\ cur'[w].msg = cur[w].msg
      BY <1>0, <3>2 DEF FatesOK
    <3> QED
      BY <2>1, <3>1, <3>2, PendingBefore
  <2> QED
    BY <2>1
<1> DEFINE Once == /\ \A f \in fate' : TypedBy(f[1], typed')
                   /\ \A f, g \in fate' : f[1] = g[1] /\ f[2] = g[2] => f = g
                   /\ \A w \in Workers, x \in Users : Pending(w, x)' =>
                        \A f \in fate' : ~(f[1] = cur'[w].msg /\ f[2] = x)
<1>4. ASSUME fate' = fate
      PROVE  Once
  BY <1>0, <1>1, <1>3, <1>4 DEF FatesOK
<1>5. ASSUME NEW w \in Workers, setResKey(w) \/ dispatch(w)
      PROVE  Once
  <2> DEFINE m == cur[w].msg
  <2>0. PICK x \in Users : x = cur[w].to
    BY <1>0, <1>5, SendingWork DEF setResKey, dispatch, Sending
  <2>1. /\ pc[w] \in {"file", "dispatch"} /\ Begin(w, After(cur[w].left), cur[w])
        /\ \E k : fate' = fate \cup {<< m, x, k >>}
    BY <1>5, <2>0 DEF setResKey, dispatch, Continue, Filed
  <2>2. PICK k : fate' = fate \cup {<< m, x, k >>}
    BY <2>1
  <2>3. /\ pc[w] \in Sending /\ Typed(m) /\ m.by = cur[w].by /\ x \in Users
        /\ x \notin cur[w].left /\ Pending(w, x)
    BY <1>0, <2>0, <2>1, SendingWork DEF Sending, MessageOK, Pending
  <2>4. \A f \in fate : ~(f[1] = m /\ f[2] = x)
    BY <1>0, <2>3 DEF FatesOK
  <2>5. \A f \in fate' : f \in fate \/ (f = << m, x, k >> /\ f[1] = m /\ f[2] = x)
    BY <2>2
  <2>6. \A f \in fate' : TypedBy(f[1], typed')
    BY <1>0, <1>1, <2>3, <2>5 DEF FatesOK
  <2>7. \A f, g \in fate' : f[1] = g[1] /\ f[2] = g[2] => f = g
    <3>1. \A f, g \in fate : f[1] = g[1] /\ f[2] = g[2] => f = g
      BY <1>0 DEF FatesOK
    <3> HIDE DEF m
    <3> QED
      BY <2>4, <2>5, <3>1
  <2>8. ~Pending(w, x)'
    <3>1. pc'[w] \in {"idle", "users"} /\ (pc'[w] = "users" => cur'[w] = cur[w])
      BY <1>0, <2>1, BeginEffect DEF After
    <3>2. pc'[w] = "users" => cur'[w].left = cur[w].left
      BY <3>1
    <3> QED
      BY <2>3, <3>1, <3>2 DEF Pending, Sending, Storing
  <2>9. ASSUME NEW v \in Workers, Pending(v, x)'
        PROVE  cur'[v].msg # m
    <3>1. v # w
      BY <2>8, <2>9
    <3>2. CASE cur'[v].msg.no = typed + 1
      BY <1>2, <2>3, <3>2
    <3>3. CASE /\ pc[v] \in Sending
               /\ cur'[v].msg = cur[v].msg /\ cur'[v].by = cur[v].by
      <4>1. pc[v] # "idle" /\ pc[w] # "idle"
        BY <2>3, <3>3 DEF Sending, Storing
      <4>2. cur[v].by # cur[w].by
        BY <1>0, <3>1, <4>1, OneWorkerEach
      <4>3. cur[v].msg.by = cur[v].by
        BY <1>0, <3>3, SendingWork
      <4> QED
        BY <2>3, <3>3, <4>2, <4>3
    <3> QED
      BY <2>3, <2>9, <3>2, <3>3, PendingBefore
  <2>10. ASSUME NEW v \in Workers, NEW y \in Users, Pending(v, y)', NEW f \in fate'
         PROVE  ~(f[1] = cur'[v].msg /\ f[2] = y)
    <3>1. CASE f \in fate
      BY <1>3, <2>10, <3>1
    <3>2. CASE f[1] = m /\ f[2] = x
      <4>1. CASE y = x
        <5>1. Pending(v, x)'
          BY <2>10, <4>1
        <5> QED
          BY <2>9, <3>2, <5>1
      <4> QED
        BY <3>2, <4>1
    <3> QED
      BY <2>5, <3>1, <3>2
  <2> QED
    BY <2>6, <2>7, <2>10
<1>6. Once
  <2> HIDE DEF Once
  <2> QED
    BY <1>4, <1>5, Writers
<1>7. ASSUME NEW t \in Talks, NEW i \in 2 .. Len(pushed'[t]),
             NEW x \in t \ {pushed'[t][i].by}
      PROVE  \/ \E w \in Workers : cur'[w].msg = pushed'[t][i] /\ Pending(w, x)'
             \/ << pushed'[t][i], x >> \in skipped'
             \/ \E f \in fate' : f[1] = pushed'[t][i] /\ f[2] = x
  <2> DEFINE p == pushed[t]
             F == \/ \E w \in Workers : cur'[w].msg = pushed'[t][i] /\ Pending(w, x)'
                  \/ << pushed'[t][i], x >> \in skipped'
                  \/ \E f \in fate' : f[1] = pushed'[t][i] /\ f[2] = x
  <2>1. x \in Users /\ p \in Seq(Messages) /\ Len(p) \in Nat
    BY <1>0, ConstantTypes, LenProperties DEF TablesOK
  <2>2. ASSUME i \in 2 .. Len(p), pushed'[t][i] = p[i]
        PROVE  F
    <3>1. x \in t \ {p[i].by} /\ p[i].talk = t
      BY <1>0, <2>2 DEF PushedOK
    <3>2. CASE \E w \in Workers : cur[w].msg = p[i] /\ Pending(w, x)
      <4>1. PICK w \in Workers : cur[w].msg = p[i] /\ Pending(w, x)
        BY <3>2
      <4>2. x \in cur[w].talk \ {cur[w].by}
        <5>1. cur[w].msg.talk = cur[w].talk /\ cur[w].msg.by = cur[w].by
          BY <1>0, <4>1, SendingWork DEF Pending, Sending, Storing
        <5> QED
          BY <3>1, <4>1, <5>1
      <4>3. \/ cur'[w].msg = cur[w].msg /\ Pending(w, x)'
            \/ << cur[w].msg, x >> \in skipped'
            \/ \E f \in fate' : f[1] = cur[w].msg /\ f[2] = x
        BY <2>1, <4>1, <4>2, PendingAfter
      <4> QED
        BY <2>2, <4>1, <4>3
    <3>3. CASE << p[i], x >> \in skipped
      BY <2>2, <3>3, Writers
    <3>4. CASE \E f \in fate : f[1] = p[i] /\ f[2] = x
      <4>1. fate \subseteq fate'
        BY Writers DEF setResKey, dispatch
      <4> QED
        BY <2>2, <3>4, <4>1
    <3> QED
      BY <1>0, <2>2, <3>1, <3>2, <3>3, <3>4 DEF FatesOK
  <2>3. ASSUME pushed'[t] = p
        PROVE  F
    BY <2>2, <2>3
  <2>4. ASSUME NEW w \in Workers, rpush(w), pushed'[t] # p
        PROVE  F
    <3> DEFINE m == cur[w].msg
    <3>1. /\ m \in Messages /\ m.talk = t /\ pushed'[t] = Append(p, m)
          /\ pc[w] = "rpush"
      BY <1>0, <2>4, SendingWork DEF rpush, TablesOK, Sending, Storing
    <3>2. /\ Len(pushed'[t]) = Len(p) + 1 /\ pushed'[t][Len(p) + 1] = m
          /\ \A j \in 1 .. Len(p) : pushed'[t][j] = p[j]
      BY <2>1, <3>1, AppendProperties
    <3>3. pc'[w] = "ltrim" /\ cur'[w] = cur[w]
      BY <1>0, <2>4, BeginEffect DEF rpush, Continue
    <3>4. CASE i \in 2 .. Len(p)
      BY <2>1, <2>2, <3>2, <3>4
    <3>5. CASE i = Len(p) + 1
      <4>1. Pending(w, x)'
        BY <3>3 DEF Pending, Storing
      <4>2. cur'[w].msg = pushed'[t][i]
        BY <3>2, <3>3, <3>5
      <4> QED
        BY <4>1, <4>2
    <3> HIDE DEF F
    <3> QED
      BY <2>1, <3>2, <3>4, <3>5
  <2> HIDE DEF F
  <2>5. F
    BY <2>3, <2>4, Writers
  <2> QED
    BY <2>5 DEF F
<1>8. \A t \in Talks : \A i \in 2 .. Len(pushed'[t]) : \A x \in t \ {pushed'[t][i].by} :
        \/ \E w \in Workers : cur'[w].msg = pushed'[t][i] /\ Pending(w, x)'
        \/ << pushed'[t][i], x >> \in skipped'
        \/ \E f \in fate' : f[1] = pushed'[t][i] /\ f[2] = x
  BY <1>7
<1> QED
  BY <1>6, <1>8 DEF FatesOK, Typed

-----------------------------------------------------------------------------
(* What a user has opened.                                                 *)

\* Who writes the screens and tables of a client.
LEMMA ClientSteps ==
  ASSUME Inv, [Next]_vars, NEW u \in Users
  PROVE  \/ session'[u] = session[u] /\ users'[u] = users[u]
              /\ opened'[u] = opened[u] /\ listed'[u] = listed[u]
         \/ session'[u] = session[u] /\ users'[u] = users[u] /\ session[u] # 0
              /\ \E w \in Workers :
                   /\ answer(w) /\ cur[w].by = u /\ cur[w] \in Works
                   /\ listed'[u] = listed[u] \cup ToSet(cur[w].list)
                   /\ opened'[u] = [opened[u] EXCEPT ![cur[w].talk] = cur[w].at]
         \/ users[u] = 0 /\ session[u] = 0 /\ session'[u] = users'[u]
              /\ opened'[u] = opened[u]
         \/ session'[u] = 0 /\ opened'[u] = [t \in Talks |-> NotOpened]
         \/ session[u] = 0 /\ session'[u] = 0 /\ opened'[u] = opened[u]
<1> USE DEF clients, bounds
<1> DEFINE F == \/ session'[u] = session[u] /\ users'[u] = users[u]
                     /\ opened'[u] = opened[u] /\ listed'[u] = listed[u]
                \/ session'[u] = session[u] /\ users'[u] = users[u] /\ session[u] # 0
                     /\ \E w \in Workers :
                          /\ answer(w) /\ cur[w].by = u /\ cur[w] \in Works
                          /\ listed'[u] = listed[u] \cup ToSet(cur[w].list)
                          /\ opened'[u] = [opened[u] EXCEPT ![cur[w].talk] = cur[w].at]
                \/ users[u] = 0 /\ session[u] = 0 /\ session'[u] = users'[u]
                     /\ opened'[u] = opened[u]
                \/ session'[u] = 0 /\ opened'[u] = [t \in Talks |-> NotOpened]
                \/ session[u] = 0 /\ session'[u] = 0 /\ opened'[u] = opened[u]
<1>0. TablesOK /\ WorkOK
  BY DEF Inv
<1>1. ASSUME UNCHANGED <<session, users, opened, listed>>
      PROVE  F
  BY <1>1
<1>2. ASSUME NEW w \in Workers, answer(w)
      PROVE  F
  <2>1. UNCHANGED <<session, users>> /\ cur[w] \in Works
    BY <1>0, <1>2 DEF answer, WorkOK
  <2>2. CASE session[cur[w].by] # 0 /\ cur[w].by = u
    <3>1. /\ listed' = [listed EXCEPT ![u] = @ \cup ToSet(cur[w].list)]
          /\ opened' = [opened EXCEPT ![u][cur[w].talk] = cur[w].at]
      BY <1>2, <2>2 DEF answer
    <3>2. listed'[u] = listed[u] \cup ToSet(cur[w].list)
      BY <1>0, <3>1 DEF TablesOK
    <3>3. opened'[u] = [opened[u] EXCEPT ![cur[w].talk] = cur[w].at]
      BY <1>0, <3>1 DEF TablesOK
    <3> QED
      BY <1>2, <2>1, <2>2, <3>2, <3>3
  <2>3. CASE session[cur[w].by] = 0
    BY <1>2, <2>1, <2>3 DEF answer
  <2>4. CASE session[cur[w].by] # 0 /\ cur[w].by # u
    <3>1. /\ listed' = [listed EXCEPT ![cur[w].by] = @ \cup ToSet(cur[w].list)]
          /\ opened' = [opened EXCEPT ![cur[w].by][cur[w].talk] = cur[w].at]
      BY <1>2, <2>4 DEF answer
    <3>2. listed'[u] = listed[u] /\ opened'[u] = opened[u]
      BY <1>0, <2>4, <3>1 DEF TablesOK
    <3> QED
      BY <2>1, <3>2
  <2> QED
    BY <2>2, <2>3, <2>4
<1>3. ASSUME NEW x \in Users, NEW w \in Workers, login(x, w)
      PROVE  F
  BY <1>0, <1>3 DEF login, TablesOK
<1>4. ASSUME NEW x \in Users, exit(x)
      PROVE  F
  BY <1>0, <1>4 DEF exit, TablesOK
<1>5. ASSUME NEW x \in Users, remove_fd(x)
      PROVE  F
  BY <1>0, <1>5 DEF remove_fd, TablesOK
<1>6. ASSUME NEW w \in Workers, Handler(w)
      PROVE  F
  BY <1>1, <1>2, <1>6 DEF Handler, rpush, ltrim, getGroupMember, lookup, setResKey,
                          dispatch, lrange
<1>7. ASSUME NEW w \in Workers, NEW x \in Users, NEW t \in Talks, chat(w, x, t)
      PROVE  F
  BY <1>1, <1>7 DEF chat
<1>8. ASSUME NEW w \in Workers, NEW x \in Users, NEW t \in Talks,
             NEW k \in {Recent, Cap}, open(w, x, t, k)
      PROVE  F
  BY <1>1, <1>8 DEF open
<1>9. ASSUME UNCHANGED vars
      PROVE  F
  BY <1>1, <1>9 DEF vars
<1> HIDE DEF F
<1>10. F
  BY <1>3, <1>4, <1>5, <1>6, <1>7, <1>8, <1>9 DEF Next
<1> QED
  BY <1>10 DEF F

LEMMA SessionsStep == Inv /\ [Next]_vars => SessionsOK'
<1> SUFFICES ASSUME Inv, [Next]_vars, NEW u \in Users
             PROVE  /\ session'[u] # 0 => session'[u] = users'[u]
                    /\ session'[u] = 0 => \A t \in Talks : opened'[u][t] = NotOpened
                    /\ \A t \in Talks : opened'[u][t] # NotOpened => u \in t
  BY DEF SessionsOK
<1>0. TablesOK /\ WorkOK /\ SessionsOK
  BY DEF Inv
<1>1. /\ session[u] # 0 => session[u] = users[u]
      /\ session[u] = 0 => \A t \in Talks : opened[u][t] = NotOpened
      /\ \A t \in Talks : opened[u][t] # NotOpened => u \in t
  BY <1>0 DEF SessionsOK
<1>2. ASSUME NEW w \in Workers, answer(w), cur[w].by = u, cur[w] \in Works,
             session[u] # 0, session'[u] = session[u], users'[u] = users[u],
             opened'[u] = [opened[u] EXCEPT ![cur[w].talk] = cur[w].at]
      PROVE  /\ session'[u] # 0 => session'[u] = users'[u]
             /\ session'[u] = 0 => \A t \in Talks : opened'[u][t] = NotOpened
             /\ \A t \in Talks : opened'[u][t] # NotOpened => u \in t
  <2>1. u \in cur[w].talk
    BY <1>0, <1>2 DEF answer, WorkOK
  <2> QED
    BY <1>0, <1>1, <1>2, <2>1 DEF TablesOK
<1> QED
  BY <1>1, <1>2, ClientSteps

\* A message on its way to a connection gets there as long as it is open.
LEMMA ComingAfter ==
  ASSUME Inv, [Next]_vars, NEW u \in Users, NEW m \in Messages, u \in m.talk, m.by # u,
         session[u] # 0, session'[u] = session[u], Coming(m, u)
  PROVE  Coming(m, u)'
<1>0. TablesOK /\ WorkOK /\ MessageOK /\ SessionsOK
  BY DEF Inv
<1>1. ASSUME m \in ToSet(screen[u])
      PROVE  m \in ToSet(screen'[u])
  <2>1. screen[u] \in Seq(Messages) /\ Len(screen[u]) \in Nat
    BY <1>0, LenProperties DEF TablesOK
  <2>2. PICK i \in 1 .. Len(screen[u]) : screen[u][i] = m
    BY <1>1, <2>1 DEF ToSet
  <2>3. CASE screen'[u] = screen[u]
    BY <1>1, <2>3
  <2>4. CASE \E w \in Workers : dispatch(w)
    <3>1. PICK w \in Workers : dispatch(w)
      BY <2>4
    <3>2. cur[w].msg \in Messages /\ cur[w].to \in Users
      BY <1>0, <3>1, SendingWork DEF dispatch, Sending
    <3>3. screen'[u] = screen[u] \/ screen'[u] = Append(screen[u], cur[w].msg)
      BY <1>0, <3>1, <3>2 DEF dispatch, TablesOK
    <3>4. CASE screen'[u] = Append(screen[u], cur[w].msg)
      <4>1. /\ Len(screen'[u]) = Len(screen[u]) + 1 /\ screen'[u][i] = m
            /\ screen'[u] \in Seq(Messages)
        BY <2>1, <2>2, <3>2, <3>4, AppendProperties
      <4>2. i \in 1 .. Len(screen'[u])
        BY <2>1, <4>1
      <4> QED
        BY <4>1, <4>2 DEF ToSet
    <3> QED
      BY <1>1, <3>3, <3>4
  <2>5. CASE \E x \in Users : exit(x)
    <3>1. PICK x \in Users : exit(x)
      BY <2>5
    <3>2. x # u
      BY <1>0, <3>1 DEF exit, TablesOK
    <3>3. screen'[u] = screen[u]
      BY <1>0, <3>1, <3>2 DEF exit, TablesOK
    <3> QED
      BY <1>1, <3>3
  <2> QED
    BY <2>3, <2>4, <2>5, Writers
<1>2. ASSUME << m, u >> \in skipped
      PROVE  << m, u >> \in skipped'
  BY <1>2, Writers
<1> DEFINE Held(w) == /\ cur[w].msg = m
                      /\ \/ pc[w] \in {"ltrim", "members"}
                         \/ pc[w] \in Sending /\ u \in cur[w].left
                         \/ pc[w] = "dispatch" /\ cur[w].to = u /\ cur[w].fd = session[u]
           F == \/ m \in ToSet(screen'[u])
                \/ << m, u >> \in skipped'
                \/ \E w \in Workers :
                      /\ cur'[w].msg = m
                      /\ \/ pc'[w] \in {"ltrim", "members"}
                         \/ pc'[w] \in Sending /\ u \in cur'[w].left
                         \/ /\ pc'[w] = "dispatch" /\ cur'[w].to = u
                            /\ cur'[w].fd = session'[u]
<1>3. ASSUME NEW w \in Workers, Held(w)
      PROVE  F
  <2>1. /\ pc[w] \in Sending /\ cur[w] \in Works
        /\ pc[w] = "members" => cur[w].talk = Group
        /\ u \in cur[w].talk \ {cur[w].by}
    BY <1>0, <1>3, SendingWork DEF Sending, Storing, MessageOK
  <2>2. pc[w] \in Storing => u \in cur[w].left
    BY <1>0, <2>1 DEF MessageOK
  <2>3. ASSUME Stays(w)
        PROVE  F
    BY <1>3, <2>3 DEF Stays
  <2>4. ASSUME NEW at \in {"ltrim", "members"}, Begin(w, at, cur[w])
        PROVE  F
    <3>1. pc'[w] = at /\ cur'[w] = cur[w]
      BY <1>0, <2>4, BeginEffect
    <3> QED
      BY <1>3, <3>1
  <2>5. ASSUME NEW work, work.msg = m, u \in work.left, NEW at \in Sending \ {"idle"},
               Begin(w, at, work)
        PROVE  F
    <3>1. pc'[w] = at /\ cur'[w] = work
      BY <1>0, <2>5, BeginEffect
    <3> QED
      BY <2>5, <3>1
  <2>6. ASSUME rpush(w)
        PROVE  F
    BY <2>4, <2>6 DEF rpush, Continue
  <2>7. ASSUME ltrim(w)
        PROVE  F
    <3>1. u \in cur[w].left
      BY <2>2, <2>7 DEF ltrim, Storing
    <3>2. Begin(w, "members", cur[w]) \/ Begin(w, "users", cur[w])
      BY <2>7 DEF ltrim, Continue
    <3>3. "users" \in Sending \ {"idle"}
      BY DEF Sending
    <3> HIDE DEF F
    <3> QED
      BY <1>3, <2>4, <2>5, <3>1, <3>2, <3>3
  <2>8. ASSUME getGroupMember(w)
        PROVE  F
    <3>1. PICK moving \in SUBSET (Group \ {cur[w].by}) :
            LET left == Group \ ({cur[w].by} \cup moving) IN
            /\ skipped' = skipped \cup ({cur[w].msg} \X moving)
            /\ Begin(w, After(left), [cur[w] EXCEPT !.left = left])
      BY <2>8 DEF getGroupMember
    <3> DEFINE left == Group \ ({cur[w].by} \cup moving)
               work == [cur[w] EXCEPT !.left = left]
    <3>2. u \in Group \ {cur[w].by}
      BY <2>1, <2>8 DEF getGroupMember
    <3>3. ASSUME u \in moving
          PROVE  F
      <4>1. << m, u >> \in {cur[w].msg} \X moving
        BY <1>3, <3>3
      <4>2. skipped' = skipped \cup ({cur[w].msg} \X moving)
        BY <3>1
      <4>3. << m, u >> \in skipped'
        BY <4>1, <4>2
      <4> QED
        BY <4>3
    <3>4. ASSUME u \in left
          PROVE  F
      <4>1. After(left) = "users" /\ "users" \in Sending \ {"idle"}
        BY <3>4 DEF After, Sending
      <4>2. work.msg = m /\ work.left = left
        BY <1>3, <2>1 DEF Works
      <4>3. Begin(w, "users", work)
        BY <3>1, <4>1
      <4> HIDE DEF work, left, F
      <4> QED
        BY <2>5, <3>4, <4>1, <4>2, <4>3
    <3> QED
      BY <3>2, <3>3, <3>4
  <2>9. ASSUME NEW y \in Users, lookup(w, y)
        PROVE  F
    <3> DEFINE work == [cur[w] EXCEPT !.to = y, !.fd = users[y], !.left = @ \ {y}]
               at == IF users[y] = 0 THEN "file" ELSE "dispatch"
    <3>1. Begin(w, at, work) /\ pc[w] = "users"
      BY <2>9 DEF lookup
    <3>2. /\ work.msg = m /\ work.left = cur[w].left \ {y} /\ work.to = y
          /\ work.fd = users[y]
      BY <1>3, <2>1 DEF Works
    <3>3. u \in cur[w].left
      BY <1>3, <3>1
    <3>4. at \in Sending \ {"idle"}
      BY DEF Sending, Storing
    <3>5. CASE y # u
      <4>1. u \in work.left
        BY <3>2, <3>3, <3>5
      <4> HIDE DEF work, at, F
      <4> QED
        BY <2>5, <3>1, <3>2, <3>4, <4>1
    <3>6. CASE y = u
      <4>1. users[y] # 0 /\ users[y] = session[u]
        BY <1>0, <3>6 DEF SessionsOK
      <4>2. at = "dispatch"
        BY <4>1
      <4>3. pc'[w] = "dispatch" /\ cur'[w] = work
        BY <1>0, <3>1, <4>2, BeginEffect
      <4> HIDE DEF work, at
      <4> QED
        BY <3>2, <3>6, <4>1, <4>3
    <3> QED
      BY <3>5, <3>6
  <2>10. ASSUME setResKey(w) \/ dispatch(w), u \in cur[w].left
         PROVE  F
    <3>1. Begin(w, "users", cur[w])
      BY <2>10 DEF setResKey, dispatch, Continue, Filed, After
    <3>2. "users" \in Sending \ {"idle"}
      BY DEF Sending
    <3> HIDE DEF F
    <3> QED
      BY <1>3, <2>5, <2>10, <3>1, <3>2
  <2>11. ASSUME dispatch(w), u \notin cur[w].left
         PROVE  F
    <3>1. cur[w].to = u /\ cur[w].fd = session[u]
      BY <1>3, <2>11 DEF dispatch
    <3>2. screen'[u] = Append(screen[u], m)
      BY <1>0, <1>3, <2>11, <3>1 DEF dispatch, TablesOK
    <3>3. screen[u] \in Seq(Messages) /\ Len(screen[u]) \in Nat
      BY <1>0, LenProperties DEF TablesOK
    <3>4. Len(screen'[u]) = Len(screen[u]) + 1 /\ screen'[u][Len(screen[u]) + 1] = m
      BY <3>2, <3>3, AppendProperties
    <3>5. Len(screen[u]) + 1 \in 1 .. Len(screen'[u])
      BY <3>3, <3>4
    <3>6. m \in ToSet(screen'[u])
      BY <3>4, <3>5 DEF ToSet
    <3> QED
      BY <3>6
  <2>12. ASSUME setResKey(w), u \notin cur[w].left
         PROVE  F
    BY <1>3, <2>12 DEF setResKey
  <2> HIDE DEF F
  <2>13. ASSUME lrange(w) \/ answer(w)
         PROVE  F
    BY <2>1, <2>13 DEF lrange, answer, Sending, Storing
  <2>14. ASSUME NEW x \in Users, NEW t \in Talks, NEW k \in {Recent, Cap},
                chat(w, x, t) \/ open(w, x, t, k)
         PROVE  F
    BY <2>1, <2>14 DEF chat, open, Takes, Sending, Storing
  <2>15. ASSUME Handler(w)
         PROVE  F
    BY <2>6, <2>7, <2>8, <2>9, <2>10, <2>11, <2>12, <2>13, <2>15 DEF Handler
  <2>16. Recent \in {Recent, Cap}
    OBVIOUS
  <2> QED
    BY <2>3, <2>14, <2>15, <2>16, OwnSteps
<1>4. F
  <2> HIDE DEF F, Held
  <2>1. \/ m \in ToSet(screen[u])
        \/ << m, u >> \in skipped
        \/ \E w \in Workers : Held(w)
    BY DEF Coming, Held
  <2>2. m \in ToSet(screen'[u]) \/ << m, u >> \in skipped' => F
    BY DEF F
  <2> QED
    BY <1>1, <1>2, <1>3, <2>1, <2>2
<1> QED
  BY <1>4 DEF Coming

\* All that is ever pushed stays, and what is added is in the hand of a worker.
LEMMA PushedGrows ==
  ASSUME Inv, [Next]_vars, NEW t \in Talks
  PROVE  /\ Len(pushed[t]) \in Nat /\ Len(pushed'[t]) \in Nat
         /\ Len(pushed[t]) <= Len(pushed'[t])
         /\ \A i \in 1 .. Len(pushed[t]) : pushed'[t][i] = pushed[t][i]
         /\ \A i \in 1 .. Len(pushed'[t]) : i > Len(pushed[t]) =>
              \E w \in Workers : pc'[w] = "ltrim" /\ cur'[w].msg = pushed'[t][i]
<1>0. TablesOK /\ WorkOK /\ MessageOK
  BY DEF Inv
<1>1. pushed[t] \in Seq(Messages) /\ Len(pushed[t]) \in Nat
  BY <1>0, LenProperties DEF TablesOK
<1>2. CASE pushed'[t] = pushed[t]
  BY <1>1, <1>2
<1>3. ASSUME NEW w \in Workers, rpush(w), pushed'[t] # pushed[t]
      PROVE  /\ Len(pushed'[t]) = Len(pushed[t]) + 1
             /\ \A i \in 1 .. Len(pushed[t]) : pushed'[t][i] = pushed[t][i]
             /\ pushed'[t][Len(pushed[t]) + 1] = cur[w].msg
             /\ pc'[w] = "ltrim" /\ cur'[w] = cur[w]
  <2>1. cur[w].msg \in Messages
    BY <1>0, <1>3, SendingWork DEF rpush, Sending, Storing
  <2>2. pushed'[t] = Append(pushed[t], cur[w].msg)
    BY <1>0, <1>3 DEF rpush, TablesOK
  <2>3. pc'[w] = "ltrim" /\ cur'[w] = cur[w]
    BY <1>0, <1>3, BeginEffect DEF rpush, Continue
  <2> QED
    BY <1>1, <2>1, <2>2, <2>3, AppendProperties
<1>4. ASSUME NEW w \in Workers, rpush(w), pushed'[t] # pushed[t]
      PROVE  \A i \in 1 .. Len(pushed'[t]) : i > Len(pushed[t]) =>
               \E v \in Workers : pc'[v] = "ltrim" /\ cur'[v].msg = pushed'[t][i]
  <2>1. \A i \in 1 .. Len(pushed'[t]) : i > Len(pushed[t]) => i = Len(pushed[t]) + 1
    BY <1>1, <1>3, <1>4
  <2>2. pc'[w] = "ltrim" /\ cur'[w].msg = pushed'[t][Len(pushed[t]) + 1]
    BY <1>3, <1>4
  <2> QED
    BY <2>1, <2>2
<1>5. ASSUME NEW w \in Workers, rpush(w), pushed'[t] # pushed[t]
      PROVE  Len(pushed'[t]) \in Nat /\ Len(pushed[t]) <= Len(pushed'[t])
  BY <1>1, <1>3, <1>5
<1> QED
  BY <1>1, <1>2, <1>3, <1>4, <1>5, Writers

LEMMA FollowsAfter ==
  ASSUME Inv, [Next]_vars, NEW u \in Users, NEW t \in Talks, NEW k \in Nat, u \in t,
         session[u] # 0, session'[u] = session[u], k \in 1 .. Len(pushed[t]),
         Follows(u, t, k)
  PROVE  Follows(u, t, k)'
<1>0. TablesOK /\ PushedOK
  BY DEF Inv
<1> SUFFICES ASSUME NEW i \in 1 .. Len(pushed'[t]), i > k, pushed'[t][i].by # u,
                    NEW m, m = pushed'[t][i]
             PROVE  Coming(m, u)'
  <2>1. \A i \in 1 .. Len(pushed'[t]) : i > k /\ pushed'[t][i].by # u =>
          \E m : m = pushed'[t][i]
    OBVIOUS
  <2> QED
    BY <2>1 DEF Follows, Coming
<1>1. CASE i \in 1 .. Len(pushed[t])
  <2>1. m = pushed[t][i] /\ pushed[t] \in Seq(Messages)
    BY <1>0, <1>1, PushedGrows DEF TablesOK
  <2>2. m \in Messages /\ Len(pushed[t]) \in Nat
    BY <1>1, <2>1, ElementOfSeq, LenProperties
  <2>3. i \in 2 .. Len(pushed[t])
    BY <1>1, <2>2
  <2>4. m.talk = t
    BY <1>0, <2>1, <2>3 DEF PushedOK
  <2>5. Coming(m, u)
    BY <1>1, <2>1 DEF Follows
  <2> QED
    BY <2>2, <2>4, <2>5, ComingAfter
<1>2. CASE i > Len(pushed[t])
  <2>1. PICK w \in Workers : pc'[w] = "ltrim" /\ cur'[w].msg = m
    BY <1>2, PushedGrows
  <2> QED
    BY <2>1 DEF Coming
<1>3. i \in 1 .. Len(pushed[t]) \/ i > Len(pushed[t])
  BY PushedGrows
<1> QED
  BY <1>1, <1>2, <1>3

\* The Recent last messages that were there when the history was read are in it.
LEMMA ListShows ==
  ASSUME Inv, NEW t \in Talks, NEW k \in {Recent, Cap}
  PROVE  Shown(t, Len(pushed[t]), ToSet(Lasts(hist[t], k)))
<1> DEFINE h == hist[t]
           p == pushed[t]
           list == Lasts(h, k)
           d == Len(p) - Len(list)
<1>0. Cap \in Nat \ {0} /\ Recent \in Nat \ {0} /\ Recent <= Cap /\ k \in Nat /\ k >= Recent
  BY ConstantTypes
<1>1. h \in Seq(Messages) /\ p \in Seq(Messages) /\ Len(h) \in Nat /\ Len(p) \in Nat
  BY LenProperties DEF Inv, TablesOK
<1>2. EndOf(h, p) /\ (Len(h) >= Cap \/ Len(h) >= Len(p))
  BY DEF Inv, HistoriesOK
<1>3. /\ list \in Seq(Messages) /\ EndOf(list, h)
      /\ Len(list) = IF Len(h) < k THEN Len(h) ELSE k
  BY <1>0, <1>1, LastsProperties
<1>4. EndOf(list, p)
  BY <1>1, <1>2, <1>3, EndOfTransitive
<1> HIDE DEF h, p, list
<1>5. /\ Len(list) \in Nat /\ Len(list) <= Len(p)
      /\ Len(list) >= Recent \/ Len(list) >= Len(p)
  BY <1>0, <1>1, <1>2, <1>3, <1>4 DEF EndOf
<1>6. ASSUME NEW i \in 1 .. Len(p), i + Recent > Len(p)
      PROVE  p[i] \in ToSet(list)
  <2>1. i - d \in 1 .. Len(list)
    BY <1>0, <1>1, <1>5, <1>6
  <2>2. list[i - d] = p[(i - d) + d]
    BY <1>4, <2>1 DEF EndOf
  <2>3. (i - d) + d = i
    BY <1>1, <1>5
  <2>4. list[i - d] = p[i]
    BY <2>2, <2>3
  <2> QED
    BY <2>1, <2>4 DEF ToSet
<1> QED
  BY <1>6 DEF Shown, h, p, list

LEMMA ShownAfter ==
  ASSUME Inv, [Next]_vars, NEW t \in Talks, NEW k \in Nat, k <= Len(pushed[t]),
         NEW S, Shown(t, k, S)
  PROVE  Shown(t, k, S)'
<1>1. ASSUME NEW i \in 1 .. Len(pushed'[t]), i <= k, i + Recent > k
      PROVE  pushed'[t][i] \in S
  <2>1. i \in 1 .. Len(pushed[t]) /\ pushed'[t][i] = pushed[t][i]
    BY <1>1, PushedGrows
  <2> QED
    BY <1>1, <2>1 DEF Shown
<1> QED
  BY <1>1 DEF Shown

LEMMA OpenedStep == Inv /\ [Next]_vars => OpenedOK'
<1> SUFFICES ASSUME Inv, [Next]_vars PROVE OpenedOK'
  OBVIOUS
<1>0. TablesOK /\ WorkOK /\ OwnerOK /\ PushedOK /\ SessionsOK /\ OpenedOK
  BY DEF Inv
\* What a user has opened, or is about to, in the next state.
<1>1. ASSUME NEW u \in Users, NEW t \in Talks, NEW k \in 0 .. MaxMessages + 1,
             k \in 1 .. Len(pushed[t]), u \in t, session[u] # 0, session'[u] = session[u],
             Follows(u, t, k), NEW S, Shown(t, k, S)
      PROVE  k \in 1 .. Len(pushed'[t]) /\ Follows(u, t, k)' /\ Shown(t, k, S)'
  <2>1. k \in Nat /\ k \in 1 .. Len(pushed'[t])
    BY <1>1, PushedGrows, ConstantTypes
  <2>2. Follows(u, t, k)'
    BY <1>1, <2>1, FollowsAfter
  <2>3. Shown(t, k, S)'
    BY <1>1, <2>1, ShownAfter
  <2> QED
    BY <2>1, <2>2, <2>3
<1>2. ASSUME NEW u \in Users, NEW t \in Talks, NEW k \in 0 .. MaxMessages + 1,
             session'[u] # 0, opened'[u][t] = k, NEW S, S = listed'[u]
      PROVE  k \in 1 .. Len(pushed'[t]) /\ Follows(u, t, k)' /\ Shown(t, k, S)'
  <2>1. k # NotOpened
    BY ConstantTypes DEF NotOpened
  <2>2. opened[u][t] = k => session[u] # 0 /\ u \in t
    BY <1>0, <2>1 DEF SessionsOK
  <2>3. ASSUME opened[u][t] = k, session'[u] = session[u], listed[u] \subseteq S
        PROVE  k \in 1 .. Len(pushed'[t]) /\ Follows(u, t, k)' /\ Shown(t, k, S)'
    <3>1. /\ k \in 1 .. Len(pushed[t])
          /\ Follows(u, t, k) /\ Shown(t, k, listed[u])
      BY <1>0, <1>2, <2>2, <2>3 DEF OpenedOK
    <3>2. Shown(t, k, S)
      BY <2>3, <3>1 DEF Shown
    <3> QED
      BY <1>1, <2>2, <2>3, <3>1, <3>2
  <2>4. ASSUME NEW w \in Workers, answer(w), cur[w].by = u, cur[w] \in Works,
               session[u] # 0, session'[u] = session[u],
               listed'[u] = listed[u] \cup ToSet(cur[w].list),
               opened'[u] = [opened[u] EXCEPT ![cur[w].talk] = cur[w].at]
        PROVE  k \in 1 .. Len(pushed'[t]) /\ Follows(u, t, k)' /\ Shown(t, k, S)'
    <3>1. CASE t # cur[w].talk
      <4>1. opened'[u][t] = opened[u][t]
        BY <1>0, <2>4, <3>1 DEF TablesOK
      <4> QED
        BY <1>2, <2>3, <2>4, <4>1
    <3>2. CASE t = cur[w].talk
      <4>1. k = cur[w].at /\ pc[w] = "answer"
        BY <1>0, <1>2, <2>4, <3>2 DEF TablesOK, answer
      <4>2. /\ k \in 1 .. Len(pushed[t]) /\ Follows(u, t, k)
            /\ Shown(t, k, ToSet(cur[w].list))
        BY <1>0, <2>4, <3>2, <4>1 DEF OpenedOK
      <4>3. u \in t
        BY <1>0, <2>4, <3>2, <4>1 DEF WorkOK
      <4>4. Shown(t, k, S)
        BY <1>2, <2>4, <4>2 DEF Shown
      <4> QED
        BY <1>1, <2>4, <4>2, <4>3, <4>4
    <3> QED
      BY <3>1, <3>2
  <2>5. CASE session[u] = 0 /\ opened'[u] = opened[u]
    BY <1>2, <2>2, <2>5
  <2>6. CASE session'[u] = 0
    BY <1>2, <2>6
  <2> QED
    BY <1>2, <2>3, <2>4, <2>5, <2>6, ClientSteps
<1>3. ASSUME NEW w \in Workers, pc'[w] = "lrange"
      PROVE  cur'[w].window \in {Recent, Cap}
  <2>1. CASE Stays(w)
    BY <1>0, <1>3, <2>1 DEF Stays, OpenedOK
  <2>2. ASSUME NEW u \in Users, NEW t \in Talks, NEW k \in {Recent, Cap}, open(w, u, t, k)
        PROVE  cur'[w].window \in {Recent, Cap}
    <3>1. cur'[w] = Work(u, t, NoMessage, k)
      BY <1>0, <2>2, BeginEffect DEF open
    <3> QED
      BY <3>1 DEF Work
  <2>3. ASSUME NEW u \in Users, NEW t \in Talks, chat(w, u, t)
        PROVE  FALSE
    BY <1>0, <1>3, <2>3, BeginEffect DEF chat
  <2>4. ASSUME NEW at, NEW work, Begin(w, at, work), at # "lrange"
        PROVE  FALSE
    BY <1>0, <1>3, <2>4, BeginEffect
  <2>5. ASSUME Handler(w)
        PROVE  FALSE
    <3>1. CASE rpush(w) \/ ltrim(w) \/ setResKey(w) \/ dispatch(w) \/ lrange(w) \/ answer(w)
      BY <2>4, <3>1 DEF rpush, ltrim, setResKey, dispatch, lrange, answer, Continue,
                        Filed, After
    <3>2. CASE getGroupMember(w)
      <4>1. PICK left, work : Begin(w, After(left), work)
        BY <3>2 DEF getGroupMember
      <4> QED
        BY <2>4, <4>1 DEF After
    <3>3. CASE \E x \in Users : lookup(w, x)
      <4>1. PICK at \in {"file", "dispatch"} : \E work : Begin(w, at, work)
        BY <3>3 DEF lookup
      <4> QED
        BY <2>4, <4>1
    <3> QED
      BY <2>5, <3>1, <3>2, <3>3 DEF Handler
  <2> QED
    BY <2>1, <2>2, <2>3, <2>5, OwnSteps
<1>4. ASSUME NEW w \in Workers, NEW u \in Users, NEW t \in Talks,
             NEW k \in 0 .. MaxMessages + 1, pc'[w] = "answer", cur'[w].by = u,
             cur'[w].talk = t, cur'[w].at = k, NEW S, S = ToSet(cur'[w].list)
      PROVE  /\ k \in 1 .. Len(pushed'[t])
             /\ session'[u] # 0 => Follows(u, t, k)'
             /\ Shown(t, k, S)'
  <2> DEFINE F == /\ k \in 1 .. Len(pushed'[t])
                  /\ session'[u] # 0 => Follows(u, t, k)'
                  /\ Shown(t, k, S)'
  <2>1. ASSUME Stays(w)
        PROVE  F
    <3>1. pc[w] = "answer" /\ cur[w].by = u /\ cur[w].talk = t /\ cur[w].at = k
          /\ S = ToSet(cur[w].list)
      BY <1>4, <2>1 DEF Stays
    <3>2. /\ k \in 1 .. Len(pushed[t]) /\ Shown(t, k, S)
          /\ session[u] # 0 => Follows(u, t, k)
      BY <1>0, <3>1 DEF OpenedOK
    <3>3. u \in t /\ users[u] # 0
      BY <1>0, <3>1 DEF WorkOK
    <3>4. k \in Nat /\ k \in 1 .. Len(pushed'[t]) /\ Shown(t, k, S)'
      <4>1. k \in Nat /\ k <= Len(pushed[t])
        BY <3>2
      <4>2. Shown(t, k, S)'
        BY <3>2, <4>1, ShownAfter
      <4> QED
        BY <3>2, <4>1, <4>2, PushedGrows
    <3>5. ASSUME session'[u] # 0
          PROVE  Follows(u, t, k)'
      <4>1. session'[u] = session[u] /\ session[u] # 0
        BY <3>3, <3>5, ClientSteps
      <4> QED
        BY <3>2, <3>3, <3>4, <4>1, FollowsAfter
    <3> QED
      BY <3>4, <3>5
  <2>2. ASSUME lrange(w)
        PROVE  F
    <3> DEFINE work == [cur[w] EXCEPT !.list = Lasts(hist[t], cur[w].window),
                                      !.at = Len(pushed[t])]
    <3>1. /\ pc[w] = "lrange" /\ cur[w] \in Works /\ pushed' = pushed
          /\ cur[w].window \in {Recent, Cap}
      BY <1>0, <2>2 DEF lrange, WorkOK, OpenedOK
    <3>2. PICK s \in Talks : s = cur[w].talk
      BY <3>1 DEF Works
    <3>3. cur'[w] = [cur[w] EXCEPT !.list = Lasts(hist[s], cur[w].window),
                                   !.at = Len(pushed[s])]
      BY <1>0, <2>2, <3>2, BeginEffect DEF lrange
    <3>4. /\ cur'[w].talk = s /\ cur'[w].list = Lasts(hist[s], cur[w].window)
          /\ cur'[w].at = Len(pushed[s])
      BY <3>1, <3>2, <3>3 DEF Works
    <3>5. t = s /\ k = Len(pushed[t]) /\ S = ToSet(Lasts(hist[t], cur[w].window))
      BY <1>4, <3>4
    <3>6. k \in 1 .. Len(pushed[t])
      <4>1. Len(pushed[t]) \in Nat /\ Len(pushed[t]) >= 1
        BY <1>0, PushedGrows DEF PushedOK
      <4> QED
        BY <3>5, <4>1
    <3>7. Shown(t, k, S)
      BY <3>1, <3>5, ListShows
    <3>8. Shown(t, k, S)' /\ k \in 1 .. Len(pushed'[t])
      BY <3>1, <3>6, <3>7 DEF Shown
    <3>9. Follows(u, t, k)'
      <4>1. ~ \E i \in 1 .. Len(pushed'[t]) : i > k
        BY <3>1, <3>5, PushedGrows
      <4> QED
        BY <4>1 DEF Follows
    <3> QED
      BY <3>8, <3>9
  <2> HIDE DEF F
  <2>3. ASSUME NEW at, NEW work, Begin(w, at, work), at # "answer"
        PROVE  FALSE
    BY <1>0, <1>4, <2>3, BeginEffect
  <2>4. ASSUME Handler(w), ~lrange(w)
        PROVE  FALSE
    <3>1. CASE rpush(w) \/ ltrim(w) \/ setResKey(w) \/ dispatch(w) \/ answer(w)
      BY <2>3, <3>1 DEF rpush, ltrim, setResKey, dispatch, answer, Continue, Filed, After
    <3>2. CASE getGroupMember(w)
      <4>1. PICK left, work : Begin(w, After(left), work)
        BY <3>2 DEF getGroupMember
      <4> QED
        BY <2>3, <4>1 DEF After
    <3>3. CASE \E x \in Users : lookup(w, x)
      <4>1. PICK at \in {"file", "dispatch"} : \E work : Begin(w, at, work)
        BY <3>3 DEF lookup
      <4> QED
        BY <2>3, <4>1
    <3> QED
      BY <2>4, <3>1, <3>2, <3>3 DEF Handler
  <2>5. ASSUME NEW x \in Users, NEW s \in Talks, chat(w, x, s)
        PROVE  FALSE
    BY <2>3, <2>5 DEF chat
  <2>6. ASSUME NEW x \in Users, NEW s \in Talks, NEW j \in {Recent, Cap}, open(w, x, s, j)
        PROVE  FALSE
    BY <2>3, <2>6 DEF open
  <2>7. F
    BY <2>1, <2>2, <2>4, <2>5, <2>6, OwnSteps
  <2> QED
    BY <2>7 DEF F
<1>5. \A u \in Users, t \in Talks, k \in 0 .. MaxMessages + 1 :
        session'[u] # 0 /\ opened'[u][t] = k =>
            /\ k \in 1 .. Len(pushed'[t])
            /\ Follows(u, t, k)' /\ Shown(t, k, listed[u])'
  <2>1. ASSUME NEW u \in Users, NEW t \in Talks, NEW k \in 0 .. MaxMessages + 1,
               session'[u] # 0, opened'[u][t] = k
        PROVE  /\ k \in 1 .. Len(pushed'[t])
               /\ Follows(u, t, k)' /\ Shown(t, k, listed[u])'
    <3>1. PICK S : S = listed'[u]
      OBVIOUS
    <3>2. k \in 1 .. Len(pushed'[t]) /\ Follows(u, t, k)' /\ Shown(t, k, S)'
      BY <1>2, <2>1, <3>1
    <3> QED
      BY <3>1, <3>2 DEF Shown
  <2> QED
    BY <2>1
<1>6. \A w \in Workers, u \in Users, t \in Talks, k \in 0 .. MaxMessages + 1 :
        pc'[w] = "answer" /\ cur'[w].by = u /\ cur'[w].talk = t /\ cur'[w].at = k =>
            /\ k \in 1 .. Len(pushed'[t])
            /\ session'[u] # 0 => Follows(u, t, k)'
            /\ Shown(t, k, ToSet(cur[w].list))'
  <2>1. ASSUME NEW w \in Workers, NEW u \in Users, NEW t \in Talks,
               NEW k \in 0 .. MaxMessages + 1, pc'[w] = "answer", cur'[w].by = u,
               cur'[w].talk = t, cur'[w].at = k
        PROVE  /\ k \in 1 .. Len(pushed'[t])
               /\ session'[u] # 0 => Follows(u, t, k)'
               /\ Shown(t, k, ToSet(cur[w].list))'
    <3>1. PICK S : S = ToSet(cur'[w].list)
      OBVIOUS
    <3>2. /\ k \in 1 .. Len(pushed'[t])
          /\ session'[u] # 0 => Follows(u, t, k)'
          /\ Shown(t, k, S)'
      BY <1>4, <2>1, <3>1
    <3> QED
      BY <3>1, <3>2 DEF Shown
  <2> QED
    BY <2>1
<1> QED
  BY <1>3, <1>5, <1>6 DEF OpenedOK

-----------------------------------------------------------------------------
(* The theorems.                                                           *)

LEMMA InvInit == Init => Inv
<1> SUFFICES ASSUME Init PROVE Inv
  OBVIOUS
<1>1. /\ hist = [t \in Talks |-> << Old(t) >>] /\ pushed = hist
      /\ session = [u \in Users |-> IF u \in Present THEN 1 ELSE 0] /\ users = session
      /\ owner \in [Users -> Workers \cup {NoWorker}]
      /\ \A u \in Users : session[u] = 0 <=> owner[u] = NoWorker
      /\ pc = [w \in Workers |-> "idle"] /\ cur = [w \in Workers |-> NoWork]
      /\ screen = [u \in Users |-> << >>] /\ listed = [u \in Users |-> {}]
      /\ opened = [u \in Users |-> [t \in Talks |-> NotOpened]]
      /\ skipped = {} /\ fate = {} /\ typed = 0 /\ logins = 0
  BY DEF Init
<1>2. /\ 0 \in Sessions /\ 1 \in Sessions /\ NotOpened \in 0 .. NotOpened
      /\ NotOpened \notin 0 .. MaxMessages + 1
      /\ 0 \in 0 .. MaxMessages /\ 0 \in 0 .. MaxLogins /\ Cap \in Nat \ {0}
  BY ConstantTypes DEF Sessions, NotOpened
<1>3. \A w \in Workers : pc[w] = "idle" /\ pc[w] \notin Sending /\ pc[w] \in Steps
  BY <1>1 DEF Sending, Storing, Steps
<1>4. ASSUME NEW t \in Talks
      PROVE  /\ hist[t] \in Seq(Messages) /\ Len(hist[t]) = 1 /\ hist[t][1] = Old(t)
             /\ pushed[t] = hist[t] /\ Len(pushed[t]) = 1 /\ pushed[t][1] = Old(t)
  BY <1>1, <1>4, OldIsMessage
<1>5. ASSUME NEW t \in Talks
      PROVE  /\ ~ \E i \in 2 .. Len(pushed[t]) : TRUE
             /\ ~ \E i, j \in 1 .. Len(pushed[t]) : i < j
  <2>1. Len(pushed[t]) = 1
    BY <1>4
  <2> QED
    BY <2>1
<1>6. TablesOK
  <2>1. hist \in [Talks -> Seq(Messages)]
    BY <1>1, <1>4
  <2>2. session \in [Users -> Sessions]
    BY <1>1, <1>2
  <2>3. << >> \in Seq(Messages)
    OBVIOUS
  <2>4. opened \in [Users -> [Talks -> 0 .. NotOpened]]
    BY <1>1, <1>2
  <2> QED
    BY <1>1, <1>2, <2>1, <2>2, <2>3, <2>4 DEF TablesOK
<1>7. WorkOK
  BY <1>1, <1>3 DEF WorkOK
<1>8. OwnerOK
  BY <1>1 DEF OwnerOK
<1>9. MessageOK /\ NumbersOK
  BY <1>3 DEF MessageOK, NumbersOK
<1>10. PushedOK
  <2>1. ASSUME NEW t \in Talks
        PROVE  /\ Len(pushed[t]) >= 1 /\ pushed[t][1] = Old(t)
               /\ ~ \E i \in 2 .. Len(pushed[t]) : TRUE
               /\ ~ \E i, j \in 1 .. Len(pushed[t]) : i < j
    <3>1. Len(pushed[t]) = 1 /\ pushed[t][1] = Old(t)
      BY <1>4
    <3> QED
      BY <1>5, <3>1
  <2> QED
    BY <1>3, <2>1 DEF PushedOK
<1>11. ScreensOK
  <2>1. \A u \in Users : ~ \E i \in 1 .. Len(screen[u]) : TRUE
    BY <1>1
  <2> QED
    BY <2>1 DEF ScreensOK
<1>12. HistoriesOK
  <2>1. ASSUME NEW t \in Talks
        PROVE  /\ EndOf(hist[t], pushed[t])
               /\ Len(hist[t]) >= Cap \/ Len(hist[t]) >= Len(pushed[t])
               /\ Len(hist[t]) <= Cap + Cardinality(Trimming(t))
    <3>1. Trimming(t) = {}
      BY <1>3 DEF Trimming
    <3>2. Cardinality(Trimming(t)) = 0
      BY <3>1, FS_EmptySet
    <3>3. Len(hist[t]) = 1 /\ Len(pushed[t]) = 1 /\ pushed[t] = hist[t]
      BY <1>4
    <3>4. EndOf(hist[t], pushed[t])
      <4>1. \A i \in 1 .. Len(hist[t]) : i + (Len(pushed[t]) - Len(hist[t])) = i
        BY <3>3
      <4> QED
        BY <3>3, <4>1 DEF EndOf
    <3> QED
      BY <1>2, <3>2, <3>3, <3>4
  <2> QED
    BY <2>1 DEF HistoriesOK
<1>13. FatesOK
  <2>1. \A w \in Workers, x \in Users : ~Pending(w, x)
    BY <1>3 DEF Pending, Sending, Storing
  <2>2. \A t \in Talks : ~ \E i \in 2 .. Len(pushed[t]) : TRUE
    BY <1>5
  <2> QED
    BY <1>1, <2>1, <2>2 DEF FatesOK
<1>14. SessionsOK
  BY <1>1 DEF SessionsOK
<1>15. OpenedOK
  BY <1>1, <1>2, <1>3 DEF OpenedOK
<1> QED
  BY <1>6, <1>7, <1>8, <1>9, <1>10, <1>11, <1>12, <1>13, <1>14, <1>15 DEF Inv

\* What the workers, the histories and the clients of the chat handlers are
\* like in every state that is reached, whoever is served when
\* (connection.cc:694-740, 1441-1484, RedisClient.cc:118-137).
THEOREM InvCorrect == Spec => []Inv
<1>1. Init => Inv
  BY InvInit
<1>2. Inv /\ [Next]_vars => Inv'
  BY TablesStep, WorkStep, OwnerStep, MessageStep, NumbersStep, PushedStep, ScreensStep,
     HistoriesStep, FatesStep, SessionsStep, OpenedStep DEF Inv
<1> QED
  BY <1>1, <1>2, PTL DEF Spec

\* Every table keeps its type, and a worker that is busy serves a connection
\* that is there and its own (Worker.cc:56-87, connection.cc:694-740).
THEOREM TypeCorrect == Spec => []TypeOK
<1>1. ASSUME Inv
      PROVE  TypeOK
  <2>0. TablesOK /\ WorkOK /\ OwnerOK /\ PushedOK
    BY <1>1 DEF Inv
  <2>1. ASSUME NEW t \in Talks
        PROVE  /\ hist[t] \in Seq(Messages) /\ pushed[t] \in Seq(Messages)
               /\ \A i \in DOMAIN pushed[t] : pushed[t][i].talk = t
    <3>1. hist[t] \in Seq(Messages) /\ pushed[t] \in Seq(Messages)
      BY <2>0 DEF TablesOK
    <3>2. DOMAIN pushed[t] = 1 .. Len(pushed[t]) /\ Len(pushed[t]) \in Nat
      BY <3>1, LenProperties
    <3>3. pushed[t][1].talk = t
      <4>1. pushed[t][1] = Old(t)
        BY <2>0 DEF PushedOK
      <4> QED
        BY <4>1 DEF Old
    <3>4. \A i \in 2 .. Len(pushed[t]) : pushed[t][i].talk = t
      BY <2>0 DEF PushedOK
    <3>5. \A i \in DOMAIN pushed[t] : i = 1 \/ i \in 2 .. Len(pushed[t])
      BY <3>2
    <3> QED
      BY <3>1, <3>3, <3>4, <3>5
  <2>2. \A w \in Workers : pc[w] # "idle" =>
          owner[cur[w].by] = w /\ users[cur[w].by] # 0 /\ cur[w].left \subseteq cur[w].talk
    BY <2>0 DEF WorkOK
  <2>3. \A u \in Users : screen[u] \in Seq(Messages) /\ listed[u] \subseteq Messages
    BY <2>0 DEF TablesOK
  <2>4. \A u \in Users : users[u] = 0 <=> owner[u] = NoWorker
    BY <2>0 DEF OwnerOK
  <2>5. pc \in [Workers -> {"idle", "rpush", "ltrim", "members", "users", "file",
                            "dispatch", "lrange", "answer"}]
    BY <2>0 DEF WorkOK, Steps
  <2> QED
    BY <2>0, <2>1, <2>2, <2>3, <2>4, <2>5 DEF TypeOK, TablesOK
<1> QED
  BY <1>1, InvCorrect, PTL

\* However many workers push and trim at a time, a history is the end of all
\* that was pushed, and as long as it should be (RedisClient.cc:125-137).
THEOREM HistoryCorrect == Spec => []HistoryIsLatest
<1>1. ASSUME Inv, NEW t \in Talks
      PROVE  /\ IsSuffix(hist[t], pushed[t])
             /\ Len(hist[t]) >= Min({Cap, Len(pushed[t])})
             /\ Len(hist[t]) <= Cap + Cardinality(Trimming(t))
  <2>1. /\ EndOf(hist[t], pushed[t])
        /\ Len(hist[t]) >= Cap \/ Len(hist[t]) >= Len(pushed[t])
        /\ Len(hist[t]) <= Cap + Cardinality(Trimming(t))
    BY <1>1 DEF Inv, HistoriesOK
  <2>2. /\ hist[t] \in Seq(Messages) /\ pushed[t] \in Seq(Messages)
        /\ Len(hist[t]) \in Nat /\ Len(pushed[t]) \in Nat /\ Cap \in Nat
    BY <1>1, LenProperties, ConstantTypes DEF Inv, TablesOK
  <2>3. IsSuffix(hist[t], pushed[t])
    BY <2>1, <2>2, EndOfIsSuffix
  <2>4. /\ Min({Cap, Len(pushed[t])}) \in {Cap, Len(pushed[t])}
        /\ \A y \in {Cap, Len(pushed[t])} : Min({Cap, Len(pushed[t])}) <= y
    <3>1. \E x \in {Cap, Len(pushed[t])} : \A y \in {Cap, Len(pushed[t])} : x <= y
      BY <2>2
    <3> QED
      BY <3>1 DEF Min
  <2>5. Len(hist[t]) >= Min({Cap, Len(pushed[t])})
    <3> DEFINE k == Min({Cap, Len(pushed[t])})
    <3>1. k \in Nat /\ k <= Cap /\ k <= Len(pushed[t])
      BY <2>2, <2>4
    <3> HIDE DEF k
    <3>2. Len(hist[t]) >= k
      BY <2>1, <2>2, <3>1
    <3> QED
      BY <3>2 DEF k
  <2> QED
    BY <2>1, <2>3, <2>5
<1>2. Inv => HistoryIsLatest
  BY <1>1 DEF HistoryIsLatest
<1> QED
  BY <1>2, InvCorrect, PTL

\* The messages of one sender stay in order, on every screen and in every
\* history, since one worker serves the sender from one frame to the next
\* (Worker.cc:56-87, connection.cc:694-740).
THEOREM OrderCorrect == Spec => []SenderOrder
<1>1. ASSUME Inv, NEW u \in Users
      PROVE  \A i, j \in DOMAIN screen[u] :
               i < j /\ screen[u][i].by = screen[u][j].by => screen[u][i].no < screen[u][j].no
  <2>1. DOMAIN screen[u] = 1 .. Len(screen[u])
    BY <1>1, LenProperties DEF Inv, TablesOK
  <2> QED
    BY <1>1, <2>1 DEF Inv, ScreensOK
<1>2. ASSUME Inv, NEW t \in Talks
      PROVE  \A i, j \in DOMAIN hist[t] :
               i < j /\ hist[t][i].by = hist[t][j].by => hist[t][i].no < hist[t][j].no
  <2> DEFINE d == Len(pushed[t]) - Len(hist[t])
  <2>1. /\ DOMAIN hist[t] = 1 .. Len(hist[t])
        /\ Len(hist[t]) \in Nat /\ Len(pushed[t]) \in Nat
    BY <1>1, <1>2, LenProperties DEF Inv, TablesOK
  <2>2. /\ Len(hist[t]) <= Len(pushed[t])
        /\ \A i \in 1 .. Len(hist[t]) : hist[t][i] = pushed[t][i + d]
    BY <1>2 DEF Inv, HistoriesOK, EndOf
  <2>3. ASSUME NEW i \in 1 .. Len(hist[t]), NEW j \in 1 .. Len(hist[t]), i < j
        PROVE  i + d \in 1 .. Len(pushed[t]) /\ j + d \in 1 .. Len(pushed[t]) /\ i + d < j + d
    <3>1. Len(hist[t]) <= Len(pushed[t])
      BY <2>2
    <3>2. d \in Nat /\ Len(hist[t]) + d = Len(pushed[t])
      BY <2>1, <3>1
    <3> HIDE DEF d
    <3> QED
      BY <2>1, <2>3, <3>2
  <2>4. \A i, j \in 1 .. Len(pushed[t]) : i < j /\ pushed[t][i].by = pushed[t][j].by =>
          pushed[t][i].no < pushed[t][j].no
    BY <1>2 DEF Inv, PushedOK
  <2> HIDE DEF d
  <2> QED
    BY <2>1, <2>2, <2>3, <2>4
<1>3. Inv => SenderOrder
  BY <1>1, <1>2 DEF SenderOrder
<1> QED
  BY <1>3, InvCorrect, PTL

\* Each addressee of a message gets it once, or one notice of it, or has closed
\* its connection meanwhile, whatever happens to the others
\* (connection.cc:708-738, 1462-1483).
THEOREM FatesCorrect == Spec => []NobodyForgotten
<1>1. ASSUME Inv, NEW t \in Talks, NEW i \in DOMAIN pushed[t], NEW x \in t,
             NEW m, m = pushed[t][i], m # Old(t), x # m.by, ~InHand(m, x),
             << m, x >> \notin skipped
      PROVE  Cardinality({f \in fate : f[1] = m /\ f[2] = x}) = 1
  <2>0. TablesOK /\ PushedOK /\ FatesOK /\ x \in Users
    BY <1>1, ConstantTypes DEF Inv
  <2>1. i \in 2 .. Len(pushed[t])
    <3>1. DOMAIN pushed[t] = 1 .. Len(pushed[t]) /\ Len(pushed[t]) \in Nat
      BY <2>0, LenProperties DEF TablesOK
    <3>2. i # 1
      BY <1>1, <2>0 DEF PushedOK
    <3> QED
      BY <3>1, <3>2
  <2>2. \A w \in Workers : cur[w].msg = m => ~Pending(w, x)
    BY <1>1 DEF InHand, Pending, Sending, Storing
  <2>3. PICK f \in fate : f[1] = m /\ f[2] = x
    BY <1>1, <2>0, <2>1, <2>2 DEF FatesOK
  <2>4. {g \in fate : g[1] = m /\ g[2] = x} = {f}
    BY <2>0, <2>3 DEF FatesOK
  <2> QED
    BY <2>4, FS_Singleton
<1>2. Inv => NobodyForgotten
  BY <1>1 DEF NobodyForgotten
<1> QED
  BY <1>2, InvCorrect, PTL

\* Whoever opens a talk misses none of its last messages, and none of those
\* that follow (connection.cc:1173-1196, 1441-1484, 694-740).
THEOREM OpenedCorrect == Spec => []OpenedIsComplete
<1>1. ASSUME Inv, NEW u \in Users, NEW t \in Talks, session[u] # 0,
             opened[u][t] # NotOpened, NEW i \in DOMAIN pushed[t],
             NEW m, m = pushed[t][i], i + Recent > opened[u][t], m.by # u
      PROVE  \/ m \in ToSet(screen[u]) \cup listed[u]
             \/ InHand(m, u)
             \/ << m, u >> \in skipped
  <2>0. TablesOK /\ OpenedOK
    BY <1>1 DEF Inv
  <2>1. opened[u][t] \in 0 .. MaxMessages + 1
    BY <1>1, <2>0, ConstantTypes DEF TablesOK, NotOpened
  <2>2. DOMAIN pushed[t] = 1 .. Len(pushed[t]) /\ Len(pushed[t]) \in Nat
    BY <2>0, LenProperties DEF TablesOK
  <2>3. /\ Follows(u, t, opened[u][t]) /\ Shown(t, opened[u][t], listed[u])
    BY <1>1, <2>0, <2>1 DEF OpenedOK
  <2>4. CASE i <= opened[u][t]
    BY <1>1, <2>2, <2>3, <2>4 DEF Shown
  <2>5. CASE i > opened[u][t]
    <3>1. Coming(m, u)
      BY <1>1, <2>2, <2>3, <2>5 DEF Follows
    <3> QED
      BY <3>1 DEF Coming, InHand, Sending, Storing
  <2> QED
    BY <2>1, <2>2, <2>4, <2>5
<1>2. Inv => OpenedIsComplete
  BY <1>1 DEF OpenedIsComplete
<1> QED
  BY <1>2, InvCorrect, PTL
=============================================================================
