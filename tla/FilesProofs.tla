---------------------------- MODULE FilesProofs ----------------------------
(***************************************************************************)
(* What is uploaded without disturbance is on the server in full.  The     *)
(* argument follows the two connections of a transfer: on the control      *)
(* connection client and server take turns, so that of one command at a    *)
(* time there is one stage of the work; the data connection of a transfer  *)
(* is its own, since the buffers from which its thread takes the port, the *)
(* address and the chunks are used by no other thread that runs at a time. *)
(***************************************************************************)
EXTENDS Files, FiniteSetTheorems, SequenceTheorems, WellFoundedInduction, TLAPS

\* What the tables hold.
Threads == [at : Steps \ {"none"}, kind : Kinds, by : Users, key : Keys, name : Transfers,
            pos : 0 .. Chunks, on : 0 .. Workers - 1]
NoThread == [at |-> "none"]
Bytes == None .. Address
Commands == {"PASV", "STOR", "RETR"}
Links == [to : Transfers \cup {None}, q : Seq(Bytes), eof : BOOLEAN]
Ports == [pend : Seq(Transfers), open : BOOLEAN, data : Transfers \cup {None}]
Tasks == [at : {"wait", "accept", "recv", "send", "lrem"}, t : Transfers \cup {None},
          f : Transfers \cup {None}, pos : Nat]

ListsOK ==
    /\ paths \in [Keys -> Seq(Transfers)]
    /\ names \in [Users -> [Keys -> Seq(Transfers)]]
    /\ cache \in [Users -> [Keys -> Seq(Transfers)]]
    /\ chat \in [Users -> Seq(Asks)]
    /\ alive \subseteq Users /\ muddled \subseteq Keys
    /\ crashed \in Transfers \cup {None}

SocketsOK ==
    /\ x \in [Transfers -> Threads \cup {NoThread}]
    /\ file \in [Transfers -> Seq(Bytes)] /\ opened \subseteq Transfers
    /\ arr \in [Users -> Replies] /\ ass \in [Users -> Bytes]
    /\ ctl \in [Transfers -> Seq(Commands)]
    /\ rep \in [Transfers -> Seq(Replies)]
    /\ link \in [Transfers -> Links] /\ port \in [Transfers -> Ports]
    /\ wk \in [0 .. Workers - 1 -> Tasks] /\ next \in Nat

\* Transfers are started one after the other.
CountOK == \E n \in 0 .. MaxTransfers : Started = 1 .. n

TablesOK == ListsOK /\ SocketsOK /\ CountOK

Serves(w, t) == wk[w].at # "wait" /\ wk[w].t = t
Live(t) == x[t].at \notin Over
Waits(t) == x[t].at \in {"227", "parse", "connect"}
Unconnected(t) == x[t].at \in {"none", "start"} \/ Waits(t)
Fresh(t) == file[t] = << >> /\ link[t].q = << >> /\ ~link[t].eof

\* The server has answered PASV, and waits for a connection or has it.
Opened(t) ==
    \/ \E w \in 0 .. Workers - 1 : wk[w].at = "accept" /\ wk[w].t = t
    \/ port[t].data # None

RepliesTo(t) == {r \in Replies : r[2] \in {None, t}}

\* The control connection of t: client and server take turns.
LineOK(t) ==
    /\ ctl[t] \in {<< >>, << "PASV" >>, << "STOR" >>, << "RETR" >>}
    /\ rep[t] \in Seq(RepliesTo(t))
    /\ x[t].at \in {"none", "start"} =>
          /\ ctl[t] = << >> /\ rep[t] = << >> /\ port[t] = closed
          /\ Fresh(t) /\ link[t].to = None
    /\ x[t].at # "none" /\ x[t].kind = "up" => x[t].name = t
    /\ x[t].at = "send" => x[t].pos < Chunks /\ x[t].kind = "up"
    /\ ctl[t] = << "PASV" >> =>
          x[t].at \in {"227", "dead"} /\ rep[t] = << >> /\ port[t] = closed
    /\ ctl[t] \in {<< "STOR" >>, << "RETR" >>} =>
          /\ x[t].at \in {"150", "dead"} /\ Opened(t)
          /\ x[t].at = "150" => rep[t] = << >>
          /\ x[t].kind = "up" <=> ctl[t] = << "STOR" >>
    /\ x[t].at = "227" /\ ctl[t] = << >> => rep[t] = << << "227", t >> >> /\ Opened(t)
    /\ x[t].at \in {"parse", "connect"} => ctl[t] = << >> /\ rep[t] = << >> /\ Opened(t)

LinesOK == \A t \in Transfers : LineOK(t)

\* What a worker is at: a command of its own client, which waits for the end.
TaskOK(w) ==
    wk[w].at # "wait" =>
        LET t == wk[w].t IN
        /\ t \in Transfers /\ x[t].at \notin {"none", "start"} /\ x[t].on = w
        /\ ctl[t] # << "PASV" >>
        /\ wk[w].at # "accept" => wk[w].f \in Transfers /\ ctl[t] = << >> /\ ~Waits(t)
        /\ wk[w].at \in {"recv", "send"} => port[t].data # None
        /\ wk[w].at = "recv" => wk[w].f = t /\ x[t].kind = "up"
        /\ wk[w].at \in {"send", "lrem"} => x[t].kind = "down"

TasksOK == \A w \in 0 .. Workers - 1 : TaskOK(w)

\* Two threads of one program that run at a time are no orderly transfers.
ApartOK ==
    \A s, t \in Transfers :
        s # t /\ Live(s) /\ Live(t) /\ x[s].by = x[t].by => x[s].key \in muddled

\* Who is connected to a port, or waits there, has been led to it.
ConnectedOK ==
    \A p, s \in Transfers :
        s \in ToSet(port[p].pend) \/ port[p].data = s => link[s].to = p /\ ~Unconnected(s)

\* Nobody is led to the port of an orderly transfer but its own thread.
Quiet(t) == x[t].at = "none" \/ Orderly(x[t].key)
LedOK ==
    \A s, t \in Transfers :
        s # t /\ Quiet(t) =>
            link[s].to # t /\ (x[s].at = "parse" => arr[x[s].by][2] # t)

FileOf(t) == file[t] \o link[t].q
Chunk(t, n) == [i \in 1 .. n |-> t]

\* The worker of t is at some part of its command, or at none.
Accepting(t) == LET w == x[t].on IN wk[w].at = "accept" /\ wk[w].t = t
Receiving(t) ==
    LET w == x[t].on IN wk[w].at = "recv" /\ wk[w].t = t /\ port[t].data = t /\ ctl[t] = << >>
Idle(t) == ~Serves(x[t].on, t)

\* An upload that nothing disturbs, step by step.
Undisturbed(t) ==
    LET at == x[t].at by == x[t].by IN
    /\ at \notin {"ended", "dead"}
    /\ link[t].to \in {None, t}
    /\ at \notin {"data", "send", "226", "chk226", "reported"} => x[t].pos = 0
    /\ at = "227" => Fresh(t)
    /\ Waits(t) /\ ctl[t] = << >> =>
          Fresh(t) /\ Accepting(t) /\ port[t] = [closed EXCEPT !.open = TRUE]
    /\ at = "parse" => arr[by] = << "227", t >>
    /\ at = "connect" => link[t].to = t /\ ass[by] = Address
    /\ at = "150" =>
          /\ Fresh(t) /\ link[t].to = t
          /\ \/ /\ ctl[t] = << "STOR" >>
                /\ \/ Accepting(t) /\ port[t] = [closed EXCEPT !.open = TRUE, !.pend = << t >>]
                   \/ Idle(t) /\ port[t].data = t
             \/ Receiving(t) /\ rep[t] = << << "150up", None >> >>
    /\ at = "chk150" => Fresh(t) /\ Receiving(t) /\ rep[t] = << >>
    /\ at \in {"data", "send"} =>
          Receiving(t) /\ rep[t] = << >> /\ ~link[t].eof /\ FileOf(t) = Chunk(t, x[t].pos)
    /\ at = "send" => ass[by] = t
    /\ at = "226" =>
          \/ Receiving(t) /\ rep[t] = << >> /\ link[t].eof /\ FileOf(t) = Whole(t)
          \/ Idle(t) /\ rep[t] = << << "226", None >> >> /\ ctl[t] = << >> /\ file[t] = Whole(t)
    /\ at \in {"chk226", "reported"} => Idle(t) /\ ctl[t] = << >> /\ file[t] = Whole(t)
    /\ at = "chk226" => arr[by] = << "226", None >>

UploadsOK ==
    \A t \in Transfers :
        x[t].at # "none" /\ x[t].kind = "up" /\ Orderly(x[t].key) => Undisturbed(t)

LinesInv == LinesOK /\ TasksOK
DataInv == ApartOK /\ ConnectedOK /\ LedOK
FilesInv == TablesOK /\ LinesInv /\ DataInv /\ UploadsOK

-----------------------------------------------------------------------------
(* Sequences.                                                              *)

\* What is in a sequence is of its type.
LEMMA ToSetIn ==
  ASSUME NEW S, NEW q \in Seq(S)
  PROVE  ToSet(q) \subseteq S
<1>1. \A i \in 1 .. Len(q) : q[i] \in S
  BY ElementOfSeq
<1>2. DOMAIN q = 1 .. Len(q)
  BY LenProperties
<1> QED
  BY <1>1, <1>2 DEF ToSet

\* What is taken from a sequence was in it, and what is left was too.
LEMMA HeadTailSet ==
  ASSUME NEW S, NEW q \in Seq(S), q # << >>
  PROVE  /\ Head(q) \in S /\ Tail(q) \in Seq(S)
         /\ Head(q) \in ToSet(q) /\ ToSet(Tail(q)) \subseteq ToSet(q)
<1>1. /\ Head(q) \in S /\ Tail(q) \in Seq(S) /\ Len(Tail(q)) = Len(q) - 1
      /\ \A i \in 1 .. Len(Tail(q)) : Tail(q)[i] = q[i + 1]
  BY HeadTailProperties
<1>2. /\ DOMAIN q = 1 .. Len(q) /\ DOMAIN Tail(q) = 1 .. Len(Tail(q))
      /\ Len(q) \in Nat \ {0}
  BY <1>1, LenProperties, EmptySeq
<1>3. Head(q) = q[1]
  OBVIOUS
<1> QED
  BY <1>1, <1>2, <1>3 DEF ToSet

\* Nothing is in an empty sequence.
LEMMA ToSetEmpty == ToSet(<< >>) = {}
<1>1. << >> \in Seq({})
  BY EmptySeq
<1> QED
  BY <1>1, ToSetIn

\* A set of numbers that is not empty has a least one.
LEMMA LeastExists ==
  ASSUME NEW I \in SUBSET Nat, I # {}
  PROVE  \E i \in I : \A j \in I : i <= j
<1> DEFINE R == OpToRel(<, Nat)
<1>1. \E i \in I : \A j \in I : << j, i >> \notin R
  <2>1. IsWellFoundedOn(R, Nat)
    BY NatLessThanWellFounded
  <2> HIDE DEF R
  <2> QED
    BY <2>1, WFMin
<1>2. \A i, j \in Nat : << j, i >> \in R <=> j < i
  BY DEF OpToRel
<1> HIDE DEF R
<1>3. PICK i \in I : \A j \in I : << j, i >> \notin R
  BY <1>1
<1>4. \A j \in I : ~(j < i)
  BY <1>2, <1>3
<1>5. i \in Nat /\ \A j \in I : j \in Nat
  OBVIOUS
<1>6. \A j \in I : i <= j
  BY <1>4, <1>5
<1> QED
  BY <1>6

\* RemoveFirst keeps a sequence's type.
LEMMA RemoveFirstSeq ==
  ASSUME NEW S, NEW q \in Seq(S), NEW e
  PROVE  RemoveFirst(q, e) \in Seq(S)
<1>1. CASE ~\E i \in 1 .. Len(q) : q[i] = e
  BY <1>1 DEF RemoveFirst
<1>2. CASE \E i \in 1 .. Len(q) : q[i] = e
  <2> DEFINE I == {i \in 1 .. Len(q) : q[i] = e}
             n == CHOOSE i \in I : \A j \in I : i <= j
  <2>1. Len(q) \in Nat /\ \A i \in 1 .. Len(q) : q[i] \in S
    BY LenProperties, ElementOfSeq
  <2>2. I \in SUBSET Nat /\ I # {}
    BY <1>2, <2>1
  <2>3. n \in I
    <3> HIDE DEF I
    <3> QED
      BY <2>2, LeastExists
  <2>4. RemoveFirst(q, e) = SubSeq(q, 1, n - 1) \o SubSeq(q, n + 1, Len(q))
    BY <1>2, <2>2 DEF RemoveFirst, RemoveAt, SelectInSeq, Min
  <2>5. n \in 1 .. Len(q)
    BY <2>3
  <2> HIDE DEF n
  <2>6. SubSeq(q, 1, n - 1) \in Seq(S)
    <3>1. \A i \in 1 .. (n - 1) : q[i] \in S
      BY <2>1, <2>5
    <3> QED
      BY <2>5, <3>1, SubSeqProperties
  <2>7. SubSeq(q, n + 1, Len(q)) \in Seq(S)
    <3>1. \A i \in (n + 1) .. Len(q) : q[i] \in S
      BY <2>1, <2>5
    <3> QED
      BY <2>1, <2>5, <3>1, SubSeqProperties
  <2> QED
    BY <2>4, <2>6, <2>7, ConcatProperties
<1> QED
  BY <1>1, <1>2

\* What is left when the first n elements are taken.
LEMMA RestSeq ==
  ASSUME NEW S, NEW q \in Seq(S), NEW n \in DOMAIN q
  PROVE  /\ SubSeq(q, n + 1, Len(q)) \in Seq(S)
         /\ Len(q) = 1 => SubSeq(q, n + 1, Len(q)) = << >>
         /\ Head(q) \in S /\ q # << >>
<1>1. Len(q) \in Nat /\ n \in 1 .. Len(q) /\ \A i \in 1 .. Len(q) : q[i] \in S
  BY LenProperties, ElementOfSeq
<1>2. SubSeq(q, n + 1, Len(q)) \in Seq(S)
  <2>1. \A i \in (n + 1) .. Len(q) : q[i] \in S
    BY <1>1
  <2> QED
    BY <1>1, <2>1, SubSeqProperties
<1>3. Len(q) = 1 => SubSeq(q, n + 1, Len(q)) = << >>
  BY <1>1, SubSeqEmpty
<1>4. q # << >>
  BY <1>1, EmptySeq
<1> QED
  BY <1>2, <1>3, <1>4, HeadTailProperties

\* A chunk that passes from what is under way to what is written.
LEMMA ChunkPasses ==
  ASSUME NEW S, NEW f \in Seq(S), NEW q \in Seq(S), q # << >>
  PROVE  Append(f, Head(q)) \o Tail(q) = f \o q
<1> DEFINE h == Head(q)
<1>1. h \in S /\ Tail(q) \in Seq(S)
  BY HeadTailProperties
<1>2. << h >> \in Seq(S)
  BY <1>1
<1>3. Append(f, h) = f \o << h >>
  BY <1>1, AppendIsConcat
<1>4. q = << h >> \o Tail(q)
  <2>1. << h >> \o Tail(q) \in Seq(S) /\ Len(<< h >> \o Tail(q)) = Len(q)
    BY <1>1, <1>2, ConcatProperties, HeadTailProperties, LenProperties
  <2>2. \A i \in 1 .. Len(q) : (<< h >> \o Tail(q))[i] = q[i]
    BY <1>1, <1>2, ConcatProperties, HeadTailProperties, LenProperties
  <2> QED
    BY <2>1, <2>2, SeqEqual
<1>5. (f \o << h >>) \o Tail(q) = f \o (<< h >> \o Tail(q))
  BY <1>1, <1>2, ConcatAssociative
<1> QED
  BY <1>3, <1>4, <1>5

\* A chunk that is sent is the next of all that were.
LEMMA ChunkSent ==
  ASSUME NEW S, NEW f \in Seq(S), NEW q \in Seq(S), NEW c \in S
  PROVE  f \o Append(q, c) = Append(f \o q, c)
<1>1. << c >> \in Seq(S)
  OBVIOUS
<1>2. f \o q \in Seq(S)
  BY ConcatProperties
<1>3. Append(q, c) = q \o << c >> /\ Append(f \o q, c) = (f \o q) \o << c >>
  BY <1>2, AppendIsConcat
<1> QED
  BY <1>1, <1>3, ConcatAssociative

\* The chunks of an upload.
LEMMA ChunkNext ==
  ASSUME NEW t, NEW n \in Nat
  PROVE  /\ Append(Chunk(t, n), t) = Chunk(t, n + 1)
         /\ Chunk(t, 0) = << >> /\ Chunk(t, Chunks) = Whole(t)
<1>1. \A m \in Nat : Chunk(t, m) \in Seq({t}) /\ Len(Chunk(t, m)) = m
                     /\ \A i \in 1 .. m : Chunk(t, m)[i] = t
  BY IsASeq DEF Chunk
<1>2. Append(Chunk(t, n), t) = Chunk(t, n + 1)
  <2>1. /\ Append(Chunk(t, n), t) \in Seq({t})
        /\ Len(Append(Chunk(t, n), t)) = n + 1
        /\ \A i \in 1 .. n + 1 : Append(Chunk(t, n), t)[i] = t
    BY <1>1, AppendProperties
  <2> QED
    BY <1>1, <2>1, SeqEqual
<1>3. Chunk(t, 0) = << >>
  BY <1>1, EmptySeq
<1> QED
  BY <1>2, <1>3 DEF Chunk, Whole

-----------------------------------------------------------------------------
(* The constants, the start and the type invariant.                        *)

\* What is known of the constants, and that a number is no address.
LEMMA Bounds ==
  /\ Workers \in Nat \ {0} /\ Chunks \in Nat \ {0} /\ MaxTransfers \in Nat
  /\ None \notin Transfers /\ Address \notin Transfers /\ Address # None
  /\ Transfers \subseteq Nat /\ Transfers \subseteq Bytes
  /\ None \in Bytes /\ Address \in Bytes
BY FilesAssumption DEF Transfers, None, Address, Bytes

\* Nothing has been started (FTP_client.cc:6-7, FTPconnect.cc:5-10).
LEMMA FilesInit == Init => FilesInv
<1> SUFFICES ASSUME Init PROVE FilesInv
  OBVIOUS
<1>1. \A S : << >> \in Seq(S)
  BY EmptySeq
<1>0. /\ paths = [k \in Keys |-> << >>]
      /\ names = [u \in Users |-> [k \in Keys |-> << >>]]
      /\ file = [t \in Transfers |-> << >>] /\ opened = {}
      /\ x = [t \in Transfers |-> [at |-> "none"]]
      /\ ass = [u \in Users |-> None]
      /\ cache = [u \in Users |-> [k \in Keys |-> << >>]]
      /\ chat = [u \in Users |-> << >>]
      /\ alive = Users
      /\ ctl = [t \in Transfers |-> << >>] /\ rep = [t \in Transfers |-> << >>]
      /\ link = [t \in Transfers |-> [to |-> None, q |-> << >>, eof |-> FALSE]]
      /\ port = [t \in Transfers |-> closed]
      /\ wk = [w \in 0 .. Workers - 1 |-> free] /\ next = 0
      /\ crashed = None /\ muddled = {}
  BY DEF Init
<1>2. ListsOK
  BY <1>0, <1>1, Bounds DEF ListsOK
<1>3. SocketsOK
  <2>1. arr \in [Users -> Replies]
    BY DEF Init, Replies
  <2>2. [to |-> None, q |-> << >>, eof |-> FALSE] \in Links /\ closed \in Ports
    BY <1>1 DEF Links, Ports, closed
  <2>3. free \in Tasks
    BY DEF free, Tasks
  <2>4. x \in [Transfers -> Threads \cup {NoThread}]
    BY <1>0 DEF NoThread
  <2> QED
    BY <1>1, <2>1, <2>2, <2>3, <2>4, Bounds, <1>0 DEF SocketsOK
<1>4. CountOK
  <2>1. Started = {}
    BY <1>0 DEF Started
  <2> QED
    BY <2>1, Bounds DEF CountOK
<1>5. LinesOK
  BY <1>0, <1>1 DEF LinesOK, LineOK, Fresh
<1>6. TasksOK
  BY <1>0 DEF TasksOK, TaskOK, free
<1>7. ApartOK /\ LedOK
  BY <1>0, Bounds DEF ApartOK, LedOK, Live, Over
<1>8. ConnectedOK
  <2>1. ToSet(<< >>) = {}
    BY ToSetEmpty
  <2> QED
    BY <1>0, <2>1, Bounds DEF ConnectedOK, closed
<1>9. UploadsOK
  BY <1>0 DEF UploadsOK
<1> QED
  BY <1>2, <1>3, <1>4, <1>5, <1>6, <1>7, <1>8, <1>9 DEF FilesInv, TablesOK, LinesInv, DataInv

\* What the tables hold is what the type invariant says.
LEMMA TablesType == TablesOK => TypeOK
<1> SUFFICES ASSUME TablesOK PROVE TypeOK
  OBVIOUS
<1>1. \A k \in Keys : ToSet(paths[k]) \subseteq Transfers
  BY ToSetIn DEF TablesOK, ListsOK
<1>2. ASSUME NEW u \in Users
      PROVE  /\ ToSet(chat[u]) \subseteq Asks
             /\ \A k \in Keys :
                  ToSet(names[u][k]) \subseteq Transfers /\ ToSet(cache[u][k]) \subseteq Transfers
  <2>1. chat[u] \in Seq(Asks)
    BY DEF TablesOK, ListsOK
  <2>2. \A k \in Keys : names[u][k] \in Seq(Transfers) /\ cache[u][k] \in Seq(Transfers)
    BY DEF TablesOK, ListsOK
  <2> QED
    BY <2>1, <2>2, ToSetIn
<1>3. ASSUME NEW t \in Transfers
      PROVE  /\ x[t].at \in Steps
             /\ x[t].at # "none" => x[t] \in
                  [at : Steps, kind : Kinds, by : Users, key : Keys, name : Transfers,
                   pos : 0 .. Chunks, on : 0 .. Workers - 1]
             /\ ToSet(file[t]) \cup ToSet(link[t].q) \subseteq None .. Address
             /\ link[t].to \in Transfers \cup {None} /\ link[t].eof \in BOOLEAN
             /\ port[t].data \in Transfers \cup {None} /\ port[t].open \in BOOLEAN
  <2>1. /\ x[t] \in Threads \cup {NoThread} /\ file[t] \in Seq(Bytes)
        /\ link[t] \in Links /\ port[t] \in Ports
    BY DEF TablesOK, SocketsOK
  <2>2. x[t].at \in Steps
    BY <2>1 DEF Threads, NoThread, Steps
  <2>3. ASSUME x[t].at # "none"
        PROVE  x[t] \in [at : Steps, kind : Kinds, by : Users, key : Keys, name : Transfers,
                         pos : 0 .. Chunks, on : 0 .. Workers - 1]
    BY <2>1, <2>3 DEF Threads, NoThread
  <2>4. link[t].q \in Seq(Bytes) /\ link[t].to \in Transfers \cup {None}
        /\ link[t].eof \in BOOLEAN
    BY <2>1 DEF Links
  <2>5. port[t].data \in Transfers \cup {None} /\ port[t].open \in BOOLEAN
    BY <2>1 DEF Ports
  <2>6. ToSet(file[t]) \subseteq Bytes /\ ToSet(link[t].q) \subseteq Bytes
    BY <2>1, <2>4, ToSetIn
  <2> QED
    BY <2>2, <2>3, <2>4, <2>5, <2>6 DEF Bytes
<1>4. arr \in [Users -> Replies] /\ ass \in [Users -> None .. Address] /\ opened \subseteq Transfers
  BY DEF TablesOK, SocketsOK, Bytes
<1>5. \A w \in DOMAIN wk :
        /\ wk[w].at \in {"wait", "accept", "recv", "send", "lrem"}
        /\ wk[w].t \in Transfers \cup {None} /\ wk[w].f \in Transfers \cup {None}
  BY DEF TablesOK, SocketsOK, Tasks
<1>6. alive \subseteq Users /\ muddled \subseteq Keys /\ crashed \in Transfers \cup {None}
  BY DEF TablesOK, ListsOK
<1> QED
  BY <1>1, <1>2, <1>3, <1>4, <1>5, <1>6 DEF TypeOK

-----------------------------------------------------------------------------
(* What one thread or one worker does leaves the transfers of others alone. *)

Same(t) ==
    /\ x'[t] = x[t] /\ ctl'[t] = ctl[t] /\ rep'[t] = rep[t]
    /\ file'[t] = file[t] /\ link'[t] = link[t]

SameBuffers(u) == arr'[u] = arr[u] /\ ass'[u] = ass[u]
SameWork(t) ==
    LET w == x[t].on IN wk'[w] = wk[w] \/ (~Serves(w, t) /\ ~Serves(w, t)')

\* A thread takes a step.
ThreadMoves(s) ==
    /\ Live(s) /\ wk' = wk /\ muddled \subseteq muddled'
    /\ \A t \in Transfers \ {s} : Same(t)
    /\ \A t \in Transfers :
          \/ port'[t] = port[t]
          \/ /\ x[s].at = "connect" /\ link[s].to = t /\ port[t].open
             /\ port'[t] = [port[t] EXCEPT !.pend = Append(@, s)]
    /\ \A u \in Users \ {x[s].by} : SameBuffers(u)
    /\ x'[s].at \notin {"none", "start"} /\ (x[s].at # "start" => x'[s].on = x[s].on)
    /\ x'[s].by = x[s].by /\ x'[s].key = x[s].key
    /\ x'[s].kind = x[s].kind /\ x'[s].name = x[s].name

\* A worker takes a step of the commands of t.
WorkerMoves(w, t) ==
    /\ x[t].on = w /\ x[t].at \notin {"none", "start"}
    /\ x' = x /\ muddled \subseteq muddled'
    /\ arr' = arr /\ ass' = ass
    /\ wk[w].at = "wait" \/ wk[w].t = t
    /\ wk'[w].at = "wait" \/ wk'[w].t = t
    /\ \A v \in (0 .. Workers - 1) \ {w} : wk'[v] = wk[v]
    /\ \A s \in Transfers \ {t} :
          ctl'[s] = ctl[s] /\ rep'[s] = rep[s] /\ file'[s] = file[s] /\ port'[s] = port[s]
    /\ \A s \in Transfers :
          /\ link'[s].to = link[s].to
          /\ link'[s] = link[s] \/ s = port[t].data \/ s \in ToSet(port[t].pend)
    /\ ToSet(port'[t].pend) \subseteq ToSet(port[t].pend)
    /\ port'[t].data \in {None, port[t].data} \cup ToSet(port[t].pend)

\* The transfer a worker is at, and who is at the other end of its data connection.
ServedBy(w, t, d) == t = wk[w].t /\ d = port[t].data

\* Nothing an upload depends on has changed.
LEMMA UndisturbedStays ==
  ASSUME NEW t, Same(t), port'[t] = port[t], SameWork(t),
         Live(t) => SameBuffers(x[t].by), Undisturbed(t)
  PROVE  Undisturbed(t)'
<1> USE DEF Same
<1>1. /\ Fresh(t)' <=> Fresh(t)
      /\ Waits(t)' <=> Waits(t)
      /\ FileOf(t)' = FileOf(t)
      /\ Live(t)' <=> Live(t)
  BY DEF Fresh, Waits, FileOf, Live
<1>2. /\ Accepting(t)' <=> Accepting(t)
      /\ Receiving(t)' <=> Receiving(t)
      /\ Idle(t)' <=> Idle(t)
  BY DEF SameWork, Accepting, Receiving, Idle, Serves
<1>3. x[t].at \in {"parse", "connect", "send", "chk226"} => SameBuffers(x[t].by)
  BY DEF Live, Over
<1> QED
  BY <1>1, <1>2, <1>3 DEF Undisturbed, SameBuffers, Chunk, Whole, closed

\* An upload is no other one's business ...
LEMMA OtherUploads ==
  ASSUME FilesInv, NEW s \in Transfers, ThreadMoves(s), NEW t \in Transfers \ {s},
         x'[t].at # "none", x'[t].kind = "up", Orderly(x[t].key)'
  PROVE  Undisturbed(t)'
<1>1. Same(t) /\ x'[t] = x[t]
  BY DEF ThreadMoves, Same
<1>2. x[t].at # "none" /\ x[t].kind = "up" /\ Orderly(x[t].key)
  BY <1>1 DEF ThreadMoves, Orderly
<1>3. Undisturbed(t)
  BY <1>2 DEF FilesInv, UploadsOK
<1>4. SameWork(t)
  BY DEF ThreadMoves, SameWork
<1>5. port'[t] = port[t]
  BY <1>2 DEF FilesInv, DataInv, LedOK, Quiet, ThreadMoves
<1>6. ASSUME Live(t) PROVE SameBuffers(x[t].by)
  <2>1. x[t].by \in Users
    BY <1>2 DEF FilesInv, TablesOK, SocketsOK, Threads, NoThread
  <2>2. x[t].by # x[s].by
    BY <1>2, <1>6 DEF FilesInv, DataInv, ApartOK, ThreadMoves, Orderly
  <2> QED
    BY <2>1, <2>2 DEF ThreadMoves
<1> QED
  BY <1>1, <1>3, <1>4, <1>5, <1>6, UndisturbedStays

\* Which replies a transfer may be sent does not change.
LEMMA RepliesSame == \A t : RepliesTo(t)' = RepliesTo(t)
BY DEF RepliesTo, Replies

\* A line on which nothing was said, and whose port is as open as before.
LEMMA LineStays ==
  ASSUME NEW t, LineOK(t),
         x'[t] = x[t], ctl'[t] = ctl[t], rep'[t] = rep[t],
         x[t].at \in {"none", "start"} => file'[t] = file[t] /\ link'[t] = link[t],
         port[t] = closed => port'[t] = closed,
         Opened(t) => Opened(t)'
  PROVE  LineOK(t)'
<1>1. RepliesTo(t)' = RepliesTo(t)
  BY RepliesSame
<1>2. closed' = closed
  BY DEF closed
<1>3. /\ x[t].at \in {"none", "start"} => (Fresh(t) => Fresh(t)')
      /\ Waits(t)' <=> Waits(t)
  BY DEF Fresh, Waits
<1> QED
  BY <1>1, <1>2, <1>3 DEF LineOK

\* A thread does no more to a port than wait at it, if it is open.
LEMMA PortMoves ==
  ASSUME FilesInv, NEW s \in Transfers, ThreadMoves(s), NEW t \in Transfers
  PROVE  /\ port'[t].data = port[t].data
         /\ ~port[t].open => port'[t] = port[t]
<1>1. port[t] \in Ports
  BY DEF FilesInv, TablesOK, SocketsOK
<1>2. \/ port'[t] = port[t]
      \/ port[t].open /\ port'[t] = [port[t] EXCEPT !.pend = Append(@, s)]
  BY DEF ThreadMoves
<1> QED
  BY <1>1, <1>2 DEF Ports

\* A thread's step leaves the lines of others alone.
LEMMA OtherLines ==
  ASSUME FilesInv, NEW s \in Transfers, ThreadMoves(s), NEW t \in Transfers \ {s}
  PROVE  LineOK(t)'
<1>1. LineOK(t) /\ Same(t)
  BY DEF FilesInv, LinesInv, LinesOK, ThreadMoves
<1>2. port[t] = closed => port'[t] = closed
  BY PortMoves DEF closed
<1>3. Opened(t) => Opened(t)'
  BY PortMoves DEF ThreadMoves, Opened
<1> QED
  BY <1>1, <1>2, <1>3, LineStays DEF Same

\* A worker that has not moved, and whose client has not, is at the same stage.
LEMMA TaskStays ==
  ASSUME NEW w, TaskOK(w), wk'[w] = wk[w],
         wk[w].at # "wait" =>
            LET t == wk[w].t IN
            x'[t] = x[t] /\ ctl'[t] = ctl[t] /\ port'[t].data = port[t].data
  PROVE  TaskOK(w)'
<1>1. \A t : x'[t] = x[t] => (Waits(t)' <=> Waits(t))
  BY DEF Waits
<1> QED
  BY <1>1 DEF TaskOK

\* A thread's step leaves the workers of others alone.
LEMMA OtherTasks ==
  ASSUME FilesInv, NEW s \in Transfers, ThreadMoves(s), NEW w \in 0 .. Workers - 1,
         wk[w].t # s
  PROVE  TaskOK(w)'
<1>1. TaskOK(w) /\ wk'[w] = wk[w]
  BY DEF FilesInv, LinesInv, TasksOK, ThreadMoves
<1>2. ASSUME wk[w].at # "wait"
      PROVE  LET t == wk[w].t IN
             x'[t] = x[t] /\ ctl'[t] = ctl[t] /\ port'[t].data = port[t].data
  <2>1. wk[w].t \in Transfers \ {s}
    BY <1>1, <1>2 DEF TaskOK
  <2>2. Same(wk[w].t)
    BY <2>1 DEF ThreadMoves
  <2> QED
    BY <2>1, <2>2, PortMoves DEF Same
<1> QED
  BY <1>1, <1>2, TaskStays

\* A thread's step brings no two threads of a program together.
LEMMA StayApart ==
  ASSUME FilesInv, NEW s \in Transfers, ThreadMoves(s)
  PROVE  ApartOK'
<1> SUFFICES ASSUME NEW a \in Transfers, NEW b \in Transfers,
                    a # b, Live(a)', Live(b)', x'[a].by = x'[b].by
             PROVE  x'[a].key \in muddled'
  BY DEF ApartOK
<1>1. \A t \in Transfers :
        x'[t].by = x[t].by /\ x'[t].key = x[t].key /\ (Live(t)' => Live(t))
  BY DEF ThreadMoves, Same, Live
<1>2. x[a].key \in muddled
  BY <1>1 DEF FilesInv, DataInv, ApartOK
<1> QED
  BY <1>1, <1>2 DEF ThreadMoves

\* What was appended is in the sequence, with what was there.
LEMMA ToSetAppend ==
  ASSUME NEW S, NEW q \in Seq(S), NEW e \in S
  PROVE  ToSet(Append(q, e)) = ToSet(q) \cup {e}
<1>1. DOMAIN q = 1 .. Len(q) /\ Len(q) \in Nat
  BY LenProperties
<1>2. /\ DOMAIN Append(q, e) = 1 .. Len(q) + 1
      /\ \A i \in 1 .. Len(q) : Append(q, e)[i] = q[i]
      /\ Append(q, e)[Len(q) + 1] = e
  BY AppendProperties, LenProperties
<1> QED
  BY <1>1, <1>2 DEF ToSet

\* A thread's step connects no one to a port he was not led to.
LEMMA StayConnected ==
  ASSUME FilesInv, NEW s \in Transfers, ThreadMoves(s),
         Unconnected(s)' => Unconnected(s),
         link'[s].to = link[s].to \/ (Unconnected(s) /\ port' = port),
         x[s].at = "connect" => ~Unconnected(s)'
  PROVE  ConnectedOK'
<1> SUFFICES ASSUME NEW p \in Transfers, NEW t \in Transfers,
                    t \in ToSet(port'[p].pend) \/ port'[p].data = t
             PROVE  link'[t].to = p /\ ~Unconnected(t)'
  BY DEF ConnectedOK
<1>1. ASSUME t \in ToSet(port[p].pend) \/ port[p].data = t
      PROVE  link'[t].to = p /\ ~Unconnected(t)'
  <2>1. link[t].to = p /\ ~Unconnected(t)
    BY <1>1 DEF FilesInv, DataInv, ConnectedOK
  <2>2. CASE t = s
    BY <2>1, <2>2
  <2>3. CASE t # s
    BY <2>1, <2>3 DEF ThreadMoves, Same, Unconnected, Waits
  <2> QED
    BY <2>2, <2>3
<1>2. ASSUME port'[p] # port[p]
      PROVE  link'[t].to = p /\ ~Unconnected(t)'
  <2>1. /\ x[s].at = "connect" /\ link[s].to = p
        /\ port'[p] = [port[p] EXCEPT !.pend = Append(@, s)]
    BY <1>2 DEF ThreadMoves
  <2>2. port[p] \in Ports
    BY DEF FilesInv, TablesOK, SocketsOK
  <2>3. port'[p].data = port[p].data /\ port'[p].pend = Append(port[p].pend, s)
    BY <2>1, <2>2 DEF Ports
  <2>4. ToSet(port'[p].pend) = ToSet(port[p].pend) \cup {s}
    BY <2>2, <2>3, ToSetAppend DEF Ports
  <2>5. CASE t = s
    BY <1>2, <2>1, <2>5
  <2>6. CASE t # s
    BY <1>1, <2>3, <2>4, <2>6
  <2> QED
    BY <2>5, <2>6
<1> QED
  BY <1>1, <1>2

\* A thread's step leads nobody to the port of another's orderly transfer.
LEMMA StayLed ==
  ASSUME FilesInv, NEW s \in Transfers, ThreadMoves(s),
         \/ link'[s].to \in {None, link[s].to}
         \/ x[s].at = "parse" /\ link'[s].to = arr[x[s].by][2],
         arr' = arr \/ arr'[x[s].by][2] \in {None, s},
         x'[s].at = "parse" => arr'[x[s].by][2] \in {None, s}
  PROVE  LedOK'
<1> SUFFICES ASSUME NEW a \in Transfers, NEW b \in Transfers, a # b, Quiet(b)'
             PROVE  link'[a].to # b /\ (x'[a].at = "parse" => arr'[x'[a].by][2] # b)
  BY DEF LedOK
<1>1. Quiet(b)
  BY DEF Quiet, Orderly, ThreadMoves, Same, Live, Over
<1>2. link[a].to # b /\ (x[a].at = "parse" => arr[x[a].by][2] # b)
  BY <1>1 DEF FilesInv, DataInv, LedOK
<1>3. CASE a = s
  BY <1>2, <1>3, Bounds DEF ThreadMoves
<1>4. CASE a # s
  <2>1. Same(a) /\ x'[a] = x[a] /\ link'[a] = link[a]
    BY <1>4 DEF ThreadMoves, Same
  <2>2. ASSUME x[a].at = "parse" PROVE arr'[x[a].by][2] # b
    <3>1. x[a].by \in Users /\ Live(a)
      BY <2>2 DEF FilesInv, TablesOK, SocketsOK, Threads, NoThread, Live, Over
    <3>2. CASE x[a].by # x[s].by
      BY <1>2, <2>2, <3>1, <3>2 DEF ThreadMoves, SameBuffers
    <3>3. CASE x[a].by = x[s].by
      <4>1. x[s].key \in muddled
        BY <1>4, <3>1, <3>3 DEF FilesInv, DataInv, ApartOK, ThreadMoves
      <4>2. b # s
        BY <4>1 DEF Quiet, Orderly, ThreadMoves
      <4> QED
        BY <1>2, <2>2, <3>3, <4>2, Bounds
    <3> QED
      BY <3>2, <3>3
  <2> QED
    BY <1>2, <2>1, <2>2
<1> QED
  BY <1>3, <1>4

\* What remains to be seen of a step of a thread is its own line and its own
\* upload.
LEMMA ThreadKeeps ==
  ASSUME FilesInv, NEW s \in Transfers, ThreadMoves(s), TablesOK',
         Unconnected(s)' => Unconnected(s),
         x[s].at = "connect" => ~Unconnected(s)',
         \/ link'[s].to = link[s].to
         \/ link'[s].to = None /\ Unconnected(s) /\ port' = port
         \/ x[s].at = "parse" /\ link'[s].to = arr[x[s].by][2] /\ port' = port,
         arr' = arr \/ arr'[x[s].by][2] \in {None, s},
         x'[s].at = "parse" => arr'[x[s].by][2] \in {None, s},
         \/ x[s].at = "start"
         \/ Waits(s) /\ ctl'[s] \in {ctl[s], << "STOR" >>, << "RETR" >>}
         \/ ctl'[s] = ctl[s] /\ ~Waits(s)',
         LineOK(s)',
         x'[s].kind = "up" /\ Orderly(x[s].key)' => Undisturbed(s)'
  PROVE  FilesInv'
<1>1. LinesOK'
  BY OtherLines DEF LinesOK
<1>2. ASSUME NEW w \in 0 .. Workers - 1, wk[w].t = s PROVE TaskOK(w)'
  <2>1. TaskOK(w) /\ wk'[w] = wk[w]
    BY DEF FilesInv, LinesInv, TasksOK, ThreadMoves
  <2>2. port'[s].data = port[s].data
    BY PortMoves
  <2>3. CASE wk[w].at = "wait"
    BY <2>1, <2>3 DEF TaskOK
  <2>4. CASE wk[w].at # "wait"
    <3>1. /\ x[s].at \notin {"none", "start"} /\ x[s].on = w /\ ctl[s] # << "PASV" >>
          /\ x'[s].at \notin {"none", "start"} /\ x'[s].on = w /\ x'[s].kind = x[s].kind
      BY <1>2, <2>1, <2>4 DEF TaskOK, ThreadMoves
    <3>2. CASE Waits(s) /\ ctl'[s] \in {ctl[s], << "STOR" >>, << "RETR" >>}
      <4>1. wk[w].at = "accept"
        BY <1>2, <2>1, <2>4, <3>2 DEF TaskOK
      <4>2. ctl'[s] # << "PASV" >>
        BY <3>1, <3>2
      <4> QED
        BY <1>2, <2>1, <3>1, <4>1, <4>2 DEF TaskOK
    <3>3. CASE ctl'[s] = ctl[s] /\ ~Waits(s)'
      BY <1>2, <2>1, <2>2, <2>4, <3>1, <3>3 DEF TaskOK
    <3> QED
      BY <3>1, <3>2, <3>3
  <2> QED
    BY <2>3, <2>4
<1>3. TasksOK'
  BY <1>2, OtherTasks DEF TasksOK
<1>4. ApartOK'
  BY StayApart
<1>5. ConnectedOK'
  BY StayConnected DEF Unconnected, Waits
<1>6. LedOK'
  BY StayLed
<1>7. UploadsOK'
  <2>1. ASSUME NEW t \in Transfers, x'[t].at # "none", x'[t].kind = "up", Orderly(x[t].key)'
        PROVE  Undisturbed(t)'
    <3>1. x'[s].key = x[s].key
      BY DEF ThreadMoves
    <3> QED
      BY <2>1, <3>1, OtherUploads DEF Orderly
  <2> QED
    BY <2>1 DEF UploadsOK
<1> QED
  BY <1>1, <1>3, <1>4, <1>5, <1>6, <1>7 DEF FilesInv, LinesInv, DataInv

\* A worker's step: the same, for the transfers it does not serve.
LEMMA WorkerLines ==
  ASSUME FilesInv, NEW w \in 0 .. Workers - 1, NEW t \in Transfers, WorkerMoves(w, t),
         NEW s \in Transfers \ {t}
  PROVE  LineOK(s)'
<1>1. LineOK(s) /\ x'[s] = x[s] /\ ctl'[s] = ctl[s] /\ rep'[s] = rep[s]
      /\ file'[s] = file[s] /\ port'[s] = port[s]
  BY DEF FilesInv, LinesInv, LinesOK, WorkerMoves
<1>2. ASSUME x[s].at \in {"none", "start"} PROVE link'[s] = link[s]
  <2>1. ~(s = port[t].data \/ s \in ToSet(port[t].pend))
    BY <1>2 DEF FilesInv, DataInv, ConnectedOK, Unconnected
  <2> QED
    BY <2>1 DEF WorkerMoves
<1>3. ASSUME Opened(s) PROVE Opened(s)'
  <2>1. CASE port[s].data # None
    BY <1>1, <2>1 DEF Opened
  <2>2. CASE \E v \in 0 .. Workers - 1 : wk[v].at = "accept" /\ wk[v].t = s
    <3>1. PICK v \in 0 .. Workers - 1 : wk[v].at = "accept" /\ wk[v].t = s
      BY <2>2
    <3>2. v # w
      BY <3>1 DEF WorkerMoves
    <3> QED
      BY <3>1, <3>2 DEF WorkerMoves, Opened
  <2> QED
    BY <1>3, <2>1, <2>2 DEF Opened
<1> QED
  BY <1>1, <1>2, <1>3, LineStays

\* A worker's step leaves the other workers at their stages.
LEMMA WorkerTasks ==
  ASSUME FilesInv, NEW w \in 0 .. Workers - 1, NEW t \in Transfers, WorkerMoves(w, t),
         NEW v \in (0 .. Workers - 1) \ {w}
  PROVE  TaskOK(v)'
<1>1. TaskOK(v) /\ wk'[v] = wk[v]
  BY DEF FilesInv, LinesInv, TasksOK, WorkerMoves
<1>2. ASSUME wk[v].at # "wait"
      PROVE  LET s == wk[v].t IN
             x'[s] = x[s] /\ ctl'[s] = ctl[s] /\ port'[s].data = port[s].data
  <2>1. wk[v].t \in Transfers \ {t}
    BY <1>1, <1>2 DEF TaskOK, WorkerMoves
  <2> QED
    BY <2>1 DEF WorkerMoves
<1> QED
  BY <1>1, <1>2, TaskStays

\* A worker's step connects and leads nobody elsewhere.
LEMMA WorkerData ==
  ASSUME FilesInv, NEW w \in 0 .. Workers - 1, NEW t \in Transfers, WorkerMoves(w, t)
  PROVE  DataInv'
<1>1. x' = x /\ arr' = arr /\ muddled \subseteq muddled'
      /\ \A s \in Transfers : link'[s].to = link[s].to
  BY DEF WorkerMoves
<1>2. ApartOK'
  BY <1>1 DEF FilesInv, DataInv, ApartOK, Live
<1>3. \A s \in Transfers : Quiet(s)' => Quiet(s)
  BY <1>1 DEF Quiet, Orderly
<1>4. LedOK'
  BY <1>1, <1>3 DEF FilesInv, DataInv, LedOK
<1>5. ConnectedOK'
  <2> SUFFICES ASSUME NEW p \in Transfers, NEW s \in Transfers,
                      s \in ToSet(port'[p].pend) \/ port'[p].data = s
               PROVE  link'[s].to = p /\ ~Unconnected(s)'
    BY DEF ConnectedOK
  <2>1. s \in ToSet(port[p].pend) \/ port[p].data = s
    <3>1. CASE p = t
      BY <3>1, Bounds DEF WorkerMoves
    <3>2. CASE p # t
      BY <3>2 DEF WorkerMoves
    <3> QED
      BY <3>1, <3>2
  <2>2. link[s].to = p /\ ~Unconnected(s)
    BY <2>1 DEF FilesInv, DataInv, ConnectedOK
  <2> QED
    BY <1>1, <2>2 DEF Unconnected, Waits
<1> QED
  BY <1>2, <1>4, <1>5 DEF DataInv

\* A worker's step disturbs no upload but its client's.
LEMMA WorkerUploads ==
  ASSUME FilesInv, NEW w \in 0 .. Workers - 1, NEW t \in Transfers, WorkerMoves(w, t),
         NEW s \in Transfers \ {t}, x'[s].at # "none", x'[s].kind = "up", Orderly(x[s].key)'
  PROVE  Undisturbed(s)'
<1>1. /\ x'[s] = x[s] /\ ctl'[s] = ctl[s] /\ rep'[s] = rep[s]
      /\ file'[s] = file[s] /\ port'[s] = port[s] /\ SameBuffers(x[s].by)
  BY DEF WorkerMoves, SameBuffers
<1>2. Undisturbed(s)
  BY <1>1 DEF FilesInv, UploadsOK, WorkerMoves, Orderly
<1>3. link'[s] = link[s]
  <2>1. ~(s = port[t].data \/ s \in ToSet(port[t].pend))
    BY <1>2, Bounds DEF FilesInv, DataInv, ConnectedOK, Undisturbed
  <2> QED
    BY <2>1 DEF WorkerMoves
<1>4. SameWork(s)
  <2>1. x[s].on \in 0 .. Workers - 1
    BY <1>1 DEF FilesInv, TablesOK, SocketsOK, Threads, NoThread
  <2>2. CASE x[s].on = w
    BY <1>1, <2>2 DEF WorkerMoves, SameWork, Serves
  <2>3. CASE x[s].on # w
    BY <2>1, <2>3 DEF WorkerMoves, SameWork
  <2> QED
    BY <2>2, <2>3
<1> QED
  BY <1>1, <1>2, <1>3, <1>4, UndisturbedStays DEF Same

\* What remains to be seen of a worker's step is its task, and the line and
\* the upload of its client.
LEMMA WorkerKeeps ==
  ASSUME FilesInv, NEW w \in 0 .. Workers - 1, NEW t \in Transfers, WorkerMoves(w, t),
         TablesOK', TaskOK(w)', LineOK(t)',
         x'[t].kind = "up" /\ Orderly(x[t].key)' => Undisturbed(t)'
  PROVE  FilesInv'
<1>1. LinesOK'
  BY WorkerLines DEF LinesOK
<1>2. TasksOK'
  BY WorkerTasks DEF TasksOK
<1>3. x' = x
  BY DEF WorkerMoves
<1>4. UploadsOK'
  BY <1>3, WorkerUploads DEF UploadsOK, Orderly
<1> QED
  BY <1>1, <1>2, <1>4, WorkerData DEF FilesInv, LinesInv

-----------------------------------------------------------------------------
(* The steps of the transfer threads.                                      *)

\* Only a start changes the number of transfers.
LEMMA CountStays ==
  ASSUME CountOK, \A t \in Transfers : x'[t].at = "none" <=> x[t].at = "none"
  PROVE  CountOK'
<1>1. Started' = Started
  BY DEF Started
<1> QED
  BY <1>1 DEF CountOK

\* The turn is one of the workers'.
LEMMA Remainder ==
  ASSUME NEW n \in Nat, NEW k \in Nat \ {0}
  PROVE  n % k \in 0 .. k - 1
OBVIOUS

\* What is known of a transfer's entries.
LEMMA ThreadTypes ==
  ASSUME FilesInv, NEW s \in Transfers
  PROVE  /\ Live(s) => x[s] \in Threads
         /\ link[s] \in Links /\ port[s] \in Ports /\ LineOK(s)
         /\ file[s] \in Seq(Bytes) /\ ctl[s] \in Seq(Commands) /\ rep[s] \in Seq(RepliesTo(s))
BY DEF FilesInv, TablesOK, SocketsOK, LinesInv, LinesOK, LineOK, Live, Over, NoThread

\* A thread goes on to another step.
LEMMA Goes ==
  ASSUME FilesInv, NEW s \in Transfers, Live(s), NEW a \in Steps \ {"none"}, To(s, a)
  PROVE  /\ x' \in [Transfers -> Threads \cup {NoThread}] /\ CountOK'
         /\ \A t \in Transfers \ {s} : x'[t] = x[t]
         /\ x'[s] \in Threads /\ x'[s].at = a
         /\ x'[s].by = x[s].by /\ x'[s].key = x[s].key /\ x'[s].kind = x[s].kind
         /\ x'[s].name = x[s].name /\ x'[s].pos = x[s].pos /\ x'[s].on = x[s].on
<1>1. x \in [Transfers -> Threads \cup {NoThread}] /\ x[s] \in Threads
  BY ThreadTypes DEF FilesInv, TablesOK, SocketsOK
<1>2. x' = [x EXCEPT ![s] = [x[s] EXCEPT !.at = a]] /\ [x[s] EXCEPT !.at = a] \in Threads
  BY <1>1 DEF To, Threads
<1>3. /\ x' \in [Transfers -> Threads \cup {NoThread}]
      /\ \A t \in Transfers \ {s} : x'[t] = x[t]
      /\ x'[s] = [x[s] EXCEPT !.at = a]
  BY <1>1, <1>2
<1>4. /\ x'[s] \in Threads /\ x'[s].at = a
      /\ x'[s].by = x[s].by /\ x'[s].key = x[s].key /\ x'[s].kind = x[s].kind
      /\ x'[s].name = x[s].name /\ x'[s].pos = x[s].pos /\ x'[s].on = x[s].on
  BY <1>1, <1>2, <1>3 DEF Threads
<1>5. CountOK'
  BY <1>3, <1>4, CountStays DEF FilesInv, TablesOK, Live, Over
<1> QED
  BY <1>3, <1>4, <1>5

\* init connects and sends PASV (FTP_client.cc:28-70, master.cc:127-131).
LEMMA InitStep ==
  ASSUME FilesInv, NEW s \in Transfers, init(s)
  PROVE  FilesInv' /\ ThreadMoves(s)
<1>1. Live(s) /\ x[s].at = "start" /\ x[s] \in Threads
  BY ThreadTypes DEF init, At, Live, Over
<1>2. /\ ctl[s] = << >> /\ rep[s] = << >> /\ port[s] = closed
      /\ Fresh(s) /\ link[s].to = None
      /\ x[s].kind = "up" => x[s].name = s
  BY <1>1, ThreadTypes DEF LineOK
<1>3. turn \in 0 .. Workers - 1 /\ next' \in Nat
  <2>1. next \in Nat
    BY DEF FilesInv, TablesOK, SocketsOK
  <2>2. turn \in 0 .. Workers - 1
    BY <2>1, Bounds, Remainder DEF turn
  <2> QED
    BY <2>1, <2>2 DEF init
<1>4. /\ x' = [x EXCEPT ![s] = [x[s] EXCEPT !.at = "227", !.on = turn]]
      /\ [x[s] EXCEPT !.at = "227", !.on = turn] \in Threads
      /\ x \in [Transfers -> Threads \cup {NoThread}]
  BY <1>1, <1>3 DEF init, Threads, Steps, FilesInv, TablesOK, SocketsOK
<1>5. /\ x' \in [Transfers -> Threads \cup {NoThread}]
      /\ \A t \in Transfers \ {s} : x'[t] = x[t]
      /\ x'[s] = [x[s] EXCEPT !.at = "227", !.on = turn]
  BY <1>4
<1>6. /\ x'[s].at = "227" /\ x'[s].by = x[s].by /\ x'[s].key = x[s].key
      /\ x'[s].kind = x[s].kind /\ x'[s].name = x[s].name /\ x'[s].pos = x[s].pos
  BY <1>1, <1>5 DEF Threads
<1>7. /\ ctl' \in [Transfers -> Seq(Commands)] /\ ctl'[s] = << "PASV" >>
      /\ \A t \in Transfers \ {s} : ctl'[t] = ctl[t]
  BY <1>2 DEF init, Command, Commands, FilesInv, TablesOK, SocketsOK
<1>8. /\ UNCHANGED <<redisVars, diskVars, arr, ass, chatVars, alive, rep, link, port, wk>>
      /\ crashed' = crashed /\ muddled' = muddled
  BY DEF init
<1>9. ThreadMoves(s)
  BY <1>1, <1>5, <1>6, <1>7, <1>8 DEF ThreadMoves, Same, SameBuffers, diskVars
<1>10. TablesOK'
  <2>1. CountOK'
    BY <1>1, <1>5, <1>6, CountStays DEF FilesInv, TablesOK
  <2>2. ListsOK'
    BY <1>8 DEF ListsOK, FilesInv, TablesOK, redisVars, chatVars
  <2>3. SocketsOK'
    BY <1>3, <1>5, <1>7, <1>8 DEF SocketsOK, FilesInv, TablesOK, diskVars
  <2> QED
    BY <2>1, <2>2, <2>3 DEF TablesOK
<1>11. LineOK(s)'
  BY <1>1, <1>2, <1>6, <1>7, <1>8, ThreadTypes DEF LineOK, RepliesTo
<1>12. ASSUME x'[s].kind = "up", Orderly(x[s].key)' PROVE Undisturbed(s)'
  <2>1. Undisturbed(s)
    BY <1>1, <1>6, <1>8, <1>12 DEF FilesInv, UploadsOK, Orderly
  <2> QED
    BY <1>1, <1>2, <1>6, <1>7, <1>8, <2>1 DEF Undisturbed, Fresh, Waits, diskVars
<1> QED
  BY <1>1, <1>6, <1>8, <1>9, <1>10, <1>11, <1>12, ThreadKeeps DEF Unconnected, Waits

\* The lists, when a step does not touch them.
LEMMA ListsStay ==
  ASSUME FilesInv, UNCHANGED <<redisVars, cache, chat, alive, crashed>>,
         muddled' \subseteq Keys
  PROVE  ListsOK'
BY DEF FilesInv, TablesOK, ListsOK, redisVars

\* A thread whose step changes the tables of sockets and buffers only.
LEMMA ThreadTables ==
  ASSUME FilesInv, NEW s \in Transfers, Live(s), NEW a \in Steps \ {"none"}, To(s, a),
         UNCHANGED <<redisVars, cache, chat, alive, crashed, opened, wk, next>>,
         muddled' \subseteq Keys,
         file' \in [Transfers -> Seq(Bytes)],
         arr' \in [Users -> Replies], ass' \in [Users -> Bytes],
         ctl' \in [Transfers -> Seq(Commands)], rep' \in [Transfers -> Seq(Replies)],
         link' \in [Transfers -> Links], port' \in [Transfers -> Ports]
  PROVE  TablesOK'
<1>1. x' \in [Transfers -> Threads \cup {NoThread}] /\ CountOK'
  BY Goes
<1>2. SocketsOK'
  BY <1>1 DEF SocketsOK, FilesInv, TablesOK
<1> QED
  BY <1>1, <1>2, ListsStay DEF TablesOK

\* A reply is taken (FTP_client.cc:333-344).
LEMMA ReciveStep ==
  ASSUME FilesInv, NEW s \in Transfers, Recive(s)
  PROVE  FilesInv' /\ ThreadMoves(s)
<1>1. /\ Live(s) /\ x[s] \in Threads /\ x[s].at \in {"227", "150", "226"} /\ x[s].by \in Users
      /\ rep[s] # << >> /\ muddled \subseteq Keys
  BY ThreadTypes DEF Recive, Live, Over, Threads, FilesInv, TablesOK, ListsOK
<1>2. PICK a \in {"parse", "chk150", "chk226"} :
        /\ To(s, a)
        /\ x[s].at = "227" <=> a = "parse"
        /\ x[s].at = "150" <=> a = "chk150"
  BY <1>1 DEF Recive
<1>3. PICK n \in DOMAIN rep[s] : rep' = [rep EXCEPT ![s] = SubSeq(@, n + 1, Len(@))]
  BY DEF Recive
<1>4. /\ UNCHANGED <<redisVars, cache, chat, alive, crashed, wk, next, muddled>>
      /\ UNCHANGED <<file, opened, ass, ctl, link, port>>
  BY DEF Recive, redisServer, diskVars, chatVars, serverVars
<1>5. /\ Head(rep[s]) \in RepliesTo(s)
      /\ SubSeq(rep[s], n + 1, Len(rep[s])) \in Seq(RepliesTo(s))
      /\ Len(rep[s]) = 1 => SubSeq(rep[s], n + 1, Len(rep[s])) = << >>
  BY ThreadTypes, RestSeq
<1>6. /\ rep' \in [Transfers -> Seq(Replies)] /\ rep'[s] = SubSeq(rep[s], n + 1, Len(rep[s]))
      /\ \A t \in Transfers \ {s} : rep'[t] = rep[t]
  <2>1. SubSeq(rep[s], n + 1, Len(rep[s])) \in Seq(Replies)
    <3>1. RepliesTo(s) \subseteq Replies
      BY DEF RepliesTo
    <3> QED
      BY <1>5, <3>1, SeqMonotonic
  <2> QED
    BY <1>3, <2>1 DEF FilesInv, TablesOK, SocketsOK
<1>7. /\ arr' \in [Users -> Replies] /\ arr'[x[s].by] = Head(rep[s])
      /\ \A u \in Users \ {x[s].by} : arr'[u] = arr[u]
  BY <1>1, <1>5 DEF Recive, RepliesTo, FilesInv, TablesOK, SocketsOK
<1>8. Head(rep[s])[2] \in {None, s}
  BY <1>5 DEF RepliesTo
<1>9. /\ \A t \in Transfers \ {s} : x'[t] = x[t]
      /\ x'[s] \in Threads /\ x'[s].at = a
      /\ x'[s].by = x[s].by /\ x'[s].key = x[s].key /\ x'[s].kind = x[s].kind
      /\ x'[s].name = x[s].name /\ x'[s].pos = x[s].pos /\ x'[s].on = x[s].on
  BY <1>1, <1>2, Goes DEF Steps
<1>10. ThreadMoves(s)
  BY <1>1, <1>2, <1>4, <1>6, <1>7, <1>9 DEF ThreadMoves, Same, SameBuffers
<1>11. TablesOK'
  <2>1. a \in Steps \ {"none"}
    BY <1>2 DEF Steps
  <2> QED
    BY <1>1, <1>2, <1>4, <1>6, <1>7, <2>1, ThreadTables DEF FilesInv, TablesOK, SocketsOK
<1>12. /\ ctl[s] = << >>
       /\ x[s].kind = "up" => x[s].name = s
       /\ x[s].at = "227" => rep[s] = << << "227", s >> >> /\ Opened(s)
  BY <1>1, ThreadTypes DEF LineOK
<1>13. \A r : rep[s] = << r >> => Head(rep[s]) = r /\ rep'[s] = << >>
  BY <1>5, <1>6
<1>14. LineOK(s)'
  <2>1. Opened(s)' <=> Opened(s)
    BY <1>4 DEF Opened
  <2>2. rep'[s] \in Seq(RepliesTo(s)') /\ ctl'[s] = << >>
    BY <1>4, <1>5, <1>6, <1>12, RepliesSame
  <2> QED
    BY <1>2, <1>9, <1>12, <1>13, <2>1, <2>2 DEF LineOK
<1>15. ASSUME x'[s].kind = "up", Orderly(x[s].key)' PROVE Undisturbed(s)'
  <2>1. Undisturbed(s)
    BY <1>1, <1>4, <1>9, <1>15 DEF FilesInv, UploadsOK, Orderly
  <2>2. /\ Fresh(s)' <=> Fresh(s)
        /\ Accepting(s)' <=> Accepting(s)
        /\ Receiving(s)' <=> Receiving(s)
        /\ Idle(s)' <=> Idle(s)
    BY <1>4, <1>9 DEF Fresh, Accepting, Receiving, Idle, Serves
  <2>3. CASE x[s].at = "227"
    BY <1>2, <1>4, <1>7, <1>9, <1>12, <1>13, <2>1, <2>2, <2>3 DEF Undisturbed, Waits, closed
  <2>4. CASE x[s].at = "150"
    BY <1>2, <1>4, <1>9, <1>12, <1>13, <2>1, <2>2, <2>4 DEF Undisturbed, Waits
  <2>5. CASE x[s].at = "226"
    BY <1>1, <1>2, <1>4, <1>7, <1>9, <1>12, <1>13, <2>1, <2>2, <2>5 DEF Undisturbed, Waits, Whole
  <2> QED
    BY <1>1, <2>3, <2>4, <2>5
<1> QED
  BY <1>1, <1>2, <1>4, <1>7, <1>8, <1>9, <1>10, <1>11, <1>14, <1>15, ThreadKeeps
     DEF Unconnected, Waits

\* The second part of a pair.
LEMMA Second ==
  ASSUME NEW A, NEW B, NEW r \in A \X B
  PROVE  r[2] \in B
OBVIOUS

\* The port in a reply is a transfer's, or none.
LEMMA ReplyPort == \A r \in Replies : r[2] \in Transfers \cup {None}
BY Second DEF Replies

\* The port and the address are taken from the buffers (FTP_client.cc:244-318).
LEMMA PassiveStep ==
  ASSUME FilesInv, NEW s \in Transfers, openPassiveMode(s)
  PROVE  FilesInv' /\ ThreadMoves(s)
<1> DEFINE p == arr[x[s].by][2]
<1>1. /\ Live(s) /\ x[s] \in Threads /\ x[s].at = "parse" /\ x[s].by \in Users
      /\ muddled \subseteq Keys
  BY ThreadTypes DEF openPassiveMode, At, Live, Over, Threads, FilesInv, TablesOK, ListsOK
<1>2. To(s, "connect") /\ "connect" \in Steps \ {"none"}
  BY DEF openPassiveMode, Steps
<1>3. /\ UNCHANGED <<redisVars, cache, chat, alive, crashed, wk, next, muddled>>
      /\ UNCHANGED <<file, opened, arr, ctl, rep, port>>
  BY DEF openPassiveMode, redisServer, diskVars, chatVars, serverVars
<1>4. p \in Transfers \cup {None}
  BY <1>1, ReplyPort DEF FilesInv, TablesOK, SocketsOK
<1>5. /\ link' \in [Transfers -> Links]
      /\ \A t \in Transfers \ {s} : link'[t] = link[t]
      /\ link'[s].to = p /\ link'[s].q = link[s].q /\ link'[s].eof = link[s].eof
  <2>1. link' = [link EXCEPT ![s] = [link[s] EXCEPT !.to = p]]
    BY DEF openPassiveMode
  <2>2. link[s] \in Links /\ link \in [Transfers -> Links]
    BY ThreadTypes DEF FilesInv, TablesOK, SocketsOK
  <2> HIDE DEF p
  <2>3. [link[s] EXCEPT !.to = p] \in Links
    BY <1>4, <2>2 DEF Links
  <2>4. /\ link' \in [Transfers -> Links] /\ link'[s] = [link[s] EXCEPT !.to = p]
        /\ \A t \in Transfers \ {s} : link'[t] = link[t]
    BY <2>1, <2>2, <2>3
  <2> QED
    BY <2>2, <2>4 DEF Links
<1>6. /\ ass' \in [Users -> Bytes]
      /\ \A u \in Users \ {x[s].by} : ass'[u] = ass[u]
      /\ p # None => ass'[x[s].by] = Address
  BY <1>1, Bounds DEF openPassiveMode, FilesInv, TablesOK, SocketsOK
<1>7. /\ \A t \in Transfers \ {s} : x'[t] = x[t]
      /\ x'[s] \in Threads /\ x'[s].at = "connect"
      /\ x'[s].by = x[s].by /\ x'[s].key = x[s].key /\ x'[s].kind = x[s].kind
      /\ x'[s].name = x[s].name /\ x'[s].pos = x[s].pos /\ x'[s].on = x[s].on
  BY <1>1, <1>2, Goes
<1>8. ThreadMoves(s)
  BY <1>1, <1>3, <1>5, <1>6, <1>7 DEF ThreadMoves, Same, SameBuffers
<1>9. TablesOK'
  BY <1>1, <1>2, <1>3, <1>5, <1>6, ThreadTables DEF FilesInv, TablesOK, SocketsOK
<1>10. /\ ctl[s] = << >> /\ rep[s] = << >> /\ Opened(s)
       /\ rep[s] \in Seq(RepliesTo(s))
       /\ x[s].kind = "up" => x[s].name = s
  BY <1>1, ThreadTypes DEF LineOK
<1>11. LineOK(s)'
  <2>1. Opened(s)' <=> Opened(s)
    BY <1>3 DEF Opened
  <2> QED
    BY <1>3, <1>7, <1>10, <2>1, RepliesSame DEF LineOK
<1>12. ASSUME x'[s].kind = "up", Orderly(x[s].key)' PROVE Undisturbed(s)'
  <2>1. Undisturbed(s)
    BY <1>1, <1>3, <1>7, <1>12 DEF FilesInv, UploadsOK, Orderly
  <2>2. /\ Fresh(s)' <=> Fresh(s)
        /\ Accepting(s)' <=> Accepting(s)
    BY <1>3, <1>5, <1>7 DEF Fresh, Accepting
  <2>3. p = s
    BY <1>1, <2>1 DEF Undisturbed
  <2>4. Fresh(s) /\ Accepting(s) /\ port[s] = [closed EXCEPT !.open = TRUE] /\ x[s].pos = 0
    BY <1>1, <1>10, <2>1 DEF Undisturbed, Waits
  <2> HIDE DEF p
  <2> QED
    BY <1>3, <1>5, <1>6, <1>7, <1>10, <2>2, <2>3, <2>4, Bounds DEF Undisturbed, Waits, closed
<1> QED
  BY <1>1, <1>3, <1>5, <1>7, <1>8, <1>9, <1>11, <1>12, ThreadKeeps DEF Unconnected, Waits

\* A port at which one more waits.
LEMMA PortQueued ==
  ASSUME NEW r \in Ports, NEW s \in Transfers
  PROVE  [r EXCEPT !.pend = Append(@, s)] \in Ports
<1>1. r.pend \in Seq(Transfers)
  BY DEF Ports
<1>2. Append(r.pend, s) \in Seq(Transfers)
  BY <1>1
<1> QED
  BY <1>2 DEF Ports

\* The thread connects, or not, and sends its command (FTP_client.cc:319-356).
LEMMA ConnectStep ==
  ASSUME FilesInv, NEW s \in Transfers, Connect(s)
  PROVE  FilesInv' /\ ThreadMoves(s)
<1> DEFINE p == link[s].to
           c == IF x[s].kind = "up" THEN "STOR" ELSE "RETR"
           made == p # None /\ ass[x[s].by] = Address /\ port[p].open
<1>1. /\ Live(s) /\ x[s] \in Threads /\ x[s].at = "connect" /\ x[s].by \in Users
      /\ muddled \subseteq Keys
  BY ThreadTypes DEF Connect, At, Live, Over, Threads, FilesInv, TablesOK, ListsOK
<1>2. To(s, "150") /\ "150" \in Steps \ {"none"}
  BY DEF Connect, Steps
<1>3. /\ UNCHANGED <<redisVars, cache, chat, alive, crashed, wk, next, muddled>>
      /\ UNCHANGED <<file, opened, arr, ass, rep>>
  BY DEF Connect, redisServer, diskVars, chatVars, serverVars
<1>4. /\ p \in Transfers \cup {None} /\ link[s] \in Links
      /\ link \in [Transfers -> Links] /\ port \in [Transfers -> Ports]
  BY ThreadTypes DEF Links, FilesInv, TablesOK, SocketsOK
<1>5. /\ ctl[s] = << >> /\ rep[s] = << >> /\ Opened(s)
      /\ rep[s] \in Seq(RepliesTo(s))
      /\ x[s].kind = "up" => x[s].name = s
  BY <1>1, ThreadTypes DEF LineOK
<1>6. /\ ctl' \in [Transfers -> Seq(Commands)] /\ ctl'[s] = << c >>
      /\ \A t \in Transfers \ {s} : ctl'[t] = ctl[t]
  <2>1. ctl' = [ctl EXCEPT ![s] = Append(@, c)]
    BY DEF Connect, Command
  <2>2. c \in Commands
    BY DEF Commands
  <2> HIDE DEF c
  <2> QED
    BY <1>5, <2>1, <2>2 DEF FilesInv, TablesOK, SocketsOK
<1>7. /\ link' \in [Transfers -> Links] /\ port' \in [Transfers -> Ports]
      /\ \A t \in Transfers \ {s} : link'[t] = link[t]
      /\ (link'[s].to = None /\ port' = port) \/ link' = link
      /\ \A t \in Transfers :
            \/ port'[t] = port[t]
            \/ t = p /\ port[t].open /\ port'[t] = [port[t] EXCEPT !.pend = Append(@, s)]
      /\ made => link' = link /\ port'[p] = [port[p] EXCEPT !.pend = Append(@, s)]
  <2>1. CASE made
    <3>1. port' = [port EXCEPT ![p] = [port[p] EXCEPT !.pend = Append(@, s)]] /\ link' = link
      BY <2>1 DEF Connect
    <3>2. p \in Transfers /\ port[p] \in Ports /\ port[p].open
      BY <1>4, <2>1
    <3>3. [port[p] EXCEPT !.pend = Append(@, s)] \in Ports
      BY <3>2, PortQueued
    <3> HIDE DEF p, made
    <3> QED
      BY <1>4, <3>1, <3>2, <3>3
  <2>2. CASE ~made
    <3>1. link' = [link EXCEPT ![s] = [link[s] EXCEPT !.to = None]] /\ port' = port
      BY <2>2 DEF Connect
    <3>2. [link[s] EXCEPT !.to = None] \in Links /\ [link[s] EXCEPT !.to = None].to = None
      BY <1>4 DEF Links
    <3> HIDE DEF p, made
    <3> QED
      BY <1>4, <2>2, <3>1, <3>2
  <2> QED
    BY <2>1, <2>2
<1>8. /\ \A t \in Transfers \ {s} : x'[t] = x[t]
      /\ x'[s] \in Threads /\ x'[s].at = "150"
      /\ x'[s].by = x[s].by /\ x'[s].key = x[s].key /\ x'[s].kind = x[s].kind
      /\ x'[s].name = x[s].name /\ x'[s].pos = x[s].pos /\ x'[s].on = x[s].on
  BY <1>1, <1>2, Goes
<1>9. ThreadMoves(s)
  <2>1. \A t \in Transfers :
          \/ port'[t] = port[t]
          \/ /\ x[s].at = "connect" /\ link[s].to = t /\ port[t].open
             /\ port'[t] = [port[t] EXCEPT !.pend = Append(@, s)]
    BY <1>1, <1>7
  <2> HIDE DEF p, made, c
  <2>2. \A t \in Transfers \ {s} : Same(t)
    BY <1>3, <1>6, <1>7, <1>8 DEF Same
  <2> QED
    BY <1>1, <1>3, <1>8, <2>1, <2>2 DEF ThreadMoves, SameBuffers
<1>10. TablesOK'
  BY <1>1, <1>2, <1>3, <1>6, <1>7, ThreadTables DEF FilesInv, TablesOK, SocketsOK
<1>11. c \in {"STOR", "RETR"} /\ (x[s].kind = "up" <=> c = "STOR")
  OBVIOUS
<1> HIDE DEF c
<1>12. LineOK(s)'
  <2>1. Opened(s)'
    BY <1>3, <1>5, <1>9, PortMoves DEF Opened
  <2> QED
    BY <1>3, <1>5, <1>6, <1>8, <1>11, <2>1, RepliesSame DEF LineOK
<1>13. ASSUME x'[s].kind = "up", Orderly(x[s].key)' PROVE Undisturbed(s)'
  <2>1. Undisturbed(s)
    BY <1>1, <1>3, <1>8, <1>13 DEF FilesInv, UploadsOK, Orderly
  <2>2. /\ Fresh(s) /\ Accepting(s) /\ port[s] = [closed EXCEPT !.open = TRUE]
        /\ p = s /\ ass[x[s].by] = Address /\ x[s].pos = 0
    BY <1>1, <1>5, <2>1 DEF Undisturbed, Waits
  <2>3. made
    BY <2>2, Bounds DEF closed
  <2>4. /\ link' = link /\ Fresh(s)' /\ Accepting(s)'
        /\ port'[s] = [closed EXCEPT !.open = TRUE, !.pend = << s >>]
    <3>1. link' = link /\ port'[s] = [port[s] EXCEPT !.pend = Append(@, s)]
      BY <1>7, <2>2, <2>3
    <3>2. [port[s] EXCEPT !.pend = Append(@, s)] = [closed EXCEPT !.open = TRUE, !.pend = << s >>]
      <4> HIDE DEF p, made
      <4> QED
        BY <2>2 DEF closed
    <3> HIDE DEF p, made
    <3> QED
      BY <1>3, <1>8, <2>2, <3>1, <3>2 DEF Fresh, Accepting
  <2>5. ctl'[s] = << "STOR" >>
    BY <1>6, <1>8, <1>11, <1>13
  <2> HIDE DEF made
  <2> QED
    BY <1>8, <2>2, <2>4, <2>5 DEF Undisturbed, Waits, closed
<1> QED
  BY <1>1, <1>3, <1>6, <1>7, <1>8, <1>9, <1>10, <1>11, <1>12, <1>13, ThreadKeeps
     DEF Unconnected, Waits

\* From the second reply on, a thread has had all it needs of its control
\* connection; what it does touches its buffer, its file and its link.
LEMMA TransferStep ==
  ASSUME FilesInv, NEW s \in Transfers, x[s].at \in {"chk150", "data", "send", "chk226"},
         x' \in [Transfers -> Threads \cup {NoThread}], x'[s] \in Threads,
         x'[s].at \in {"data", "send", "226", "reported", "ended"},
         x'[s].at = "send" => x'[s].pos < Chunks /\ x'[s].kind = "up",
         x'[s].by = x[s].by, x'[s].key = x[s].key, x'[s].kind = x[s].kind,
         x'[s].name = x[s].name, x'[s].on = x[s].on,
         \A t \in Transfers \ {s} :
            x'[t] = x[t] /\ file'[t] = file[t] /\ link'[t] = link[t],
         UNCHANGED <<redisVars, chatVars, alive, crashed, opened, serverVars>>,
         UNCHANGED <<arr, ctl, rep, port>>,
         muddled \subseteq muddled', muddled' \subseteq Keys,
         file' \in [Transfers -> Seq(Bytes)], link' \in [Transfers -> Links],
         link'[s].to = link[s].to,
         ass' \in [Users -> Bytes], \A u \in Users \ {x[s].by} : ass'[u] = ass[u],
         x[s].kind = "up" /\ Orderly(x[s].key)' /\ Undisturbed(s) => Undisturbed(s)'
  PROVE  FilesInv' /\ ThreadMoves(s)
<1>1. Live(s) /\ x[s] \in Threads
  BY ThreadTypes DEF Live, Over
<1>2. ThreadMoves(s)
  BY <1>1 DEF ThreadMoves, Same, SameBuffers, serverVars
<1>3. TablesOK'
  <2>1. CountOK'
    BY <1>1, CountStays DEF FilesInv, TablesOK
  <2>2. ListsOK'
    BY ListsStay DEF chatVars
  <2>3. SocketsOK'
    BY DEF SocketsOK, FilesInv, TablesOK, serverVars
  <2> QED
    BY <2>1, <2>2, <2>3 DEF TablesOK
<1>4. /\ ctl[s] = << >> /\ rep[s] \in Seq(RepliesTo(s))
      /\ x[s].kind = "up" => x[s].name = s
  BY ThreadTypes DEF LineOK
<1>5. LineOK(s)'
  BY <1>4, RepliesSame DEF LineOK
<1>6. x'[s].kind = "up" /\ Orderly(x[s].key)' => Undisturbed(s)'
  BY <1>1 DEF FilesInv, UploadsOK, Orderly, Live, Over
<1> QED
  BY <1>1, <1>2, <1>3, <1>5, <1>6, ThreadKeeps DEF Unconnected, Waits

\* A thread, or the end of its program, closes its end of the link.
LEMMA LinkCloses ==
  ASSUME FilesInv, NEW s \in Transfers, link' = [link EXCEPT ![s].eof = TRUE]
  PROVE  /\ link' \in [Transfers -> Links]
         /\ \A t \in Transfers \ {s} : link'[t] = link[t]
         /\ link'[s].to = link[s].to /\ link'[s].q = link[s].q /\ link'[s].eof
<1>1. link \in [Transfers -> Links] /\ link[s] \in Links
  BY DEF FilesInv, TablesOK, SocketsOK
<1>2. link' = [link EXCEPT ![s] = [link[s] EXCEPT !.eof = TRUE]]
  OBVIOUS
<1>3. [link[s] EXCEPT !.eof = TRUE] \in Links
  BY <1>1 DEF Links
<1>4. link'[s] = [link[s] EXCEPT !.eof = TRUE]
  BY <1>1, <1>2
<1> QED
  BY <1>1, <1>2, <1>3, <1>4 DEF Links

\* A chunk is taken from a link.
LEMMA LinkTakes ==
  ASSUME FilesInv, NEW s \in Transfers, NEW q \in Seq(Bytes), link' = [link EXCEPT ![s].q = q]
  PROVE  /\ link' \in [Transfers -> Links]
         /\ \A t \in Transfers \ {s} : link'[t] = link[t]
         /\ link'[s].to = link[s].to /\ link'[s].q = q /\ link'[s].eof = link[s].eof
<1>1. link \in [Transfers -> Links] /\ link[s] \in Links
  BY DEF FilesInv, TablesOK, SocketsOK
<1>2. link' = [link EXCEPT ![s] = [link[s] EXCEPT !.q = q]]
  OBVIOUS
<1>3. [link[s] EXCEPT !.q = q] \in Links
  BY <1>1 DEF Links
<1>4. link'[s] = [link[s] EXCEPT !.q = q]
  BY <1>1, <1>2
<1> QED
  BY <1>1, <1>2, <1>3, <1>4 DEF Links

\* What a thread's tables hold is all that a step leaves alone.
LEMMA TransferTables ==
  ASSUME FilesInv
  PROVE  /\ file \in [Transfers -> Seq(Bytes)] /\ link \in [Transfers -> Links]
         /\ ass \in [Users -> Bytes] /\ muddled \subseteq Keys
BY DEF FilesInv, TablesOK, SocketsOK, ListsOK

\* The second reply is looked at (FTP_client.cc:80-86, 116-120).
LEMMA Check150Step ==
  ASSUME FilesInv, NEW s \in Transfers, check_150(s)
  PROVE  FilesInv' /\ ThreadMoves(s)
<1>1. /\ Live(s) /\ x[s].at = "chk150" /\ x[s].by \in Users /\ x[s].key \in Keys
      /\ x[s].pos \in 0 .. Chunks
  BY ThreadTypes DEF check_150, At, Live, Over, Threads
<1>2. UNCHANGED <<redisVars, chatVars, alive, crashed, opened, serverVars, file, arr, ctl, rep, port>>
  BY DEF check_150, diskVars, serverVars
<1>3. CASE To(s, "data") /\ UNCHANGED <<link, muddled>>
            /\ ass' = IF x[s].kind = "up" THEN [ass EXCEPT ![x[s].by] = None] ELSE ass
  <2>1. "data" \in Steps \ {"none"}
    BY DEF Steps
  <2>2. /\ x' \in [Transfers -> Threads \cup {NoThread}] /\ x'[s] \in Threads
        /\ \A t \in Transfers \ {s} : x'[t] = x[t]
        /\ x'[s].at = "data" /\ x'[s].by = x[s].by /\ x'[s].key = x[s].key
        /\ x'[s].kind = x[s].kind /\ x'[s].name = x[s].name
        /\ x'[s].pos = x[s].pos /\ x'[s].on = x[s].on
    BY <1>1, <1>3, <2>1, Goes
  <2>3. ass' \in [Users -> Bytes] /\ \A u \in Users \ {x[s].by} : ass'[u] = ass[u]
    BY <1>1, <1>3, TransferTables, Bounds
  <2>4. ASSUME Undisturbed(s) PROVE Undisturbed(s)'
    <3>1. Fresh(s) /\ Receiving(s) /\ rep[s] = << >> /\ x[s].pos = 0 /\ link[s].to \in {None, s}
      BY <1>1, <2>4 DEF Undisturbed
    <3>2. FileOf(s) = Chunk(s, 0)
      BY <3>1, ChunkNext, EmptySeq, ConcatEmptySeq DEF FileOf, Fresh
    <3>3. Receiving(s)' /\ FileOf(s)' = Chunk(s, 0)
      BY <1>2, <1>3, <2>2, <3>1, <3>2 DEF Receiving, FileOf, serverVars, Chunk
    <3> QED
      BY <1>2, <1>3, <2>2, <3>1, <3>3 DEF Undisturbed, Fresh, Waits, Chunk
  <2> QED
    BY <1>1, <1>2, <1>3, <2>2, <2>3, <2>4, TransferTables, TransferStep
<1>4. CASE To(s, "ended") /\ Quit(s) /\ muddled' = muddled \cup {x[s].key} /\ UNCHANGED ass
  <2>1. "ended" \in Steps \ {"none"}
    BY DEF Steps
  <2>2. /\ x' \in [Transfers -> Threads \cup {NoThread}] /\ x'[s] \in Threads
        /\ \A t \in Transfers \ {s} : x'[t] = x[t]
        /\ x'[s].at = "ended" /\ x'[s].by = x[s].by /\ x'[s].key = x[s].key
        /\ x'[s].kind = x[s].kind /\ x'[s].name = x[s].name /\ x'[s].on = x[s].on
    BY <1>1, <1>4, <2>1, Goes
  <2>3. /\ link' \in [Transfers -> Links] /\ link'[s].to = link[s].to
        /\ \A t \in Transfers \ {s} : link'[t] = link[t]
    BY <1>4, LinkCloses DEF Quit
  <2> QED
    BY <1>1, <1>2, <1>4, <2>2, <2>3, TransferTables, TransferStep DEF Orderly
<1> QED
  BY <1>3, <1>4 DEF check_150

\* A chunk is read into the buffer (FTP_client.cc:190-205).
LEMMA StorReadStep ==
  ASSUME FilesInv, NEW s \in Transfers, Stor_read(s)
  PROVE  FilesInv' /\ ThreadMoves(s)
<1>1. /\ Live(s) /\ x[s].at = "data" /\ x[s].by \in Users /\ x[s].kind = "up"
      /\ x[s].pos < Chunks
  BY ThreadTypes DEF Stor_read, At, Live, Over, Threads
<1>2. UNCHANGED <<redisVars, chatVars, alive, crashed, opened, serverVars, file, arr, ctl, rep,
                  port, link, muddled>>
  BY DEF Stor_read, redisServer, diskVars, sockVars
<1>3. "send" \in Steps \ {"none"}
  BY DEF Steps
<1>4. /\ x' \in [Transfers -> Threads \cup {NoThread}] /\ x'[s] \in Threads
      /\ \A t \in Transfers \ {s} : x'[t] = x[t]
      /\ x'[s].at = "send" /\ x'[s].by = x[s].by /\ x'[s].key = x[s].key
      /\ x'[s].kind = x[s].kind /\ x'[s].name = x[s].name
      /\ x'[s].pos = x[s].pos /\ x'[s].on = x[s].on
  BY <1>1, <1>3, Goes DEF Stor_read
<1>5. /\ ass' \in [Users -> Bytes] /\ ass'[x[s].by] = s
      /\ \A u \in Users \ {x[s].by} : ass'[u] = ass[u]
  BY <1>1, TransferTables, Bounds DEF Stor_read
<1>6. ASSUME Undisturbed(s) PROVE Undisturbed(s)'
  <2>1. /\ Receiving(s) /\ rep[s] = << >> /\ ~link[s].eof /\ FileOf(s) = Chunk(s, x[s].pos)
        /\ link[s].to \in {None, s}
    BY <1>1, <1>6 DEF Undisturbed
  <2>2. Receiving(s)' /\ FileOf(s)' = Chunk(s, x[s].pos)
    BY <1>2, <1>4, <2>1 DEF Receiving, FileOf, serverVars, Chunk
  <2> QED
    BY <1>2, <1>4, <1>5, <2>1, <2>2 DEF Undisturbed, Waits, Chunk
<1> QED
  BY <1>1, <1>2, <1>4, <1>5, <1>6, TransferTables, TransferStep

\* What is in the buffer is sent (FTP_client.cc:206-217).
LEMMA StorSendStep ==
  ASSUME FilesInv, NEW s \in Transfers, Stor_send(s)
  PROVE  FilesInv' /\ ThreadMoves(s)
<1> DEFINE c == ass[x[s].by]
<1>1. /\ Live(s) /\ x[s] \in Threads /\ x[s].at = "send" /\ x[s].by \in Users
      /\ x[s].pos < Chunks /\ x[s].pos \in Nat /\ Chunks \in Nat
  <2>1. Live(s) /\ x[s].at = "send"
    BY DEF Stor_send, At, Live, Over
  <2>2. x[s] \in Threads /\ LineOK(s)
    BY <2>1, ThreadTypes
  <2> QED
    BY <2>1, <2>2, Bounds DEF LineOK, Threads
<1>2. UNCHANGED <<redisVars, chatVars, alive, crashed, opened, serverVars, file, arr, ass, ctl,
                  rep, port, muddled>>
  BY DEF Stor_send, redisServer, diskVars
<1>3. /\ x' \in [Transfers -> Threads \cup {NoThread}] /\ x'[s] \in Threads
      /\ \A t \in Transfers \ {s} : x'[t] = x[t]
      /\ x'[s].at = "data" /\ x'[s].by = x[s].by /\ x'[s].key = x[s].key
      /\ x'[s].kind = x[s].kind /\ x'[s].name = x[s].name
      /\ x'[s].pos = x[s].pos + 1 /\ x'[s].on = x[s].on
  <2>1. x \in [Transfers -> Threads \cup {NoThread}]
    BY DEF FilesInv, TablesOK, SocketsOK
  <2>2. /\ x' = [x EXCEPT ![s] = [x[s] EXCEPT !.at = "data", !.pos = @ + 1]]
        /\ [x[s] EXCEPT !.at = "data", !.pos = @ + 1] \in Threads
    BY <1>1, <2>1 DEF Stor_send, Threads, Steps
  <2>3. /\ x' \in [Transfers -> Threads \cup {NoThread}]
        /\ \A t \in Transfers \ {s} : x'[t] = x[t]
        /\ x'[s] = [x[s] EXCEPT !.at = "data", !.pos = @ + 1]
    BY <2>1, <2>2
  <2> QED
    BY <1>1, <2>2, <2>3 DEF Threads
<1>4. c \in Bytes /\ link[s] \in Links /\ link[s].q \in Seq(Bytes)
  BY <1>1, TransferTables DEF Links
<1>5. /\ link' \in [Transfers -> Links] /\ link'[s].to = link[s].to
      /\ \A t \in Transfers \ {s} : link'[t] = link[t]
      /\ link'[s].q = Append(link[s].q, c) /\ link'[s].eof = link[s].eof
  <2> HIDE DEF c
  <2>1. Append(link[s].q, c) \in Seq(Bytes)
    BY <1>4
  <2>2. link' = [link EXCEPT ![s].q = Append(link[s].q, c)]
    BY DEF Stor_send, c
  <2> QED
    BY <2>1, <2>2, LinkTakes
<1>6. ASSUME Undisturbed(s) PROVE Undisturbed(s)'
  <2>1. /\ Receiving(s) /\ rep[s] = << >> /\ ~link[s].eof /\ FileOf(s) = Chunk(s, x[s].pos)
        /\ link[s].to \in {None, s} /\ c = s
    BY <1>1, <1>6 DEF Undisturbed
  <2>2. FileOf(s)' = Append(FileOf(s), s)
    <3>1. file[s] \in Seq(Bytes) /\ s \in Bytes
      BY TransferTables, Bounds
    <3>2. file[s] \o Append(link[s].q, s) = Append(file[s] \o link[s].q, s)
      <4>1. \A f, q \in Seq(Bytes) : f \o Append(q, s) = Append(f \o q, s)
        BY <3>1, ChunkSent
      <4> QED
        BY <1>4, <3>1, <4>1
    <3> QED
      BY <1>2, <1>5, <2>1, <3>2 DEF FileOf
  <2>3. FileOf(s)' = Chunk(s, x'[s].pos)
    <3>1. Append(Chunk(s, x[s].pos), s) = Chunk(s, x[s].pos + 1)
      BY <1>1, ChunkNext
    <3>2. x'[s].pos = x[s].pos + 1 /\ FileOf(s) = Chunk(s, x[s].pos)
      BY <1>3, <2>1
    <3> QED
      BY <2>2, <3>1, <3>2
  <2>4. Receiving(s)'
    BY <1>2, <1>3, <2>1 DEF Receiving, serverVars
  <2> QED
    BY <1>2, <1>3, <1>5, <2>1, <2>3, <2>4 DEF Undisturbed, Waits, Chunk
<1> HIDE DEF c
<1> QED
  BY <1>1, <1>2, <1>3, <1>5, <1>6, TransferTables, TransferStep

\* The link is closed after the last chunk (FTP_client.cc:220-223).
LEMMA StorCloseStep ==
  ASSUME FilesInv, NEW s \in Transfers, Stor_close(s)
  PROVE  FilesInv' /\ ThreadMoves(s)
<1>1. Live(s) /\ x[s].at = "data" /\ x[s].pos = Chunks
  BY DEF Stor_close, At, Live, Over
<1>2. UNCHANGED <<redisVars, chatVars, alive, crashed, opened, serverVars, file, arr, ass, ctl,
                  rep, port, muddled>>
  BY DEF Stor_close, redisServer, diskVars
<1>3. "226" \in Steps \ {"none"}
  BY DEF Steps
<1>4. /\ x' \in [Transfers -> Threads \cup {NoThread}] /\ x'[s] \in Threads
      /\ \A t \in Transfers \ {s} : x'[t] = x[t]
      /\ x'[s].at = "226" /\ x'[s].by = x[s].by /\ x'[s].key = x[s].key
      /\ x'[s].kind = x[s].kind /\ x'[s].name = x[s].name
      /\ x'[s].pos = x[s].pos /\ x'[s].on = x[s].on
  BY <1>1, <1>3, Goes DEF Stor_close
<1>5. /\ link' \in [Transfers -> Links] /\ link'[s].to = link[s].to
      /\ \A t \in Transfers \ {s} : link'[t] = link[t]
      /\ link'[s].q = link[s].q /\ link'[s].eof
  BY LinkCloses DEF Stor_close
<1>6. ASSUME Undisturbed(s) PROVE Undisturbed(s)'
  <2>1. /\ Receiving(s) /\ rep[s] = << >> /\ FileOf(s) = Chunk(s, Chunks)
        /\ link[s].to \in {None, s}
    BY <1>1, <1>6 DEF Undisturbed
  <2>2. FileOf(s)' = FileOf(s)
    BY <1>2, <1>5 DEF FileOf
  <2>3. FileOf(s)' = Whole(s)
    BY <2>1, <2>2 DEF Chunk, Whole
  <2>4. Receiving(s)'
    BY <1>2, <1>4, <2>1 DEF Receiving, serverVars
  <2> QED
    BY <1>2, <1>4, <1>5, <2>1, <2>3, <2>4 DEF Undisturbed, Waits, Whole
<1> QED
  BY <1>1, <1>2, <1>4, <1>5, <1>6, TransferTables, TransferStep

\* A file that cannot be opened (FTP_client.cc:193-199).
LEMMA StorFailsStep ==
  ASSUME FilesInv, NEW s \in Transfers, Stor_fails(s)
  PROVE  FilesInv' /\ ThreadMoves(s)
<1>1. Live(s) /\ x[s].at = "chk150" /\ x[s].key \in Keys
  BY ThreadTypes DEF Stor_fails, At, Live, Over, Threads
<1>2. UNCHANGED <<redisVars, chatVars, alive, crashed, opened, serverVars, file, arr, ass, ctl,
                  rep, port, link>>
  BY DEF Stor_fails, diskVars, sockVars
<1>3. "226" \in Steps \ {"none"}
  BY DEF Steps
<1>4. /\ x' \in [Transfers -> Threads \cup {NoThread}] /\ x'[s] \in Threads
      /\ \A t \in Transfers \ {s} : x'[t] = x[t]
      /\ x'[s].at = "226" /\ x'[s].by = x[s].by /\ x'[s].key = x[s].key
      /\ x'[s].kind = x[s].kind /\ x'[s].name = x[s].name /\ x'[s].on = x[s].on
  BY <1>1, <1>3, Goes DEF Stor_fails
<1>5. muddled' = muddled \cup {x[s].key}
  BY DEF Stor_fails
<1> QED
  BY <1>1, <1>2, <1>4, <1>5, TransferTables, TransferStep DEF Orderly

\* A file of the receiver's that cannot be opened (FTP_client.cc:161-166).
LEMMA RetrFailsStep ==
  ASSUME FilesInv, NEW s \in Transfers, Retr_fails(s)
  PROVE  FilesInv' /\ ThreadMoves(s)
<1>1. Live(s) /\ x[s].at = "chk150" /\ x[s].key \in Keys
  BY ThreadTypes DEF Retr_fails, At, Live, Over, Threads
<1>2. UNCHANGED <<redisVars, chatVars, alive, crashed, opened, serverVars, file, arr, ass, ctl,
                  rep, port>>
  BY DEF Retr_fails, diskVars
<1>3. link' = [link EXCEPT ![s].eof = TRUE]
  BY DEF Retr_fails, Quit
<1>4. "226" \in Steps \ {"none"}
  BY DEF Steps
<1>5. /\ x' \in [Transfers -> Threads \cup {NoThread}] /\ x'[s] \in Threads
      /\ \A t \in Transfers \ {s} : x'[t] = x[t]
      /\ x'[s].at = "226" /\ x'[s].by = x[s].by /\ x'[s].key = x[s].key
      /\ x'[s].kind = x[s].kind /\ x'[s].name = x[s].name /\ x'[s].on = x[s].on
  BY <1>1, <1>4, Goes DEF Retr_fails
<1>6. muddled' = muddled \cup {x[s].key}
  BY DEF Retr_fails
<1>7. /\ link' \in [Transfers -> Links] /\ link'[s].to = link[s].to
      /\ \A t \in Transfers \ {s} : link'[t] = link[t]
  BY <1>3, LinkCloses
<1> QED
  BY <1>1, <1>2, <1>5, <1>6, <1>7, TransferTables, TransferStep DEF Orderly

\* A download takes what has arrived, or finds the end (FTP_client.cc:159-188).
LEMMA RetrStep ==
  ASSUME FilesInv, NEW s \in Transfers, Retr(s)
  PROVE  FilesInv' /\ ThreadMoves(s)
<1>1. /\ Live(s) /\ x[s] \in Threads /\ x[s].at = "data" /\ x[s].kind = "down"
      /\ link[s] \in Links /\ link[s].q \in Seq(Bytes) /\ file[s] \in Seq(Bytes)
  BY ThreadTypes DEF Retr, At, Live, Over, Links
<1>2. UNCHANGED <<redisVars, chatVars, alive, crashed, opened, serverVars, arr, ass, ctl,
                  rep, port, muddled>>
  BY DEF Retr, serverVars
<1>3. CASE /\ link[s].q # << >>
           /\ file' = [file EXCEPT ![s] = Append(@, Head(link[s].q))]
           /\ link' = [link EXCEPT ![s].q = Tail(@)]
           /\ UNCHANGED x
  <2>1. Head(link[s].q) \in Bytes /\ Tail(link[s].q) \in Seq(Bytes)
    BY <1>1, <1>3, HeadTailProperties
  <2>2. Append(file[s], Head(link[s].q)) \in Seq(Bytes)
    BY <1>1, <2>1, AppendProperties
  <2>3. /\ file' \in [Transfers -> Seq(Bytes)]
        /\ \A t \in Transfers \ {s} : file'[t] = file[t]
    BY <1>3, <2>2, TransferTables
  <2>4. /\ link' \in [Transfers -> Links] /\ link'[s].to = link[s].to
        /\ \A t \in Transfers \ {s} : link'[t] = link[t]
    BY <1>3, <2>1, LinkTakes
  <2>5. x \in [Transfers -> Threads \cup {NoThread}]
    BY DEF FilesInv, TablesOK, SocketsOK
  <2> QED
    BY <1>1, <1>2, <1>3, <2>3, <2>4, <2>5, TransferTables, TransferStep
<1>4. CASE To(s, "226") /\ UNCHANGED <<file, link>>
  <2>1. "226" \in Steps \ {"none"}
    BY DEF Steps
  <2>2. /\ x' \in [Transfers -> Threads \cup {NoThread}] /\ x'[s] \in Threads
        /\ \A t \in Transfers \ {s} : x'[t] = x[t]
        /\ x'[s].at = "226" /\ x'[s].by = x[s].by /\ x'[s].key = x[s].key
        /\ x'[s].kind = x[s].kind /\ x'[s].name = x[s].name /\ x'[s].on = x[s].on
    BY <1>1, <1>4, <2>1, Goes
  <2> QED
    BY <1>1, <1>2, <1>4, <2>2, TransferTables, TransferStep
<1> QED
  BY <1>3, <1>4 DEF Retr

\* The last reply is looked at, and the thread ends (FTP_client.cc:88-98, 121-130).
LEMMA Check226Step ==
  ASSUME FilesInv, NEW s \in Transfers, check_226(s)
  PROVE  FilesInv' /\ ThreadMoves(s)
<1> DEFINE a == IF arr[x[s].by][1] = "226" THEN "reported" ELSE "ended"
<1>1. /\ Live(s) /\ x[s].at = "chk226" /\ To(s, a)
  BY DEF check_226, At, Live, Over
<1>2. UNCHANGED <<redisVars, chatVars, alive, crashed, opened, serverVars, file, arr, ass, ctl,
                  rep, port, muddled>>
  BY DEF check_226, redisServer, diskVars
<1>3. a \in Steps \ {"none"} /\ a \in {"reported", "ended"}
  BY DEF Steps
<1>4. ASSUME Undisturbed(s) PROVE a = "reported" /\ Idle(s) /\ ctl[s] = << >> /\ file[s] = Whole(s)
                                  /\ link[s].to \in {None, s}
  BY <1>1, <1>4 DEF Undisturbed
<1> HIDE DEF a
<1>5. /\ x' \in [Transfers -> Threads \cup {NoThread}] /\ x'[s] \in Threads
      /\ \A t \in Transfers \ {s} : x'[t] = x[t]
      /\ x'[s].at = a /\ x'[s].by = x[s].by /\ x'[s].key = x[s].key
      /\ x'[s].kind = x[s].kind /\ x'[s].name = x[s].name
      /\ x'[s].pos = x[s].pos /\ x'[s].on = x[s].on
  BY <1>1, <1>3, Goes
<1>6. /\ link' \in [Transfers -> Links] /\ link'[s].to = link[s].to
      /\ \A t \in Transfers \ {s} : link'[t] = link[t]
  BY LinkCloses DEF check_226, Quit
<1>7. ASSUME Undisturbed(s) PROVE Undisturbed(s)'
  <2>1. Idle(s)'
    BY <1>2, <1>4, <1>5, <1>7 DEF Idle, Serves, serverVars
  <2> QED
    BY <1>2, <1>4, <1>5, <1>6, <1>7, <2>1 DEF Undisturbed, Waits, Whole
<1> QED
  BY <1>1, <1>2, <1>3, <1>5, <1>6, <1>7, TransferTables, TransferStep

\* A client program ends, and its threads with it: their transfers are muddled.
LEMMA ExitStep ==
  ASSUME FilesInv, NEW u \in Users, exit(u)
  PROVE  FilesInv'
<1> DEFINE mine == {t \in Started : x[t].by = u /\ x[t].at \notin Over}
<1>1. /\ x' = [t \in Transfers |-> IF t \in mine THEN [x[t] EXCEPT !.at = "dead"] ELSE x[t]]
      /\ link' = [t \in Transfers |-> IF t \in mine THEN [link[t] EXCEPT !.eof = TRUE] ELSE link[t]]
      /\ muddled' = muddled \cup {x[t].key : t \in mine} /\ alive' \subseteq alive
      /\ UNCHANGED <<redisVars, file, opened, arr, ass, cache, chat, ctl, rep, port, wk, next, crashed>>
  BY DEF exit, diskVars, chatVars, serverVars
<1>2. \A t \in mine : t \in Transfers /\ Live(t) /\ x[t] \in Threads
  BY ThreadTypes DEF Started, Live
<1>3. ASSUME NEW t \in mine
      PROVE  /\ x'[t] \in Threads /\ x'[t].at = "dead" /\ x'[t].by = x[t].by
             /\ x'[t].key = x[t].key /\ x'[t].kind = x[t].kind /\ x'[t].name = x[t].name
             /\ x'[t].on = x[t].on /\ x[t].at # "none" /\ x'[t].key \in muddled'
             /\ link'[t] \in Links /\ link'[t].to = link[t].to
  <2>1. x'[t] = [x[t] EXCEPT !.at = "dead"] /\ link'[t] = [link[t] EXCEPT !.eof = TRUE]
    BY <1>1, <1>2
  <2>2. x[t] \in Threads /\ link[t] \in Links /\ x[t].at # "none"
    BY <1>2, ThreadTypes DEF Live, Over
  <2>3. /\ x'[t] \in Threads /\ x'[t].at = "dead" /\ x'[t].by = x[t].by
        /\ x'[t].key = x[t].key /\ x'[t].kind = x[t].kind /\ x'[t].name = x[t].name
        /\ x'[t].on = x[t].on
    BY <2>1, <2>2 DEF Threads, Steps
  <2>4. link'[t] \in Links /\ link'[t].to = link[t].to
    BY <2>1, <2>2 DEF Links
  <2>5. x'[t].key \in muddled'
    <3>1. muddled' = muddled \cup {x[s].key : s \in mine}
      BY <1>1
    <3> HIDE DEF mine
    <3> QED
      BY <2>3, <3>1
  <2> QED
    BY <2>2, <2>3, <2>4, <2>5
<1>4. ASSUME NEW t \in Transfers \ mine PROVE x'[t] = x[t] /\ link'[t] = link[t]
  BY <1>1
<1>5. /\ DOMAIN x' = Transfers /\ x' = [t \in Transfers |-> x'[t]]
      /\ link' = [t \in Transfers |-> link'[t]]
  BY <1>1
<1>6. \A t \in Transfers :
        /\ x'[t].at = "none" <=> x[t].at = "none"
        /\ Live(t)' => Live(t)
        /\ x[t].at # "none" => x'[t].by = x[t].by /\ x'[t].key = x[t].key
                               /\ x'[t].kind = x[t].kind /\ x'[t].name = x[t].name
                               /\ x'[t].on = x[t].on
        /\ x'[t].at \in {x[t].at, "dead"} /\ link'[t].to = link[t].to
        /\ x'[t].at = "dead" \/ x'[t] = x[t]
  BY <1>3, <1>4 DEF Live, Over
<1> HIDE DEF mine
<1>7. TablesOK'
  <2>1. CountOK'
    BY <1>6, CountStays DEF FilesInv, TablesOK
  <2>2. ListsOK'
    <3>1. {x[t].key : t \in mine} \subseteq Keys
      BY <1>2 DEF Threads
    <3> QED
      BY <1>1, <3>1 DEF FilesInv, TablesOK, ListsOK, redisVars
  <2>3. \A t \in Transfers : x'[t] \in Threads \cup {NoThread} /\ link'[t] \in Links
    BY <1>3, <1>4 DEF FilesInv, TablesOK, SocketsOK
  <2>4. x' \in [Transfers -> Threads \cup {NoThread}] /\ link' \in [Transfers -> Links]
    BY <1>5, <2>3
  <2>5. SocketsOK'
    BY <1>1, <2>4 DEF SocketsOK, FilesInv, TablesOK
  <2> QED
    BY <2>1, <2>2, <2>5 DEF TablesOK
<1>8. LinesOK'
  <2> SUFFICES ASSUME NEW t \in Transfers PROVE LineOK(t)'
    BY DEF LinesOK
  <2>1. LineOK(t) /\ (Opened(t)' <=> Opened(t))
    BY <1>1, ThreadTypes DEF Opened
  <2>2. CASE t \in mine
    BY <1>1, <1>3, <2>1, <2>2, RepliesSame DEF LineOK
  <2>3. CASE t \notin mine
    BY <1>1, <1>4, <2>1, <2>3, LineStays
  <2> QED
    BY <2>2, <2>3
<1>9. TasksOK'
  <2> SUFFICES ASSUME NEW w \in 0 .. Workers - 1 PROVE TaskOK(w)'
    BY DEF TasksOK
  <2>1. TaskOK(w)
    BY DEF FilesInv, LinesInv, TasksOK
  <2> QED
    BY <1>1, <1>6, <2>1 DEF TaskOK, Waits
<1>10. ApartOK'
  <2>1. \A t \in Transfers : Live(t) => x[t].at # "none"
    BY DEF Live, Over
  <2>2. muddled \subseteq muddled'
    BY <1>1
  <2> SUFFICES ASSUME NEW s \in Transfers, NEW t \in Transfers, s # t,
                      Live(s)', Live(t)', x'[s].by = x'[t].by
               PROVE  x'[s].key \in muddled'
    BY DEF ApartOK
  <2>3. Live(s) /\ Live(t) /\ x'[s].key = x[s].key /\ x[s].by = x[t].by
    BY <1>6, <2>1
  <2>4. x[s].key \in muddled
    BY <2>3 DEF FilesInv, DataInv, ApartOK
  <2> QED
    BY <2>2, <2>3, <2>4
<1>11. ConnectedOK'
  BY <1>1, <1>6 DEF FilesInv, DataInv, ConnectedOK, Unconnected, Waits
<1>12. LedOK'
  <2>1. \A t \in Transfers : Quiet(t)' => Quiet(t)
    BY <1>1, <1>6 DEF Quiet, Orderly
  <2> QED
    BY <1>1, <1>6, <2>1 DEF FilesInv, DataInv, LedOK
<1>13. UploadsOK'
  <2> SUFFICES ASSUME NEW t \in Transfers, x'[t].at # "none", x'[t].kind = "up",
                      Orderly(x[t].key)'
               PROVE  Undisturbed(t)'
    BY DEF UploadsOK
  <2>1. t \notin mine
    BY <1>3 DEF Orderly
  <2>2. x'[t] = x[t] /\ link'[t] = link[t]
    BY <1>4, <2>1
  <2>3. Undisturbed(t)
    BY <1>1, <2>2 DEF FilesInv, UploadsOK, Orderly
  <2> QED
    BY <1>1, <2>2, <2>3, UndisturbedStays DEF Same, SameWork, SameBuffers
<1> QED
  BY <1>7, <1>8, <1>9, <1>10, <1>11, <1>12, <1>13 DEF FilesInv, LinesInv, DataInv

-----------------------------------------------------------------------------
(* The users, and the chat server.                                         *)

\* A transfer that is started is the first that was not.
LEMMA FreshNumber ==
  ASSUME CountOK, NEW n, n = Cardinality(Started) + 1, n <= MaxTransfers
  PROVE  /\ n \in Transfers /\ x[n].at = "none" /\ n \notin Started
         /\ Started \cup {n} = 1 .. n /\ n \in 0 .. MaxTransfers
<1>1. PICK m \in 0 .. MaxTransfers : Started = 1 .. m
  BY DEF CountOK
<1>2. m \in Nat /\ Cardinality(1 .. m) = m
  BY <1>1, Bounds, FS_Interval
<1>3. n = m + 1
  BY <1>1, <1>2
<1>4. n \in Transfers /\ n \notin Started /\ n \in 0 .. MaxTransfers
  BY <1>1, <1>2, <1>3, Bounds DEF Transfers
<1>5. (1 .. m) \cup {n} = 1 .. n
  BY <1>2, <1>3
<1> QED
  BY <1>1, <1>4, <1>5 DEF Started

\* Starting a thread (send_friends.cc:323-341, 354-404): beside one of
\* the same program it is muddled, and so is the other.
LEMMA StartStep ==
  ASSUME FilesInv, faults \in Nat,
         NEW u \in Users, NEW kind \in Kinds, NEW k \in Keys, NEW name,
         kind = "down" => name \in Transfers, StartThread(u, kind, k, name),
         UNCHANGED <<redisVars, diskVars, arr, ass, alive, sockVars, serverVars, crashed>>,
         cache' \in [Users -> [Keys -> Seq(Transfers)]], chat' \in [Users -> Seq(Asks)]
  PROVE  FilesInv'
<1> DEFINE t == Cardinality(Started) + 1
           r == [at |-> "start", kind |-> kind, by |-> u, key |-> k,
                 name |-> IF kind = "up" THEN t ELSE name, pos |-> 0, on |-> 0]
<1>1. t \in Nat /\ t <= MaxTransfers
  <2>1. Cardinality(Started) \in Nat
    <3>1. PICK m \in 0 .. MaxTransfers : Started = 1 .. m
      BY DEF FilesInv, TablesOK, CountOK
    <3>2. m \in Nat /\ Cardinality(1 .. m) = m
      BY <3>1, Bounds, FS_Interval
    <3> QED
      BY <3>1, <3>2
  <2>2. t + faults <= MaxTransfers
    BY DEF StartThread
  <2> QED
    BY <2>1, <2>2, Bounds
<1>2. /\ t \in Transfers /\ x[t].at = "none" /\ t \notin Started
      /\ Started \cup {t} = 1 .. t /\ t \in 0 .. MaxTransfers
  BY <1>1, FreshNumber DEF FilesInv, TablesOK
<1>3. /\ x' = [x EXCEPT ![t] = r] /\ muddled \subseteq muddled'
      /\ muddled' \subseteq muddled \cup {x[s].key : s \in Started} \cup {k}
  BY DEF StartThread
<1>4. ASSUME NEW s \in Transfers, Live(s), x[s].by = u
      PROVE  x[s].key \in muddled' /\ k \in muddled'
  <2> DEFINE other == {a \in Started : Active(a) /\ (x[a].key = k \/ x[a].by = u)}
  <2>1. s \in other
    BY <1>4 DEF Live, Active, Started, Over
  <2>2. /\ {x[a].key : a \in other} \subseteq muddled'
        /\ other # {} => k \in muddled'
    BY DEF StartThread
  <2> HIDE DEF other
  <2> QED
    BY <2>1, <2>2
<1>5. r \in Threads
  <2>1. 0 \in 0 .. Chunks /\ 0 \in 0 .. Workers - 1
    BY Bounds
  <2>2. (IF kind = "up" THEN t ELSE name) \in Transfers
    BY <1>2 DEF Kinds
  <2> QED
    BY <2>1, <2>2 DEF Threads, Steps
<1>6. /\ r.at = "start" /\ r.by = u /\ r.key = k /\ r.kind = kind /\ r.pos = 0
      /\ kind = "up" => r.name = t
  OBVIOUS
<1> HIDE DEF t, r
<1>7. /\ x' \in [Transfers -> Threads \cup {NoThread}] /\ x'[t] = r
      /\ \A s \in Transfers \ {t} : x'[s] = x[s]
  BY <1>2, <1>3, <1>5 DEF FilesInv, TablesOK, SocketsOK
<1>8. /\ UNCHANGED <<paths, names, file, opened, arr, ass, alive, ctl, rep, link, port, wk, next>>
      /\ crashed' = crashed
  BY DEF redisVars, diskVars, sockVars, serverVars
<1>9. TablesOK'
  <2>1. CountOK'
    <3>1. Started' = Started \cup {t}
      BY <1>2, <1>6, <1>7 DEF Started
    <3> QED
      BY <1>2, <3>1 DEF CountOK
  <2>2. ListsOK'
    <3>1. {x[s].key : s \in Started} \subseteq Keys
      BY DEF Started, Threads, NoThread, FilesInv, TablesOK, SocketsOK
    <3> QED
      BY <1>3, <1>8, <3>1 DEF ListsOK, FilesInv, TablesOK
  <2>3. SocketsOK'
    BY <1>7, <1>8 DEF SocketsOK, FilesInv, TablesOK
  <2> QED
    BY <2>1, <2>2, <2>3 DEF TablesOK
<1>10. LinesOK'
  <2> SUFFICES ASSUME NEW s \in Transfers PROVE LineOK(s)'
    BY DEF LinesOK
  <2>1. LineOK(s) /\ (Opened(s)' <=> Opened(s)) /\ (Fresh(s)' <=> Fresh(s))
    BY <1>8, ThreadTypes DEF Opened, Fresh
  <2>2. CASE s = t
    BY <1>2, <1>6, <1>7, <1>8, <2>1, <2>2, RepliesSame DEF LineOK
  <2>3. CASE s # t
    BY <1>7, <1>8, <2>1, <2>3, LineStays
  <2> QED
    BY <2>2, <2>3
<1>11. TasksOK'
  <2> SUFFICES ASSUME NEW w \in 0 .. Workers - 1 PROVE TaskOK(w)'
    BY DEF TasksOK
  <2>1. TaskOK(w)
    BY DEF FilesInv, LinesInv, TasksOK
  <2>2. wk[w].at # "wait" => wk[w].t \in Transfers \ {t}
    BY <1>2, <2>1 DEF TaskOK
  <2> QED
    BY <1>7, <1>8, <2>1, <2>2, TaskStays
<1>12. ApartOK'
  <2> SUFFICES ASSUME NEW a \in Transfers, NEW b \in Transfers, a # b,
                      Live(a)', Live(b)', x'[a].by = x'[b].by
               PROVE  x'[a].key \in muddled'
    BY DEF ApartOK
  <2>1. CASE a = t
    BY <1>4, <1>6, <1>7, <2>1 DEF Live
  <2>2. CASE b = t
    BY <1>4, <1>6, <1>7, <2>2 DEF Live
  <2>3. CASE a # t /\ b # t
    BY <1>3, <1>7, <2>3 DEF FilesInv, DataInv, ApartOK, Live
  <2> QED
    BY <2>1, <2>2, <2>3
<1>13. ConnectedOK'
  <2> SUFFICES ASSUME NEW p \in Transfers, NEW s \in Transfers,
                      s \in ToSet(port[p].pend) \/ port[p].data = s
               PROVE  link[s].to = p /\ ~Unconnected(s)'
    BY <1>8 DEF ConnectedOK
  <2>1. link[s].to = p /\ ~Unconnected(s)
    BY DEF FilesInv, DataInv, ConnectedOK
  <2>2. s # t
    BY <1>2, <2>1 DEF Unconnected
  <2> QED
    BY <1>7, <2>1, <2>2 DEF Unconnected, Waits
<1>14. LedOK'
  <2>1. \A b \in Transfers : Quiet(b)' => Quiet(b)
    BY <1>2, <1>3, <1>7 DEF Quiet, Orderly
  <2>2. \A a \in Transfers : x'[a].at = "parse" => x[a].at = "parse" /\ x'[a] = x[a]
    BY <1>6, <1>7
  <2>3. LedOK /\ link' = link /\ arr' = arr
    BY <1>8 DEF FilesInv, DataInv
  <2>4. ASSUME NEW a \in Transfers, NEW b \in Transfers, a # b, Quiet(b)'
        PROVE  link'[a].to # b /\ (x'[a].at = "parse" => arr'[x'[a].by][2] # b)
    <3>1. link[a].to # b /\ (x[a].at = "parse" => arr[x[a].by][2] # b)
      BY <2>1, <2>3, <2>4 DEF LedOK
    <3> QED
      BY <2>2, <2>3, <3>1
  <2> QED
    BY <2>4 DEF LedOK
<1>15. UploadsOK'
  <2> SUFFICES ASSUME NEW s \in Transfers, x'[s].at # "none", x'[s].kind = "up",
                      Orderly(x[s].key)'
               PROVE  Undisturbed(s)'
    BY DEF UploadsOK
  <2>1. CASE s = t
    <3>1. link[t].to = None
      BY <1>2, ThreadTypes DEF LineOK
    <3> QED
      BY <1>6, <1>7, <1>8, <2>1, <3>1 DEF Undisturbed, Waits
  <2>2. CASE s # t
    <3>1. x'[s] = x[s]
      BY <1>7, <2>2
    <3>2. Undisturbed(s)
      BY <1>3, <3>1 DEF FilesInv, UploadsOK, Orderly
    <3> QED
      BY <1>8, <3>1, <3>2, UndisturbedStays DEF Same, SameWork, SameBuffers
  <2> QED
    BY <2>1, <2>2
<1> QED
  BY <1>9, <1>10, <1>11, <1>12, <1>13, <1>14, <1>15 DEF FilesInv, LinesInv, DataInv

\* A request is filed with the others.
LEMMA ChatAsks ==
  ASSUME FilesInv, NEW u \in Users, NEW a \in Asks, Ask(u, a)
  PROVE  chat' \in [Users -> Seq(Asks)]
<1>1. chat \in [Users -> Seq(Asks)] /\ chat[u] \in Seq(Asks)
  BY DEF FilesInv, TablesOK, ListsOK
<1>2. Append(chat[u], a) \in Seq(Asks)
  BY <1>1, AppendProperties
<1> QED
  BY <1>1, <1>2 DEF Ask

\* An upload is started (send_friends.cc:293-341).
LEMMA SendFileStep ==
  ASSUME FilesInv, faults \in Nat, NEW u \in Users, NEW k \in Keys, send_file(u, k)
  PROVE  FilesInv'
<1>1. Cardinality(Started) + 1 \in Transfers
  <2>1. PICK m \in 0 .. MaxTransfers : Started = 1 .. m
    BY DEF FilesInv, TablesOK, CountOK
  <2>2. m \in Nat /\ Cardinality(1 .. m) = m
    BY <2>1, Bounds, FS_Interval
  <2>3. Cardinality(Started) + 1 + faults <= MaxTransfers
    BY DEF send_file, StartThread
  <2>4. Cardinality(Started) + 1 <= MaxTransfers
    BY <2>1, <2>2, <2>3, Bounds
  <2> QED
    BY <2>4, FreshNumber DEF FilesInv, TablesOK
<1>2. [do |-> "SENDFILE", key |-> k, name |-> Cardinality(Started) + 1] \in Asks
  BY <1>1 DEF Asks
<1>3. chat' \in [Users -> Seq(Asks)]
  BY <1>2, ChatAsks DEF send_file
<1>4. "up" \in Kinds /\ "up" # "down"
  BY DEF Kinds
<1>5. cache' \in [Users -> [Keys -> Seq(Transfers)]]
  BY DEF send_file, FilesInv, TablesOK, ListsOK
<1>6. /\ StartThread(u, "up", k, None)
      /\ UNCHANGED <<redisVars, diskVars, arr, ass, alive, sockVars, serverVars, crashed>>
  BY DEF send_file
<1> QED
  BY <1>3, <1>4, <1>5, <1>6, StartStep

\* A download is started (send_friends.cc:354-404).
LEMMA ReciveFileStep ==
  ASSUME FilesInv, faults \in Nat, NEW u \in Users, NEW k \in Keys, recive_file(u, k)
  PROVE  FilesInv'
<1>1. PICK i \in DOMAIN cache[u][k] :
        /\ Ask(u, [do |-> "RECVFILE", key |-> k, name |-> cache[u][k][i]])
        /\ StartThread(u, "down", k, cache[u][k][i])
        /\ cache' = [cache EXCEPT ![u][k] = RemoveFirst(@, cache[u][k][i])]
  BY DEF recive_file
<1> DEFINE n == cache[u][k][i]
<1>2. cache[u][k] \in Seq(Transfers) /\ cache \in [Users -> [Keys -> Seq(Transfers)]]
  BY DEF FilesInv, TablesOK, ListsOK
<1>3. n \in Transfers
  BY <1>2, ElementOfSeq, LenProperties
<1>4. cache' \in [Users -> [Keys -> Seq(Transfers)]]
  <2>1. RemoveFirst(cache[u][k], n) \in Seq(Transfers)
    BY <1>2, RemoveFirstSeq
  <2> QED
    BY <1>1, <1>2, <2>1
<1>5. chat' \in [Users -> Seq(Asks)]
  <2>1. [do |-> "RECVFILE", key |-> k, name |-> n] \in Asks
    BY <1>3 DEF Asks
  <2> QED
    BY <1>1, <2>1, ChatAsks
<1>6. UNCHANGED <<redisVars, diskVars, arr, ass, alive, sockVars, serverVars, crashed>>
  BY DEF recive_file
<1>7. "down" \in Kinds
  BY DEF Kinds
<1> QED
  BY <1>1, <1>3, <1>4, <1>5, <1>6, <1>7, StartStep

\* A step that changes lists only.
LEMMA ListsStep ==
  ASSUME FilesInv, ListsOK',
         UNCHANGED <<diskVars, clientVars, sockVars, serverVars, muddled>>
  PROVE  FilesInv'
<1>1. UNCHANGED <<x, file, opened, arr, ass, ctl, rep, link, port, wk, next, muddled>>
  BY DEF diskVars, clientVars, sockVars, serverVars
<1>2. SocketsOK' /\ CountOK'
  BY <1>1, CountStays DEF FilesInv, TablesOK, SocketsOK
<1>3. LinesOK'
  <2>1. \A t \in Transfers : LineOK(t) /\ (Opened(t)' <=> Opened(t))
    BY <1>1, ThreadTypes DEF Opened
  <2> QED
    BY <1>1, <2>1, LineStays DEF LinesOK
<1>4. TasksOK'
  BY <1>1, TaskStays DEF FilesInv, LinesInv, TasksOK
<1>5. ApartOK' /\ LedOK'
  BY <1>1 DEF FilesInv, DataInv, ApartOK, LedOK, Live, Quiet, Orderly
<1>6. ConnectedOK'
  BY <1>1 DEF FilesInv, DataInv, ConnectedOK, Unconnected, Waits
<1>7. UploadsOK'
  <2>1. \A t \in Transfers : Undisturbed(t) => Undisturbed(t)'
    BY <1>1, UndisturbedStays DEF Same, SameWork, SameBuffers
  <2> QED
    BY <1>1, <2>1 DEF FilesInv, UploadsOK, Orderly
<1> QED
  BY <1>2, <1>3, <1>4, <1>5, <1>6, <1>7 DEF FilesInv, TablesOK, LinesInv, DataInv

\* Names are shown (RedisClient.cc:225-247).
LEMMA LookFileStep ==
  ASSUME FilesInv, NEW u \in Users, NEW k \in Keys, look_file(u, k)
  PROVE  FilesInv'
<1> DEFINE shown == [l \in Keys |->
                       IF l[2] = k[2] THEN cache[u][l] \o names[u][l] ELSE cache[u][l]]
<1>1. cache' = [cache EXCEPT ![u] = shown]
  BY DEF look_file
<1>2. shown \in [Keys -> Seq(Transfers)]
  <2>1. \A l \in Keys : cache[u][l] \in Seq(Transfers) /\ names[u][l] \in Seq(Transfers)
    BY DEF FilesInv, TablesOK, ListsOK
  <2>2. \A l \in Keys : cache[u][l] \o names[u][l] \in Seq(Transfers)
    BY <2>1, ConcatProperties
  <2> QED
    BY <2>1, <2>2
<1> HIDE DEF shown
<1>3. cache' \in [Users -> [Keys -> Seq(Transfers)]]
  BY <1>1, <1>2 DEF FilesInv, TablesOK, ListsOK
<1>4. UNCHANGED <<redisVars, diskVars, clientVars, chat, alive, sockVars, serverVars, crashed, muddled>>
  BY DEF look_file
<1>5. ListsOK'
  BY <1>3, <1>4 DEF FilesInv, TablesOK, ListsOK, redisVars
<1> QED
  BY <1>4, <1>5, ListsStep

\* What a handler does to the names: a friend's handlers are those of a group of
\* one, but for the name that is popped (connection.cc:256-311, 1028-1091).
LEMMA HandlersOfNames ==
  ASSUME FilesInv, NEW u \in Users, Connection_file(u),
         NEW a, NEW k, a = Head(chat[u]), k = a.key
  PROVE  \/ /\ a.do = "SENDFILE"
            /\ names' = [v \in Users |-> IF v \in Audience[k[2]]
                          THEN [names[v] EXCEPT ![k] = Append(@, a.name)] ELSE names[v]]
         \/ /\ a.do = "RECVFILE"
            /\ names' = [names EXCEPT ![u][k] =
                          IF ToFriend(k) THEN delUserFile(@) ELSE RemoveFirst(@, a.name)]
<1>1. /\ chat \in [Users -> Seq(Asks)] /\ names \in [Users -> [Keys -> Seq(Transfers)]]
      /\ chat[u] \in Seq(Asks) /\ chat[u] # << >>
  BY DEF Connection_file, FilesInv, TablesOK, ListsOK
<1>2. a \in Asks
  BY <1>1, HeadTailProperties
<1>3. k \in Keys /\ k[2] \in Names
  BY <1>2 DEF Asks, Keys
<1>4. CASE a.do = "SENDFILE" /\ ToFriend(k) /\ Connection_send_file(k, a.name)
  <2>1. k[2] \in Users /\ Audience[k[2]] = {k[2]}
    BY <1>3, <1>4, FilesAssumption DEF ToFriend
  <2>2. names' = [v \in Users |-> IF v = k[2]
                    THEN [names[v] EXCEPT ![k] = Append(@, a.name)] ELSE names[v]]
    BY <1>1, <1>4, <2>1 DEF Connection_send_file
  <2> QED
    BY <1>4, <2>1, <2>2
<1>5. CASE a.do = "SENDFILE" /\ ~ToFriend(k) /\ Connection_send_file_group(k, a.name)
  BY <1>5 DEF Connection_send_file_group
<1>6. CASE a.do = "RECVFILE" /\ ToFriend(k) /\ Connection_recv_file(u, k)
  BY <1>6 DEF Connection_recv_file
<1>7. CASE a.do = "RECVFILE" /\ ~ToFriend(k) /\ Connection_recv_file_group(u, k, a.name)
  BY <1>7 DEF Connection_recv_file_group
<1> QED
  BY <1>4, <1>5, <1>6, <1>7 DEF Connection_file

\* The chat server handles a request about a name (connection.cc:256-311, 1028-1091).
LEMMA ConnectionFileStep ==
  ASSUME FilesInv, NEW u \in Users, Connection_file(u)
  PROVE  FilesInv'
<1> DEFINE a == Head(chat[u])
<1>1. /\ chat \in [Users -> Seq(Asks)] /\ names \in [Users -> [Keys -> Seq(Transfers)]]
      /\ chat[u] \in Seq(Asks) /\ chat[u] # << >>
  BY DEF Connection_file, FilesInv, TablesOK, ListsOK
<1>2. a \in Asks /\ Tail(chat[u]) \in Seq(Asks)
  BY <1>1, HeadTailProperties
<1>3. a.key \in Keys /\ a.name \in Transfers
  BY <1>2 DEF Asks
<1>4. chat' \in [Users -> Seq(Asks)]
  BY <1>1, <1>2 DEF Connection_file
<1>5. names' \in [Users -> [Keys -> Seq(Transfers)]]
  <2>1. CASE names' = [v \in Users |-> IF v \in Audience[a.key[2]]
                        THEN [names[v] EXCEPT ![a.key] = Append(@, a.name)] ELSE names[v]]
    <3>1. ASSUME NEW v \in Users
          PROVE  [names[v] EXCEPT ![a.key] = Append(@, a.name)] \in [Keys -> Seq(Transfers)]
      <4> HIDE DEF a
      <4>1. names[v] \in [Keys -> Seq(Transfers)] /\ names[v][a.key] \in Seq(Transfers)
        BY <1>1, <1>3
      <4>2. Append(names[v][a.key], a.name) \in Seq(Transfers)
        BY <1>3, <4>1, AppendProperties
      <4> QED
        BY <4>1, <4>2
    <3> HIDE DEF a
    <3> QED
      BY <1>1, <2>1, <3>1
  <2>2. CASE names' = [names EXCEPT ![u][a.key] =
                        IF ToFriend(a.key) THEN delUserFile(@) ELSE RemoveFirst(@, a.name)]
    <3> HIDE DEF a
    <3>1. names[u][a.key] \in Seq(Transfers)
      BY <1>1, <1>3
    <3>2. delUserFile(names[u][a.key]) \in Seq(Transfers)
      BY <3>1, HeadTailProperties DEF delUserFile
    <3>3. RemoveFirst(names[u][a.key], a.name) \in Seq(Transfers)
      BY <3>1, RemoveFirstSeq
    <3> QED
      BY <1>1, <2>2, <3>2, <3>3
  <2> QED
    BY <2>1, <2>2, HandlersOfNames
<1>6. UNCHANGED <<paths, cache, alive, crashed, diskVars, clientVars, sockVars, serverVars, muddled>>
  BY DEF Connection_file
<1>7. ListsOK'
  BY <1>4, <1>5, <1>6 DEF FilesInv, TablesOK, ListsOK
<1> QED
  BY <1>6, <1>7, ListsStep

-----------------------------------------------------------------------------
(* The steps of the server's workers.                                      *)

\* The tables that no worker's step touches keep their types.
LEMMA WorkerTables ==
  ASSUME FilesInv, UNCHANGED <<names, clientVars, cache, chat, alive, next>>,
         paths' \in [Keys -> Seq(Transfers)], opened' \subseteq Transfers,
         muddled' \subseteq Keys, crashed' \in Transfers \cup {None},
         file' \in [Transfers -> Seq(Bytes)], wk' \in [0 .. Workers - 1 -> Tasks],
         ctl' \in [Transfers -> Seq(Commands)], rep' \in [Transfers -> Seq(Replies)],
         link' \in [Transfers -> Links], port' \in [Transfers -> Ports]
  PROVE  TablesOK'
<1>1. CountOK'
  BY CountStays DEF clientVars, FilesInv, TablesOK
<1>2. ListsOK'
  BY DEF ListsOK, FilesInv, TablesOK
<1>3. SocketsOK'
  BY DEF SocketsOK, FilesInv, TablesOK, clientVars
<1> QED
  BY <1>1, <1>2, <1>3 DEF TablesOK

\* The types of the tables that a worker's step touches.
LEMMA StoredTables ==
  ASSUME FilesInv
  PROVE  /\ paths \in [Keys -> Seq(Transfers)] /\ opened \subseteq Transfers
         /\ muddled \subseteq Keys /\ crashed \in Transfers \cup {None}
         /\ file \in [Transfers -> Seq(Bytes)] /\ wk \in [0 .. Workers - 1 -> Tasks]
         /\ ctl \in [Transfers -> Seq(Commands)] /\ rep \in [Transfers -> Seq(Replies)]
         /\ link \in [Transfers -> Links] /\ port \in [Transfers -> Ports]
BY DEF FilesInv, TablesOK, ListsOK, SocketsOK

\* A worker reads the one command its client has sent.
LEMMA ReadsEffect ==
  ASSUME FilesInv, NEW w \in 0 .. Workers - 1, NEW t \in Transfers, NEW c \in Commands,
         Reads(w, t, c)
  PROVE  /\ wk[w].at = "wait" /\ x[t].at \notin {"none", "start"} /\ x[t].on = w
         /\ ctl[t] = << c >> /\ ctl' \in [Transfers -> Seq(Commands)] /\ ctl'[t] = << >>
         /\ \A s \in Transfers \ {t} : ctl'[s] = ctl[s]
         /\ x[t] \in Threads
<1>1. /\ wk[w].at = "wait" /\ x[t].at \notin {"none", "start"} /\ x[t].on = w
      /\ ctl[t] # << >> /\ Head(ctl[t]) = c /\ ctl' = [ctl EXCEPT ![t] = Tail(@)]
  BY DEF Reads, Busy
<1>2. ctl[t] \in {<< "PASV" >>, << "STOR" >>, << "RETR" >>}
  BY <1>1, ThreadTypes DEF LineOK
<1>3. ctl[t] = << c >> /\ Tail(ctl[t]) = << >>
  <2>1. PICK d \in Commands : ctl[t] = << d >>
    BY <1>2 DEF Commands
  <2>2. Head(<< d >>) = d /\ Tail(<< d >>) = << >>
    OBVIOUS
  <2> QED
    BY <1>1, <2>1, <2>2
<1>4. x[t] \in Threads
  BY <1>1 DEF FilesInv, TablesOK, SocketsOK, NoThread
<1> QED
  BY <1>1, <1>3, <1>4, StoredTables, EmptySeq

\* What the server answers is a reply.
LEMMA Codes == \A c \in {"227", "150up", "150down", "226", "550"} :
                 \A p \in Transfers \cup {None} : << c, p >> \in Replies
BY DEF Replies

\* A worker answers.
LEMMA AnswerEffect ==
  ASSUME FilesInv, NEW t \in Transfers, NEW p \in {None, t},
         NEW c \in {"227", "150up", "150down", "226", "550"}, Answer(t, c, p)
  PROVE  /\ rep' \in [Transfers -> Seq(Replies)] /\ rep'[t] \in Seq(RepliesTo(t))
         /\ \A s \in Transfers \ {t} : rep'[s] = rep[s]
         /\ rep[t] = << >> => rep'[t] = << << c, p >> >>
<1>1. << c, p >> \in Replies
  BY Codes
<1>2. << c, p >> \in RepliesTo(t)
  BY <1>1 DEF RepliesTo
<1>3. rep[t] \in Seq(RepliesTo(t)) /\ rep[t] \in Seq(Replies) /\ rep \in [Transfers -> Seq(Replies)]
  BY ThreadTypes, StoredTables
<1>4. /\ Append(rep[t], << c, p >>) \in Seq(RepliesTo(t))
      /\ Append(rep[t], << c, p >>) \in Seq(Replies)
  BY <1>1, <1>2, <1>3, AppendProperties
<1>5. rep' = [rep EXCEPT ![t] = Append(rep[t], << c, p >>)]
  BY DEF Answer
<1>6. rep[t] = << >> => Append(rep[t], << c, p >>) = << << c, p >> >>
  OBVIOUS
<1> QED
  BY <1>3, <1>4, <1>5, <1>6

\* The worker of t ends up with a task for it, or with none.
LEMMA EngageEffect ==
  ASSUME FilesInv, NEW w \in 0 .. Workers - 1, NEW r \in Tasks, wk' = [wk EXCEPT ![w] = r]
  PROVE  /\ wk' \in [0 .. Workers - 1 -> Tasks] /\ wk'[w] = r
         /\ \A v \in (0 .. Workers - 1) \ {w} : wk'[v] = wk[v]
BY StoredTables

\* A worker that is at nothing.
LEMMA FreeTask == free \in Tasks /\ free.at = "wait"
BY DEF free, Tasks

\* A connection that is closed, and who hears of it.
LEMMA ClosedEffect ==
  ASSUME FilesInv, NEW t \in Transfers, Closed(t)
  PROVE  /\ port' \in [Transfers -> Ports] /\ port'[t] = closed
         /\ \A s \in Transfers \ {t} : port'[s] = port[s]
         /\ link' \in [Transfers -> Links]
         /\ \A s \in Transfers :
              /\ link'[s].to = link[s].to /\ link'[s].q = link[s].q
              /\ link'[s] = link[s] \/ s = port[t].data \/ s \in ToSet(port[t].pend)
<1>1. closed \in Ports
  BY EmptySeq DEF closed, Ports
<1>2. ASSUME NEW s \in Transfers
      PROVE  /\ link'[s] \in Links /\ link'[s].to = link[s].to /\ link'[s].q = link[s].q
             /\ link'[s] = link[s] \/ s = port[t].data \/ s \in ToSet(port[t].pend)
  <2>1. link[s] \in Links
    BY StoredTables
  <2>2. link'[s] = IF s = port[t].data \/ s \in ToSet(port[t].pend)
                   THEN [link[s] EXCEPT !.eof = TRUE] ELSE link[s]
    BY DEF Closed
  <2> QED
    BY <2>1, <2>2 DEF Links
<1>3. link' = [s \in Transfers |-> link'[s]]
  BY DEF Closed
<1>4. link' \in [Transfers -> Links]
  BY <1>2, <1>3
<1> QED
  BY <1>1, <1>2, <1>4, StoredTables DEF Closed

\* A listening socket is opened and the port is answered (FTPconnect.cc).
LEMMA PasvStep ==
  ASSUME FilesInv, NEW w \in 0 .. Workers - 1, NEW t \in Transfers, PASV(w, t)
  PROVE  FilesInv' /\ WorkerMoves(w, t)
<1> DEFINE open == [closed EXCEPT !.open = TRUE]
           r == [at |-> "accept", t |-> t, f |-> None, pos |-> 0]
<1>1. /\ wk[w].at = "wait" /\ x[t].at \notin {"none", "start"} /\ x[t].on = w
      /\ ctl[t] = << "PASV" >> /\ ctl' \in [Transfers -> Seq(Commands)] /\ ctl'[t] = << >>
      /\ \A s \in Transfers \ {t} : ctl'[s] = ctl[s]
  <2>1. "PASV" \in Commands
    BY DEF Commands
  <2> QED
    BY <2>1, ReadsEffect DEF PASV
<1>2. x[t].at \in {"227", "dead"} /\ rep[t] = << >> /\ port[t] = closed
      /\ (x[t].kind = "up" => x[t].name = t)
  BY <1>1, ThreadTypes DEF LineOK
<1>3. /\ rep' \in [Transfers -> Seq(Replies)] /\ rep'[t] \in Seq(RepliesTo(t))
      /\ \A s \in Transfers \ {t} : rep'[s] = rep[s]
      /\ rep'[t] = << << "227", t >> >>
  BY <1>2, AnswerEffect DEF PASV
<1>4. open \in Ports /\ open.data = None /\ open.pend = << >>
  BY EmptySeq DEF closed, Ports
<1> HIDE DEF open
<1>5. /\ port' \in [Transfers -> Ports] /\ port'[t] = open
      /\ \A s \in Transfers \ {t} : port'[s] = port[s]
  BY <1>4, StoredTables DEF PASV, open
<1>6. r \in Tasks /\ wk' = [wk EXCEPT ![w] = r]
  BY Bounds DEF Tasks, PASV, Engage
<1>7. /\ wk' \in [0 .. Workers - 1 -> Tasks] /\ wk'[w].at = "accept" /\ wk'[w].t = t
      /\ \A v \in (0 .. Workers - 1) \ {w} : wk'[v] = wk[v]
  BY <1>6, EngageEffect
<1> HIDE DEF r
<1>8. UNCHANGED <<redisVars, diskVars, clientVars, chatVars, alive, link, next, crashed, muddled>>
  BY DEF PASV
<1>9. WorkerMoves(w, t)
  BY <1>1, <1>3, <1>4, <1>5, <1>7, <1>8, ToSetEmpty DEF WorkerMoves, clientVars, diskVars
<1>10. TablesOK'
  <2>1. UNCHANGED <<names, clientVars, cache, chat, alive, next, paths, opened, muddled, crashed, file, link>>
    BY <1>8 DEF redisVars, diskVars, chatVars
  <2> QED
    BY <1>1, <1>3, <1>5, <1>7, <2>1, StoredTables, WorkerTables
<1>11. TaskOK(w)'
  BY <1>1, <1>7, <1>8 DEF TaskOK, clientVars
<1>12. LineOK(t)'
  <2>1. Opened(t)'
    BY <1>7 DEF Opened
  <2> QED
    BY <1>1, <1>2, <1>3, <1>8, <2>1, RepliesSame DEF LineOK, clientVars
<1>13. ASSUME x'[t].kind = "up", Orderly(x[t].key)' PROVE Undisturbed(t)'
  <2>1. Undisturbed(t) /\ x' = x
    BY <1>1, <1>8, <1>13 DEF FilesInv, UploadsOK, Orderly, clientVars
  <2>2. x[t].at = "227" /\ Fresh(t) /\ link[t].to \in {None, t} /\ x[t].pos = 0
    BY <1>2, <2>1 DEF Undisturbed
  <2>3. Fresh(t)' /\ Accepting(t)'
    BY <1>1, <1>7, <1>8, <2>1, <2>2 DEF Fresh, Accepting, diskVars
  <2> QED
    BY <1>5, <1>8, <2>1, <2>2, <2>3 DEF Undisturbed, Waits, closed, open
<1> QED
  BY <1>9, <1>10, <1>11, <1>12, <1>13, WorkerKeeps

\* A worker that serves a client, and what its client has come to.
LEMMA Serving ==
  ASSUME FilesInv, NEW w \in 0 .. Workers - 1, wk[w].at # "wait"
  PROVE  LET t == wk[w].t IN
         /\ t \in Transfers /\ x[t] \in Threads /\ x[t].at \notin {"none", "start"}
         /\ x[t].on = w /\ ctl[t] # << "PASV" >> /\ wk[w] \in Tasks
         /\ wk[w].at # "accept" => wk[w].f \in Transfers /\ ctl[t] = << >> /\ ~Waits(t)
         /\ wk[w].at \in {"recv", "send"} => port[t].data \in Transfers
         /\ wk[w].at = "recv" => wk[w].f = t /\ x[t].kind = "up"
         /\ wk[w].at \in {"send", "lrem"} => x[t].kind = "down"
<1> DEFINE t == wk[w].t
<1>1. TaskOK(w)
  BY DEF FilesInv, LinesInv, TasksOK
<1>2. /\ t \in Transfers /\ x[t].at \notin {"none", "start"} /\ x[t].on = w
      /\ ctl[t] # << "PASV" >>
      /\ wk[w].at # "accept" => wk[w].f \in Transfers /\ ctl[t] = << >> /\ ~Waits(t)
      /\ wk[w].at \in {"recv", "send"} => port[t].data # None
      /\ wk[w].at = "recv" => wk[w].f = t /\ x[t].kind = "up"
      /\ wk[w].at \in {"send", "lrem"} => x[t].kind = "down"
  BY <1>1 DEF TaskOK
<1>3. x[t] \in Threads /\ wk[w] \in Tasks
  BY <1>2 DEF FilesInv, TablesOK, SocketsOK, NoThread
<1>4. port[t].data \in Transfers \cup {None}
  BY <1>2, StoredTables DEF Ports
<1> QED
  BY <1>2, <1>3, <1>4

\* The first that has connected is accepted (Dataconnect.cc:41-59).
LEMMA AcceptStep ==
  ASSUME FilesInv, NEW w \in 0 .. Workers - 1, accept_data(w), NEW t, t = wk[w].t
  PROVE  FilesInv' /\ WorkerMoves(w, t)
<1> DEFINE q == port[t].pend
           r == [port[t] EXCEPT !.data = Head(q), !.pend = Tail(q)]
<1>1. wk[w].at = "accept" /\ q # << >>
  BY DEF accept_data, Busy
<1>2. /\ t \in Transfers /\ x[t].at \notin {"none", "start"} /\ x[t].on = w
      /\ ctl[t] # << "PASV" >>
  BY <1>1, Serving
<1>3. /\ port' = [port EXCEPT ![t] = r] /\ wk' = [wk EXCEPT ![w] = free]
      /\ UNCHANGED <<redisVars, diskVars, clientVars, chatVars, alive, ctl, rep, link,
                     next, crashed, muddled>>
  BY DEF accept_data, Return
<1>4. q \in Seq(Transfers) /\ port[t] \in Ports
  BY <1>2, StoredTables DEF Ports
<1>5. /\ Head(q) \in Transfers /\ Tail(q) \in Seq(Transfers)
      /\ Head(q) \in ToSet(q) /\ ToSet(Tail(q)) \subseteq ToSet(q)
  BY <1>1, <1>4, HeadTailSet
<1>6. r \in Ports /\ r.data = Head(q) /\ r.pend = Tail(q)
  <2> HIDE DEF q
  <2> QED
    BY <1>4, <1>5 DEF Ports
<1> HIDE DEF r
<1>7. /\ port' \in [Transfers -> Ports] /\ port'[t] = r
      /\ \A s \in Transfers \ {t} : port'[s] = port[s]
  BY <1>2, <1>3, <1>6, StoredTables
<1>8. /\ wk' \in [0 .. Workers - 1 -> Tasks] /\ wk'[w].at = "wait"
      /\ \A v \in (0 .. Workers - 1) \ {w} : wk'[v] = wk[v]
  BY <1>3, FreeTask, EngageEffect
<1>9. UNCHANGED <<x, arr, ass, names, clientVars, cache, chat, alive, next, paths, opened, muddled,
                  crashed, file, ctl, rep, link>>
  BY <1>3 DEF redisVars, diskVars, clientVars, chatVars
<1>10. WorkerMoves(w, t)
  BY <1>2, <1>5, <1>6, <1>7, <1>8, <1>9 DEF WorkerMoves
<1>11. TablesOK'
  BY <1>7, <1>8, <1>9, StoredTables, WorkerTables
<1>12. TaskOK(w)'
  BY <1>8 DEF TaskOK
<1>13. LineOK(t)'
  <2>1. Opened(t)'
    BY <1>5, <1>6, <1>7, Bounds DEF Opened
  <2>2. LineOK(t)
    BY <1>2, ThreadTypes
  <2> QED
    BY <1>2, <1>9, <2>1, <2>2, RepliesSame DEF LineOK
<1>14. ASSUME x'[t].kind = "up", Orderly(x[t].key)' PROVE Undisturbed(t)'
  <2>1. Undisturbed(t) /\ LineOK(t)
    BY <1>2, <1>9, <1>14, ThreadTypes DEF FilesInv, UploadsOK, Orderly
  <2>2. ~Idle(t) /\ ~Receiving(t)
    BY <1>1, <1>2 DEF Idle, Receiving, Serves
  <2>3. ~(Waits(t) /\ ctl[t] = << >>)
    BY <1>1, <2>1 DEF Undisturbed, closed
  <2>4. ~Waits(t)
    BY <1>2, <2>1, <2>3 DEF LineOK, Waits
  <2>5. x[t].at = "150"
    <3>1. x[t].at \in Steps
      BY <1>1, Serving DEF Threads
    <3> QED
      BY <1>2, <2>1, <2>2, <2>4, <3>1 DEF Undisturbed, Waits, Steps
  <2>6. /\ Fresh(t) /\ link[t].to = t /\ ctl[t] = << "STOR" >> /\ q = << t >> /\ x[t].pos = 0
    BY <2>1, <2>2, <2>5 DEF Undisturbed, closed
  <2>7. port'[t].data = t
    BY <1>6, <1>7, <2>6
  <2>8. Idle(t)' /\ Fresh(t)'
    BY <1>2, <1>8, <1>9, <2>6 DEF Idle, Serves, Fresh
  <2> QED
    BY <1>9, <2>5, <2>6, <2>7, <2>8 DEF Undisturbed, Waits
<1> QED
  BY <1>2, <1>10, <1>11, <1>12, <1>13, <1>14, WorkerKeeps

\* An upload is received into a file of its own, or refused
\* (Dataconnect.cc:115-127).
LEMMA StorStep ==
  ASSUME FilesInv, NEW w \in 0 .. Workers - 1, NEW t \in Transfers, STOR(w, t)
  PROVE  FilesInv' /\ WorkerMoves(w, t)
<1>1. /\ wk[w].at = "wait" /\ x[t].at \notin {"none", "start"} /\ x[t].on = w
      /\ ctl[t] = << "STOR" >> /\ ctl' \in [Transfers -> Seq(Commands)] /\ ctl'[t] = << >>
      /\ \A s \in Transfers \ {t} : ctl'[s] = ctl[s]
      /\ x[t].key \in Keys /\ x[t].name \in Transfers
  <2>1. "STOR" \in Commands
    BY DEF Commands
  <2> QED
    BY <2>1, ReadsEffect DEF STOR, Threads
<1>2. /\ x[t].at \in {"150", "dead"} /\ Opened(t)
      /\ x[t].at = "150" => rep[t] = << >>
      /\ x[t].kind = "up" /\ x[t].name = t
  BY <1>1, ThreadTypes DEF LineOK
<1>3. port[t].data # None
  <2>1. ASSUME NEW v \in 0 .. Workers - 1, wk[v].at = "accept" /\ wk[v].t = t PROVE FALSE
    BY <1>1, <2>1, Serving
  <2> QED
    BY <1>2, <2>1 DEF Opened
<1>4. paths' \in [Keys -> Seq(Transfers)]
  <2>1. Append(paths[x[t].key], x[t].name) \in Seq(Transfers)
    BY <1>1, StoredTables, AppendProperties
  <2>2. paths' = [paths EXCEPT ![x[t].key] = Append(@, x[t].name)]
    BY DEF STOR
  <2> QED
    BY <1>1, <2>1, <2>2, StoredTables
<1>5. UNCHANGED <<names, x, arr, ass, clientVars, file, cache, chat, alive, next, crashed>>
  BY DEF STOR, clientVars, chatVars
<1>6. CASE /\ opened' = opened \cup {x[t].name} /\ Reply(t, "150up")
           /\ Engage(w, "recv", t, x[t].name) /\ UNCHANGED <<link, port, faults, muddled>>
  <2>1. /\ rep' \in [Transfers -> Seq(Replies)] /\ rep'[t] \in Seq(RepliesTo(t))
        /\ \A s \in Transfers \ {t} : rep'[s] = rep[s]
        /\ rep[t] = << >> => rep'[t] = << << "150up", None >> >>
    BY <1>6, AnswerEffect DEF Reply
  <2> DEFINE r == [at |-> "recv", t |-> t, f |-> x[t].name, pos |-> 0]
  <2>2. r \in Tasks /\ wk' = [wk EXCEPT ![w] = r]
    BY <1>1, <1>6 DEF Tasks, Engage
  <2>3. /\ wk' \in [0 .. Workers - 1 -> Tasks] /\ wk'[w].at = "recv" /\ wk'[w].t = t
        /\ wk'[w].f = t
        /\ \A v \in (0 .. Workers - 1) \ {w} : wk'[v] = wk[v]
    BY <1>2, <2>2, EngageEffect
  <2> HIDE DEF r
  <2>4. WorkerMoves(w, t)
    BY <1>1, <1>5, <1>6, <2>1, <2>3 DEF WorkerMoves
  <2>5. TablesOK'
    BY <1>1, <1>4, <1>5, <1>6, <2>1, <2>3, StoredTables, WorkerTables
  <2>6. TaskOK(w)'
    BY <1>1, <1>2, <1>3, <1>5, <1>6, <2>3 DEF TaskOK, Waits
  <2>7. LineOK(t)'
    BY <1>1, <1>2, <1>5, <1>6, <2>1, RepliesSame DEF LineOK
  <2>8. ASSUME x'[t].kind = "up", Orderly(x[t].key)' PROVE Undisturbed(t)'
    <3>1. Undisturbed(t)
      BY <1>1, <1>5, <1>6, <2>8 DEF FilesInv, UploadsOK, Orderly
    <3>2. x[t].at = "150" /\ ~Accepting(t) /\ ~Receiving(t)
      BY <1>1, <1>2, <3>1 DEF Undisturbed, Accepting, Receiving
    <3>3. Fresh(t) /\ link[t].to = t /\ port[t].data = t /\ x[t].pos = 0
      BY <3>1, <3>2 DEF Undisturbed
    <3>4. Fresh(t)' /\ Receiving(t)'
      BY <1>1, <1>5, <1>6, <2>3, <3>3 DEF Fresh, Receiving
    <3> QED
      BY <1>2, <1>5, <1>6, <2>1, <3>2, <3>3, <3>4 DEF Undisturbed, Waits
  <2> QED
    BY <2>4, <2>5, <2>6, <2>7, <2>8, WorkerKeeps
<1>7. CASE /\ Reply(t, "550") /\ Closed(t) /\ muddled' = muddled \cup {x[t].key}
           /\ UNCHANGED <<opened, wk>>
  <2>1. /\ rep' \in [Transfers -> Seq(Replies)] /\ rep'[t] \in Seq(RepliesTo(t))
        /\ \A s \in Transfers \ {t} : rep'[s] = rep[s]
    BY <1>7, AnswerEffect DEF Reply
  <2>2. /\ port' \in [Transfers -> Ports] /\ port'[t] = closed
        /\ \A s \in Transfers \ {t} : port'[s] = port[s]
        /\ link' \in [Transfers -> Links]
        /\ \A s \in Transfers :
             /\ link'[s].to = link[s].to
             /\ link'[s] = link[s] \/ s = port[t].data \/ s \in ToSet(port[t].pend)
    BY <1>7, ClosedEffect
  <2>3. WorkerMoves(w, t)
    BY <1>1, <1>5, <1>7, <2>1, <2>2, ToSetEmpty DEF WorkerMoves, closed
  <2>4. TablesOK'
    BY <1>1, <1>4, <1>5, <1>7, <2>1, <2>2, StoredTables, WorkerTables
  <2>5. TaskOK(w)'
    BY <1>1, <1>7 DEF TaskOK
  <2>6. LineOK(t)'
    BY <1>1, <1>2, <1>5, <2>1, RepliesSame DEF LineOK
  <2> QED
    BY <1>5, <1>7, <2>3, <2>4, <2>5, <2>6, WorkerKeeps DEF Orderly
<1> QED
  BY <1>6, <1>7 DEF STOR

\* What arrives is written, until the client has closed (Dataconnect.cc:128-151).
LEMMA ReciveLoopStep ==
  ASSUME FilesInv, NEW w \in 0 .. Workers - 1, recive_loop(w), NEW t, NEW d, ServedBy(w, t, d)
  PROVE  FilesInv' /\ WorkerMoves(w, t)
<1>0. t = wk[w].t /\ d = port[t].data
  BY DEF ServedBy
<1>1. wk[w].at = "recv"
  BY DEF recive_loop, Busy
<1>2. /\ t \in Transfers /\ x[t].at \notin {"none", "start"} /\ x[t].on = w
      /\ x[t] \in Threads /\ ctl[t] = << >> /\ ~Waits(t) /\ d \in Transfers
      /\ wk[w].f = t /\ x[t].kind = "up"
  BY <1>0, <1>1, Serving
<1>3. UNCHANGED <<names, x, arr, ass, clientVars, cache, chat, alive, next, paths, opened, muddled, ctl>>
  BY DEF recive_loop, redisVars, clientVars, chatVars
<1>4. LineOK(t) /\ link[d] \in Links /\ link[d].q \in Seq(Bytes)
  BY <1>2, ThreadTypes DEF Links
<1>5. ASSUME Orderly(x[t].key)'
      PROVE  /\ Undisturbed(t) /\ Receiving(t) /\ d = t /\ ~Idle(t)
             /\ x[t].at \in {"150", "chk150", "data", "send", "226"}
  <2>1. Undisturbed(t)
    BY <1>2, <1>3, <1>5 DEF FilesInv, UploadsOK, Orderly
  <2>2. ~Idle(t) /\ ~Accepting(t)
    BY <1>0, <1>1, <1>2 DEF Idle, Accepting, Serves
  <2>3. x[t].at \in Steps
    BY <1>2 DEF Threads
  <2>4. x[t].at \in {"150", "chk150", "data", "send", "226"}
    BY <1>2, <2>1, <2>2, <2>3 DEF Undisturbed, Waits, Steps
  <2>5. Receiving(t)
    BY <1>2, <2>1, <2>2, <2>4 DEF Undisturbed
  <2> QED
    BY <1>0, <2>1, <2>2, <2>4, <2>5 DEF Receiving
<1>6. CASE /\ link[d].q # << >>
           /\ file' = [file EXCEPT ![wk[w].f] = Append(@, Head(link[d].q))]
           /\ link' = [link EXCEPT ![d].q = Tail(@)]
           /\ UNCHANGED <<rep, port, wk, crashed>>
  <2>1. Head(link[d].q) \in Bytes /\ Tail(link[d].q) \in Seq(Bytes)
    BY <1>4, <1>6, HeadTailProperties
  <2>2. Append(file[t], Head(link[d].q)) \in Seq(Bytes)
    BY <1>2, <2>1, StoredTables, AppendProperties
  <2>3. /\ file' \in [Transfers -> Seq(Bytes)] /\ file'[t] = Append(file[t], Head(link[d].q))
        /\ \A s \in Transfers \ {t} : file'[s] = file[s]
    BY <1>2, <1>6, <2>2, StoredTables
  <2>4. /\ link' \in [Transfers -> Links]
        /\ \A s \in Transfers \ {d} : link'[s] = link[s]
        /\ link'[d].to = link[d].to /\ link'[d].q = Tail(link[d].q) /\ link'[d].eof = link[d].eof
    <3>1. link' = [link EXCEPT ![d].q = Tail(link[d].q)]
      BY <1>6
    <3> QED
      BY <1>2, <2>1, <3>1, LinkTakes
  <2>5. WorkerMoves(w, t)
    BY <1>0, <1>2, <1>3, <1>6, <2>3, <2>4 DEF WorkerMoves
  <2>6. TablesOK'
    BY <1>3, <1>6, <2>3, <2>4, StoredTables, WorkerTables
  <2>7. TaskOK(w)'
    <3>1. TaskOK(w)
      BY DEF FilesInv, LinesInv, TasksOK
    <3> QED
      BY <1>3, <1>6, <3>1, TaskStays
  <2>8. LineOK(t)'
    BY <1>2, <1>3, <1>4, <1>6, LineStays DEF Opened
  <2>9. ASSUME Orderly(x[t].key)' PROVE Undisturbed(t)'
    <3>1. /\ Undisturbed(t) /\ Receiving(t) /\ d = t /\ ~Idle(t)
          /\ x[t].at \in {"150", "chk150", "data", "send", "226"}
      BY <1>5, <2>9
    <3>2. FileOf(t)' = FileOf(t)
      <4>1. file[t] \in Seq(Bytes)
        BY <1>2, StoredTables
      <4>2. Append(file[t], Head(link[t].q)) \o Tail(link[t].q) = file[t] \o link[t].q
        BY <1>4, <1>6, <3>1, <4>1, ChunkPasses
      <4> QED
        BY <2>3, <2>4, <3>1, <4>2 DEF FileOf
    <3>3. ~Fresh(t) /\ link'[t].eof = link[t].eof /\ link'[t].to = link[t].to /\ Receiving(t)'
      BY <1>3, <1>6, <2>4, <3>1 DEF Fresh, Receiving
    <3>4. x[t].at \in {"data", "send", "226"}
      BY <1>1, <1>2, <3>1, <3>3 DEF Undisturbed
    <3> QED
      BY <1>3, <1>6, <3>1, <3>2, <3>3, <3>4 DEF Undisturbed, Waits, Chunk, Whole
  <2> QED
    BY <1>2, <2>5, <2>6, <2>7, <2>8, <2>9, WorkerKeeps
<1>7. CASE /\ EndOfData(d) /\ Closed(t) /\ Reply(t, "226") /\ MayDie(t) /\ Return(w)
           /\ UNCHANGED file
  <2>1. /\ rep' \in [Transfers -> Seq(Replies)] /\ rep'[t] \in Seq(RepliesTo(t))
        /\ \A s \in Transfers \ {t} : rep'[s] = rep[s]
        /\ rep[t] = << >> => rep'[t] = << << "226", None >> >>
    BY <1>2, <1>7, AnswerEffect DEF Reply
  <2>2. /\ port' \in [Transfers -> Ports] /\ port'[t] = closed
        /\ \A s \in Transfers \ {t} : port'[s] = port[s]
        /\ link' \in [Transfers -> Links]
        /\ \A s \in Transfers :
             /\ link'[s].to = link[s].to
             /\ link'[s] = link[s] \/ s = port[t].data \/ s \in ToSet(port[t].pend)
    BY <1>2, <1>7, ClosedEffect
  <2>3. /\ wk' \in [0 .. Workers - 1 -> Tasks] /\ wk'[w].at = "wait"
        /\ \A v \in (0 .. Workers - 1) \ {w} : wk'[v] = wk[v]
    BY <1>7, FreeTask, EngageEffect DEF Return
  <2>4. crashed' \in Transfers \cup {None}
    BY <1>2, <1>7 DEF MayDie
  <2>5. WorkerMoves(w, t)
    BY <1>0, <1>2, <1>3, <1>7, <2>1, <2>2, <2>3, ToSetEmpty DEF WorkerMoves, closed
  <2>6. TablesOK'
    BY <1>3, <1>7, <2>1, <2>2, <2>3, <2>4, StoredTables, WorkerTables
  <2>7. TaskOK(w)'
    BY <2>3 DEF TaskOK
  <2>8. LineOK(t)'
    <3>1. /\ x'[t] = x[t] /\ ctl'[t] = << >> /\ rep'[t] \in Seq(RepliesTo(t)')
          /\ x[t].at \notin {"none", "start", "227", "parse", "connect"}
      BY <1>2, <1>3, <2>1, RepliesSame DEF Waits
    <3>2. /\ x[t].kind = "up" => x[t].name = t
          /\ x[t].at = "send" => x[t].pos < Chunks
      BY <1>2, <1>4 DEF LineOK
    <3>3. << "PASV" >> # << >> /\ << "STOR" >> # << >> /\ << "RETR" >> # << >>
      OBVIOUS
    <3> QED
      BY <1>2, <3>1, <3>2, <3>3 DEF LineOK
  <2>9. ASSUME Orderly(x[t].key)' PROVE Undisturbed(t)'
    <3>1. /\ Undisturbed(t) /\ Receiving(t) /\ d = t /\ ~Idle(t)
          /\ x[t].at \in {"150", "chk150", "data", "send", "226"}
      BY <1>5, <2>9
    <3>2. link[t].q = << >> /\ link[t].eof
      BY <1>7, <3>1 DEF EndOfData
    <3>3. x[t].at = "226" /\ rep[t] = << >> /\ FileOf(t) = Whole(t) /\ link[t].to \in {None, t}
      BY <1>2, <3>1, <3>2 DEF Undisturbed, Fresh
    <3>4. file[t] = Whole(t)
      <4>1. file[t] \in Seq(Bytes)
        BY <1>2, StoredTables
      <4> QED
        BY <3>2, <3>3, <4>1, ConcatEmptySeq DEF FileOf
    <3>5. Idle(t)'
      BY <1>2, <1>3, <2>3 DEF Idle, Serves
    <3> QED
      BY <1>2, <1>3, <1>7, <2>1, <2>2, <3>3, <3>4, <3>5 DEF Undisturbed, Waits, Whole
  <2> QED
    BY <1>2, <2>5, <2>6, <2>7, <2>8, <2>9, WorkerKeeps
<1> QED
  BY <1>0, <1>6, <1>7 DEF recive_loop

\* A download has a path to send, or is refused, or ends the server
\* (Dataconnect.cc:68-85).
LEMMA RetrCommandStep ==
  ASSUME FilesInv, NEW w \in 0 .. Workers - 1, NEW t \in Transfers, RETR(w, t)
  PROVE  FilesInv' /\ WorkerMoves(w, t)
<1>1. /\ wk[w].at = "wait" /\ x[t].at \notin {"none", "start"} /\ x[t].on = w
      /\ ctl[t] = << "RETR" >> /\ ctl' \in [Transfers -> Seq(Commands)] /\ ctl'[t] = << >>
      /\ \A s \in Transfers \ {t} : ctl'[s] = ctl[s]
      /\ x[t] \in Threads
  <2>1. "RETR" \in Commands
    BY DEF Commands
  <2> QED
    BY <2>1, ReadsEffect DEF RETR
<1>2. /\ x[t].at \in {"150", "dead"} /\ Opened(t) /\ LineOK(t)
      /\ x[t].kind = "down" /\ x[t].key \in Keys
  <2>1. LineOK(t) /\ << "RETR" >> # << "STOR" >>
    BY <1>1, ThreadTypes
  <2> QED
    BY <1>1, <2>1 DEF LineOK, Threads, Kinds
<1>3. port[t].data # None
  <2>1. ASSUME NEW v \in 0 .. Workers - 1, wk[v].at = "accept" /\ wk[v].t = t PROVE FALSE
    BY <1>1, <2>1, Serving
  <2> QED
    BY <1>2, <2>1 DEF Opened
<1>4. UNCHANGED <<paths, names, file, opened, x, arr, ass, clientVars, cache, chat, alive, link, port,
                  next, muddled>>
  BY DEF RETR, redisVars, diskVars, clientVars, chatVars
<1> DEFINE list == paths[x[t].key]
<1>5. list \in Seq(Transfers)
  BY <1>2, StoredTables
<1>6. SUFFICES ASSUME rep' \in [Transfers -> Seq(Replies)], rep'[t] \in Seq(RepliesTo(t)),
                      \A s \in Transfers \ {t} : rep'[s] = rep[s],
                      wk' \in [0 .. Workers - 1 -> Tasks],
                      wk'[w].at = "wait" \/ (wk'[w].at = "send" /\ wk'[w].t = t /\ wk'[w].f \in Transfers),
                      \A v \in (0 .. Workers - 1) \ {w} : wk'[v] = wk[v],
                      crashed' \in Transfers \cup {None}
               PROVE  FilesInv' /\ WorkerMoves(w, t)
  <2>1. CASE crashed' = t /\ UNCHANGED <<rep, wk>>
    <3>1. rep[t] \in Seq(RepliesTo(t))
      BY ThreadTypes
    <3> QED
      BY <1>1, <1>6, <2>1, <3>1, StoredTables
  <2>2. CASE Reply(t, "550") /\ UNCHANGED <<wk, crashed>>
    <3>1. /\ rep' \in [Transfers -> Seq(Replies)] /\ rep'[t] \in Seq(RepliesTo(t))
          /\ \A s \in Transfers \ {t} : rep'[s] = rep[s]
      BY <2>2, AnswerEffect DEF Reply
    <3> QED
      BY <1>1, <1>6, <2>2, <3>1, StoredTables
  <2>3. CASE /\ list # << >> /\ Reply(t, "150down")
             /\ Engage(w, "send", t, FirstPath(list)) /\ UNCHANGED crashed
    <3>1. /\ rep' \in [Transfers -> Seq(Replies)] /\ rep'[t] \in Seq(RepliesTo(t))
          /\ \A s \in Transfers \ {t} : rep'[s] = rep[s]
      BY <2>3, AnswerEffect DEF Reply
    <3>2. list[1] \in Transfers
      BY <1>5, <2>3, HeadTailProperties
    <3> DEFINE r == [at |-> "send", t |-> t, f |-> list[1], pos |-> 0]
    <3>3. r \in Tasks /\ wk' = [wk EXCEPT ![w] = r]
      BY <2>3, <3>2 DEF Tasks, Engage, FirstPath
    <3>4. r.at = "send" /\ r.t = t /\ r.f \in Transfers
      BY <3>2
    <3> HIDE DEF r
    <3>5. /\ wk' \in [0 .. Workers - 1 -> Tasks] /\ wk'[w] = r
          /\ \A v \in (0 .. Workers - 1) \ {w} : wk'[v] = wk[v]
      BY <3>3, EngageEffect
    <3> QED
      BY <1>6, <2>3, <3>1, <3>4, <3>5, StoredTables
  <2> QED
    BY <2>1, <2>2, <2>3 DEF RETR
<1>7. WorkerMoves(w, t)
  BY <1>1, <1>4, <1>6 DEF WorkerMoves
<1>8. TablesOK'
  BY <1>1, <1>4, <1>6, StoredTables, WorkerTables
<1>9. TaskOK(w)'
  <2>1. /\ x' = x /\ ctl'[t] # << "PASV" >> /\ ctl'[t] = << >> /\ port'[t].data # None
        /\ x[t].at \notin {"none", "start", "227", "parse", "connect"}
    BY <1>1, <1>2, <1>3, <1>4
  <2>2. CASE wk'[w].at = "wait"
    BY <2>2 DEF TaskOK
  <2>3. CASE wk'[w].at = "send" /\ wk'[w].t = t /\ wk'[w].f \in Transfers
    BY <1>1, <1>2, <2>1, <2>3 DEF TaskOK, Waits
  <2> QED
    BY <1>6, <2>2, <2>3
<1>10. LineOK(t)'
  BY <1>1, <1>2, <1>4, <1>6, RepliesSame DEF LineOK
<1> QED
  BY <1>2, <1>4, <1>7, <1>8, <1>9, <1>10, WorkerKeeps

\* The path is removed once the file was sent (Dataconnect.cc:110-113).
LEMMA SendDoneStep ==
  ASSUME FilesInv, NEW w \in 0 .. Workers - 1, send_done(w), NEW t, t = wk[w].t
  PROVE  FilesInv' /\ WorkerMoves(w, t)
<1>1. wk[w].at = "lrem"
  BY DEF send_done, Busy
<1>2. /\ t \in Transfers /\ x[t] \in Threads /\ x[t].at \notin {"none", "start"}
      /\ x[t].on = w /\ ctl[t] # << "PASV" >> /\ x[t].kind = "down" /\ x[t].key \in Keys
  BY <1>1, Serving DEF Threads
<1>3. UNCHANGED <<names, diskVars, clientVars, chatVars, alive, sockVars, next, crashed, muddled>>
  BY DEF send_done
<1>4. UNCHANGED <<x, arr, ass, names, clientVars, cache, chat, alive, next, opened, muddled,
                  crashed, file, ctl, rep, link, port>>
  BY <1>3 DEF diskVars, clientVars, chatVars, sockVars
<1>5. paths' \in [Keys -> Seq(Transfers)]
  <2>1. RemoveFirst(paths[x[t].key], wk[w].f) \in Seq(Transfers)
    BY <1>2, StoredTables, RemoveFirstSeq
  <2>2. paths' = [paths EXCEPT ![x[t].key] = RemoveFirst(paths[x[t].key], wk[w].f)]
    BY DEF send_done
  <2> QED
    BY <1>2, <2>1, <2>2, StoredTables
<1>6. /\ wk' \in [0 .. Workers - 1 -> Tasks] /\ wk'[w].at = "wait"
      /\ \A v \in (0 .. Workers - 1) \ {w} : wk'[v] = wk[v]
  BY FreeTask, EngageEffect DEF send_done, Return
<1>7. WorkerMoves(w, t)
  BY <1>2, <1>4, <1>6 DEF WorkerMoves
<1>8. TablesOK'
  BY <1>4, <1>5, <1>6, StoredTables, WorkerTables
<1>9. TaskOK(w)'
  BY <1>6 DEF TaskOK
<1>10. LineOK(t)'
  <2>1. LineOK(t)
    BY <1>2, ThreadTypes
  <2>2. Opened(t) => Opened(t)'
    BY <1>1, <1>4, <1>6 DEF Opened
  <2> QED
    BY <1>4, <2>1, <2>2, LineStays
<1> QED
  BY <1>2, <1>4, <1>7, <1>8, <1>9, <1>10, WorkerKeeps

\* What the file holds is sent, and the connection closed (Dataconnect.cc:86-109).
LEMMA SendLoopStep ==
  ASSUME FilesInv, NEW w \in 0 .. Workers - 1, send_loop(w), NEW t, NEW d, ServedBy(w, t, d)
  PROVE  FilesInv' /\ WorkerMoves(w, t)
<1>0. t = wk[w].t /\ d = port[t].data
  BY DEF ServedBy
<1>1. wk[w].at = "send"
  BY DEF send_loop, Busy
<1>2. /\ t \in Transfers /\ x[t].at \notin {"none", "start"} /\ x[t].on = w
      /\ x[t] \in Threads /\ ctl[t] = << >> /\ ~Waits(t) /\ d \in Transfers
      /\ wk[w] \in Tasks /\ wk[w].f \in Transfers /\ x[t].kind = "down"
  BY <1>0, <1>1, Serving
<1>3. UNCHANGED <<paths, names, file, opened, x, arr, ass, clientVars, cache, chat, alive, ctl,
                  next, muddled>>
  BY DEF send_loop, redisVars, diskVars, clientVars, chatVars
<1>4. LineOK(t) /\ link[d] \in Links /\ link[d].q \in Seq(Bytes)
  BY <1>2, ThreadTypes DEF Links
<1>5. TaskOK(w)
  BY DEF FilesInv, LinesInv, TasksOK
<1>6. CASE /\ wk[w].pos < Len(file[wk[w].f])
           /\ wk' = [wk EXCEPT ![w].pos = @ + 1]
           /\ IF link[d].eof
              THEN UNCHANGED link /\ crashed' \in {None, t}
              ELSE /\ link' = [link EXCEPT ![d].q = Append(@, file[wk[w].f][wk[w].pos + 1])]
                   /\ UNCHANGED crashed
           /\ UNCHANGED <<rep, port>>
  <2>1. /\ link' \in [Transfers -> Links] /\ crashed' \in Transfers \cup {None}
        /\ \A s \in Transfers \ {d} : link'[s] = link[s]
        /\ link'[d].to = link[d].to
    <3>1. CASE link[d].eof
      BY <1>2, <1>6, <3>1, StoredTables
    <3>2. CASE ~link[d].eof
      <4> DEFINE c == file[wk[w].f][wk[w].pos + 1]
      <4>1. c \in Bytes
        <5>1. file[wk[w].f] \in Seq(Bytes) /\ wk[w].pos \in Nat
          BY <1>2, StoredTables DEF Tasks
        <5>2. Len(file[wk[w].f]) \in Nat
          BY <5>1, LenProperties
        <5>3. wk[w].pos < Len(file[wk[w].f])
          BY <1>6
        <5>4. wk[w].pos + 1 \in 1 .. Len(file[wk[w].f])
          BY <5>1, <5>2, <5>3
        <5> QED
          BY <5>1, <5>4, ElementOfSeq
      <4>2. link' = [link EXCEPT ![d].q = Append(link[d].q, c)] /\ UNCHANGED crashed
        BY <1>6, <3>2
      <4> HIDE DEF c
      <4>3. Append(link[d].q, c) \in Seq(Bytes)
        BY <1>4, <4>1, AppendProperties
      <4> QED
        BY <1>2, <4>2, <4>3, LinkTakes, StoredTables
    <3> QED
      BY <3>1, <3>2
  <2> DEFINE r == [wk[w] EXCEPT !.pos = wk[w].pos + 1]
  <2>2. /\ r \in Tasks /\ r.at = "send" /\ r.t = wk[w].t /\ r.f = wk[w].f
        /\ wk' = [wk EXCEPT ![w] = r]
    <3>1. /\ r \in Tasks /\ r.at = wk[w].at /\ r.t = wk[w].t /\ r.f = wk[w].f
      BY <1>2 DEF Tasks
    <3>2. wk' = [wk EXCEPT ![w] = r]
      BY <1>6
    <3> QED
      BY <1>1, <3>1, <3>2
  <2> HIDE DEF r
  <2>3. /\ wk' \in [0 .. Workers - 1 -> Tasks] /\ wk'[w] = r
        /\ \A v \in (0 .. Workers - 1) \ {w} : wk'[v] = wk[v]
    BY <2>2, EngageEffect
  <2>4. WorkerMoves(w, t)
    BY <1>0, <1>2, <1>3, <1>6, <2>1, <2>2, <2>3 DEF WorkerMoves
  <2>5. TablesOK'
    BY <1>3, <1>6, <2>1, <2>3, StoredTables, WorkerTables
  <2>6. TaskOK(w)'
    BY <1>1, <1>2, <1>3, <1>5, <1>6, <2>2, <2>3 DEF TaskOK, Waits
  <2>7. LineOK(t)'
    <3>1. Opened(t)'
      BY <1>0, <1>2, <1>6, Bounds DEF Opened
    <3> QED
      BY <1>2, <1>3, <1>4, <1>6, <3>1, LineStays
  <2> QED
    BY <1>2, <1>3, <2>4, <2>5, <2>6, <2>7, WorkerKeeps
<1>7. CASE /\ wk[w].pos = Len(file[wk[w].f])
           /\ Closed(t)
           /\ Reply(t, "226") /\ MayDie(t)
           /\ wk' = [wk EXCEPT ![w].at = "lrem"]
  <2>1. /\ rep' \in [Transfers -> Seq(Replies)] /\ rep'[t] \in Seq(RepliesTo(t))
        /\ \A s \in Transfers \ {t} : rep'[s] = rep[s]
    BY <1>2, <1>7, AnswerEffect DEF Reply
  <2>2. /\ port' \in [Transfers -> Ports] /\ port'[t] = closed
        /\ \A s \in Transfers \ {t} : port'[s] = port[s]
        /\ link' \in [Transfers -> Links]
        /\ \A s \in Transfers :
             /\ link'[s].to = link[s].to
             /\ link'[s] = link[s] \/ s = port[t].data \/ s \in ToSet(port[t].pend)
    BY <1>2, <1>7, ClosedEffect
  <2> DEFINE r == [wk[w] EXCEPT !.at = "lrem"]
  <2>3. /\ r \in Tasks /\ r.at = "lrem" /\ r.t = wk[w].t /\ r.f = wk[w].f
        /\ wk' = [wk EXCEPT ![w] = r]
    <3>1. /\ r \in Tasks /\ r.at = "lrem" /\ r.t = wk[w].t /\ r.f = wk[w].f
      BY <1>2 DEF Tasks
    <3>2. wk' = [wk EXCEPT ![w] = r]
      BY <1>7
    <3> QED
      BY <3>1, <3>2
  <2> HIDE DEF r
  <2>4. /\ wk' \in [0 .. Workers - 1 -> Tasks] /\ wk'[w] = r
        /\ \A v \in (0 .. Workers - 1) \ {w} : wk'[v] = wk[v]
    BY <2>3, EngageEffect
  <2>5. crashed' \in Transfers \cup {None}
    BY <1>2, <1>7 DEF MayDie
  <2>6. WorkerMoves(w, t)
    BY <1>0, <1>2, <1>3, <2>1, <2>2, <2>3, <2>4, ToSetEmpty DEF WorkerMoves, closed
  <2>7. TablesOK'
    BY <1>3, <2>1, <2>2, <2>4, <2>5, StoredTables, WorkerTables
  <2>8. TaskOK(w)'
    BY <1>1, <1>2, <1>3, <1>5, <2>3, <2>4 DEF TaskOK, Waits
  <2>9. LineOK(t)'
    <3>1. /\ x'[t] = x[t] /\ ctl'[t] = << >> /\ rep'[t] \in Seq(RepliesTo(t)')
          /\ x[t].at \notin {"none", "start", "227", "parse", "connect"}
      BY <1>2, <1>3, <2>1, RepliesSame DEF Waits
    <3>2. x[t].kind # "up" /\ x[t].at # "send"
      BY <1>2, <1>4 DEF LineOK
    <3>3. << "PASV" >> # << >> /\ << "STOR" >> # << >> /\ << "RETR" >> # << >>
      OBVIOUS
    <3> QED
      BY <1>2, <3>1, <3>2, <3>3 DEF LineOK
  <2> QED
    BY <1>2, <1>3, <2>6, <2>7, <2>8, <2>9, WorkerKeeps
<1> QED
  BY <1>0, <1>6, <1>7 DEF send_loop

-----------------------------------------------------------------------------
(* The whole.                                                              *)

\* What a user does.
LEMMA UserStep ==
  ASSUME FilesInv, faults \in Nat, NEW u \in Users, NEW k \in Keys,
         send_file(u, k) \/ look_file(u, k) \/ recive_file(u, k)
  PROVE  FilesInv'
BY SendFileStep, LookFileStep, ReciveFileStep

\* What a transfer thread does.
LEMMA ThreadStep ==
  ASSUME FilesInv, NEW t \in Transfers, Thread(t)
  PROVE  FilesInv' /\ ThreadMoves(t)
BY InitStep, ReciveStep, PassiveStep, ConnectStep, Check150Step, StorReadStep, StorSendStep,
   StorCloseStep, RetrStep, Check226Step DEF Thread

\* What a worker does within a command.
LEMMA WorkerStep ==
  ASSUME FilesInv, NEW w \in 0 .. Workers - 1, Worker(w)
  PROVE  FilesInv'
<1>1. PICK t : t = wk[w].t
  OBVIOUS
<1>2. PICK d : ServedBy(w, t, d)
  BY <1>1 DEF ServedBy
<1>3. CASE accept_data(w)
  BY <1>1, <1>3, AcceptStep
<1>4. CASE recive_loop(w)
  BY <1>1, <1>2, <1>4, ReciveLoopStep
<1>5. CASE send_loop(w)
  BY <1>1, <1>2, <1>5, SendLoopStep
<1>6. CASE send_done(w)
  BY <1>1, <1>6, SendDoneStep
<1> QED
  BY <1>3, <1>4, <1>5, <1>6 DEF Worker

\* What a worker does with a new command.
LEMMA CommandStep ==
  ASSUME FilesInv, NEW w \in 0 .. Workers - 1, NEW t \in Transfers, Command_(w, t)
  PROVE  FilesInv'
BY PasvStep, StorStep, RetrCommandStep DEF Command_

\* Every step of the system keeps the invariant.
LEMMA NextStep ==
  ASSUME FilesInv, faults \in Nat, [Next]_vars
  PROVE  FilesInv'
<1>1. CASE User
  BY <1>1, UserStep DEF User
<1>2. ASSUME NEW u \in Users, Connection_file(u) \/ exit(u) PROVE FilesInv'
  BY <1>2, ConnectionFileStep, ExitStep
<1>3. ASSUME NEW t \in Transfers, Thread(t) \/ Stor_fails(t) \/ Retr_fails(t) PROVE FilesInv'
  BY <1>3, ThreadStep, StorFailsStep, RetrFailsStep
<1>4. ASSUME NEW w \in DOMAIN wk, Worker(w) \/ \E t \in Transfers : Command_(w, t)
      PROVE  FilesInv'
  <2>1. w \in 0 .. Workers - 1
    BY StoredTables
  <2> QED
    BY <1>4, <2>1, WorkerStep, CommandStep
<1>5. CASE UNCHANGED vars
  <2>1. ListsOK'
    BY <1>5 DEF vars, redisVars, chatVars, FilesInv, TablesOK, ListsOK
  <2> QED
    BY <1>5, <2>1, ListsStep DEF vars
<1> QED
  BY <1>1, <1>2, <1>3, <1>4, <1>5 DEF Next

\* Faults are counted.
LEMMA FaultsStep ==
  ASSUME faults \in Nat, [Next]_vars
  PROVE  faults' \in Nat
<1>1. Fault => faults' \in Nat
  BY DEF Fault
<1>2. ASSUME NEW u \in Users, NEW k \in Keys,
             send_file(u, k) \/ look_file(u, k) \/ recive_file(u, k)
      PROVE  faults' = faults
  <2>1. send_file(u, k) => faults' = faults
    BY Zenon DEF send_file
  <2>2. look_file(u, k) => faults' = faults
    BY Zenon DEF look_file
  <2>3. recive_file(u, k) => faults' = faults
    BY Zenon DEF recive_file
  <2> QED
    BY <1>2, <2>1, <2>2, <2>3
<1>3. ASSUME NEW u \in Users, Connection_file(u) \/ exit(u) PROVE faults' \in Nat
  <2>1. Connection_file(u) => faults' = faults
    BY Zenon DEF Connection_file
  <2>2. exit(u) => Fault
    BY Zenon DEF exit
  <2> QED
    BY <1>1, <1>3, <2>1, <2>2
<1>4. ASSUME NEW t \in Transfers, Thread(t) \/ Stor_fails(t) \/ Retr_fails(t)
      PROVE  faults' \in Nat
  <2>1. init(t) \/ Stor_close(t) \/ check_150(t) \/ Retr(t) => faults' = faults
    BY Zenon DEF init, Stor_close, redisServer, check_150, Retr
  <2>2. Recive(t) \/ openPassiveMode(t) \/ Connect(t) => faults' = faults
    BY Zenon DEF Recive, openPassiveMode, Connect, redisServer
  <2>3. Stor_read(t) \/ Stor_send(t) \/ check_226(t) => faults' = faults
    BY Zenon DEF Stor_read, Stor_send, check_226, redisServer
  <2>4. Stor_fails(t) \/ Retr_fails(t) => Fault
    BY Zenon DEF Stor_fails, Retr_fails
  <2> QED
    BY <1>1, <1>4, <2>1, <2>2, <2>3, <2>4 DEF Thread
<1>5. ASSUME NEW w \in DOMAIN wk, Worker(w) \/ \E t \in Transfers : Command_(w, t)
      PROVE  faults' \in Nat
  <2>1. Worker(w) => faults' = faults
    BY Zenon DEF Worker, accept_data, recive_loop, send_loop, send_done
  <2>2. ASSUME NEW t \in Transfers, Command_(w, t) PROVE faults' = faults \/ Fault
    BY <2>2, Zenon DEF Command_, PASV, STOR, RETR
  <2> QED
    BY <1>1, <1>5, <2>1, <2>2
<1>6. UNCHANGED vars => faults' = faults
  BY DEF vars
<1> QED
  BY <1>1, <1>2, <1>3, <1>4, <1>5, <1>6 DEF Next, User

\* On every control connection client and server take turns, every worker is at
\* one stage of one client's command, no connection leads to the port of a
\* transfer but that of its own thread, and an upload is at the stage it should
\* be at, while nothing disturbs them (FTP_client.cc:28-98, 190-356,
\* FTPconnect.cc:37-72, Dataconnect.cc:41-164).
THEOREM InvCorrect == Spec => [](FilesInv /\ faults \in Nat)
<1>1. Init => FilesInv /\ faults \in Nat
  <2>1. Init => faults = 0
    BY Zenon DEF Init
  <2> QED
    BY <2>1, FilesInit
<1>2. FilesInv /\ faults \in Nat /\ [Next]_vars => (FilesInv /\ faults \in Nat)'
  BY NextStep, FaultsStep
<1> QED
  BY <1>1, <1>2, PTL DEF Spec

\* Every table holds what it should.
THEOREM TypeCorrect == Spec => []TypeOK
<1>1. FilesInv => TypeOK
  BY TablesType DEF FilesInv
<1> QED
  BY <1>1, InvCorrect, PTL

\* What a user has been told was uploaded is on the server in full, if no two
\* transfers of the key or of the program overlapped (FTP_client.cc:6-7, 80-98).
THEOREM UploadedCorrect == Spec => []UploadedIsWhole
<1>1. FilesInv => UploadedIsWhole
  <2> SUFFICES ASSUME FilesInv, NEW t \in Ups, Reported(t), Orderly(x[t].key)
               PROVE  file[t] = Whole(t)
    BY DEF UploadedIsWhole
  <2>1. t \in Transfers /\ x[t].at = "reported" /\ x[t].kind = "up"
    BY DEF Ups, Started, Reported
  <2>2. Undisturbed(t)
    BY <2>1 DEF FilesInv, UploadsOK
  <2> QED
    BY <2>1, <2>2 DEF Undisturbed
<1> QED
  BY <1>1, InvCorrect, PTL
=============================================================================
