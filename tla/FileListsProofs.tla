-------------------------- MODULE FileListsProofs --------------------------
(***************************************************************************)
(* The two lists of files agree, downloads bring what was asked for, and   *)
(* no path is missing when one is fetched, unless transfers of a pair of   *)
(* sender and addressee overlap.  The argument: what is filed, shown and   *)
(* fetched for such a pair are sets of uploads, in the order of their      *)
(* numbers; each list is what one program knows of the same history.       *)
(***************************************************************************)
EXTENDS FilesProofs

UploadsOf(k) == {t \in Ups : x[t].key = k}
DownsOf(k) == {t \in Downs : x[t].key = k}
Taken(k) == {x[t].name : t \in DownsOf(k)}

\* The requests under way to the chat server: of names it has not been told of,
\* and of names that were fetched and are still filed.
Requests(q, what, k) == {a.name : a \in {b \in ToSet(q) : b.do = what /\ b.key = k}}
Untold(k) == Requests(chat[k[1]], "SENDFILE", k)
Fetching(k) == Requests(chat[k[2]], "RECVFILE", k)

InTurn(q, what, k) ==
    \A i, j \in DOMAIN q :
        /\ i < j
        /\ q[i].do = what /\ q[i].key = k
        /\ q[j].do = what /\ q[j].key = k
        => q[i].name < q[j].name

Rising(q) == \A i, j \in DOMAIN q : i < j => q[i] < q[j]

\* The server has read the command of t and lives, and is done with it.
Stored(t) == ~Unconnected(t) /\ ctl[t] = << >> /\ crashed # t
Served(t) == Stored(t) /\ Idle(t)

\* A worker is at the RETR of t.
Fetches(w, t) == wk[w].at \in {"send", "lrem"} /\ wk[w].t = t

\* Requests and lists name uploads of their key, which are told of in the order
\* in which they were started.
AskedOK ==
    /\ \A u \in Users : \A a \in ToSet(chat[u]) :
          /\ a.name \in UploadsOf(a.key)
          /\ a.do = "SENDFILE" => u = a.key[1]
          /\ a.do = "RECVFILE" => u \in Audience[a.key[2]]
    /\ \A k \in Keys : InTurn(chat[k[1]], "SENDFILE", k)

NamedOK ==
    /\ \A u \in Users, k \in Keys :
          ToSet(names[u][k]) \subseteq UploadsOf(k) /\ ToSet(cache[u][k]) \subseteq UploadsOf(k)
    /\ \A t \in Downs :
          /\ x[t].name \in UploadsOf(x[t].key) /\ x[t].name < t
          /\ x[t].by \in Audience[x[t].key[2]]

\* Of an orderly key the latest transfer alone may be active.
AloneOK ==
    \A s, t \in Started :
        s # t /\ x[s].key = x[t].key /\ Orderly(x[t].key) /\ Active(t) => s < t

\* The worker of a download sends its file, or has sent it all.
Sending(t) ==
    LET w == x[t].on IN
    /\ wk[w].at = "send" /\ wk[w].t = t /\ port[t].data = t
    /\ ~link[t].eof /\ wk[w].pos <= Chunks /\ FileOf(t) = Chunk(wk[w].f, wk[w].pos)
    /\ x[t].at \in {"150", "chk150", "data"}
    /\ rep[t] = IF x[t].at = "150" THEN << << "150down", None >> >> ELSE << >>

Removing(t) ==
    LET w == x[t].on IN wk[w].at = "lrem" /\ wk[w].t = t /\ FileOf(t) = Whole(wk[w].f)

Closing(t) ==
    /\ link[t].eof /\ x[t].at \in {"150", "chk150", "data", "226", "chk226", "reported"}
    /\ x[t].at = "150" => rep[t] = << << "150down", None >>, << "226", None >> >>
    /\ x[t].at \in {"chk150", "data", "226"} =>
          rep[t] \in {<< >>, << << "226", None >> >>}
    /\ x[t].at \in {"226", "chk226", "reported"} => link[t].q = << >>

\* A download that nothing disturbs, step by step.
Smooth(t) ==
    LET at == x[t].at by == x[t].by IN
    /\ at \notin {"ended", "dead"}
    /\ link[t].to \in {None, t}
    /\ at = "227" => Fresh(t)
    /\ Waits(t) /\ ctl[t] = << >> =>
          Fresh(t) /\ Accepting(t) /\ port[t] = [closed EXCEPT !.open = TRUE]
    /\ at = "parse" => arr[by] = << "227", t >>
    /\ at = "connect" => link[t].to = t /\ ass[by] = Address
    /\ at = "150" => link[t].to = t
    /\ at = "150" /\ ctl[t] # << >> =>
          /\ Fresh(t)
          /\ \/ Accepting(t) /\ port[t] = [closed EXCEPT !.open = TRUE, !.pend = << t >>]
             \/ Idle(t) /\ port[t].data = t
    /\ Stored(t) => link[t].to = t /\ (Sending(t) \/ (Closing(t) /\ (Removing(t) \/ Idle(t))))
    /\ at = "chk150" => arr[by] = << "150down", None >>
    /\ at = "chk226" => arr[by] = << "226", None >>

DownloadsOK ==
    \A t \in Transfers :
        x[t].at # "none" /\ x[t].kind = "down" /\ Orderly(x[t].key) => Smooth(t)

\* The paths of an orderly key are those of what was stored and not yet sent;
\* the first is being sent, if any.  Nobody fetches a name twice.
PathsOK(k) ==
    /\ Rising(paths[k]) /\ ToSet(paths[k]) \subseteq {t \in UploadsOf(k) : Stored(t)}
    /\ \A t \in UploadsOf(k) : Stored(t) => t \in opened
    /\ \A t \in UploadsOf(k) :
          Stored(t) /\ t \notin ToSet(paths[k]) =>
              \E d \in DownsOf(k) : Served(d) /\ FileOf(d) = Whole(t)
    /\ \A w \in 0 .. Workers - 1, d \in DownsOf(k) :
          Fetches(w, d) => paths[k] # << >> /\ wk[w].f = Head(paths[k])
    /\ \A c, d \in DownsOf(k) : c # d /\ x[c].by = x[d].by => x[c].name # x[d].name

\* The names of an orderly key, for a friend: those he has been told of and has
\* not fetched.  He fetches them in the order in which they were sent.
NamesOK(k) ==
    LET r == k[2] IN
    /\ Rising(names[r][k])
    /\ ToSet(names[r][k]) = (UploadsOf(k) \ Untold(k)) \ (Taken(k) \ Fetching(k))
    /\ \A m \in Untold(k), n \in UploadsOf(k) : m < n => n \in Untold(k)
    /\ Taken(k) \cap Untold(k) = {} /\ Fetching(k) \subseteq Taken(k)
    /\ \A n \in Taken(k), m \in UploadsOf(k) : m < n => m \in Taken(k)
    /\ InTurn(chat[r], "RECVFILE", k)

\* What he is shown: the first of each name comes after those of all smaller ones.
ShownOK(k) ==
    LET shown == cache[k[2]][k] IN
    /\ ToSet(shown) \cap Untold(k) = {}
    /\ \A i \in DOMAIN shown, m \in UploadsOf(k) :
          m < shown[i] => m \in Taken(k) \/ \E j \in DOMAIN shown : j < i /\ shown[j] = m

\* What a friend's download is sent is what he asked for.
FetchedOK(k) ==
    /\ \A t \in UploadsOf(k) :
          Stored(t) => (t \notin ToSet(paths[k]) <=> \E d \in DownsOf(k) : Served(d) /\ x[d].name = t)
    /\ \A w \in 0 .. Workers - 1, d \in DownsOf(k) : Fetches(w, d) => wk[w].f = x[d].name
    /\ \A d \in DownsOf(k) : Served(d) => FileOf(d) = Whole(x[d].name)

KeysOK ==
    \A k \in Keys :
        Orderly(k) => PathsOK(k) /\ (ToFriend(k) => NamesOK(k) /\ ShownOK(k) /\ FetchedOK(k))

\* A transfer that ends the server, undisturbed, has its command read.
CrashOK ==
    /\ crashed # None =>
          /\ crashed \in Started
          /\ Orderly(x[crashed].key) => crashed \in Downs /\ x[crashed].at = "150"
    /\ CrashNeedsDisorder

-----------------------------------------------------------------------------
(* A download that nothing disturbs.                                       *)

\* Nothing a download depends on has changed.
LEMMA SmoothStays ==
  ASSUME NEW t, Same(t), port'[t] = port[t], SameWork(t),
         Live(t) => SameBuffers(x[t].by), crashed = t => crashed' = t, Smooth(t)
  PROVE  Smooth(t)'
<1> USE DEF Same
<1>1. /\ Fresh(t)' <=> Fresh(t)
      /\ Waits(t)' <=> Waits(t)
      /\ Unconnected(t)' <=> Unconnected(t)
      /\ FileOf(t)' = FileOf(t)
  BY DEF Fresh, Waits, Unconnected, FileOf
<1>2. /\ Accepting(t)' <=> Accepting(t)
      /\ Idle(t)' <=> Idle(t)
  BY DEF SameWork, Accepting, Idle, Serves
<1>3. Sending(t)' <=> Sending(t)
  BY <1>1 DEF SameWork, Sending, Serves, Chunk
<1>4. Removing(t)' <=> Removing(t)
  BY <1>1 DEF SameWork, Removing, Serves, Whole
<1>5. Closing(t)' <=> Closing(t)
  BY DEF Closing
<1>6. Stored(t)' => Stored(t)
  BY <1>1 DEF Stored
<1>7. x[t].at \in {"parse", "connect", "chk150", "chk226"} => SameBuffers(x[t].by)
  BY DEF Live, Over
<1> QED
  BY <1>1, <1>2, <1>3, <1>4, <1>5, <1>6, <1>7 DEF Smooth, SameBuffers, closed

\* A download is no other one's business ...
LEMMA OtherDownloads ==
  ASSUME FilesInv, DownloadsOK, NEW s \in Transfers, ThreadMoves(s), crashed' = crashed,
         NEW t \in Transfers \ {s},
         x'[t].at # "none", x'[t].kind = "down", Orderly(x[t].key)'
  PROVE  Smooth(t)'
<1>1. Same(t) /\ x'[t] = x[t]
  BY DEF ThreadMoves, Same
<1>2. x[t].at # "none" /\ x[t].kind = "down" /\ Orderly(x[t].key)
  BY <1>1 DEF ThreadMoves, Orderly
<1>3. Smooth(t)
  BY <1>2 DEF DownloadsOK
<1>4. SameWork(t)
  BY DEF ThreadMoves, SameWork
<1>5. port'[t] = port[t]
  BY <1>2 DEF FilesInv, DataInv, LedOK, Quiet, ThreadMoves
<1>6. ASSUME Live(t) PROVE SameBuffers(x[t].by)
  <2>1. x[t].by \in Users
    BY <1>2 DEF FilesInv, TablesOK, SocketsOK, Threads, NoThread
  <2>2. x[t].by # x[s].by
    BY <1>2, <1>6 DEF FilesInv, DataInv, ApartOK, ThreadMoves, Orderly
  <2> QED
    BY <2>1, <2>2 DEF ThreadMoves
<1> QED
  BY <1>1, <1>3, <1>4, <1>5, <1>6, SmoothStays

\* ... so that of a thread's step only its own transfer remains to be seen.
LEMMA ThreadDownloads ==
  ASSUME FilesInv, DownloadsOK, NEW s \in Transfers, ThreadMoves(s), crashed' = crashed,
         x[s].kind = "down" /\ Orderly(x[s].key)' /\ Smooth(s) => Smooth(s)'
  PROVE  DownloadsOK'
<1> SUFFICES ASSUME NEW t \in Transfers, x'[t].at # "none", x'[t].kind = "down",
                    Orderly(x[t].key)'
             PROVE  Smooth(t)'
  BY DEF DownloadsOK
<1>1. CASE t = s
  <2>1. x'[s].kind = x[s].kind /\ x'[s].key = x[s].key /\ x[s].at # "none"
    BY DEF ThreadMoves, Live, Over
  <2>2. Orderly(x[s].key)
    BY <1>1, <2>1 DEF ThreadMoves, Orderly
  <2> QED
    BY <1>1, <2>1, <2>2 DEF DownloadsOK, Orderly
<1>2. CASE t # s
  <2>1. x'[t] = x[t]
    BY <1>2 DEF ThreadMoves, Same
  <2> QED
    BY <1>2, <2>1, OtherDownloads DEF Orderly
<1> QED
  BY <1>1, <1>2

\* A worker's step disturbs no download but its client's.
LEMMA WorkerDownloads ==
  ASSUME FilesInv, DownloadsOK, NEW w \in 0 .. Workers - 1, NEW t \in Transfers,
         WorkerMoves(w, t), crashed = None,
         x[t].kind = "down" /\ Orderly(x[t].key)' /\ Smooth(t) => Smooth(t)'
  PROVE  DownloadsOK'
<1> SUFFICES ASSUME NEW s \in Transfers, x'[s].at # "none", x'[s].kind = "down",
                    Orderly(x[s].key)'
             PROVE  Smooth(s)'
  BY DEF DownloadsOK
<1>1. /\ x'[s] = x[s] /\ SameBuffers(x[s].by) /\ crashed # s
  BY Bounds DEF WorkerMoves, SameBuffers
<1>2. Smooth(s)
  BY <1>1 DEF DownloadsOK, WorkerMoves, Orderly
<1>3. CASE s = t
  BY <1>1, <1>2, <1>3 DEF Orderly
<1>4. CASE s # t
  <2>1. ctl'[s] = ctl[s] /\ rep'[s] = rep[s] /\ file'[s] = file[s] /\ port'[s] = port[s]
    BY <1>4 DEF WorkerMoves
  <2>2. link'[s] = link[s]
    <3>1. ~(s = port[t].data \/ s \in ToSet(port[t].pend))
      BY <1>2, <1>4, Bounds DEF FilesInv, DataInv, ConnectedOK, Smooth
    <3> QED
      BY <3>1 DEF WorkerMoves
  <2>3. SameWork(s)
    <3>1. x[s].on \in 0 .. Workers - 1
      BY <1>1 DEF FilesInv, TablesOK, SocketsOK, Threads, NoThread
    <3>2. CASE x[s].on = w
      BY <1>1, <1>4, <3>2 DEF WorkerMoves, SameWork, Serves
    <3>3. CASE x[s].on # w
      BY <3>1, <3>3 DEF WorkerMoves, SameWork
    <3> QED
      BY <3>2, <3>3
  <2> QED
    BY <1>1, <1>2, <2>1, <2>2, <2>3, SmoothStays DEF Same
<1> QED
  BY <1>3, <1>4

\* A thread is at work, and the server up.
LEMMA AtLive ==
  ASSUME FilesInv, NEW s \in Transfers, NEW a \in Steps \ Over, At(s, a)
  PROVE  /\ x[s].at = a /\ Live(s) /\ x[s] \in Threads /\ x[s].by \in Users
         /\ crashed = None /\ crashed # s
<1>1. x[s].at = a /\ crashed = None
  BY DEF At, Up
<1>2. Live(s)
  BY <1>1 DEF Live
<1>3. x[s] \in Threads
  BY <1>2, ThreadTypes
<1> QED
  BY <1>1, <1>2, <1>3, Bounds DEF Threads

\* init connects (FTP_client.cc:28-70).
LEMMA InitSmooth ==
  ASSUME FilesInv, NEW s \in Transfers, init(s), Smooth(s)
  PROVE  Smooth(s)'
<1>1. x[s].at = "start" /\ x[s] \in Threads
  BY AtLive DEF init, Steps, Over
<1>2. ctl[s] = << >> /\ Fresh(s) /\ link[s].to = None
  BY <1>1, ThreadTypes DEF LineOK
<1>3. x'[s].at = "227"
  <2>1. x' = [x EXCEPT ![s] = [x[s] EXCEPT !.at = "227", !.on = turn]]
    BY DEF init
  <2>2. [x[s] EXCEPT !.at = "227", !.on = turn].at = "227"
    BY <1>1 DEF Threads
  <2>3. x \in [Transfers -> Threads \cup {NoThread}]
    BY DEF FilesInv, TablesOK, SocketsOK
  <2> QED
    BY <2>1, <2>2, <2>3
<1>4. ctl'[s] = << "PASV" >>
  BY <1>2, StoredTables DEF init, Command
<1>5. Fresh(s)' /\ link'[s].to = None
  BY <1>2 DEF init, Fresh, diskVars
<1>6. Unconnected(s)' /\ ~Stored(s)'
  BY <1>3 DEF Unconnected, Waits, Stored
<1>7. << "PASV" >> # << >>
  OBVIOUS
<1> QED
  BY <1>3, <1>4, <1>5, <1>6, <1>7 DEF Smooth, Waits

\* The second of two.
LEMMA SecondOfTwo ==
  ASSUME NEW r, NEW v
  PROVE  SubSeq(<< r, v >>, 2, 2) = << v >>
<1> DEFINE q == << r, v >>
<1>1. q[2] = v
  OBVIOUS
<1> HIDE DEF q
<1>2. \A i \in 2 .. 2 : q[i] \in {v}
  BY <1>1
<1>3. /\ SubSeq(q, 2, 2) \in Seq({v}) /\ Len(SubSeq(q, 2, 2)) = 1
      /\ \A i \in 1 .. 1 : SubSeq(q, 2, 2)[i] = q[i + 1]
  BY <1>2, SubSeqProperties
<1>4. SubSeq(q, 2, 2) = << v >>
  <2> DEFINE z == SubSeq(q, 2, 2)
  <2>1. z \in Seq({v}) /\ Len(z) = 1 /\ z[1] = v
    BY <1>1, <1>3
  <2> HIDE DEF z
  <2>2. << v >> \in Seq({v}) /\ Len(<< v >>) = 1 /\ << v >>[1] = v
    OBVIOUS
  <2>3. z = << v >>
    BY <2>1, <2>2, SeqEqual
  <2> QED
    BY <2>3 DEF z
<1> QED
  BY <1>4 DEF q

\* A reply is taken (FTP_client.cc:333-344).
LEMMA ReciveSmooth ==
  ASSUME FilesInv, NEW s \in Transfers, Recive(s), x[s].kind = "down", Smooth(s)
  PROVE  Smooth(s)'
<1>1. /\ Live(s) /\ x[s] \in Threads /\ x[s].at \in {"227", "150", "226"} /\ x[s].by \in Users
      /\ rep[s] # << >> /\ crashed = None /\ crashed # s
  BY ThreadTypes, Bounds DEF Recive, Live, Over, Threads, Up
<1>2. PICK a \in {"parse", "chk150", "chk226"} :
        /\ To(s, a)
        /\ x[s].at = "227" <=> a = "parse"
        /\ x[s].at = "150" <=> a = "chk150"
  BY <1>1 DEF Recive
<1>3. PICK n \in DOMAIN rep[s] : rep' = [rep EXCEPT ![s] = SubSeq(@, n + 1, Len(@))]
  BY DEF Recive
<1>4. UNCHANGED <<file, ass, ctl, link, port, wk, crashed>>
  BY DEF Recive, redisServer, diskVars, serverVars
<1>5. rep'[s] = SubSeq(rep[s], n + 1, Len(rep[s])) /\ arr'[x[s].by] = Head(rep[s])
  BY <1>1, <1>3, StoredTables DEF Recive, FilesInv, TablesOK, SocketsOK
<1>6. /\ \A r : rep[s] = << r >> => Head(rep[s]) = r /\ rep'[s] = << >>
      /\ \A r, v : rep[s] = << r, v >> => Head(rep[s]) = r /\ rep'[s] \in {<< >>, << v >>}
  <2>1. \A r : rep[s] = << r >> => Head(rep[s]) = r /\ rep'[s] = << >>
    BY <1>5
  <2>2. ASSUME NEW r, NEW v, rep[s] = << r, v >>
        PROVE  Head(rep[s]) = r /\ rep'[s] \in {<< >>, << v >>}
    <3>1. Len(rep[s]) = 2 /\ DOMAIN rep[s] = 1 .. 2 /\ Head(rep[s]) = r
      BY <2>2
    <3>2. n \in 1 .. 2
      BY <3>1
    <3>3. rep'[s] = SubSeq(<< r, v >>, n + 1, 2)
      BY <1>5, <2>2, <3>1
    <3>4. CASE n = 1
      <4>1. rep'[s] = SubSeq(<< r, v >>, 2, 2)
        BY <3>3, <3>4
      <4> QED
        BY <3>1, <4>1, SecondOfTwo
    <3>5. CASE n = 2
      BY <3>1, <3>3, <3>5
    <3> QED
      BY <3>2, <3>4, <3>5
  <2> QED
    BY <2>1, <2>2
<1>7. /\ x'[s].at = a /\ x'[s].by = x[s].by /\ x'[s].on = x[s].on
  BY <1>1, <1>2, Goes DEF Steps
<1>8. ctl[s] = << >>
  BY <1>1, ThreadTypes DEF LineOK
<1>9. /\ Fresh(s)' <=> Fresh(s)
      /\ Accepting(s)' <=> Accepting(s)
      /\ Idle(s)' <=> Idle(s)
      /\ FileOf(s)' = FileOf(s)
      /\ Removing(s)' <=> Removing(s)
  BY <1>4, <1>7 DEF Fresh, Accepting, Idle, Serves, FileOf, Removing, Whole
<1>10. CASE x[s].at = "227"
  <2>1. rep[s] = << << "227", s >> >>
    BY <1>1, <1>8, <1>10, ThreadTypes DEF LineOK
  <2>2. arr'[x[s].by] = << "227", s >>
    BY <1>5, <1>6, <2>1
  <2>3. Fresh(s) /\ Accepting(s) /\ port[s] = [closed EXCEPT !.open = TRUE]
        /\ link[s].to \in {None, s}
    BY <1>8, <1>10 DEF Smooth, Waits
  <2>4. x'[s].at = "parse" /\ ~Stored(s)'
    BY <1>2, <1>7, <1>10 DEF Stored, Unconnected, Waits
  <2> QED
    BY <1>4, <1>7, <1>9, <2>2, <2>3, <2>4 DEF Smooth, Waits, closed
<1>11. CASE x[s].at \in {"150", "226"}
  <2>1. Stored(s)
    BY <1>1, <1>8, <1>11 DEF Stored, Unconnected, Waits
  <2>2. link[s].to = s /\ (Sending(s) \/ (Closing(s) /\ (Removing(s) \/ Idle(s))))
    BY <2>1 DEF Smooth
  <2>3. CASE Sending(s)
    <3>1. x[s].at = "150" /\ rep[s] = << << "150down", None >> >>
      BY <1>11, <2>3 DEF Sending
    <3>2. arr'[x[s].by] = << "150down", None >> /\ rep'[s] = << >> /\ x'[s].at = "chk150"
      BY <1>2, <1>5, <1>6, <1>7, <3>1
    <3>3. Sending(s)'
      BY <1>4, <1>7, <1>9, <2>3, <3>2 DEF Sending, Chunk
    <3> QED
      BY <1>4, <1>7, <2>2, <3>2, <3>3 DEF Smooth, Waits
  <2>4. CASE Closing(s) /\ x[s].at = "150"
    <3>1. rep[s] = << << "150down", None >>, << "226", None >> >>
      BY <2>4 DEF Closing
    <3>2. /\ arr'[x[s].by] = << "150down", None >> /\ x'[s].at = "chk150"
          /\ rep'[s] \in {<< >>, << << "226", None >> >>}
      BY <1>2, <1>5, <1>6, <1>7, <2>4, <3>1
    <3>3. Closing(s)'
      BY <1>4, <2>4, <3>2 DEF Closing
    <3>4. Removing(s) \/ Idle(s)
      <4>1. ~Sending(s)
        BY <2>4, Zenon DEF Sending, Closing
      <4> QED
        BY <2>2, <4>1
    <3> QED
      BY <1>4, <1>7, <1>9, <2>2, <3>2, <3>3, <3>4 DEF Smooth, Waits
  <2>5. CASE Closing(s) /\ x[s].at = "226"
    <3>1. rep[s] = << << "226", None >> >> /\ link[s].q = << >>
      BY <1>1, <2>5 DEF Closing
    <3>2. arr'[x[s].by] = << "226", None >> /\ x'[s].at = "chk226"
      BY <1>2, <1>5, <1>6, <1>7, <2>5, <3>1
    <3>3. Closing(s)'
      BY <1>4, <2>5, <3>1, <3>2 DEF Closing
    <3>4. Removing(s) \/ Idle(s)
      BY <2>2, <2>5 DEF Sending
    <3> QED
      BY <1>4, <1>7, <1>9, <2>2, <3>2, <3>3, <3>4 DEF Smooth, Waits
  <2> QED
    BY <1>11, <2>2, <2>3, <2>4, <2>5
<1> QED
  BY <1>1, <1>10, <1>11

\* The port and the address are taken from the buffers (FTP_client.cc:244-318).
LEMMA PassiveSmooth ==
  ASSUME FilesInv, NEW s \in Transfers, openPassiveMode(s), Smooth(s)
  PROVE  Smooth(s)'
<1>1. x[s].at = "parse" /\ Live(s) /\ x[s].by \in Users /\ ctl[s] = << >> /\ link[s] \in Links
  <2>1. x[s].at = "parse" /\ Live(s) /\ x[s].by \in Users
    BY AtLive DEF openPassiveMode, Steps, Over
  <2> QED
    BY <2>1, ThreadTypes DEF LineOK
<1>2. UNCHANGED <<file, arr, ctl, rep, port, wk, crashed>>
  BY DEF openPassiveMode, redisServer, diskVars, serverVars
<1>3. arr[x[s].by] = << "227", s >>
  BY <1>1 DEF Smooth
<1>4. arr[x[s].by][2] = s
  BY <1>3
<1>5. ass'[x[s].by] = Address
  BY <1>1, <1>4, Bounds DEF openPassiveMode, FilesInv, TablesOK, SocketsOK
<1>6. link'[s].to = s /\ link'[s].q = link[s].q /\ link'[s].eof = link[s].eof
  <2>1. link' = [link EXCEPT ![s] = [link[s] EXCEPT !.to = s]]
    BY <1>4 DEF openPassiveMode
  <2>2. link'[s] = [link[s] EXCEPT !.to = s]
    BY <2>1, StoredTables
  <2> QED
    BY <1>1, <2>2 DEF Links
<1>7. x'[s].at = "connect" /\ x'[s].by = x[s].by /\ x'[s].on = x[s].on
  <2>1. To(s, "connect") /\ "connect" \in Steps \ {"none"}
    BY DEF openPassiveMode, Steps
  <2> QED
    BY <1>1, <2>1, Goes
<1>8. Fresh(s)' /\ Accepting(s)' /\ port'[s] = [closed EXCEPT !.open = TRUE]
  <2>1. Fresh(s) /\ Accepting(s) /\ port[s] = [closed EXCEPT !.open = TRUE]
    BY <1>1 DEF Smooth, Waits
  <2> QED
    BY <1>2, <1>6, <1>7, <2>1 DEF Fresh, Accepting
<1>9. ~Stored(s)'
  BY <1>7 DEF Stored, Unconnected, Waits
<1> QED
  BY <1>5, <1>6, <1>7, <1>8, <1>9 DEF Smooth, Waits, closed

\* The thread connects and asks for the file (FTP_client.cc:319-356).
LEMMA ConnectSmooth ==
  ASSUME FilesInv, NEW s \in Transfers, Connect(s), x[s].kind = "down", Smooth(s)
  PROVE  Smooth(s)'
<1>1. x[s].at = "connect" /\ Live(s) /\ x[s].by \in Users /\ ctl[s] = << >>
  <2>1. x[s].at = "connect" /\ Live(s) /\ x[s].by \in Users
    BY AtLive DEF Connect, Steps, Over
  <2> QED
    BY <2>1, ThreadTypes DEF LineOK
<1>2. UNCHANGED <<file, arr, ass, rep, wk, crashed>>
  BY DEF Connect, redisServer, diskVars, serverVars
<1>3. /\ Fresh(s) /\ Accepting(s) /\ port[s] = [closed EXCEPT !.open = TRUE]
      /\ link[s].to = s /\ ass[x[s].by] = Address
  BY <1>1 DEF Smooth, Waits
<1>4. link' = link /\ port' = [port EXCEPT ![s] = [port[s] EXCEPT !.pend = Append(@, s)]]
  <2>1. port[s].open /\ link[s].to # None
    BY <1>3, Bounds DEF closed
  <2> QED
    BY <1>3, <2>1 DEF Connect
<1>5. port'[s] = [closed EXCEPT !.open = TRUE, !.pend = << s >>]
  <2>1. port'[s] = [port[s] EXCEPT !.pend = Append(@, s)]
    BY <1>4, StoredTables
  <2> QED
    BY <1>3, <2>1 DEF closed
<1>6. ctl'[s] = << "RETR" >>
  BY <1>1, StoredTables DEF Connect, Command
<1>7. x'[s].at = "150" /\ x'[s].by = x[s].by /\ x'[s].on = x[s].on
  <2>1. To(s, "150") /\ "150" \in Steps \ {"none"}
    BY DEF Connect, Steps
  <2> QED
    BY <1>1, <2>1, Goes
<1>8. Fresh(s)' /\ Accepting(s)'
  BY <1>2, <1>3, <1>4, <1>7 DEF Fresh, Accepting
<1>9. << "RETR" >> # << >>
  OBVIOUS
<1>10. ~Stored(s)'
  BY <1>6, <1>9 DEF Stored
<1> QED
  BY <1>3, <1>4, <1>5, <1>7, <1>8, <1>10 DEF Smooth, Waits, closed

\* A stage at which the server has been sent the command of a download.
LEMMA StoredAt ==
  ASSUME FilesInv, NEW s \in Transfers, Smooth(s), crashed = None,
         x[s].at \in {"chk150", "data", "chk226"}
  PROVE  /\ ctl[s] = << >> /\ link[s].to = s
         /\ \/ Sending(s)
            \/ Closing(s) /\ (Removing(s) \/ Idle(s))
<1>1. ctl[s] = << >>
  BY ThreadTypes DEF LineOK
<1>2. Stored(s)
  BY <1>1, Bounds DEF Stored, Unconnected, Waits
<1> QED
  BY <1>1, <1>2 DEF Smooth

\* The second reply is looked at (FTP_client.cc:116-120).
LEMMA Check150Smooth ==
  ASSUME FilesInv, NEW s \in Transfers, check_150(s), x[s].kind = "down",
         Orderly(x[s].key)', Smooth(s)
  PROVE  Smooth(s)'
<1>1. x[s].at = "chk150" /\ Live(s) /\ crashed = None
  BY AtLive DEF check_150, Steps, Over
<1>2. UNCHANGED <<file, arr, ctl, rep, port, wk, crashed>>
  BY DEF check_150, diskVars, serverVars
<1>3. CASE To(s, "data") /\ UNCHANGED <<link, muddled>>
  <2>1. x'[s].at = "data" /\ x'[s].by = x[s].by /\ x'[s].on = x[s].on
    <3>1. "data" \in Steps \ {"none"}
      BY DEF Steps
    <3> QED
      BY <1>1, <1>3, <3>1, Goes
  <2>2. /\ FileOf(s)' = FileOf(s) /\ (Idle(s)' <=> Idle(s))
        /\ Removing(s)' <=> Removing(s)
    BY <1>2, <1>3, <2>1 DEF FileOf, Idle, Serves, Removing, Whole
  <2>3. Sending(s) => Sending(s)'
    BY <1>1, <1>2, <1>3, <2>1, <2>2 DEF Sending, Chunk
  <2>4. Closing(s) => Closing(s)'
    BY <1>1, <1>2, <1>3, <2>1 DEF Closing
  <2>5. link[s].to = s /\ (Sending(s) \/ (Closing(s) /\ (Removing(s) \/ Idle(s))))
    BY <1>1, StoredAt
  <2> QED
    BY <1>3, <2>1, <2>2, <2>3, <2>4, <2>5 DEF Smooth, Waits
<1>4. CASE To(s, "ended") /\ muddled' = muddled \cup {x[s].key}
  <2>1. "ended" \in Steps \ {"none"}
    BY DEF Steps
  <2>2. x'[s].key = x[s].key
    BY <1>1, <1>4, <2>1, Goes
  <2> QED
    BY <1>4, <2>2 DEF Orderly
<1> QED
  BY <1>3, <1>4 DEF check_150

\* A download takes what has arrived, or finds the end (FTP_client.cc:159-188).
LEMMA RetrSmooth ==
  ASSUME FilesInv, NEW s \in Transfers, Retr(s), Smooth(s)
  PROVE  Smooth(s)' /\ FileOf(s)' = FileOf(s)
<1>1. x[s].at = "data" /\ Live(s) /\ crashed = None
  BY AtLive DEF Retr, Steps, Over
<1>2. UNCHANGED <<arr, ctl, rep, port, wk, crashed>>
  BY DEF Retr, serverVars
<1>3. link[s].to = s /\ (Sending(s) \/ (Closing(s) /\ (Removing(s) \/ Idle(s))))
  BY <1>1, StoredAt
<1>4. /\ file[s] \in Seq(Bytes) /\ link[s] \in Links /\ link[s].q \in Seq(Bytes)
      /\ file \in [Transfers -> Seq(Bytes)]
  BY StoredTables DEF Links
<1>5. CASE /\ link[s].q # << >>
           /\ file' = [file EXCEPT ![s] = Append(@, Head(link[s].q))]
           /\ link' = [link EXCEPT ![s].q = Tail(@)]
           /\ UNCHANGED x
  <2>1. Tail(link[s].q) \in Seq(Bytes)
    BY <1>4, <1>5, HeadTailProperties
  <2>2. link' = [link EXCEPT ![s].q = Tail(link[s].q)]
    BY <1>5
  <2>3. link'[s].to = link[s].to /\ link'[s].q = Tail(link[s].q) /\ link'[s].eof = link[s].eof
    BY <2>1, <2>2, LinkTakes
  <2>4. FileOf(s)' = FileOf(s)
    <3>1. file'[s] = Append(file[s], Head(link[s].q))
      BY <1>4, <1>5
    <3>2. Append(file[s], Head(link[s].q)) \o Tail(link[s].q) = file[s] \o link[s].q
      BY <1>4, <1>5, ChunkPasses
    <3> QED
      BY <2>3, <3>1, <3>2 DEF FileOf
  <2>5. Idle(s)' <=> Idle(s)
    BY <1>2, <1>5 DEF Idle, Serves
  <2>6. Removing(s)' <=> Removing(s)
    BY <1>2, <1>5, <2>4 DEF Removing, Whole
  <2>7. Sending(s) => Sending(s)'
    BY <1>2, <1>5, <2>3, <2>4 DEF Sending, Chunk
  <2>8. Closing(s) => Closing(s)'
    BY <1>1, <1>2, <1>5, <2>3 DEF Closing
  <2> QED
    BY <1>1, <1>3, <1>5, <2>3, <2>4, <2>5, <2>6, <2>7, <2>8 DEF Smooth, Waits
<1>6. CASE /\ link[s].q = << >> /\ (link[s].eof \/ link[s].to = None)
           /\ To(s, "226") /\ UNCHANGED <<file, link>>
  <2>1. link[s].eof /\ Closing(s) /\ (Removing(s) \/ Idle(s))
    BY <1>3, <1>6, Bounds DEF Sending
  <2>2. x'[s].at = "226" /\ x'[s].by = x[s].by /\ x'[s].on = x[s].on
    <3>1. "226" \in Steps \ {"none"}
      BY DEF Steps
    <3> QED
      BY <1>1, <1>6, <3>1, Goes
  <2>3. FileOf(s)' = FileOf(s)
    BY <1>6 DEF FileOf
  <2>4. (Idle(s)' <=> Idle(s)) /\ (Removing(s)' <=> Removing(s))
    BY <1>2, <2>2, <2>3 DEF Idle, Serves, Removing, Whole
  <2>5. Closing(s)'
    BY <1>1, <1>2, <1>6, <2>1, <2>2 DEF Closing
  <2> QED
    BY <1>3, <1>6, <2>1, <2>2, <2>3, <2>4, <2>5 DEF Smooth, Waits
<1> QED
  BY <1>5, <1>6 DEF Retr

\* The last reply is looked at, and the thread ends (FTP_client.cc:121-130).
LEMMA Check226Smooth ==
  ASSUME FilesInv, NEW s \in Transfers, check_226(s), Smooth(s)
  PROVE  Smooth(s)'
<1>1. x[s].at = "chk226" /\ Live(s) /\ crashed = None
  BY AtLive DEF check_226, Steps, Over
<1>2. UNCHANGED <<file, arr, ctl, rep, port, wk, crashed>>
  BY DEF check_226, redisServer, diskVars, serverVars
<1>3. link[s].to = s /\ Closing(s) /\ (Removing(s) \/ Idle(s))
  BY <1>1, StoredAt DEF Sending
<1>4. To(s, "reported") /\ "reported" \in Steps \ {"none"}
  <2>1. arr[x[s].by] = << "226", None >>
    BY <1>1 DEF Smooth
  <2>2. arr[x[s].by][1] = "226"
    BY <2>1
  <2> QED
    BY <2>2 DEF check_226, Steps
<1>5. x'[s].at = "reported" /\ x'[s].by = x[s].by /\ x'[s].on = x[s].on
  BY <1>1, <1>4, Goes
<1>6. link'[s].to = link[s].to /\ link'[s].q = link[s].q /\ link'[s].eof
  BY LinkCloses DEF check_226, Quit
<1>7. FileOf(s)' = FileOf(s)
  BY <1>2, <1>6 DEF FileOf
<1>8. (Idle(s)' <=> Idle(s)) /\ (Removing(s)' <=> Removing(s))
  BY <1>2, <1>5, <1>7 DEF Idle, Serves, Removing, Whole
<1>9. Closing(s)'
  BY <1>1, <1>2, <1>3, <1>5, <1>6 DEF Closing
<1> QED
  BY <1>3, <1>5, <1>6, <1>8, <1>9 DEF Smooth, Waits

\* The server opens a port for a download (FTPconnect.cc:37-72).
LEMMA PasvSmooth ==
  ASSUME FilesInv, NEW w \in 0 .. Workers - 1, NEW t \in Transfers, PASV(w, t), Smooth(t)
  PROVE  Smooth(t)'
<1>1. /\ x[t].at \notin {"none", "start"} /\ x[t].on = w
      /\ ctl[t] = << "PASV" >> /\ ctl'[t] = << >>
  <2>1. "PASV" \in Commands
    BY DEF Commands
  <2> QED
    BY <2>1, ReadsEffect DEF PASV
<1>2. x[t].at = "227"
  <2>1. x[t].at \in {"227", "dead"}
    BY <1>1, ThreadTypes DEF LineOK
  <2> QED
    BY <2>1 DEF Smooth
<1>3. UNCHANGED <<file, opened, x, arr, ass, link, crashed>>
  BY DEF PASV, diskVars, clientVars
<1>4. port'[t] = [closed EXCEPT !.open = TRUE]
  BY StoredTables DEF PASV
<1>5. wk'[w].at = "accept" /\ wk'[w].t = t
  BY StoredTables DEF PASV, Engage
<1>6. Fresh(t)' /\ link[t].to \in {None, t}
  BY <1>2, <1>3 DEF Smooth, Fresh
<1>7. Accepting(t)'
  BY <1>1, <1>3, <1>5 DEF Accepting
<1>8. ~Stored(t)'
  BY <1>2, <1>3 DEF Stored, Unconnected, Waits
<1> QED
  BY <1>2, <1>3, <1>4, <1>6, <1>7, <1>8 DEF Smooth, closed

\* A download that its worker waits for has not been stored.
LEMMA AcceptingDown ==
  ASSUME FilesInv, NEW w \in 0 .. Workers - 1, accept_data(w), NEW t, t = wk[w].t, Smooth(t)
  PROVE  /\ t \in Transfers /\ x[t].on = w /\ ~Stored(t)
         /\ x[t].at = "150" /\ ctl[t] # << >> /\ Accepting(t)
<1>1. wk[w].at = "accept" /\ port[t].pend # << >> /\ crashed = None
  BY DEF accept_data, Busy, Up
<1>2. /\ t \in Transfers /\ x[t].at \notin {"none", "start"} /\ x[t].on = w
      /\ ctl[t] # << "PASV" >>
  BY <1>1, Serving
<1>3. ~Idle(t) /\ ~Sending(t) /\ ~Removing(t)
  BY <1>1, <1>2 DEF Idle, Serves, Sending, Removing
<1>4. ~Stored(t)
  BY <1>3, Zenon DEF Smooth
<1>5. ~(Waits(t) /\ ctl[t] = << >>)
  BY <1>1 DEF Smooth, closed
<1>6. LineOK(t) /\ x[t].at # "dead"
  BY <1>2, ThreadTypes DEF Smooth
<1>7. crashed # t
  BY <1>1, <1>2, Bounds
<1>8. ctl[t] # << >>
  BY <1>2, <1>4, <1>5, <1>7 DEF Stored, Unconnected
<1>9. x[t].at = "150"
  BY <1>2, <1>6, <1>8 DEF LineOK
<1>10. Accepting(t)
  BY <1>1, <1>2 DEF Accepting
<1> QED
  BY <1>2, <1>4, <1>8, <1>9, <1>10

\* The client of a download is accepted (Dataconnect.cc:41-59).
LEMMA AcceptSmooth ==
  ASSUME FilesInv, NEW w \in 0 .. Workers - 1, accept_data(w), NEW t, t = wk[w].t, Smooth(t)
  PROVE  Smooth(t)'
<1>1. /\ t \in Transfers /\ x[t].on = w /\ ~Stored(t)
      /\ x[t].at = "150" /\ ctl[t] # << >> /\ Accepting(t)
  BY AcceptingDown
<1>2. UNCHANGED <<file, opened, x, arr, ass, ctl, link, crashed>>
  BY DEF accept_data, diskVars, clientVars
<1>3. ~Idle(t)
  BY <1>1 DEF Idle, Accepting, Serves
<1>4. Fresh(t) /\ link[t].to = t /\ port[t] = [closed EXCEPT !.open = TRUE, !.pend = << t >>]
  BY <1>1, <1>3 DEF Smooth
<1>5. port[t].pend = << t >>
  BY <1>4 DEF closed
<1>6. port'[t].data = t
  <2>1. port' = [port EXCEPT ![t] = [port[t] EXCEPT !.data = Head(port[t].pend), !.pend = Tail(port[t].pend)]]
    BY DEF accept_data
  <2>2. port'[t] = [port[t] EXCEPT !.data = Head(port[t].pend), !.pend = Tail(port[t].pend)]
    BY <1>1, <2>1, StoredTables
  <2>3. Head(port[t].pend) = t
    BY <1>5
  <2>4. port[t] \in Ports
    BY <1>1, StoredTables
  <2> QED
    BY <2>2, <2>3, <2>4 DEF Ports
<1>7. wk'[w].at = "wait"
  BY StoredTables, FreeTask DEF accept_data, Return
<1>8. Idle(t)'
  BY <1>1, <1>2, <1>7 DEF Idle, Serves
<1>9. Fresh(t)' /\ ~Stored(t)'
  BY <1>1, <1>2, <1>4 DEF Fresh, Stored
<1> QED
  BY <1>1, <1>2, <1>4, <1>6, <1>8, <1>9 DEF Smooth, Waits

\* An upload or a download whose worker reads its command.
LEMMA CommandRead ==
  ASSUME FilesInv, NEW w \in 0 .. Workers - 1, NEW t \in Transfers, NEW c \in {"STOR", "RETR"},
         Reads(w, t, c)
  PROVE  /\ wk[w].at = "wait" /\ x[t].on = w /\ Idle(t) /\ crashed = None
         /\ x[t].at \in {"150", "dead"} /\ (x[t].at = "150" => rep[t] = << >>)
         /\ ctl[t] # << >> /\ ctl'[t] = << >> /\ ~Stored(t)
         /\ x[t] \in Threads /\ (x[t].kind = "up" <=> c = "STOR")
<1>1. /\ wk[w].at = "wait" /\ x[t].at \notin {"none", "start"} /\ x[t].on = w
      /\ ctl[t] = << c >> /\ ctl'[t] = << >> /\ x[t] \in Threads
  <2>1. c \in Commands
    BY DEF Commands
  <2> QED
    BY <2>1, ReadsEffect
<1>2. ctl[t] = << "STOR" >> <=> c = "STOR"
  BY <1>1
<1>3. /\ x[t].at \in {"150", "dead"} /\ (x[t].at = "150" => rep[t] = << >>)
      /\ x[t].kind = "up" <=> ctl[t] = << "STOR" >>
  <2>1. ctl[t] \in {<< "STOR" >>, << "RETR" >>}
    BY <1>1
  <2> QED
    BY <2>1, ThreadTypes DEF LineOK
<1>4. ctl[t] # << >>
  BY <1>1
<1>5. crashed = None
  BY DEF Reads, Busy, Up
<1>6. Idle(t) /\ ~Stored(t)
  BY <1>1, <1>4 DEF Idle, Serves, Stored
<1> QED
  BY <1>1, <1>2, <1>3, <1>4, <1>5, <1>6

\* A download finds a path, or ends the server (Dataconnect.cc:66-86).
LEMMA RetrCommandSmooth ==
  ASSUME FilesInv, NEW w \in 0 .. Workers - 1, NEW t \in Transfers, RETR(w, t), Smooth(t),
         paths[x[t].key] # << >> => FirstPath(paths[x[t].key]) \in opened
  PROVE  Smooth(t)'
<1>1. /\ wk[w].at = "wait" /\ x[t].on = w /\ crashed = None
      /\ x[t].at = "150" /\ rep[t] = << >> /\ ctl[t] # << >> /\ ctl'[t] = << >>
  BY CommandRead DEF RETR, Smooth
<1>2. Fresh(t) /\ link[t].to = t /\ port[t].data = t
  BY <1>1 DEF Smooth, Accepting
<1>3. UNCHANGED <<file, opened, x, arr, ass, link, port>>
  BY DEF RETR, diskVars, clientVars
<1>4. CASE crashed' = t
  BY <1>1, <1>2, <1>3, <1>4 DEF Smooth, Waits, Stored
<1>5. CASE /\ Reply(t, "150down")
           /\ Engage(w, "send", t, FirstPath(paths[x[t].key]))
  <2>1. rep'[t] = << << "150down", None >> >>
    BY <1>1, <1>5, AnswerEffect DEF Reply
  <2>2. wk'[w].at = "send" /\ wk'[w].t = t /\ wk'[w].pos = 0
    BY <1>5, StoredTables DEF Engage
  <2>3. FileOf(t)' = Chunk(wk'[w].f, 0)
    <3>1. file'[t] = << >> /\ link'[t].q = << >>
      BY <1>2, <1>3 DEF Fresh
    <3>2. << >> \o << >> = << >>
      BY EmptySeq, ConcatEmptySeq
    <3>3. FileOf(t)' = << >>
      BY <3>1, <3>2 DEF FileOf
    <3>4. Chunk(wk'[w].f, 0) = << >>
      BY ChunkNext
    <3> QED
      BY <3>3, <3>4
  <2>4. Sending(t)'
    BY <1>1, <1>2, <1>3, <2>1, <2>2, <2>3, Bounds DEF Sending, Fresh, Chunk
  <2> QED
    BY <1>1, <1>2, <1>3, <2>4 DEF Smooth, Waits
<1> QED
  BY <1>4, <1>5 DEF RETR

\* A whole file, chunk by chunk.
LEMMA WholeChunks ==
  ASSUME NEW n
  PROVE  /\ Len(Whole(n)) = Chunks /\ \A i \in 1 .. Chunks : Whole(n)[i] = n
         /\ \A m : Whole(m) = Whole(n) => m = n
<1>1. \A m : Whole(m) \in Seq({m}) /\ Len(Whole(m)) = Chunks /\ \A i \in 1 .. Chunks : Whole(m)[i] = m
  BY Bounds, IsASeq DEF Whole
<1>2. 1 \in 1 .. Chunks
  BY Bounds
<1>3. ASSUME NEW m, Whole(m) = Whole(n) PROVE m = n
  <2>1. Whole(m)[1] = m /\ Whole(n)[1] = n
    BY <1>1, <1>2
  <2> QED
    BY <1>3, <2>1
<1>4. Len(Whole(n)) = Chunks /\ \A i \in 1 .. Chunks : Whole(n)[i] = n
  BY <1>1
<1> QED
  BY <1>3, <1>4

\* A download that is being sent is at the stage of sending, and not gone.
LEMMA SendingDown ==
  ASSUME FilesInv, NEW w \in 0 .. Workers - 1, Busy(w, "send") \/ Busy(w, "lrem"),
         NEW t, t = wk[w].t, Smooth(t)
  PROVE  /\ t \in Transfers /\ x[t].on = w /\ ~Idle(t) /\ Stored(t) /\ crashed = None
         /\ ctl[t] = << >> /\ link[t].to = t /\ x[t].at # "dead"
         /\ wk[w].at = "send" => Sending(t)
         /\ wk[w].at = "lrem" => Removing(t) /\ Closing(t)
<1>1. wk[w].at \in {"send", "lrem"} /\ crashed = None
  BY DEF Busy, Up
<1>2. /\ t \in Transfers /\ x[t].at \notin {"none", "start"} /\ x[t].on = w
      /\ ctl[t] = << >> /\ ~Waits(t)
  BY <1>1, Serving
<1>3. Stored(t)
  BY <1>1, <1>2, Bounds DEF Stored, Unconnected
<1>4. link[t].to = t /\ (Sending(t) \/ (Closing(t) /\ (Removing(t) \/ Idle(t))))
      /\ x[t].at # "dead"
  BY <1>3 DEF Smooth
<1>5. ~Idle(t)
  BY <1>1, <1>2 DEF Idle, Serves
<1>6. wk[w].at = "send" => ~Removing(t)
  BY <1>2 DEF Removing
<1>7. wk[w].at = "lrem" => ~Sending(t)
  BY <1>2 DEF Sending
<1> QED
  BY <1>1, <1>2, <1>3, <1>4, <1>5, <1>6, <1>7

\* The path of what was sent is removed (Dataconnect.cc:110-113).
LEMMA SendDoneSmooth ==
  ASSUME FilesInv, NEW w \in 0 .. Workers - 1, send_done(w), NEW t, t = wk[w].t, Smooth(t)
  PROVE  Smooth(t)' /\ FileOf(t)' = FileOf(t) /\ Idle(t)'
<1>1. Busy(w, "lrem")
  BY DEF send_done
<1>2. /\ t \in Transfers /\ x[t].on = w /\ crashed = None
      /\ ctl[t] = << >> /\ link[t].to = t /\ Closing(t)
  BY <1>1, SendingDown DEF Busy
<1>3. UNCHANGED <<file, opened, x, arr, ass, ctl, rep, link, port, crashed>>
  BY DEF send_done, diskVars, clientVars, sockVars
<1>4. wk'[w].at = "wait"
  BY StoredTables, FreeTask DEF send_done, Return
<1>5. Idle(t)' /\ FileOf(t)' = FileOf(t)
  BY <1>2, <1>3, <1>4 DEF Idle, Serves, FileOf
<1>6. Closing(t)'
  BY <1>2, <1>3 DEF Closing
<1>7. /\ x[t].at \in {"150", "chk150", "data", "226", "chk226", "reported"}
      /\ x[t].at = "chk150" => arr[x[t].by] = << "150down", None >>
      /\ x[t].at = "chk226" => arr[x[t].by] = << "226", None >>
  BY <1>2, Zenon DEF Smooth, Closing
<1>8. /\ x'[t] = x[t] /\ arr' = arr /\ ctl'[t] = << >> /\ link'[t].to = t
  BY SMTT(30), <1>2, <1>3
<1>9. Smooth(t)'
  BY <1>5, <1>6, <1>7, <1>8 DEF Smooth, Waits
<1> QED
  BY <1>5, <1>9

\* A second element.
LEMMA AppendPair ==
  ASSUME NEW r, NEW v
  PROVE  Append(<< r >>, v) = << r, v >>
<1> DEFINE p == << r >>
           q == << r, v >>
<1>1. p \in Seq({r, v}) /\ Len(p) = 1 /\ p[1] = r
  OBVIOUS
<1>2. q \in Seq({r, v}) /\ Len(q) = 2 /\ q[1] = r /\ q[2] = v
  OBVIOUS
<1> HIDE DEF p, q
<1>0. \A s \in Seq({r, v}) :
        /\ Append(s, v) \in Seq({r, v}) /\ Len(Append(s, v)) = Len(s) + 1
        /\ Append(s, v)[Len(s) + 1] = v
        /\ \A i \in 1 .. Len(s) : Append(s, v)[i] = s[i]
  BY AppendProperties
<1> DEFINE z == Append(p, v)
<1>3. /\ z \in Seq({r, v}) /\ Len(z) = Len(p) + 1 /\ z[Len(p) + 1] = v
      /\ \A i \in 1 .. Len(p) : z[i] = p[i]
  BY <1>0, <1>1
<1> HIDE DEF z
<1>4. Len(z) = 2 /\ \A i \in 1 .. 2 : z[i] = q[i]
  BY <1>1, <1>2, <1>3
<1>5. z = q
  BY <1>2, <1>3, <1>4, SeqEqual
<1> QED
  BY <1>5 DEF p, q, z

\* The transfer a worker is at.
ClientOf(w, t) == t = wk[w].t

\* What the file holds is sent, and the connection closed (Dataconnect.cc:86-109).
LEMMA SendLoopSmooth ==
  ASSUME FilesInv, NEW w \in 0 .. Workers - 1, send_loop(w), NEW t, ClientOf(w, t), Smooth(t),
         file[wk[w].f] = Whole(wk[w].f)
  PROVE  Smooth(t)' /\ ~Idle(t)' /\ crashed' = None
<1> DEFINE f == wk[w].f
           i == wk[w].pos
<1>1. Busy(w, "send") /\ wk[w].at = "send"
  BY DEF send_loop, Busy
<1>2. /\ t \in Transfers /\ x[t].on = w /\ crashed = None /\ ctl[t] = << >>
      /\ link[t].to = t /\ x[t].at # "dead" /\ Sending(t)
  BY <1>1, SendingDown, ZenonT(60) DEF ClientOf
<1>3. /\ port[t].data = t /\ ~link[t].eof /\ FileOf(t) = Chunk(f, i)
      /\ x[t].at \in {"150", "chk150", "data"}
      /\ rep[t] = IF x[t].at = "150" THEN << << "150down", None >> >> ELSE << >>
  BY <1>2 DEF Sending
<1>4. UNCHANGED <<file, x, arr, ass, ctl>>
  BY DEF send_loop, diskVars, clientVars
<1>5. /\ wk[w] \in Tasks /\ f \in Transfers /\ i \in Nat /\ wk[w].t = t
      /\ wk \in [0 .. Workers - 1 -> Tasks]
      /\ link[t] \in Links /\ link[t].q \in Seq(Bytes) /\ file[t] \in Seq(Bytes)
  BY <1>1, <1>2, Serving, StoredTables DEF Tasks, Links, ClientOf
<1>6. Len(file[f]) = Chunks /\ \A j \in 1 .. Chunks : file[f][j] = f
  BY WholeChunks
<1>7. x[t].at = "chk150" => arr[x[t].by] = << "150down", None >>
  BY DEF Smooth
<1> HIDE DEF f, i
<1>8. CASE /\ i < Len(file[f])
           /\ wk' = [wk EXCEPT ![w].pos = @ + 1]
           /\ link' = [link EXCEPT ![t].q = Append(@, file[f][i + 1])]
           /\ UNCHANGED crashed
           /\ UNCHANGED <<rep, port>>
  <2>1. i < Chunks /\ i + 1 \in 1 .. Chunks /\ file[f][i + 1] = f
    BY <1>5, <1>6, <1>8, Bounds
  <2>2. wk'[w] = [wk[w] EXCEPT !.pos = i + 1]
    BY <1>5, <1>8 DEF i
  <2>3. wk'[w].at = "send" /\ wk'[w].t = t /\ wk'[w].f = f /\ wk'[w].pos = i + 1
    BY <1>1, <1>5, <2>2 DEF Tasks, f
  <2>4. Append(link[t].q, f) \in Seq(Bytes) /\ f \in Bytes
    BY <1>5, Bounds, AppendProperties
  <2>5. link'[t].to = t /\ link'[t].q = Append(link[t].q, f) /\ ~link'[t].eof
    <3>1. link' = [link EXCEPT ![t].q = Append(link[t].q, f)]
      BY <1>8, <2>1
    <3> QED
      BY <1>2, <1>3, <2>4, <3>1, LinkTakes
  <2>6. FileOf(t)' = Chunk(f, i + 1)
    <3>1. file[t] \o Append(link[t].q, f) = Append(file[t] \o link[t].q, f)
      <4>1. \A g, q \in Seq(Bytes), c \in Bytes : g \o Append(q, c) = Append(g \o q, c)
        BY ChunkSent
      <4> QED
        BY <1>5, <2>4, <4>1
    <3>2. Append(Chunk(f, i), f) = Chunk(f, i + 1)
      BY <1>5, ChunkNext
    <3> QED
      BY <1>3, <1>4, <2>5, <3>1, <3>2 DEF FileOf
  <2>7. Sending(t)'
    <3>1. FileOf(t)' = Chunk(wk'[w].f, wk'[w].pos)
      BY <2>3, <2>6
    <3>2. wk'[w].pos <= Chunks
      BY <2>1, <2>3, Bounds, <1>5
    <3> QED
      BY <1>2, <1>3, <1>4, <1>8, <2>3, <2>5, <3>1, <3>2 DEF Sending, Chunk
  <2>8. ~Idle(t)'
    BY <1>2, <1>4, <2>3 DEF Idle, Serves
  <2>9. Smooth(t)'
    BY <1>2, <1>3, <1>4, <1>7, <2>5, <2>7 DEF Smooth, Waits
  <2> QED
    BY <1>2, <1>8, <2>8, <2>9
<1>9. CASE /\ i = Len(file[f])
           /\ Closed(t)
           /\ Reply(t, "226") /\ MayDie(t)
           /\ wk' = [wk EXCEPT ![w].at = "lrem"]
  <2>1. crashed' = None
    BY <1>2, <1>9 DEF MayDie
  <2>2. wk'[w] = [wk[w] EXCEPT !.at = "lrem"]
    BY <1>5, <1>9
  <2>3. wk'[w].at = "lrem" /\ wk'[w].t = t /\ wk'[w].f = f
    BY <1>5, <2>2 DEF Tasks, f
  <2>4. link'[t].to = t /\ link'[t].q = link[t].q /\ link'[t].eof
    <3>1. link'[t] = [link[t] EXCEPT !.eof = TRUE]
      BY <1>2, <1>3, <1>9 DEF Closed
    <3> QED
      BY <1>2, <1>5, <3>1 DEF Links
  <2>5. FileOf(t)' = Whole(f)
    <3>1. Chunk(f, Chunks) = Whole(f)
      BY DEF Chunk, Whole
    <3> QED
      BY <1>3, <1>4, <1>6, <1>9, <2>4, <3>1 DEF FileOf
  <2>6. Removing(t)'
    BY <1>2, <1>4, <2>3, <2>5 DEF Removing, Whole
  <2>7. rep'[t] = Append(rep[t], << "226", None >>)
    BY <1>2, <1>9, StoredTables DEF Reply, Answer
  <2>8. Closing(t)'
    <3>1. CASE x[t].at = "150"
      <4>1. rep[t] = << << "150down", None >> >>
        BY <1>3, <3>1
      <4>2. Append(<< << "150down", None >> >>, << "226", None >>)
              = << << "150down", None >>, << "226", None >> >>
        BY AppendPair
      <4>3. rep'[t] = << << "150down", None >>, << "226", None >> >>
        BY <2>7, <4>1, <4>2
      <4> QED
        BY <1>4, <2>4, <3>1, <4>3 DEF Closing
    <3>2. CASE x[t].at # "150"
      <4>1. rep'[t] = << << "226", None >> >>
        BY <1>3, <2>7, <3>2
      <4> QED
        BY <1>3, <1>4, <2>4, <3>2, <4>1 DEF Closing
    <3> QED
      BY <3>1, <3>2
  <2>9. ~Idle(t)'
    BY <1>2, <1>4, <2>3 DEF Idle, Serves
  <2>10. Smooth(t)'
    BY <1>2, <1>3, <1>4, <1>7, <2>4, <2>6, <2>8 DEF Smooth, Waits
  <2> QED
    BY <2>1, <2>9, <2>10
<1> QED
  BY SMTT(30), <1>3, <1>8, <1>9 DEF send_loop, f, i, ClientOf

\* A program ends: its threads are dead, their keys muddled, and nothing else
\* has changed (FTP_client.cc:28-131).
LEMMA ExitEffect ==
  ASSUME FilesInv, NEW u \in Users, exit(u)
  PROVE  /\ \A t \in Transfers :
              \/ x'[t] = x[t] /\ link'[t] = link[t]
              \/ /\ Live(t) /\ x'[t].at = "dead" /\ x'[t].key \in muddled'
                 /\ x'[t].by = x[t].by /\ x'[t].key = x[t].key /\ x'[t].kind = x[t].kind
                 /\ x'[t].name = x[t].name /\ x'[t].on = x[t].on
         /\ muddled \subseteq muddled'
         /\ UNCHANGED <<paths, names, file, opened, arr, ass, cache, chat, ctl, rep, port, wk,
                        crashed>>
<1> DEFINE mine == {t \in Started : x[t].by = u /\ x[t].at \notin Over}
<1>1. /\ x' = [t \in Transfers |-> IF t \in mine THEN [x[t] EXCEPT !.at = "dead"] ELSE x[t]]
      /\ link' = [t \in Transfers |-> IF t \in mine THEN [link[t] EXCEPT !.eof = TRUE] ELSE link[t]]
      /\ muddled' = muddled \cup {x[t].key : t \in mine}
      /\ UNCHANGED <<paths, names, file, opened, arr, ass, cache, chat, ctl, rep, port, wk, crashed>>
  BY DEF exit, redisVars, diskVars, chatVars, serverVars
<1>2. \A t \in mine : t \in Transfers /\ Live(t) /\ x[t] \in Threads
  BY ThreadTypes DEF Started, Live
<1> HIDE DEF mine
<1>3. ASSUME NEW t \in mine
      PROVE  /\ Live(t) /\ x'[t].at = "dead" /\ x'[t].key \in muddled'
             /\ x'[t].by = x[t].by /\ x'[t].key = x[t].key /\ x'[t].kind = x[t].kind
             /\ x'[t].name = x[t].name /\ x'[t].on = x[t].on
  <2>1. x'[t] = [x[t] EXCEPT !.at = "dead"]
    BY <1>1, <1>2
  <2> QED
    BY <1>1, <1>2, <2>1 DEF Threads
<1>4. ASSUME NEW t \in Transfers \ mine PROVE x'[t] = x[t] /\ link'[t] = link[t]
  BY <1>1
<1> QED
  BY <1>1, <1>3, <1>4

\* The end of a program disturbs no orderly download.
LEMMA ExitDownloads ==
  ASSUME FilesInv, DownloadsOK, NEW u \in Users, exit(u)
  PROVE  DownloadsOK'
<1> SUFFICES ASSUME NEW t \in Transfers, x'[t].at # "none", x'[t].kind = "down",
                    Orderly(x[t].key)'
             PROVE  Smooth(t)'
  BY DEF DownloadsOK
<1>1. /\ x'[t] = x[t] /\ link'[t] = link[t] /\ muddled \subseteq muddled'
      /\ UNCHANGED <<file, arr, ass, ctl, rep, port, wk, crashed>>
  <2>1. x'[t].key \notin muddled'
    BY DEF Orderly
  <2> QED
    BY <2>1, ExitEffect
<1>2. Smooth(t)
  BY <1>1 DEF DownloadsOK, Orderly
<1> QED
  BY <1>1, <1>2, SmoothStays DEF Same, SameWork, SameBuffers

\* A transfer is started: the latest of all; an orderly one is alone of its key,
\* and fetches what its user has not fetched before (send_friends.cc:323-404).
LEMMA StartEffect ==
  ASSUME FilesInv, faults \in Nat,
         NEW u \in Users, NEW kind \in Kinds, NEW k \in Keys, NEW name,
         StartThread(u, kind, k, name), NEW n, n = Cardinality(Started) + 1
  PROVE  /\ n \in Transfers /\ n \notin Started /\ x[n].at = "none"
         /\ Started' = Started \cup {n} /\ \A s \in Started : s \in Transfers /\ s < n
         /\ \A s \in Transfers \ {n} : x'[s] = x[s]
         /\ x'[n].at = "start" /\ x'[n].kind = kind /\ x'[n].by = u /\ x'[n].key = k
         /\ x'[n].name = IF kind = "up" THEN n ELSE name
         /\ muddled \subseteq muddled'
         /\ \A s \in Started : Active(s) /\ x[s].key = k => k \in muddled'
         /\ \A s \in Downs : kind = "down" /\ x[s].by = u /\ x[s].key = k /\ x[s].name = name
                               => k \in muddled'
<1> DEFINE r == [at |-> "start", kind |-> kind, by |-> u, key |-> k,
                 name |-> IF kind = "up" THEN n ELSE name, pos |-> 0, on |-> 0]
           other == {s \in Started : Active(s) /\ (x[s].key = k \/ x[s].by = u)}
           stale == kind = "down" /\ \E s \in Started \ Ups :
                       x[s].by = u /\ x[s].key = k /\ x[s].name = name
<1>1. n \in Nat /\ n <= MaxTransfers
  <2>1. Cardinality(Started) \in Nat
    <3>1. PICK m \in 0 .. MaxTransfers : Started = 1 .. m
      BY DEF FilesInv, TablesOK, CountOK
    <3>2. m \in Nat /\ Cardinality(1 .. m) = m
      BY <3>1, Bounds, FS_Interval
    <3> QED
      BY <3>1, <3>2
  <2>2. n + faults <= MaxTransfers
    BY DEF StartThread
  <2> QED
    BY <2>1, <2>2, Bounds
<1>2. /\ n \in Transfers /\ x[n].at = "none" /\ n \notin Started
      /\ Started \cup {n} = 1 .. n
  BY <1>1, FreshNumber DEF FilesInv, TablesOK
<1>3. /\ x' = [x EXCEPT ![n] = r]
      /\ muddled' = muddled \cup {x[s].key : s \in other} \cup IF other # {} \/ stale THEN {k} ELSE {}
  BY DEF StartThread
<1>4. /\ r.at = "start" /\ r.by = u /\ r.key = k /\ r.kind = kind
      /\ r.name = IF kind = "up" THEN n ELSE name
  OBVIOUS
<1>5. \A s \in Started : Active(s) /\ x[s].key = k => k \in muddled'
  <2>1. \A s \in Started : Active(s) /\ x[s].key = k => s \in other
    OBVIOUS
  <2>2. other # {} => k \in muddled'
    BY <1>3
  <2> HIDE DEF other
  <2> QED
    BY <2>1, <2>2
<1>6. \A s \in Downs : kind = "down" /\ x[s].by = u /\ x[s].key = k /\ x[s].name = name
                               => k \in muddled'
  <2>1. \A s \in Downs : kind = "down" /\ x[s].by = u /\ x[s].key = k /\ x[s].name = name => stale
    BY DEF Downs
  <2>2. stale => k \in muddled'
    BY <1>3
  <2> HIDE DEF stale
  <2> QED
    BY <2>1, <2>2
<1>7. muddled \subseteq muddled'
  <2> HIDE DEF other, stale
  <2> QED
    BY <1>3
<1> HIDE DEF r, other, stale
<1>8. x'[n] = r /\ \A s \in Transfers \ {n} : x'[s] = x[s]
  BY <1>2, <1>3 DEF FilesInv, TablesOK, SocketsOK
<1>9. Started' = Started \cup {n}
  BY <1>2, <1>4, <1>8 DEF Started
<1>10. \A s \in Started : s \in Transfers /\ s < n
  <2> SUFFICES ASSUME NEW s \in Started PROVE s \in Transfers /\ s < n
    OBVIOUS
  <2>1. s \in Transfers
    BY Zenon DEF Started
  <2>2. s \in 1 .. n /\ s # n
    BY <1>2, Zenon
  <2>3. s < n
    <3> HIDE DEF Started
    <3> QED
      BY <1>1, <2>2
  <2> QED
    BY <2>1, <2>3
<1> QED
  BY <1>2, <1>4, <1>5, <1>6, <1>7, <1>8, <1>9, <1>10

\* A transfer that is started disturbs no orderly download.
LEMMA StartDownloads ==
  ASSUME FilesInv, DownloadsOK, faults \in Nat,
         NEW u \in Users, NEW kind \in Kinds, NEW k \in Keys, NEW name,
         StartThread(u, kind, k, name),
         UNCHANGED <<file, arr, ass, ctl, rep, link, port, wk, crashed>>
  PROVE  DownloadsOK'
<1>1. PICK n : n = Cardinality(Started) + 1
  OBVIOUS
<1>2. /\ n \in Transfers /\ x[n].at = "none" /\ x'[n].at = "start" /\ muddled \subseteq muddled'
      /\ \A s \in Transfers \ {n} : x'[s] = x[s]
  BY <1>1, StartEffect
<1> SUFFICES ASSUME NEW t \in Transfers, x'[t].at # "none", x'[t].kind = "down",
                    Orderly(x[t].key)'
             PROVE  Smooth(t)'
  BY DEF DownloadsOK
<1>3. Smooth(n)'
  <2>1. link'[n].to = None
    BY <1>2, ThreadTypes DEF LineOK
  <2>2. ~Waits(n)' /\ ~Stored(n)'
    BY <1>2 DEF Waits, Stored, Unconnected
  <2> QED
    BY <1>2, <2>1, <2>2 DEF Smooth
<1>4. CASE t # n
  <2>1. x'[t] = x[t] /\ Smooth(t)
    BY <1>2, <1>4 DEF DownloadsOK, Orderly
  <2> QED
    BY <2>1, SmoothStays DEF Same, SameWork, SameBuffers
<1> QED
  BY <1>3, <1>4, Zenon

\* Lists disturb no download.
LEMMA ListsDownloads ==
  ASSUME DownloadsOK, UNCHANGED <<x, file, arr, ass, ctl, rep, link, port, wk, crashed, muddled>>
  PROVE  DownloadsOK'
<1>1. \A t \in Transfers : Smooth(t) => Smooth(t)'
  BY SmoothStays DEF Same, SameWork, SameBuffers
<1> QED
  BY <1>1 DEF DownloadsOK, Orderly

-----------------------------------------------------------------------------
(* Steps that change nothing of the lists.                                 *)

\* The threads, all but how far they have come.
SameThreads ==
    \A t \in Transfers :
        /\ x'[t].at = "none" <=> x[t].at = "none"
        /\ x[t].at # "none" => /\ x'[t].kind = x[t].kind /\ x'[t].key = x[t].key
                               /\ x'[t].by = x[t].by /\ x'[t].name = x[t].name

\* What the server has come to with a transfer, as far as the lists show it.
SameStage(t) ==
    /\ Stored(t)' <=> Stored(t)
    /\ x[t].kind = "down" =>
          /\ Served(t)' <=> Served(t)
          /\ Served(t) => FileOf(t)' = FileOf(t)
          /\ \A w \in 0 .. Workers - 1 : Fetches(w, t)' => Fetches(w, t) /\ wk'[w].f = wk[w].f

SameStages(k) ==
    /\ paths'[k] = paths[k] /\ opened \subseteq opened'
    /\ \A t \in Transfers : x[t].at # "none" /\ x[t].key = k => SameStage(t)

\* The same threads are the same transfers of every key.
LEMMA SameSets ==
  ASSUME SameThreads
  PROVE  /\ Started' = Started /\ Ups' = Ups /\ Downs' = Downs
         /\ \A t \in Started : /\ x'[t].key = x[t].key /\ x'[t].by = x[t].by
                               /\ x'[t].name = x[t].name /\ x'[t].kind = x[t].kind
         /\ \A k : /\ UploadsOf(k)' = UploadsOf(k) /\ DownsOf(k)' = DownsOf(k)
                   /\ Taken(k)' = Taken(k)
<1>1. Started' = Started
  BY DEF Started, SameThreads
<1>2. \A t \in Started : /\ x'[t].key = x[t].key /\ x'[t].by = x[t].by
                         /\ x'[t].name = x[t].name /\ x'[t].kind = x[t].kind
  BY DEF Started, SameThreads
<1>3. Ups' = Ups
  BY <1>1, <1>2 DEF Ups
<1>4. Downs' = Downs
  BY <1>1, <1>3 DEF Downs
<1>5. \A t : t \in Ups \/ t \in Downs => t \in Started
  BY DEF Ups, Downs
<1>6. \A k : UploadsOf(k)' = UploadsOf(k) /\ DownsOf(k)' = DownsOf(k)
  BY <1>2, <1>3, <1>4, <1>5 DEF UploadsOf, DownsOf
<1>7. ASSUME NEW k PROVE Taken(k)' = Taken(k)
  <2>1. \A d \in DownsOf(k) : x'[d].name = x[d].name
    BY <1>2, <1>5 DEF DownsOf
  <2> QED
    BY <1>6, <2>1 DEF Taken
<1> QED
  BY <1>1, <1>2, <1>3, <1>4, <1>6, <1>7

\* A transfer of a key.
LEMMA OfKey ==
  ASSUME NEW k
  PROVE  /\ \A t \in UploadsOf(k) : /\ t \in Ups /\ t \in Started /\ t \in Transfers
                                    /\ x[t].at # "none" /\ x[t].kind = "up" /\ x[t].key = k
         /\ \A t \in DownsOf(k) : /\ t \in Downs /\ t \in Started /\ t \in Transfers /\ t \notin Ups
                                  /\ x[t].at # "none" /\ x[t].key = k /\ x[t].kind # "up"
         /\ \A t \in Started : x[t].key = k /\ x[t].kind = "up" => t \in UploadsOf(k)
         /\ \A t \in Started : x[t].key = k /\ x[t].kind # "up" => t \in DownsOf(k)
BY DEF UploadsOf, DownsOf, Ups, Downs, Started

\* What is not a download is an upload.
LEMMA KindOf ==
  ASSUME FilesInv, NEW t \in Started
  PROVE  /\ x[t] \in Threads /\ x[t].kind \in {"up", "down"} /\ x[t].key \in Keys
         /\ x[t].by \in Users /\ x[t].name \in Transfers /\ x[t].on \in 0 .. Workers - 1
<1>1. x[t] \in Threads
  BY DEF FilesInv, TablesOK, SocketsOK, Started, NoThread
<1> QED
  BY <1>1 DEF Threads, Kinds

\* The paths are still right if nothing they depend on has changed ...
LEMMA PathsStay ==
  ASSUME FilesInv, SameThreads, NEW k, SameStages(k), PathsOK(k)
  PROVE  PathsOK(k)'
<1>1. UploadsOf(k)' = UploadsOf(k) /\ DownsOf(k)' = DownsOf(k) /\ paths'[k] = paths[k]
  BY SameSets DEF SameStages
<1>2. \A t \in UploadsOf(k) : Stored(t)' <=> Stored(t)
  BY OfKey DEF SameStages, SameStage
<1>3. \A d \in DownsOf(k) :
        /\ Served(d)' <=> Served(d)
        /\ Served(d) => FileOf(d)' = FileOf(d)
        /\ \A w \in 0 .. Workers - 1 : Fetches(w, d)' => Fetches(w, d) /\ wk'[w].f = wk[w].f
  BY OfKey, KindOf DEF SameStages, SameStage
<1>4. Rising(paths[k])' /\ ToSet(paths'[k]) \subseteq {t \in UploadsOf(k) : Stored(t)'}
  BY <1>1, <1>2 DEF PathsOK, Rising
<1>5. \A t \in UploadsOf(k) : Stored(t)' => t \in opened'
  BY <1>2 DEF PathsOK, SameStages
<1>6. ASSUME NEW t \in UploadsOf(k), Stored(t)', t \notin ToSet(paths'[k])
      PROVE  \E d \in DownsOf(k) : Served(d)' /\ FileOf(d)' = Whole(t)
  <2>1. PICK d \in DownsOf(k) : Served(d) /\ FileOf(d) = Whole(t)
    BY <1>1, <1>2, <1>6 DEF PathsOK
  <2> QED
    BY <1>3, <2>1
<1>7. \A w \in 0 .. Workers - 1, d \in DownsOf(k) :
          Fetches(w, d)' => paths'[k] # << >> /\ wk'[w].f = Head(paths'[k])
  BY <1>1, <1>3 DEF PathsOK
<1>8. \A c, d \in DownsOf(k) : c # d /\ x'[c].by = x'[d].by => x'[c].name # x'[d].name
  BY SameSets, OfKey DEF PathsOK
<1> QED
  BY <1>1, <1>4, <1>5, <1>6, <1>7, <1>8 DEF PathsOK, Whole

\* ... and so is what was fetched ...
LEMMA FetchedStays ==
  ASSUME FilesInv, SameThreads, NEW k, SameStages(k), FetchedOK(k)
  PROVE  FetchedOK(k)'
<1>1. UploadsOf(k)' = UploadsOf(k) /\ DownsOf(k)' = DownsOf(k) /\ paths'[k] = paths[k]
  BY SameSets DEF SameStages
<1>2. \A t \in UploadsOf(k) : Stored(t)' <=> Stored(t)
  BY OfKey DEF SameStages, SameStage
<1>3. \A d \in DownsOf(k) :
        /\ Served(d)' <=> Served(d)
        /\ Served(d) => FileOf(d)' = FileOf(d)
        /\ \A w \in 0 .. Workers - 1 : Fetches(w, d)' => Fetches(w, d) /\ wk'[w].f = wk[w].f
        /\ x'[d].name = x[d].name
  BY OfKey, KindOf, SameSets DEF SameStages, SameStage
<1>4. ASSUME NEW t \in UploadsOf(k), Stored(t)'
      PROVE  t \notin ToSet(paths'[k]) <=> \E d \in DownsOf(k) : Served(d)' /\ x'[d].name = t
  BY <1>1, <1>2, <1>3, <1>4 DEF FetchedOK
<1>5. \A w \in 0 .. Workers - 1, d \in DownsOf(k) : Fetches(w, d)' => wk'[w].f = x'[d].name
  BY <1>3 DEF FetchedOK
<1>6. \A d \in DownsOf(k) : Served(d)' => FileOf(d)' = Whole(x'[d].name)
  BY <1>3 DEF FetchedOK
<1> QED
  BY <1>1, <1>4, <1>5, <1>6 DEF FetchedOK, Whole

\* ... and what is named and shown.
LEMMA NamesStay ==
  ASSUME SameThreads, UNCHANGED <<names, cache, chat>>, NEW k
  PROVE  /\ NamesOK(k) => NamesOK(k)'
         /\ ShownOK(k) => ShownOK(k)'
<1>1. UploadsOf(k)' = UploadsOf(k) /\ Taken(k)' = Taken(k)
  BY SameSets
<1>2. Untold(k)' = Untold(k) /\ Fetching(k)' = Fetching(k)
  BY DEF Untold, Fetching, Requests
<1>3. Rising(names[k[2]][k])' <=> Rising(names[k[2]][k])
  BY DEF Rising
<1>4. InTurn(chat[k[2]], "RECVFILE", k)' <=> InTurn(chat[k[2]], "RECVFILE", k)
  BY DEF InTurn
<1> QED
  BY <1>1, <1>2, <1>3, <1>4 DEF NamesOK, ShownOK

\* Requests and lists, if nothing of them has changed.
LEMMA AskedStays ==
  ASSUME FilesInv, SameThreads, UNCHANGED <<names, cache, chat>>, AskedOK, NamedOK
  PROVE  AskedOK' /\ NamedOK'
<1>1. \A k : UploadsOf(k)' = UploadsOf(k)
  BY SameSets
<1>2. AskedOK'
  <2>1. \A k \in Keys : InTurn(chat[k[1]], "SENDFILE", k)' <=> InTurn(chat[k[1]], "SENDFILE", k)
    BY DEF InTurn
  <2>2. \A k \in Keys : InTurn(chat[k[1]], "SENDFILE", k)'
    BY <2>1 DEF AskedOK
  <2>3. \A u \in Users : \A a \in ToSet(chat'[u]) :
          /\ a.name \in UploadsOf(a.key)'
          /\ a.do = "SENDFILE" => u = a.key[1]
          /\ a.do = "RECVFILE" => u \in Audience[a.key[2]]
    BY <1>1 DEF AskedOK
  <2> QED
    BY <2>2, <2>3 DEF AskedOK
<1>3. NamedOK'
  <2>1. ASSUME NEW t \in Downs'
        PROVE  /\ (x[t].name \in UploadsOf(x[t].key))' /\ x'[t].name < t
               /\ x'[t].by \in Audience[x'[t].key[2]]
    <3>1. t \in Downs /\ t \in Started
      BY <2>1, SameSets DEF Downs
    <3>2. x'[t].name = x[t].name /\ x'[t].key = x[t].key /\ x'[t].by = x[t].by
      BY <3>1, SameSets
    <3>3. x[t].name \in UploadsOf(x[t].key) /\ x[t].name < t /\ x[t].by \in Audience[x[t].key[2]]
      BY <3>1 DEF NamedOK
    <3>4. (x[t].name \in UploadsOf(x[t].key))'
      BY <3>2, <3>3, SameSets DEF UploadsOf, Ups
    <3> QED
      BY <3>2, <3>3, <3>4
  <2>2. \A u \in Users, k \in Keys :
          ToSet(names'[u][k]) \subseteq UploadsOf(k)' /\ ToSet(cache'[u][k]) \subseteq UploadsOf(k)'
    BY <1>1 DEF NamedOK
  <2> QED
    BY <2>1, <2>2 DEF NamedOK
<1> QED
  BY <1>2, <1>3

\* No orderly transfer becomes active that was not.
LEMMA AloneStays ==
  ASSUME FilesInv, AloneOK, SameThreads, muddled \subseteq muddled',
         \A t \in Started : x[t].key \notin muddled' /\ Active(t)' => Active(t)
  PROVE  AloneOK'
<1> SUFFICES ASSUME NEW s \in Started', NEW t \in Started', s # t, x'[s].key = x'[t].key,
                    Orderly(x[t].key)', Active(t)'
             PROVE  s < t
  BY DEF AloneOK
<1>1. s \in Started /\ t \in Started
  BY SameSets
<1>2. x'[s].key = x[s].key /\ x'[t].key = x[t].key
  BY <1>1, SameSets
<1>3. Active(t) /\ Orderly(x[t].key)
  BY <1>1, <1>2 DEF Orderly
<1> QED
  BY <1>1, <1>2, <1>3 DEF AloneOK

HistoryOK == AskedOK /\ NamedOK /\ AloneOK /\ KeysOK

\* A step of the server or of a thread: what is named stays, and of the paths
\* and of what was fetched it remains to be seen.
LEMMA WorkStays ==
  ASSUME FilesInv, HistoryOK, SameThreads, UNCHANGED <<names, cache, chat>>,
         muddled \subseteq muddled',
         \A t \in Started : x[t].key \notin muddled' /\ Active(t)' => Active(t),
         \A k \in Keys : k \notin muddled' =>
            PathsOK(k)' /\ (ToFriend(k) => FetchedOK(k)')
  PROVE  HistoryOK'
<1>1. AskedOK' /\ NamedOK' /\ AloneOK'
  BY AskedStays, AloneStays DEF HistoryOK
<1>2. KeysOK'
  <2> SUFFICES ASSUME NEW k \in Keys, k \notin muddled'
               PROVE  PathsOK(k)' /\ (ToFriend(k) => NamesOK(k)' /\ ShownOK(k)' /\ FetchedOK(k)')
    BY DEF KeysOK, Orderly, ToFriend
  <2>1. ToFriend(k) => NamesOK(k) /\ ShownOK(k)
    BY DEF HistoryOK, KeysOK, Orderly
  <2>2. ToFriend(k) => NamesOK(k)' /\ ShownOK(k)'
    BY <2>1, NamesStay
  <2> QED
    BY <2>2
<1> QED
  BY <1>1, <1>2 DEF HistoryOK

\* A step that changes no list and no stage.
LEMMA QuietStays ==
  ASSUME FilesInv, HistoryOK, SameThreads, UNCHANGED <<names, cache, chat>>,
         muddled \subseteq muddled',
         \A t \in Started : x[t].key \notin muddled' /\ Active(t)' => Active(t),
         \A k \in Keys : k \notin muddled' => SameStages(k)
  PROVE  HistoryOK'
<1>1. ASSUME NEW k \in Keys, k \notin muddled'
      PROVE  PathsOK(k)' /\ (ToFriend(k) => FetchedOK(k)')
  <2>1. PathsOK(k) /\ (ToFriend(k) => FetchedOK(k)) /\ SameStages(k)
    BY <1>1 DEF HistoryOK, KeysOK, Orderly
  <2>2. PathsOK(k)'
    BY <2>1, PathsStay
  <2>3. FetchedOK(k) => FetchedOK(k)'
    BY <2>1, FetchedStays
  <2> QED
    BY <2>1, <2>2, <2>3
<1> QED
  BY <1>1, WorkStays

-----------------------------------------------------------------------------
(* The steps of the threads.                                               *)

\* A step of a thread, whoever's file it is.
LEMMA ThreadStages ==
  ASSUME FilesInv, NEW s \in Transfers, ThreadMoves(s),
         UNCHANGED <<paths, names, cache, chat, opened, crashed>>,
         \/ Unconnected(s) /\ (Unconnected(s)' \/ ctl'[s] # << >>)
         \/ ~Unconnected(s) /\ ~Unconnected(s)' /\ ctl'[s] = ctl[s],
         x[s].kind = "down" /\ ~Unconnected(s) => FileOf(s)' = FileOf(s)
  PROVE  /\ SameThreads
         /\ \A t \in Started : Active(t)' => Active(t)
         /\ \A k \in Keys : SameStages(k)
<1>1. wk' = wk /\ Live(s) /\ \A t \in Transfers \ {s} : Same(t)
  BY DEF ThreadMoves
<1>2. SameThreads
  <2>1. /\ x'[s].at # "none" /\ x[s].at # "none" /\ x'[s].kind = x[s].kind
        /\ x'[s].key = x[s].key /\ x'[s].by = x[s].by /\ x'[s].name = x[s].name
    BY DEF ThreadMoves, Live, Over
  <2>2. \A t \in Transfers \ {s} : x'[t] = x[t]
    BY <1>1 DEF Same
  <2> QED
    BY <2>1, <2>2 DEF SameThreads
<1>3. ASSUME NEW t \in Started, Active(t)' PROVE Active(t)
  <2>1. t \in Transfers
    BY DEF Started
  <2>2. CASE t = s
    BY <1>1, <2>2 DEF Active, Live
  <2>3. CASE t # s
    <3>1. x'[t] = x[t]
      BY <1>1, <2>1, <2>3 DEF Same
    <3> QED
      BY <1>1, <1>3, <3>1 DEF Active
  <2> QED
    BY <2>2, <2>3
<1>4. ASSUME NEW t \in Transfers \ {s} PROVE SameStage(t)
  <2>1. Same(t)
    BY <1>1
  <2>2. Stored(t)' <=> Stored(t)
    BY <2>1 DEF Stored, Unconnected, Waits, Same
  <2>3. Idle(t)' <=> Idle(t)
    BY <1>1, <2>1 DEF Idle, Serves, Same
  <2>4. FileOf(t)' = FileOf(t)
    BY <2>1 DEF FileOf, Same
  <2> QED
    BY <1>1, <2>2, <2>3, <2>4 DEF SameStage, Served, Fetches
<1>5. SameStage(s)
  <2>1. Stored(s)' <=> Stored(s)
    BY DEF Stored
  <2>2. Stored(s) => (Idle(s)' <=> Idle(s))
    <3>1. Stored(s) => x'[s].on = x[s].on
      BY DEF Stored, Unconnected, ThreadMoves
    <3> QED
      BY <1>1, <3>1 DEF Idle, Serves
  <2> QED
    BY <1>1, <2>1, <2>2 DEF SameStage, Served, Fetches, Stored
<1>6. \A k \in Keys : SameStages(k)
  BY <1>4, <1>5 DEF SameStages
<1> QED
  BY <1>2, <1>3, <1>6

\* What a step of a thread leaves of its control connection and of its file.
ThreadGoesOn(s) ==
    /\ UNCHANGED <<paths, names, cache, chat, opened, crashed>>
    /\ \/ Unconnected(s) /\ (Unconnected(s)' \/ ctl'[s] # << >>)
       \/ ~Unconnected(s) /\ ~Unconnected(s)' /\ ctl'[s] = ctl[s]
    /\ x[s].kind = "down" /\ ~Unconnected(s) => FileOf(s)' = FileOf(s)

\* Until the command is sent.
LEMMA EarlySteps ==
  ASSUME FilesInv, NEW s \in Transfers, init(s) \/ openPassiveMode(s) \/ Connect(s)
  PROVE  ThreadGoesOn(s)
<1>1. CASE init(s)
  <2>1. x[s].at = "start" /\ x[s] \in Threads
    BY <1>1, AtLive DEF init, Steps, Over
  <2>2. x'[s].at = "227"
    <3>1. x'[s] = [x[s] EXCEPT !.at = "227", !.on = turn]
      BY <1>1 DEF init, FilesInv, TablesOK, SocketsOK
    <3> QED
      BY <2>1, <3>1 DEF Threads
  <2>3. UNCHANGED <<paths, names, cache, chat, opened, crashed>>
    BY <1>1 DEF init, redisVars, diskVars, chatVars
  <2> QED
    BY <2>1, <2>2, <2>3 DEF ThreadGoesOn, Unconnected, Waits
<1>2. CASE openPassiveMode(s)
  <2>1. x[s].at = "parse" /\ Live(s)
    BY <1>2, AtLive DEF openPassiveMode, Steps, Over
  <2>2. x'[s].at = "connect"
    <3>1. To(s, "connect") /\ "connect" \in Steps \ {"none"}
      BY <1>2 DEF openPassiveMode, Steps
    <3> QED
      BY <2>1, <3>1, Goes
  <2>3. UNCHANGED <<paths, names, cache, chat, opened, crashed>>
    BY <1>2 DEF openPassiveMode, redisServer, redisVars, diskVars, chatVars
  <2> QED
    BY <2>1, <2>2, <2>3 DEF ThreadGoesOn, Unconnected, Waits
<1>3. CASE Connect(s)
  <2>1. x[s].at = "connect" /\ ctl[s] \in Seq(Commands)
    BY <1>3, AtLive, ThreadTypes DEF Connect, Steps, Over
  <2>2. ctl'[s] # << >>
    <3>1. \A c \in Commands : Append(ctl[s], c) # << >>
      BY <2>1, AppendProperties
    <3>2. PICK c \in Commands : Command(s, c)
      BY <1>3 DEF Connect, Commands
    <3>3. ctl'[s] = Append(ctl[s], c)
      BY <3>2, StoredTables DEF Command
    <3> QED
      BY <3>1, <3>2, <3>3
  <2>3. UNCHANGED <<paths, names, cache, chat, opened, crashed>>
    BY <1>3 DEF Connect, redisServer, redisVars, diskVars, chatVars
  <2> QED
    BY <2>1, <2>2, <2>3 DEF ThreadGoesOn, Unconnected, Waits
<1> QED
  BY <1>1, <1>2, <1>3

\* The replies and the file.
LEMMA LateSteps ==
  ASSUME FilesInv, NEW s \in Transfers,
         Recive(s) \/ check_150(s) \/ Stor_fails(s) \/ Stor_read(s) \/ Stor_send(s)
           \/ Stor_close(s) \/ Retr_fails(s) \/ check_226(s)
  PROVE  ThreadGoesOn(s)
<1>1. CASE Recive(s)
  <2>1. /\ UNCHANGED <<paths, names, cache, chat, opened, crashed>>
        /\ UNCHANGED <<file, link, ctl>>
    BY <1>1 DEF Recive, redisServer, redisVars, diskVars, chatVars
  <2>2. Live(s) /\ x[s].at \in {"227", "150", "226"}
    BY <1>1 DEF Recive, Live, Over
  <2>3. PICK a \in {"parse", "chk150", "chk226"} : To(s, a) /\ (x[s].at = "227" <=> a = "parse")
    BY <1>1, <2>2 DEF Recive
  <2>4. x'[s].at = a
    BY <2>2, <2>3, Goes DEF Steps
  <2> QED
    BY <2>1, <2>2, <2>3, <2>4 DEF ThreadGoesOn, Unconnected, Waits, FileOf
<1>2. CASE check_150(s)
  <2>1. /\ UNCHANGED <<paths, names, cache, chat, opened, crashed>>
        /\ UNCHANGED <<file, ctl>>
    BY <1>2 DEF check_150, redisVars, diskVars, chatVars
  <2>2. Live(s) /\ x[s].at = "chk150"
    BY <1>2, AtLive DEF check_150, Steps, Over
  <2>3. PICK a \in {"data", "ended"} : To(s, a)
    BY <1>2 DEF check_150
  <2>4. x'[s].at = a
    BY <2>2, <2>3, Goes DEF Steps
  <2>5. link'[s].q = link[s].q
    BY <1>2, LinkCloses DEF check_150, Quit
  <2> QED
    BY <2>1, <2>2, <2>3, <2>4, <2>5 DEF ThreadGoesOn, Unconnected, Waits, FileOf
<1>3. CASE Stor_fails(s) \/ Stor_read(s) \/ Stor_close(s)
  <2>1. UNCHANGED <<paths, names, cache, chat, opened, crashed, ctl>>
    BY <1>3 DEF Stor_fails, Stor_read, Stor_close, redisServer, redisVars, diskVars, chatVars, sockVars
  <2>2. Live(s) /\ x[s].at \in {"chk150", "data"} /\ x[s].kind = "up"
    BY <1>3 DEF Stor_fails, Stor_read, Stor_close, At, Live, Over
  <2>3. PICK a \in {"send", "226"} : To(s, a)
    BY <1>3 DEF Stor_fails, Stor_read, Stor_close
  <2>4. x'[s].at = a
    BY <2>2, <2>3, Goes DEF Steps
  <2> QED
    BY <2>1, <2>2, <2>3, <2>4 DEF ThreadGoesOn, Unconnected, Waits
<1>4. CASE Stor_send(s)
  <2>1. UNCHANGED <<paths, names, cache, chat, opened, crashed, ctl>>
    BY <1>4 DEF Stor_send, redisServer, redisVars, diskVars, chatVars
  <2>2. x[s].at = "send" /\ x[s] \in Threads
    BY <1>4, AtLive DEF Stor_send, Steps, Over
  <2>3. x[s].kind = "up"
    BY <2>2, ThreadTypes DEF LineOK
  <2>4. x'[s].at = "data"
    <3>1. x'[s] = [x[s] EXCEPT !.at = "data", !.pos = x[s].pos + 1]
      BY <1>4 DEF Stor_send, FilesInv, TablesOK, SocketsOK
    <3> QED
      BY <2>2, <3>1 DEF Threads
  <2> QED
    BY <2>1, <2>2, <2>3, <2>4 DEF ThreadGoesOn, Unconnected, Waits
<1>5. CASE check_226(s)
  <2>1. /\ UNCHANGED <<paths, names, cache, chat, opened, crashed>>
        /\ UNCHANGED <<file, ctl>>
    BY <1>5 DEF check_226, redisServer, redisVars, diskVars, chatVars
  <2>2. Live(s) /\ x[s].at = "chk226"
    BY <1>5, AtLive DEF check_226, Steps, Over
  <2>3. PICK a \in {"reported", "ended"} : To(s, a)
    BY <1>5 DEF check_226
  <2>4. x'[s].at = a
    BY <2>2, <2>3, Goes DEF Steps
  <2>5. link'[s].q = link[s].q
    BY <1>5, LinkCloses DEF check_226, Quit
  <2> QED
    BY <2>1, <2>2, <2>3, <2>4, <2>5 DEF ThreadGoesOn, Unconnected, Waits, FileOf
<1>6. CASE Retr_fails(s)
  <2>1. /\ UNCHANGED <<paths, names, cache, chat, opened, crashed>>
        /\ UNCHANGED <<file, ctl>>
    BY <1>6 DEF Retr_fails, redisVars, diskVars, chatVars
  <2>2. Live(s) /\ x[s].at = "chk150"
    BY <1>6 DEF Retr_fails, At, Live, Over
  <2>3. x'[s].at = "226"
    BY <1>6, <2>2, Goes DEF Retr_fails, Steps
  <2>4. link'[s].q = link[s].q
    BY <1>6, LinkCloses DEF Retr_fails, Quit
  <2> QED
    BY <2>1, <2>2, <2>3, <2>4 DEF ThreadGoesOn, Unconnected, Waits, FileOf
<1> QED
  BY <1>1, <1>2, <1>3, <1>4, <1>5, <1>6

\* What a download takes from its link is in its file.
LEMMA TakingStep ==
  ASSUME FilesInv, NEW s \in Transfers, Retr(s)
  PROVE  ThreadGoesOn(s)
<1>1. /\ UNCHANGED <<paths, names, cache, chat, opened, crashed>> /\ UNCHANGED ctl
  BY DEF Retr, redisVars, chatVars
<1>2. Live(s) /\ x[s].at = "data"
  BY AtLive DEF Retr, Steps, Over
<1>3. x'[s].at \in {"data", "226"}
  <2>1. UNCHANGED x \/ To(s, "226")
    BY DEF Retr
  <2> QED
    BY <1>2, <2>1, Goes DEF Steps
<1>4. FileOf(s)' = FileOf(s)
  <2>1. CASE UNCHANGED <<file, link>>
    BY <2>1 DEF FileOf
  <2>2. CASE /\ link[s].q # << >>
             /\ file' = [file EXCEPT ![s] = Append(@, Head(link[s].q))]
             /\ link' = [link EXCEPT ![s].q = Tail(@)]
    <3>1. /\ file[s] \in Seq(Bytes) /\ link[s] \in Links /\ link[s].q \in Seq(Bytes)
          /\ file \in [Transfers -> Seq(Bytes)]
      BY StoredTables DEF Links
    <3>2. Tail(link[s].q) \in Seq(Bytes)
      BY <2>2, <3>1, HeadTailProperties
    <3>3. link' = [link EXCEPT ![s].q = Tail(link[s].q)]
      BY <2>2
    <3>4. link'[s].q = Tail(link[s].q)
      BY <3>2, <3>3, LinkTakes
    <3>5. file'[s] = Append(file[s], Head(link[s].q))
      BY <2>2, <3>1
    <3>6. Append(file[s], Head(link[s].q)) \o Tail(link[s].q) = file[s] \o link[s].q
      BY <2>2, <3>1, ChunkPasses
    <3> QED
      BY <3>4, <3>5, <3>6 DEF FileOf
  <2> QED
    BY <2>1, <2>2 DEF Retr
<1> QED
  BY <1>1, <1>2, <1>3, <1>4 DEF ThreadGoesOn, Unconnected, Waits

\* A step of a thread leaves the downloads and the lists as they should be.
LEMMA ThreadLists ==
  ASSUME FilesInv, DownloadsOK, HistoryOK, NEW s \in Transfers, Thread(s) \/ Stor_fails(s) \/ Retr_fails(s)
  PROVE  DownloadsOK' /\ HistoryOK' /\ crashed' = crashed /\ crashed = None
<1>1. ThreadMoves(s)
  BY ThreadStep, StorFailsStep, RetrFailsStep
<1>2. ThreadGoesOn(s)
  BY EarlySteps, LateSteps, TakingStep DEF Thread
<1>3. UNCHANGED <<paths, names, cache, chat, opened, crashed>> /\ muddled \subseteq muddled'
  BY <1>1, <1>2 DEF ThreadGoesOn, ThreadMoves
<1>4. /\ SameThreads
      /\ \A t \in Started : Active(t)' => Active(t)
      /\ \A k \in Keys : SameStages(k)
  BY <1>1, <1>2, ThreadStages DEF ThreadGoesOn
<1>5. HistoryOK'
  BY <1>3, <1>4, QuietStays
<1>6. ASSUME x[s].kind = "down", Orderly(x[s].key)', Smooth(s) PROVE Smooth(s)'
  <2>1. ~Stor_fails(s) /\ ~Stor_read(s) /\ ~Stor_close(s)
    BY <1>6 DEF Stor_fails, Stor_read, Stor_close
  <2>2. ~Stor_send(s)
    <3>1. Stor_send(s) => x[s].at = "send" /\ x[s] \in Threads
      BY AtLive DEF Stor_send, Steps, Over
    <3> QED
      BY <1>6, <3>1, ThreadTypes DEF LineOK
  <2>3. ~Retr_fails(s)
    BY <1>1, <1>6 DEF Retr_fails, Orderly, ThreadMoves
  <2>4. \/ init(s) \/ Recive(s) \/ openPassiveMode(s) \/ Connect(s) \/ check_150(s)
        \/ Retr(s) \/ check_226(s)
    BY <2>1, <2>2, <2>3 DEF Thread
  <2> QED
    BY <1>6, <2>4, InitSmooth, ReciveSmooth, PassiveSmooth, ConnectSmooth, Check150Smooth,
       RetrSmooth, Check226Smooth
<1>7. DownloadsOK'
  BY <1>1, <1>3, <1>6, ThreadDownloads
<1>8. crashed = None
  BY DEF Thread, init, Recive, openPassiveMode, Connect, check_150, Stor_fails, Stor_read,
         Stor_send, Stor_close, Retr, Retr_fails, check_226, At, Up
<1> QED
  BY <1>3, <1>5, <1>7, <1>8

-----------------------------------------------------------------------------
(* The steps of the workers that change no list.                           *)

\* An orderly transfer has not failed.
LEMMA Alive ==
  ASSUME FilesInv, DownloadsOK, NEW t \in Transfers, x[t].at # "none", Orderly(x[t].key)
  PROVE  /\ t \in Started /\ x[t].at \notin {"ended", "dead"} /\ x[t].key \in Keys
         /\ x[t].kind = "up" => t \in UploadsOf(x[t].key) /\ Undisturbed(t)
         /\ x[t].kind # "up" => t \in DownsOf(x[t].key) /\ x[t].kind = "down" /\ Smooth(t)
<1>1. t \in Started
  BY DEF Started
<1>2. x[t].kind \in {"up", "down"} /\ x[t].key \in Keys
  BY <1>1, KindOf
<1>3. x[t].kind = "up" => Undisturbed(t)
  BY DEF FilesInv, UploadsOK
<1>4. x[t].kind # "up" => Smooth(t)
  BY <1>2 DEF DownloadsOK
<1>5. x[t].at \notin {"ended", "dead"}
  BY <1>3, <1>4 DEF Undisturbed, Smooth
<1> QED
  BY <1>1, <1>2, <1>3, <1>4, <1>5, OfKey

\* An orderly transfer that is not active has been reported, and is stored whole.
LEMMA Finished ==
  ASSUME FilesInv, DownloadsOK, NEW t \in Started, Orderly(x[t].key), ~Active(t)
  PROVE  /\ Reported(t) /\ ctl[t] = << >> /\ ~Unconnected(t) /\ Idle(t)
         /\ \A w \in 0 .. Workers - 1 : ~Serves(w, t) /\ ~Fetches(w, t)
         /\ x[t].kind = "up" => file[t] = Whole(t)
<1>1. t \in Transfers /\ x[t].at # "none"
  BY DEF Started
<1>2. x[t].at \notin {"ended", "dead"} /\ (x[t].kind = "up" => Undisturbed(t))
  BY <1>1, Alive
<1>3. x[t].at = "reported"
  BY <1>1, <1>2 DEF Active, Over
<1>4. ctl[t] = << >>
  BY <1>1, <1>3, ThreadTypes DEF LineOK
<1>5. DOMAIN wk = 0 .. Workers - 1
  BY StoredTables
<1>6. \A w \in 0 .. Workers - 1 : ~Serves(w, t) /\ ~Fetches(w, t)
  BY <1>5 DEF Active, Serves, Fetches
<1>7. Idle(t)
  BY <1>6, KindOf DEF Idle
<1>8. x[t].kind = "up" => file[t] = Whole(t)
  BY <1>2, <1>3 DEF Undisturbed
<1> QED
  BY <1>3, <1>4, <1>6, <1>7, <1>8 DEF Reported, Unconnected, Waits

\* While one orderly transfer of a key is active, the others are finished.
LEMMA AloneActive ==
  ASSUME FilesInv, AloneOK, NEW t \in Started, Orderly(x[t].key), Active(t),
         NEW s \in Started, s # t, x[s].key = x[t].key
  PROVE  s < t /\ ~Active(s)
<1>1. s < t
  BY DEF AloneOK
<1>2. Active(s) => t < s
  BY DEF AloneOK
<1>3. s \in Nat /\ t \in Nat
  BY Bounds DEF Started
<1> QED
  BY <1>1, <1>2, <1>3

\* A worker's step leaves other orderly transfers at their stages.
LEMMA WorkerOthers ==
  ASSUME FilesInv, FilesInv', DownloadsOK, NEW w \in 0 .. Workers - 1, NEW t \in Transfers,
         WorkerMoves(w, t), crashed = None, crashed' \in {None, t},
         NEW s \in Transfers \ {t}, x[s].at # "none", x[s].key \notin muddled'
  PROVE  SameStage(s) /\ (Active(s)' => Active(s))
<1>1. /\ x' = x /\ ctl'[s] = ctl[s] /\ file'[s] = file[s] /\ Orderly(x[s].key)
      /\ \A v \in 0 .. Workers - 1 : v # w => wk'[v] = wk[v]
      /\ ~Serves(w, s) /\ ~Serves(w, s)'
  BY DEF WorkerMoves, Orderly, Serves
<1>2. s \in Started /\ x[s].on \in 0 .. Workers - 1
  BY KindOf DEF Started
<1>3. Stored(s)' <=> Stored(s)
  BY <1>1, Bounds DEF Stored, Unconnected, Waits
<1>4. Idle(s)' <=> Idle(s)
  BY <1>1, <1>2 DEF Idle, Serves
<1>5. ASSUME x[s].kind = "down", Served(s) PROVE FileOf(s)' = FileOf(s)
  <2>1. link[s].to = s
    BY <1>1, <1>5, Alive DEF Smooth, Served
  <2>2. ~(s = port[t].data \/ s \in ToSet(port[t].pend))
    BY <2>1 DEF FilesInv, DataInv, ConnectedOK
  <2>3. link'[s] = link[s]
    BY <2>2 DEF WorkerMoves
  <2> QED
    BY <1>1, <2>3 DEF FileOf
<1>6. ASSUME NEW v \in 0 .. Workers - 1, Fetches(v, s)'
      PROVE  Fetches(v, s) /\ wk'[v].f = wk[v].f
  BY <1>1, <1>6 DEF Fetches, Serves
<1>7. Active(s)' => Active(s)
  <2>1. DOMAIN wk = 0 .. Workers - 1
    BY StoredTables
  <2>2. DOMAIN wk' = 0 .. Workers - 1
    BY DEF FilesInv, TablesOK, SocketsOK
  <2>3. \A v \in 0 .. Workers - 1 : Serves(v, s)' => Serves(v, s)
    BY <1>1 DEF Serves
  <2> QED
    BY <1>1, <2>1, <2>2, <2>3 DEF Active, Serves
<1> QED
  BY <1>3, <1>4, <1>5, <1>6, <1>7 DEF SameStage, Served

\* A worker's step that changes no list, if it leaves its client at its stage.
LEMMA WorkerQuiet ==
  ASSUME FilesInv, FilesInv', DownloadsOK, HistoryOK,
         NEW w \in 0 .. Workers - 1, NEW t \in Transfers, WorkerMoves(w, t),
         crashed = None, crashed' \in {None, t},
         UNCHANGED <<paths, names, cache, chat>>, opened \subseteq opened',
         x[t].key \notin muddled' => SameStage(t) /\ (Active(t)' => Active(t))
  PROVE  HistoryOK'
<1>1. x' = x /\ muddled \subseteq muddled' /\ x[t].at # "none"
  BY DEF WorkerMoves
<1>2. SameThreads
  BY <1>1 DEF SameThreads
<1>3. \A s \in Transfers : x[s].at # "none" /\ x[s].key \notin muddled'
                             => SameStage(s) /\ (Active(s)' => Active(s))
  BY WorkerOthers
<1>4. \A k \in Keys : k \notin muddled' => SameStages(k)
  BY <1>3 DEF SameStages
<1>5. \A s \in Started : x[s].key \notin muddled' /\ Active(s)' => Active(s)
  BY <1>3 DEF Started
<1> QED
  BY <1>1, <1>2, <1>4, <1>5, QuietStays

\* The server opens a port for an orderly transfer.
LEMMA PasvLists ==
  ASSUME FilesInv, DownloadsOK, HistoryOK, NEW w \in 0 .. Workers - 1, NEW t \in Transfers,
         PASV(w, t)
  PROVE  DownloadsOK' /\ HistoryOK' /\ crashed' = crashed /\ crashed = None
<1>1. FilesInv' /\ WorkerMoves(w, t)
  BY PasvStep
<1>2. /\ x[t].at \notin {"none", "start"} /\ ctl[t] = << "PASV" >>
  <2>1. "PASV" \in Commands
    BY DEF Commands
  <2> QED
    BY <2>1, ReadsEffect DEF PASV
<1>3. /\ UNCHANGED <<paths, names, cache, chat, opened, crashed, muddled, x>> /\ crashed = None
  BY DEF PASV, redisVars, diskVars, chatVars, clientVars, Reads, Busy, Up
<1>4. wk'[w].at = "accept" /\ wk'[w].t = t
  BY StoredTables DEF PASV, Engage
<1>5. ASSUME x[t].key \notin muddled' PROVE SameStage(t) /\ (Active(t)' => Active(t))
  <2>1. x[t].at \in {"227", "dead"}
    BY <1>2, ThreadTypes DEF LineOK
  <2>2. x[t].at = "227"
    BY <1>3, <1>5, <2>1, Alive DEF Orderly
  <2>3. Unconnected(t) /\ Unconnected(t)'
    BY <1>3, <2>2 DEF Unconnected, Waits
  <2>4. \A v \in 0 .. Workers - 1 : Fetches(v, t)' => Fetches(v, t) /\ wk'[v].f = wk[v].f
    BY <1>1, <1>4 DEF WorkerMoves, Fetches
  <2> QED
    BY <2>2, <2>3, <2>4 DEF SameStage, Stored, Served, Active, Over
<1>6. HistoryOK'
  BY <1>1, <1>3, <1>5, WorkerQuiet
<1>7. DownloadsOK'
  BY <1>1, <1>3, PasvSmooth, WorkerDownloads
<1> QED
  BY <1>3, <1>6, <1>7

\* A worker is given the connection it waits for.
LEMMA AcceptLists ==
  ASSUME FilesInv, DownloadsOK, HistoryOK, NEW w \in 0 .. Workers - 1, accept_data(w)
  PROVE  DownloadsOK' /\ HistoryOK' /\ crashed' = crashed /\ crashed = None
<1>0. PICK t : t = wk[w].t
  OBVIOUS
<1>1. FilesInv' /\ WorkerMoves(w, t)
  BY <1>0, AcceptStep
<1>2. /\ UNCHANGED <<paths, names, cache, chat, opened, crashed, muddled, x, ctl>> /\ crashed = None
      /\ wk[w].at = "accept"
  BY DEF accept_data, redisVars, diskVars, chatVars, clientVars, Busy, Up
<1>3. t \in Transfers /\ Serves(w, t) /\ Active(t) /\ x[t].at # "none"
  <2>1. w \in DOMAIN wk
    BY StoredTables
  <2>2. t \in Transfers /\ x[t].at # "none"
    BY <1>0, <1>2, Serving
  <2> QED
    BY <1>0, <1>2, <2>1, <2>2 DEF Serves, Active
<1>4. wk'[w].at = "wait"
  BY StoredTables, FreeTask DEF accept_data, Return
<1>5. ASSUME x[t].key \notin muddled' PROVE SameStage(t)
  <2>1. Stored(t)' <=> Stored(t)
    BY <1>2 DEF Stored, Unconnected, Waits
  <2>2. x[t].kind = "down" => ~Stored(t)
    <3>1. x[t].kind = "down" => Smooth(t)
      BY <1>2, <1>3, <1>5 DEF DownloadsOK, Orderly
    <3> QED
      BY <1>0, <3>1, AcceptingDown
  <2>3. \A v \in 0 .. Workers - 1 : Fetches(v, t)' => Fetches(v, t) /\ wk'[v].f = wk[v].f
    BY <1>1, <1>4 DEF WorkerMoves, Fetches
  <2> QED
    BY <2>1, <2>2, <2>3 DEF SameStage, Served
<1>6. HistoryOK'
  BY <1>1, <1>2, <1>3, <1>5, WorkerQuiet
<1>7. DownloadsOK'
  BY <1>0, <1>1, <1>2, <1>3, AcceptSmooth, WorkerDownloads
<1> QED
  BY <1>2, <1>6, <1>7

\* A worker receives a chunk, or all of them.
LEMMA ReceivingLists ==
  ASSUME FilesInv, DownloadsOK, HistoryOK, NEW w \in 0 .. Workers - 1, recive_loop(w)
  PROVE  /\ DownloadsOK' /\ HistoryOK' /\ crashed = None
         /\ crashed' # None => crashed' \in Started /\ x'[crashed'].key \in muddled'
<1>0. PICK t, d : ServedBy(w, t, d)
  BY DEF ServedBy
<1>1. FilesInv' /\ WorkerMoves(w, t)
  BY SMTT(30), <1>0, ReciveLoopStep
<1>2. /\ UNCHANGED <<paths, names, cache, chat, opened, muddled, x, ctl>> /\ crashed = None
      /\ wk[w].at = "recv"
  BY DEF recive_loop, redisVars, chatVars, clientVars, Busy, Up
<1>3. t \in Transfers /\ Serves(w, t) /\ Active(t) /\ x[t].at # "none" /\ x[t].kind = "up"
  <2>0. t = wk[w].t
    BY <1>0 DEF ServedBy
  <2>1. w \in DOMAIN wk
    BY StoredTables
  <2>2. t \in Transfers /\ x[t].at # "none" /\ x[t].kind = "up"
    BY <1>2, <2>0, Serving
  <2> QED
    BY <1>2, <2>0, <2>1, <2>2 DEF Serves, Active
<1>4. crashed' = None \/ (crashed' = t /\ x[t].at = "dead")
  <2>1. UNCHANGED crashed \/ MayDie(t)
    BY <1>0, Zenon DEF recive_loop, ServedBy
  <2> QED
    BY <1>2, <2>1 DEF MayDie
<1>5. x[t].key \notin muddled' => x[t].at # "dead"
  BY <1>2, <1>3, Alive DEF Orderly
<1>6. x[t].key \notin muddled' => SameStage(t)
  BY <1>2, <1>3, <1>4, <1>5 DEF SameStage, Stored, Unconnected, Waits
<1>7. HistoryOK'
  BY <1>1, <1>2, <1>3, <1>4, <1>6, WorkerQuiet
<1>8. DownloadsOK'
  BY <1>1, <1>2, <1>3, WorkerDownloads
<1>9. crashed' # None => crashed' \in Started /\ x'[crashed'].key \in muddled'
  BY SMTT(30), <1>2, <1>3, <1>4, <1>5 DEF Started
<1> QED
  BY <1>2, <1>7, <1>8, <1>9

\* What is sent for an orderly download is the first path, of a whole file.
LEMMA SentWhole ==
  ASSUME FilesInv, DownloadsOK, HistoryOK, NEW w \in 0 .. Workers - 1,
         wk[w].at \in {"send", "lrem"}, NEW t, t = wk[w].t, Orderly(x[t].key), NEW k, k = x[t].key
  PROVE  /\ t \in Transfers /\ x[t].at # "none" /\ k \in Keys /\ t \in DownsOf(k) /\ Smooth(t)
         /\ x[t].kind = "down" /\ Serves(w, t) /\ Fetches(w, t) /\ Active(t)
         /\ paths[k] # << >> /\ wk[w].f = Head(paths[k]) /\ wk[w].f \in UploadsOf(k)
         /\ file[wk[w].f] = Whole(wk[w].f)
         /\ \A s \in Started : s # t /\ x[s].key = k => ~Active(s)
<1>1. t \in Transfers /\ x[t].at # "none" /\ x[t].kind = "down"
  BY Serving
<1>2. t \in Started /\ k \in Keys /\ t \in DownsOf(k) /\ Smooth(t)
  BY <1>1, Alive
<1>3. Serves(w, t) /\ Fetches(w, t) /\ Active(t)
  <2>1. w \in DOMAIN wk
    BY StoredTables
  <2> QED
    BY <2>1 DEF Serves, Fetches, Active
<1>4. PathsOK(k) /\ AloneOK
  BY SMTT(30), <1>2 DEF HistoryOK, KeysOK
<1>5. paths[k] # << >> /\ wk[w].f = Head(paths[k])
  BY SMTT(30), <1>2, <1>3, <1>4 DEF PathsOK
<1>6. wk[w].f \in UploadsOf(k)
  <2>1. paths[k] \in Seq(Transfers)
    BY <1>2, StoredTables
  <2>2. Head(paths[k]) \in ToSet(paths[k])
    BY <1>5, <2>1, HeadTailSet
  <2> QED
    BY <1>4, <1>5, <2>2 DEF PathsOK
<1>7. \A s \in Started : s # t /\ x[s].key = k => ~Active(s)
  BY <1>2, <1>3, <1>4, AloneActive
<1>8. file[wk[w].f] = Whole(wk[w].f)
  <2>1. wk[w].f \in Started /\ x[wk[w].f].kind = "up" /\ x[wk[w].f].key = k
    BY <1>6, OfKey
  <2>2. ~Active(wk[w].f)
    BY <1>1, <1>7, <2>1
  <2> QED
    BY <2>1, <2>2, Finished
<1> QED
  BY <1>1, <1>2, <1>3, <1>5, <1>6, <1>7, <1>8

\* A worker sends a chunk, or closes the connection.
LEMMA SendingLists ==
  ASSUME FilesInv, DownloadsOK, HistoryOK, NEW w \in 0 .. Workers - 1, send_loop(w)
  PROVE  /\ DownloadsOK' /\ HistoryOK' /\ crashed = None
         /\ crashed' # None => crashed' \in Started /\ x'[crashed'].key \in muddled'
<1>0. PICK t, d : ServedBy(w, t, d)
  BY DEF ServedBy
<1>1. FilesInv' /\ WorkerMoves(w, t)
  BY <1>0, SendLoopStep
<1>2. /\ UNCHANGED <<paths, names, cache, chat, opened, muddled, x, ctl>> /\ crashed = None
      /\ Busy(w, "send") /\ wk[w].at = "send"
  BY DEF send_loop, redisVars, diskVars, chatVars, clientVars, Busy, Up
<1>3. t = wk[w].t
  BY <1>0 DEF ServedBy
<1>4. t \in Transfers /\ Active(t) /\ x[t].at # "none" /\ x[t].kind = "down"
  <2>1. w \in DOMAIN wk
    BY StoredTables
  <2>2. t \in Transfers /\ x[t].at # "none" /\ x[t].kind = "down"
    BY <1>2, <1>3, Serving
  <2> QED
    BY <1>2, <1>3, <2>1, <2>2 DEF Active
<1>5. crashed' \in {None, t}
  <2>1. UNCHANGED crashed \/ crashed' \in {None, t} \/ MayDie(t)
    BY <1>3, Zenon DEF send_loop
  <2> QED
    BY <1>2, <2>1 DEF MayDie
<1>6. ASSUME x[t].key \notin muddled', Smooth(t)
      PROVE  Smooth(t)' /\ ~Idle(t)' /\ ~Idle(t) /\ crashed' = None
  <2>1. Orderly(x[t].key)
    BY <1>2, <1>6 DEF Orderly
  <2>2. file[wk[w].f] = Whole(wk[w].f)
    BY <1>2, <1>3, <2>1, SentWhole
  <2>3. ~Idle(t)
    BY <1>2, <1>3, <1>6, SendingDown
  <2> QED
    BY <1>3, <1>6, <2>2, <2>3, SendLoopSmooth DEF ClientOf
<1>7. ASSUME x[t].key \notin muddled' PROVE SameStage(t) /\ crashed' = None
  <2>1. Smooth(t)
    BY <1>2, <1>4, <1>7 DEF DownloadsOK, Orderly
  <2>2. ~Idle(t)' /\ ~Idle(t) /\ crashed' = None
    BY <1>6, <1>7, <2>1
  <2>3. Stored(t)' <=> Stored(t)
    BY <1>2, <2>2 DEF Stored, Unconnected, Waits
  <2>4. ASSUME NEW v \in 0 .. Workers - 1, Fetches(v, t)'
        PROVE  Fetches(v, t) /\ wk'[v].f = wk[v].f
    <3>1. CASE v = w
      <4>1. wk' = [wk EXCEPT ![w].pos = @ + 1] \/ wk' = [wk EXCEPT ![w].at = "lrem"]
        BY Zenon DEF send_loop
      <4>2. wk'[w] = [wk[w] EXCEPT !.pos = wk[w].pos + 1] \/ wk'[w] = [wk[w] EXCEPT !.at = "lrem"]
        BY <4>1, StoredTables
      <4>3. wk[w] \in Tasks
        BY StoredTables
      <4>4. wk'[w].f = wk[w].f
        BY <4>2, <4>3 DEF Tasks
      <4> QED
        BY <1>2, <1>3, <3>1, <4>4 DEF Fetches
    <3>2. CASE v # w
      BY <1>1, <2>4, <3>2 DEF Fetches, WorkerMoves
    <3> QED
      BY <3>1, <3>2
  <2> QED
    BY <2>2, <2>3, <2>4 DEF SameStage, Served
<1>8. HistoryOK'
  BY <1>1, <1>2, <1>4, <1>5, <1>7, WorkerQuiet
<1>9. DownloadsOK'
  BY <1>1, <1>2, <1>4, <1>6, WorkerDownloads DEF Orderly
<1>10. crashed' # None => crashed' \in Started /\ x'[crashed'].key \in muddled'
  BY <1>2, <1>4, <1>5, <1>7 DEF Started
<1> QED
  BY SMTT(30), <1>2, <1>8, <1>9, <1>10

-----------------------------------------------------------------------------
(* Sequences of requests and of names.                                     *)

\* The elements of a sequence ...
LEMMA Elements ==
  ASSUME NEW S, NEW q \in Seq(S)
  PROVE  /\ Len(q) \in Nat /\ DOMAIN q = 1 .. Len(q) /\ \A i \in 1 .. Len(q) : q[i] \in S
         /\ q # << >> => Len(q) > 0
BY LenProperties, ElementOfSeq, EmptySeq

\* ... those of its rest, and its first ...
LEMMA RestElements ==
  ASSUME NEW S, NEW q \in Seq(S), q # << >>
  PROVE  /\ Head(q) = q[1] /\ 1 \in 1 .. Len(q) /\ Head(q) \in S /\ Tail(q) \in Seq(S)
         /\ DOMAIN Tail(q) = 1 .. Len(q) - 1
         /\ \A i \in 1 .. Len(q) - 1 : Tail(q)[i] = q[i + 1] /\ i + 1 \in 1 .. Len(q)
         /\ ToSet(q) = {Head(q)} \cup ToSet(Tail(q))
<1>1. Len(q) \in Nat \ {0} /\ DOMAIN q = 1 .. Len(q)
  BY Elements
<1>2. /\ Head(q) = q[1] /\ Head(q) \in S /\ Tail(q) \in Seq(S) /\ Len(Tail(q)) = Len(q) - 1
      /\ \A i \in 1 .. Len(Tail(q)) : Tail(q)[i] = q[i + 1]
  BY HeadTailProperties
<1>3. DOMAIN Tail(q) = 1 .. Len(q) - 1
  BY <1>2, LenProperties
<1>4. ToSet(q) = {Head(q)} \cup ToSet(Tail(q))
  <2>1. ToSet(q) = {q[i] : i \in 1 .. Len(q)}
    BY <1>1 DEF ToSet
  <2>2. ToSet(Tail(q)) = {q[i + 1] : i \in 1 .. Len(q) - 1}
    BY <1>2, <1>3 DEF ToSet
  <2>3. ASSUME NEW e \in ToSet(q) PROVE e \in {Head(q)} \cup ToSet(Tail(q))
    <3>1. PICK i \in 1 .. Len(q) : e = q[i]
      BY <2>1
    <3>2. CASE i = 1
      BY <1>2, <3>1, <3>2
    <3>3. CASE i # 1
      <4>1. i - 1 \in 1 .. Len(q) - 1 /\ (i - 1) + 1 = i
        BY <1>1, <3>3
      <4> QED
        BY <2>2, <3>1, <4>1
    <3> QED
      BY <3>2, <3>3
  <2>4. ToSet(q) \subseteq {Head(q)} \cup ToSet(Tail(q))
    BY <2>3
  <2>5. \A i \in 1 .. Len(q) - 1 : i + 1 \in 1 .. Len(q)
    BY <1>1
  <2>6. {Head(q)} \cup ToSet(Tail(q)) \subseteq ToSet(q)
    BY <1>1, <1>2, <2>1, <2>2, <2>5
  <2> QED
    BY <2>4, <2>6
<1> QED
  BY <1>1, <1>2, <1>3, <1>4

\* ... and those of one that has grown by one.
LEMMA GrownElements ==
  ASSUME NEW S, NEW q \in Seq(S), NEW e \in S
  PROVE  /\ Append(q, e) \in Seq(S) /\ DOMAIN Append(q, e) = 1 .. Len(q) + 1
         /\ \A i \in 1 .. Len(q) : Append(q, e)[i] = q[i]
         /\ Append(q, e)[Len(q) + 1] = e
         /\ ToSet(Append(q, e)) = ToSet(q) \cup {e}
BY AppendProperties, LenProperties, ToSetAppend

\* A request is made ...
LEMMA RequestsAppend ==
  ASSUME NEW q \in Seq(Asks), NEW a \in Asks, NEW what, NEW k
  PROVE  /\ a.do = what /\ a.key = k =>
              Requests(Append(q, a), what, k) = Requests(q, what, k) \cup {a.name}
         /\ a.do # what \/ a.key # k =>
              Requests(Append(q, a), what, k) = Requests(q, what, k)
         /\ InTurn(q, what, k)
              /\ (a.do = what /\ a.key = k => \A m \in Requests(q, what, k) : m < a.name)
            => InTurn(Append(q, a), what, k)
<1> DEFINE z == Append(q, a)
<1>1. Len(q) \in Nat /\ DOMAIN q = 1 .. Len(q)
  BY Elements
<1>2. /\ DOMAIN z = 1 .. Len(q) + 1 /\ \A i \in 1 .. Len(q) : z[i] = q[i]
      /\ z[Len(q) + 1] = a /\ ToSet(z) = ToSet(q) \cup {a}
  BY GrownElements
<1> HIDE DEF z
<1>3. /\ a.do = what /\ a.key = k => Requests(z, what, k) = Requests(q, what, k) \cup {a.name}
      /\ a.do # what \/ a.key # k => Requests(z, what, k) = Requests(q, what, k)
  BY <1>2 DEF Requests
<1>4. ASSUME InTurn(q, what, k),
             a.do = what /\ a.key = k => \A m \in Requests(q, what, k) : m < a.name,
             NEW i \in DOMAIN z, NEW j \in DOMAIN z, i < j,
             z[i].do = what, z[i].key = k, z[j].do = what, z[j].key = k
      PROVE  z[i].name < z[j].name
  <2>1. i \in 1 .. Len(q)
    BY <1>1, <1>2, <1>4
  <2>2. CASE j \in 1 .. Len(q)
    BY <1>1, <1>2, <1>4, <2>1, <2>2 DEF InTurn
  <2>3. CASE j = Len(q) + 1
    <3>1. z[j] = a /\ z[i] = q[i] /\ q[i] \in ToSet(q)
      BY <1>1, <1>2, <2>1, <2>3 DEF ToSet
    <3>2. q[i].name \in Requests(q, what, k)
      BY <1>4, <3>1 DEF Requests
    <3> QED
      BY <1>4, <3>1, <3>2
  <2> QED
    BY <1>1, <1>2, <1>4, <2>2, <2>3
<1>5. InTurn(q, what, k)
         /\ (a.do = what /\ a.key = k => \A m \in Requests(q, what, k) : m < a.name)
        => InTurn(z, what, k)
  BY <1>4 DEF InTurn
<1> QED
  BY <1>3, <1>5 DEF z

\* ... and handled, the first of its kind first.
LEMMA RequestsTail ==
  ASSUME NEW q \in Seq(Asks), q # << >>, NEW a, a = Head(q), NEW what, NEW k
  PROVE  /\ a.do = what /\ a.key = k =>
              Requests(q, what, k) = Requests(Tail(q), what, k) \cup {a.name}
         /\ a.do # what \/ a.key # k =>
              Requests(Tail(q), what, k) = Requests(q, what, k)
         /\ InTurn(q, what, k) =>
              /\ InTurn(Tail(q), what, k)
              /\ a.do = what /\ a.key = k => \A m \in Requests(Tail(q), what, k) : a.name < m
<1> DEFINE z == Tail(q)
<1>1. Len(q) \in Nat /\ DOMAIN q = 1 .. Len(q)
  BY Elements
<1>2. /\ a = q[1] /\ 1 \in 1 .. Len(q) /\ DOMAIN z = 1 .. Len(q) - 1
      /\ \A i \in 1 .. Len(q) - 1 : z[i] = q[i + 1] /\ i + 1 \in 1 .. Len(q)
      /\ ToSet(q) = {a} \cup ToSet(z)
  BY RestElements
<1> HIDE DEF z
<1>3. /\ a.do = what /\ a.key = k => Requests(q, what, k) = Requests(z, what, k) \cup {a.name}
      /\ a.do # what \/ a.key # k => Requests(z, what, k) = Requests(q, what, k)
  BY <1>2 DEF Requests
<1>4. ASSUME InTurn(q, what, k) PROVE InTurn(z, what, k)
  <2> SUFFICES ASSUME NEW i \in DOMAIN z, NEW j \in DOMAIN z, i < j,
                      z[i].do = what, z[i].key = k, z[j].do = what, z[j].key = k
               PROVE  z[i].name < z[j].name
    BY DEF InTurn
  <2>1. /\ z[i] = q[i + 1] /\ z[j] = q[j + 1] /\ i + 1 < j + 1
        /\ i + 1 \in DOMAIN q /\ j + 1 \in DOMAIN q
    BY <1>1, <1>2
  <2> QED
    BY <1>4, <2>1 DEF InTurn
<1>5. ASSUME InTurn(q, what, k), a.do = what, a.key = k, NEW m \in Requests(z, what, k)
      PROVE  a.name < m
  <2>1. PICK i \in DOMAIN z : z[i].do = what /\ z[i].key = k /\ m = z[i].name
    BY <1>5 DEF Requests, ToSet
  <2>2. i + 1 \in DOMAIN q /\ 1 \in DOMAIN q /\ 1 < i + 1 /\ z[i] = q[i + 1]
    BY <1>1, <1>2, <2>1
  <2> QED
    BY <1>2, <1>5, <2>1, <2>2 DEF InTurn
<1> QED
  BY <1>3, <1>4, <1>5 DEF z

\* A greatest name is added, or the least one taken away.
LEMMA RisingAppend ==
  ASSUME NEW q \in Seq(Transfers), Rising(q), NEW n \in Transfers, \A m \in ToSet(q) : m < n
  PROVE  Rising(Append(q, n))
<1> DEFINE z == Append(q, n)
<1>1. Len(q) \in Nat /\ DOMAIN q = 1 .. Len(q)
  BY Elements
<1>2. DOMAIN z = 1 .. Len(q) + 1 /\ (\A i \in 1 .. Len(q) : z[i] = q[i]) /\ z[Len(q) + 1] = n
  BY GrownElements
<1> HIDE DEF z
<1>3. ASSUME NEW i \in DOMAIN z, NEW j \in DOMAIN z, i < j PROVE z[i] < z[j]
  <2>1. i \in 1 .. Len(q) /\ z[i] = q[i] /\ z[i] \in ToSet(q)
    BY <1>1, <1>2, <1>3 DEF ToSet
  <2>2. CASE j \in 1 .. Len(q)
    BY <1>1, <1>2, <1>3, <2>1, <2>2 DEF Rising
  <2>3. CASE j = Len(q) + 1
    BY <1>2, <2>1, <2>3
  <2> QED
    BY <1>1, <1>2, <1>3, <2>2, <2>3
<1>4. Rising(z)
  BY <1>3 DEF Rising
<1> QED
  BY <1>4 DEF z

\* ... and so are those that remain, of which the first is gone.
LEMMA RisingTail ==
  ASSUME NEW q \in Seq(Transfers), Rising(q), q # << >>
  PROVE  Rising(Tail(q)) /\ \A m \in ToSet(Tail(q)) : Head(q) < m
<1> DEFINE z == Tail(q)
<1>1. Len(q) \in Nat /\ DOMAIN q = 1 .. Len(q)
  BY Elements
<1>2. /\ Head(q) = q[1] /\ 1 \in 1 .. Len(q) /\ DOMAIN z = 1 .. Len(q) - 1
      /\ \A i \in 1 .. Len(q) - 1 : z[i] = q[i + 1] /\ i + 1 \in 1 .. Len(q)
  BY RestElements
<1> HIDE DEF z
<1>3. ASSUME NEW i \in DOMAIN z, NEW j \in DOMAIN z, i < j PROVE z[i] < z[j]
  <2>1. i + 1 \in DOMAIN q /\ j + 1 \in DOMAIN q /\ i + 1 < j + 1
    BY <1>1, <1>2, <1>3
  <2>2. q[i + 1] < q[j + 1]
    BY <2>1 DEF Rising
  <2> QED
    BY <1>2, <2>2
<1>4. ASSUME NEW m \in ToSet(z) PROVE Head(q) < m
  <2>1. PICK i \in DOMAIN z : m = z[i]
    BY <1>4 DEF ToSet
  <2>2. i + 1 \in DOMAIN q /\ 1 \in DOMAIN q /\ 1 < i + 1
    BY <1>1, <1>2
  <2>3. q[1] < q[i + 1]
    BY <2>2 DEF Rising
  <2> QED
    BY <1>2, <2>1, <2>3
<1>5. Rising(z)
  BY <1>3 DEF Rising
<1> QED
  BY <1>4, <1>5 DEF z

\* What is removed is the first element, if it is looked for.
LEMMA RemoveHead ==
  ASSUME NEW S, NEW q \in Seq(S), q # << >>, NEW e
  PROVE  /\ e = Head(q) => RemoveFirst(q, e) = Tail(q)
         /\ RemoveFirst(q, e) \in Seq(S) /\ ToSet(RemoveFirst(q, e)) \subseteq ToSet(q)
<1>1. CASE ~\E i \in 1 .. Len(q) : q[i] = e
  <2>1. RemoveFirst(q, e) = q
    BY <1>1 DEF RemoveFirst
  <2>2. Head(q) = q[1] /\ 1 \in 1 .. Len(q)
    BY RestElements
  <2> QED
    BY <1>1, <2>1, <2>2
<1>2. CASE \E i \in 1 .. Len(q) : q[i] = e
  <2> DEFINE I == {i \in 1 .. Len(q) : q[i] = e}
             n == CHOOSE i \in I : \A j \in I : i <= j
  <2>1. Len(q) \in Nat /\ DOMAIN q = 1 .. Len(q) /\ \A i \in 1 .. Len(q) : q[i] \in S
    BY Elements
  <2>2. I \in SUBSET Nat /\ I # {}
    BY <1>2, <2>1
  <2>3. n \in I /\ \A j \in I : n <= j
    <3> HIDE DEF I
    <3> QED
      BY <2>2, LeastExists
  <2>4. RemoveFirst(q, e) = SubSeq(q, 1, n - 1) \o SubSeq(q, n + 1, Len(q))
    BY <1>2, <2>2 DEF RemoveFirst, RemoveAt, SelectInSeq, Min
  <2>5. n \in 1 .. Len(q) /\ (e = q[1] => n = 1)
    <3>1. n \in 1 .. Len(q)
      BY <2>3
    <3>2. e = q[1] => 1 \in I
      BY <2>1, <3>1
    <3>3. e = q[1] => n <= 1
      BY <2>3, <3>2
    <3> HIDE DEF n
    <3> QED
      BY <3>1, <3>3
  <2> HIDE DEF n
  <2> DEFINE l == SubSeq(q, 1, n - 1)
             r == SubSeq(q, n + 1, Len(q))
  <2>6. /\ l \in Seq(S) /\ Len(l) = n - 1 /\ \A i \in 1 .. n - 1 : l[i] = q[i]
    <3>1. \A i \in 1 .. (n - 1) : q[i] \in S
      BY <2>1, <2>5
    <3>2. /\ l \in Seq(S) /\ Len(l) = IF 1 <= n - 1 THEN (n - 1) - 1 + 1 ELSE 0
          /\ \A i \in 1 .. (n - 1) - 1 + 1 : l[i] = q[1 + i - 1]
      BY <2>5, <3>1, SubSeqProperties
    <3> HIDE DEF l
    <3> QED
      BY <2>1, <2>5, <3>2
  <2>7. /\ r \in Seq(S) /\ Len(r) = Len(q) - n /\ \A i \in 1 .. Len(q) - n : r[i] = q[n + i]
    <3>1. \A i \in (n + 1) .. Len(q) : q[i] \in S
      BY <2>1, <2>5
    <3>2. /\ r \in Seq(S) /\ Len(r) = IF n + 1 <= Len(q) THEN Len(q) - (n + 1) + 1 ELSE 0
          /\ \A i \in 1 .. Len(q) - (n + 1) + 1 : r[i] = q[n + 1 + i - 1]
      BY <2>1, <2>5, <3>1, SubSeqProperties
    <3> HIDE DEF r
    <3>3. Len(r) = Len(q) - n
      <4>1. CASE n + 1 <= Len(q)
        <5>1. Len(r) = Len(q) - (n + 1) + 1
          BY <3>2, <4>1
        <5>2. \A i, j \in Nat : i - (j + 1) + 1 = i - j
          OBVIOUS
        <5>3. n \in Nat /\ Len(q) \in Nat
          BY <2>1, <2>5
        <5> QED
          BY <5>1, <5>2, <5>3, Zenon
      <4>2. CASE ~(n + 1 <= Len(q))
        <5>1. Len(r) = 0
          BY <3>2, <4>2
        <5>2. \A i \in Nat : \A j \in 1 .. i : ~(j + 1 <= i) => 0 = i - j
          OBVIOUS
        <5> QED
          BY <2>1, <2>5, <4>2, <5>1, <5>2, Zenon
      <4> QED
        BY <4>1, <4>2
    <3>4. ASSUME NEW i \in 1 .. Len(q) - n PROVE r[i] = q[n + i]
      <4>1. i \in 1 .. Len(q) - (n + 1) + 1 /\ n + 1 + i - 1 = n + i
        BY <2>1, <2>5
      <4> QED
        BY <3>2, <4>1
    <3> QED
      BY <3>2, <3>3, <3>4
  <2> HIDE DEF l, r
  <2>8. /\ l \o r \in Seq(S) /\ Len(l \o r) = Len(q) - 1
        /\ \A i \in 1 .. Len(q) - 1 : (l \o r)[i] = IF i < n THEN q[i] ELSE q[i + 1]
    <3>1. /\ l \o r \in Seq(S) /\ Len(l \o r) = Len(l) + Len(r)
          /\ \A i \in 1 .. Len(l) + Len(r) :
               (l \o r)[i] = IF i <= Len(l) THEN l[i] ELSE r[i - Len(l)]
      BY <2>6, <2>7, ConcatProperties
    <3>2. Len(l \o r) = Len(q) - 1
      BY <2>1, <2>5, <2>6, <2>7, <3>1
    <3>3. ASSUME NEW i \in 1 .. Len(q) - 1
          PROVE  (l \o r)[i] = IF i < n THEN q[i] ELSE q[i + 1]
      <4>1. (l \o r)[i] = IF i <= n - 1 THEN l[i] ELSE r[i - (n - 1)]
        BY <2>1, <2>5, <2>6, <2>7, <3>1
      <4>2. CASE i < n
        <5>1. i <= n - 1 /\ i \in 1 .. n - 1
          BY <2>1, <2>5, <4>2
        <5> QED
          BY <2>6, <4>1, <4>2, <5>1
      <4>3. CASE ~(i < n)
        <5>1. ~(i <= n - 1) /\ i - (n - 1) \in 1 .. Len(q) - n /\ n + (i - (n - 1)) = i + 1
          BY <2>1, <2>5, <4>3
        <5> QED
          BY <2>7, <4>1, <4>3, <5>1
      <4> QED
        BY <4>2, <4>3
    <3> QED
      BY <3>1, <3>2, <3>3
  <2> DEFINE z == l \o r
  <2>9. z = RemoveFirst(q, e)
    BY <2>4 DEF l, r
  <2> HIDE DEF z
  <2>10. /\ z \in Seq(S) /\ Len(z) = Len(q) - 1
         /\ \A i \in 1 .. Len(q) - 1 : z[i] = IF i < n THEN q[i] ELSE q[i + 1]
    BY <2>8 DEF z
  <2>11. ToSet(z) \subseteq ToSet(q)
    <3> SUFFICES ASSUME NEW m \in ToSet(z) PROVE m \in ToSet(q)
      OBVIOUS
    <3>1. PICK i \in 1 .. Len(q) - 1 : m = z[i]
      BY <2>10, Elements DEF ToSet
    <3>2. i \in 1 .. Len(q) /\ i + 1 \in 1 .. Len(q)
      BY <2>1
    <3> QED
      BY <2>1, <2>10, <3>1, <3>2 DEF ToSet
  <2>12. ASSUME e = Head(q) PROVE z = Tail(q)
    <3>1. /\ Head(q) = q[1] /\ Tail(q) \in Seq(S) /\ Len(Tail(q)) = Len(q) - 1
          /\ \A i \in 1 .. Len(q) - 1 : Tail(q)[i] = q[i + 1]
      BY HeadTailProperties
    <3>2. n = 1
      BY <2>5, <2>12, <3>1
    <3>3. \A i \in 1 .. Len(z) : z[i] = Tail(q)[i]
      BY <2>1, <2>10, <3>1, <3>2
    <3> QED
      BY <2>10, <3>1, <3>3, SeqEqual
  <2> QED
    BY <2>9, <2>10, <2>11, <2>12
<1> QED
  BY <1>1, <1>2

\* Two rising sequences of the same names are the same.
LEMMA RisingSame ==
  ASSUME NEW q \in Seq(Transfers), NEW z \in Seq(Transfers), Rising(q), Rising(z),
         ToSet(q) = ToSet(z)
  PROVE  q = z
<1>1. /\ Len(q) \in Nat /\ DOMAIN q = 1 .. Len(q) /\ \A i \in 1 .. Len(q) : q[i] \in Transfers
      /\ Len(z) \in Nat /\ DOMAIN z = 1 .. Len(z) /\ \A i \in 1 .. Len(z) : z[i] \in Transfers
  BY Elements
<1>2. Transfers \subseteq Nat
  BY Bounds
<1> DEFINE Differs(n) == n \notin DOMAIN q \/ n \notin DOMAIN z \/ q[n] # z[n]
           I == {n \in Nat \ {0} : (n \in DOMAIN q \/ n \in DOMAIN z) /\ Differs(n)}
<1>3. CASE I = {}
  <2>1. \A n \in Nat \ {0} : n \in DOMAIN q \/ n \in DOMAIN z => n \in DOMAIN q /\ n \in DOMAIN z /\ q[n] = z[n]
    BY <1>3
  <2>2. \A n \in 1 .. Len(q) : n \in 1 .. Len(z) /\ q[n] = z[n]
    BY <1>1, <2>1
  <2>3. \A n \in 1 .. Len(z) : n \in 1 .. Len(q)
    BY <1>1, <2>1
  <2>4. Len(q) = Len(z)
    <3>1. Len(q) > 0 => Len(q) <= Len(z)
      <4>1. Len(q) > 0 => Len(q) \in 1 .. Len(q)
        BY <1>1
      <4>2. Len(q) > 0 => Len(q) \in 1 .. Len(z)
        BY <2>2, <4>1
      <4> QED
        BY <1>1, <4>2
    <3>2. Len(z) > 0 => Len(z) <= Len(q)
      <4>1. Len(z) > 0 => Len(z) \in 1 .. Len(z)
        BY <1>1
      <4>2. Len(z) > 0 => Len(z) \in 1 .. Len(q)
        BY <2>3, <4>1
      <4> QED
        BY <1>1, <4>2
    <3>3. \A i, j \in Nat : (i > 0 => i <= j) /\ (j > 0 => j <= i) => i = j
      OBVIOUS
    <3> QED
      BY <1>1, <3>1, <3>2, <3>3, Zenon
  <2> QED
    BY <2>2, <2>4, SeqEqual
<1>4. CASE I # {}
  <2>1. I \in SUBSET Nat
    OBVIOUS
  <2>2. PICK n \in I : \A m \in I : n <= m
    <3> HIDE DEF I
    <3> QED
      BY <1>4, <2>1, LeastExists
  <2>3. \A m \in Nat \ {0} : m < n => (m \in DOMAIN q <=> m \in DOMAIN z)
                                       /\ (m \in DOMAIN q => q[m] = z[m])
    <3>1. n \in Nat
      BY <2>2
    <3>2. ASSUME NEW m \in Nat \ {0}, m < n PROVE m \notin I
      <4> HIDE DEF I
      <4> QED
        BY <2>2, <3>1, <3>2
    <3> QED
      BY <3>2
  \* The n-th of one sequence is not in the other.
  <2>4. ASSUME NEW g \in Seq(Transfers), NEW h \in Seq(Transfers), Rising(g), Rising(h),
               n \in DOMAIN g, n \notin DOMAIN h \/ g[n] < h[n],
               \A m \in Nat \ {0} : m < n => (m \in DOMAIN g <=> m \in DOMAIN h)
                                              /\ (m \in DOMAIN g => g[m] = h[m])
        PROVE  ToSet(g) # ToSet(h)
    <3>1. /\ DOMAIN g = 1 .. Len(g) /\ Len(g) \in Nat /\ \A i \in 1 .. Len(g) : g[i] \in Nat
          /\ DOMAIN h = 1 .. Len(h) /\ Len(h) \in Nat /\ \A i \in 1 .. Len(h) : h[i] \in Nat
      BY Elements, Bounds
    <3>2. g[n] \in ToSet(g)
      BY <2>4 DEF ToSet
    <3>3. ASSUME NEW m \in DOMAIN h PROVE h[m] # g[n]
      <4>1. CASE m < n
        <5>1. m \in DOMAIN g /\ g[m] = h[m]
          BY <2>4, <3>1, <3>3, <4>1
        <5>2. g[m] < g[n]
          BY <2>4, <4>1, <5>1 DEF Rising
        <5> QED
          BY <2>4, <3>1, <5>1, <5>2
      <4>2. CASE m = n
        BY <2>4, <3>1, <3>3, <4>2
      <4>3. CASE n < m
        <5>1. n \in DOMAIN h
          BY <2>4, <3>1, <3>3, <4>3
        <5>2. g[n] < h[n] /\ h[n] < h[m]
          BY <2>4, <3>3, <4>3, <5>1 DEF Rising
        <5> QED
          BY <2>4, <3>1, <3>3, <5>1, <5>2
      <4> QED
        BY <2>4, <3>1, <3>3, <4>1, <4>2, <4>3
    <3>4. g[n] \notin ToSet(h)
      BY <3>3 DEF ToSet
    <3> QED
      BY <3>2, <3>4
  <2>5. n \in DOMAIN q \/ n \in DOMAIN z
    BY <2>2
  <2>6. \/ n \in DOMAIN q /\ (n \notin DOMAIN z \/ q[n] < z[n])
        \/ n \in DOMAIN z /\ (n \notin DOMAIN q \/ z[n] < q[n])
    <3>1. Differs(n)
      BY <2>2
    <3>2. n \in DOMAIN q => q[n] \in Nat
      BY <1>1, <1>2
    <3>3. n \in DOMAIN z => z[n] \in Nat
      BY <1>1, <1>2
    <3>4. \A i, j \in Nat : i # j => i < j \/ j < i
      OBVIOUS
    <3>5. CASE n \in DOMAIN q /\ n \in DOMAIN z
      <4>1. q[n] # z[n]
        BY <3>1, <3>5
      <4>2. q[n] < z[n] \/ z[n] < q[n]
        BY <3>2, <3>3, <3>4, <3>5, <4>1, Zenon
      <4> QED
        BY <3>5, <4>2, Zenon
    <3> QED
      BY <2>5, <3>5, Zenon
  <2>7. n \in DOMAIN q /\ (n \notin DOMAIN z \/ q[n] < z[n]) => ToSet(q) # ToSet(z)
    BY <2>3, <2>4
  <2>8. n \in DOMAIN z /\ (n \notin DOMAIN q \/ z[n] < q[n]) => ToSet(z) # ToSet(q)
    BY <2>3, <2>4
  <2> QED
    BY <2>6, <2>7, <2>8
<1> QED
  BY <1>3, <1>4

-----------------------------------------------------------------------------
(* The steps of the workers that change the paths.                         *)

\* Paths of other keys, and what was fetched of them, stay.
LEMMA OtherKeys ==
  ASSUME FilesInv, FilesInv', DownloadsOK, HistoryOK,
         NEW w \in 0 .. Workers - 1, NEW t \in Transfers, WorkerMoves(w, t),
         crashed = None, crashed' \in {None, t}, opened \subseteq opened',
         NEW k \in Keys, k # x[t].key, k \notin muddled', paths'[k] = paths[k]
  PROVE  PathsOK(k)' /\ (ToFriend(k) => FetchedOK(k)')
<1>1. x' = x /\ muddled \subseteq muddled'
  BY DEF WorkerMoves
<1>2. SameThreads
  BY <1>1 DEF SameThreads
<1>3. SameStages(k)
  BY WorkerOthers DEF SameStages
<1>4. PathsOK(k) /\ (ToFriend(k) => FetchedOK(k))
  BY <1>1 DEF HistoryOK, KeysOK, Orderly
<1>5. PathsOK(k)'
  BY <1>2, <1>3, <1>4, PathsStay
<1>6. FetchedOK(k) => FetchedOK(k)'
  BY <1>2, <1>3, FetchedStays
<1> QED
  BY <1>4, <1>5, <1>6

\* What has been seen of a worker's step once the paths of its client's key are.
LEMMA WorkerLists ==
  ASSUME FilesInv, FilesInv', DownloadsOK, HistoryOK,
         NEW w \in 0 .. Workers - 1, NEW t \in Transfers, WorkerMoves(w, t),
         crashed = None, crashed' \in {None, t}, UNCHANGED <<names, cache, chat>>,
         opened \subseteq opened', NEW k, k = x[t].key,
         \A l \in Keys \ {k} : paths'[l] = paths[l],
         k \notin muddled' => /\ PathsOK(k)' /\ (ToFriend(k) => FetchedOK(k)')
                             /\ (Active(t)' => Active(t))
  PROVE  HistoryOK'
<1>1. x' = x /\ muddled \subseteq muddled' /\ x[t].at # "none"
  BY DEF WorkerMoves
<1>2. SameThreads
  BY <1>1 DEF SameThreads
<1>3. ASSUME NEW l \in Keys, l \notin muddled'
      PROVE  PathsOK(l)' /\ (ToFriend(l) => FetchedOK(l)')
  <2>1. CASE l = k
    BY <1>3, <2>1
  <2>2. CASE l # k
    BY <1>3, <2>2, OtherKeys
  <2> QED
    BY <2>1, <2>2
<1>4. \A s \in Started : x[s].key \notin muddled' /\ Active(s)' => Active(s)
  BY WorkerOthers DEF Started
<1> QED
  BY <1>1, <1>2, <1>3, <1>4, WorkStays

\* An upload's path is the last of its key (Dataconnect.cc:166-190).
LEMMA StoringPaths ==
  ASSUME FilesInv, DownloadsOK, HistoryOK,
         NEW t \in Transfers, NEW k \in Keys, t \in UploadsOf(k), Orderly(k), Active(t),
         ~Stored(t), Stored(t)', x' = x, paths'[k] = Append(paths[k], t),
         t \in opened', opened \subseteq opened',
         \A s \in Transfers \ {t} : x[s].at # "none" /\ x[s].key = k => SameStage(s)
  PROVE  PathsOK(k)' /\ (FetchedOK(k) => FetchedOK(k)')
<1>1. PathsOK(k) /\ AloneOK /\ NamedOK
  BY DEF HistoryOK, KeysOK
<1>2. SameThreads
  BY DEF SameThreads
<1>3. UploadsOf(k)' = UploadsOf(k) /\ DownsOf(k)' = DownsOf(k)
  BY <1>2, SameSets
<1>4. t \in Started /\ x[t].key = k
  BY OfKey
<1>5. \A s \in UploadsOf(k) \ {t} : s \in Started /\ SameStage(s) /\ s < t /\ ~Active(s)
  BY <1>1, <1>4, OfKey, AloneActive
<1>6. \A d \in DownsOf(k) : /\ d \in Started /\ SameStage(d) /\ d < t /\ ~Active(d)
                            /\ x[d].kind = "down"
  <2>1. \A d \in DownsOf(k) : d # t
    BY OfKey
  <2> QED
    BY <1>1, <1>4, <2>1, OfKey, KindOf, AloneActive
<1>7. \A s \in UploadsOf(k) \ {t} : Stored(s)' <=> Stored(s)
  BY <1>5 DEF SameStage
<1>8. \A d \in DownsOf(k) : /\ Served(d)' <=> Served(d)
                            /\ Served(d) => FileOf(d)' = FileOf(d)
  BY <1>6 DEF SameStage
<1>9. \A v \in 0 .. Workers - 1, d \in DownsOf(k) : ~Fetches(v, d)'
  <2>1. \A d \in DownsOf(k) : Orderly(x[d].key)
    BY OfKey
  <2>2. \A v \in 0 .. Workers - 1, d \in DownsOf(k) : ~Fetches(v, d)
    BY <1>6, <2>1, Finished
  <2> QED
    BY <1>6, <2>2 DEF SameStage
<1>10. /\ paths[k] \in Seq(Transfers) /\ ToSet(paths[k]) \subseteq UploadsOf(k) \ {t}
       /\ \A m \in ToSet(paths[k]) : Stored(m)
  <2>1. ToSet(paths[k]) \subseteq {s \in UploadsOf(k) : Stored(s)}
    BY <1>1 DEF PathsOK
  <2> QED
    BY <2>1, StoredTables
<1>11. ToSet(paths'[k]) = ToSet(paths[k]) \cup {t}
  BY <1>10, GrownElements
<1>12. Rising(paths[k])'
  <2>1. \A m \in ToSet(paths[k]) : m < t
    BY <1>5, <1>10
  <2>2. Rising(Append(paths[k], t))
    BY <1>1, <1>10, <2>1, RisingAppend DEF PathsOK
  <2> QED
    BY <2>2 DEF Rising
<1>13. ToSet(paths'[k]) \subseteq {s \in UploadsOf(k) : Stored(s)'}
  BY <1>7, <1>10, <1>11
<1>14. \A s \in UploadsOf(k) : Stored(s)' => s \in opened'
  BY <1>1, <1>7 DEF PathsOK
<1>15. ASSUME NEW s \in UploadsOf(k), Stored(s)', s \notin ToSet(paths'[k])
       PROVE  \E d \in DownsOf(k) : Served(d)' /\ FileOf(d)' = Whole(s)
  <2>1. s # t /\ Stored(s) /\ s \notin ToSet(paths[k])
    BY <1>7, <1>11, <1>15
  <2>2. PICK d \in DownsOf(k) : Served(d) /\ FileOf(d) = Whole(s)
    BY <1>1, <2>1 DEF PathsOK
  <2> QED
    BY <1>8, <2>2
<1>16. PathsOK(k)'
  BY <1>1, <1>3, <1>9, <1>12, <1>13, <1>14, <1>15 DEF PathsOK, Whole
<1>17. ASSUME FetchedOK(k) PROVE FetchedOK(k)'
  <2>1. ASSUME NEW s \in UploadsOf(k), Stored(s)'
        PROVE  s \notin ToSet(paths'[k]) <=> \E d \in DownsOf(k) : Served(d)' /\ x[d].name = s
    <3>1. CASE s = t
      <4>1. ASSUME NEW d \in DownsOf(k) PROVE x[d].name # t
        <5>1. d \in Downs /\ d \in Nat /\ t \in Nat
          BY OfKey, Bounds
        <5>2. x[d].name < d /\ d < t /\ x[d].name \in Nat
          BY <1>1, <1>6, <5>1, KindOf, Bounds DEF NamedOK
        <5> QED
          BY <5>1, <5>2
      <4> QED
        BY <1>11, <3>1, <4>1
    <3>2. CASE s # t
      BY <1>7, <1>8, <1>11, <1>17, <2>1, <3>2 DEF FetchedOK
    <3> QED
      BY <3>1, <3>2
  <2>2. \A d \in DownsOf(k) : Served(d)' => FileOf(d)' = Whole(x[d].name)
    BY <1>8, <1>17 DEF FetchedOK
  <2> QED
    BY <1>3, <1>9, <2>1, <2>2 DEF FetchedOK, Whole
<1> QED
  BY <1>16, <1>17

\* A path is filed, and the file opened or not (Dataconnect.cc:115-128, 166-190).
LEMMA StorLists ==
  ASSUME FilesInv, DownloadsOK, HistoryOK, NEW w \in 0 .. Workers - 1, NEW t \in Transfers,
         STOR(w, t)
  PROVE  DownloadsOK' /\ HistoryOK' /\ crashed' = crashed /\ crashed = None
<1>0. PICK k : k = x[t].key
  OBVIOUS
<1>1. FilesInv' /\ WorkerMoves(w, t)
  BY StorStep
<1>2. Reads(w, t, "STOR")
  BY DEF STOR
<1>3. /\ wk[w].at = "wait" /\ crashed = None /\ x[t].at \in {"150", "dead"}
      /\ ctl'[t] = << >> /\ ~Stored(t) /\ x[t] \in Threads /\ x[t].kind = "up"
  BY <1>2, CommandRead
<1>4. UNCHANGED <<names, cache, chat, crashed, x>>
  BY Zenon DEF STOR, chatVars, clientVars
<1>5. paths' = [paths EXCEPT ![k] = Append(@, x[t].name)]
  BY <1>0, Zenon DEF STOR
<1>6. \/ /\ opened' = opened \cup {x[t].name}
         /\ Engage(w, "recv", t, x[t].name)
      \/ muddled' = muddled \cup {k} /\ UNCHANGED opened
  BY <1>0, Zenon DEF STOR
<1>7. x[t].name = t /\ k \in Keys /\ x[t].at # "none" /\ t \in Started
  <2>1. x[t].at # "none" /\ k \in Keys
    BY <1>0, <1>3 DEF Threads
  <2> QED
    BY <1>3, <2>1, ThreadTypes DEF LineOK, Started
<1>8. opened \subseteq opened' /\ \A l \in Keys \ {k} : paths'[l] = paths[l]
  BY <1>5, <1>6, StoredTables
<1>9. ASSUME k \notin muddled'
      PROVE  /\ PathsOK(k)' /\ (ToFriend(k) => FetchedOK(k)')
             /\ (Active(t)' => Active(t))
  <2>1. Orderly(k) /\ Orderly(x[t].key)
    BY <1>0, <1>1, <1>9 DEF WorkerMoves, Orderly
  <2>2. t \in UploadsOf(k) /\ x[t].at = "150"
    BY <1>0, <1>3, <1>7, <2>1, Alive
  <2>3. Active(t)
    BY <2>2 DEF Active, Over
  <2>4. Stored(t)'
    <3>1. t # None
      BY Bounds
    <3> QED
      BY <1>3, <1>4, <2>2, <3>1 DEF Stored, Unconnected, Waits
  <2>5. paths'[k] = Append(paths[k], t) /\ t \in opened'
    <3>1. k \notin muddled'
      BY <1>9
    <3> QED
      BY <1>5, <1>6, <1>7, <3>1, StoredTables
  <2>6. \A s \in Transfers \ {t} : x[s].at # "none" /\ x[s].key = k => SameStage(s)
    BY <1>1, <1>3, <1>4, <1>9, WorkerOthers
  <2>7. PathsOK(k)' /\ (FetchedOK(k) => FetchedOK(k)')
    BY <1>3, <1>4, <1>7, <1>8, <2>1, <2>2, <2>3, <2>4, <2>5, <2>6, StoringPaths
  <2>8. ToFriend(k) => FetchedOK(k)
    BY <1>7, <2>1 DEF HistoryOK, KeysOK
  <2> QED
    BY <2>3, <2>7, <2>8
<1>10. HistoryOK'
  BY <1>0, <1>1, <1>3, <1>4, <1>8, <1>9, WorkerLists
<1>11. DownloadsOK'
  BY <1>1, <1>3, WorkerDownloads
<1> QED
  BY <1>3, <1>4, <1>10, <1>11

\* A download that a friend has asked for and that is not served yet is of the
\* first path, if it is active.
LEMMA AsksFirst ==
  ASSUME FilesInv, DownloadsOK, HistoryOK, crashed = None,
         NEW t, NEW k \in Keys, t \in DownsOf(k), Orderly(k), Active(t), ~Served(t), ToFriend(k)
  PROVE  paths[k] # << >> /\ Head(paths[k]) = x[t].name
<1> DEFINE n == x[t].name
<1>1. PathsOK(k) /\ NamesOK(k) /\ FetchedOK(k) /\ AloneOK /\ NamedOK
  BY DEF HistoryOK, KeysOK
<1>2. t \in Started /\ t \in Downs /\ x[t].key = k
  BY OfKey
<1>3. n \in UploadsOf(k) /\ n \in Taken(k)
  BY <1>1, <1>2 DEF NamedOK, Taken
<1>4. ASSUME NEW s \in Started, s # t, x[s].key = k
      PROVE  ~Active(s) /\ Stored(s) /\ Idle(s)
  <2>1. ~Active(s)
    BY <1>1, <1>2, <1>4, AloneActive
  <2>2. ctl[s] = << >> /\ ~Unconnected(s) /\ Idle(s)
    BY <1>4, <2>1, Finished
  <2>3. s # None
    BY Bounds DEF Started
  <2> QED
    BY <2>1, <2>2, <2>3 DEF Stored
<1>5. \A d \in DownsOf(k) \ {t} : Served(d)
  BY <1>4, OfKey DEF Served
<1>6. \A m \in UploadsOf(k) : Stored(m) /\ m # t
  <2>1. \A m \in UploadsOf(k) : m # t
    BY <1>2 DEF UploadsOf, Downs
  <2> QED
    BY <1>4, <2>1, OfKey
<1>7. \A d \in DownsOf(k) : d # t => x[d].name # n
  <2>1. Audience[k[2]] = {k[2]}
    BY FilesAssumption DEF ToFriend, Keys
  <2>2. \A d \in DownsOf(k) : x[d].by = k[2]
    BY <1>1, <2>1, OfKey DEF NamedOK
  <2> QED
    BY <1>1, <2>2 DEF PathsOK
<1>8. n \in ToSet(paths[k])
  <2>1. n \notin ToSet(paths[k]) => \E d \in DownsOf(k) : Served(d) /\ x[d].name = n
    BY <1>1, <1>3, <1>6 DEF FetchedOK
  <2> QED
    BY <1>7, <2>1
<1>9. paths[k] \in Seq(Transfers) /\ paths[k] # << >>
  BY <1>8, ToSetEmpty, StoredTables
<1>10. PICK h : h = Head(paths[k])
  OBVIOUS
<1>11. h \in ToSet(paths[k]) /\ h \in UploadsOf(k)
  <2>1. h \in ToSet(paths[k])
    BY <1>9, <1>10, HeadTailSet
  <2> QED
    BY <1>1, <2>1 DEF PathsOK
<1>12. h = n
  <2> SUFFICES ASSUME h # n PROVE FALSE
    OBVIOUS
  <2>1. ToSet(paths[k]) = {h} \cup ToSet(Tail(paths[k]))
    BY <1>9, <1>10, RestElements
  <2>2. h < n
    <3>1. n \in ToSet(Tail(paths[k]))
      BY <1>8, <2>1
    <3>2. Rising(paths[k])
      BY <1>1 DEF PathsOK
    <3> QED
      BY <1>9, <1>10, <3>1, <3>2, RisingTail
  <2>3. h \in Taken(k)
    BY <1>1, <1>3, <1>11, <2>2 DEF NamesOK
  <2>4. PICK d \in DownsOf(k) : x[d].name = h
    BY <2>3 DEF Taken
  <2>5. Served(d)
    BY <1>5, <2>4
  <2> QED
    BY <1>1, <1>6, <1>11, <2>4, <2>5 DEF FetchedOK
<1> QED
  BY <1>9, <1>10, <1>12

\* The first path is sent (Dataconnect.cc:66-86).
LEMMA FetchingPaths ==
  ASSUME FilesInv, DownloadsOK, HistoryOK, crashed = None, NEW w \in 0 .. Workers - 1,
         NEW t, NEW k \in Keys, t \in DownsOf(k), Orderly(k), Active(t), x[t].on = w,
         ~Stored(t), Stored(t)', x' = x, opened' = opened,
         paths[k] # << >>, paths'[k] = paths[k],
         wk'[w].at = "send", wk'[w].t = t, wk'[w].f = Head(paths[k]),
         \A v \in (0 .. Workers - 1) \ {w} : wk'[v] = wk[v],
         \A s \in Transfers \ {t} : x[s].at # "none" /\ x[s].key = k => SameStage(s)
  PROVE  PathsOK(k)' /\ (ToFriend(k) => FetchedOK(k)')
<1>1. PathsOK(k) /\ (ToFriend(k) => FetchedOK(k)) /\ AloneOK
  BY DEF HistoryOK, KeysOK
<1>2. SameThreads
  BY DEF SameThreads
<1>3. UploadsOf(k)' = UploadsOf(k) /\ DownsOf(k)' = DownsOf(k)
  BY <1>2, SameSets
<1>4. t \in Started /\ x[t].key = k
  BY OfKey
<1>5. ~Idle(t)' /\ ~Served(t) /\ ~Served(t)'
  BY DEF Idle, Serves, Served
<1>6. \A s \in UploadsOf(k) : Stored(s)' <=> Stored(s)
  <2>1. \A s \in UploadsOf(k) : s # t
    BY DEF UploadsOf, DownsOf, Downs
  <2> QED
    BY <2>1, OfKey DEF SameStage
<1>7. \A d \in DownsOf(k) \ {t} : d \in Started /\ SameStage(d) /\ ~Active(d) /\ x[d].kind = "down"
  BY <1>1, <1>4, OfKey, KindOf, AloneActive
<1>8. \A d \in DownsOf(k) : /\ Served(d)' <=> Served(d)
                            /\ Served(d) => FileOf(d)' = FileOf(d)
  BY <1>5, <1>7 DEF SameStage
<1>9. ASSUME NEW v \in 0 .. Workers - 1, NEW d \in DownsOf(k), Fetches(v, d)'
      PROVE  d = t /\ wk'[v].f = Head(paths[k])
  <2>1. d = t
    <3> SUFFICES ASSUME d # t PROVE FALSE
      OBVIOUS
    <3>1. Fetches(v, d) /\ ~Active(d) /\ d \in Started
      BY <1>7, <1>9 DEF SameStage
    <3>2. Orderly(x[d].key)
      BY OfKey
    <3> QED
      BY <3>1, <3>2, Finished
  <2>2. v = w
    <3> SUFFICES ASSUME v # w PROVE FALSE
      OBVIOUS
    <3>1. wk[v].at # "wait" /\ wk[v].t = t
      BY <1>9, <2>1 DEF Fetches
    <3> QED
      BY <3>1, Serving
  <2> QED
    BY <2>1, <2>2
<1>10. PathsOK(k)'
  <2>1. Rising(paths[k])'
    BY <1>1 DEF PathsOK, Rising
  <2>2. ToSet(paths'[k]) \subseteq {s \in UploadsOf(k) : Stored(s)'}
    BY <1>1, <1>6 DEF PathsOK
  <2>3. \A s \in UploadsOf(k) : Stored(s)' => s \in opened'
    BY <1>1, <1>6 DEF PathsOK
  <2>4. ASSUME NEW s \in UploadsOf(k), Stored(s)', s \notin ToSet(paths'[k])
        PROVE  \E d \in DownsOf(k) : Served(d)' /\ FileOf(d)' = Whole(s)
    <3>1. PICK d \in DownsOf(k) : Served(d) /\ FileOf(d) = Whole(s)
      BY <1>1, <1>6, <2>4 DEF PathsOK
    <3> QED
      BY <1>8, <3>1
  <2>5. \A v \in 0 .. Workers - 1, d \in DownsOf(k) :
          Fetches(v, d)' => paths'[k] # << >> /\ wk'[v].f = Head(paths'[k])
    BY <1>9
  <2> QED
    BY <1>1, <1>3, <2>1, <2>2, <2>3, <2>4, <2>5 DEF PathsOK, Whole
<1>11. ASSUME ToFriend(k) PROVE FetchedOK(k)'
  <2>1. Head(paths[k]) = x[t].name
    BY <1>5, <1>11, AsksFirst
  <2>2. \A s \in UploadsOf(k) : Stored(s)' =>
          (s \notin ToSet(paths'[k]) <=> \E d \in DownsOf(k) : Served(d)' /\ x[d].name = s)
    BY <1>1, <1>6, <1>8, <1>11 DEF FetchedOK
  <2>3. \A v \in 0 .. Workers - 1, d \in DownsOf(k) : Fetches(v, d)' => wk'[v].f = x[d].name
    BY <1>9, <2>1
  <2>4. \A d \in DownsOf(k) : Served(d)' => FileOf(d)' = Whole(x[d].name)
    BY <1>1, <1>8, <1>11 DEF FetchedOK
  <2> QED
    BY <1>3, <2>2, <2>3, <2>4 DEF FetchedOK, Whole
<1> QED
  BY <1>10, <1>11

\* A set cannot be mapped without loss both to a part of another and from all of it.
LEMMA NotBoth ==
  ASSUME NEW U, NEW D, IsFiniteSet(U), IsFiniteSet(D), NEW t \in D,
         NEW g \in [U -> D \ {t}], \A a, b \in U : g[a] = g[b] => a = b,
         NEW h \in [D -> U], \A a, b \in D : h[a] = h[b] => a = b
  PROVE  FALSE
<1>1. g \in Injection(U, D \ {t})
  BY DEF Injection, IsInjective
<1>2. h \in Injection(D, U)
  BY DEF Injection, IsInjective
<1>3. IsFiniteSet(D \ {t}) /\ Cardinality(D \ {t}) = Cardinality(D) - 1
  BY FS_RemoveElement
<1>4. Cardinality(U) <= Cardinality(D) - 1
  BY <1>1, <1>3, FS_Injection
<1>5. Cardinality(D) <= Cardinality(U)
  BY <1>2, FS_Injection
<1>6. Cardinality(D) \in Nat /\ Cardinality(U) \in Nat
  BY FS_CardinalityType
<1> QED
  BY <1>4, <1>5, <1>6

\* An orderly download that finds no path is not alone in the group.
LEMMA EmptyHanded ==
  ASSUME FilesInv, DownloadsOK, HistoryOK, crashed = None,
         NEW t, NEW k \in Keys, t \in DownsOf(k), Orderly(k), Active(t), ~Stored(t),
         paths[k] = << >>
  PROVE  ~ToFriend(k) /\ \E d \in Downs : x[d].key = k /\ x[d].by # x[t].by
<1>1. PathsOK(k) /\ AloneOK /\ NamedOK
  BY DEF HistoryOK, KeysOK
<1>2. t \in Started /\ t \in Downs /\ x[t].key = k
  BY OfKey
<1>3. ASSUME \A d \in DownsOf(k) : x[d].by = x[t].by PROVE FALSE
  <2> DEFINE U == UploadsOf(k)
             D == DownsOf(k)
  <2>1. IsFiniteSet(U) /\ IsFiniteSet(D)
    <3>1. IsFiniteSet(Transfers)
      BY Bounds, FS_Interval DEF Transfers
    <3>2. U \subseteq Transfers /\ D \subseteq Transfers
      BY OfKey
    <3> QED
      BY <3>1, <3>2, FS_Subset
  <2>2. ASSUME NEW m \in U PROVE \E d \in D \ {t} : FileOf(d) = Whole(m)
    <3>1. m \in Started /\ x[m].key = k /\ m # t
      BY <1>2, OfKey DEF Downs
    <3>2. ctl[m] = << >> /\ ~Unconnected(m)
      BY <1>1, <1>2, <3>1, AloneActive, Finished
    <3>3. Stored(m)
      BY <3>1, <3>2, Bounds DEF Stored, Started
    <3>4. PICK d \in D : Served(d) /\ FileOf(d) = Whole(m)
      BY <1>1, <3>3, ToSetEmpty DEF PathsOK
    <3>5. d # t
      BY <3>4 DEF Served
    <3> QED
      BY <3>4, <3>5
  <2>3. \A d \in D : x[d].name \in U
    BY <1>1, OfKey DEF NamedOK
  <2>4. \A c, d \in D : x[c].name = x[d].name => c = d
    BY <1>1, <1>3 DEF PathsOK
  <2>5. t \in D
    OBVIOUS
  <2> DEFINE g == [m \in U |-> CHOOSE d \in D \ {t} : FileOf(d) = Whole(m)]
             h == [d \in D |-> x[d].name]
  <2> HIDE DEF U, D
  <2>6. \A m \in U : g[m] \in D \ {t} /\ FileOf(g[m]) = Whole(m)
    BY <2>2
  <2>7. g \in [U -> D \ {t}] /\ \A a, b \in U : g[a] = g[b] => a = b
    <3>1. g \in [U -> D \ {t}]
      BY <2>6
    <3>2. ASSUME NEW a \in U, NEW b \in U, g[a] = g[b] PROVE a = b
      <4>1. Whole(a) = Whole(b)
        <5> HIDE DEF g
        <5> QED
          BY <2>6, <3>2
      <4> QED
        BY <4>1, WholeChunks
    <3> QED
      BY <3>1, <3>2
  <2>8. h \in [D -> U] /\ \A a, b \in D : h[a] = h[b] => a = b
    BY <2>3, <2>4
  <2> HIDE DEF g, h
  <2> QED
    BY <2>1, <2>5, <2>7, <2>8, NotBoth
<1>4. PICK d \in DownsOf(k) : x[d].by # x[t].by
  BY <1>3
<1>5. d \in Downs /\ x[d].key = k
  BY OfKey
<1>6. ~ToFriend(k)
  <2> SUFFICES ASSUME ToFriend(k) PROVE FALSE
    OBVIOUS
  <2>1. Audience[k[2]] = {k[2]}
    BY FilesAssumption DEF ToFriend, Keys
  <2>2. x[d].by = k[2] /\ x[t].by = k[2]
    BY <1>1, <1>2, <1>5, <2>1 DEF NamedOK
  <2> QED
    BY <1>4, <2>2
<1> QED
  BY <1>4, <1>5, <1>6

\* The paths of an orderly key lead to files that exist.
LEMMA PathsOpen ==
  ASSUME FilesInv, HistoryOK, NEW k \in Keys, Orderly(k), paths[k] # << >>
  PROVE  FirstPath(paths[k]) = Head(paths[k]) /\ Head(paths[k]) \in opened
<1>1. paths[k] \in Seq(Transfers)
  BY StoredTables
<1>2. Head(paths[k]) = paths[k][1] /\ Head(paths[k]) \in ToSet(paths[k])
  BY <1>1, RestElements, HeadTailSet
<1>3. PathsOK(k)
  BY DEF HistoryOK, KeysOK
<1> QED
  BY <1>2, <1>3 DEF PathsOK, FirstPath

\* A download is answered (Dataconnect.cc:66-86).
LEMMA RetrLists ==
  ASSUME FilesInv, DownloadsOK, HistoryOK, NEW w \in 0 .. Workers - 1, NEW t \in Transfers,
         RETR(w, t)
  PROVE  DownloadsOK' /\ HistoryOK' /\ CrashOK'
<1>0. PICK k : k = x[t].key
  OBVIOUS
<1>1. FilesInv' /\ WorkerMoves(w, t)
  BY RetrCommandStep
<1>2. Reads(w, t, "RETR")
  BY DEF RETR
<1>3. /\ wk[w].at = "wait" /\ crashed = None /\ x[t].at \in {"150", "dead"} /\ x[t].on = w
      /\ ctl'[t] = << >> /\ ~Stored(t) /\ x[t] \in Threads /\ x[t].kind # "up"
  BY <1>2, CommandRead
<1>4. UNCHANGED <<names, cache, chat, paths, opened, muddled, x>>
  BY Zenon DEF RETR, redisVars, diskVars, chatVars, clientVars
<1>5. k \in Keys /\ x[t].at # "none" /\ t \in Started /\ x[t].kind = "down" /\ t \in Downs
  <2>1. x[t].at # "none" /\ k \in Keys /\ x[t].kind = "down"
    BY <1>0, <1>3 DEF Threads, Kinds
  <2> QED
    BY <1>3, <2>1 DEF Started, Downs, Ups
<1>6. \/ paths[k] = << >> /\ crashed' = t /\ UNCHANGED wk
      \/ paths[k] # << >> /\ FirstPath(paths[k]) \notin opened /\ UNCHANGED crashed
      \/ paths[k] # << >> /\ Engage(w, "send", t, FirstPath(paths[k])) /\ UNCHANGED crashed
  BY <1>0, Zenon DEF RETR
<1>7. crashed' \in {None, t}
  BY <1>3, <1>6
<1>8. ASSUME Orderly(k)
      PROVE  t \in DownsOf(k) /\ x[t].at = "150" /\ Active(t)
  <2>1. t \in DownsOf(k) /\ x[t].at = "150"
    BY <1>0, <1>3, <1>5, <1>8, Alive
  <2> QED
    BY <2>1 DEF Active, Over
<1>9. Orderly(k) /\ paths[k] # << >> =>
        FirstPath(paths[k]) = Head(paths[k]) /\ Head(paths[k]) \in opened
  BY <1>5, PathsOpen
<1>10. HistoryOK'
  <2>1. CASE crashed' = t
    <3>1. UNCHANGED wk
      BY <1>3, <1>6, <2>1, Bounds
    <3>2. SameStage(t)
      BY <1>3, <2>1, <3>1 DEF SameStage, Stored, Served, Fetches
    <3>3. k \notin muddled' => (Active(t)' => Active(t))
      BY <1>4, <1>8 DEF Orderly
    <3> QED
      BY <1>0, <1>1, <1>3, <1>4, <1>7, <3>2, <3>3, WorkerQuiet
  <2>2. CASE crashed' = None
    <3>1. ASSUME k \notin muddled'
          PROVE  /\ PathsOK(k)' /\ (ToFriend(k) => FetchedOK(k)')
                 /\ (Active(t)' => Active(t))
      <4>1. Orderly(k) /\ t \in DownsOf(k) /\ x[t].at = "150" /\ Active(t)
        BY <1>4, <1>8, <3>1 DEF Orderly
      <4>2. t # None
        BY Bounds
      <4>3. paths[k] # << >> /\ Engage(w, "send", t, Head(paths[k]))
        BY <1>6, <1>9, <2>2, <4>1, <4>2
      <4>4. wk'[w].at = "send" /\ wk'[w].t = t /\ wk'[w].f = Head(paths[k])
        BY <4>3, StoredTables DEF Engage
      <4>5. Stored(t)'
        BY <1>3, <1>4, <2>2, <4>1, <4>2 DEF Stored, Unconnected, Waits
      <4>6. \A s \in Transfers \ {t} : x[s].at # "none" /\ x[s].key = k => SameStage(s)
        BY <1>1, <1>3, <1>7, <3>1, WorkerOthers
      <4>7. \A v \in (0 .. Workers - 1) \ {w} : wk'[v] = wk[v]
        BY <1>1 DEF WorkerMoves
      <4> QED
        BY <1>3, <1>4, <1>5, <4>1, <4>3, <4>4, <4>5, <4>6, <4>7, FetchingPaths
    <3> QED
      BY <1>0, <1>1, <1>3, <1>4, <1>7, <3>1, WorkerLists
  <2> QED
    BY <1>7, <2>1, <2>2
<1>11. DownloadsOK'
  <2>1. ASSUME Orderly(x[t].key)', Smooth(t) PROVE Smooth(t)'
    <3>1. Orderly(k)
      BY <1>0, <1>4, <2>1 DEF Orderly
    <3> QED
      BY <1>0, <1>9, <2>1, <3>1, RetrCommandSmooth
  <2> QED
    BY <1>1, <1>3, <2>1, WorkerDownloads
<1>12. CrashOK'
  <2>1. CASE crashed' = None
    BY <2>1 DEF CrashOK, CrashNeedsDisorder, Up
  <2>2. CASE crashed' = t
    <3>1. t # None
      BY Bounds
    <3>2. paths[k] = << >>
      BY <1>3, <1>6, <2>2, <3>1
    <3>3. Orderly(k) => ~ToFriend(k) /\ \E d \in Downs : x[d].key = k /\ x[d].by # x[t].by
      BY <1>3, <1>5, <1>8, <3>2, EmptyHanded
    <3>4. Downs' = Downs /\ Started' = Started
      BY <1>4 DEF Downs, Started, Ups
    <3>5. CrashNeedsDisorder'
      BY <1>0, <1>4, <2>2, <3>3, <3>4 DEF CrashNeedsDisorder, Orderly, ToFriend
    <3>6. Orderly(k)' => x[t].at = "150"
      BY <1>4, <1>8 DEF Orderly
    <3> QED
      BY <1>0, <1>4, <1>5, <2>2, <3>4, <3>5, <3>6 DEF CrashOK, Orderly
  <2> QED
    BY <1>7, <2>1, <2>2
<1> QED
  BY <1>10, <1>11, <1>12

\* What was sent is no longer filed (Dataconnect.cc:108-113).
LEMMA RemovingPaths ==
  ASSUME FilesInv, DownloadsOK, HistoryOK, NEW w \in 0 .. Workers - 1, Busy(w, "lrem"),
         NEW t, NEW k, k = x[t].key, t = wk[w].t, Orderly(k), x' = x, opened' = opened,
         Stored(t)', Idle(t)', FileOf(t)' = FileOf(t),
         paths'[k] = RemoveFirst(paths[k], wk[w].f), wk'[w].at = "wait",
         \A v \in (0 .. Workers - 1) \ {w} : wk'[v] = wk[v],
         \A s \in Transfers \ {t} : x[s].at # "none" /\ x[s].key = k => SameStage(s)
  PROVE  PathsOK(k)' /\ (ToFriend(k) => FetchedOK(k)')
<1> DEFINE f == wk[w].f
<1>1. /\ t \in Transfers /\ x[t].at # "none" /\ k \in Keys /\ t \in DownsOf(k) /\ Smooth(t)
      /\ Fetches(w, t) /\ Active(t) /\ x[t].on = w
      /\ paths[k] # << >> /\ f = Head(paths[k]) /\ f \in UploadsOf(k)
      /\ \A s \in Started : s # t /\ x[s].key = k => ~Active(s)
  <2>1. wk[w].at = "lrem"
    BY DEF Busy
  <2> QED
    BY <2>1, SentWhole, Serving
<1>2. ~Idle(t) /\ Stored(t) /\ FileOf(t) = Whole(f)
  BY <1>1, SendingDown DEF Removing, Busy
<1>3. Served(t)' /\ ~Served(t)
  BY <1>2 DEF Served
<1>4. PathsOK(k) /\ (ToFriend(k) => FetchedOK(k))
  BY <1>1 DEF HistoryOK, KeysOK
<1>5. SameThreads
  BY DEF SameThreads
<1>6. UploadsOf(k)' = UploadsOf(k) /\ DownsOf(k)' = DownsOf(k)
  BY <1>5, SameSets
<1>7. \A s \in UploadsOf(k) : Stored(s)' <=> Stored(s)
  <2>1. \A s \in UploadsOf(k) : s # t
    BY <1>1 DEF UploadsOf, DownsOf, Downs
  <2> QED
    BY <2>1, OfKey DEF SameStage
<1>8. \A d \in DownsOf(k) \ {t} : /\ d \in Started /\ SameStage(d) /\ ~Active(d)
                                  /\ x[d].kind = "down" /\ Orderly(x[d].key)
  BY <1>1, OfKey, KindOf
<1>9. \A d \in DownsOf(k) \ {t} : /\ Served(d)' <=> Served(d)
                                  /\ Served(d) => FileOf(d)' = FileOf(d)
  BY <1>8 DEF SameStage
<1>10. \A v \in 0 .. Workers - 1, d \in DownsOf(k) : ~Fetches(v, d)'
  <2> SUFFICES ASSUME NEW v \in 0 .. Workers - 1, NEW d \in DownsOf(k), Fetches(v, d)'
               PROVE  FALSE
    BY SMTT(30)
  <2>1. CASE d = t
    <3>1. v # w
      BY <2>1 DEF Fetches
    <3>2. wk[v].at # "wait" /\ wk[v].t = t
      BY <2>1, <3>1 DEF Fetches
    <3> QED
      BY <1>1, <3>1, <3>2, Serving
  <2>2. CASE d # t
    <3>1. Fetches(v, d)
      BY SMTT(30), <1>8, <2>2 DEF SameStage
    <3> QED
      BY <1>8, <2>2, <3>1, Finished
  <2> QED
    BY <2>1, <2>2
<1>11. /\ paths[k] \in Seq(Transfers) /\ Rising(paths[k])
       /\ ToSet(paths[k]) \subseteq {s \in UploadsOf(k) : Stored(s)}
  BY ZenonT(60), <1>1, <1>4, StoredTables DEF PathsOK
<1>12. /\ paths'[k] = Tail(paths[k]) /\ Rising(Tail(paths[k]))
       /\ ToSet(paths[k]) = {f} \cup ToSet(Tail(paths[k]))
       /\ f \notin ToSet(Tail(paths[k]))
  <2>1. RemoveFirst(paths[k], f) = Tail(paths[k])
    BY ZenonT(60), <1>1, <1>11, RemoveHead
  <2>2. Rising(Tail(paths[k])) /\ \A m \in ToSet(Tail(paths[k])) : f < m
    BY <1>1, <1>11, RisingTail
  <2>3. ToSet(paths[k]) = {f} \cup ToSet(Tail(paths[k]))
    BY ZenonT(60), <1>1, <1>11, RestElements
  <2>4. f \in Nat
    BY <1>1, OfKey, Bounds
  <2>5. ~(f < f)
    BY <2>4
  <2> QED
    BY ZenonT(60), <2>1, <2>2, <2>3, <2>5
<1> HIDE DEF f
<1>13. \A s : s # f => (s \in ToSet(paths'[k]) <=> s \in ToSet(paths[k]))
  BY ZenonT(60), <1>12
<1>14. PathsOK(k)'
  <2>1. Rising(paths[k])'
    BY ZenonT(60), <1>12 DEF Rising
  <2>2. ToSet(paths'[k]) \subseteq {s \in UploadsOf(k) : Stored(s)'}
    BY ZenonT(60), <1>7, <1>11, <1>12
  <2>3. \A s \in UploadsOf(k) : Stored(s)' => s \in opened'
    BY <1>4, <1>7 DEF PathsOK
  <2>4. ASSUME NEW s \in UploadsOf(k), Stored(s)', s \notin ToSet(paths'[k])
        PROVE  \E d \in DownsOf(k) : Served(d)' /\ FileOf(d)' = Whole(s)
    <3>1. CASE s = f
      BY <1>1, <1>2, <1>3, <3>1
    <3>2. CASE s # f
      <4>1. Stored(s) /\ s \notin ToSet(paths[k])
        BY Zenon, <1>7, <1>13, <2>4, <3>2
      <4>2. PICK d \in DownsOf(k) : Served(d) /\ FileOf(d) = Whole(s)
        BY <1>4, <4>1 DEF PathsOK
      <4>3. d # t
        BY <1>3, <4>2
      <4> QED
        BY SMTT(30), <1>9, <4>2, <4>3
    <3> QED
      BY <3>1, <3>2
  <2>5. \A c, d \in DownsOf(k)' : c # d /\ x'[c].by = x'[d].by => x'[c].name # x'[d].name
    <3>1. \A c, d \in DownsOf(k) : c # d /\ x[c].by = x[d].by => x[c].name # x[d].name
      BY <1>4, Zenon DEF PathsOK
    <3>2. \A d : x'[d] = x[d]
      OBVIOUS
    <3>3. DownsOf(k)' = DownsOf(k)
      BY <1>6
    <3> QED
      BY <3>1, <3>2, <3>3
  <2>6. \A v \in 0 .. Workers - 1, d \in DownsOf(k)' :
          Fetches(v, d)' => paths'[k] # << >> /\ wk'[v].f = Head(paths'[k])
    BY SMTT(30), <1>6, <1>10
  <2>7. /\ \A s \in UploadsOf(k)' : Stored(s)' => s \in opened'
        /\ \A s \in UploadsOf(k)' : Stored(s)' /\ s \notin ToSet(paths'[k]) =>
              \E d \in DownsOf(k)' : Served(d)' /\ FileOf(d)' = Whole(s)
        /\ ToSet(paths'[k]) \subseteq {s \in UploadsOf(k)' : Stored(s)'}
    BY ZenonT(60), <1>6, <2>2, <2>3, <2>4
  <2> QED
    BY <2>1, <2>5, <2>6, <2>7, Zenon DEF PathsOK, Whole
<1>15. ASSUME ToFriend(k) PROVE FetchedOK(k)'
  <2>0. FetchedOK(k) /\ f = x[t].name
    BY <1>1, <1>4, <1>15 DEF FetchedOK, f
  <2>1. ASSUME NEW s \in UploadsOf(k), Stored(s)'
        PROVE  s \notin ToSet(paths'[k]) <=> \E d \in DownsOf(k) : Served(d)' /\ x[d].name = s
    <3>1. CASE s = f
      BY ZenonT(60), <1>1, <1>3, <1>12, <2>0, <3>1
    <3>2. CASE s # f
      <4>1. Stored(s) /\ (s \in ToSet(paths'[k]) <=> s \in ToSet(paths[k]))
        BY Zenon, <1>7, <1>13, <2>1, <3>2
      <4>2. \A d \in DownsOf(k) : x[d].name = s => (Served(d)' <=> Served(d))
        BY <1>9, <2>0, <3>2
      <4> QED
        BY SMTT(30), <2>0, <4>1, <4>2 DEF FetchedOK
    <3> QED
      BY SMTT(30), <3>1, <3>2
  <2>2. \A d \in DownsOf(k) : Served(d)' => FileOf(d)' = Whole(x[d].name)
    <3>1. FileOf(t)' = Whole(x[t].name)
      BY <1>2, <2>0
    <3>2. \A d \in DownsOf(k) \ {t} : Served(d)' => FileOf(d)' = Whole(x[d].name)
      BY <1>9, <2>0 DEF FetchedOK
    <3> QED
      BY <3>1, <3>2
  <2>3. \A d : x'[d] = x[d]
    OBVIOUS
  <2>4. \A s \in UploadsOf(k)' : Stored(s)' =>
          (s \notin ToSet(paths'[k]) <=> \E d \in DownsOf(k)' : Served(d)' /\ x'[d].name = s)
    BY ZenonT(60), <1>6, <2>1, <2>3
  <2>5. \A d \in DownsOf(k)' : Served(d)' => FileOf(d)' = Whole(x'[d].name)
    BY ZenonT(60), <1>6, <2>2, <2>3
  <2>6. \A v \in 0 .. Workers - 1, d \in DownsOf(k)' : ~Fetches(v, d)'
    BY ZenonT(60), <1>6, <1>10
  <2> QED
    BY ZenonT(60), <2>4, <2>5, <2>6 DEF FetchedOK, Whole
<1> QED
  BY <1>14, <1>15

\* send_done: of the paths of a key, the one whose file was sent is removed
\* (Dataconnect.cc:108-113).
LEMMA SendDoneLists ==
  ASSUME FilesInv, DownloadsOK, HistoryOK, NEW w \in 0 .. Workers - 1, send_done(w)
  PROVE  DownloadsOK' /\ HistoryOK' /\ crashed' = crashed /\ crashed = None
<1>0. PICK t, k : t = wk[w].t /\ k = x[t].key
  OBVIOUS
<1>1. FilesInv' /\ WorkerMoves(w, t)
  BY <1>0, SendDoneStep
<1>2. /\ UNCHANGED <<names, cache, chat, opened, crashed, muddled, x, ctl>> /\ crashed = None
      /\ Busy(w, "lrem") /\ wk[w].at = "lrem"
      /\ paths' = [paths EXCEPT ![k] = RemoveFirst(@, wk[w].f)]
  BY <1>0 DEF send_done, diskVars, chatVars, clientVars, sockVars, Busy, Up
<1>3. /\ t \in Transfers /\ Active(t) /\ x[t].at # "none" /\ x[t].kind = "down" /\ k \in Keys
      /\ ctl[t] = << >> /\ ~Waits(t) /\ x[t].at # "start"
  <2>1. w \in DOMAIN wk
    BY StoredTables
  <2>2. /\ t \in Transfers /\ x[t].at \notin {"none", "start"} /\ x[t].kind = "down"
        /\ x[t] \in Threads /\ ctl[t] = << >> /\ ~Waits(t)
    BY <1>0, <1>2, Serving
  <2> QED
    BY <1>0, <1>2, <2>1, <2>2 DEF Active, Threads
<1>4. \A l \in Keys \ {k} : paths'[l] = paths[l]
  BY <1>2, StoredTables
<1>5. ASSUME k \notin muddled'
      PROVE  /\ PathsOK(k)' /\ (ToFriend(k) => FetchedOK(k)')
             /\ (Active(t)' => Active(t))
  <2>1. Orderly(k) /\ Smooth(t)
    BY <1>0, <1>2, <1>3, <1>5 DEF Orderly, DownloadsOK
  <2>2. Idle(t)' /\ FileOf(t)' = FileOf(t)
    BY <1>0, <2>1, SendDoneSmooth
  <2>3. Stored(t)'
    BY <1>2, <1>3, Bounds DEF Stored, Unconnected, Waits
  <2>4. paths'[k] = RemoveFirst(paths[k], wk[w].f)
    BY <1>2, <1>3, StoredTables
  <2>5. wk'[w].at = "wait"
    BY StoredTables, FreeTask DEF send_done, Return
  <2>6. \A v \in (0 .. Workers - 1) \ {w} : wk'[v] = wk[v]
    BY <1>1 DEF WorkerMoves
  <2>7. \A s \in Transfers \ {t} : x[s].at # "none" /\ x[s].key = k => SameStage(s)
    BY <1>1, <1>2, <1>3, <1>5, WorkerOthers
  <2>8. PathsOK(k)' /\ (ToFriend(k) => FetchedOK(k)')
    BY <1>0, <1>2, <2>1, <2>2, <2>3, <2>4, <2>5, <2>6, <2>7, RemovingPaths
  <2> QED
    BY <1>3, <2>8
<1>6. HistoryOK'
  BY <1>0, <1>1, <1>2, <1>3, <1>4, <1>5, WorkerLists
<1>7. DownloadsOK'
  <2>1. Smooth(t) => Smooth(t)'
    BY <1>0, SendDoneSmooth
  <2> QED
    BY <1>1, <1>2, <1>3, <2>1, WorkerDownloads
<1> QED
  BY <1>2, <1>6, <1>7

-----------------------------------------------------------------------------
(* The steps of the users and of the chat server.                          *)

\* The end of a program leaves the lists of orderly keys as they are
\* (FTP_client.cc:28-131).
LEMMA ExitLists ==
  ASSUME FilesInv, DownloadsOK, HistoryOK, NEW u \in Users, exit(u)
  PROVE  DownloadsOK' /\ HistoryOK'
<1>1. /\ \A t \in Transfers :
            \/ x'[t] = x[t] /\ link'[t] = link[t]
            \/ /\ Live(t) /\ x'[t].at = "dead" /\ x'[t].key \in muddled'
               /\ x'[t].by = x[t].by /\ x'[t].key = x[t].key /\ x'[t].kind = x[t].kind
               /\ x'[t].name = x[t].name
      /\ muddled \subseteq muddled'
      /\ UNCHANGED <<paths, names, file, opened, cache, chat, ctl, wk, crashed>>
  BY ExitEffect, Zenon
<1>2. SameThreads
  BY <1>1 DEF SameThreads, Live, Over
<1>3. ASSUME NEW t \in Transfers, x[t].at # "none", x[t].key \notin muddled'
      PROVE  SameStage(t) /\ (Active(t)' => Active(t))
  <2>1. x'[t] = x[t] /\ link'[t] = link[t]
    BY <1>1, <1>3
  <2>2. Stored(t)' <=> Stored(t)
    BY <1>1, <2>1 DEF Stored, Unconnected, Waits
  <2>3. Idle(t)' <=> Idle(t)
    BY <1>1, <2>1 DEF Idle, Serves
  <2>4. FileOf(t)' = FileOf(t)
    BY <1>1, <2>1 DEF FileOf
  <2>5. \A w \in 0 .. Workers - 1 : Fetches(w, t)' => Fetches(w, t) /\ wk'[w].f = wk[w].f
    BY <1>1 DEF Fetches
  <2>6. Active(t)' => Active(t)
    BY <1>1, <2>1 DEF Active
  <2> QED
    BY <2>2, <2>3, <2>4, <2>5, <2>6 DEF SameStage, Served
<1>4. \A k \in Keys : k \notin muddled' => SameStages(k)
  BY <1>1, <1>3 DEF SameStages
<1>5. \A t \in Started : x[t].key \notin muddled' /\ Active(t)' => Active(t)
  BY <1>3 DEF Started
<1>6. HistoryOK'
  BY <1>1, <1>2, <1>4, <1>5, QuietStays
<1> QED
  BY <1>6, ExitDownloads

\* A transfer that is started is one more of its key (send_friends.cc:293-404).
LEMMA StartSets ==
  ASSUME FilesInv, faults \in Nat,
         NEW u \in Users, NEW kind \in Kinds, NEW k \in Keys, NEW name,
         StartThread(u, kind, k, name), NEW n, n = Cardinality(Started) + 1
  PROVE  /\ \A l : \A t \in UploadsOf(l) \cup DownsOf(l) :
                   t \in Transfers /\ t < n /\ x'[t] = x[t]
         /\ \A l : l # k => /\ UploadsOf(l)' = UploadsOf(l)
                            /\ DownsOf(l)' = DownsOf(l) /\ Taken(l)' = Taken(l)
         /\ kind = "up" =>
              /\ UploadsOf(k)' = UploadsOf(k) \cup {n} /\ Downs' = Downs
              /\ DownsOf(k)' = DownsOf(k) /\ Taken(k)' = Taken(k)
         /\ kind = "down" =>
              /\ UploadsOf(k)' = UploadsOf(k) /\ Downs' = Downs \cup {n}
              /\ DownsOf(k)' = DownsOf(k) \cup {n} /\ Taken(k)' = Taken(k) \cup {name}
<1>1. /\ n \notin Started /\ Started' = Started \cup {n}
      /\ \A s \in Started : s \in Transfers /\ s < n /\ s # n
      /\ \A s \in Transfers \ {n} : x'[s] = x[s]
      /\ x'[n].kind = kind /\ x'[n].key = k /\ x'[n].name = IF kind = "up" THEN n ELSE name
      /\ kind \in {"up", "down"}
  BY StartEffect DEF Kinds
<1>2. \A s \in Started : x'[s] = x[s]
  BY <1>1
<1>3. Ups' = Ups \cup IF kind = "up" THEN {n} ELSE {}
  BY <1>1, <1>2 DEF Ups
<1>4. Downs' = Downs \cup IF kind = "down" THEN {n} ELSE {}
  BY <1>1, <1>2, <1>3 DEF Downs, Ups
<1>5. \A t \in Ups \cup Downs : t \in Started
  BY DEF Ups, Downs
<1>6. ASSUME NEW l
      PROVE  /\ UploadsOf(l)' = UploadsOf(l) \cup IF kind = "up" /\ l = k THEN {n} ELSE {}
             /\ DownsOf(l)' = DownsOf(l) \cup IF kind = "down" /\ l = k THEN {n} ELSE {}
             /\ \A t \in UploadsOf(l) \cup DownsOf(l) :
                   t \in Started /\ t \in Transfers /\ t < n /\ x'[t] = x[t]
  <2>1. UploadsOf(l)' = UploadsOf(l) \cup IF kind = "up" /\ l = k THEN {n} ELSE {}
    BY <1>1, <1>2, <1>3, <1>5 DEF UploadsOf
  <2>2. DownsOf(l)' = DownsOf(l) \cup IF kind = "down" /\ l = k THEN {n} ELSE {}
    BY <1>1, <1>2, <1>4, <1>5 DEF DownsOf
  <2>3. \A t \in UploadsOf(l) \cup DownsOf(l) : t \in Started
    BY <1>5 DEF UploadsOf, DownsOf
  <2> QED
    BY <1>1, <1>2, <2>1, <2>2, <2>3
<1>7. ASSUME NEW l
      PROVE  Taken(l)' = Taken(l) \cup IF kind = "down" /\ l = k THEN {name} ELSE {}
  <2>1. \A t \in DownsOf(l) : x'[t].name = x[t].name
    BY <1>6
  <2>2. kind = "down" => x'[n].name = name
    BY <1>1
  <2> QED
    BY <1>6, <2>1, <2>2 DEF Taken
<1>8. \A l : l # k => /\ UploadsOf(l)' = UploadsOf(l)
                     /\ DownsOf(l)' = DownsOf(l) /\ Taken(l)' = Taken(l)
  BY <1>6, <1>7
<1>9. ASSUME kind = "up"
      PROVE  /\ UploadsOf(k)' = UploadsOf(k) \cup {n} /\ Downs' = Downs
             /\ DownsOf(k)' = DownsOf(k) /\ Taken(k)' = Taken(k)
  BY <1>4, <1>6, <1>7, <1>9
<1>10. ASSUME kind = "down"
       PROVE  /\ UploadsOf(k)' = UploadsOf(k) /\ Downs' = Downs \cup {n}
              /\ DownsOf(k)' = DownsOf(k) \cup {n} /\ Taken(k)' = Taken(k) \cup {name}
  BY <1>4, <1>6, <1>7, <1>10
<1> QED
  BY <1>6, <1>8, <1>9, <1>10

\* The server has not heard of it: no path and no file is another.
LEMMA StartLists ==
  ASSUME FilesInv, HistoryOK, faults \in Nat,
         NEW u \in Users, NEW kind \in Kinds, NEW k \in Keys, NEW name,
         StartThread(u, kind, k, name),
         UNCHANGED <<paths, opened, file, ctl, link, wk, crashed>>
  PROVE  /\ AloneOK' /\ muddled \subseteq muddled'
         /\ \A l \in Keys : l \notin muddled' => PathsOK(l)' /\ (ToFriend(l) => FetchedOK(l)')
<1>1. PICK n : n = Cardinality(Started) + 1
  OBVIOUS
<1>2. /\ n \in Transfers /\ n \notin Started /\ x[n].at = "none"
      /\ Started' = Started \cup {n}
      /\ \A s \in Started : s \in Transfers /\ s < n /\ s # n /\ x'[s] = x[s]
      /\ x'[n].at = "start" /\ x'[n].by = u /\ x'[n].key = k
      /\ kind = "down" => x'[n].name = name
      /\ muddled \subseteq muddled'
      /\ \A s \in Started : Active(s) /\ x[s].key = k => k \in muddled'
      /\ \A s \in Downs : kind = "down" /\ x[s].by = u /\ x[s].key = k /\ x[s].name = name
                            => k \in muddled'
  BY <1>1, StartEffect
<1>3. AloneOK'
  <2> SUFFICES ASSUME NEW s \in Started', NEW t \in Started', s # t, x'[s].key = x'[t].key,
                      Orderly(x[t].key)', Active(t)'
               PROVE  s < t
    BY DEF AloneOK
  <2>1. CASE t = n
    BY <1>2, <2>1
  <2>2. CASE t # n
    <3>1. t \in Started /\ x'[t] = x[t] /\ Active(t) /\ x[t].key \notin muddled'
      BY <1>2, <2>2 DEF Active, Orderly
    <3>2. s # n
      BY <1>2, <3>1
    <3>3. s \in Started /\ x[s].key = x[t].key /\ Orderly(x[t].key)
      BY <1>2, <3>1, <3>2 DEF Orderly
    <3> QED
      BY <3>1, <3>3 DEF HistoryOK, AloneOK
  <2> QED
    BY <2>1, <2>2
<1>4. \A s \in Started : (Stored(s)' <=> Stored(s)) /\ (Served(s)' <=> Served(s))
  BY <1>2 DEF Stored, Served, Unconnected, Waits, Idle, Serves
<1>5. ~Stored(n)' /\ ~Served(n)'
  BY <1>2 DEF Stored, Served, Unconnected
<1>6. \A w \in 0 .. Workers - 1 : \A s : Fetches(w, s)' => Fetches(w, s) /\ s # n
  BY <1>2 DEF Fetches, FilesInv, LinesInv, TasksOK, TaskOK
<1> DEFINE New(l) == IF kind = "up" /\ l = k THEN {n} ELSE {}
           Down(l) == IF kind = "down" /\ l = k THEN {n} ELSE {}
<1>7. ASSUME NEW l
      PROVE  /\ UploadsOf(l)' = UploadsOf(l) \cup New(l) /\ New(l) \subseteq {n}
             /\ DownsOf(l)' = DownsOf(l) \cup Down(l) /\ Down(l) \subseteq {n}
             /\ Down(l) # {} => kind = "down" /\ l = k
  <2>1. CASE l # k
    BY <1>1, <2>1, StartSets
  <2>2. CASE l = k /\ kind = "up"
    <3>1. UploadsOf(k)' = UploadsOf(k) \cup {n} /\ DownsOf(k)' = DownsOf(k)
      BY <1>1, <2>2, StartSets
    <3>2. UploadsOf(l)' = UploadsOf(l) \cup {n} /\ DownsOf(l)' = DownsOf(l)
      BY <2>2, <3>1
    <3> QED
      BY <2>2, <3>2
  <2>3. CASE l = k /\ kind = "down"
    <3>1. UploadsOf(k)' = UploadsOf(k) /\ DownsOf(k)' = DownsOf(k) \cup {n}
      BY <1>1, <2>3, StartSets
    <3>2. UploadsOf(l)' = UploadsOf(l) /\ DownsOf(l)' = DownsOf(l) \cup {n}
      BY <2>3, <3>1
    <3> QED
      BY <2>3, <3>2
  <2> QED
    BY <2>1, <2>2, <2>3 DEF Kinds
<1> HIDE DEF New, Down
<1>8. ASSUME NEW l \in Keys, l \notin muddled' PROVE PathsOK(l)'
  <2>1. PathsOK(l)
    BY <1>2, <1>8 DEF HistoryOK, KeysOK, Orderly
  <2>2. \A t \in UploadsOf(l)' : Stored(t)' => t \in UploadsOf(l) /\ Stored(t)
    BY <1>4, <1>5, <1>7, OfKey
  <2>3. \A t \in UploadsOf(l) : Stored(t) => t \in UploadsOf(l)' /\ Stored(t)'
    BY <1>4, <1>7, OfKey
  <2>4. \A d \in DownsOf(l) : Served(d) => d \in DownsOf(l)' /\ Served(d)'
    BY <1>4, <1>7, OfKey
  <2>5. Rising(paths[l])' /\ ToSet(paths'[l]) \subseteq {t \in UploadsOf(l)' : Stored(t)'}
    BY <2>1, <2>3 DEF PathsOK, Rising
  <2>6. \A t \in UploadsOf(l)' : Stored(t)' => t \in opened'
    BY <2>1, <2>2 DEF PathsOK
  <2>7. ASSUME NEW t \in UploadsOf(l)', Stored(t)', t \notin ToSet(paths'[l])
        PROVE  \E d \in DownsOf(l)' : Served(d)' /\ FileOf(d)' = Whole(t)
    <3>1. PICK d \in DownsOf(l) : Served(d) /\ FileOf(d) = Whole(t)
      BY <2>1, <2>2, <2>7 DEF PathsOK
    <3>2. FileOf(d)' = FileOf(d)
      BY DEF FileOf
    <3> QED
      BY <2>4, <3>1, <3>2
  <2>8. \A w \in 0 .. Workers - 1, d \in DownsOf(l)' :
            Fetches(w, d)' => paths'[l] # << >> /\ wk'[w].f = Head(paths'[l])
    BY <1>6, <1>7, <2>1 DEF PathsOK
  <2>9. \A c, d \in DownsOf(l)' : c # d /\ x'[c].by = x'[d].by => x'[c].name # x'[d].name
    <3> SUFFICES ASSUME NEW c \in DownsOf(l)', NEW d \in DownsOf(l)', c # d,
                        x'[c].by = x'[d].by, x'[c].name = x'[d].name
                 PROVE  FALSE
      OBVIOUS
    <3>1. \A e \in DownsOf(l) : e \in Downs /\ e \in Started /\ x'[e] = x[e] /\ x[e].key = l
      BY <1>2, OfKey
    <3>2. ASSUME NEW e \in DownsOf(l), n \in DownsOf(l)', n \notin DownsOf(l),
                 x[e].by = x'[n].by, x[e].name = x'[n].name
          PROVE  FALSE
      <4>1. kind = "down" /\ l = k
        BY <1>7, <3>2
      <4> QED
        BY <1>2, <1>8, <3>1, <3>2, <4>1
    <3>3. n \notin DownsOf(l)
      BY <1>2, OfKey
    <3>4. CASE c \in DownsOf(l) /\ d \in DownsOf(l)
      BY <2>1, <3>1, <3>4 DEF PathsOK
    <3>5. CASE c = n /\ d \in DownsOf(l)
      BY <3>1, <3>2, <3>3, <3>5
    <3>6. CASE c \in DownsOf(l) /\ d = n
      BY <3>1, <3>2, <3>3, <3>6
    <3> QED
      BY <1>7, <3>4, <3>5, <3>6
  <2> QED
    BY <2>5, <2>6, <2>7, <2>8, <2>9, Zenon DEF PathsOK, Whole
<1>9. ASSUME NEW l \in Keys, l \notin muddled', ToFriend(l) PROVE FetchedOK(l)'
  <2>1. FetchedOK(l)
    BY <1>2, <1>9 DEF HistoryOK, KeysOK, Orderly
  <2>2. \A d \in DownsOf(l)' : Served(d)' => d \in DownsOf(l) /\ Served(d)
    BY <1>4, <1>5, <1>7, OfKey
  <2>3. \A d \in DownsOf(l) : x'[d] = x[d] /\ FileOf(d)' = FileOf(d)
                              /\ (Served(d) => d \in DownsOf(l)' /\ Served(d)')
    BY <1>2, <1>4, <1>7, OfKey DEF FileOf
  <2>4. \A t \in UploadsOf(l)' : Stored(t)' => t \in UploadsOf(l) /\ Stored(t)
    BY <1>4, <1>5, <1>7, OfKey
  <2>5. ASSUME NEW t \in UploadsOf(l)', Stored(t)'
        PROVE  t \notin ToSet(paths'[l]) <=> \E d \in DownsOf(l)' : Served(d)' /\ x'[d].name = t
    <3>1. t \notin ToSet(paths[l]) <=> \E d \in DownsOf(l) : Served(d) /\ x[d].name = t
      BY <2>1, <2>4, <2>5 DEF FetchedOK
    <3> QED
      BY <2>2, <2>3, <3>1
  <2>6. \A w \in 0 .. Workers - 1, d \in DownsOf(l)' : Fetches(w, d)' => wk'[w].f = x'[d].name
    BY <1>6, <1>7, <2>1, <2>3 DEF FetchedOK
  <2>7. \A d \in DownsOf(l)' : Served(d)' => FileOf(d)' = Whole(x'[d].name)
    BY <2>1, <2>2, <2>3 DEF FetchedOK
  <2> QED
    BY <2>5, <2>6, <2>7, Zenon DEF FetchedOK, Whole
<1> QED
  BY <1>2, <1>3, <1>8, <1>9

\* A request joins those of its user, and of its kind ...
LEMMA AskEffect ==
  ASSUME FilesInv, NEW u \in Users, NEW a \in Asks,
         chat' = [chat EXCEPT ![u] = Append(@, a)]
  PROVE  /\ ToSet(chat'[u]) = ToSet(chat[u]) \cup {a}
         /\ \A v \in Users \ {u} : chat'[v] = chat[v]
         /\ Requests(chat'[u], a.do, a.key) = Requests(chat[u], a.do, a.key) \cup {a.name}
         /\ \A v \in Users : \A what, k :
              /\ v # u \/ what # a.do \/ k # a.key =>
                    Requests(chat'[v], what, k) = Requests(chat[v], what, k)
              /\ InTurn(chat[v], what, k)
                   /\ (v = u /\ a.do = what /\ a.key = k =>
                         \A m \in Requests(chat[v], what, k) : m < a.name)
                 => InTurn(chat'[v], what, k)
<1>1. \A v \in Users : chat[v] \in Seq(Asks)
  BY DEF FilesInv, TablesOK, ListsOK
<1>2. chat'[u] = Append(chat[u], a) /\ \A v \in Users \ {u} : chat'[v] = chat[v]
  BY DEF FilesInv, TablesOK, ListsOK
<1>3. ToSet(chat'[u]) = ToSet(chat[u]) \cup {a}
  BY <1>1, <1>2, ToSetAppend
<1>4. Requests(chat'[u], a.do, a.key) = Requests(chat[u], a.do, a.key) \cup {a.name}
  BY <1>1, <1>2, RequestsAppend
<1>5. ASSUME NEW v \in Users, NEW what, NEW k
      PROVE  /\ v # u \/ what # a.do \/ k # a.key =>
                   Requests(chat'[v], what, k) = Requests(chat[v], what, k)
             /\ InTurn(chat[v], what, k)
                  /\ (v = u /\ a.do = what /\ a.key = k =>
                        \A m \in Requests(chat[v], what, k) : m < a.name)
                => InTurn(chat'[v], what, k)
  <2>1. CASE v = u
    <3>1. /\ what # a.do \/ k # a.key => Requests(Append(chat[u], a), what, k) = Requests(chat[u], what, k)
          /\ InTurn(chat[u], what, k)
               /\ (a.do = what /\ a.key = k => \A m \in Requests(chat[u], what, k) : m < a.name)
             => InTurn(Append(chat[u], a), what, k)
      BY <1>1, RequestsAppend
    <3> QED
      BY <1>2, <2>1, <3>1
  <2>2. CASE v # u
    BY <1>2, <2>2
  <2> QED
    BY <2>1, <2>2
<1> QED
  BY <1>2, <1>3, <1>4, <1>5

\* A user's first request is handled.
Handles(u, a) ==
    a = Head(chat[u]) /\ chat[u] # << >> /\ chat' = [chat EXCEPT ![u] = Tail(@)]

\* ... until it is handled, as the first of its user's.
LEMMA HandledEffect ==
  ASSUME FilesInv, NEW u \in Users, NEW a, Handles(u, a)
  PROVE  /\ a \in Asks /\ a \in ToSet(chat[u])
         /\ \A v \in Users : ToSet(chat'[v]) \subseteq ToSet(chat[v])
         /\ Requests(chat[u], a.do, a.key) = Requests(chat'[u], a.do, a.key) \cup {a.name}
         /\ \A v \in Users : \A what, k :
              /\ v # u \/ what # a.do \/ k # a.key =>
                    Requests(chat'[v], what, k) = Requests(chat[v], what, k)
              /\ InTurn(chat[v], what, k) =>
                    /\ InTurn(chat'[v], what, k)
                    /\ v = u /\ a.do = what /\ a.key = k =>
                          \A m \in Requests(chat'[v], what, k) : a.name < m
<1>0. a = Head(chat[u]) /\ chat[u] # << >> /\ chat' = [chat EXCEPT ![u] = Tail(@)]
  BY DEF Handles
<1>1. \A v \in Users : chat[v] \in Seq(Asks)
  BY DEF FilesInv, TablesOK, ListsOK
<1>2. chat'[u] = Tail(chat[u]) /\ \A v \in Users \ {u} : chat'[v] = chat[v]
  BY <1>0 DEF FilesInv, TablesOK, ListsOK
<1>3. a \in Asks /\ ToSet(chat[u]) = {a} \cup ToSet(Tail(chat[u]))
  BY <1>0, <1>1, RestElements
<1>4. \A v \in Users : ToSet(chat'[v]) \subseteq ToSet(chat[v])
  BY <1>2, <1>3
<1>5. ASSUME NEW v \in Users, NEW what, NEW k
      PROVE  /\ v # u \/ what # a.do \/ k # a.key =>
                   Requests(chat'[v], what, k) = Requests(chat[v], what, k)
             /\ InTurn(chat[v], what, k) =>
                  /\ InTurn(chat'[v], what, k)
                  /\ v = u /\ a.do = what /\ a.key = k =>
                        \A m \in Requests(chat'[v], what, k) : a.name < m
  <2>1. CASE v = u
    <3>1. /\ what # a.do \/ k # a.key => Requests(Tail(chat[u]), what, k) = Requests(chat[u], what, k)
          /\ InTurn(chat[u], what, k) =>
                /\ InTurn(Tail(chat[u]), what, k)
                /\ a.do = what /\ a.key = k =>
                      \A m \in Requests(Tail(chat[u]), what, k) : a.name < m
      BY <1>0, <1>1, RequestsTail
    <3> QED
      BY <1>2, <2>1, <3>1
  <2>2. CASE v # u
    BY <1>2, <2>2
  <2> QED
    BY <2>1, <2>2
<1>6. Requests(chat[u], a.do, a.key) = Requests(chat'[u], a.do, a.key) \cup {a.name}
  <2>1. PICK what, k : a.do = what /\ a.key = k
    OBVIOUS
  <2>2. Requests(chat[u], what, k) = Requests(Tail(chat[u]), what, k) \cup {a.name}
    <3>1. PICK q : q = chat[u]
      OBVIOUS
    <3>2. q \in Seq(Asks) /\ q # << >> /\ a = Head(q)
      BY <1>0, <1>1, <3>1
    <3>3. a.do = what /\ a.key = k => Requests(q, what, k) = Requests(Tail(q), what, k) \cup {a.name}
      BY ONLY SMTT(30), <3>2, RequestsTail
    <3> QED
      BY <2>1, <3>1, <3>3
  <2> QED
    BY <1>2, <2>1, <2>2
<1> QED
  BY <1>3, <1>4, <1>5, <1>6

\* What names are about: the people of a key, and of it what is filed, shown,
\* asked for and fetched.
LEMMA NamedTypes ==
  ASSUME FilesInv, AskedOK, NamedOK, NEW k \in Keys
  PROVE  /\ k[1] \in Users /\ k[2] \in Names /\ UploadsOf(k) \subseteq Transfers
         /\ Untold(k) \subseteq UploadsOf(k) /\ Taken(k) \subseteq UploadsOf(k)
         /\ ToFriend(k) => /\ k[2] \in Users /\ Audience[k[2]] = {k[2]}
                           /\ Fetching(k) \subseteq UploadsOf(k)
         /\ \A v \in Users : /\ names[v][k] \in Seq(Transfers) /\ cache[v][k] \in Seq(Transfers)
                             /\ ToSet(names[v][k]) \subseteq UploadsOf(k)
                             /\ ToSet(cache[v][k]) \subseteq UploadsOf(k)
<1>1. k[1] \in Users /\ k[2] \in Names
  BY FilesAssumption DEF Keys
<1>2. UploadsOf(k) \subseteq Transfers
  BY OfKey
<1>3. \A v \in Users : \A what : Requests(chat[v], what, k) \subseteq UploadsOf(k)
  BY DEF Requests, AskedOK
<1>4. Taken(k) \subseteq UploadsOf(k)
  BY OfKey DEF Taken, NamedOK
<1>5. ASSUME ToFriend(k) PROVE k[2] \in Users /\ Audience[k[2]] = {k[2]}
  BY <1>1, <1>5, FilesAssumption DEF ToFriend
<1>6. \A v \in Users : /\ names[v][k] \in Seq(Transfers) /\ cache[v][k] \in Seq(Transfers)
                       /\ ToSet(names[v][k]) \subseteq UploadsOf(k)
                       /\ ToSet(cache[v][k]) \subseteq UploadsOf(k)
  BY DEF FilesInv, TablesOK, ListsOK, NamedOK
<1> QED
  BY <1>1, <1>2, <1>3, <1>4, <1>5, <1>6 DEF Untold, Fetching

\* A download that is not another one still fetches what its user may.
LEMMA NamedStays ==
  ASSUME NamedOK, \A l : UploadsOf(l) \subseteq UploadsOf(l)', NEW t \in Downs, x'[t] = x[t]
  PROVE  /\ (x[t].name \in UploadsOf(x[t].key))' /\ x'[t].name < t
         /\ x'[t].by \in Audience[x'[t].key[2]]
<1>1. PICK l : l = x[t].key
  OBVIOUS
<1>2. x'[t].name \in UploadsOf(l)'
  BY <1>1 DEF NamedOK
<1>3. (x[t].name \in UploadsOf(x[t].key))'
  BY <1>1, <1>2
<1> QED
  BY <1>3 DEF NamedOK

\* An upload is the latest of its key, and not told of yet (send_friends.cc:293-341).
LEMMA SendFileLists ==
  ASSUME FilesInv, DownloadsOK, HistoryOK, faults \in Nat,
         NEW u \in Users, NEW k \in Keys, send_file(u, k)
  PROVE  DownloadsOK' /\ HistoryOK'
<1>1. PICK n : n = Cardinality(Started) + 1
  OBVIOUS
<1>2. PICK a : a = [do |-> "SENDFILE", key |-> k, name |-> n]
  OBVIOUS
<1>3. /\ u = k[1] /\ u \notin Audience[k[2]] /\ StartThread(u, "up", k, None) /\ Ask(u, a)
      /\ UNCHANGED <<paths, names, file, opened, arr, ass, cache, ctl, rep, link, port, wk, crashed>>
  BY <1>1, <1>2 DEF send_file, redisVars, diskVars, sockVars, serverVars
<1>4. "up" \in Kinds
  BY DEF Kinds
<1>5. n \in Transfers /\ n \notin Started /\ \A s \in Started : s \in Transfers /\ s < n
  BY <1>1, <1>3, <1>4, StartEffect
<1>6. /\ a \in Asks /\ a.do = "SENDFILE" /\ a.key = k /\ a.name = n
      /\ a.do # "RECVFILE"
  BY <1>2, <1>5 DEF Asks
<1>7. chat' = [chat EXCEPT ![u] = Append(@, a)]
  BY <1>3 DEF Ask
<1>8. /\ ToSet(chat'[u]) = ToSet(chat[u]) \cup {a}
      /\ \A v \in Users \ {u} : chat'[v] = chat[v]
      /\ Requests(chat'[u], a.do, a.key) = Requests(chat[u], a.do, a.key) \cup {a.name}
      /\ \A v \in Users : \A what, l :
           /\ v # u \/ what # a.do \/ l # a.key =>
                 Requests(chat'[v], what, l) = Requests(chat[v], what, l)
           /\ InTurn(chat[v], what, l)
                /\ (v = u /\ a.do = what /\ a.key = l =>
                      \A m \in Requests(chat[v], what, l) : m < a.name)
              => InTurn(chat'[v], what, l)
  BY <1>6, <1>7, AskEffect, Zenon
<1>9. /\ \A l : \A t \in UploadsOf(l) \cup DownsOf(l) : t \in Transfers /\ t < n /\ x'[t] = x[t]
      /\ \A l : l # k => UploadsOf(l)' = UploadsOf(l)
      /\ \A l : DownsOf(l)' = DownsOf(l) /\ Taken(l)' = Taken(l)
      /\ UploadsOf(k)' = UploadsOf(k) \cup {n} /\ Downs' = Downs
  BY <1>1, <1>3, <1>4, StartSets
<1>10. \A l : UploadsOf(l) \subseteq UploadsOf(l)'
  BY <1>9
<1>11. AskedOK /\ NamedOK
  BY DEF HistoryOK
<1>12. AskedOK'
  <2>1. ASSUME NEW v \in Users, NEW b \in ToSet(chat'[v])
        PROVE  /\ b.name \in UploadsOf(b.key)'
               /\ b.do = "SENDFILE" => v = b.key[1]
               /\ b.do = "RECVFILE" => v \in Audience[b.key[2]]
    <3>1. CASE b \in ToSet(chat[v])
      BY <1>10, <1>11, <3>1 DEF AskedOK
    <3>2. CASE v = u /\ b = a
      BY <1>3, <1>6, <1>9, <3>2
    <3>3. b \in ToSet(chat[v]) \/ (v = u /\ b = a)
      BY <1>6, <1>8, <2>1
    <3> QED
      BY <3>1, <3>2, <3>3
  <2>2. ASSUME NEW l \in Keys PROVE InTurn(chat'[l[1]], "SENDFILE", l)
    <3>1. /\ l[1] \in Users /\ InTurn(chat[l[1]], "SENDFILE", l)
          /\ \A m \in Requests(chat[l[1]], "SENDFILE", l) : m \in UploadsOf(l)
      BY <1>11, NamedTypes DEF AskedOK, Untold
    <3>2. \A m \in Requests(chat[l[1]], "SENDFILE", l) : m < a.name
      BY <1>6, <1>9, <3>1
    <3> QED
      BY <1>6, <1>8, <3>1, <3>2
  <2> QED
    BY <2>1, <2>2 DEF AskedOK, InTurn
<1>13. NamedOK'
  <2>1. \A t \in Downs : t \in DownsOf(x[t].key)
    BY DEF DownsOf
  <2>2. ASSUME NEW t \in Downs
        PROVE  /\ (x[t].name \in UploadsOf(x[t].key))' /\ x'[t].name < t
               /\ x'[t].by \in Audience[x'[t].key[2]]
    <3>1. x'[t] = x[t]
      BY <1>9, <2>1
    <3> QED
      BY <1>10, <1>11, <3>1, NamedStays
  <2>3. \A v \in Users, l \in Keys :
          ToSet(names'[v][l]) \subseteq UploadsOf(l)' /\ ToSet(cache'[v][l]) \subseteq UploadsOf(l)'
    BY <1>3, <1>10, <1>11 DEF NamedOK
  <2> QED
    BY <1>9, <2>2, <2>3 DEF NamedOK
<1>14. /\ AloneOK' /\ muddled \subseteq muddled'
       /\ \A l \in Keys : l \notin muddled' => PathsOK(l)' /\ (ToFriend(l) => FetchedOK(l)')
  BY <1>3, <1>4, StartLists
<1>15. ASSUME NEW l \in Keys, l \notin muddled', ToFriend(l) PROVE NamesOK(l)' /\ ShownOK(l)'
  <2>1. NamesOK(l) /\ ShownOK(l)
    BY <1>14, <1>15 DEF HistoryOK, KeysOK, Orderly
  <2>2. PICK r : r = l[2]
    OBVIOUS
  <2>3. /\ l[1] \in Users /\ r \in Users /\ UploadsOf(l) \subseteq Transfers
        /\ Untold(l) \subseteq UploadsOf(l) /\ Taken(l) \subseteq UploadsOf(l)
        /\ ToSet(cache[r][l]) \subseteq UploadsOf(l)
    BY <1>11, <1>15, <2>2, NamedTypes
  <2>4. PICK D : D = IF l = k THEN {n} ELSE {}
    OBVIOUS
  <2>5. Untold(l)' = Untold(l) \cup D
    <3>1. CASE l = k
      BY <1>3, <1>6, <1>8, <2>4, <3>1 DEF Untold
    <3>2. CASE l # k
      BY <1>6, <1>8, <2>3, <2>4, <3>2 DEF Untold
    <3> QED
      BY <3>1, <3>2
  <2>6. Fetching(l)' = Fetching(l) /\ InTurn(chat'[r], "RECVFILE", l)
    <3>1. InTurn(chat[r], "RECVFILE", l)
      BY <2>1, <2>2 DEF NamesOK
    <3>2. Requests(chat'[r], "RECVFILE", l) = Requests(chat[r], "RECVFILE", l)
      BY <1>6, <1>8, <2>3
    <3>3. InTurn(chat'[r], "RECVFILE", l)
      BY <1>6, <1>8, <2>3, <3>1
    <3> QED
      BY <2>2, <3>2, <3>3 DEF Fetching, Requests
  <2>7. UploadsOf(l)' = UploadsOf(l) \cup D /\ Taken(l)' = Taken(l)
    <3>1. CASE l = k
      BY <1>9, <2>4, <3>1
    <3>2. CASE l # k
      BY <1>9, <2>4, <3>2
    <3> QED
      BY <3>1, <3>2
  <2>8. /\ \A d \in D : d \notin UploadsOf(l) /\ d \in Transfers
        /\ \A d \in D, m \in UploadsOf(l) \cup D : ~(d < m)
    <3>1. \A i, j \in Nat : i < j => ~(j < i) /\ i # j
      OBVIOUS
    <3>2. \A i \in Nat : ~(i < i)
      OBVIOUS
    <3>3. n \in Nat /\ \A m \in UploadsOf(l) : m \in Nat /\ m < n
      BY <1>5, <1>9, Bounds
    <3>4. n \notin UploadsOf(l) /\ ~(n < n) /\ \A m \in UploadsOf(l) : ~(n < m)
      BY <3>1, <3>2, <3>3
    <3> QED
      BY <1>5, <2>4, <3>4
  <2>9. NamesOK(l)'
    <3>1. /\ Rising(names[r][l])
          /\ ToSet(names[r][l]) = (UploadsOf(l) \ Untold(l)) \ (Taken(l) \ Fetching(l))
          /\ \A m \in Untold(l), i \in UploadsOf(l) : m < i => i \in Untold(l)
          /\ Taken(l) \cap Untold(l) = {} /\ Fetching(l) \subseteq Taken(l)
          /\ \A i \in Taken(l), m \in UploadsOf(l) : m < i => m \in Taken(l)
      BY <2>1, <2>2 DEF NamesOK
    <3>2. Rising(names'[r][l])
      BY <1>3, <3>1
    <3>3. ToSet(names'[r][l]) = (UploadsOf(l)' \ Untold(l)') \ (Taken(l)' \ Fetching(l)')
      BY <1>3, <2>5, <2>6, <2>7, <2>8, <3>1
    <3>4. \A m \in Untold(l)', i \in UploadsOf(l)' : m < i => i \in Untold(l)'
      BY <2>3, <2>5, <2>7, <2>8, <3>1
    <3>5. Taken(l)' \cap Untold(l)' = {} /\ Fetching(l)' \subseteq Taken(l)'
      BY <2>3, <2>5, <2>6, <2>7, <2>8, <3>1
    <3>6. \A i \in Taken(l)', m \in UploadsOf(l)' : m < i => m \in Taken(l)'
      BY <2>3, <2>7, <2>8, <3>1
    <3> QED
      BY <2>2, <2>6, <3>2, <3>3, <3>4, <3>5, <3>6 DEF NamesOK, Rising, InTurn
  <2>10. ShownOK(l)'
    <3>1. /\ ToSet(cache[r][l]) \cap Untold(l) = {}
          /\ \A i \in DOMAIN cache[r][l], m \in UploadsOf(l) :
                m < cache[r][l][i] =>
                  m \in Taken(l) \/ \E j \in DOMAIN cache[r][l] : j < i /\ cache[r][l][j] = m
      BY <2>1, <2>2 DEF ShownOK
    <3>2. \A i \in DOMAIN cache[r][l] : cache[r][l][i] \in UploadsOf(l)
      BY <2>3 DEF ToSet
    <3>3. ToSet(cache'[r][l]) \cap Untold(l)' = {}
      BY <1>3, <2>3, <2>5, <2>8, <3>1
    <3>4. \A i \in DOMAIN cache[r][l], m \in UploadsOf(l)' :
                m < cache[r][l][i] =>
                  m \in Taken(l) \/ \E j \in DOMAIN cache[r][l] : j < i /\ cache[r][l][j] = m
      BY <2>7, <2>8, <3>1, <3>2
    <3> QED
      BY <1>3, <2>2, <2>7, <3>3, <3>4 DEF ShownOK
  <2> QED
    BY <2>9, <2>10
<1>16. HistoryOK'
  BY <1>12, <1>13, <1>14, <1>15 DEF HistoryOK, KeysOK, Orderly, ToFriend
<1>17. DownloadsOK'
  BY <1>3, <1>4, StartDownloads
<1> QED
  BY <1>16, <1>17

\* A step of names alone: no path and no file is another.
LEMMA ServerStays ==
  ASSUME FilesInv, HistoryOK,
         UNCHANGED <<x, file, link, ctl, wk, crashed, muddled, paths, opened>>
  PROVE  /\ SameThreads /\ AloneOK'
         /\ \A k : UploadsOf(k)' = UploadsOf(k) /\ Taken(k)' = Taken(k)
         /\ \A k \in Keys : k \notin muddled' => PathsOK(k)' /\ (ToFriend(k) => FetchedOK(k)')
<1>1. SameThreads
  BY DEF SameThreads
<1>2. AloneOK'
  <2>1. \A t : Active(t)' <=> Active(t)
    BY DEF Active
  <2> QED
    BY <1>1, <2>1, AloneStays DEF HistoryOK
<1>3. \A t : SameStage(t)
  BY DEF SameStage, Stored, Served, Unconnected, Waits, Idle, Serves, FileOf, Fetches
<1>4. \A k : SameStages(k)
  BY <1>3 DEF SameStages
<1>5. ASSUME NEW k \in Keys, k \notin muddled' PROVE PathsOK(k)' /\ (ToFriend(k) => FetchedOK(k)')
  <2>1. PathsOK(k) /\ (ToFriend(k) => FetchedOK(k))
    BY <1>5 DEF HistoryOK, KeysOK, Orderly
  <2> QED
    BY <1>1, <1>4, <2>1, PathsStay, FetchedStays
<1> QED
  BY <1>1, <1>2, <1>5, SameSets

\* Names are added to those shown before: all names of a key that are not
\* fetched are among them, in order (RedisClient.cc:225-247).
LEMMA MoreShown ==
  ASSUME FilesInv, HistoryOK, NEW k \in Keys, Orderly(k), ToFriend(k),
         UploadsOf(k)' = UploadsOf(k), Taken(k)' = Taken(k), Untold(k)' = Untold(k),
         cache'[k[2]][k] = cache[k[2]][k] \o names[k[2]][k]
  PROVE  ShownOK(k)'
<1> DEFINE c == cache[k[2]][k]
           q == names[k[2]][k]
           z == c \o q
<1>1. NamesOK(k) /\ ShownOK(k) /\ AskedOK /\ NamedOK
  BY DEF HistoryOK, KeysOK
<1>2. /\ k[2] \in Users /\ c \in Seq(Transfers) /\ q \in Seq(Transfers)
      /\ ToSet(q) \subseteq UploadsOf(k) /\ UploadsOf(k) \subseteq Nat
  BY <1>1, NamedTypes, Bounds
<1>3. /\ Rising(q) /\ ToSet(q) = (UploadsOf(k) \ Untold(k)) \ (Taken(k) \ Fetching(k))
      /\ \A m \in Untold(k), n \in UploadsOf(k) : m < n => n \in Untold(k)
  BY <1>1 DEF NamesOK
<1>4. /\ ToSet(c) \cap Untold(k) = {}
      /\ \A i \in DOMAIN c, m \in UploadsOf(k) :
            m < c[i] => m \in Taken(k) \/ \E j \in DOMAIN c : j < i /\ c[j] = m
  BY <1>1 DEF ShownOK
<1>5. /\ z \in Seq(Transfers) /\ Len(z) = Len(c) + Len(q)
      /\ \A i \in 1 .. Len(c) + Len(q) :
            z[i] = IF i <= Len(c) THEN c[i] ELSE q[i - Len(c)]
  BY <1>2, ConcatProperties
<1>6. /\ Len(c) \in Nat /\ DOMAIN c = 1 .. Len(c) /\ Len(q) \in Nat /\ DOMAIN q = 1 .. Len(q)
      /\ DOMAIN z = 1 .. Len(c) + Len(q)
  BY <1>2, <1>5, Elements
<1>7. ShownOK(k)' <=>
        /\ ToSet(z) \cap Untold(k) = {}
        /\ \A i \in DOMAIN z, m \in UploadsOf(k) :
              m < z[i] => m \in Taken(k) \/ \E j \in DOMAIN z : j < i /\ z[j] = m
  BY DEF ShownOK
<1> HIDE DEF c, q, z
<1>8. /\ \A i \in DOMAIN c : i \in DOMAIN z /\ z[i] = c[i] /\ i \in Nat
      /\ \A i \in DOMAIN q : i + Len(c) \in DOMAIN z /\ z[i + Len(c)] = q[i] /\ i \in Nat
      /\ \A i \in DOMAIN z : i \in DOMAIN c \/ \E j \in DOMAIN q : i = j + Len(c)
  <2>1. \A i \in DOMAIN c : i \in DOMAIN z /\ z[i] = c[i] /\ i \in Nat
    BY <1>5, <1>6
  <2>2. ASSUME NEW i \in DOMAIN q
        PROVE  i + Len(c) \in DOMAIN z /\ z[i + Len(c)] = q[i] /\ i \in Nat
    <3>1. i \in Nat /\ i + Len(c) \in 1 .. Len(c) + Len(q) /\ ~(i + Len(c) <= Len(c))
          /\ (i + Len(c)) - Len(c) = i
      BY <1>6
    <3> QED
      BY <1>5, <1>6, <3>1
  <2>3. ASSUME NEW i \in DOMAIN z, i \notin DOMAIN c PROVE \E j \in DOMAIN q : i = j + Len(c)
    <3>1. i - Len(c) \in 1 .. Len(q) /\ i = (i - Len(c)) + Len(c)
      BY <1>6, <2>3
    <3> QED
      BY <1>6, <3>1
  <2> QED
    BY <2>1, <2>2, <2>3
<1>9. ToSet(z) \cap Untold(k) = {}
  <2>1. ToSet(z) \subseteq ToSet(c) \cup ToSet(q)
    BY <1>8 DEF ToSet
  <2> QED
    BY <1>3, <1>4, <2>1
<1>10. ASSUME NEW i \in DOMAIN z, NEW m \in UploadsOf(k), m < z[i], m \notin Taken(k)
       PROVE  \E j \in DOMAIN z : j < i /\ z[j] = m
  <2>1. CASE i \in DOMAIN c
    <3>1. PICK j \in DOMAIN c : j < i /\ c[j] = m
      BY <1>4, <1>8, <1>10, <2>1
    <3> QED
      BY <1>8, <3>1
  <2>2. ASSUME NEW h \in DOMAIN q, i = h + Len(c) PROVE \E j \in DOMAIN z : j < i /\ z[j] = m
    <3>1. z[i] = q[h] /\ q[h] \in ToSet(q) /\ h \in Nat
      BY <1>8, <2>2 DEF ToSet
    <3>2. m \in ToSet(q)
      BY <1>2, <1>3, <1>10, <3>1
    <3>3. PICK j \in DOMAIN q : q[j] = m
      BY <3>2 DEF ToSet
    <3>4. j < h
      <4>1. q[j] < q[h] /\ q[j] \in Nat /\ q[h] \in Nat /\ j \in Nat
        BY <1>2, <1>8, <1>10, <3>1, <3>2, <3>3
      <4>2. ~(h < j)
        <5>1. h < j => q[h] < q[j]
          BY <1>3, <3>3 DEF Rising
        <5> QED
          BY <4>1, <5>1
      <4>3. j # h
        BY <4>1
      <4> QED
        BY <3>1, <4>1, <4>2, <4>3
    <3>5. j + Len(c) < i
      BY <1>6, <1>8, <2>2, <3>1, <3>4
    <3> QED
      BY <1>8, <3>3, <3>5
  <2> QED
    BY <1>8, <2>1, <2>2
<1> QED
  BY <1>7, <1>9, <1>10

\* Nothing is in two sequences together that is in neither.
LEMMA ToSetConcat ==
  ASSUME NEW S, NEW q \in Seq(S), NEW z \in Seq(S)
  PROVE  ToSet(q \o z) \subseteq ToSet(q) \cup ToSet(z)
<1>1. /\ q \o z \in Seq(S) /\ Len(q \o z) = Len(q) + Len(z)
      /\ \A i \in 1 .. Len(q) + Len(z) :
            (q \o z)[i] = IF i <= Len(q) THEN q[i] ELSE z[i - Len(q)]
  BY ConcatProperties
<1>2. /\ Len(q) \in Nat /\ DOMAIN q = 1 .. Len(q) /\ Len(z) \in Nat /\ DOMAIN z = 1 .. Len(z)
      /\ DOMAIN (q \o z) = 1 .. Len(q) + Len(z)
  BY <1>1, Elements
<1>3. ASSUME NEW i \in 1 .. Len(q) + Len(z)
      PROVE  (q \o z)[i] \in ToSet(q) \cup ToSet(z)
  <2>1. CASE i <= Len(q)
    <3>1. i \in 1 .. Len(q) /\ (q \o z)[i] = q[i]
      BY <1>1, <1>2, <1>3, <2>1
    <3> QED
      BY <1>2, <3>1 DEF ToSet
  <2>2. CASE ~(i <= Len(q))
    <3>1. i - Len(q) \in 1 .. Len(z) /\ (q \o z)[i] = z[i - Len(q)]
      BY <1>1, <1>2, <1>3, <2>2
    <3> QED
      BY <1>2, <3>1 DEF ToSet
  <2> QED
    BY <2>1, <2>2
<1>4. ASSUME NEW e \in ToSet(q \o z) PROVE e \in ToSet(q) \cup ToSet(z)
  <2>1. PICK i \in DOMAIN (q \o z) : e = (q \o z)[i]
    BY <1>4 DEF ToSet
  <2> QED
    BY <1>2, <1>3, <2>1
<1> QED
  BY <1>4

\* look_file: what is filed is shown (RedisClient.cc:225-247).
LEMMA LookFileLists ==
  ASSUME FilesInv, DownloadsOK, HistoryOK, NEW u \in Users, NEW k \in Keys, look_file(u, k)
  PROVE  DownloadsOK' /\ HistoryOK' /\ crashed' = crashed /\ crashed = None
<1>1. /\ UNCHANGED <<paths, names, file, opened, x, arr, ass, chat, ctl, rep, link, port, wk,
                     crashed, muddled>>
      /\ crashed = None
      /\ cache' = [cache EXCEPT ![u] = [l \in Keys |->
                    IF l[2] = k[2] THEN @[l] \o names[u][l] ELSE @[l]]]
  BY DEF look_file, redisVars, diskVars, clientVars, sockVars, serverVars, Up
<1>2. /\ SameThreads /\ AloneOK'
      /\ \A l : UploadsOf(l)' = UploadsOf(l) /\ Taken(l)' = Taken(l)
      /\ \A l \in Keys : l \notin muddled' => PathsOK(l)' /\ (ToFriend(l) => FetchedOK(l)')
  BY <1>1, ServerStays
<1>3. AskedOK /\ NamedOK
  BY DEF HistoryOK
<1>4. AskedOK'
  BY <1>1, <1>2, <1>3 DEF AskedOK, InTurn
<1>5. cache \in [Users -> [Keys -> Seq(Transfers)]] /\ names \in [Users -> [Keys -> Seq(Transfers)]]
  BY DEF FilesInv, TablesOK, ListsOK
<1>6. /\ \A v \in Users \ {u} : cache'[v] = cache[v]
      /\ \A l \in Keys : /\ l[2] = k[2] => cache'[u][l] = cache[u][l] \o names[u][l]
                         /\ l[2] # k[2] => cache'[u][l] = cache[u][l]
  BY <1>1, <1>5
<1>7. ASSUME NEW v \in Users, NEW l \in Keys
      PROVE  /\ ToSet(cache'[v][l]) \subseteq UploadsOf(l)
             /\ \/ cache'[v][l] = cache[v][l]
                \/ cache'[v][l] = cache[v][l] \o names[v][l]
  <2>1. /\ cache[v][l] \in Seq(Transfers) /\ ToSet(cache[v][l]) \subseteq UploadsOf(l)
        /\ names[v][l] \in Seq(Transfers) /\ ToSet(names[v][l]) \subseteq UploadsOf(l)
    BY <1>3, NamedTypes
  <2>2. cache'[v][l] = cache[v][l] \/ cache'[v][l] = cache[v][l] \o names[v][l]
    BY <1>6
  <2>3. ToSet(cache[v][l] \o names[v][l]) \subseteq ToSet(cache[v][l]) \cup ToSet(names[v][l])
    BY <2>1, ToSetConcat
  <2> QED
    BY <2>1, <2>2, <2>3
<1>8. NamedOK'
  <2>1. ASSUME NEW t \in Downs
        PROVE  /\ (x[t].name \in UploadsOf(x[t].key))' /\ x'[t].name < t
               /\ x'[t].by \in Audience[x'[t].key[2]]
    <3>1. x'[t] = x[t] /\ \A l : UploadsOf(l) \subseteq UploadsOf(l)'
      BY <1>1, <1>2
    <3> QED
      BY <1>3, <3>1, NamedStays
  <2>2. Downs' = Downs
    BY <1>2, SameSets
  <2>3. \A v \in Users, l \in Keys :
          ToSet(names'[v][l]) \subseteq UploadsOf(l)' /\ ToSet(cache'[v][l]) \subseteq UploadsOf(l)'
    BY <1>1, <1>2, <1>3, <1>7 DEF NamedOK
  <2> QED
    BY <2>1, <2>2, <2>3 DEF NamedOK
<1>9. ASSUME NEW l \in Keys, l \notin muddled', ToFriend(l) PROVE NamesOK(l)' /\ ShownOK(l)'
  <2>1. NamesOK(l) /\ ShownOK(l) /\ Orderly(l) /\ l[2] \in Users
    BY <1>1, <1>9 DEF HistoryOK, KeysOK, Orderly, ToFriend
  <2>2. UploadsOf(l)' = UploadsOf(l) /\ Taken(l)' = Taken(l) /\ Untold(l)' = Untold(l)
        /\ Fetching(l)' = Fetching(l)
    BY <1>1, <1>2 DEF Untold, Fetching, Requests
  <2>3. NamesOK(l)'
    BY <1>1, <2>1, <2>2 DEF NamesOK, Rising, InTurn
  <2>4. CASE cache'[l[2]][l] = cache[l[2]][l]
    BY <2>1, <2>2, <2>3, <2>4 DEF ShownOK
  <2>5. CASE cache'[l[2]][l] = cache[l[2]][l] \o names[l[2]][l]
    BY <1>9, <2>1, <2>2, <2>3, <2>5, MoreShown
  <2> QED
    BY <1>7, <2>1, <2>3, <2>4, <2>5
<1>10. HistoryOK'
  BY <1>2, <1>4, <1>8, <1>9 DEF HistoryOK, KeysOK, Orderly, ToFriend
<1>11. DownloadsOK'
  BY <1>1, ListsDownloads
<1> QED
  BY <1>1, <1>10, <1>11

\* The first of each name comes after those of all smaller ones, but some.
InOrder(q, some, k) ==
    \A i \in DOMAIN q, m \in UploadsOf(k) :
        m < q[i] => m \in some \/ \E j \in DOMAIN q : j < i /\ q[j] = m

Shown(k) == cache[k[2]][k]

\* A friend's first name is fetched: it is the least of those not fetched
\* before, and one he has been told of (send_friends.cc:354-404).
LEMMA FirstShown ==
  ASSUME FilesInv, HistoryOK, NEW k \in Keys, k \notin muddled', Orderly(k), ToFriend(k),
         Shown(k) # << >>,
         \A s \in Downs : x[s].by = k[2] /\ x[s].key = k /\ x[s].name = Head(Shown(k))
                           => k \in muddled'
  PROVE  /\ Head(Shown(k)) \in UploadsOf(k) \ (Taken(k) \cup Untold(k))
         /\ \A m \in UploadsOf(k) : m < Head(Shown(k)) => m \in Taken(k)
         /\ \A m \in Fetching(k) : m < Head(Shown(k))
         /\ ToSet(Tail(Shown(k))) \cap Untold(k) = {}
         /\ InOrder(Tail(Shown(k)), Taken(k) \cup {Head(Shown(k))}, k)
<1>0. PICK q, e : q = cache[k[2]][k] /\ q = Shown(k) /\ e = Head(q) /\ q # << >>
  BY DEF Shown
<1>1. NamesOK(k) /\ ShownOK(k) /\ AskedOK /\ NamedOK
  BY DEF HistoryOK, KeysOK
<1>2. /\ k[2] \in Users /\ Audience[k[2]] = {k[2]} /\ q \in Seq(Transfers)
      /\ ToSet(q) \subseteq UploadsOf(k) /\ UploadsOf(k) \subseteq Nat
      /\ Taken(k) \subseteq UploadsOf(k)
  <2>1. /\ k[2] \in Users /\ Audience[k[2]] = {k[2]}
        /\ UploadsOf(k) \subseteq Transfers /\ Taken(k) \subseteq UploadsOf(k)
        /\ \A v \in Users : cache[v][k] \in Seq(Transfers)
                            /\ ToSet(cache[v][k]) \subseteq UploadsOf(k)
    BY <1>1, NamedTypes
  <2> QED
    BY <1>0, <2>1, Bounds
<1>3. /\ ToSet(q) \cap Untold(k) = {}
      /\ \A i \in DOMAIN q, m \in UploadsOf(k) :
            m < q[i] => m \in Taken(k) \/ \E j \in DOMAIN q : j < i /\ q[j] = m
  BY <1>0, <1>1 DEF ShownOK
<1> DEFINE z == Tail(q)
<1>4. /\ e = q[1] /\ 1 \in 1 .. Len(q) /\ DOMAIN z = 1 .. Len(q) - 1
      /\ \A i \in 1 .. Len(q) - 1 : z[i] = q[i + 1] /\ i + 1 \in 1 .. Len(q)
      /\ ToSet(q) = {e} \cup ToSet(z)
  <2>1. q \in Seq(Transfers) /\ q # << >> /\ e = Head(q)
    BY <1>0, <1>2
  <2> QED
    BY ONLY <2>1, RestElements
<1>5. Len(q) \in Nat /\ DOMAIN q = 1 .. Len(q)
  BY <1>2, Elements
<1> HIDE DEF z
<1>6. e \in UploadsOf(k) /\ e \notin Untold(k) /\ ToSet(z) \cap Untold(k) = {}
  BY <1>2, <1>3, <1>4
<1>7. e \notin Taken(k)
  <2> SUFFICES ASSUME e \in Taken(k) PROVE FALSE
    OBVIOUS
  <2>1. PICK d \in DownsOf(k) : x[d].name = e
    BY DEF Taken
  <2>2. d \in Downs /\ x[d].key = k /\ x[d].by \in Audience[k[2]]
    BY <1>1, OfKey DEF NamedOK
  <2> QED
    BY <1>0, <1>2, <2>1, <2>2
<1>8. ASSUME NEW m \in UploadsOf(k), m < e PROVE m \in Taken(k)
  <2>1. \A j \in DOMAIN q : ~(j < 1)
    BY <1>5
  <2> QED
    BY <1>3, <1>4, <1>5, <1>8, <2>1
<1>9. ASSUME NEW m \in Fetching(k) PROVE m < e
  <2>1. /\ m \in Taken(k) /\ m \in UploadsOf(k)
        /\ e < m => e \in Taken(k)
    BY <1>1, <1>2, <1>6 DEF NamesOK
  <2>2. m # e /\ ~(e < m) /\ m \in Nat /\ e \in Nat
    BY <1>2, <1>6, <1>7, <2>1
  <2> QED
    BY <2>2
<1>10. ASSUME NEW i \in DOMAIN z, NEW m \in UploadsOf(k), m < z[i], m \notin Taken(k), m # e
       PROVE  \E j \in DOMAIN z : j < i /\ z[j] = m
  <2>1. i \in Nat /\ i + 1 \in DOMAIN q /\ m < q[i + 1]
    BY <1>4, <1>5, <1>10
  <2>2. PICK j \in DOMAIN q : j < i + 1 /\ q[j] = m
    BY <1>3, <1>10, <2>1
  <2>3. j # 1 /\ j \in 1 .. Len(q)
    BY <1>4, <1>5, <1>10, <2>2
  <2>4. j - 1 \in 1 .. Len(q) - 1 /\ (j - 1) + 1 = j /\ j - 1 < i
    BY <1>5, <2>1, <2>2, <2>3
  <2>5. z[j - 1] = m
    BY <1>4, <2>2, <2>4
  <2> QED
    BY <1>4, <2>4, <2>5
<1>11. InOrder(z, Taken(k) \cup {e}, k)
  BY <1>10 DEF InOrder
<1> QED
  BY <1>0, <1>6, <1>7, <1>8, <1>9, <1>11 DEF z

\* recive_file: a name that is shown is fetched, a friend's first (send_friends.cc:354-404).
LEMMA ReciveFileLists ==
  ASSUME FilesInv, DownloadsOK, HistoryOK, faults \in Nat,
         NEW u \in Users, NEW k \in Keys, recive_file(u, k)
  PROVE  DownloadsOK' /\ HistoryOK'
<1>1. PICK n : n = Cardinality(Started) + 1
  OBVIOUS
<1>2. PICK i \in DOMAIN cache[u][k] :
        /\ ToFriend(k) => i = 1
        /\ Ask(u, [do |-> "RECVFILE", key |-> k, name |-> cache[u][k][i]])
        /\ StartThread(u, "down", k, cache[u][k][i])
        /\ cache' = [cache EXCEPT ![u][k] = RemoveFirst(@, cache[u][k][i])]
  BY Zenon DEF recive_file
<1>3. PICK e : e = cache[u][k][i]
  OBVIOUS
<1>4. PICK a : a = [do |-> "RECVFILE", key |-> k, name |-> e]
  OBVIOUS
<1>5. /\ u \in Audience[k[2]]
      /\ UNCHANGED <<paths, names, file, opened, arr, ass, ctl, rep, link, port, wk, crashed>>
  BY DEF recive_file, redisVars, diskVars, sockVars, serverVars
<1>6. Ask(u, a) /\ StartThread(u, "down", k, e) /\ cache' = [cache EXCEPT ![u][k] = RemoveFirst(@, e)]
  BY <1>2, <1>3, <1>4
<1>7. "down" \in Kinds
  BY DEF Kinds
<1>8. /\ n \in Transfers /\ n \notin Started /\ \A s \in Started : s \in Transfers /\ s < n
      /\ x'[n].by = u /\ x'[n].key = k
      /\ \A s \in Downs : "down" = "down" /\ x[s].by = u /\ x[s].key = k /\ x[s].name = e
                            => k \in muddled'
  BY <1>1, <1>6, <1>7, StartEffect
<1>9. x'[n].name = e
  <2>1. x'[n].name = IF "down" = "up" THEN n ELSE e
    BY <1>1, <1>6, <1>7, StartEffect
  <2> QED
    BY <2>1
<1>10. AskedOK /\ NamedOK
  BY DEF HistoryOK
<1>11. /\ cache[u][k] \in Seq(Transfers) /\ cache[u][k] # << >> /\ e \in ToSet(cache[u][k])
       /\ e \in UploadsOf(k) /\ e \in Transfers
  <2>1. cache[u][k] \in Seq(Transfers) /\ ToSet(cache[u][k]) \subseteq UploadsOf(k)
    BY <1>10, NamedTypes
  <2>2. e \in ToSet(cache[u][k])
    BY <1>3 DEF ToSet
  <2>3. cache[u][k] # << >>
    BY <1>2
  <2> QED
    BY <2>1, <2>2, <2>3, OfKey
<1>12. /\ a \in Asks /\ a.do = "RECVFILE" /\ a.key = k /\ a.name = e /\ a.do # "SENDFILE"
       /\ chat' = [chat EXCEPT ![u] = Append(@, a)]
  BY <1>4, <1>6, <1>11 DEF Asks, Ask
<1>13. /\ ToSet(chat'[u]) = ToSet(chat[u]) \cup {a}
       /\ \A v \in Users \ {u} : chat'[v] = chat[v]
       /\ Requests(chat'[u], a.do, a.key) = Requests(chat[u], a.do, a.key) \cup {a.name}
       /\ \A v \in Users : \A what, l :
            /\ v # u \/ what # a.do \/ l # a.key =>
                  Requests(chat'[v], what, l) = Requests(chat[v], what, l)
            /\ InTurn(chat[v], what, l)
                 /\ (v = u /\ a.do = what /\ a.key = l =>
                       \A m \in Requests(chat[v], what, l) : m < a.name)
               => InTurn(chat'[v], what, l)
  BY <1>12, AskEffect, Zenon
<1>14. /\ \A l : \A t \in UploadsOf(l) \cup DownsOf(l) : t \in Transfers /\ t < n /\ x'[t] = x[t]
       /\ \A l : UploadsOf(l)' = UploadsOf(l)
       /\ \A l : l # k => DownsOf(l)' = DownsOf(l) /\ Taken(l)' = Taken(l)
       /\ DownsOf(k)' = DownsOf(k) \cup {n} /\ Taken(k)' = Taken(k) \cup {e}
       /\ Downs' = Downs \cup {n}
  BY <1>1, <1>6, <1>7, StartSets
<1>15. /\ AloneOK' /\ muddled \subseteq muddled'
       /\ \A l \in Keys : l \notin muddled' => PathsOK(l)' /\ (ToFriend(l) => FetchedOK(l)')
  BY <1>5, <1>6, <1>7, StartLists
<1>16. /\ \A v \in Users, l \in Keys : v # u \/ l # k => cache'[v][l] = cache[v][l]
       /\ cache'[u][k] = RemoveFirst(cache[u][k], e)
  BY <1>6 DEF FilesInv, TablesOK, ListsOK
<1>17. AskedOK'
  <2>1. ASSUME NEW v \in Users, NEW b \in ToSet(chat'[v])
        PROVE  /\ b.name \in UploadsOf(b.key)'
               /\ b.do = "SENDFILE" => v = b.key[1]
               /\ b.do = "RECVFILE" => v \in Audience[b.key[2]]
    <3>1. CASE b \in ToSet(chat[v])
      BY <1>10, <1>14, <3>1 DEF AskedOK
    <3>2. CASE v = u /\ b = a
      BY <1>5, <1>11, <1>12, <1>14, <3>2
    <3>3. b \in ToSet(chat[v]) \/ (v = u /\ b = a)
      BY <1>13, <2>1
    <3> QED
      BY <3>1, <3>2, <3>3
  <2>2. ASSUME NEW l \in Keys PROVE InTurn(chat'[l[1]], "SENDFILE", l)
    <3>1. l[1] \in Users /\ InTurn(chat[l[1]], "SENDFILE", l)
      BY <1>10, NamedTypes DEF AskedOK
    <3> QED
      BY <1>12, <1>13, <3>1
  <2> QED
    BY <2>1, <2>2 DEF AskedOK, InTurn
<1>18. NamedOK'
  <2>1. ASSUME NEW t \in Downs
        PROVE  /\ (x[t].name \in UploadsOf(x[t].key))' /\ x'[t].name < t
               /\ x'[t].by \in Audience[x'[t].key[2]]
    <3>1. t \in DownsOf(x[t].key)
      BY DEF DownsOf
    <3>2. x'[t] = x[t] /\ \A l : UploadsOf(l) \subseteq UploadsOf(l)'
      BY <1>14, <3>1
    <3> QED
      BY <1>10, <3>2, NamedStays
  <2>2. /\ (x[n].name \in UploadsOf(x[n].key))' /\ x'[n].name < n
        /\ x'[n].by \in Audience[x'[n].key[2]]
    <3>1. e \in UploadsOf(k)' /\ e < n
      BY <1>11, <1>14
    <3>2. (x[n].name \in UploadsOf(x[n].key))'
      BY <1>8, <1>9, <3>1
    <3> QED
      BY <1>5, <1>8, <1>9, <3>1, <3>2
  <2>3. ASSUME NEW v \in Users, NEW l \in Keys
        PROVE  ToSet(names'[v][l]) \subseteq UploadsOf(l)' /\ ToSet(cache'[v][l]) \subseteq UploadsOf(l)'
    <3>1. ToSet(cache'[v][l]) \subseteq ToSet(cache[v][l])
      BY <1>11, <1>16, RemoveHead
    <3> QED
      BY <1>5, <1>10, <1>14, <3>1 DEF NamedOK
  <2> QED
    BY <1>14, <2>1, <2>2, <2>3 DEF NamedOK
<1>19. ASSUME NEW l \in Keys, l \notin muddled', ToFriend(l) PROVE NamesOK(l)' /\ ShownOK(l)'
  <2>1. NamesOK(l) /\ ShownOK(l) /\ Orderly(l)
    BY <1>15, <1>19 DEF HistoryOK, KeysOK, Orderly
  <2>2. PICK r : r = l[2]
    OBVIOUS
  <2>3. l[1] \in Users /\ r \in Users /\ Audience[r] = {r}
    BY <1>10, <1>19, <2>2, NamedTypes
  <2>4. Untold(l)' = Untold(l)
    BY <1>12, <1>13, <2>3 DEF Untold
  <2>5. /\ Rising(names[r][l])
        /\ ToSet(names[r][l]) = (UploadsOf(l) \ Untold(l)) \ (Taken(l) \ Fetching(l))
        /\ \A m \in Untold(l), j \in UploadsOf(l) : m < j => j \in Untold(l)
        /\ Taken(l) \cap Untold(l) = {} /\ Fetching(l) \subseteq Taken(l)
        /\ \A j \in Taken(l), m \in UploadsOf(l) : m < j => m \in Taken(l)
        /\ InTurn(chat[r], "RECVFILE", l)
    BY <2>1, <2>2 DEF NamesOK
  <2>6. CASE l = k
    <3>1. u = r /\ i = 1
      BY <1>2, <1>5, <1>19, <2>2, <2>3, <2>6
    <3>2. PICK q : q = cache[r][l] /\ q = Shown(l)
      BY <2>2 DEF Shown
    <3>3. q \in Seq(Transfers) /\ q # << >> /\ e = Head(q)
      BY <1>3, <1>11, <2>6, <3>1, <3>2
    <3>4. cache'[r][l] = Tail(q)
      BY <1>16, <2>6, <3>1, <3>2, <3>3, RemoveHead
    <3>5. \A s \in Downs : x[s].by = l[2] /\ x[s].key = l /\ x[s].name = e => l \in muddled'
      BY <1>8, <2>2, <2>6, <3>1
    <3>6. /\ e \in UploadsOf(l) /\ e \notin Taken(l) /\ e \notin Untold(l)
          /\ \A m \in UploadsOf(l) : m < e => m \in Taken(l)
          /\ \A m \in Fetching(l) : m < e
          /\ ToSet(Tail(q)) \cap Untold(l) = {}
          /\ InOrder(Tail(q), Taken(l) \cup {e}, l)
      BY <1>19, <2>1, <3>2, <3>3, <3>5, FirstShown
    <3>7. UploadsOf(l)' = UploadsOf(l) /\ Taken(l)' = Taken(l) \cup {e}
      BY <1>14, <2>6
    <3>8. Fetching(l)' = Fetching(l) \cup {e}
      BY <1>12, <1>13, <2>2, <2>6, <3>1 DEF Fetching
    <3>9. InTurn(chat'[r], "RECVFILE", l)
      <4>1. \A m \in Requests(chat[r], "RECVFILE", l) : m < a.name
        BY <1>12, <2>2, <3>6 DEF Fetching
      <4> QED
        BY <1>13, <2>3, <2>5, <4>1
    <3>10. NamesOK(l)'
      <4>1. Rising(names'[r][l])
        BY <1>5, <2>5
      <4>2. ToSet(names'[r][l]) = (UploadsOf(l)' \ Untold(l)') \ (Taken(l)' \ Fetching(l)')
        BY <1>5, <2>4, <2>5, <3>6, <3>7, <3>8
      <4>3. \A m \in Untold(l)', j \in UploadsOf(l)' : m < j => j \in Untold(l)'
        BY <2>4, <2>5, <3>7
      <4>4. Taken(l)' \cap Untold(l)' = {} /\ Fetching(l)' \subseteq Taken(l)'
        BY <2>4, <2>5, <3>6, <3>7, <3>8
      <4>5. \A j \in Taken(l)', m \in UploadsOf(l)' : m < j => m \in Taken(l)'
        BY <2>5, <3>6, <3>7
      <4> QED
        BY <2>2, <3>9, <4>1, <4>2, <4>3, <4>4, <4>5 DEF NamesOK, Rising, InTurn
    <3>11. ShownOK(l)'
      BY <2>2, <2>4, <3>4, <3>6, <3>7 DEF ShownOK, InOrder
    <3> QED
      BY <3>10, <3>11
  <2>7. CASE l # k
    <3>1. UploadsOf(l)' = UploadsOf(l) /\ Taken(l)' = Taken(l) /\ cache'[r][l] = cache[r][l]
      BY <1>14, <1>16, <2>3, <2>7
    <3>2. Fetching(l)' = Fetching(l) /\ InTurn(chat'[r], "RECVFILE", l)
      <4>1. Requests(chat'[r], "RECVFILE", l) = Requests(chat[r], "RECVFILE", l)
        BY SMTT(30), <1>12, <1>13, <2>3, <2>7
      <4>2. InTurn(chat'[r], "RECVFILE", l)
        BY <1>12, <1>13, <2>3, <2>5, <2>7
      <4> QED
        BY <2>2, <4>1, <4>2 DEF Fetching, Requests
    <3>3. NamesOK(l)'
      BY <1>5, <2>2, <2>4, <2>5, <3>1, <3>2 DEF NamesOK, Rising, InTurn
    <3>4. ShownOK(l)'
      BY <2>1, <2>2, <2>4, <3>1 DEF ShownOK
    <3> QED
      BY <3>3, <3>4
  <2> QED
    BY <2>6, <2>7
<1>20. HistoryOK'
  BY <1>15, <1>17, <1>18, <1>19 DEF HistoryOK, KeysOK, Orderly, ToFriend
<1>21. DownloadsOK'
  BY <1>5, <1>6, <1>7, StartDownloads
<1> QED
  BY <1>20, <1>21

\* The least name not told of yet is told of: it is greater than all that are
\* filed (RedisClient.cc:249-262).
LEMMA NameTold ==
  ASSUME FilesInv, HistoryOK, NEW k \in Keys, Orderly(k), ToFriend(k), NEW e,
         UploadsOf(k)' = UploadsOf(k), Taken(k)' = Taken(k), Fetching(k)' = Fetching(k),
         Untold(k) = Untold(k)' \cup {e}, \A m \in Untold(k)' : e < m,
         InTurn(chat'[k[2]], "RECVFILE", k),
         names'[k[2]][k] = Append(names[k[2]][k], e)
  PROVE  NamesOK(k)'
<1>1. NamesOK(k) /\ AskedOK /\ NamedOK
  BY DEF HistoryOK, KeysOK
<1>2. PICK q : q = names[k[2]][k]
  OBVIOUS
<1>3. /\ Rising(q) /\ ToSet(q) = (UploadsOf(k) \ Untold(k)) \ (Taken(k) \ Fetching(k))
      /\ \A m \in Untold(k), n \in UploadsOf(k) : m < n => n \in Untold(k)
      /\ Taken(k) \cap Untold(k) = {} /\ Fetching(k) \subseteq Taken(k)
      /\ \A n \in Taken(k), m \in UploadsOf(k) : m < n => m \in Taken(k)
  BY <1>1, <1>2 DEF NamesOK
<1>4. /\ q \in Seq(Transfers) /\ ToSet(q) \subseteq UploadsOf(k)
      /\ Untold(k) \subseteq UploadsOf(k) /\ UploadsOf(k) \subseteq Transfers
  <2>1. /\ k[2] \in Users /\ Untold(k) \subseteq UploadsOf(k) /\ UploadsOf(k) \subseteq Transfers
        /\ \A v \in Users : names[v][k] \in Seq(Transfers)
    BY <1>1, NamedTypes
  <2> QED
    BY <1>2, <1>3, <2>1
<1>5. e \in Untold(k) /\ e \in UploadsOf(k) /\ e \in Transfers
  BY <1>4
<1>6. e \notin Untold(k)' /\ e \notin Taken(k)
  <2>1. ~(e < e)
    BY <1>5, Bounds
  <2> QED
    BY <1>3, <1>5, <2>1
<1>7. \A m \in ToSet(q) : m < e
  <2> SUFFICES ASSUME NEW m \in ToSet(q) PROVE m < e
    OBVIOUS
  <2>1. m \in UploadsOf(k) /\ m \notin Untold(k) /\ m \in Nat /\ e \in Nat
    BY <1>3, <1>4, <1>5, Bounds
  <2>2. ~(e < m) /\ m # e
    BY <1>3, <1>5, <2>1
  <2> QED
    BY <2>1, <2>2
<1>8. Rising(Append(q, e)) /\ ToSet(Append(q, e)) = ToSet(q) \cup {e}
  BY <1>3, <1>4, <1>5, <1>7, RisingAppend, ToSetAppend
<1>9. \A m \in Untold(k)', n \in UploadsOf(k) : m < n => n \in Untold(k)'
  <2> SUFFICES ASSUME NEW m \in Untold(k)', NEW n \in UploadsOf(k), m < n PROVE n \in Untold(k)'
    OBVIOUS
  <2>1. n \in Untold(k) /\ e < m
    BY <1>3
  <2>2. e \in Nat /\ m \in Nat /\ n \in Nat
    BY <1>4, <1>5, Bounds
  <2>3. n # e
    BY <2>1, <2>2
  <2> QED
    BY <2>1, <2>3
<1>10. ToSet(names'[k[2]][k]) = (UploadsOf(k)' \ Untold(k)') \ (Taken(k)' \ Fetching(k)')
  BY <1>2, <1>3, <1>5, <1>6, <1>8
<1>11. Rising(names'[k[2]][k])
  BY <1>2, <1>8
<1>12. Taken(k)' \cap Untold(k)' = {} /\ Fetching(k)' \subseteq Taken(k)'
  BY <1>3
<1>13. /\ \A m \in Untold(k)', n \in UploadsOf(k)' : m < n => n \in Untold(k)'
       /\ \A n \in Taken(k)', m \in UploadsOf(k)' : m < n => m \in Taken(k)'
  BY <1>3, <1>9
<1> QED
  BY <1>10, <1>11, <1>12, <1>13 DEF NamesOK, Rising, InTurn

\* A friend's first name is popped when he has fetched the least he had not: it
\* is that one (RedisClient.cc:264-274).
LEMMA NameFetched ==
  ASSUME FilesInv, HistoryOK, NEW k \in Keys, Orderly(k), ToFriend(k), NEW e,
         UploadsOf(k)' = UploadsOf(k), Taken(k)' = Taken(k), Untold(k)' = Untold(k),
         Fetching(k) = Fetching(k)' \cup {e}, \A m \in Fetching(k)' : e < m,
         InTurn(chat'[k[2]], "RECVFILE", k),
         names'[k[2]][k] = delUserFile(names[k[2]][k])
  PROVE  NamesOK(k)'
<1>1. NamesOK(k) /\ AskedOK /\ NamedOK
  BY DEF HistoryOK, KeysOK
<1>2. PICK q : q = names[k[2]][k]
  OBVIOUS
<1>3. /\ Rising(q) /\ ToSet(q) = (UploadsOf(k) \ Untold(k)) \ (Taken(k) \ Fetching(k))
      /\ \A m \in Untold(k), n \in UploadsOf(k) : m < n => n \in Untold(k)
      /\ Taken(k) \cap Untold(k) = {} /\ Fetching(k) \subseteq Taken(k)
      /\ \A n \in Taken(k), m \in UploadsOf(k) : m < n => m \in Taken(k)
  BY <1>1, <1>2 DEF NamesOK
<1>4. /\ q \in Seq(Transfers) /\ Taken(k) \subseteq UploadsOf(k) /\ UploadsOf(k) \subseteq Nat
  <2>1. /\ k[2] \in Users /\ Taken(k) \subseteq UploadsOf(k) /\ UploadsOf(k) \subseteq Transfers
        /\ \A v \in Users : names[v][k] \in Seq(Transfers)
    BY <1>1, NamedTypes
  <2> QED
    BY <1>2, <2>1, Bounds
<1>5. e \in Fetching(k) /\ e \in Taken(k) /\ e \in UploadsOf(k) /\ e \in ToSet(q) /\ e \in Nat
  BY <1>3, <1>4
<1>6. e \notin Fetching(k)'
  <2>1. ~(e < e)
    BY <1>5
  <2> QED
    BY <2>1
<1>7. q # << >>
  BY <1>5 DEF ToSet
<1>8. /\ Head(q) \in ToSet(q) /\ ToSet(q) = {Head(q)} \cup ToSet(Tail(q))
      /\ Rising(Tail(q)) /\ \A m \in ToSet(Tail(q)) : Head(q) < m
  <2>1. ToSet(q) = {Head(q)} \cup ToSet(Tail(q))
    BY <1>4, <1>7, RestElements
  <2>2. Rising(Tail(q)) /\ \A m \in ToSet(Tail(q)) : Head(q) < m
    BY <1>3, <1>4, <1>7, RisingTail
  <2> QED
    BY <2>1, <2>2
<1>9. Head(q) = e
  <2> SUFFICES ASSUME Head(q) # e PROVE FALSE
    OBVIOUS
  <2>1. Head(q) < e
    BY <1>5, <1>8
  <2>2. Head(q) \in UploadsOf(k) /\ Head(q) \in Taken(k) /\ Head(q) \in Fetching(k)
    BY <1>3, <1>5, <1>8, <2>1
  <2>3. e < Head(q) /\ Head(q) \in Nat
    BY <1>4, <2>2
  <2> QED
    BY <1>5, <2>1, <2>3
<1>10. e \notin ToSet(Tail(q))
  <2>1. ~(e < e)
    BY <1>5
  <2> QED
    BY <1>8, <1>9, <2>1
<1>11. names'[k[2]][k] = Tail(q)
  BY <1>2, <1>7 DEF delUserFile
<1>12. ToSet(names'[k[2]][k]) = (UploadsOf(k)' \ Untold(k)') \ (Taken(k)' \ Fetching(k)')
  BY <1>3, <1>5, <1>6, <1>8, <1>9, <1>10, <1>11
<1>13. Rising(names'[k[2]][k])
  BY <1>8, <1>11
<1>14. Taken(k)' \cap Untold(k)' = {} /\ Fetching(k)' \subseteq Taken(k)'
  BY <1>3
<1> QED
  BY <1>3, <1>12, <1>13, <1>14 DEF NamesOK, Rising, InTurn

\* The chat server handles a request about a name: those filed for a friend
\* remain in order (connection.cc:256-311, 1028-1091).
LEMMA ConnectionLists ==
  ASSUME FilesInv, DownloadsOK, HistoryOK, NEW u \in Users, Connection_file(u)
  PROVE  DownloadsOK' /\ HistoryOK' /\ crashed' = crashed /\ crashed = None
<1>1. PICK a, k : a = Head(chat[u]) /\ k = a.key
  BY SMTT(30)
<1>2. /\ UNCHANGED <<paths, file, opened, x, arr, ass, cache, ctl, rep, link, port, wk,
                     crashed, muddled>>
      /\ crashed = None /\ chat[u] # << >> /\ chat' = [chat EXCEPT ![u] = Tail(@)]
      /\ \/ /\ a.do = "SENDFILE"
            /\ names' = [v \in Users |-> IF v \in Audience[k[2]]
                          THEN [names[v] EXCEPT ![k] = Append(@, a.name)] ELSE names[v]]
         \/ /\ a.do = "RECVFILE"
            /\ names' = [names EXCEPT ![u][k] =
                          IF ToFriend(k) THEN delUserFile(@) ELSE RemoveFirst(@, a.name)]
  <2>1. /\ UNCHANGED <<paths, file, opened, x, arr, ass, cache, ctl, rep, link, port, wk,
                       crashed, muddled>>
        /\ crashed = None /\ chat[u] # << >> /\ chat' = [chat EXCEPT ![u] = Tail(@)]
    BY DEF Connection_file, diskVars, clientVars, sockVars, serverVars, Up
  <2>2. \/ /\ a.do = "SENDFILE"
           /\ names' = [v \in Users |-> IF v \in Audience[k[2]]
                         THEN [names[v] EXCEPT ![k] = Append(@, a.name)] ELSE names[v]]
        \/ /\ a.do = "RECVFILE"
           /\ names' = [names EXCEPT ![u][k] =
                         IF ToFriend(k) THEN delUserFile(@) ELSE RemoveFirst(@, a.name)]
    BY <1>1, HandlersOfNames
  <2> QED
    BY <2>1, <2>2
<1>3. /\ SameThreads /\ AloneOK'
      /\ \A l : UploadsOf(l)' = UploadsOf(l) /\ Taken(l)' = Taken(l)
      /\ \A l \in Keys : l \notin muddled' => PathsOK(l)' /\ (ToFriend(l) => FetchedOK(l)')
  BY <1>2, ServerStays
<1>4. AskedOK /\ NamedOK
  BY SMTT(30) DEF HistoryOK
<1>5. Handles(u, a)
  BY <1>1, <1>2 DEF Handles
<1>6. /\ a \in Asks /\ a \in ToSet(chat[u])
      /\ \A v \in Users : ToSet(chat'[v]) \subseteq ToSet(chat[v])
      /\ Requests(chat[u], a.do, a.key) = Requests(chat'[u], a.do, a.key) \cup {a.name}
      /\ \A v \in Users : \A what, l :
           /\ v # u \/ what # a.do \/ l # a.key =>
                 Requests(chat'[v], what, l) = Requests(chat[v], what, l)
           /\ InTurn(chat[v], what, l) =>
                 /\ InTurn(chat'[v], what, l)
                 /\ v = u /\ a.do = what /\ a.key = l =>
                       \A m \in Requests(chat'[v], what, l) : a.name < m
  BY <1>5, HandledEffect, Zenon
<1>7. \A v \in Users : \A what, l :
        /\ v # u \/ what # a.do \/ l # a.key =>
              Requests(chat'[v], what, l) = Requests(chat[v], what, l)
        /\ InTurn(chat[v], what, l) =>
              /\ InTurn(chat'[v], what, l)
              /\ v = u /\ a.do = what /\ a.key = l =>
                    \A m \in Requests(chat'[v], what, l) : a.name < m
  BY <1>6, Zenon
<1>8. /\ k \in Keys /\ a.name \in UploadsOf(k) /\ a.name \in Transfers
      /\ a.do = "SENDFILE" => u = k[1]
      /\ a.do = "RECVFILE" => u \in Audience[k[2]]
  BY <1>1, <1>4, <1>6 DEF AskedOK, Asks
<1>9. AskedOK'
  <2>1. ASSUME NEW v \in Users, NEW b \in ToSet(chat'[v])
        PROVE  /\ b.name \in UploadsOf(b.key)'
               /\ b.do = "SENDFILE" => v = b.key[1]
               /\ b.do = "RECVFILE" => v \in Audience[b.key[2]]
    BY <1>3, <1>4, <1>6 DEF AskedOK
  <2>2. ASSUME NEW l \in Keys PROVE InTurn(chat'[l[1]], "SENDFILE", l)
    <3>1. l[1] \in Users /\ InTurn(chat[l[1]], "SENDFILE", l)
      BY <1>4, NamedTypes DEF AskedOK
    <3> QED
      BY <1>7, <3>1
  <2> QED
    BY <2>1, <2>2 DEF AskedOK, InTurn
<1>10. /\ \A v \in Users, l \in Keys : l # k => names'[v][l] = names[v][l]
       /\ a.do = "SENDFILE" => \A v \in Users :
             /\ v \in Audience[k[2]] => names'[v][k] = Append(names[v][k], a.name)
             /\ v \notin Audience[k[2]] => names'[v][k] = names[v][k]
       /\ a.do = "RECVFILE" =>
             /\ names'[u][k] = IF ToFriend(k) THEN delUserFile(names[u][k])
                                              ELSE RemoveFirst(names[u][k], a.name)
             /\ \A v \in Users \ {u} : names'[v][k] = names[v][k]
  <2>1. names \in [Users -> [Keys -> Seq(Transfers)]] /\ k \in Keys
    BY <1>8 DEF FilesInv, TablesOK, ListsOK
  <2>2. ASSUME NEW v \in Users, NEW l \in Keys, l # k PROVE names'[v][l] = names[v][l]
    <3>1. CASE a.do = "SENDFILE"
      <4>1. names'[v] = IF v \in Audience[k[2]]
                        THEN [names[v] EXCEPT ![k] = Append(@, a.name)] ELSE names[v]
        BY <1>2, <3>1
      <4>2. names[v] \in [Keys -> Seq(Transfers)]
        BY <2>1
      <4> QED
        BY <2>2, <4>1, <4>2
    <3>2. CASE a.do = "RECVFILE"
      <4>1. v # u => names'[v] = names[v]
        BY <1>2, <2>1, <3>2
      <4>2. names'[u][l] = names[u][l]
        BY <1>2, <2>1, <2>2, <3>2
      <4> QED
        BY <4>1, <4>2
    <3> QED
      BY <1>2, <3>1, <3>2
  <2>3. ASSUME a.do = "SENDFILE", NEW v \in Users
        PROVE  /\ v \in Audience[k[2]] => names'[v][k] = Append(names[v][k], a.name)
               /\ v \notin Audience[k[2]] => names'[v][k] = names[v][k]
    BY <1>2, <2>1, <2>3
  <2>4. ASSUME a.do = "RECVFILE"
        PROVE  /\ names'[u][k] = IF ToFriend(k) THEN delUserFile(names[u][k])
                                                ELSE RemoveFirst(names[u][k], a.name)
               /\ \A v \in Users \ {u} : names'[v][k] = names[v][k]
    BY <1>2, <2>1, <2>4
  <2> QED
    BY <2>2, <2>3, <2>4
<1>11. NamedOK'
  <2>1. ASSUME NEW t \in Downs
        PROVE  /\ (x[t].name \in UploadsOf(x[t].key))' /\ x'[t].name < t
               /\ x'[t].by \in Audience[x'[t].key[2]]
    <3>1. x'[t] = x[t] /\ \A l : UploadsOf(l) \subseteq UploadsOf(l)'
      BY <1>2, <1>3
    <3> QED
      BY <1>4, <3>1, NamedStays
  <2>2. ASSUME NEW v \in Users, NEW l \in Keys PROVE ToSet(names'[v][l]) \subseteq UploadsOf(l)
    <3>1. PICK q : q = names[v][l]
      OBVIOUS
    <3>2. q \in Seq(Transfers) /\ ToSet(q) \subseteq UploadsOf(l)
      BY <1>4, <3>1, NamedTypes
    <3>3. CASE names'[v][l] = q
      BY <3>2, <3>3
    <3>4. CASE l = k /\ names'[v][l] = Append(q, a.name)
      BY <1>8, <3>2, <3>4, ToSetAppend
    <3>5. CASE names'[v][l] = RemoveFirst(q, a.name)
      <4>1. CASE q = << >>
        BY <3>2, <3>5, <4>1 DEF RemoveFirst
      <4>2. CASE q # << >>
        BY <3>2, <3>5, <4>2, RemoveHead
      <4> QED
        BY <4>1, <4>2
    <3>6. CASE names'[v][l] = delUserFile(q)
      <4>1. q # << >> => ToSet(Tail(q)) \subseteq ToSet(q)
        BY <3>2, RestElements
      <4> QED
        BY <3>2, <3>6, <4>1 DEF delUserFile
    <3> QED
      BY <1>2, <1>10, <3>1, <3>3, <3>4, <3>5, <3>6
  <2>3. \A v \in Users, l \in Keys :
          ToSet(names'[v][l]) \subseteq UploadsOf(l)' /\ ToSet(cache'[v][l]) \subseteq UploadsOf(l)'
    BY <1>2, <1>3, <1>4, <2>2 DEF NamedOK
  <2>4. Downs' = Downs
    BY <1>3, SameSets
  <2> QED
    BY <2>1, <2>3, <2>4 DEF NamedOK
<1>12. ASSUME NEW l \in Keys, l \notin muddled', ToFriend(l) PROVE NamesOK(l)' /\ ShownOK(l)'
  <2>1. NamesOK(l) /\ ShownOK(l) /\ Orderly(l)
    BY <1>2, <1>12 DEF HistoryOK, KeysOK, Orderly
  <2>2. PICK r : r = l[2]
    OBVIOUS
  <2>3. l[1] \in Users /\ r \in Users /\ Audience[r] = {r}
    BY <1>4, <1>12, <2>2, NamedTypes
  <2>4. InTurn(chat'[r], "RECVFILE", l) /\ InTurn(chat[r], "RECVFILE", l)
    BY <1>7, <2>1, <2>2, <2>3 DEF NamesOK
  <2>5. Untold(l)' \subseteq Untold(l)
    <3>1. CASE l[1] = u /\ a.do = "SENDFILE" /\ l = a.key
      BY <1>6, <3>1 DEF Untold
    <3>2. CASE ~(l[1] = u /\ a.do = "SENDFILE" /\ l = a.key)
      BY <1>7, <2>3, <3>2 DEF Untold
    <3> QED
      BY <3>1, <3>2
  <2>6. ShownOK(l)'
    BY <1>2, <1>3, <2>1, <2>5 DEF ShownOK
  <2>7. CASE l # k
    <3>1. Untold(l)' = Untold(l)
      BY <1>1, <1>7, <2>3, <2>7 DEF Untold
    <3>2. Fetching(l)' = Fetching(l)
      BY <1>1, <1>7, <2>2, <2>3, <2>7 DEF Fetching
    <3>3. names'[r][l] = names[r][l]
      BY <1>10, <2>3, <2>7
    <3>4. NamesOK(l)'
      BY <1>3, <2>1, <2>2, <2>4, <3>1, <3>2, <3>3 DEF NamesOK, Rising, InTurn
    <3> QED
      BY <2>6, <3>4
  <2>8. CASE l = k /\ a.do = "SENDFILE"
    <3>1. u = l[1]
      BY SMTT(30), <1>8, <2>8
    <3>2. Untold(l) = Untold(l)' \cup {a.name}
      BY <1>1, <1>6, <2>8, <3>1 DEF Untold
    <3>3. \A m \in Untold(l)' : a.name < m
      <4>1. InTurn(chat[u], "SENDFILE", l)
        BY <1>4, <3>1 DEF AskedOK
      <4>2. \A m \in Requests(chat'[u], "SENDFILE", l) : a.name < m
        BY <1>1, <1>7, <2>8, <4>1
      <4> QED
        BY <3>1, <4>2 DEF Untold, Requests
    <3>4. Fetching(l)' = Fetching(l)
      BY <1>7, <2>2, <2>3, <2>8 DEF Fetching
    <3>5. names'[r][l] = Append(names[r][l], a.name)
      BY <1>10, <2>2, <2>3, <2>8
    <3>6. NamesOK(l)'
      BY <1>3, <1>12, <2>1, <2>2, <2>4, <3>2, <3>3, <3>4, <3>5, NameTold
    <3> QED
      BY <2>6, <3>6
  <2>9. CASE l = k /\ a.do = "RECVFILE"
    <3>1. u = r
      BY <1>8, <2>2, <2>3, <2>9
    <3>2. Fetching(l) = Fetching(l)' \cup {a.name}
      BY <1>1, <1>6, <2>2, <2>9, <3>1 DEF Fetching
    <3>3. \A m \in Fetching(l)' : a.name < m
      <4>1. \A m \in Requests(chat'[r], "RECVFILE", l) : a.name < m
        BY <1>1, <1>7, <2>3, <2>4, <2>9, <3>1
      <4> QED
        BY <2>2, <4>1 DEF Fetching, Requests
    <3>4. Untold(l)' = Untold(l)
      BY <1>7, <2>3, <2>9 DEF Untold
    <3>5. names'[r][l] = delUserFile(names[r][l])
      BY <1>10, <1>12, <2>9, <3>1
    <3>6. NamesOK(l)'
      BY <1>3, <1>12, <2>1, <2>2, <2>4, <3>2, <3>3, <3>4, <3>5, NameFetched
    <3> QED
      BY <2>6, <3>6
  <2> QED
    BY <1>2, <2>7, <2>8, <2>9
<1>13. HistoryOK'
  BY <1>3, <1>9, <1>11, <1>12 DEF HistoryOK, KeysOK, Orderly, ToFriend
<1>14. DownloadsOK'
  BY <1>2, ListsDownloads
<1> QED
  BY <1>2, <1>13, <1>14

-----------------------------------------------------------------------------
(* The whole.                                                              *)

\* Of the transfer that ended the server no step takes back what is known of
\* it, unless it disturbs it (Dataconnect.cc:74-76).
LEMMA CrashStays ==
  ASSUME CrashOK, crashed' = crashed, muddled \subseteq muddled',
         \A t \in Started :
            /\ x'[t].at # "none" /\ t \in Transfers
            /\ x'[t].key = x[t].key /\ x'[t].by = x[t].by /\ x'[t].kind = x[t].kind
            /\ x'[t] = x[t] \/ x'[t].key \in muddled'
  PROVE  CrashOK'
<1>1. CASE crashed = None
  BY <1>1 DEF CrashOK, CrashNeedsDisorder, Up
<1>2. CASE crashed # None
  <2>1. PICK c : c = crashed
    OBVIOUS
  <2>2. PICK k : k = x[c].key
    OBVIOUS
  <2>3. /\ c \in Started /\ c \in Started' /\ x'[c].key = k /\ x'[c].by = x[c].by
        /\ x'[c].kind = x[c].kind /\ (x'[c] = x[c] \/ k \in muddled')
        /\ k \notin muddled => c \in Downs /\ x[c].at = "150"
    BY <1>2, <2>1, <2>2 DEF CrashOK, Started, Orderly
  <2>4. \A d \in Downs : d \in Downs' /\ x'[d].key = x[d].key /\ x'[d].by = x[d].by
    BY DEF Downs, Ups, Started
  <2>5. k \notin muddled' => c \in Downs' /\ x'[c].at = "150"
    BY <2>3, <2>4
  <2>6. \/ k \in muddled'
        \/ ~ToFriend(k) /\ \E d \in Downs' : x'[d].key = k /\ x'[d].by # x'[c].by
    <3>1. \/ k \in muddled
          \/ ~ToFriend(k) /\ \E d \in Downs : x[d].key = k /\ x[d].by # x[c].by
      BY <1>2, <2>1, <2>2 DEF CrashOK, CrashNeedsDisorder, Up, Orderly
    <3> QED
      BY <2>3, <2>4, <3>1
  <2>7. CrashNeedsDisorder'
    BY <2>1, <2>3, <2>6 DEF CrashNeedsDisorder, Orderly, ToFriend
  <2> QED
    BY <2>1, <2>3, <2>5, <2>7 DEF CrashOK, Orderly
<1> QED
  BY <1>1, <1>2

\* A server that runs, and one that died of a disturbed transfer.
LEMMA CrashComes ==
  ASSUME crashed' # None => crashed' \in Started' /\ x'[crashed'].key \in muddled'
  PROVE  CrashOK'
BY DEF CrashOK, CrashNeedsDisorder, Up, Orderly

\* What this module adds to the invariant.
ListsInv == DownloadsOK /\ HistoryOK /\ CrashOK

\* Nothing has been started (FTP_client.cc:6-7, FTPconnect.cc:5-10).
LEMMA ListsInit == Init => ListsInv
<1> SUFFICES ASSUME Init PROVE ListsInv
  OBVIOUS
<1>1. /\ paths = [k \in Keys |-> << >>]
      /\ names = [u \in Users |-> [k \in Keys |-> << >>]]
      /\ x = [t \in Transfers |-> [at |-> "none"]]
      /\ cache = [u \in Users |-> [k \in Keys |-> << >>]]
      /\ chat = [u \in Users |-> << >>]
      /\ wk = [w \in 0 .. Workers - 1 |-> free]
      /\ crashed = None
  BY Zenon DEF Init
<1>2. \A t \in Transfers : x[t].at = "none"
  BY <1>1
<1>3. Started = {} /\ Ups = {} /\ Downs = {}
  BY <1>2 DEF Started, Ups, Downs
<1>4. DownloadsOK
  BY <1>2 DEF DownloadsOK
<1>5. CrashOK
  BY <1>1 DEF CrashOK, CrashNeedsDisorder, Up
<1>6. \A k : UploadsOf(k) = {} /\ DownsOf(k) = {} /\ Taken(k) = {}
  BY <1>3 DEF UploadsOf, DownsOf, Taken
<1>7. ToSet(<< >>) = {} /\ DOMAIN << >> = {}
  BY ToSetEmpty
<1>8. /\ \A u \in Users : chat[u] = << >>
      /\ \A u \in Users, k \in Keys : names[u][k] = << >> /\ cache[u][k] = << >>
      /\ \A k \in Keys : paths[k] = << >>
  BY <1>1
<1>9. \A k \in Keys : k[1] \in Users
  BY FilesAssumption DEF Keys
<1>10. AskedOK
  BY <1>7, <1>8, <1>9 DEF AskedOK, InTurn
<1>11. NamedOK
  BY <1>3, <1>7, <1>8 DEF NamedOK
<1>12. AloneOK
  BY <1>3 DEF AloneOK
<1>13. ASSUME NEW k \in Keys
       PROVE  PathsOK(k) /\ (ToFriend(k) => NamesOK(k) /\ ShownOK(k) /\ FetchedOK(k))
  <2>1. PathsOK(k) /\ FetchedOK(k)
    BY <1>6, <1>7, <1>8 DEF PathsOK, FetchedOK, Rising
  <2>2. ASSUME ToFriend(k) PROVE NamesOK(k) /\ ShownOK(k)
    <3>1. k[2] \in Users
      BY <2>2 DEF ToFriend
    <3>2. Untold(k) = {} /\ Fetching(k) = {}
      BY <1>7, <1>8, <1>9, <3>1 DEF Untold, Fetching, Requests
    <3>3. names[k[2]][k] = << >> /\ cache[k[2]][k] = << >> /\ chat[k[2]] = << >>
      BY <1>8, <3>1
    <3>4. NamesOK(k)
      BY <1>6, <1>7, <3>2, <3>3 DEF NamesOK, Rising, InTurn
    <3>5. ShownOK(k)
      BY <1>7, <3>3 DEF ShownOK
    <3> QED
      BY <3>4, <3>5
  <2> QED
    BY <2>1, <2>2
<1> QED
  BY <1>4, <1>5, <1>10, <1>11, <1>12, <1>13 DEF ListsInv, HistoryOK, KeysOK

\* What a user does.
LEMMA UserLists ==
  ASSUME FilesInv, faults \in Nat, ListsInv, NEW u \in Users, NEW k \in Keys,
         send_file(u, k) \/ look_file(u, k) \/ recive_file(u, k)
  PROVE  ListsInv'
<1> USE DEF ListsInv
<1>1. CASE look_file(u, k)
  <2>1. DownloadsOK' /\ HistoryOK' /\ crashed' = crashed /\ crashed = None
    BY <1>1, LookFileLists
  <2> QED
    BY <2>1, CrashComes
<1>2. ASSUME NEW kind \in Kinds, NEW name, StartThread(u, kind, k, name), crashed' = crashed
      PROVE  CrashOK'
  <2>1. PICK n : n = Cardinality(Started) + 1
    OBVIOUS
  <2>2. /\ n \notin Started /\ \A s \in Transfers \ {n} : x'[s] = x[s]
        /\ muddled \subseteq muddled'
    BY <1>2, <2>1, StartEffect
  <2>3. \A t \in Started : t \in Transfers /\ x'[t] = x[t] /\ x[t].at # "none"
    BY <2>2 DEF Started
  <2> QED
    BY <1>2, <2>2, <2>3, CrashStays
<1>3. CASE send_file(u, k)
  <2>1. StartThread(u, "up", k, None) /\ crashed' = crashed /\ "up" \in Kinds
    BY <1>3 DEF send_file, Kinds
  <2> QED
    BY <1>2, <1>3, <2>1, SendFileLists
<1>4. CASE recive_file(u, k)
  <2>1. PICK n : StartThread(u, "down", k, n)
    BY <1>4, Zenon DEF recive_file
  <2>2. crashed' = crashed /\ "down" \in Kinds
    BY <1>4 DEF recive_file, Kinds
  <2> QED
    BY <1>2, <1>4, <2>1, <2>2, ReciveFileLists
<1> QED
  BY <1>1, <1>3, <1>4

\* The end of a program.
LEMMA ExitCrash ==
  ASSUME FilesInv, ListsInv, NEW u \in Users, exit(u)
  PROVE  ListsInv'
<1>1. DownloadsOK' /\ HistoryOK'
  BY ExitLists DEF ListsInv
<1>2. /\ \A t \in Transfers :
            \/ x'[t] = x[t]
            \/ /\ x'[t].at = "dead" /\ x'[t].key \in muddled'
               /\ x'[t].by = x[t].by /\ x'[t].key = x[t].key /\ x'[t].kind = x[t].kind
      /\ muddled \subseteq muddled' /\ crashed' = crashed
  BY ExitEffect
<1>3. \A t \in Started :
        /\ x'[t].at # "none" /\ t \in Transfers
        /\ x'[t].key = x[t].key /\ x'[t].by = x[t].by /\ x'[t].kind = x[t].kind
        /\ x'[t] = x[t] \/ x'[t].key \in muddled'
  BY <1>2 DEF Started
<1>4. CrashOK'
  BY <1>2, <1>3, CrashStays DEF ListsInv
<1> QED
  BY <1>1, <1>4 DEF ListsInv

\* What a worker does.
LEMMA WorkersLists ==
  ASSUME FilesInv, ListsInv, NEW w \in 0 .. Workers - 1,
         Worker(w) \/ \E t \in Transfers : Command_(w, t)
  PROVE  ListsInv'
<1> USE DEF ListsInv
<1>1. ASSUME DownloadsOK', HistoryOK', crashed' = crashed, crashed = None PROVE ListsInv'
  BY <1>1, CrashComes
<1>2. ASSUME DownloadsOK', HistoryOK', x' = x,
             crashed' # None => crashed' \in Started /\ x'[crashed'].key \in muddled'
      PROVE  ListsInv'
  <2>1. Started' = Started
    BY <1>2 DEF Started
  <2> QED
    BY <1>2, <2>1, CrashComes
<1>3. CASE accept_data(w)
  BY <1>1, <1>3, AcceptLists
<1>4. CASE recive_loop(w)
  <2>1. x' = x
    BY <1>4, Zenon DEF recive_loop, clientVars
  <2> QED
    BY <1>2, <1>4, <2>1, ReceivingLists
<1>5. CASE send_loop(w)
  <2>1. x' = x
    BY <1>5, Zenon DEF send_loop, clientVars
  <2> QED
    BY <1>2, <1>5, <2>1, SendingLists
<1>6. CASE send_done(w)
  BY <1>1, <1>6, SendDoneLists
<1>7. ASSUME NEW t \in Transfers, Command_(w, t) PROVE ListsInv'
  <2>1. CASE PASV(w, t)
    BY <1>1, <2>1, PasvLists
  <2>2. CASE STOR(w, t)
    BY <1>1, <2>2, StorLists
  <2>3. CASE RETR(w, t)
    BY <2>3, RetrLists
  <2> QED
    BY <1>7, <2>1, <2>2, <2>3 DEF Command_
<1> QED
  BY <1>3, <1>4, <1>5, <1>6, <1>7 DEF Worker

\* Every step of the system keeps the lists in step.
LEMMA ListsNext ==
  ASSUME FilesInv, faults \in Nat, ListsInv, [Next]_vars
  PROVE  ListsInv'
<1>1. CASE User
  BY <1>1, UserLists DEF User
<1>2. ASSUME NEW u \in Users, Connection_file(u) \/ exit(u) PROVE ListsInv'
  <2>1. CASE Connection_file(u)
    <3>1. DownloadsOK' /\ HistoryOK' /\ crashed' = crashed /\ crashed = None
      BY <2>1, ConnectionLists DEF ListsInv
    <3> QED
      BY <3>1, CrashComes DEF ListsInv
  <2> QED
    BY <1>2, <2>1, ExitCrash
<1>3. ASSUME NEW t \in Transfers, Thread(t) \/ Stor_fails(t) \/ Retr_fails(t) PROVE ListsInv'
  <2>1. DownloadsOK' /\ HistoryOK' /\ crashed' = crashed /\ crashed = None
    BY <1>3, ThreadLists DEF ListsInv
  <2> QED
    BY <2>1, CrashComes DEF ListsInv
<1>4. ASSUME NEW w \in DOMAIN wk, Worker(w) \/ \E t \in Transfers : Command_(w, t)
      PROVE  ListsInv'
  <2>1. w \in 0 .. Workers - 1
    BY StoredTables
  <2> QED
    BY <1>4, <2>1, WorkersLists
<1>5. CASE UNCHANGED vars
  <2>1. /\ UNCHANGED <<x, file, arr, ass, ctl, rep, link, port, wk, crashed, muddled>>
        /\ UNCHANGED <<names, cache, chat, paths, opened>>
    BY <1>5 DEF vars, redisVars, diskVars, clientVars, chatVars, sockVars, serverVars
  <2>2. DownloadsOK'
    BY <2>1, ListsDownloads DEF ListsInv
  <2>3. SameThreads
    BY <2>1 DEF SameThreads
  <2>4. \A t : Active(t)' => Active(t)
    BY <2>1 DEF Active
  <2>5. \A k \in Keys : SameStages(k)
    <3>1. \A t \in Transfers : SameStage(t)
      BY <2>1 DEF SameStage, Stored, Served, Idle, Serves, Unconnected, Waits, FileOf, Fetches
    <3> QED
      BY <2>1, <3>1 DEF SameStages
  <2>6. HistoryOK'
    BY <2>1, <2>3, <2>4, <2>5, QuietStays DEF ListsInv
  <2>7. CrashOK'
    <3>1. \A t \in Started : t \in Transfers /\ x[t].at # "none"
      BY DEF Started
    <3> QED
      BY <2>1, <3>1, CrashStays DEF ListsInv
  <2> QED
    BY <2>2, <2>6, <2>7 DEF ListsInv
<1> QED
  BY <1>1, <1>2, <1>3, <1>4, <1>5 DEF Next

\* The lists of files are what they should be, for every pair of sender and
\* addressee whose transfers do not overlap, and downloads bring what the lists
\* say (FTP_client.cc:101-131, Dataconnect.cc:54-164, RedisClient.cc:229-300,
\* connection.cc:256-311, 1028-1091).
THEOREM ListsCorrect == Spec => [](FilesInv /\ faults \in Nat /\ ListsInv)
<1>1. Init => ListsInv
  BY ListsInit
<1>2. FilesInv /\ faults \in Nat /\ ListsInv /\ [Next]_vars => ListsInv'
  BY ListsNext
<1> QED
  BY <1>1, <1>2, InvCorrect, PTL DEF Spec

\* The server has read the command of an upload that is reported ...
LEMMA UploadStored ==
  ASSUME FilesInv, CrashOK, NEW t \in Ups, Reported(t), Orderly(x[t].key)
  PROVE  Stored(t) /\ x[t].key \in Keys
<1>1. t \in Transfers /\ x[t].at = "reported" /\ x[t].kind = "up"
  BY DEF Ups, Started, Reported
<1>2. Undisturbed(t)
  BY <1>1 DEF FilesInv, UploadsOK
<1>3. ctl[t] = << >>
  BY <1>1, <1>2 DEF Undisturbed
<1>4. ~Unconnected(t)
  BY <1>1 DEF Unconnected, Waits
<1>5. crashed # t
  BY <1>1, Bounds DEF CrashOK, Downs
<1>6. x[t].key \in Keys
  BY <1>1 DEF FilesInv, TablesOK, SocketsOK, Threads, NoThread
<1> QED
  BY <1>3, <1>4, <1>5, <1>6 DEF Stored

\* ... and that of a download, which has all that it was sent.
LEMMA DownloadStored ==
  ASSUME FilesInv, DownloadsOK, CrashOK, NEW t \in Downs, Reported(t), Orderly(x[t].key)
  PROVE  /\ Stored(t) /\ x[t].key \in Keys /\ x[t].on \in 0 .. Workers - 1
         /\ FileOf(t) = file[t] /\ (Removing(t) \/ Idle(t))
<1>1. t \in Transfers /\ x[t].at = "reported" /\ x[t] \in Threads /\ x[t].kind = "down"
  BY DEF Downs, Ups, Started, Reported, FilesInv, TablesOK, SocketsOK, NoThread, Threads, Kinds
<1>2. Smooth(t)
  BY <1>1 DEF DownloadsOK
<1>3. ctl[t] = << >>
  BY <1>1 DEF FilesInv, LinesInv, LinesOK, LineOK
<1>4. ~Unconnected(t)
  BY <1>1 DEF Unconnected, Waits
<1>5. crashed # t
  BY <1>1, Bounds DEF CrashOK
<1>6. Stored(t)
  BY <1>3, <1>4, <1>5 DEF Stored
<1>7. ~Sending(t)
  BY <1>1 DEF Sending
<1>8. Closing(t) /\ (Removing(t) \/ Idle(t))
  BY <1>2, <1>6, <1>7 DEF Smooth
<1>9. link[t].q = << >>
  BY <1>1, <1>8 DEF Closing
<1>10. FileOf(t) = file[t]
  <2>1. file[t] \in Seq(Bytes)
    BY <1>1 DEF FilesInv, TablesOK, SocketsOK, ListsOK
  <2> QED
    BY <1>9, <2>1, ConcatEmptySeq DEF FileOf
<1> QED
  BY <1>1, <1>6, <1>8, <1>10 DEF Threads

\* A friend's download brings the file whose name was chosen, although the FTP
\* server is not told the name, if none overlapped or failed (Dataconnect.cc:74-76,
\* RedisClient.cc:264-274).
THEOREM FetchedCorrect == Spec => []DownloadedIsAsked
<1>1. FilesInv /\ ListsInv => DownloadedIsAsked
  <2> SUFFICES ASSUME FilesInv, ListsInv, NEW t \in Downs,
                      Reported(t), Orderly(x[t].key), ToFriend(x[t].key)
               PROVE  file[t] = Whole(x[t].name)
    BY DEF DownloadedIsAsked
  <2>1. /\ Stored(t) /\ x[t].key \in Keys /\ x[t].on \in 0 .. Workers - 1
        /\ FileOf(t) = file[t] /\ (Removing(t) \/ Idle(t))
    BY DownloadStored DEF ListsInv
  <2>2. FetchedOK(x[t].key) /\ t \in DownsOf(x[t].key)
    BY <2>1 DEF ListsInv, HistoryOK, KeysOK, DownsOf
  <2>3. CASE Idle(t)
    BY <2>1, <2>2, <2>3 DEF FetchedOK, Served
  <2>4. CASE Removing(t)
    <3>1. Fetches(x[t].on, t) /\ FileOf(t) = Whole(wk[x[t].on].f)
      BY <2>4 DEF Removing, Fetches
    <3>2. wk[x[t].on].f = x[t].name
      BY <2>1, <2>2, <3>1 DEF FetchedOK
    <3> QED
      BY <2>1, <3>1, <3>2
  <2> QED
    BY <2>1, <2>3, <2>4
<1> QED
  BY <1>1, ListsCorrect, PTL

\* Whenever nothing is under way for a friend, the names he is shown are those
\* of the paths that are kept for him, in the same order (connection.cc:1057,
\* Dataconnect.cc:174).
THEOREM NamesCorrect == Spec => []NamesMatchPaths
<1>1. FilesInv /\ ListsInv => NamesMatchPaths
  <2> SUFFICES ASSUME FilesInv, ListsInv, NEW k \in Keys, NEW u \in Audience[k[2]],
                      Orderly(k), ToFriend(k), chat[k[1]] = << >>, chat[u] = << >>,
                      \A t \in Started : x[t].key = k => ~Active(t)
               PROVE  names[u][k] = paths[k]
    BY DEF NamesMatchPaths
  <2>1. u = k[2] /\ u \in Users
    BY FilesAssumption DEF ToFriend, Keys, Names
  <2>2. PathsOK(k) /\ NamesOK(k) /\ FetchedOK(k)
    BY DEF ListsInv, HistoryOK, KeysOK
  <2>3. Untold(k) = {} /\ Fetching(k) = {}
    BY <2>1, ToSetEmpty DEF Untold, Fetching, Requests
  <2>4. ASSUME NEW t \in UploadsOf(k) PROVE Stored(t)
    <3>1. t \in Ups /\ t \in Transfers /\ x[t].key = k /\ x[t].kind = "up" /\ ~Active(t)
      BY DEF UploadsOf, Ups, Started
    <3>2. Undisturbed(t)
      BY <3>1 DEF FilesInv, UploadsOK, Ups, Started
    <3>3. Reported(t)
      BY <3>1, <3>2 DEF Active, Over, Undisturbed, Reported, Ups, Started
    <3> QED
      BY <3>1, <3>3, UploadStored DEF ListsInv
  <2>5. ASSUME NEW d \in DownsOf(k) PROVE Served(d)
    <3>1. d \in Downs /\ d \in Transfers /\ x[d].key = k /\ x[d].at # "none" /\ ~Active(d)
      BY DEF DownsOf, Downs, Ups, Started
    <3>2. x[d].kind = "down"
      BY <3>1 DEF Downs, Ups, Started, FilesInv, TablesOK, SocketsOK, NoThread, Threads, Kinds
    <3>3. Smooth(d)
      BY <3>1, <3>2 DEF ListsInv, DownloadsOK
    <3>4. Reported(d)
      BY <3>1, <3>3 DEF Active, Over, Smooth, Reported
    <3>5. Stored(d) /\ x[d].on \in 0 .. Workers - 1
      BY <3>1, <3>4, DownloadStored DEF ListsInv
    <3>6. Idle(d)
      BY <3>1, <3>5, StoredTables DEF Active, Idle, Serves
    <3> QED
      BY <3>5, <3>6 DEF Served
  <2>6. ToSet(paths[k]) = UploadsOf(k) \ Taken(k)
    <3>1. \A t \in UploadsOf(k) : t \notin ToSet(paths[k]) <=> \E d \in DownsOf(k) : x[d].name = t
      BY <2>2, <2>4, <2>5 DEF FetchedOK
    <3>2. ToSet(paths[k]) \subseteq UploadsOf(k)
      BY <2>2 DEF PathsOK
    <3> QED
      BY <3>1, <3>2 DEF Taken
  <2>7. ToSet(names[u][k]) = UploadsOf(k) \ Taken(k) /\ Rising(names[u][k])
    BY <2>1, <2>2, <2>3 DEF NamesOK
  <2>8. Rising(paths[k])
    BY <2>2 DEF PathsOK
  <2>9. paths[k] \in Seq(Transfers) /\ names[u][k] \in Seq(Transfers)
    BY <2>1 DEF FilesInv, TablesOK, ListsOK
  <2> QED
    BY <2>6, <2>7, <2>8, <2>9, RisingSame
<1> QED
  BY <1>1, ListsCorrect, PTL

\* The path of a key no transfer of which overlapped another or failed is removed
\* only once somebody has been sent the whole file (Dataconnect.cc:108-112).
THEOREM RemovedCorrect == Spec => []RemovedWasSent
<1>1. FilesInv /\ ListsInv => RemovedWasSent
  <2> SUFFICES ASSUME FilesInv, ListsInv, NEW t \in Ups, Reported(t), Orderly(x[t].key),
                      t \notin ToSet(paths[x[t].key])
               PROVE  \E d \in Downs : file[d] \o link[d].q = Whole(t)
    BY DEF RemovedWasSent
  <2>1. Stored(t) /\ x[t].key \in Keys
    BY UploadStored DEF ListsInv
  <2>2. PathsOK(x[t].key) /\ t \in UploadsOf(x[t].key)
    BY <2>1 DEF ListsInv, HistoryOK, KeysOK, UploadsOf
  <2>3. \E d \in DownsOf(x[t].key) : FileOf(d) = Whole(t)
    BY <2>1, <2>2 DEF PathsOK
  <2> QED
    BY <2>3 DEF DownsOf, FileOf
<1> QED
  BY <1>1, ListsCorrect, PTL

\* A download finds a path, and the server survives, unless transfers of the
\* key overlapped or failed or another member of the group was quicker
\* (Dataconnect.cc:74-76).
THEOREM CrashCorrect == Spec => []CrashNeedsDisorder
<1>1. ListsInv => CrashNeedsDisorder
  BY DEF ListsInv, CrashOK
<1> QED
  BY <1>1, ListsCorrect, PTL
============================================================================
