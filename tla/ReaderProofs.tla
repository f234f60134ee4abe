---------------------------- MODULE ReaderProofs ----------------------------
(***************************************************************************)
(* The two readers of the client never work on the shared buffer at once,  *)
(* and the user sees what was sent, once and in order.  The first needs    *)
(* the control state only: whose turn it is, and that the reader of a chat *)
(* begins after the other has finished with what it had read.  The second  *)
(* needs also where each unit of a frame is on its way.                    *)
(***************************************************************************)
EXTENDS Reader, SequenceTheorems, TLAPS

Steps == {"none", "idle", "sleep", "set", "loop", "recv", "got", "handle",
          "exit", "ended"}

\* The reader of a chat is past its sleep, and may read.
ChatReads == pc["chat"] \notin {"none", "sleep", "ended"}

\* The user is in a chat, or waits for its reader to end.
InChat == user \in {"chat", "join"}

PcOK == pc \in [Readers -> Steps]

\* There is a reader of a chat only while the user is in one ...
ChatOK == pc["chat"] \notin {"none", "ended"} => InChat

\* ... the other's turn is over then ...
TurnOK == InChat => ~_running_recv

\* ... and by the time the first begins, the second has nothing in hand.
HandedOver == ChatReads => pc["main"] # "handle"

ControlInv == PcOK /\ ChatOK /\ TurnOK /\ HandedOver

\* The client starts with nobody in a chat (UserChat::init, User_chat.cc:24-41).
LEMMA ControlInit == Init => ControlInv
  BY DEF Init, ControlInv, PcOK, ChatOK, TurnOK, HandedOver, ChatReads, InChat,
         Readers, Steps

\* A step of one of the readers' threads keeps the invariant: a reader gets to
\* "handle" only through received, which looks at its flag again.
LEMMA ThreadStep ==
  ASSUME ControlInv, NEW r \in Readers, Thread(r)
  PROVE  ControlInv'
<1> USE DEF ControlInv, PcOK, ChatOK, TurnOK, HandedOver, ChatReads, InChat,
            Readers, Steps, flags, server, Go
<1>1. CASE setsockopt(r)
  BY <1>1 DEF setsockopt
<1>2. CASE loop(r)
  BY <1>2 DEF loop
<1>3. CASE recv(r)
  BY <1>3 DEF recv, Returns
<1>4. CASE timeout(r)
  BY <1>4 DEF timeout, Returns
<1>5. CASE received(r)
  <2>1. UNCHANGED <<user, flags>>
    BY <1>5 DEF received
  <2>2. CASE ~Keeps(r) /\ Go(r, "exit")
    BY <2>1, <2>2, <1>5 DEF received
  <2>3. CASE Keeps(r)
    <3>1. \E at \in {"loop", "exit", "handle"} : pc' = [pc EXCEPT ![r] = at]
      BY <1>5, <2>3 DEF received
    <3>2. r = "main" => _running_recv
      BY <2>3 DEF Keeps, Flag
    <3>3. pc[r] = "got"
      BY <1>5 DEF received
    <3> QED
      BY <2>1, <3>1, <3>2, <3>3
  <2> QED
    BY <1>5, <2>2, <2>3 DEF received
<1>6. CASE unpack(r)
  BY <1>6 DEF unpack
<1>7. CASE leave(r)
  BY <1>7 DEF leave
<1> QED
  BY <1>1, <1>2, <1>3, <1>4, <1>5, <1>6, <1>7 DEF Thread

\* Every step keeps the invariant.
LEMMA ControlStep == ControlInv /\ [Next]_vars => ControlInv'
<1> SUFFICES ASSUME ControlInv, [Next]_vars
             PROVE  ControlInv'
  OBVIOUS
<1> USE DEF ControlInv, PcOK, ChatOK, TurnOK, HandedOver, ChatReads, InChat,
            Readers, Steps, flags, server, Go
<1>1. CASE sendMessage
  BY <1>1 DEF sendMessage
<1>2. CASE close
  BY <1>2 DEF close
<1>3. CASE main_run
  BY <1>3 DEF main_run
<1>4. CASE sleep
  BY <1>4 DEF sleep
<1>5. CASE \E r \in Readers : Thread(r)
  BY <1>5, ThreadStep
<1>6. CASE chat_friend
  BY <1>6 DEF chat_friend
<1>7. CASE quit
  BY <1>7 DEF quit
<1>8. CASE joinThread
  BY <1>8 DEF joinThread, Joined
<1>9. CASE UserChat_ends
  BY <1>9 DEF UserChat_ends
<1>10. CASE closed
  BY <1>10 DEF closed
<1>11. CASE UNCHANGED vars
  BY <1>11 DEF vars
<1> QED
  BY <1>1, <1>2, <1>3, <1>4, <1>5, <1>6, <1>7, <1>8, <1>9, <1>10, <1>11 DEF Next

\* While the reader of a chat may work on the buffer, the other has nothing in
\* hand, and throws away what its recv may still return.
LEMMA ControlImplies == ControlInv => OneHandler
  BY DEF ControlInv, PcOK, ChatOK, TurnOK, HandedOver, ChatReads, InChat,
         OneHandler, Keeps, Flag, Readers

\* The control invariant of the hand-over between main_run, chat_friend and
\* chat_group (User_chat.cc:53-80, send_friends.cc:30-50).
THEOREM ControlCorrect == Spec => []ControlInv
  BY ControlInit, ControlStep, PTL DEF Spec

\* The two readers never work on the shared buffer msg at the same time, and a
\* reader that has data while the other works on it will not
\* (User_chat.cc:71, send_friends.cc:463), however long the frames and the socket.
THEOREM OneReaderAtATime == Spec => []OneHandler
  BY ControlCorrect, ControlImplies, PTL

-----------------------------------------------------------------------------
(* The stream.                                                             *)

\* A queue of units holds the frames of a that come after the first h of them.
Framed(q, a, h) ==
    /\ h \in 0 .. Len(a)
    /\ Len(q) = (Len(a) - h) * FrameLen
    /\ \A j \in 1 .. Len(a) - h, i \in 1 .. FrameLen :
          q[(j - 1) * FrameLen + i] = << a[h + j], i >>

LEMMA ReaderConstants ==
  /\ FrameLen \in Nat /\ FrameLen >= 2 /\ Cap \in Nat \ {0} /\ MaxRead \in Nat \ {0}
  /\ MaxFrames \in Nat /\ MaxChats \in Nat
  BY ReaderAssumption

\* A position in the j-th frame, and the frames after it.
LEMMA Places ==
  ASSUME NEW n \in Nat, NEW j \in 1 .. n, NEW i \in 1 .. FrameLen
  PROVE  /\ (j - 1) * FrameLen + i \in 1 .. n * FrameLen
         /\ (j - 1) * FrameLen \in Nat /\ n * FrameLen \in Nat
         /\ (n + 1) * FrameLen = n * FrameLen + FrameLen
         /\ (j - 1) * FrameLen + FrameLen = j * FrameLen
<1>1. FrameLen \in Nat /\ j - 1 \in Nat /\ n - j \in Nat
  BY ReaderConstants
<1>2. /\ (j - 1) * FrameLen \in Nat /\ n * FrameLen \in Nat /\ (n - j) * FrameLen \in Nat
      /\ j * FrameLen \in Nat
  BY <1>1
<1>3. /\ (n + 1) * FrameLen = n * FrameLen + FrameLen
      /\ (j - 1) * FrameLen + FrameLen = j * FrameLen
      /\ n * FrameLen = j * FrameLen + (n - j) * FrameLen
  BY <1>1
<1>4. (j - 1) * FrameLen + i >= 1 /\ (j - 1) * FrameLen + i <= n * FrameLen
  BY <1>1, <1>2, <1>3
<1>5. (j - 1) * FrameLen + i \in Nat /\ n * FrameLen \in Nat
  BY <1>1, <1>2
<1> QED
  BY <1>2, <1>3, <1>4, <1>5

\* Sending a frame adds it at the end.
LEMMA FramedSend ==
  ASSUME NEW S, NEW q \in Seq(S), NEW T, NEW a \in Seq(T), NEW h, NEW n \in T,
         NEW p \in Seq(S), Len(p) = FrameLen,
         \A i \in 1 .. FrameLen : p[i] = << n, i >>,
         Framed(q, a, h)
  PROVE  Framed(q \o p, Append(a, n), h)
<1> DEFINE d == Len(a) - h
<1>1. /\ Len(a) \in Nat /\ Len(q) \in Nat /\ h \in 0 .. Len(a) /\ d \in Nat
      /\ Len(q) = d * FrameLen /\ FrameLen \in Nat
  BY LenProperties, ReaderConstants DEF Framed
<1>2. /\ Len(Append(a, n)) = Len(a) + 1 /\ Append(a, n)[Len(a) + 1] = n
      /\ \A i \in 1 .. Len(a) : Append(a, n)[i] = a[i]
  BY AppendProperties
<1>3. /\ Len(q \o p) = Len(q) + FrameLen
      /\ \A i \in 1 .. Len(q) + FrameLen :
            (q \o p)[i] = IF i <= Len(q) THEN q[i] ELSE p[i - Len(q)]
  BY ConcatProperties
<1>4. (d + 1) * FrameLen = d * FrameLen + FrameLen /\ d * FrameLen \in Nat
  BY <1>1
<1>5. ASSUME NEW j \in 1 .. d + 1, NEW i \in 1 .. FrameLen
      PROVE  (q \o p)[(j - 1) * FrameLen + i] = << Append(a, n)[h + j], i >>
  <2>1. CASE j \in 1 .. d
    <3>1. (j - 1) * FrameLen + i \in 1 .. Len(q)
      BY <1>1, <2>1, Places
    <3>2. (q \o p)[(j - 1) * FrameLen + i] = q[(j - 1) * FrameLen + i]
      BY <1>1, <1>3, <3>1
    <3>3. q[(j - 1) * FrameLen + i] = << a[h + j], i >>
      BY <2>1 DEF Framed
    <3>4. h + j \in 1 .. Len(a)
      BY <1>1, <2>1
    <3> QED
      BY <1>2, <3>2, <3>3, <3>4
  <2>2. CASE j = d + 1
    <3>1. (j - 1) * FrameLen + i = Len(q) + i /\ h + j = Len(a) + 1
      <4>1. j - 1 = d /\ h + j = Len(a) + 1
        BY <1>1, <2>2
      <4>2. (j - 1) * FrameLen = Len(q)
        BY <1>1, <4>1
      <4> QED
        BY <4>1, <4>2
    <3>2. (q \o p)[Len(q) + i] = p[i]
      <4>1. Len(q) + i \in 1 .. Len(q) + FrameLen /\ ~(Len(q) + i <= Len(q))
            /\ (Len(q) + i) - Len(q) = i
        BY <1>1
      <4> QED
        BY <1>3, <4>1
    <3>3. p[i] = << n, i >> /\ Append(a, n)[h + j] = n
      BY <1>2, <3>1
    <3>4. (q \o p)[(j - 1) * FrameLen + i] = (q \o p)[Len(q) + i]
      BY <3>1
    <3> QED
      BY <3>2, <3>3, <3>4
  <2>3. j \in 1 .. d \/ j = d + 1
    <3> HIDE DEF d
    <3> QED
      BY <1>1
  <2> QED
    BY <2>1, <2>2, <2>3
<1>6. h \in 0 .. Len(a) + 1 /\ (Len(a) + 1) - h = d + 1
  BY <1>1
<1> HIDE DEF d
<1> QED
  BY <1>1, <1>2, <1>3, <1>4, <1>5, <1>6 DEF Framed

\* The first units are those of the first frame.
LEMMA FramedHead ==
  ASSUME NEW S, NEW q \in Seq(S), NEW T, NEW a \in Seq(T), NEW h, Framed(q, a, h),
         Len(q) >= 1
  PROVE  /\ h + 1 \in 1 .. Len(a) /\ Len(q) >= FrameLen
         /\ \A i \in 1 .. FrameLen : q[i] = << a[h + 1], i >>
<1> DEFINE d == Len(a) - h
<1>1. /\ Len(a) \in Nat /\ Len(q) \in Nat /\ h \in 0 .. Len(a) /\ d \in Nat
      /\ Len(q) = d * FrameLen /\ FrameLen \in Nat
  BY LenProperties, ReaderConstants DEF Framed
<1>2. d # 0
  <2>1. d = 0 => d * FrameLen = 0
    BY <1>1
  <2> QED
    BY <1>1, <2>1
<1>3. h + 1 \in 1 .. Len(a) /\ 1 \in 1 .. d
  BY <1>1, <1>2
<1>4. d * FrameLen = (d - 1) * FrameLen + FrameLen /\ (d - 1) * FrameLen \in Nat
  BY <1>1, <1>2
<1>5. \A i \in 1 .. FrameLen : (1 - 1) * FrameLen + i = i
  BY <1>1
<1>6. \A i \in 1 .. FrameLen : q[(1 - 1) * FrameLen + i] = << a[h + 1], i >>
  BY <1>3 DEF Framed
<1> QED
  BY <1>1, <1>3, <1>4, <1>5, <1>6

\* Taking a frame from the head leaves the others.
LEMMA FramedTake ==
  ASSUME NEW S, NEW q \in Seq(S), NEW r \in Seq(S), NEW T, NEW a \in Seq(T), NEW h,
         Framed(q, a, h), Len(q) >= 1, Len(r) = Len(q) - FrameLen,
         \A i \in 1 .. Len(r) : r[i] = q[i + FrameLen]
  PROVE  Framed(r, a, h + 1)
<1> DEFINE d == Len(a) - h
<1>1. /\ Len(a) \in Nat /\ Len(q) \in Nat /\ h \in 0 .. Len(a) /\ d \in Nat
      /\ Len(q) = d * FrameLen /\ FrameLen \in Nat
  BY LenProperties, ReaderConstants DEF Framed
<1>2. h + 1 \in 1 .. Len(a) /\ d - 1 \in Nat
  BY <1>1, FramedHead
<1>3. d * FrameLen = (d - 1) * FrameLen + FrameLen
  BY <1>1, <1>2
<1>4. Len(r) = (d - 1) * FrameLen
  BY <1>1, <1>2, <1>3
<1>5. ASSUME NEW j \in 1 .. d - 1, NEW i \in 1 .. FrameLen
      PROVE  r[(j - 1) * FrameLen + i] = << a[(h + 1) + j], i >>
  <2>1. (j - 1) * FrameLen + i \in 1 .. Len(r) /\ (j - 1) * FrameLen \in Nat
    BY <1>2, <1>4, Places
  <2>2. r[(j - 1) * FrameLen + i] = q[((j - 1) * FrameLen + i) + FrameLen]
    BY <2>1
  <2>3. ((j - 1) * FrameLen + i) + FrameLen = ((j + 1) - 1) * FrameLen + i
    BY <1>1, <2>1
  <2>4. j + 1 \in 1 .. d /\ h + (j + 1) = (h + 1) + j
    BY <1>1, <1>2
  <2>5. q[((j + 1) - 1) * FrameLen + i] = << a[h + (j + 1)], i >>
    BY <2>4 DEF Framed
  <2> QED
    BY <2>2, <2>3, <2>4, <2>5
<1>6. h + 1 \in 0 .. Len(a) /\ Len(a) - (h + 1) = d - 1
  BY <1>1, <1>2
<1> HIDE DEF d
<1> QED
  BY <1>4, <1>5, <1>6 DEF Framed

-----------------------------------------------------------------------------
(* Types, and the way of a unit from the server to the user.               *)

Results ==
    {Again, End, None}
        \cup [res : {"data"}, bytes : {b \in Seq(Units) : Len(b) \in 1 .. MaxRead}]

PlainOK ==
    /\ eof \in BOOLEAN /\ rcvtimeo \in BOOLEAN /\ cut \in BOOLEAN /\ late \in BOOLEAN
    /\ _running_recv \in BOOLEAN /\ _running \in BOOLEAN /\ _main_run \in BOOLEAN
    /\ armed \in [Readers -> BOOLEAN]
    /\ user \in {"menu", "chat", "join", "leaving", "gone"}
    /\ chats \in 0 .. MaxChats

UnitsOK ==
    /\ sock \in Seq(Units) /\ Len(sock) <= Cap /\ msg \in Seq(Units)
    /\ handled \in Seq(Frames \cup {Broken})
    /\ nsent \in 0 .. MaxFrames /\ accepted \in Seq(1 .. nsent)
    /\ got \in [Readers -> Results]

\* Only a reader that is back from recv has something in hand; before the
\* reader of a chat begins, the other has put away what it had.
HandsOK ==
    /\ \A r \in Readers : pc[r] # "got" => got[r] = None
    /\ ~late /\ ChatReads => got["main"].bytes = << >>

\* What has been read and what can be.
Queue(m, x, y, s) == (m \o (x \o y)) \o s
Unhandled == Queue(msg, got["main"].bytes, got["chat"].bytes, sock)

\* Until something has gone wrong, what is on its way are the frames that the
\* user has still to see.
StreamOK ==
    ~late /\ ~cut =>
        /\ Framed(Unhandled, accepted, Len(handled))
        /\ \A i \in 1 .. Len(handled) : handled[i] = accepted[i]

StreamInv == ControlInv /\ PlainOK /\ UnitsOK /\ HandsOK /\ StreamOK

LEMMA ResultBytes ==
  ASSUME NEW x \in Results
  PROVE  /\ x.bytes \in Seq(Units)
         /\ x.res = "data" \/ x.bytes = << >>
         /\ x.res = "data" => Len(x.bytes) \in 1 .. MaxRead
         /\ x.res # "data" => x \in {Again, End, None}
<1>1. CASE x \in {Again, End, None}
  <2>1. << >> \in Seq(Units)
    OBVIOUS
  <2>2. x.bytes = << >>
    BY <1>1 DEF Again, End, None
  <2>3. x.res # "data"
    BY <1>1 DEF Again, End, None
  <2> QED
    BY <1>1, <2>1, <2>2, <2>3
<1>2. CASE x \in [res : {"data"}, bytes : {b \in Seq(Units) : Len(b) \in 1 .. MaxRead}]
  BY <1>2
<1> QED
  BY <1>1, <1>2 DEF Results

\* What recv has taken from the socket, and what is left.
LEMMA Received ==
  ASSUME NEW S, NEW s \in Seq(S), NEW k \in 1 .. Len(s)
  PROVE  /\ SubSeq(s, 1, k) \in Seq(S) /\ Len(SubSeq(s, 1, k)) = k
         /\ SubSeq(s, k + 1, Len(s)) \in Seq(S)
         /\ Len(SubSeq(s, k + 1, Len(s))) = Len(s) - k
         /\ \A i \in 1 .. Len(s) - k : SubSeq(s, k + 1, Len(s))[i] = s[i + k]
         /\ SubSeq(s, 1, k) \o SubSeq(s, k + 1, Len(s)) = s
<1>1. Len(s) \in Nat /\ k \in Nat /\ \A i \in 1 .. Len(s) : s[i] \in S
  BY LenProperties, ElementOfSeq
<1>2. SubSeq(s, 1, k) \in Seq(S) /\ Len(SubSeq(s, 1, k)) = k
  <2>1. \A i \in 1 .. k : s[i] \in S
    BY <1>1
  <2> QED
    BY <1>1, <2>1, SubSeqProperties
<1>3. /\ SubSeq(s, k + 1, Len(s)) \in Seq(S)
      /\ Len(SubSeq(s, k + 1, Len(s))) = Len(s) - k
      /\ \A i \in 1 .. Len(s) - k : SubSeq(s, k + 1, Len(s))[i] = s[i + k]
  <2>1. \A i \in k + 1 .. Len(s) : s[i] \in S
    BY <1>1
  <2>2. /\ SubSeq(s, k + 1, Len(s)) \in Seq(S)
        /\ Len(SubSeq(s, k + 1, Len(s))) =
              IF k + 1 <= Len(s) THEN Len(s) - (k + 1) + 1 ELSE 0
        /\ \A i \in 1 .. Len(s) - (k + 1) + 1 :
              SubSeq(s, k + 1, Len(s))[i] = s[(k + 1) + i - 1]
    BY <1>1, <2>1, SubSeqProperties
  <2>3. \A i \in 1 .. Len(s) - k : (k + 1) + i - 1 = i + k
    BY <1>1
  <2>4. Len(s) - (k + 1) + 1 = Len(s) - k /\ (~(k + 1 <= Len(s)) => Len(s) - k = 0)
    BY <1>1
  <2> QED
    BY <2>2, <2>3, <2>4
<1>4. SubSeq(s, 1, k) \o SubSeq(s, k + 1, Len(s)) = SubSeq(s, 1, Len(s))
  <2>1. 1 \in 1 .. Len(s) + 1 /\ k \in 1 - 1 .. Len(s) /\ Len(s) \in k .. Len(s)
    BY <1>1
  <2> QED
    BY <2>1, ConcatAdjacentSubSeq
<1> QED
  BY <1>2, <1>3, <1>4, SubSeqFull

\* A frame, and what the socket takes of it.
LEMMA FrameTaken ==
  ASSUME UnitsOK, NEW n \in Frames, NEW k, k = Taken
  PROVE  /\ pack(n) \in Seq(Units) /\ Len(pack(n)) = FrameLen
         /\ \A i \in 1 .. FrameLen : pack(n)[i] = << n, i >>
         /\ k \in 0 .. FrameLen /\ Len(sock) + k <= Cap
         /\ SubSeq(pack(n), 1, k) \in Seq(Units) /\ Len(SubSeq(pack(n), 1, k)) = k
         /\ k = FrameLen => SubSeq(pack(n), 1, k) = pack(n)
         /\ k = 0 => SubSeq(pack(n), 1, k) = << >>
<1>1. FrameLen \in Nat /\ Cap \in Nat /\ Len(sock) \in Nat /\ Len(sock) <= Cap
  BY ReaderConstants, LenProperties DEF UnitsOK
<1>2. k \in 0 .. FrameLen /\ Len(sock) + k <= Cap
  BY <1>1 DEF Taken
<1>3. /\ pack(n) \in [1 .. FrameLen -> Units]
      /\ \A i \in 1 .. FrameLen : pack(n)[i] = << n, i >>
  BY DEF pack, Units
<1>4. pack(n) \in Seq(Units) /\ Len(pack(n)) = FrameLen
  BY <1>1, <1>3
<1>5. \A i \in 1 .. k : pack(n)[i] \in Units
  BY <1>1, <1>2, <1>3
<1>6. SubSeq(pack(n), 1, k) \in Seq(Units) /\ Len(SubSeq(pack(n), 1, k)) = k
  <2>1. k \in Int /\ (IF 1 <= k THEN k - 1 + 1 ELSE 0) = k
    BY <1>1, <1>2
  <2> QED
    BY <1>5, <2>1, SubSeqProperties
<1>7. k = FrameLen => SubSeq(pack(n), 1, k) = pack(n)
  BY <1>4, SubSeqFull
<1>8. k = 0 => SubSeq(pack(n), 1, k) = << >>
  BY SubSeqEmpty
<1> QED
  BY <1>2, <1>3, <1>4, <1>6, <1>7, <1>8

LEMMA PlainStep == StreamInv /\ [Next]_vars => PlainOK'
<1> SUFFICES ASSUME StreamInv, [Next]_vars PROVE PlainOK'
  OBVIOUS
<1> USE DEF flags, server
<1>0. PlainOK
  BY DEF StreamInv
<1>1. CASE sendMessage
  <2>1. cut' = (cut \/ Taken \in 1 .. FrameLen - 1)
    BY <1>1 DEF sendMessage
  <2>2. cut' \in BOOLEAN
    BY <2>1
  <2> QED
    BY <1>0, <1>1, <2>2 DEF sendMessage, PlainOK
<1>2. CASE close
  BY <1>0, <1>2 DEF close, PlainOK
<1>3. CASE main_run
  BY <1>0, <1>3 DEF main_run, PlainOK
<1>4. CASE sleep
  BY <1>0, <1>4 DEF sleep, PlainOK
<1>5. ASSUME NEW r \in Readers, Thread(r)
      PROVE  PlainOK'
  <2>1. CASE setsockopt(r)
    BY <1>0, <2>1 DEF setsockopt, PlainOK
  <2>2. CASE loop(r)
    BY <1>0, <2>2 DEF loop, PlainOK
  <2>3. CASE recv(r)
    <3>1. late' \in BOOLEAN
      <4>1. late' = late \/ late' = (late \/ ~Flag(r))
        BY <2>3 DEF recv
      <4> QED
        BY <1>0, <4>1 DEF PlainOK
    <3> QED
      BY <1>0, <2>3, <3>1 DEF recv, PlainOK
  <2>4. CASE timeout(r)
    BY <1>0, <2>4 DEF timeout, PlainOK
  <2>5. CASE received(r)
    <3>1. late' \in BOOLEAN
      <4>1. late' = late \/ late' = (late \/ got[r].res = "data")
        BY <2>5 DEF received
      <4> QED
        BY <1>0, <4>1 DEF PlainOK
    <3> QED
      BY <1>0, <2>5, <3>1 DEF received, PlainOK
  <2>6. CASE unpack(r)
    BY <1>0, <2>6 DEF unpack, PlainOK
  <2>7. CASE leave(r)
    BY <1>0, <2>7 DEF leave, PlainOK
  <2> QED
    BY <1>5, <2>1, <2>2, <2>3, <2>4, <2>5, <2>6, <2>7 DEF Thread
<1>6. CASE chat_friend
  <2>1. chats' \in 0 .. MaxChats
    BY <1>0, <1>6, ReaderConstants DEF chat_friend, PlainOK
  <2>2. UNCHANGED <<eof, rcvtimeo, cut, late, _running, _main_run, armed>>
        /\ _running_recv' = FALSE /\ user' = "chat"
    BY <1>6 DEF chat_friend
  <2> QED
    BY <1>0, <2>1, <2>2 DEF PlainOK
<1>7. CASE quit
  BY <1>0, <1>7 DEF quit, PlainOK
<1>8. CASE joinThread
  BY <1>0, <1>8 DEF joinThread, PlainOK
<1>9. CASE UserChat_ends
  BY <1>0, <1>9 DEF UserChat_ends, PlainOK
<1>10. CASE closed
  BY <1>0, <1>10 DEF closed, PlainOK
<1>11. CASE UNCHANGED vars
  BY <1>0, <1>11 DEF vars, PlainOK
<1> QED
  BY <1>1, <1>2, <1>3, <1>4, <1>5, <1>6, <1>7, <1>8, <1>9, <1>10, <1>11 DEF Next

\* A send, by what the socket takes; the position of the frame is nsent + 1.
LEMMA SendEffect ==
  ASSUME UnitsOK, sendMessage
  PROVE  /\ nsent' = nsent + 1 /\ nsent' \in Frames /\ nsent' \in 1 .. nsent'
         /\ accepted \in Seq(1 .. nsent')
         /\ \/ /\ Taken = FrameLen /\ sock' = sock \o pack(nsent')
               /\ accepted' = Append(accepted, nsent')
            \/ /\ Taken # FrameLen /\ accepted' = accepted
               /\ sock' = sock \o SubSeq(pack(nsent'), 1, Taken)
               /\ cut' \/ (Taken = 0 /\ sock' = sock)
<1> DEFINE n == nsent + 1
<1>1. n \in Frames /\ nsent' = n /\ nsent \in Nat
  BY DEF sendMessage, UnitsOK
<1>2. /\ sock' = sock \o SubSeq(pack(n), 1, Taken)
      /\ accepted' = IF Taken = FrameLen THEN Append(accepted, n) ELSE accepted
      /\ cut' = (cut \/ Taken \in 1 .. FrameLen - 1)
  BY DEF sendMessage
<1>3. /\ Taken \in 0 .. FrameLen
      /\ Taken = FrameLen => SubSeq(pack(n), 1, Taken) = pack(n)
      /\ Taken = 0 => SubSeq(pack(n), 1, Taken) = << >>
  BY <1>1, FrameTaken
<1>4. accepted \in Seq(1 .. n)
  <2>1. 1 .. nsent \subseteq 1 .. n
    BY <1>1
  <2> QED
    BY <2>1, SeqMonotonic DEF UnitsOK
<1>5. n \in 1 .. n
  BY <1>1
<1>6. Taken = 0 => sock' = sock
  <2>1. sock \in Seq(Units)
    BY DEF UnitsOK
  <2> QED
    BY <1>2, <1>3, <2>1, ConcatEmptySeq
<1>7. Taken = 0 \/ Taken = FrameLen \/ Taken \in 1 .. FrameLen - 1
  BY <1>3, ReaderConstants
<1>8. Taken \in 1 .. FrameLen - 1 => cut'
  BY <1>2
<1>9. nsent' = nsent + 1 /\ nsent' \in Frames /\ nsent' \in 1 .. nsent'
      /\ accepted \in Seq(1 .. nsent')
  BY <1>1, <1>4, <1>5
<1>10. CASE Taken = FrameLen
  BY <1>1, <1>2, <1>3, <1>9, <1>10
<1>11. CASE Taken # FrameLen
  <2>1. cut' \/ (Taken = 0 /\ sock' = sock)
    BY <1>6, <1>7, <1>8, <1>11
  <2>2. accepted' = accepted /\ sock' = sock \o SubSeq(pack(nsent'), 1, Taken)
    BY <1>1, <1>2, <1>11
  <2> QED
    BY <1>9, <1>11, <2>1, <2>2
<1> QED
  BY <1>10, <1>11

\* A recv takes what it returns from the socket.
LEMMA RecvEffect ==
  ASSUME UnitsOK, NEW r \in Readers, recv(r)
  PROVE  \/ \E b, s \in Seq(Units) :
               /\ sock = b \o s /\ sock' = s /\ Len(b) \in 1 .. MaxRead /\ Len(s) <= Cap
               /\ got' = [got EXCEPT ![r] = Data(b)]
               /\ late' = (late \/ ~Flag(r))
         \/ got' = [got EXCEPT ![r] = End] /\ UNCHANGED <<sock, late>>
<1>1. sock \in Seq(Units) /\ Len(sock) \in Nat /\ Len(sock) <= Cap /\ Cap \in Nat
  BY LenProperties, ReaderConstants DEF UnitsOK
<1>2. ASSUME NEW k \in 1 .. MaxRead, k <= Len(sock),
             got' = [got EXCEPT ![r] = Data(SubSeq(sock, 1, k))],
             sock' = SubSeq(sock, k + 1, Len(sock)), late' = (late \/ ~Flag(r))
      PROVE  \E b, s \in Seq(Units) :
               /\ sock = b \o s /\ sock' = s /\ Len(b) \in 1 .. MaxRead /\ Len(s) <= Cap
               /\ got' = [got EXCEPT ![r] = Data(b)]
               /\ late' = (late \/ ~Flag(r))
  <2> DEFINE b == SubSeq(sock, 1, k)
             s == SubSeq(sock, k + 1, Len(sock))
  <2>1. k \in 1 .. Len(sock)
    BY <1>1, <1>2, ReaderConstants
  <2>2. /\ b \in Seq(Units) /\ Len(b) = k /\ s \in Seq(Units) /\ Len(s) = Len(sock) - k
        /\ b \o s = sock
    BY <1>1, <2>1, Received
  <2>3. Len(b) \in 1 .. MaxRead /\ Len(s) <= Cap
    BY <1>1, <2>1, <2>2
  <2> HIDE DEF b, s
  <2>4. got' = [got EXCEPT ![r] = Data(b)] /\ sock' = s
    BY <1>2 DEF b, s
  <2> QED
    BY <1>2, <2>2, <2>3, <2>4
<1> QED
  BY <1>2 DEF recv, Returns

\* A message taken from the buffer, or what is taken for one.
LEMMA UnpackEffect ==
  ASSUME UnitsOK, NEW r \in Readers, unpack(r)
  PROVE  \/ UNCHANGED <<msg, handled>>
         \/ /\ Len(msg) >= FrameLen /\ msg' \in Seq(Units)
            /\ Len(msg') = Len(msg) - FrameLen
            /\ \A i \in 1 .. Len(msg') : msg'[i] = msg[i + FrameLen]
            /\ msg[1][1] \in Frames
            /\ handled' = Append(handled, IF SubSeq(msg, 1, FrameLen) = pack(msg[1][1])
                                          THEN msg[1][1] ELSE Broken)
         \/ /\ Len(msg) >= 1 /\ msg[1][2] # 1 /\ msg' \in Seq(Units)
            /\ handled' = Append(handled, Broken)
<1>1. /\ msg \in Seq(Units) /\ Len(msg) \in Nat /\ FrameLen \in Nat /\ FrameLen >= 2
      /\ \A i \in 1 .. Len(msg) : msg[i] \in Units
  BY LenProperties, ReaderConstants, ElementOfSeq DEF UnitsOK
<1>2. Len(msg) >= 1 => Head(msg) = msg[1]
  <2>1. Len(msg) >= 1 => Head(SubSeq(msg, 1, Len(msg))) = msg[1]
    BY <1>1, HeadTailOfSubSeq
  <2> QED
    BY <1>1, <2>1, SubSeqFull
<1>3. msg # << >> => Len(msg) >= 1
  BY <1>1, EmptySeq
<1>4. ASSUME WholeFrame, msg' = Rest,
             handled' = Append(handled, IF SubSeq(msg, 1, FrameLen) = pack(Head(msg)[1])
                                        THEN Head(msg)[1] ELSE Broken)
      PROVE  /\ Len(msg) >= FrameLen /\ msg' \in Seq(Units)
             /\ Len(msg') = Len(msg) - FrameLen
             /\ \A i \in 1 .. Len(msg') : msg'[i] = msg[i + FrameLen]
             /\ msg[1][1] \in Frames
             /\ handled' = Append(handled, IF SubSeq(msg, 1, FrameLen) = pack(msg[1][1])
                                           THEN msg[1][1] ELSE Broken)
  <2>1. Len(msg) >= FrameLen /\ FrameLen \in 1 .. Len(msg) /\ Head(msg) = msg[1]
    BY <1>1, <1>2, <1>4 DEF WholeFrame
  <2>2. msg[1] \in Units
    BY <1>1, <2>1
  <2>3. msg[1][1] \in Frames
    BY <2>2 DEF Units
  <2>4. /\ Rest \in Seq(Units) /\ Len(Rest) = Len(msg) - FrameLen
        /\ \A i \in 1 .. Len(msg) - FrameLen : Rest[i] = msg[i + FrameLen]
    BY <1>1, <2>1, Received DEF Rest
  <2> QED
    BY <1>4, <2>1, <2>3, <2>4
<1>5. ASSUME Misframed, NEW k \in 1 .. Len(msg), msg' = SubSeq(msg, k + 1, Len(msg))
      PROVE  Len(msg) >= 1 /\ msg[1][2] # 1 /\ msg' \in Seq(Units)
  <2>1. Len(msg) >= 1 /\ msg[1][2] # 1
    BY <1>2, <1>3, <1>5 DEF Misframed
  <2> QED
    BY <1>1, <1>5, <2>1, Received
<1> QED
  BY <1>4, <1>5 DEF unpack

LEMMA DataIsResult ==
  ASSUME NEW b \in Seq(Units), Len(b) \in 1 .. MaxRead
  PROVE  Data(b) \in Results
<1>1. b \in {c \in Seq(Units) : Len(c) \in 1 .. MaxRead}
  OBVIOUS
<1> QED
  BY <1>1 DEF Results, Data

LEMMA UnitsStep == StreamInv /\ [Next]_vars => UnitsOK'
<1> SUFFICES ASSUME StreamInv, [Next]_vars PROVE UnitsOK'
  OBVIOUS
<1> USE DEF flags, server
<1>0. UnitsOK
  BY DEF StreamInv
<1>1. ASSUME UNCHANGED <<sock, msg, handled, nsent, accepted, got>>
      PROVE  UnitsOK'
  BY <1>0, <1>1 DEF UnitsOK
<1>2. ASSUME sendMessage
      PROVE  UnitsOK'
  <2>1. UNCHANGED <<msg, handled, got>>
    BY <1>2 DEF sendMessage
  <2>2. /\ nsent' \in Frames /\ nsent' \in 1 .. nsent' /\ accepted \in Seq(1 .. nsent')
        /\ \/ Taken = FrameLen /\ accepted' = Append(accepted, nsent')
           \/ accepted' = accepted
    BY <1>0, <1>2, SendEffect
  <2>3. accepted' \in Seq(1 .. nsent')
    BY <2>2, AppendProperties
  <2>4. sock' = sock \o SubSeq(pack(nsent'), 1, Taken)
    <3>1. nsent' = nsent + 1
      BY <1>2 DEF sendMessage
    <3> QED
      BY <1>2, <3>1 DEF sendMessage
  <2>5. /\ SubSeq(pack(nsent'), 1, Taken) \in Seq(Units)
        /\ Len(SubSeq(pack(nsent'), 1, Taken)) = Taken /\ Len(sock) + Taken <= Cap
    BY <1>0, <2>2, FrameTaken
  <2>6. sock' \in Seq(Units) /\ Len(sock') = Len(sock) + Taken
    BY <1>0, <2>4, <2>5, ConcatProperties DEF UnitsOK
  <2>7. nsent' \in 0 .. MaxFrames
    BY <2>2, ReaderConstants DEF Frames
  <2> QED
    BY <1>0, <2>1, <2>3, <2>5, <2>6, <2>7 DEF UnitsOK
<1>3. ASSUME NEW r \in Readers, recv(r)
      PROVE  UnitsOK'
  <2>1. UNCHANGED <<msg, handled, nsent, accepted>>
    BY <1>3 DEF recv
  <2>2. ASSUME NEW b \in Seq(Units), NEW s \in Seq(Units), sock' = s, Len(s) <= Cap,
               Len(b) \in 1 .. MaxRead, got' = [got EXCEPT ![r] = Data(b)]
        PROVE  UnitsOK'
    BY <1>0, <2>1, <2>2, DataIsResult DEF UnitsOK
  <2>3. ASSUME got' = [got EXCEPT ![r] = End], sock' = sock
        PROVE  UnitsOK'
    BY <1>0, <2>1, <2>3 DEF UnitsOK, Results
  <2> QED
    BY <1>0, <1>3, <2>2, <2>3, RecvEffect
<1>4. ASSUME NEW r \in Readers, timeout(r)
      PROVE  UnitsOK'
  BY <1>0, <1>4 DEF timeout, Returns, UnitsOK, Results
<1>5. ASSUME NEW r \in Readers, received(r)
      PROVE  UnitsOK'
  <2>1. /\ UNCHANGED <<sock, handled, nsent, accepted>>
        /\ got' = [got EXCEPT ![r] = None]
        /\ msg' = msg \/ msg' = msg \o got[r].bytes
    BY <1>5 DEF received
  <2>2. got[r].bytes \in Seq(Units)
    BY <1>0, ResultBytes DEF UnitsOK
  <2>3. msg' \in Seq(Units)
    BY <1>0, <2>1, <2>2, ConcatProperties DEF UnitsOK
  <2> QED
    BY <1>0, <2>1, <2>3 DEF UnitsOK, Results
<1>6. ASSUME NEW r \in Readers, unpack(r)
      PROVE  UnitsOK'
  <2>1. UNCHANGED <<sock, nsent, accepted, got>>
    BY <1>6 DEF unpack
  <2>2. msg' \in Seq(Units) /\ handled' \in Seq(Frames \cup {Broken})
    <3>1. \A x \in Frames \cup {Broken} : Append(handled, x) \in Seq(Frames \cup {Broken})
      BY <1>0, AppendProperties DEF UnitsOK
    <3> QED
      BY <1>0, <1>6, <3>1, UnpackEffect DEF UnitsOK
  <2> QED
    BY <1>0, <2>1, <2>2 DEF UnitsOK
<1>7. ASSUME NEW r \in Readers, Thread(r)
      PROVE  UnitsOK'
  BY <1>1, <1>3, <1>4, <1>5, <1>6, <1>7 DEF Thread, setsockopt, loop, leave
<1>8. CASE close \/ main_run \/ sleep \/ chat_friend \/ quit \/ joinThread
           \/ UserChat_ends \/ closed
  BY <1>1, <1>8 DEF close, main_run, sleep, chat_friend, quit, joinThread,
                    UserChat_ends, closed
<1>9. CASE UNCHANGED vars
  BY <1>1, <1>9 DEF vars
<1> QED
  BY <1>2, <1>7, <1>8, <1>9 DEF Next

LEMMA HandsStep == StreamInv /\ [Next]_vars => HandsOK'
<1> SUFFICES ASSUME StreamInv, [Next]_vars PROVE HandsOK'
  OBVIOUS
<1> USE DEF flags, server
<1>0. /\ UnitsOK /\ HandsOK /\ PcOK /\ ChatOK /\ TurnOK
  BY DEF StreamInv, ControlInv
<1>0a. None.bytes = << >> /\ End.bytes = << >> /\ Again.bytes = << >>
  BY DEF None, End, Again
\* A reader that moves from one step to another where it has nothing in hand.
<1>1. ASSUME NEW r \in Readers, NEW at, Go(r, at), pc[r] # "got", at # "got",
             UNCHANGED <<got, late>>,
             r = "chat" /\ at \notin {"none", "sleep", "ended"} =>
                ChatReads \/ got["main"].bytes = << >>
      PROVE  HandsOK'
  BY <1>0, <1>1 DEF HandsOK, ChatReads, Go, PcOK, Readers
<1>2. ASSUME UNCHANGED <<pc, got, late>>
      PROVE  HandsOK'
  BY <1>0, <1>2 DEF HandsOK, ChatReads
<1>3. CASE main_run
  <2>1. PICK at \in {"set", "ended"} : Go("main", at)
    BY <1>3 DEF main_run
  <2>2. pc["main"] # "got" /\ UNCHANGED <<got, late>>
    BY <1>3 DEF main_run
  <2> QED
    BY <1>1, <2>1, <2>2 DEF Readers
<1>4. CASE sleep
  <2>1. got["main"] = None
    BY <1>0, <1>4 DEF sleep, HandsOK, Readers
  <2>2. Go("chat", "set") /\ pc["chat"] # "got" /\ UNCHANGED <<got, late>>
    BY <1>4 DEF sleep
  <2> QED
    BY <1>1, <1>0a, <2>1, <2>2 DEF Readers
<1>5. ASSUME NEW r \in Readers, setsockopt(r) \/ loop(r) \/ leave(r)
      PROVE  HandsOK'
  <2>1. PICK at \in {"loop", "recv", "exit", "idle", "ended"} : Go(r, at)
    BY <1>5 DEF setsockopt, loop, leave
  <2>2. pc[r] \in {"set", "loop", "exit"} /\ UNCHANGED <<got, late>>
    BY <1>5 DEF setsockopt, loop, leave
  <2>3. r = "chat" => ChatReads
    BY <2>2 DEF ChatReads
  <2> QED
    BY <1>1, <2>1, <2>2, <2>3
<1>6. ASSUME NEW r \in Readers, NEW x, Returns(r, x), pc[r] = "recv",
             late => late',
             x.bytes # << >> /\ r = "main" /\ ChatReads => late'
      PROVE  HandsOK'
  <2>1. /\ pc'[r] = "got" /\ got'[r] = x
        /\ \A s \in Readers \ {r} : pc'[s] = pc[s] /\ got'[s] = got[s]
    BY <1>0, <1>6 DEF Returns, Go, UnitsOK, PcOK
  <2>2. \A s \in Readers : pc'[s] # "got" => got'[s] = None
    BY <1>0, <2>1 DEF HandsOK
  <2>3. ASSUME ~late', pc'["chat"] \notin {"none", "sleep", "ended"}
        PROVE  got'["main"].bytes = << >>
    <3>1. CASE r = "main"
      <4>1. ChatReads
        BY <2>1, <2>3, <3>1 DEF ChatReads, Readers
      <4> QED
        BY <1>6, <2>1, <2>3, <3>1, <4>1
    <3>2. CASE r = "chat"
      <4>1. ChatReads
        BY <1>6, <3>2 DEF ChatReads
      <4>2. got["main"].bytes = << >>
        BY <1>0, <1>6, <2>3, <4>1 DEF HandsOK
      <4> QED
        BY <2>1, <3>2, <4>2 DEF Readers
    <3> QED
      BY <3>1, <3>2 DEF Readers
  <2> QED
    BY <2>2, <2>3 DEF HandsOK, ChatReads
<1>7. ASSUME NEW r \in Readers, recv(r)
      PROVE  HandsOK'
  <2>1. pc[r] = "recv" /\ late => late'
    BY <1>7 DEF recv
  <2>2. r = "main" /\ ChatReads => ~Flag(r)
    BY <1>0 DEF ChatReads, ChatOK, TurnOK, InChat, Flag
  <2>3. pc[r] = "recv"
    BY <1>7 DEF recv
  <2>4. CASE \E k \in 1 .. MaxRead : /\ Returns(r, Data(SubSeq(sock, 1, k)))
                                     /\ late' = (late \/ ~Flag(r))
    BY <1>6, <2>2, <2>3, <2>4
  <2>5. CASE Returns(r, End) /\ late' = late
    BY <1>6, <1>0a, <2>3, <2>5
  <2> QED
    BY <1>7, <2>4, <2>5 DEF recv
<1>8. ASSUME NEW r \in Readers, timeout(r)
      PROVE  HandsOK'
  BY <1>6, <1>8, <1>0a DEF timeout
<1>9. ASSUME NEW r \in Readers, received(r)
      PROVE  HandsOK'
  <2>1. got' = [got EXCEPT ![r] = None] /\ pc[r] = "got"
    BY <1>9 DEF received
  <2>2. PICK at \in {"exit", "loop", "handle"} : Go(r, at)
    BY <1>9 DEF received
  <2>3. late => late'
    BY <1>9 DEF received
  <2>4. /\ pc'[r] = at /\ got'[r] = None
        /\ \A s \in Readers \ {r} : pc'[s] = pc[s] /\ got'[s] = got[s]
    BY <1>0, <2>1, <2>2 DEF Go, UnitsOK, PcOK
  <2>5. \A s \in Readers : pc'[s] # "got" => got'[s] = None
    BY <1>0, <2>4 DEF HandsOK
  <2>6. ASSUME ~late', pc'["chat"] \notin {"none", "sleep", "ended"}
        PROVE  got'["main"].bytes = << >>
    <3>1. CASE r = "main"
      BY <1>0a, <2>4, <3>1
    <3>2. CASE r = "chat"
      <4>1. ChatReads
        BY <2>1, <3>2 DEF ChatReads
      <4>2. got["main"].bytes = << >>
        BY <1>0, <2>3, <2>6, <4>1 DEF HandsOK
      <4> QED
        BY <2>4, <3>2, <4>2 DEF Readers
    <3> QED
      BY <3>1, <3>2 DEF Readers
  <2> QED
    BY <2>5, <2>6 DEF HandsOK, ChatReads
<1>10. ASSUME NEW r \in Readers, unpack(r)
       PROVE  HandsOK'
  <2>1. CASE UNCHANGED pc
    BY <1>2, <1>10, <2>1 DEF unpack
  <2>2. CASE Go(r, "loop")
    <3>1. pc[r] = "handle" /\ UNCHANGED <<got, late>>
      BY <1>10 DEF unpack
    <3>2. r = "chat" => ChatReads
      BY <3>1 DEF ChatReads
    <3> QED
      BY <1>1, <2>2, <3>1, <3>2
  <2> QED
    BY <1>10, <2>1, <2>2 DEF unpack
<1>11. ASSUME NEW r \in Readers, Thread(r)
       PROVE  HandsOK'
  BY <1>5, <1>7, <1>8, <1>9, <1>10, <1>11 DEF Thread
<1>12. CASE chat_friend
  <2>1. pc["chat"] # "got"
    BY <1>0, <1>12 DEF chat_friend, ChatOK, InChat
  <2>2. Go("chat", "sleep") /\ UNCHANGED <<got, late>>
    BY <1>12 DEF chat_friend
  <2> QED
    BY <1>1, <2>1, <2>2 DEF Readers
<1>13. CASE sendMessage \/ close \/ quit \/ joinThread \/ UserChat_ends \/ closed
  BY <1>2, <1>13 DEF sendMessage, close, quit, joinThread, UserChat_ends, closed
<1>14. CASE UNCHANGED vars
  BY <1>2, <1>14 DEF vars
<1> QED
  BY <1>3, <1>4, <1>11, <1>12, <1>13, <1>14 DEF Next

LEMMA ConcatUnits ==
  ASSUME NEW a \in Seq(Units), NEW b \in Seq(Units), NEW c \in Seq(Units)
  PROVE  (a \o b) \o c = a \o (b \o c)
  OBVIOUS

LEMMA QueueType ==
  ASSUME NEW m \in Seq(Units), NEW x \in Seq(Units), NEW y \in Seq(Units),
         NEW s \in Seq(Units)
  PROVE  /\ Queue(m, x, y, s) \in Seq(Units)
         /\ Queue(m, x, y, s) = m \o ((x \o y) \o s)
         /\ (x \o y) \o s \in Seq(Units)
<1>1. PICK z \in Seq(Units) : z = x \o y
  BY ConcatProperties
<1>2. z \o s \in Seq(Units) /\ m \o z \in Seq(Units)
  BY ConcatProperties
<1>3. (m \o z) \o s \in Seq(Units)
  BY <1>2, ConcatProperties
<1>4. (m \o z) \o s = m \o (z \o s)
  BY ConcatUnits
<1> QED
  BY <1>1, <1>2, <1>3, <1>4 DEF Queue

\* In the queue, what one moves from a part to the part before stays in place.
LEMMA QueueMoves ==
  ASSUME NEW m \in Seq(Units), NEW x \in Seq(Units), NEW s \in Seq(Units)
  PROVE  /\ Queue(m, x, << >>, s) = Queue(m \o x, << >>, << >>, s)
         /\ Queue(m, << >>, x, s) = Queue(m \o x, << >>, << >>, s)
         /\ Queue(m, << >>, << >>, x \o s) = Queue(m, x, << >>, s)
         /\ Queue(m, << >>, << >>, x \o s) = Queue(m, << >>, x, s)
<1>1. << >> \in Seq(Units)
  OBVIOUS
<1>2. ASSUME NEW a \in Seq(Units)
      PROVE  a \o << >> = a /\ << >> \o a = a
  BY ConcatEmptySeq
<1>3. m \o x \in Seq(Units)
  BY ConcatProperties
<1>4. m \o (x \o s) = (m \o x) \o s
  BY ConcatUnits
<1> QED
  BY <1>1, <1>2, <1>3, <1>4 DEF Queue

\* What remains when the front of what has been read is taken away.
LEMMA TakenFromFront ==
  ASSUME NEW m \in Seq(Units), NEW w \in Seq(Units), NEW t \in Seq(Units),
         Len(m) >= FrameLen, Len(w) = Len(m) - FrameLen,
         \A i \in 1 .. Len(w) : w[i] = m[i + FrameLen]
  PROVE  /\ Len(w \o t) = Len(m \o t) - FrameLen
         /\ \A i \in 1 .. Len(w \o t) : (w \o t)[i] = (m \o t)[i + FrameLen]
<1>1. /\ FrameLen \in Nat /\ Len(m) \in Nat /\ Len(w) \in Nat /\ Len(t) \in Nat
  BY ReaderConstants, LenProperties
<1>2. /\ Len(m \o t) = Len(m) + Len(t)
      /\ \A i \in 1 .. Len(m) + Len(t) :
            (m \o t)[i] = IF i <= Len(m) THEN m[i] ELSE t[i - Len(m)]
  BY ConcatProperties
<1>3. /\ Len(w \o t) = Len(w) + Len(t)
      /\ \A i \in 1 .. Len(w) + Len(t) :
            (w \o t)[i] = IF i <= Len(w) THEN w[i] ELSE t[i - Len(w)]
  BY ConcatProperties
<1>4. ASSUME NEW i \in 1 .. Len(w) + Len(t)
      PROVE  (w \o t)[i] = (m \o t)[i + FrameLen]
  <2>1. /\ i + FrameLen \in 1 .. Len(m) + Len(t)
        /\ (i <= Len(w)) <=> (i + FrameLen <= Len(m))
        /\ i - Len(w) = (i + FrameLen) - Len(m)
    BY <1>1
  <2>2. i <= Len(w) => i \in 1 .. Len(w)
    BY <1>1
  <2>3. CASE i <= Len(w)
    <3>1. (w \o t)[i] = w[i] /\ (m \o t)[i + FrameLen] = m[i + FrameLen]
      BY <1>2, <1>3, <2>1, <2>3
    <3> QED
      BY <2>2, <2>3, <3>1
  <2>4. CASE ~(i <= Len(w))
    <3>1. (w \o t)[i] = t[i - Len(w)] /\ (m \o t)[i + FrameLen] = t[(i + FrameLen) - Len(m)]
      BY <1>2, <1>3, <2>1, <2>4
    <3> QED
      BY <2>1, <3>1
  <2> QED
    BY <2>3, <2>4
<1> QED
  BY <1>1, <1>2, <1>3, <1>4

\* A whole frame at the front of the buffer is the next one to be seen.
LEMMA NextFrame ==
  ASSUME NEW S, NEW m \in Seq(S), NEW t \in Seq(S), NEW T, NEW a \in Seq(T), NEW h,
         Framed(m \o t, a, h), Len(m) >= 1
  PROVE  /\ h + 1 \in 1 .. Len(a) /\ Len(m \o t) >= 1
         /\ m[1] = << a[h + 1], 1 >>
         /\ Len(m) >= FrameLen => SubSeq(m, 1, FrameLen) = pack(a[h + 1])
<1> DEFINE q == m \o t
<1>1. /\ Len(m) \in Nat /\ FrameLen \in Nat /\ FrameLen >= 2 /\ Len(t) \in Nat
  BY LenProperties, ReaderConstants
<1>2. /\ q \in Seq(S) /\ Len(q) = Len(m) + Len(t)
      /\ \A i \in 1 .. Len(m) + Len(t) :
            q[i] = IF i <= Len(m) THEN m[i] ELSE t[i - Len(m)]
  BY ConcatProperties
<1>3. Framed(q, a, h)
  OBVIOUS
<1> HIDE DEF q
<1>4. ASSUME NEW i \in 1 .. Len(m)
      PROVE  q[i] = m[i]
  BY <1>1, <1>2
<1>5. Len(q) >= 1
  BY <1>1, <1>2
<1>6. /\ h + 1 \in 1 .. Len(a)
      /\ \A i \in 1 .. FrameLen : q[i] = << a[h + 1], i >>
  BY <1>2, <1>3, <1>5, FramedHead
<1>7. m[1] = << a[h + 1], 1 >>
  <2>1. 1 \in 1 .. Len(m) /\ 1 \in 1 .. FrameLen
    BY <1>1
  <2> QED
    BY <1>4, <1>6, <2>1
<1>8. ASSUME Len(m) >= FrameLen
      PROVE  SubSeq(m, 1, FrameLen) = pack(a[h + 1])
  <2>1. ASSUME NEW i \in 1 .. FrameLen
        PROVE  m[i] = << a[h + 1], i >>
    <3>1. i \in 1 .. Len(m)
      BY <1>1, <1>8
    <3> QED
      BY <1>4, <1>6, <3>1
  <2>2. FrameLen \in 1 .. Len(m)
    BY <1>1, <1>8
  <2>3. SubSeq(m, 1, FrameLen) = [i \in 1 .. FrameLen |-> m[i]]
    BY <1>1, <2>2
  <2> QED
    BY <2>1, <2>3 DEF pack
<1> QED
  BY <1>5, <1>6, <1>7, <1>8 DEF q

\* Of what the queue consists, and that its parts are sequences of units.
LEMMA QueueNow ==
  /\ Unhandled = Queue(msg, got["main"].bytes, got["chat"].bytes, sock)
  /\ Unhandled' = Queue(msg', got'["main"].bytes, got'["chat"].bytes, sock')
  /\ UnitsOK => /\ got["main"].bytes \in Seq(Units) /\ got["chat"].bytes \in Seq(Units)
                /\ sock \in Seq(Units) /\ msg \in Seq(Units)
<1>1. /\ Unhandled = Queue(msg, got["main"].bytes, got["chat"].bytes, sock)
      /\ Unhandled' = Queue(msg', got'["main"].bytes, got'["chat"].bytes, sock')
  BY DEF Unhandled, Queue
<1>2. ASSUME UnitsOK
      PROVE  /\ got["main"].bytes \in Seq(Units) /\ got["chat"].bytes \in Seq(Units)
             /\ sock \in Seq(Units) /\ msg \in Seq(Units)
  BY <1>2, ResultBytes DEF UnitsOK, Readers
<1> QED
  BY <1>1, <1>2

\* The stream stays whole: what is sent is added at its end.
LEMMA StreamSend ==
  ASSUME StreamInv, sendMessage
  PROVE  StreamOK'
<1> SUFFICES ASSUME ~late', ~cut'
             PROVE  /\ Framed(Unhandled', accepted', Len(handled'))
                    /\ \A i \in 1 .. Len(handled') : handled'[i] = accepted'[i]
  BY DEF StreamOK, Framed
<1>1. UnitsOK
  BY DEF StreamInv
<1>2. UNCHANGED <<msg, handled, got, late>> /\ (cut => cut')
  BY DEF sendMessage
<1>3. /\ Framed(Unhandled, accepted, Len(handled))
      /\ \A i \in 1 .. Len(handled) : handled[i] = accepted[i]
  <2>1. ~late /\ ~cut
    BY <1>2
  <2> QED
    BY <2>1 DEF StreamInv, StreamOK
<1>4. /\ nsent' \in Frames /\ nsent' \in 1 .. nsent' /\ accepted \in Seq(1 .. nsent')
      /\ \/ /\ sock' = sock \o pack(nsent') /\ accepted' = Append(accepted, nsent')
         \/ /\ sock' = sock /\ accepted' = accepted
  BY <1>1, SendEffect
<1>5. CASE sock' = sock /\ accepted' = accepted
  <2>1. Unhandled' = Unhandled
    BY <1>2, <1>5, QueueNow
  <2> QED
    BY <1>2, <1>3, <1>5, <2>1
<1>6. CASE sock' = sock \o pack(nsent') /\ accepted' = Append(accepted, nsent')
  <2>0. PICK m, x, y, s \in Seq(Units) :
           m = msg /\ x = got["main"].bytes /\ y = got["chat"].bytes /\ s = sock
    BY <1>1, QueueNow
  <2>1. PICK n \in Frames : n = nsent'
    BY <1>4
  <2>2. PICK p \in Seq(Units) : p = pack(n)
    BY <1>1, <1>4, FrameTaken
  <2>3. Len(p) = FrameLen /\ \A i \in 1 .. FrameLen : p[i] = << n, i >>
    BY <1>1, <2>2, FrameTaken
  <2>4. PICK q \in Seq(Units) : q = Queue(m, x, y, s)
    BY QueueType
  <2>5. Unhandled = q
    BY <2>0, <2>4, QueueNow
  <2>6. Queue(m, x, y, s \o p) = q \o p
    <3>1. PICK z \in Seq(Units) : z = m \o (x \o y)
      <4>1. x \o y \in Seq(Units)
        BY ConcatProperties
      <4> QED
        BY <4>1, ConcatProperties
    <3>2. (z \o s) \o p = z \o (s \o p)
      BY ConcatUnits
    <3> QED
      BY <2>4, <3>1, <3>2 DEF Queue
  <2>7. Unhandled' = q \o p
    BY <1>2, <1>6, <2>0, <2>1, <2>2, <2>6, QueueNow
  <2>8. PICK h : h = Len(handled)
    OBVIOUS
  <2>9. PICK a \in Seq(1 .. n) : a = accepted
    BY <1>4, <2>1
  <2>10. Framed(q, a, h) /\ n \in 1 .. n
    BY <1>3, <1>4, <2>1, <2>5, <2>8, <2>9
  <2>11. Framed(q \o p, Append(a, n), h)
    BY <2>3, <2>10, FramedSend
  <2>12. h \in 0 .. Len(a) /\ Len(a) \in Nat
    BY <2>10, LenProperties DEF Framed
  <2>13. \A i \in 1 .. Len(a) : Append(a, n)[i] = a[i]
    BY AppendProperties, <2>10
  <2>14. ASSUME NEW i \in 1 .. h
         PROVE  handled'[i] = Append(a, n)[i]
    <3>1. i \in 1 .. Len(a)
      BY <2>12
    <3> QED
      BY <1>2, <1>3, <2>8, <2>9, <2>13, <3>1
  <2>15. accepted' = Append(a, n) /\ Len(handled') = h
    BY <1>2, <1>6, <2>1, <2>8, <2>9
  <2> QED
    BY <2>7, <2>11, <2>14, <2>15
<1> QED
  BY <1>4, <1>5, <1>6

\* What recv returns moves from the socket to the hands of the reader whose
\* turn it is, and the other has nothing in hand then.
LEMMA HandsFree ==
  ASSUME StreamInv, ~late
  PROVE  /\ _running_recv => got["chat"] = None
         /\ pc["chat"] \in {"recv", "got"} => got["main"].bytes = << >>
<1>1. _running_recv => got["chat"] = None
  <2>1. _running_recv => pc["chat"] # "got"
    BY DEF StreamInv, ControlInv, ChatOK, TurnOK, InChat
  <2> QED
    BY <2>1 DEF StreamInv, HandsOK, Readers
<1>2. pc["chat"] \in {"recv", "got"} => got["main"].bytes = << >>
  BY DEF StreamInv, HandsOK, ChatReads
<1> QED
  BY <1>1, <1>2

LEMMA StreamRecv ==
  ASSUME StreamInv, NEW r \in Readers, recv(r)
  PROVE  StreamOK'
<1> SUFFICES ASSUME ~late', ~cut'
             PROVE  /\ Framed(Unhandled', accepted', Len(handled'))
                    /\ \A i \in 1 .. Len(handled') : handled'[i] = accepted'[i]
  BY DEF StreamOK, Framed
<1>1. UnitsOK /\ HandsOK
  BY DEF StreamInv
<1>2. UNCHANGED <<msg, handled, accepted, cut>> /\ pc[r] = "recv"
  BY DEF recv, server
<1>3. \/ \E b, s \in Seq(Units) :
            /\ sock = b \o s /\ sock' = s
            /\ got' = [got EXCEPT ![r] = Data(b)]
            /\ late' = (late \/ ~Flag(r))
      \/ got' = [got EXCEPT ![r] = End] /\ UNCHANGED <<sock, late>>
  BY <1>1, RecvEffect
<1>4. ~late
  BY <1>3
<1>5. /\ Framed(Unhandled, accepted, Len(handled))
      /\ \A i \in 1 .. Len(handled) : handled[i] = accepted[i]
  BY <1>2, <1>4 DEF StreamInv, StreamOK
<1>6. got[r] = None /\ got \in [Readers -> Results]
  BY <1>1, <1>2 DEF HandsOK, UnitsOK
<1>7. PICK m \in Seq(Units) : m = msg
  BY <1>1, QueueNow
<1>8. Unhandled' = Unhandled
  <2>1. ASSUME NEW b \in Seq(Units), NEW s \in Seq(Units), sock = b \o s, sock' = s,
               got' = [got EXCEPT ![r] = Data(b)], late' = (late \/ ~Flag(r))
        PROVE  Unhandled' = Unhandled
    <3>1. /\ Queue(m, << >>, << >>, b \o s) = Queue(m, b, << >>, s)
          /\ Queue(m, << >>, << >>, b \o s) = Queue(m, << >>, b, s)
      BY QueueMoves
    <3>2. got'[r].bytes = b /\ \A o \in Readers \ {r} : got'[o] = got[o]
      BY <1>6, <2>1 DEF Data
    <3>3. CASE r = "main"
      <4>1. got["chat"].bytes = << >> /\ got["main"].bytes = << >>
        <5>1. _running_recv
          BY <2>1, <3>3 DEF Flag
        <5>2. got["chat"] = None /\ got["main"] = None
          BY <1>4, <1>6, <3>3, <5>1, HandsFree
        <5> QED
          BY <5>2 DEF None
      <4>2. got'["main"].bytes = b /\ got'["chat"].bytes = << >>
        BY <3>2, <3>3, <4>1 DEF Readers
      <4>3. Unhandled = Queue(m, << >>, << >>, b \o s) /\ Unhandled' = Queue(m, b, << >>, s)
        BY <1>2, <1>7, <2>1, <4>1, <4>2, QueueNow
      <4> QED
        BY <3>1, <4>3
    <3>4. CASE r = "chat"
      <4>1. got["chat"].bytes = << >> /\ got["main"].bytes = << >>
        BY <1>2, <1>4, <1>6, <2>1, <3>4, HandsFree DEF None
      <4>2. got'["chat"].bytes = b /\ got'["main"].bytes = << >>
        BY <3>2, <3>4, <4>1 DEF Readers
      <4>3. Unhandled = Queue(m, << >>, << >>, b \o s) /\ Unhandled' = Queue(m, << >>, b, s)
        BY <1>2, <1>7, <2>1, <4>1, <4>2, QueueNow
      <4> QED
        BY <3>1, <4>3
    <3> QED
      BY <3>3, <3>4 DEF Readers
  <2>2. ASSUME got' = [got EXCEPT ![r] = End], UNCHANGED sock
        PROVE  Unhandled' = Unhandled
    <3>1. \A o \in Readers : got'[o].bytes = got[o].bytes
      BY <1>6, <2>2 DEF End, None
    <3> QED
      BY <1>2, <2>2, <3>1, QueueNow DEF Readers
  <2> QED
    BY <1>3, <2>1, <2>2
<1> QED
  BY <1>2, <1>5, <1>8

LEMMA StreamReceived ==
  ASSUME StreamInv, NEW r \in Readers, received(r)
  PROVE  StreamOK'
<1> SUFFICES ASSUME ~late', ~cut'
             PROVE  /\ Framed(Unhandled', accepted', Len(handled'))
                    /\ \A i \in 1 .. Len(handled') : handled'[i] = accepted'[i]
  BY DEF StreamOK, Framed
<1>1. UnitsOK /\ HandsOK
  BY DEF StreamInv
<1>2. /\ UNCHANGED <<sock, handled, accepted, cut>> /\ pc[r] = "got"
      /\ got' = [got EXCEPT ![r] = None]
      /\ \/ UNCHANGED msg /\ late' = (late \/ got[r].res = "data")
         \/ Flag(r) /\ msg' = msg \o got[r].bytes /\ UNCHANGED late
  BY DEF received, server, Keeps
<1>3. ~late
  BY <1>2
<1>4. /\ Framed(Unhandled, accepted, Len(handled))
      /\ \A i \in 1 .. Len(handled) : handled[i] = accepted[i]
  BY <1>2, <1>3 DEF StreamInv, StreamOK
<1>5. got \in [Readers -> Results]
  BY <1>1 DEF UnitsOK
<1>6. got'[r].bytes = << >> /\ \A o \in Readers \ {r} : got'[o] = got[o]
  BY <1>2, <1>5 DEF None
<1>7. Unhandled' = Unhandled
  <2>1. ASSUME UNCHANGED msg, late' = (late \/ got[r].res = "data")
        PROVE  Unhandled' = Unhandled
    <3>1. got[r].bytes = << >>
      BY <1>5, <2>1, ResultBytes
    <3>2. \A o \in Readers : got'[o].bytes = got[o].bytes
      BY <1>6, <3>1
    <3> QED
      BY <1>2, <2>1, <3>2, QueueNow DEF Readers
  <2>2. ASSUME Flag(r), msg' = msg \o got[r].bytes
        PROVE  Unhandled' = Unhandled
    <3>1. PICK m, x, s \in Seq(Units) : m = msg /\ x = got[r].bytes /\ s = sock
      BY <1>1, QueueNow DEF Readers
    <3>2. /\ Queue(m, x, << >>, s) = Queue(m \o x, << >>, << >>, s)
          /\ Queue(m, << >>, x, s) = Queue(m \o x, << >>, << >>, s)
      BY QueueMoves
    <3>3. CASE r = "main"
      <4>1. got["chat"].bytes = << >>
        BY <1>3, <2>2, <3>3, HandsFree DEF Flag, None
      <4>2. got'["main"].bytes = << >> /\ got'["chat"].bytes = << >>
        BY <1>6, <3>3, <4>1 DEF Readers
      <4>3. Unhandled = Queue(m, x, << >>, s) /\ Unhandled' = Queue(m \o x, << >>, << >>, s)
        BY <1>2, <2>2, <3>1, <3>3, <4>1, <4>2, QueueNow
      <4> QED
        BY <3>2, <4>3
    <3>4. CASE r = "chat"
      <4>1. got["main"].bytes = << >>
        BY <1>2, <1>3, <3>4, HandsFree
      <4>2. got'["main"].bytes = << >> /\ got'["chat"].bytes = << >>
        BY <1>6, <3>4, <4>1 DEF Readers
      <4>3. Unhandled = Queue(m, << >>, x, s) /\ Unhandled' = Queue(m \o x, << >>, << >>, s)
        BY <1>2, <2>2, <3>1, <3>4, <4>1, <4>2, QueueNow
      <4> QED
        BY <3>2, <4>3
    <3> QED
      BY <3>3, <3>4 DEF Readers
  <2> QED
    BY <1>2, <2>1, <2>2
<1> QED
  BY <1>2, <1>4, <1>7

\* A frame is taken from the front, and it is the next one.
LEMMA StreamUnpack ==
  ASSUME StreamInv, NEW r \in Readers, unpack(r)
  PROVE  StreamOK'
<1> SUFFICES ASSUME ~late', ~cut'
             PROVE  /\ Framed(Unhandled', accepted', Len(handled'))
                    /\ \A i \in 1 .. Len(handled') : handled'[i] = accepted'[i]
  BY DEF StreamOK, Framed
<1>1. UnitsOK
  BY DEF StreamInv
<1>2. UNCHANGED <<sock, got, accepted, late, cut>>
  BY DEF unpack, server
<1>3. /\ Framed(Unhandled, accepted, Len(handled))
      /\ \A i \in 1 .. Len(handled) : handled[i] = accepted[i]
  BY <1>2 DEF StreamInv, StreamOK
<1>4. PICK m, x, y, s \in Seq(Units) :
         m = msg /\ x = got["main"].bytes /\ y = got["chat"].bytes /\ s = sock
  BY <1>1, QueueNow
<1>5. PICK t \in Seq(Units) : t = (x \o y) \o s
  BY QueueType
<1>5a. ASSUME NEW w \in Seq(Units)
       PROVE  Queue(w, x, y, s) = w \o t
  <2>1. Queue(w, x, y, s) = w \o ((x \o y) \o s)
    <3>1. PICK z \in Seq(Units) : z = x \o y
      BY ConcatProperties
    <3>2. (w \o z) \o s = w \o (z \o s)
      BY ConcatUnits
    <3> QED
      BY <3>1, <3>2 DEF Queue
  <2> QED
    BY <1>5, <2>1
<1>6. Unhandled = m \o t
  <2>1. Unhandled = Queue(m, x, y, s)
    BY <1>4, QueueNow
  <2> QED
    BY <1>5a, <2>1
<1>7. PICK a \in Seq(1 .. nsent) : a = accepted
  BY <1>1 DEF UnitsOK
<1>8. PICK h : h = Len(handled)
  OBVIOUS
<1>9. Framed(m \o t, a, h) /\ h \in Nat
  BY <1>1, <1>3, <1>6, <1>7, <1>8, LenProperties DEF UnitsOK
<1>10. CASE UNCHANGED <<msg, handled>>
  <2>1. Unhandled' = Unhandled
    BY <1>2, <1>10, QueueNow
  <2> QED
    BY <1>2, <1>3, <1>10, <2>1
<1>11. ASSUME Len(m) >= FrameLen, NEW w \in Seq(Units), w = msg',
              Len(w) = Len(m) - FrameLen,
              \A i \in 1 .. Len(w) : w[i] = m[i + FrameLen],
              m[1][1] \in Frames,
              handled' = Append(handled, IF SubSeq(m, 1, FrameLen) = pack(m[1][1])
                                         THEN m[1][1] ELSE Broken)
       PROVE  /\ Framed(Unhandled', accepted', Len(handled'))
              /\ \A i \in 1 .. Len(handled') : handled'[i] = accepted'[i]
  <2>1. Len(m) >= 1
    BY <1>11, ReaderConstants, LenProperties
  <2>2. /\ h + 1 \in 1 .. Len(a) /\ Len(m \o t) >= 1
        /\ m[1] = << a[h + 1], 1 >>
        /\ SubSeq(m, 1, FrameLen) = pack(a[h + 1])
    BY <1>9, <1>11, <2>1, NextFrame
  <2>3. handled' = Append(handled, a[h + 1])
    BY <1>11, <2>2
  <2>4. a[h + 1] \in Frames
    BY <1>11, <2>2
  <2>5. /\ Len(handled') = h + 1 /\ handled'[h + 1] = a[h + 1]
        /\ \A i \in 1 .. h : handled'[i] = handled[i]
    BY <1>1, <1>8, <2>3, <2>4, AppendProperties DEF UnitsOK
  <2>6. /\ Len(w \o t) = Len(m \o t) - FrameLen
        /\ \A i \in 1 .. Len(w \o t) : (w \o t)[i] = (m \o t)[i + FrameLen]
    <3>1. /\ Len(m) >= FrameLen /\ Len(w) = Len(m) - FrameLen
          /\ \A i \in 1 .. Len(w) : w[i] = m[i + FrameLen]
      BY <1>11
    <3> QED
      BY <3>1, TakenFromFront
  <2>7. PICK q \in Seq(Units) : q = m \o t
    BY ConcatProperties
  <2>8. PICK v \in Seq(Units) : v = w \o t
    BY ConcatProperties
  <2>9. Framed(v, a, h + 1)
    BY <1>9, <2>2, <2>6, <2>7, <2>8, FramedTake
  <2>10. Unhandled' = v
    <3>1. Unhandled' = Queue(w, x, y, s)
      BY <1>2, <1>4, <1>11, QueueNow
    <3> QED
      BY <1>5a, <2>8, <3>1
  <2>11. ASSUME NEW i \in 1 .. h + 1
         PROVE  handled'[i] = a[i]
    <3>1. i \in 1 .. h \/ i = h + 1
      BY <1>9
    <3> QED
      BY <1>3, <1>7, <1>8, <2>5, <3>1
  <2> QED
    BY <1>2, <1>7, <2>5, <2>9, <2>10, <2>11
<1>12. ASSUME Len(m) >= 1, m[1][2] # 1
       PROVE  FALSE
  <2>1. m[1] = << a[h + 1], 1 >>
    BY <1>9, <1>12, NextFrame
  <2> QED
    BY <1>12, <2>1
<1>13. \/ UNCHANGED <<msg, handled>>
       \/ /\ Len(m) >= FrameLen /\ msg' \in Seq(Units)
          /\ Len(msg') = Len(m) - FrameLen
          /\ \A i \in 1 .. Len(msg') : msg'[i] = m[i + FrameLen]
          /\ m[1][1] \in Frames
          /\ handled' = Append(handled, IF SubSeq(m, 1, FrameLen) = pack(m[1][1])
                                        THEN m[1][1] ELSE Broken)
       \/ Len(m) >= 1 /\ m[1][2] # 1
  <2>1. m = msg
    BY <1>4
  <2> QED
    BY <1>1, <2>1, UnpackEffect
<1> QED
  BY <1>10, <1>11, <1>12, <1>13

\* Every step keeps the stream whole, until something goes wrong with it.
LEMMA StreamStep == StreamInv /\ [Next]_vars => StreamOK'
<1> SUFFICES ASSUME StreamInv, [Next]_vars PROVE StreamOK'
  OBVIOUS
<1> USE DEF flags, server
<1>0. StreamOK /\ UnitsOK /\ HandsOK
  BY DEF StreamInv
<1>1. ASSUME UNCHANGED <<sock, msg, got, handled, accepted, late, cut>>
      PROVE  StreamOK'
  <2>1. Unhandled' = Unhandled
    BY <1>1, QueueNow
  <2> QED
    BY <1>0, <1>1, <2>1 DEF StreamOK, Framed
<1>2. ASSUME NEW r \in Readers, timeout(r)
      PROVE  StreamOK'
  <2>1. UNCHANGED <<sock, msg, handled, accepted, late, cut>>
    BY <1>2 DEF timeout
  <2>2. got' = [got EXCEPT ![r] = Again] /\ pc[r] # "got"
    BY <1>2 DEF timeout, Returns
  <2>3. \A o \in Readers : got'[o].bytes = got[o].bytes
    BY <1>0, <2>2 DEF UnitsOK, HandsOK, Again, None
  <2>4. Unhandled' = Unhandled
    BY <2>1, <2>3, QueueNow DEF Readers
  <2> QED
    BY <1>0, <2>1, <2>4 DEF StreamOK, Framed
<1>3. ASSUME NEW r \in Readers, Thread(r)
      PROVE  StreamOK'
  <2>1. CASE setsockopt(r) \/ loop(r) \/ leave(r)
    BY <1>1, <2>1 DEF setsockopt, loop, leave
  <2> QED
    BY <1>2, <1>3, <2>1, StreamRecv, StreamReceived, StreamUnpack DEF Thread
<1>4. CASE close \/ main_run \/ sleep \/ chat_friend \/ quit \/ joinThread
           \/ UserChat_ends \/ closed
  BY <1>1, <1>4 DEF close, main_run, sleep, chat_friend, quit, joinThread,
                    UserChat_ends, closed
<1>5. CASE UNCHANGED vars
  BY <1>1, <1>5 DEF vars
<1> QED
  BY <1>3, <1>4, <1>5, StreamSend DEF Next

LEMMA StreamInit == Init => StreamInv
<1> SUFFICES ASSUME Init PROVE StreamInv
  OBVIOUS
<1>1. /\ sock = << >> /\ msg = << >> /\ handled = << >> /\ accepted = << >>
      /\ nsent = 0 /\ got = [r \in Readers |-> None] /\ chats = 0
      /\ armed = [r \in Readers |-> FALSE] /\ user = "menu" /\ ~late
      /\ pc["chat"] = "none"
  BY DEF Init, Readers
<1>2. ControlInv
  BY ControlInit
<1>3. PlainOK
  <2>1. chats \in 0 .. MaxChats
    BY <1>1, ReaderConstants
  <2>2. armed \in [Readers -> BOOLEAN]
    BY <1>1
  <2> QED
    BY <2>1, <2>2 DEF Init, PlainOK
<1>4. << >> \in Seq(Units) /\ << >> \in Seq(Frames \cup {Broken})
      /\ << >> \in Seq(1 .. nsent) /\ Len(<< >>) = 0
  OBVIOUS
<1>5. UnitsOK
  BY <1>1, <1>4, ReaderConstants DEF UnitsOK, Results
<1>6. HandsOK
  BY <1>1 DEF HandsOK, None, Readers
<1>7. StreamOK
  <2>1. Unhandled = << >>
    <3>1. << >> \o << >> = << >>
      BY <1>4, ConcatEmptySeq
    <3> QED
      BY <1>1, <3>1 DEF Unhandled, Queue, Readers, None
  <2>2. (0 - 0) * FrameLen = 0 /\ 1 .. 0 = {} /\ 0 - 0 = 0
    BY ReaderConstants
  <2>3. Framed(<< >>, << >>, 0)
    BY <1>4, <2>2 DEF Framed
  <2> QED
    BY <1>1, <1>4, <2>1, <2>2, <2>3 DEF StreamOK
<1> QED
  BY <1>2, <1>3, <1>5, <1>6, <1>7 DEF StreamInv

\* The invariant of the stream: types, whose hands are empty when, and that
\* what is on its way, from the socket through the readers' hands to the buffer
\* msg, are the accepted frames that were not handled yet (protocol.cc:14-34,
\* connection.cc:136-160, User_chat.cc:70-78, send_friends.cc:462-484).
THEOREM StreamCorrect == Spec => []StreamInv
<1>1. StreamInv /\ [Next]_vars => StreamInv'
  <2>1. StreamInv /\ [Next]_vars => ControlInv'
    BY ControlStep DEF StreamInv
  <2> QED
    BY <2>1, PlainStep, UnitsStep, HandsStep, StreamStep DEF StreamInv
<1> QED
  BY <1>1, StreamInit, PTL DEF Spec

\* What the variables of the client and of the socket hold.
THEOREM TypeCorrect == Spec => []TypeOK
<1>1. StreamInv => TypeOK
  <2> SUFFICES ASSUME StreamInv PROVE TypeOK
    OBVIOUS
  <2>1. PlainOK /\ UnitsOK /\ PcOK
    BY DEF StreamInv, ControlInv
  <2>2. ASSUME NEW S, NEW q \in Seq(S)
        PROVE  ToSet(q) \subseteq S
    <3>1. \A i \in 1 .. Len(q) : q[i] \in S
      BY <2>2, ElementOfSeq
    <3>2. DOMAIN q = 1 .. Len(q)
      BY <2>2, LenProperties
    <3> QED
      BY <3>1, <3>2 DEF ToSet
  <2>3. /\ ToSet(sock) \subseteq Units /\ ToSet(msg) \subseteq Units
        /\ ToSet(handled) \subseteq Frames \cup {Broken}
        /\ ToSet(accepted) \subseteq 1 .. nsent
    BY <2>1, <2>2 DEF UnitsOK
  <2>4. ASSUME NEW r \in Readers
        PROVE  \/ got[r] \in {Again, End, None}
               \/ got[r].res = "data" /\ ToSet(got[r].bytes) \subseteq Units
                                    /\ Len(got[r].bytes) \in 1 .. MaxRead
    <3>1. got[r] \in Results
      BY <2>1 DEF UnitsOK
    <3> QED
      BY <2>2, <3>1, ResultBytes
  <2>5. /\ {eof, rcvtimeo, cut, late, _running_recv, _running, _main_run} \subseteq BOOLEAN
        /\ armed \in [Readers -> BOOLEAN]
        /\ user \in {"menu", "chat", "join", "leaving", "gone"}
        /\ chats \in 0 .. MaxChats
    BY <2>1 DEF PlainOK
  <2>6. Len(sock) <= Cap /\ nsent \in 0 .. MaxFrames
    BY <2>1 DEF UnitsOK
  <2> QED
    BY <2>1, <2>3, <2>4, <2>5, <2>6 DEF TypeOK, PcOK, Steps
<1> QED
  BY <1>1, StreamCorrect, PTL

\* The user sees what the server has sent, once and in order, over any number
\* of changes between the two readers and however frames and reads are cut,
\* unless bytes were read out of turn or the server has sent a part of a frame
\* only (User_chat.cc:70-78, send_friends.cc:462-484, protocol.cc:14-34).
THEOREM InOrder == Spec => []InOrderOnce
<1>1. StreamInv => InOrderOnce
  <2> SUFFICES ASSUME StreamInv, ~late, ~cut PROVE IsPrefix(handled, accepted)
    BY DEF InOrderOnce
  <2>1. /\ Len(handled) \in 0 .. Len(accepted)
        /\ \A i \in 1 .. Len(handled) : handled[i] = accepted[i]
    BY DEF StreamInv, StreamOK, Framed
  <2>2. PICK s \in Seq(Frames \cup {Broken}) : s = handled
    BY DEF StreamInv, UnitsOK
  <2>3. PICK t \in Seq(1 .. nsent) : t = accepted
    BY DEF StreamInv, UnitsOK
  <2>4. Len(s) \in Nat /\ Len(t) \in Nat /\ Len(s) <= Len(t)
    BY <2>1, <2>2, <2>3, LenProperties
  <2>5. SubSeq(s, 1, Len(s)) = [i \in 1 .. Len(s) |-> s[i]]
    BY <2>4
  <2>6. SubSeq(t, 1, Len(s)) = [i \in 1 .. Len(s) |-> t[i]]
    BY <2>4
  <2>7. \A i \in 1 .. Len(s) : s[i] = t[i]
    BY <2>1, <2>2, <2>3
  <2> QED
    BY <2>2, <2>3, <2>4, <2>5, <2>6, <2>7 DEF IsPrefix
<1> QED
  BY <1>1, StreamCorrect, PTL
=============================================================================
