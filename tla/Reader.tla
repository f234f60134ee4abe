------------------------------- MODULE Reader -------------------------------
(***************************************************************************)
(* How messages get from the chat server to the user: frames in a stream   *)
(* (Protocol, Connection::sendMessage), and the two threads of the client  *)
(* that take turns in reading it: runRecive, which main_run starts again   *)
(* and again, and the reader of a chat (recive_msg, recv_group_msg).  They *)
(* share the socket, its option SO_RCVTIMEO and the buffer msg, and are    *)
(* told whose turn it is by the flags _running_recv and _running.          *)
(*                                                                         *)
(* A frame is cut into FrameLen units, <<n, i>> being the i-th of frame n; *)
(* the first holds the length.                                             *)
(***************************************************************************)
EXTENDS Naturals, Sequences, SequencesExt

CONSTANTS
    FrameLen,   \* units of a frame
    Cap,        \* units the sockets hold before send refuses more
    MaxRead,    \* units of one recv (MAX_NUM)
    MaxFrames, MaxChats   \* bounds: frames sent, chats entered

ASSUME ReaderAssumption ==
    /\ FrameLen \in Nat \ {0, 1} /\ {Cap, MaxRead} \subseteq Nat \ {0}
    /\ {MaxFrames, MaxChats} \subseteq Nat

VARIABLES
    sock,       \* what has been sent and not read
    eof,        \* has the server closed the connection?
    rcvtimeo,   \* is SO_RCVTIMEO set?
    pc,         \* of the two readers
    got,        \* what a reader's last recv has returned
    armed,      \* did that recv start with a timeout?
    msg,        \* the buffer
    handled,    \* the frames that were unpacked and handled, in order
    user,       \* where the user's thread is
    _running_recv, _running, _main_run,
    \* history and bounds
    nsent,      \* frames sendMessage was called with
    accepted,   \* those the socket took in full
    cut,        \* has it taken a part of one?
    late,       \* has a reader got bytes after its turn?
    chats

flags == <<_running_recv, _running, _main_run>>
server == <<nsent, accepted, cut, eof>>
vars == <<sock, rcvtimeo, pc, got, armed, msg, handled, user, flags, server,
          late, chats>>

Readers == {"main", "chat"}
Frames == 1 .. MaxFrames
Units == Frames \X (1 .. FrameLen)
Broken == 0     \* a frame whose units are not those of one that was sent

\* What recv returns: data, -1 with EAGAIN, or 0.
Data(bytes) == [res |-> "data", bytes |-> bytes]
Again == [res |-> "again", bytes |-> << >>]
End == [res |-> "end", bytes |-> << >>]
None == [res |-> "none", bytes |-> << >>]

TypeOK ==
    /\ ToSet(sock) \subseteq Units /\ Len(sock) <= Cap
    /\ {eof, rcvtimeo, cut, late, _running_recv, _running, _main_run} \subseteq BOOLEAN
    /\ pc \in [Readers -> {"none", "idle", "sleep", "set", "loop", "recv", "got",
                           "handle", "exit", "ended"}]
    /\ armed \in [Readers -> BOOLEAN]
    /\ \A r \in Readers :
        \/ got[r] \in {Again, End, None}
        \/ got[r].res = "data" /\ ToSet(got[r].bytes) \subseteq Units
                             /\ Len(got[r].bytes) \in 1 .. MaxRead
    /\ ToSet(msg) \subseteq Units /\ ToSet(handled) \subseteq Frames \cup {Broken}
    /\ user \in {"menu", "chat", "join", "leaving", "gone"}
    /\ nsent \in 0 .. MaxFrames /\ ToSet(accepted) \subseteq 1 .. nsent
    /\ chats \in 0 .. MaxChats

\* init has started the threads; main_run finds _running_recv set.
Init ==
    /\ sock = << >> /\ eof = FALSE /\ rcvtimeo = FALSE
    /\ pc = [r \in Readers |-> IF r = "main" THEN "idle" ELSE "none"]
    /\ got = [r \in Readers |-> None] /\ armed = [r \in Readers |-> FALSE]
    /\ msg = << >> /\ handled = << >>
    /\ user = "menu"
    /\ _running_recv = TRUE /\ _running = TRUE /\ _main_run = TRUE
    /\ nsent = 0 /\ accepted = << >> /\ cut = FALSE
    /\ late = FALSE /\ chats = 0

-----------------------------------------------------------------------------
(* The server.                                                             *)

pack_from_zero(n) == [i \in 1 .. FrameLen |-> << n, i - 1 >>]
pack(n) == [i \in 1 .. FrameLen |-> << n, i >>]

\* What send takes of a frame: the socket does not block.
Taken == IF Len(sock) + FrameLen > Cap THEN Cap - Len(sock) ELSE FrameLen

\* A frame is offered to the socket once: what is not taken is not sent again.
sendMessage ==
    LET n == nsent + 1
        k == Taken
    IN
    /\ n \in Frames /\ ~eof /\ user # "gone"
    /\ nsent' = n
    /\ sock' = sock \o SubSeq(pack(n), 1, k)
    /\ accepted' = IF k = FrameLen THEN Append(accepted, n) ELSE accepted
    /\ cut' = (cut \/ k \in 1 .. FrameLen - 1)
    /\ UNCHANGED <<eof, rcvtimeo, pc, got, armed, msg, handled, user, flags, late, chats>>

\* The server closes the connection.
close ==
    /\ ~eof /\ eof' = TRUE
    /\ UNCHANGED <<nsent, accepted, cut, sock, rcvtimeo, pc, got, armed, msg,
                   handled, user, flags, late, chats>>

-----------------------------------------------------------------------------
(* The readers.                                                            *)

Flag(r) == IF r = "main" THEN _running_recv ELSE _running
Go(r, at) == pc' = [pc EXCEPT ![r] = at]
Returns(r, x) == got' = [got EXCEPT ![r] = x] /\ Go(r, "got")

\* main_run calls runRecive as long as it may, and otherwise turns idly.
main_run ==
    /\ pc["main"] = "idle" /\ (_running_recv \/ ~_main_run)
    /\ Go("main", IF _main_run THEN "set" ELSE "ended")
    /\ UNCHANGED <<sock, rcvtimeo, got, armed, msg, handled, user, flags, server,
                   late, chats>>

\* The reader of a chat sleeps for a second first.  That is taken to be longer
\* than the other reader needs for what it has read; a recv of a second, which
\* may have begun just before, may still wait.
sleep ==
    /\ pc["chat"] = "sleep" /\ pc["main"] \notin {"got", "handle"}
    /\ Go("chat", "set")
    /\ UNCHANGED <<sock, rcvtimeo, got, armed, msg, handled, user, flags, server,
                   late, chats>>

setsockopt(r) ==
    /\ pc[r] = "set"
    /\ rcvtimeo' = TRUE
    /\ Go(r, "loop")
    /\ UNCHANGED <<sock, got, armed, msg, handled, user, flags, server, late, chats>>

\* The head of the loop; a recv waits as the option is when it begins.
loop(r) ==
    /\ pc[r] = "loop"
    /\ Go(r, IF Flag(r) THEN "recv" ELSE "exit")
    /\ armed' = [armed EXCEPT ![r] = rcvtimeo]
    /\ UNCHANGED <<sock, rcvtimeo, got, msg, handled, user, flags, server, late, chats>>

\* recv returns what has come so far of the stream, or its end.
recv(r) ==
    /\ pc[r] = "recv"
    /\ \/ \E k \in 1 .. MaxRead :
            /\ k <= Len(sock)
            /\ Returns(r, Data(SubSeq(sock, 1, k)))
            /\ sock' = SubSeq(sock, k + 1, Len(sock))
            /\ late' = (late \/ ~Flag(r))
       \/ /\ sock = << >> /\ eof
          /\ Returns(r, End)
          /\ UNCHANGED <<sock, late>>
    /\ UNCHANGED <<rcvtimeo, armed, msg, handled, user, flags, server, chats>>

timeout(r) ==
    /\ pc[r] = "recv" /\ armed[r] /\ sock = << >>
    /\ Returns(r, Again)
    /\ UNCHANGED <<sock, rcvtimeo, armed, msg, handled, user, flags, server, late, chats>>

\* If the turn has passed on meanwhile, what was read is thrown away.
Keeps(r) == Flag(r)

received(r) ==
    /\ pc[r] = "got"
    /\ got' = [got EXCEPT ![r] = None]
    /\ \/ /\ ~Keeps(r)
          /\ Go(r, "exit")
          /\ late' = (late \/ got[r].res = "data")
          /\ UNCHANGED msg
       \/ /\ Keeps(r)
          /\ Go(r, CASE got[r] = Again -> "loop" [] got[r] = End -> "exit"
                     [] OTHER -> "handle")
          /\ msg' = msg \o got[r].bytes
          /\ UNCHANGED late
    /\ UNCHANGED <<sock, rcvtimeo, armed, handled, user, flags, server, chats>>

\* unpack: is there a whole frame at the head of the buffer?  Where no frame
\* begins, a length is read all the same, too long for the buffer or not.
WholeFrame == Len(msg) >= FrameLen /\ Head(msg)[2] = 1
Misframed == msg # << >> /\ Head(msg)[2] # 1

\* The buffer after a frame has been taken from it.
Rest_cleared == << >>
Rest == SubSeq(msg, FrameLen + 1, Len(msg))

unpack(r) ==
    /\ pc[r] = "handle"
    /\ \/ /\ WholeFrame
          /\ handled' = Append(handled, IF SubSeq(msg, 1, FrameLen) = pack(Head(msg)[1])
                                        THEN Head(msg)[1] ELSE Broken)
          /\ msg' = Rest
          /\ UNCHANGED pc
       \/ /\ Misframed
          /\ handled' = Append(handled, Broken)
          /\ \E k \in 1 .. Len(msg) : msg' = SubSeq(msg, k + 1, Len(msg))
          /\ UNCHANGED pc
       \/ /\ ~WholeFrame
          /\ Go(r, "loop")
          /\ UNCHANGED <<msg, handled>>
    /\ UNCHANGED <<sock, rcvtimeo, got, armed, user, flags, server, late, chats>>

\* At the end of a reader the option is cleared.
leave(r) ==
    /\ pc[r] = "exit"
    /\ rcvtimeo' = FALSE
    /\ Go(r, IF r = "main" THEN "idle" ELSE "ended")
    /\ UNCHANGED <<sock, got, armed, msg, handled, user, flags, server, late, chats>>

-----------------------------------------------------------------------------
(* The user's thread.                                                      *)

\* chat_friend, chat_group: the turn is the chat's.
chat_friend ==
    /\ user = "menu" /\ chats < MaxChats
    /\ chats' = chats + 1
    /\ _running_recv' = FALSE
    /\ Go("chat", "sleep")
    /\ user' = "chat"
    /\ UNCHANGED <<sock, rcvtimeo, got, armed, msg, handled, _running, _main_run,
                   server, late>>

\* "quit" is typed, or the friendship has ended: its reader is asked to stop ...
quit_unflagged ==
    /\ user = "chat"
    /\ user' = "join"
    /\ UNCHANGED <<sock, rcvtimeo, pc, got, armed, msg, handled, flags, server,
                   late, chats>>

quit ==
    /\ user = "chat"
    /\ _running' = FALSE
    /\ user' = "join"
    /\ UNCHANGED <<sock, rcvtimeo, pc, got, armed, msg, handled, _running_recv,
                   _main_run, server, late, chats>>

\* ... and once it has, the turn is runRecive's again.
Joined_at_once == TRUE
Joined == pc["chat"] = "ended"

joinThread_unreset ==
    /\ user = "join" /\ Joined
    /\ _running' = TRUE
    /\ user' = "menu"
    /\ UNCHANGED <<sock, rcvtimeo, pc, got, armed, msg, handled, _running_recv,
                   _main_run, server, late, chats>>

joinThread ==
    /\ user = "join" /\ Joined
    /\ _running_recv' = TRUE /\ _running' = TRUE
    /\ user' = "menu"
    /\ UNCHANGED <<sock, rcvtimeo, pc, got, armed, msg, handled, _main_run, server,
                   late, chats>>

\* ~UserChat, after the menu was left.
UserChat_ends ==
    /\ user = "menu"
    /\ _main_run' = FALSE /\ _running_recv' = FALSE
    /\ user' = "leaving"
    /\ UNCHANGED <<sock, rcvtimeo, pc, got, armed, msg, handled, _running, server,
                   late, chats>>

closed ==
    /\ user = "leaving" /\ pc["main"] = "ended"
    /\ user' = "gone"
    /\ UNCHANGED <<sock, rcvtimeo, pc, got, armed, msg, handled, flags, server,
                   late, chats>>
-----------------------------------------------------------------------------
Thread(r) ==
    \/ setsockopt(r) \/ loop(r) \/ recv(r) \/ timeout(r) \/ received(r)
    \/ unpack(r) \/ leave(r)

Next ==
    \/ sendMessage \/ close
    \/ main_run \/ sleep \/ \E r \in Readers : Thread(r)
    \/ chat_friend \/ quit \/ joinThread \/ UserChat_ends \/ closed

\* The client's threads run, and an armed timeout goes off.  Nothing is assumed
\* of the user or of the server.
Fairness ==
    /\ WF_vars(main_run) /\ WF_vars(sleep) /\ WF_vars(joinThread) /\ WF_vars(closed)
    /\ \A r \in Readers : WF_vars(Thread(r))

Spec == Init /\ [][Next]_vars
FairSpec == Spec /\ Fairness
-----------------------------------------------------------------------------
(* Properties.                                                             *)

\* The user sees what the server has sent, once and in order, over any number
\* of changes between the two readers, unless one of them got bytes when its
\* turn was over or the server sent only a part of a frame
\* (User_chat.cc:70-78, send_friends.cc:462-484, protocol.cc:14-34).
InOrderOnce == ~late /\ ~cut => IsPrefix(handled, accepted)

\* The two readers never work on the shared buffer at the same time, although
\* both may wait in recv (User_chat.cc:71, send_friends.cc:463).
OneHandler ==
    /\ ~(pc["main"] = "handle" /\ pc["chat"] = "handle")
    /\ \A r \in Readers : pc[r] = "handle" => \A s \in Readers \ {r} :
            pc[s] = "got" => ~Keeps(s)

\* A reader waits for data with no timeout although its turn has passed.
Deaf(r) == pc[r] = "recv" /\ ~armed[r] /\ ~Flag(r)

\* "quit" leaves a chat, and leaving the menu ends the program, in the end,
\* unless a reader waits without a timeout: the reader that stopped last has
\* cleared the option that the other had set (User_chat.cc:222-223).
QuitReturns ==
    user \in {"join", "leaving"} ~>
        (user \in {"menu", "gone"} \/ \E r \in Readers : Deaf(r))

\* Whatever the socket has taken is handled in the end, whoever's turn it is,
\* unless bytes were read out of turn, a frame was cut, or the user leaves
\* (User_chat.cc:53-59, send_friends.cc:43-47).
AllHandled ==
    \A n \in Frames :
        Contains(accepted, n) ~>
            (Contains(handled, n) \/ late \/ cut \/ user \in {"leaving", "gone"})
=============================================================================
