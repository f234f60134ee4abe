-------------------------------- MODULE Files --------------------------------
(***************************************************************************)
(* File transfer: the FTP server (worker threads that each run one command *)
(* at a time, the transfer included), the transfer threads of the client   *)
(* programs (FTPClient), and the two lists that must agree about a file:   *)
(* its path, which the FTP server files under sender and addressee, and    *)
(* its name, which the chat server files for every receiver.               *)
(*                                                                         *)
(* A transfer is a number, in the order in which users start them.  An     *)
(* upload's number also stands for the file's name and for the path of     *)
(* what the server stores; a transfer's number stands for the passive port *)
(* the server opens for it.  A chunk of a file is the number of the upload *)
(* it was read for.  The threads of one client program share the buffers   *)
(* arr and ass (FTP_client.cc:6-7).                                        *)
(***************************************************************************)
EXTENDS Naturals, Sequences, FiniteSets, SequencesExt

CONSTANTS
    Users,      \* client programs
    Audience,   \* a name files are sent to (a user, a group) -> who is told
    Senders,    \* bound: the users who send files
    Workers,    \* the worker threads, 0 .. Workers - 1
    Chunks,     \* the length of every file
    MaxUp,      \* bound: uploads, for each name they are sent to
    MaxDown,    \* bound: downloads
    MaxTransfers, \* bound: transfers and faults together
    MaxActive,  \* bound: transfers at a time
    MaxKeys,    \* bound: pairs of sender and addressee
    MaxMenus,   \* bound: uploads, and requests for lists of names
    MaxFaults   \* bound: deaths of programs and files that cannot be opened

Names == DOMAIN Audience
Keys == Senders \X Names
Transfers == 1 .. MaxTransfers
None == 0
Address == MaxTransfers + 1  \* what is in ass may also be an address, or zeros: None

ASSUME FilesAssumption ==
    /\ Audience \in [Names -> SUBSET Users] /\ Senders \subseteq Users
    /\ \A u \in Users \cap Names : Audience[u] = {u}  \* a friend's name is his own
    /\ Workers \in Nat \ {0} /\ Chunks \in Nat \ {0}
    /\ MaxUp \in [Names -> Nat]
    /\ {MaxDown, MaxTransfers, MaxActive, MaxKeys, MaxMenus, MaxFaults} \subseteq Nat

VARIABLES
    \* Redis
    paths,      \* file:<from>:<to> -> the paths, oldest first
    names,      \* user:File:...:<to>:<from> -> names not yet downloaded
    \* disks
    file,       \* what was written for a transfer: on the server for an
                \* upload, at the receiver's for a download
    opened,     \* uploads whose file on the server exists
    \* the client programs
    x,          \* their transfer threads
    arr, ass,   \* the buffers their threads share
    cache,      \* friends_files, group_files: names they have been shown
    chat,       \* their requests to the chat server
    alive,
    \* sockets
    ctl, rep,   \* control connection: commands, replies
    link,       \* a client's end of a data connection
    port,       \* the server's end
    \* the FTP server
    wk,         \* its workers
    next,       \* master::_worker
    crashed,    \* the transfer whose command ended the process, or None
    \* bounds and history
    looks, faults,
    muddled     \* keys of whose transfers two overlapped, or one failed

redisVars == <<paths, names>>
diskVars == <<file, opened>>
clientVars == <<x, arr, ass>>
chatVars == <<cache, chat, looks>>
sockVars == <<ctl, rep, link, port>>
serverVars == <<wk, next>>
vars == <<redisVars, diskVars, clientVars, chatVars, alive, sockVars, serverVars,
          crashed, faults, muddled>>

Kinds == {"up", "down"}
Replies == {"", "227", "150up", "150down", "226", "550"} \X (Transfers \cup {None})
Steps == {"none", "start", "227", "parse", "connect", "150", "chk150", "data", "send",
          "226", "chk226", "reported", "ended", "dead"}
Asks == [do : {"SENDFILE", "RECVFILE"}, key : Keys, name : Transfers]

TypeOK ==
    /\ \A k \in Keys : ToSet(paths[k]) \subseteq Transfers
    /\ \A u \in Users, k \in Keys :
        /\ ToSet(names[u][k]) \subseteq Transfers
        /\ ToSet(cache[u][k]) \subseteq Transfers
    /\ \A t \in Transfers :
        /\ x[t].at \in Steps
        /\ x[t].at # "none" => x[t] \in
            [at : Steps, kind : Kinds, by : Users, key : Keys, name : Transfers,
             pos : 0 .. Chunks, on : 0 .. Workers - 1]
        /\ ToSet(file[t]) \cup ToSet(link[t].q) \subseteq None .. Address
        /\ link[t].to \in Transfers \cup {None} /\ link[t].eof \in BOOLEAN
        /\ port[t].data \in Transfers \cup {None} /\ port[t].open \in BOOLEAN
    /\ opened \subseteq Transfers
    /\ \A u \in Users : ToSet(chat[u]) \subseteq Asks
    /\ arr \in [Users -> Replies]
    /\ ass \in [Users -> None .. Address]
    /\ \A w \in DOMAIN wk :
        /\ wk[w].at \in {"wait", "accept", "recv", "send", "lrem"}
        /\ wk[w].t \in Transfers \cup {None} /\ wk[w].f \in Transfers \cup {None}
    /\ alive \subseteq Users /\ muddled \subseteq Keys /\ crashed \in Transfers \cup {None}

Up == crashed = None
closed == [pend |-> << >>, open |-> FALSE, data |-> None]
free == [at |-> "wait", t |-> None, f |-> None, pos |-> 0]

Init ==
    /\ paths = [k \in Keys |-> << >>]
    /\ names = [u \in Users |-> [k \in Keys |-> << >>]]
    /\ file = [t \in Transfers |-> << >>] /\ opened = {}
    /\ x = [t \in Transfers |-> [at |-> "none"]]
    /\ arr = [u \in Users |-> << "", None >>] /\ ass = [u \in Users |-> None]
    /\ cache = [u \in Users |-> [k \in Keys |-> << >>]]
    /\ chat = [u \in Users |-> << >>]
    /\ alive = Users
    /\ ctl = [t \in Transfers |-> << >>] /\ rep = [t \in Transfers |-> << >>]
    /\ link = [t \in Transfers |-> [to |-> None, q |-> << >>, eof |-> FALSE]]
    /\ port = [t \in Transfers |-> closed]
    /\ wk = [w \in 0 .. Workers - 1 |-> free] /\ next = 0
    /\ crashed = None
    /\ looks = 0 /\ faults = 0 /\ muddled = {}

-----------------------------------------------------------------------------
(* The chat client and the chat server: names.                             *)

Over == {"none", "reported", "ended", "dead"}
Active(t) == x[t].at \notin Over \/ \E w \in DOMAIN wk : wk[w].at # "wait" /\ wk[w].t = t
Started == {t \in Transfers : x[t].at # "none"}
Ups == {t \in Started : x[t].kind = "up"}

\* A user starts a transfer thread.  (muddled: it is not alone, or fetches a
\* name, shown twice, that has been fetched before.)
StartThread(u, kind, k, name) ==
    LET t == Cardinality(Started) + 1
        n == IF kind = "up" THEN t ELSE name
        other == {s \in Started : Active(s) /\ (x[s].key = k \/ x[s].by = u)}
        stale == kind = "down" /\ \E s \in Started \ Ups :
                    x[s].by = u /\ x[s].key = k /\ x[s].name = name
    IN
    /\ t + faults <= MaxTransfers /\ Cardinality({s \in Started : Active(s)}) < MaxActive
    /\ x' = [x EXCEPT ![t] = [at |-> "start", kind |-> kind, by |-> u, key |-> k,
                              name |-> n, pos |-> 0, on |-> 0]]
    /\ muddled' = muddled \cup {x[s].key : s \in other}
                    \cup IF other # {} \/ stale THEN {k} ELSE {}

Ask(u, a) == chat' = [chat EXCEPT ![u] = Append(@, a)]

\* send_file, send_file_group: upload in a thread of its own, and tell the
\* chat server at once.
send_file(u, k) ==
    /\ u \in alive /\ u = k[1] /\ u \notin Audience[k[2]]
    /\ Cardinality(Ups) < MaxUp[k[2]] /\ Cardinality(Ups) + looks < MaxMenus
    /\ Cardinality({x[s].key : s \in Ups} \cup {k}) <= MaxKeys
    /\ StartThread(u, "up", k, None)
    /\ Ask(u, [do |-> "SENDFILE", key |-> k, name |-> Cardinality(Started) + 1])
    /\ UNCHANGED <<redisVars, diskVars, arr, ass, cache, looks, alive, sockVars,
                   serverVars, crashed, faults>>

\* look_file, send_file_req and print_look_file: the names still filed, from
\* whomever, once the user's earlier requests are handled, are added to those
\* shown before.  (Where there are none, nothing changes.)
look_file(u, k) ==
    /\ u \in alive /\ u \in Audience[k[2]] /\ chat[u] = << >> /\ Up
    /\ \E l \in Keys : l[2] = k[2] /\ names[u][l] # << >>
    /\ Cardinality(Ups) + looks < MaxMenus /\ looks' = looks + 1
    /\ cache' = [cache EXCEPT ![u] = [l \in Keys |->
                    IF l[2] = k[2] THEN @[l] \o names[u][l] ELSE @[l]]]
    /\ UNCHANGED <<redisVars, diskVars, clientVars, chat, alive, sockVars,
                   serverVars, crashed, faults, muddled>>

\* A friend is a user, a group is not.
ToFriend(k) == k[2] \in Users

\* recive_file takes the first name of a friend's, recive_file_group the one
\* the user types.
recive_file(u, k) ==
    /\ u \in alive /\ u \in Audience[k[2]]
    /\ Cardinality(Started \ Ups) < MaxDown
    /\ \E i \in DOMAIN cache[u][k] :
        LET n == cache[u][k][i] IN
        /\ ToFriend(k) => i = 1
        /\ Ask(u, [do |-> "RECVFILE", key |-> k, name |-> n])
        /\ StartThread(u, "down", k, n)
        /\ cache' = [cache EXCEPT ![u][k] = RemoveFirst(@, n)]
    /\ UNCHANGED <<redisVars, diskVars, arr, ass, looks, alive, sockVars,
                   serverVars, crashed, faults>>

\* delUserFile of a friend.
delUserFile_last(s) == IF s = << >> THEN s ELSE Front(s)
delUserFile(s) == IF s = << >> THEN s ELSE Tail(s)

\* The chat server's handlers of these requests.  setUserFile appends; a friend's
\* name is popped whatever the name, a group's removed by name.
Connection_send_file(k, n) == names' = [names EXCEPT ![k[2]][k] = Append(@, n)]
Connection_send_file_group(k, n) ==
    names' = [v \in Users |-> IF v \in Audience[k[2]]
                THEN [names[v] EXCEPT ![k] = Append(@, n)] ELSE names[v]]
Connection_recv_file(u, k) == names' = [names EXCEPT ![u][k] = delUserFile(@)]
Connection_recv_file_group(u, k, n) == names' = [names EXCEPT ![u][k] = RemoveFirst(@, n)]

Connection_file(u) ==
    LET a == Head(chat[u]) k == a.key IN
    /\ Up /\ chat[u] # << >>
    /\ chat' = [chat EXCEPT ![u] = Tail(@)]
    /\ \/ a.do = "SENDFILE" /\ ToFriend(k) /\ Connection_send_file(k, a.name)
       \/ a.do = "SENDFILE" /\ ~ToFriend(k) /\ Connection_send_file_group(k, a.name)
       \/ a.do = "RECVFILE" /\ ToFriend(k) /\ Connection_recv_file(u, k)
       \/ a.do = "RECVFILE" /\ ~ToFriend(k) /\ Connection_recv_file_group(u, k, a.name)
    /\ UNCHANGED <<paths, diskVars, clientVars, cache, looks, alive, sockVars,
                   serverVars, crashed, faults, muddled>>

-----------------------------------------------------------------------------
(* The transfer threads: FTPClient.                                        *)

\* Something goes wrong that the bounds allow for.
Fault ==
    /\ faults < MaxFaults /\ Cardinality(Started) + faults < MaxTransfers
    /\ faults' = faults + 1

At(t, at) == x[t].at = at /\ Up
To(t, at) == x' = [x EXCEPT ![t].at = at]
Command(t, c) == ctl' = [ctl EXCEPT ![t] = Append(@, c)]
redisServer == <<redisVars, diskVars, chatVars, alive, serverVars, crashed, faults, muddled>>

\* distribute_worker takes the workers in turn.
turn_unbounded == next
turn == next % Workers

\* init connects, accept_client gives the connection to a worker, PASV is sent.
init(t) ==
    /\ At(t, "start")
    /\ x' = [x EXCEPT ![t].at = "227", ![t].on = turn]
    /\ next' = next + 1
    /\ Command(t, "PASV")
    /\ UNCHANGED <<redisVars, diskVars, arr, ass, chatVars, alive, rep, link, port,
                   wk, crashed, faults, muddled>>

\* One recv of whatever has arrived; what is made of it is the first reply.
Recive(t) ==
    /\ Up /\ x[t].at \in {"227", "150", "226"}
    /\ rep[t] # << >>
    /\ \E n \in DOMAIN rep[t] : rep' = [rep EXCEPT ![t] = SubSeq(@, n + 1, Len(@))]
    /\ arr' = [arr EXCEPT ![x[t].by] = Head(rep[t])]
    /\ To(t, CASE x[t].at = "227" -> "parse" [] x[t].at = "150" -> "chk150"
               [] OTHER -> "chk226")
    /\ UNCHANGED <<redisServer, ass, ctl, link, port>>

\* The port is parsed from arr, where another thread's reply may be by now, and
\* the address is copied to ass ...
openPassiveMode(t) ==
    LET p == arr[x[t].by][2] IN
    /\ At(t, "parse")
    /\ link' = [link EXCEPT ![t].to = p]
    /\ ass' = [ass EXCEPT ![x[t].by] = IF p = None THEN None ELSE Address]
    /\ To(t, "connect")
    /\ UNCHANGED <<redisServer, arr, ctl, rep, port>>

\* ... from where it is taken.  A port that nobody listens on refuses, as what
\* is no address does; the command is sent all the same.
Connect(t) ==
    LET p == link[t].to IN
    /\ At(t, "connect")
    /\ IF p # None /\ ass[x[t].by] = Address /\ port[p].open
       THEN port' = [port EXCEPT ![p].pend = Append(@, t)] /\ UNCHANGED link
       ELSE link' = [link EXCEPT ![t].to = None] /\ UNCHANGED port
    /\ To(t, "150")
    /\ Command(t, IF x[t].kind = "up" THEN "STOR" ELSE "RETR")
    /\ UNCHANGED <<redisServer, arr, ass, rep>>

\* The thread ends: FTPClient closes both its sockets.  (That the server reads
\* QUIT, or the end, and closes its end of the control connection is left out.)
Quit(t) == link' = [link EXCEPT ![t].eof = TRUE]

Is150(t) == arr[x[t].by][1] = "150" \o x[t].kind

\* Stor empties ass before it reads.
check_150(t) ==
    /\ At(t, "chk150")
    /\ IF Is150(t)
       THEN /\ To(t, "data")
            /\ ass' = IF x[t].kind = "up" THEN [ass EXCEPT ![x[t].by] = None] ELSE ass
            /\ UNCHANGED <<link, muddled>>
       ELSE To(t, "ended") /\ Quit(t) /\ muddled' = muddled \cup {x[t].key} /\ UNCHANGED ass
    /\ UNCHANGED <<redisVars, diskVars, arr, chatVars, alive, ctl, rep, port,
                   serverVars, crashed, faults>>

\* A file that exists and cannot be opened: Stor returns, the link stays open.
Stor_fails(t) ==
    /\ At(t, "chk150") /\ Is150(t) /\ x[t].kind = "up"
    /\ Fault
    /\ To(t, "226")
    /\ muddled' = muddled \cup {x[t].key}
    /\ UNCHANGED <<redisVars, diskVars, arr, ass, chatVars, alive, sockVars,
                   serverVars, crashed>>

\* Stor reads a chunk into ass ...
Stor_read(t) ==
    /\ At(t, "data") /\ x[t].kind = "up" /\ x[t].pos < Chunks
    /\ ass' = [ass EXCEPT ![x[t].by] = t]
    /\ To(t, "send")
    /\ UNCHANGED <<redisServer, arr, sockVars>>

\* ... and sends what is in ass.
Stor_send(t) ==
    /\ At(t, "send")
    /\ link' = [link EXCEPT ![t].q = Append(@, ass[x[t].by])]
    /\ x' = [x EXCEPT ![t].at = "data", ![t].pos = @ + 1]
    /\ UNCHANGED <<redisServer, arr, ass, ctl, rep, port>>

Stor_close_leaves_link(t) ==
    /\ At(t, "data") /\ x[t].kind = "up" /\ x[t].pos = Chunks
    /\ To(t, "226")
    /\ UNCHANGED <<redisServer, arr, ass, sockVars>>

Stor_close(t) ==
    /\ At(t, "data") /\ x[t].kind = "up" /\ x[t].pos = Chunks
    /\ link' = [link EXCEPT ![t].eof = TRUE]
    /\ To(t, "226")
    /\ UNCHANGED <<redisServer, arr, ass, ctl, rep, port>>

\* Retr writes what arrives until the end of it, or an error.
Retr(t) ==
    /\ At(t, "data") /\ x[t].kind = "down"
    /\ \/ /\ link[t].q # << >>
          /\ file' = [file EXCEPT ![t] = Append(@, Head(link[t].q))]
          /\ link' = [link EXCEPT ![t].q = Tail(@)]
          /\ UNCHANGED x
       \/ /\ link[t].q = << >> /\ (link[t].eof \/ link[t].to = None)
          /\ To(t, "226")
          /\ UNCHANGED <<file, link>>
    /\ UNCHANGED <<redisVars, opened, arr, ass, chatVars, alive, ctl, rep, port,
                   serverVars, crashed, faults, muddled>>

\* The receiver's own file cannot be opened: Retr closes the link and goes on, its
\* recv fails, nothing is stored, and the 226 is waited for all the same.
Retr_fails(t) ==
    /\ At(t, "chk150") /\ Is150(t) /\ x[t].kind = "down"
    /\ Fault
    /\ To(t, "226") /\ Quit(t)
    /\ muddled' = muddled \cup {x[t].key}
    /\ UNCHANGED <<redisVars, diskVars, arr, ass, chatVars, alive, ctl, rep, port,
                   serverVars, crashed>>

\* "uploaded" or "downloaded" is shown, or nothing, and the thread ends.
check_226(t) ==
    /\ At(t, "chk226")
    /\ To(t, IF arr[x[t].by][1] = "226" THEN "reported" ELSE "ended")
    /\ Quit(t)
    /\ UNCHANGED <<redisServer, arr, ass, ctl, rep, port>>

\* A client program ends, and its threads with it.
exit(u) ==
    LET mine == {t \in Started : x[t].by = u /\ x[t].at \notin Over} IN
    /\ u \in alive /\ mine # {}
    /\ Fault
    /\ alive' = alive \ {u}
    /\ x' = [t \in Transfers |-> IF t \in mine THEN [x[t] EXCEPT !.at = "dead"] ELSE x[t]]
    /\ link' = [t \in Transfers |-> IF t \in mine THEN [link[t] EXCEPT !.eof = TRUE] ELSE link[t]]
    /\ muddled' = muddled \cup {x[t].key : t \in mine}
    /\ UNCHANGED <<redisVars, diskVars, arr, ass, chatVars, ctl, rep, port,
                   serverVars, crashed>>

-----------------------------------------------------------------------------
(* The FTP server: worker::event_loop, FTPconnect and Dataconnect.         *)

Busy(w, at) == Up /\ wk[w].at = at
Answer(t, code, p) == rep' = [rep EXCEPT ![t] = Append(@, << code, p >>)]
Reply(t, code) == Answer(t, code, None)
Engage(w, at, t, f) == wk' = [wk EXCEPT ![w] = [at |-> at, t |-> t, f |-> f, pos |-> 0]]
Return(w) == wk' = [wk EXCEPT ![w] = free]

\* hand_io reads the next command of a client.
Reads(w, t, c) ==
    /\ Busy(w, "wait")
    /\ x[t].at \notin {"none", "start"} /\ x[t].on = w
    /\ ctl[t] # << >> /\ Head(ctl[t]) = c
    /\ ctl' = [ctl EXCEPT ![t] = Tail(@)]

\* set_pasv_conn: a listening socket, the answer, and accept_data.
PASV(w, t) ==
    /\ Reads(w, t, "PASV")
    /\ port' = [port EXCEPT ![t] = [closed EXCEPT !.open = TRUE]]
    /\ Answer(t, "227", t)
    /\ Engage(w, "accept", t, None)
    /\ UNCHANGED <<redisVars, diskVars, clientVars, chatVars, alive, link, next,
                   crashed, faults, muddled>>

\* accept_data tries until somebody has connected.
accept_data(w) ==
    LET t == wk[w].t IN
    /\ Busy(w, "accept") /\ port[t].pend # << >>
    /\ port' = [port EXCEPT ![t].data = Head(port[t].pend), ![t].pend = Tail(@)]
    /\ Return(w)
    /\ UNCHANGED <<redisVars, diskVars, clientVars, chatVars, alive, ctl, rep, link,
                   next, crashed, faults, muddled>>

\* Close: the data connection ends; one that was never accepted is reset.
Closed(t) ==
    /\ port' = [port EXCEPT ![t] = closed]
    /\ link' = [s \in Transfers |->
                 IF s = port[t].data \/ s \in ToSet(port[t].pend)
                 THEN [link[s] EXCEPT !.eof = TRUE] ELSE link[s]]

\* recive_file: file_creat files the path before there is any data; the file
\* may fail to open, and the path stays.
STOR_without_path(w, t) ==
    /\ Reads(w, t, "STOR")
    /\ opened' = opened \cup {x[t].name}
    /\ Reply(t, "150up")
    /\ Engage(w, "recv", t, x[t].name)
    /\ UNCHANGED <<redisVars, file, clientVars, chatVars, alive, link, port, next,
                   crashed, faults, muddled>>

STOR(w, t) ==
    /\ Reads(w, t, "STOR")
    /\ paths' = [paths EXCEPT ![x[t].key] = Append(@, x[t].name)]
    /\ \/ /\ opened' = opened \cup {x[t].name}
          /\ Reply(t, "150up")
          /\ Engage(w, "recv", t, x[t].name)
          /\ UNCHANGED <<link, port, faults, muddled>>
       \/ /\ Fault
          /\ Reply(t, "550")
          /\ Closed(t)
          /\ muddled' = muddled \cup {x[t].key}
          /\ UNCHANGED <<opened, wk>>
    /\ UNCHANGED <<names, file, clientVars, chatVars, alive, next, crashed>>

\* A reply to a client that has gone may bring SIGPIPE, which nobody catches.
MayDie(t) == crashed' \in IF x[t].at = "dead" THEN {None, t} ELSE {None}

EndOfData_none_yet(d) == link[d].q = << >>
EndOfData(d) == link[d].q = << >> /\ link[d].eof

\* The loop of recive_file, until the client has closed its end.
recive_loop(w) ==
    LET t == wk[w].t d == port[t].data IN
    /\ Busy(w, "recv")
    /\ \/ /\ link[d].q # << >>
          /\ file' = [file EXCEPT ![wk[w].f] = Append(@, Head(link[d].q))]
          /\ link' = [link EXCEPT ![d].q = Tail(@)]
          /\ UNCHANGED <<rep, port, wk, crashed>>
       \/ /\ EndOfData(d)
          /\ Closed(t)
          /\ Reply(t, "226") /\ MayDie(t)
          /\ Return(w)
          /\ UNCHANGED file
    /\ UNCHANGED <<redisVars, opened, clientVars, chatVars, alive, ctl, next,
                   faults, muddled>>

FirstPath_last(list) == Last(list)
FirstPath(list) == list[1]

RETR_removes(w, t) ==
    LET list == paths[x[t].key] IN
    /\ Reads(w, t, "RETR") /\ list # << >>
    /\ Reply(t, "150down")
    /\ Engage(w, "send", t, Head(list))
    /\ paths' = [paths EXCEPT ![x[t].key] = Tail(@)]
    /\ UNCHANGED <<names, crashed, diskVars, clientVars, chatVars, alive, link, port,
                   next, faults, muddled>>

\* send_file takes the first path filed for sender and addressee: there is
\* none, and file_names[0] is no string; it cannot be opened; or it is sent.
RETR(w, t) ==
    LET list == paths[x[t].key] IN
    /\ Reads(w, t, "RETR")
    /\ \/ /\ list = << >> /\ crashed' = t
          /\ UNCHANGED <<rep, wk>>
       \/ /\ list # << >> /\ FirstPath(list) \notin opened
          /\ Reply(t, "550")
          /\ UNCHANGED <<wk, crashed>>
       \/ /\ list # << >> /\ FirstPath(list) \in opened
          /\ Reply(t, "150down")
          /\ Engage(w, "send", t, FirstPath(list))
          /\ UNCHANGED crashed
    /\ UNCHANGED <<redisVars, diskVars, clientVars, chatVars, alive, link, port,
                   next, faults, muddled>>

\* The loop of send_file, to the end of what the file holds by now.  Whoever
\* has closed its end makes send fail, which is ignored, or kills the server.
send_loop(w) ==
    LET t == wk[w].t d == port[t].data IN
    /\ Busy(w, "send")
    /\ \/ /\ wk[w].pos < Len(file[wk[w].f])
          /\ wk' = [wk EXCEPT ![w].pos = @ + 1]
          /\ IF link[d].eof
             THEN UNCHANGED link /\ crashed' \in {None, t}
             ELSE /\ link' = [link EXCEPT ![d].q = Append(@, file[wk[w].f][wk[w].pos + 1])]
                  /\ UNCHANGED crashed
          /\ UNCHANGED <<rep, port>>
       \/ /\ wk[w].pos = Len(file[wk[w].f])
          /\ Closed(t)
          /\ Reply(t, "226") /\ MayDie(t)
          /\ wk' = [wk EXCEPT ![w].at = "lrem"]
    /\ UNCHANGED <<redisVars, diskVars, clientVars, chatVars, alive, ctl, next,
                   faults, muddled>>

\* After the 226 the path is removed, by its value.
send_done(w) ==
    LET k == x[wk[w].t].key IN
    /\ Busy(w, "lrem")
    /\ paths' = [paths EXCEPT ![k] = RemoveFirst(@, wk[w].f)]
    /\ Return(w)
    /\ UNCHANGED <<names, diskVars, clientVars, chatVars, alive, sockVars, next,
                   crashed, faults, muddled>>

-----------------------------------------------------------------------------
User ==
    \E u \in Users, k \in Keys : send_file(u, k) \/ look_file(u, k) \/ recive_file(u, k)

Thread(t) ==
    \/ init(t) \/ Recive(t) \/ openPassiveMode(t) \/ Connect(t) \/ check_150(t)
    \/ Stor_read(t) \/ Stor_send(t) \/ Stor_close(t) \/ Retr(t) \/ check_226(t)

Command_(w, t) == PASV(w, t) \/ STOR(w, t) \/ RETR(w, t)
Worker(w) == accept_data(w) \/ recive_loop(w) \/ send_loop(w) \/ send_done(w)

Next ==
    \/ User
    \/ \E u \in Users : Connection_file(u) \/ exit(u)
    \/ \E t \in Transfers : Thread(t) \/ Stor_fails(t) \/ Retr_fails(t)
    \/ \E w \in DOMAIN wk : Worker(w) \/ \E t \in Transfers : Command_(w, t)

\* Threads run, the client's and the server's; epoll reports every connection
\* with something to read.  Nothing is assumed of users or of failures.
Fairness ==
    /\ \A t \in Transfers : WF_vars(Thread(t)) /\ WF_vars(\E w \in DOMAIN wk : Command_(w, t))
    /\ \A w \in 0 .. Workers - 1 : WF_vars(Worker(w))

Spec == Init /\ [][Next]_vars
FairSpec == Spec /\ Fairness
-----------------------------------------------------------------------------
(* Properties.                                                             *)

Whole(n) == [i \in 1 .. Chunks |-> n]
Orderly(k) == k \notin muddled
Reported(t) == x[t].at = "reported"
Downs == Started \ Ups

\* What a user has been told was uploaded is on the server in full, if no two
\* transfers of the key or of the program overlapped: threads of one program
\* share the buffers of replies and data (FTP_client.cc:6-7, 210, 335).
UploadedIsWhole ==
    \A t \in Ups : Reported(t) /\ Orderly(x[t].key) => file[t] = Whole(t)

\* The download of a friend's file brings the file whose name was chosen: the
\* FTP server is not told the name and sends the oldest path, so the two lists
\* must have stayed in step (Dataconnect.cc:74-76, RedisClient.cc:264-274).  That
\* is, if no transfer of the key overlapped another or failed; a receiver who
\* cannot open his own file (FTP_client.cc:161-166) is such a failure.
DownloadedIsAsked ==
    \A t \in Downs :
        Reported(t) /\ Orderly(x[t].key) /\ ToFriend(x[t].key) => file[t] = Whole(x[t].name)

\* Whenever nothing is under way for a friend, the names he is shown are those
\* of the paths that are kept for him, in the same order, although two servers
\* and four handlers keep the two lists (connection.cc:1057, Dataconnect.cc:174).
NamesMatchPaths ==
    \A k \in Keys : \A u \in Audience[k[2]] :
        (/\ Orderly(k) /\ ToFriend(k) /\ chat[k[1]] = << >> /\ chat[u] = << >>
         /\ \A t \in Started : x[t].key = k => ~Active(t)) => names[u][k] = paths[k]

\* A path is removed only once somebody has been sent the whole file
\* (Dataconnect.cc:108-112), if no transfer of the key overlapped another or
\* failed: after a receiver's failure to open his file the path is removed and
\* nobody has it (FTP_client.cc:161-166).
RemovedWasSent ==
    \A t \in Ups :
        (Reported(t) /\ Orderly(x[t].key) /\ t \notin ToSet(paths[x[t].key])) =>
            \E d \in Downs : file[d] \o link[d].q = Whole(t)

\* A download finds a path, and the server survives, unless transfers of the
\* key overlapped or failed or another member of the group was quicker
\* (Dataconnect.cc:76).
CrashNeedsDisorder ==
    ~Up => LET k == x[crashed].key IN
        \/ ~Orderly(k)
        \/ ~ToFriend(k) /\ \E d \in Downs : x[d].key = k /\ x[d].by # x[crashed].by

\* The worker waits for a client that will not come, or not go on.
Blocked(w) ==
    LET t == wk[w].t d == port[t].data IN
    \/ wk[w].at = "accept" /\ port[t].pend = << >> /\ x[t].at \notin {"227", "parse", "connect"}
    \/ wk[w].at = "recv" /\ (d # t \/ (x[d].at = "226" /\ x[d].pos = 0))

\* In the end every upload has ended and every worker has returned to its other
\* clients; what still waits is a download that has taken its last reply for
\* part of the one before, or a thread that has taken another's for its own.
\* That is, unless a client died before it connected, connected
\* elsewhere, or left its file unsent, and a worker waits for it for ever
\* (Dataconnect.cc:43-53, 129-147: neither loop gives up).  In between there is
\* no end of waiting, however the commands of the clients interleave.
Settled ==
    \/ ~Up
    \/ \E w \in DOMAIN wk : Blocked(w)
    \/ /\ \A w \in DOMAIN wk : wk[w].at = "wait"
       /\ \A t \in Started : 
            \/ x[t].at \in Over
            \/ x[t].at = "226" /\ (x[t].kind = "down" \/ ~Orderly(x[t].key))

TransfersEnd == <>[]Settled
==============================================================================
