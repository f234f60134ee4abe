# A TLA+ model of the chat room

This directory holds a formal model of the chat system under `src/`: a C++
server (an accepting thread, a pool of epoll workers, Redis for everything that
lasts), a terminal client, a file server and a heartbeat process. The modules
are checked on small instances with TLC; the theorems of the modules whose names
end in `Proofs` are checked by the TLA+ proof system for every value of the
constants.

Paths below are relative to `src/src/` unless they begin with `src/`.

## 1. The system

| component | state | operations | talks to |
|---|---|---|---|
| Accepting thread (`Server/Reactor/MasterServer.cc`) | the listening socket, `next_worker`, `Worker_fd` (descriptor -> worker, never erased) | `accept_client`, `distribute_worker` | the workers, by calling their `make_queue` |
| Workers (`Server/Reactor/Worker.cc`) | an epoll instance and `conn` (descriptor -> `Connection`) each, `cli_mutex` | `make_queue`, `eventloop`, `remove_fd`, `Notify` | each other, through `MessageCenter::dispatch` |
| Presence (`Server/Manage/User_manager.cc`) | the process-wide maps `users` (account -> descriptor) and `fds` (descriptor -> account) | `addUser`, `removeUser`, and look-ups everywhere in `connection.cc` | every worker; each worker has a `UserManager`, and so a mutex, of its own |
| Connection (`Server/net/connection.cc`) | a read buffer, `heart_time`, a Redis client | `readMessage`, `checkHeart`, one handler for each action of the protocol | Redis, presence, other connections by `dispatch` |
| Friends and the mailbox (`connection.cc`, `RedisClient.cc`) | friend sets, pending requests, offline notices, blocks, histories | request, accept, delete, block, chat, login | presence (is the addressee online?) |
| Groups (`connection.cc`, `RedisClient.cc`, `Client/UserChat/*groups.cc`) | index owner:name -> uuid, members with roles, managers, the group list of each user, join requests | create, join, decide, add and kick members, appoint and dismiss managers, leave, disband, delete an account | presence, for the notices |
| Accounts (`Server/UserAuth`, `Client/UserAuth`) | user hashes, verification codes that expire, the data of the registration under way | register, check the code, log in by password or code | the mail sender |
| File server and client (`Server/FTP_server`, `Client/UserFile`) | control connections, one data connection each, files, entries in Redis | `PASV`, `STOR`, `RETR` | chat handlers list and delete the entries |
| Framing (`tools/protocol.cc`) | a length prefix and a buffer on each side | `pack`, `unpack` | every socket |
| Chat client (`Client/UserChat`) | caches of friends, of groups and of the user's role in the group it entered; two reader threads that take turns | the menus | the server |
| Heartbeat (`Client/Heart`) | a connection of its own | a ping every 30 seconds | the server |

What is hard to get right here, and hard to test:

* **Tables without a common lock.** `users`, `fds`, `Worker_fd` and, through
  `Notify`, the `conn` maps are used by all threads; the mutexes that seem to
  protect them (`UserManager::_mtx`) are one per worker.
* **Descriptor numbers are reused.** The tables are keyed by numbers which the
  kernel gives out again the moment they are closed. Correctness depends on the
  order in which `remove_fd` empties `conn`, `users`, `fds` and calls `close`.
* **Look up, then use.** A handler reads `users[name]`, works, and sends to that
  number later.
* **No transactions in Redis.** A group is four records, a friendship two, a
  notice a hash that is read and then deleted. Each Redis command is atomic, a
  handler is several of them, and handlers on different workers interleave.
* **The client checks, the server does not.** Roles are checked in the menus,
  against what was true when the group was entered.
* **Silence and crashes.** A heartbeat check that closes a number and leaves the
  tables; empty optionals that are dereferenced; a null `Connection`.

What makes each component correct:

* presence: an account is routed only to a live connection that logged in as it;
  an account's only session is never lost; a refused login changes nothing; a
  message reaches its addressee or nobody;
* workers: one worker for each descriptor; a client that has gone is cleaned up;
* groups: managers are members, a group keeps its owner, a user's list and
  the member set agree, a user who was removed has lost the group;
* friends: friendship is symmetric; a notice for an offline user is delivered
  once and never lost; a block holds until it is lifted;
* accounts: an account in Redis was confirmed with a code made for its name, and
  holds what its owner typed; success is shown for what was saved;
* files: a file that is listed is complete; a stalled data connection does not
  stop other clients;
* framing: whatever the cuts between reads, the frames that come out are the
  frames that went in.

## 2. Modules

    Presence        what the presence table promises (abstract)
       ^ refined by
    Sessions        connections, workers, presence tables, dispatch, teardown
       ^ EXTENDS              ^ EXTENDS
    MCSessions (TLC)       SessionsProofs (TLAPS)

    Groups          group records in Redis, handlers as programs of commands
       ^ EXTENDS              ^ EXTENDS
    MCGroups (TLC)         GroupsProofs (TLAPS)

    Friends         friend sets, requests, offline notices, the client's caches
    Chats           private and group messages, the histories
    Auth            registration, login, codes, the authentication server and client
    Files           file transfer and the two lists of files, three programs
    Reader          frames in a stream, and the two threads of the client that read it
       ^ EXTENDS, each
    MCFriends, MCChats, MCAuth, MCFiles, MCReader (TLC)
    FriendsProofs, ChatsProofs, AuthProofs, FilesProofs, ReaderProofs (TLAPS)
       ^ EXTENDS FilesProofs
    FileListsProofs (TLAPS)

The modules meet at the tables they share: Sessions says how far `users` can be
trusted, and the others take it as a set or a function of accounts; Reader says
what becomes of a message after `dispatch`, which the others take as delivered;
Groups says who is a member, which Chats takes as given but for the moment of a
change of role; the chat server's deletion of an account is a step of Friends,
Groups and Auth, each with the records it is about.

`PROJECT.json` maps every definition to the lines of source it stands for.

### Sessions

A *client* is a connection (and so the server's `Connection` object for it); a
*descriptor* is the number it gets. `peer[f]` is the client behind an open
number, `epoll[f]` the worker that watches it. `users`, `fds`, `Worker_fd`,
`conn` are the tables of the code, with `NoFd = 0` for what `users[name]` yields
for an absent name, as the code tests it. The accepting thread has a program
counter `mpc` and each worker a `pc` with the locals of the functions on its
stack (`lfd`, `me`, `luser`, `to`, `tw`, and `left`, the frames of the buffer
that are still to be unpacked).

| code | actions |
|---|---|
| client connects, exits or dies | `Connect`, `Quit` |
| `accept_client`, `distribute_worker`, `make_queue` | the three actions of these names |
| `eventloop`, `readMessage` | `ReadFrames`, `ReadEof`, and `FrameDone` at the end of a handler |
| `checkHeart` | `HeartOk`, `HeartTimeout` |
| `adduser` -> `addUser` | `adduser` (test and UNLOGIN), `addUser` (`users`), `bindFd` (`fds`) |
| `Send_msg` and other handlers that notify | `Send_msg` (look-up), `dispatch`, `Notify_count`, `Notify_send` |
| `remove_fd` | `remove_erase`, `removeUser_name`, `removeUser_users`, `removeUser_fds`, `remove_close`, in the order of the sequence `removal` |
| a handler that touches no table of this module | `OtherFrame` |

*Atomicity.* One step is one access to shared state. The accesses themselves are
taken as atomic; in C++ unsynchronised access to an `unordered_map` is a data
race whose outcomes are not bounded by the language, so the properties here
are necessary conditions: they say that the *order* of accesses is right even if
every access were atomic. Two races are modelled with their outcomes because
they are visible at this level: `Notify` may find `conn[to_fd]` erased between
its test and its use (`crashed`), and `make_queue` may replace a `Connection`
while its `readMessage` runs (`crashed` or not). `cli_mutex`, which `make_queue`
and `remove_fd` do share, excludes them from one another (`Removing`).

*Abstractions.* Frames are whole (framing is in Reader);
edge-triggered `epoll` reports a descriptor with pending input or end of file,
and frames that arrive together with the end of file are dropped, as
`readMessage` does. A heartbeat connection is a client with `who = NoUser`. The
Redis set `online_users` is written and never read, and left out. Answers to the
sender itself (`dispatch(_fd, _fd, ..)`) change no state modelled here and are
part of their handler's step.

### Presence

Clients, accounts and a routing table; no descriptors and no threads. Its steps
allow what the code relies on: an account is routed to a connected client of
that account, and a socket is given back only when nothing is routed to it.
`Sessions!ImplementsPresence` maps `users` through `peer` to that table; a
step of the server is one step of the table or a stutter.

### Groups

The Redis records are `index`, `members`, `managers`, `lists`, `notify`
and `account`. A handler is a *program*: the sequence of the `RedisClient`
calls it makes, with what the result of each means for the rest (`needs`,
`unless`, `or`, `and`). `Begin` starts the program of a request when a worker is
free; each further step is one command, and the action has the name of the
`RedisClient` method. Loops over what a command returned are unrolled when
the command returns, in any order (Redis sets and hashes have none).

| request | program |
|---|---|
| `add_group`, `join_group`, `group_decide`, `group_choice` | `.._program` of the same name |
| `add_member`, `add_manager`, `del_manager` | same |
| `del_member` | `del_member_owner_program`, `del_member_manager_program`: the two branches of the handler |
| `leave_group`, `disband_froup` | `leave_group_program`, `disband_program` then `disband_rest` |
| `del_account` | `del_account_program`, one `del_account_group` for each group |

The guards of the requests are the client's: the menu of a group offers what the
role at the time of entry allows (`menu`), and goes on offering it after the role
has changed. Clients are assumed to send only what their menus let them send, and
a client's list of its groups is taken to be current (`k \in lists[u]`): how
the cached list falls behind is modelled for friends only.

`del_account` deletes the account (`deleteHashKey`) and never its list
`user:<name>:groups`. The name is free then and is registered again: `saveUser` is
that step, by which an account comes to exist with the list of the one before it, and
whoever logs in may enter the groups in it. `kicked` keeps what must be excused:
who was kicked from which group by whom, and, with `"account"` in place of a role,
what the list held when its account was deleted. The registration of a name that is
*taken* deletes the account as well (Auth); Groups does not follow that up.

Two reads dereference an empty optional. `getGroupuuid` of a name that has no
group any more: the process dies, or the handler goes on with a uuid from
uninitialised memory, here any uuid (`garbage`). From then on nothing can be
expected of the records; handlers under way finish, no request begins, and the
properties exclude these states. `getGroupManager` of a user without an entry,
which is the normal path when a manager kicks a plain member: the process dies,
or the role is any role; the properties hold in all of these outcomes.

### Friends

Redis holds `friends`, `requests` and `response`, the notices for a user who is
offline; a notice is a hash field whose key is its text, so the same notice
filed twice is one notice. Handlers are programs of commands as in Groups, with
the look-up in `users` as a command (`users`) that chooses the rest of the program
(`Notify`: send now, or file a notice). The client's side is `cache` (its `friends`),
`friend_res`, `friends_block` and `friends_by_block`, changed by the menu actions and by
`receive`, and lost when the process ends.

| code | definitions |
|---|---|
| menu of the client | `send_add_friend`, `handleReq`, `decide_add_friend`, `send_delete_friend`, `send_List`, `send_msg`, `block_friend`, `unblock_friend`, `del_account` |
| handlers | `send_addFriend_program`, `addFriend_program`, `Delete_notify_program`, `send_user_notify_program`, `send_List_program`, `Send_delete_friend_program`, `Send_msg_program`, `block_program`, `unblock_program`, `del_account_program`, and `adduser_program` for a login |
| `RedisClient` and tables | one action each, with the method's name |
| end of file | `removeUser`; look-ups that were made before lead nowhere then (`Closed`) |
| messages at the client | `receive` with `Befriended`, `Separated`, `Blockers`, `Unblockers` |

*Abstractions.* An account has one connection at a time; what a second one does is
Sessions' subject. The test whether the addressee of a request exists changes
nothing but a message, since the handler does not return after it
(`connection.cc:1418`), and is left out. A dispatch to descriptor 0, which
`addFriend` makes for an offline addressee, reaches nobody. `DELFDRES` carries no
user name, so the client's `erase` finds nothing, and it is left out. Messages that
are only printed (`Printed`) are not followed. A notice counts as sent when
`dispatch` is called for it, whether or not the client still reads.
Histories are in Chats, file notices in Files.

### Chats

A talk is the set of those who take part, two friends or the group. A worker has
a program counter `pc` and what its handler knows (`cur`); it serves its own
connections only (`Takes`), one frame at a time. `hist` is the list in Redis.

| code | actions |
|---|---|
| `Send_msg`, `group_chat` | `chat` begins the handler; `rpush`, `ltrim` (`setChatList`), `getGroupMember`, then for each addressee `lookup` and `setResKey` or `dispatch` |
| `send_online_msg`, `group_online_chat_list`; `send_offline_msg`, `group_chat_list` | `open` with the last `Recent` (10) or `Cap` (100) messages, `lrange`, `answer` |
| login, exit, `remove_fd` | `login`, `exit`, `remove_fd` |

`session` numbers the connections, so a message for a connection that is gone
is lost and never comes to the next one of the same user; what a reused
number does is Sessions' subject. `getGroupMember` may miss a
member whose entry is just being replaced (`add_manager`, `del_manager`: two
commands). `screen` is what a client has got live, `listed` what it was shown of a
history; both end with it. The look-up of a field before a notice is filed
(`connection.cc:1474`) asks for a key that no user has and is always negative, so it
is left out; so is the deletion of a friend's history, whose key has no colon
(`connection.cc:1211`) and names nothing: a history survives the friendship,
and shows up again when the two become friends once more.

### Auth

One thread serves all clients (`srv`). It reads what has come from a client,
as many frames as have arrived, and parses them into one message, so the last one
is handled (`onMessage`, `handled`). Each Redis command is a step, as the chat
server deletes accounts meanwhile (`chat_del_account`). A code is the number of the
request it was made for; `sent`, `mails`, `expired` say for which name it was made, to
which mailboxes it has come, and whether the 300 seconds are over.

A mail goes to the address typed in the form, whatever the name (`Send_verify`,
`User_auth_s.cc:219-236`). So a form is a name and an address (`Typed`), and who gets the
code is a matter of who reads that mailbox (`Reads`): two clients may be one user in two
terminals, a client may ask for a code for a name that is not its own and get
it, or send one to somebody else. `get_verify` types any code from a mailbox its user
can read, or a wrong one.

| code | actions |
|---|---|
| menu and forms of the client | `run`, `Register_u`, `LogIn`, `get_verify`, `receive`, `exit`, `del_account` |
| `Register_R` | `Register_R` (the account is saved), `Register_R_delete`, `Send_verify` |
| `R_check`, `L_check` | same |
| `LogIn` on the server | `LogIn_exists`, `LogIn_password` (HEXISTS, then HGET), `LogIn_email` |
| expiry of a key | `Expire` |

`LogIn_password` ends the process (`crashed`; the three servers are threads of one
process) when the account is deleted between its two commands. `Register_R` deletes
the account of its name whatever `saveUser` returned, so a registration that is
answered with "此用户已经被注册过了!" (`UserAuth/User_auth_c.cc:135`) leaves the
existing user without an account. A login by code
does not ask whether the account exists. `saveUser` of `R_check` fails when there is an
account by then, and nobody looks at the result: a code typed in two terminals registers
once and shows success twice.

### Files

The FTP server's workers run a command to its end, transfer included (`wk`). A
transfer is a number, in the order of their starts; it also stands for the port
the server opens for it, the upload's name and its path. `paths` (filed by the
FTP server) and `names` (filed by the chat server) are the two lists in Redis.

| code | actions |
|---|---|
| menus | `send_file`, `look_file`, `recive_file`; `StartThread` begins a transfer thread |
| chat server | `Connection_file` takes the next notice to its handler: `Connection_send_file`, `Connection_send_file_group`, `Connection_recv_file`, `Connection_recv_file_group` |
| transfer thread (`FTP_client.cc`) | `init`, `Recive` (one recv into `arr`), `openPassiveMode`, `Connect`, `check_150`, `Stor_read`, `Stor_send`, `Stor_close`, `Stor_fails`, `Retr`, `Retr_fails`, `check_226` |
| a program ends | `exit` |
| FTP server | `PASV`, `accept_data`, `STOR`, `recive_loop`, `RETR`, `send_loop`, `send_done` |

`arr` and `ass` are one for each program, as in the code, where all of its transfer
threads share them: a thread may overwrite a reply another is about to
read, or the data it is about to send. `muddled` marks the keys (sender and
addressee) for which transfers overlapped or failed; most properties speak of the
others. A transfer fails when one of its programs ends, when the server cannot open the
file (550), when the sender cannot open his (`Stor_fails`), and when the receiver
cannot open his (`Retr_fails`, `FTP_client.cc:161-166`): the link is closed, the 226 is
awaited as ever, and the download is reported with nothing stored, while the server
sends to a closed socket and removes the path. `Recive` may return two replies as one. A `send` to a program that has
ended may end the server (`MayDie`: SIGPIPE is not blocked), and `RETR` of a pair
without a path does (`list[0]` of an empty vector).

### Reader

The stream from the server is a sequence of units, `FrameLen` for a frame, the first
of which holds the length. `sendMessage` puts into the socket what fits and forgets
the rest. Each of the readers `"main"` (`runRecive`) and `"chat"` (`recive_msg`,
`recv_group_msg`) has a program counter; `armed` says whether its recv began with a
timeout, as the option `rcvtimeo` is one for the socket.

| code | actions |
|---|---|
| server | `sendMessage`, `close` |
| `main_run`, `runRecive`, `recive_msg` | `main_run`, `sleep`, `setsockopt`, `loop`, `recv`, `timeout`, `received`, `unpack`, `leave` |
| `chat_friend`, `chat_group` | `chat_friend`, `quit`, `joinThread` |
| `~UserChat` | `UserChat_ends`, `closed` |

One assumption on time: the second a chat's reader sleeps is longer than the other
reader needs for data it has already received (guard of `sleep`); without it both
would work on `msg` at a time. A recv of a second that began just before may still be
waiting, and does in the model. The readers read the flags `_running` and
`_running_recv`, which are atomic.

## 3. What is checked

| run | instance | shows |
|---|---|---|
| `sessions` | 3 connections, 2 accounts, 2 descriptors, 2 workers, no silence; 895k states | `TypeOK`; `RegisteredIsLive`; `ServedByOneWorker`; `MisroutedByReuseOnly`; `ImplementsPresence` |
| `sessions_silent` | 2 connections, 2 accounts, 2 descriptors, 2 workers, 2 frames in a read, heartbeat timeouts | `SoleSessionReachable` |
| `sessions_live` | 2 connections, 1 account, 1 worker, fairness | `Released` |
| `sessions_refused` | 2 connections, 1 account | `RefusedIsNotRegistered` is **violated** |
| `groups` | 3 users, 1 group, 2 handlers at a time, 6 requests and registrations; 819k states | `TypeOK`; `ManagersAreMembers`; `OwnerKeepsEntry`; `ListedAreMembers` |
| `groups_kicked` | one handler at a time | `KickedIsUnlisted` is **violated** |
| `friends` | 2 users, 2 handlers at a time, 2 logins, 3 choices in menus; 1.75M states | `TypeOK`; `OfflineNoticeKept`; `AsymmetryNeedsOverlap`; `AcceptedWereAsked` |
| `friends_lost` | same | `NoticeKept` is **violated** |
| `chats` | 3 users, a group and a pair of friends, 2 workers, histories of 2, 2 messages after 1 old one; 1.4M states | `TypeOK`; `HistoryIsLatest`; `OpenedIsComplete`; `SenderOrder`; `NobodyForgotten` |
| `auth` | 2 clients, 2 names, 1 of them registered, 2 mailboxes, one of which both read, 3 forms, 1 expiry, fairness; 425k states | `TypeOK`; `AccountsAreConfirmed`; `SuccessIsSaved`; `OwnersData`; `RefusedCodeWasReplaced`; `AnswersMatch`; `Answered` |
| `files` | 1 sender, a friend, a group of two, 2 workers, 3 transfers, 1 fault, 2 at a time, fairness; 385k states | `TypeOK`; `UploadedIsWhole`; `DownloadedIsAsked`; `NamesMatchPaths`; `RemovedWasSent`; `CrashNeedsDisorder`; `TransfersEnd` |
| `reader` | 2 frames of 2 units, a socket of 3, 3 chats, fairness; 186k states | `TypeOK`; `InOrderOnce`; `OneHandler`; `QuitReturns`; `AllHandled` |

*Bounds of Sessions.* With three connections and two numbers some number is
reused, and while it is, another connection is alive; with two accounts two
connections share one and the third may have another; with two workers and round
robin the reused number goes to the other worker or to the same one. `MaxFrames`
is 1 in `sessions` and 2 where one buffer with several frames matters (a frame
handled after its connection was closed by the heartbeat check).

*Bounds of Groups.* A group that reaches all its roles needs: create, enter,
add a member, appoint (four requests), so six leave two requests which overlap
with each other or with the appointment. A name that is registered again and finds a
group it is no member of needs five: create, enter, add, delete the account, register
(which counts as one). `ListedAreMembers` excepts users for whom two handlers
overlapped (`mixed`), and what `Excused` names. One founder
and one group name are enough for properties that speak of one group;
`Applicants` bounds who may send join requests.

*Bounds of Friends.* The properties relate two users. At the start they are
friends or not, and `u1` has an open request with `u2`; so one choice (list the
requests) and a second (accept) lead to the acceptance, and the third overlaps it
with a deletion, a message, a block or an account deletion of the other user.
Two logins are one for each, or a user who comes back and finds its notices.

*Bounds of Chats.* With one old message, two new ones exceed `Cap = 2`, and two
workers push and trim them at once; `Recent = 1` is less than `Cap`. One exit and
one login let an addressee be away, come back, or leave between look-up and send.

*Bounds of Auth.* One client opens two forms, the other one: two
registrations of one name, a registration and a login of the other's name, or
one by the same user twice. The second user types the name that exists (`Typed`), the
first either. The first user reads `b1` and types it with both names. The second reads `b1`
and `b2` and types `b2`: so a code for `n1` comes to a mailbox that is not the first user's, and a
code the first has asked for can be typed by the second too, before or after him. Only the
second client may die.

*Bounds of Files.* Two uploads for the friend and one for the group, at most two
downloads, three in all: what is sent twice, downloaded twice or by two members of
the group. Uploads and requests for lists are three together (`MaxMenus`): two files and
one list, or one file and two lists. Files have one chunk; a transfer that is cut short is a
death before it. The one fault is a death or a file that cannot be opened, by the server, the sender or
the receiver.
Transfers of a single key (`MaxKeys`) interfere the most.

*Bounds of Reader.* A frame is cut by a short read (`MaxRead = 3` is one and a half
frames), by a full socket (`Cap = 3`) and by a change of reader; three chats make six
changes.

*Symmetry.* Clients and accounts of Sessions, and the users of Groups other than
the founder (where nothing singles one out), are interchangeable, and so are the
workers of Chats. The runs with a liveness property use none.

*Deadlock* is not checked: the system may stop legitimately (clients that have
left never come back in these models, requests are bounded, a crash ends
everything).

*Fairness* (`FairSpec`). Threads are scheduled, and handlers do not
block: weak fairness of `distribute_worker` and of `Serve(w)`. `make_queue` waits
for `cli_mutex`, which the worker takes again and again: strong fairness, as
a mutex that is released infinitely often is acquired in the end. A
descriptor whose end of file is pending is reported by `epoll_wait` in turn,
whatever other descriptors are ready (the worker takes up to 8 events at a time,
and the kernel rotates the ready list): strong fairness of `ReadEof(w, f)`. No
fairness is assumed of clients. `Released` then says that a client that has gone is
torn down although another one keeps the same worker busy. In Auth the server's
thread and the client's receiving step are weakly fair, nothing is assumed of users; in
Files the transfer threads, the workers and the handling of commands, so that a
worker which waits in `accept_data` for a client that never comes stays there; in
Reader the client's threads and an armed timeout.

### What the violated runs show

* **A refused login takes over** (`sessions_refused`). `adduser` answers a login
  for a name in use with UNLOGIN and goes on: `addUser` routes the account to
  the refused connection. When either of the two connections closes, the account
  is erased while the other is connected.
* **A member kicked by a manager keeps the group** (`groups_kicked`): the
  arguments of `UserRemoveGroups` are swapped at `connection.cc:550`.
* **A notice filed during a login is lost** (`friends_lost`). Login sends the
  notices it read and deletes whatever is there by then. A handler that looked
  the user up before `addUser` may file its notice between the two.
  `OfflineNoticeKept` says this is the only way: a notice filed while the user
  had no entry in `users` waits for the login that sends it.

Met in the same models and not listed as findings.

* A registration in between takes over another's data. The server
  keeps the data of the registration under way in one member, `user_info`. A second
  REGISTER between the first client's form and its code replaces them; the first
  code is accepted, "注册成功！" is shown (`User_auth_c.cc:232`), and the account holds what the
  second client typed. `OwnersData` and `SuccessIsSaved` say that this is the only
  way to another's data (`between`, `shared`): the other reason for which nothing is saved, an
  account that exists already, only arises when the same data have been saved with the same
  code.
* A download is reported and nothing is stored. `Retr` of a receiver who
  cannot open his own file returns as if it had ended well, "downloaded" is shown
  (`FTP_client.cc:125`), the server removes the path or ends by SIGPIPE, and
  the chat server is asked to remove the name. The file is not offered again.
  `DownloadedIsAsked` and `RemovedWasSent` hold of keys without such a failure.
* Whoever registers the name of a deleted account finds that account's groups in the
  list and can enter them as a member, since `del_account` leaves `user:<name>:groups`
  (`connection.cc:171-223`) and `group_choice` does not look at the member set.
  `ListedAreMembers` excepts those entries and no others (`Excused`).
* With two handlers at a time friendship does become one-sided: the two
  commands of `addFriend` and of `deleteFriend` interleave, `_mtx` being one per
  worker. `AsymmetryNeedsOverlap` says nothing else makes it so (`mixed` is the
  set of pairs for which it happened).
* A notice that a block was lifted is stored in green and looked for in red
  (`connection.cc:1100`, `recv_friends.cc:89`), so it is never applied; and the
  user who lifts the block keeps the name in `friends_block`.
* `friend_res` keeps names that were decided: a request can be accepted
  again in the same session after the friendship was ended. This is why
  `AcceptedWereAsked` speaks of ever having asked.
* With two handlers at a time `ListedAreMembers` fails too. A kick that falls
  between the `SetGroupMember` and the `UserSetGroups` of `group_decide` for the
  same user leaves the group in the list of a non-member. That is why
  the property excepts users in `mixed`.
* A connection that is silent for `TIME_OUT` is closed by number only
  (`connection.cc:1571`): `conn`, `users` and `fds` keep it, the result is
  ignored, and the account stays routed to a closed number or to whoever gets it
  next, so `RegisteredIsLive` fails with `IdleTimeouts = TRUE`. What is still true with
  timeouts is stated by the run `sessions_silent`.
* What a reader of the client receives when its turn is over is thrown away, and the
  framing of the other with it: `InOrderOnce` and `AllHandled` say nothing else loses
  a message, short of a partial `send`.
* The reader that stops last clears `SO_RCVTIMEO`. The other may then wait in
  `recv` until the server says something, and "输入<quit>即可退出"
  (`send_friends.cc:37`) does not come true before: `QuitReturns` excepts it (`Deaf`).
* The first member of a group to download a file removes its one path; the next one
  ends the server, as does whoever downloads before the upload began
  (`CrashNeedsDisorder`).
* `150` and `226` received together leave the client waiting for `226`; a failed open
  leaves a path for ever at the head of its list.
* A member whose role is being changed may miss a message of the group (`skipped`).

## 4. What is proved

### Sessions

`SessionsProofs.tla`, for every number of connections, accounts, descriptors,
workers and frames. The assumptions are `SessionsAssumption` (at least one
worker and one frame, descriptors are positive numbers, the "none" values are
none) and, except for `TypeCorrect` and the last three theorems, `~IdleTimeouts`: no
connection is silent for longer than `TIME_OUT`. The second assumption cannot be
dropped: with `IdleTimeouts = TRUE` TLC finds a counterexample to `RegisteredIsLive`,
as `checkHeart` closes the number and empties no table.

The code does not give that assumption: `heart_time` is renewed by frames on the same
connection only, and the heartbeat process has a connection of its own, so 40 quiet
seconds in a chat break it. The four theorems that assume it say what the order of
accesses achieves until then; after a timeout two `conn` maps may hold one number and
`users` may lead to a number that is closed or somebody else's.

| theorem | says |
|---|---|
| `TypeCorrect` | `Spec => []TypeOK`, heartbeat timeouts included |
| `InvCorrect` | `Spec => []Inv`, if nobody is silent |
| `RegistrationsAreLive` | `Spec => []RegisteredIsLive`, if nobody is silent |
| `OneWorkerPerDescriptor` | `Spec => []ServedByOneWorker`, if nobody is silent |
| `SessionsImplementPresence` | `Spec => ImplementsPresence`, if nobody is silent |
| `NumbersCorrect` | `Spec => []NumbersInv`, timeouts included |
| `MisroutedCorrect` | `Spec => []MisroutedByReuseOnly`, timeouts included |
| `SoleSessionCorrect` | `Spec => []SoleSessionReachable`, timeouts included |

None of the properties is inductive. `Inv` adds why they hold:

* `LocalsOK`: a local that a handler will use as an index names something;
* `FreshOK`: **a number that is free, or on its way from accept to a worker, is
  referred to by nothing** -- no table but `Worker_fd` (never erased, always
  overwritten before use), no event loop, no local. This is
  what the order of `remove_fd` buys, and the heart of the argument;
* `PeerOK`: a connection has one number, and none before accept;
* `ConnOK`: an entry of `conn` lies with the worker `Worker_fd` names, and
  describes the client behind the number;
* `ServeOK`: a busy worker works for an open descriptor of its own, and how far
  it is in `remove_fd` says which references are gone already;
* `TablesOK`: `users` and `fds` agree, but for the one step of `addUser`
  that fills the second table. It is kept although the `removeUser` of another
  session of the account may erase `users` at any point, because erasing only
  makes it weaker.

Each part has a lemma `..Step` with one step per action; `FrameEffect` and the
`..Frame` lemmas carry the many actions that end with `FrameDone`. `StepRefines`
shows that every step maps to a step of `Presence` or to a stutter: `bindFd`,
for instance, is a stutter, `addUser` is `Register`, `remove_close` is `Close`,
which needs `ServeOK` to know that nothing is routed there any more.

`NumbersInv` is what is left when a number may be closed under the tables. It looks at
who *has held* a number, which nothing takes back: an entry of `conn` or `users`, a
name read from `fds`, an address looked up for a message, each is of a connection that
once had the number it is filed under (`HeldOK`, `NamesOK`), and a connection has one
number in its life. So a message in the wrong inbox got there through a number the
addressee once had (`MailOK`); and `removeUser`, wherever it found the name of a sole
session, found it under that session's number, which it goes on to close.

### Reader

`ReaderProofs.tla`, for frames, sockets and reads of any length and any number of
chats, from `ReaderAssumption` (a frame has at least two units, a socket and a read at
least one):

| theorem | says |
|---|---|
| `ControlCorrect` | `Spec => []ControlInv` |
| `OneReaderAtATime` | `Spec => []OneHandler` |
| `StreamCorrect` | `Spec => []StreamInv` |
| `TypeCorrect` | `Spec => []TypeOK` |
| `InOrder` | `Spec => []InOrderOnce` |

`OneHandler` is not inductive: that the other reader has nothing in hand when a chat's
reader begins must be carried over its whole life. `ControlInv` says that there is such a
reader only while the user is in a chat (`ChatOK`), that the other's turn is over
then (`TurnOK`), and that it handles nothing once the chat's reader is past its sleep
(`HandedOver`). The last rests on `received`, which looks at the flag again after
`recv`, and on the assumption about the second of sleep (guard of `sleep`).

`StreamInv` adds where each unit is. What has not been handled is
`Unhandled`: the buffer `msg`, then what either reader has got and not yet
appended, then the socket. `StreamOK` says that these units are the frames
`accepted` from the first one that was not handled, each with all its units in order
(`Framed`), and that those handled are the frames accepted so far, until a
reader has thrown something away (`late`) or the server sent a part of a
frame (`cut`). A `recv` moves units from the socket to a reader's hand, `received`
moves them to the buffer, `unpack` takes whole frames off its front; each leaves
the concatenation what it was, provided that the two readers never
have units in hand at once (`HandsOK`). That is where `HandedOver` is needed: with two
hands full, which goes first would be a matter of scheduling.

### Chats

`ChatsProofs.tla`, for any number of accounts, messages, logins and
workers, and histories of any length. `ChatsAssumption` says besides the obvious
that the workers are finitely many (there are `WORKER` threads); `HistoryIsLatest` counts
those that have still to trim.

| theorem | says |
|---|---|
| `InvCorrect` | `Spec => []Inv` |
| `TypeCorrect` | `Spec => []TypeOK` |
| `HistoryCorrect` | `Spec => []HistoryIsLatest` |
| `OrderCorrect` | `Spec => []SenderOrder` |
| `FatesCorrect` | `Spec => []NobodyForgotten` |
| `OpenedCorrect` | `Spec => []OpenedIsComplete` |

`Inv` has eleven parts, and their heart is `Pending(w, x)`: worker `w` has a message in hand
and has not yet decided what becomes of it for `x`.

* `WorkOK`, `OwnerOK`, `MessageOK`: a busy worker serves a connection of its own that
  is logged in, and the message in its hand is one its user typed;
* `NumbersOK`, `PushedOK`: no message is in two hands, and what is in a talk's history
  is younger, for each sender, than everything before it and older than what its
  worker holds. Only then can a push, and a send, not come out of order:
  the frames of one sender are served by one worker, one at a time;
* `ScreensOK`: the same for screens, against the messages that are pending for the user;
* `HistoriesOK`: a history is the end of all that was pushed, no shorter than `Cap` or
  than all there is, and no longer than `Cap` and one for each worker about to trim;
* `FatesOK`: of a message and an addressee, exactly one of these holds -- it is pending,
  it was missed by the reader of a member table that was being changed, or its
  fate is decided, and was decided once;
* `SessionsOK`: a client that is connected is the one `users` leads to, so that what is
  looked up while it is there reaches it;
* `OpenedOK`: a history of `k` messages that was read (and, from then on, is in a
  worker's hand or with the client) is completed by what is `Coming`: on the screen, or
  with a worker that has pushed it and has the user still on its list. This holds because a
  handler pushes before it looks up anybody.

### Auth

`AuthProofs.tla`, for any number of clients, names, mailboxes and forms, whoever reads
which mailbox and types which address. The only assumption on the accounts that exist at the
start (`Existing`) is that each holds the data of its own name. Nothing is claimed of who
*should* read a mailbox: `ConfirmedCorrect` says that an account was confirmed with a code, not
that the code went to its owner.

| theorem | says |
|---|---|
| `InvCorrect` | `Spec => []Inv` |
| `TypeCorrect` | `Spec => []TypeOK` |
| `ConfirmedCorrect` | `Spec => []AccountsAreConfirmed` |
| `SavedCorrect` | `Spec => SuccessIsSaved`, an action property; clients in `between` excepted |
| `OwnersCorrect` | `Spec => []OwnersData`; accounts in `shared` excepted |
| `RefusedCorrect` | `Spec => []RefusedCodeWasReplaced` |
| `AnswersCorrect` | `Spec => []AnswersMatch` |

* `CodesOK`: the code in Redis under a name was made for it, a code in a mailbox is one that
  was made, and one that is not in force any more has expired or been replaced;
* `ServerOK`, `SocketsOK`: a frame in a socket or with the server carries no code but one that
  was made, and names an account and an address where its handler needs them (`FrameOK`);
* `TurnsOK`: a client that waits for a reply has its question in its socket, or with the
  server, or its answer in the other socket, and only one of these. The exception that
  makes it delicate is the request for a code, which has no answer and may be
  swallowed when the next frame is read with it (`Silent`, `ByCode`);
* `SavedOK`: if an account has come to stand while somebody registers its name, and nobody
  else has sent a REGISTER since (`between`), the account holds what that client typed:
  whoever brought it into being had the same code, and saved the same `user_info`. This is
  why `SuccessIsSaved` holds although `R_check` ignores what `saveUser` returns;
* `HeldOK`: while a client has been told that a name is free and has not confirmed it,
  `user_info` is what it typed, unless another registration came `between`;
* `OwnersOK`: an account that stands was confirmed, and holds its owner's data
  unless it was registered with such an interruption.

### Friends

`FriendsProofs.tla`, for any finite number of users and any number of workers, logins and
requests.

| theorem | says |
|---|---|
| `InvCorrect` | `Spec => []Inv` |
| `TypeCorrect` | `Spec => []TypeOK` |
| `KeptCorrect` | `Spec => []OfflineNoticeKept` |
| `MutualCorrect` | `Spec => []AsymmetryNeedsOverlap` |
| `AskedCorrect` | `Spec => []AcceptedWereAsked` |

Here the state that matters is in the programs: `todo`, what each handler has still to do,
and `frames`, what has arrived and not begun. `ProgramsOK` says of each what it
will do whatever happens meanwhile:

* `ProgramAsked`: it befriends its user only with somebody who has asked, and tells it
  of no request that was not made. `AskedOK` says the same of what is on its way and of
  the client's `friend_res`, so that what is accepted was asked, although the server takes
  any name from the client;
* `CouplesOK`: the two writes for a pair of users are next to one another, so
  at most one is left over at a time (`Half`). `MutualOK` then says that a friendship is on one
  side only if a handler is about to write the other, or two of them met (`mixed`);
* `LoginOK`: the deletion of all notices comes right after they were read and sent, and
  those filed while the user was offline are among them. `KeptOK` says so of the
  login that is running, and that one which has not published its user
  begins with `addUser`.

`del_account_program` is written as a function on the positions of the program: the
community modules' `FlattenSeq` is recursive, and the prover could not look into it.

### Groups

`GroupsProofs.tla`, for any finite number of users, any groups, uuids, workers and
requests. `GroupsAssumption` says that those who found groups are users, and
that the users are finitely many: the handlers run through Redis sets of them.

| theorem | says |
|---|---|
| `InvCorrect` | `Spec => []Inv` |
| `TypeCorrect` | `Spec => []TypeOK` |
| `OwnersCorrect` | `Spec => []OwnerKeepsEntry` |
| `ManagersCorrect` | `Spec => []ManagersAreMembers` |
| `ListedCorrect` | `Spec => []ListedAreMembers` |

`OwnerKeepsEntry` and `ManagersAreMembers` speak of a group nobody works for and are false in between: `add_manager`
appoints somebody who may not be a member yet, and takes an entry away before it puts the new
one in. As the handlers of a group overlap without any lock, the invariant has to say who
repairs what:

* `ManagersOK`: a manager is a member, or some handler that has this very group in hand
  **mends** it (`Mends`): what it does next puts the user among the members or takes
  its rights away. Other handlers cannot spoil that: no result of a command makes the handler
  leave the repair out, unless `isManager` finds that there is nothing to repair;
* `OwnersOK`: the founder's entry is there, or the handler that has just made the group writes
  it next. It is never taken out while the group exists, since no program removes an entry with the
  role of an owner (`FieldsOK`), and `delGroup` comes before `delGroupMember`;
* `ProgramsOK`: every program, at every point, is such that a removal is followed by a
  repair (`RemovalOK`), an appointment too (`AppointOK`), and commands stand in the
  order on which this relies (`NextOK`, `BeforeOK`). It is a property of suffixes,
  so it outlives each command; a program that grows by what it has read
  (`getManagers`, `getGroupMember`, `del_account`) keeps it;
* `KeysOK`: two groups have two uuids, and a handler that is about to disband a group or to enter
  its founder as a manager does so for the group whose key it has read the uuid of, or
  for none any more. A uuid read before the group was disbanded and made again is harmless:
  `Fresh` gives no uuid that a handler holds.

`ListedAreMembers` relates two tables that no command writes together, and it is only
promised to users for whom no two handlers overlapped (`mixed`). Handlers of other users
still run meanwhile, in the same group, and one that disbands the group concerns everybody.
`ListInv` says what such a user may rely on while they run:

* `ListedOK`: whatever name has a group in its list, with or without an account, is a member of
  it (`InGroup`, which includes that nobody is about to end the group), or is `Excused`, or
  some handler is **settling** the matter: it will take the entry out of the list whatever its
  commands find (`Leaving`), puts the user among the members at once (`Returning`, a
  change of role), or deletes the account. It speaks of names that have no account because the
  next registration (`saveUser`) turns them into users; what `deleteHashKey` leaves in the
  list of one is `Excused` from then on;
* `SetsOK`: a handler that is about to write the entry into the list does so for a member.
  Between `SetGroupMember` and `UserSetGroups` nobody else can have taken the user out,
  for that handler would concern the same user;
* `HeldOK`: a handler whose command relies on the uuid it holds has the uuid the group has now,
  if it concerns any user who is not mixed. To end the group in between, or make it again,
  takes a handler that concerns all users, which would have mixed everybody.
  `MakesOK` is the same of `add_group`, between `GroupExists` and `addGroup`;
* `ApartOK`: the users that two handlers under way have in common are in `mixed`;
* `CoursesOK`: the programs, at every point, are of a form on which the above relies: a
  handler changes the membership of users it concerns and of no others (`OwnOK`), the
  uuid of a group is read before it is used and the entry among the members is written
  before the one in the list (`LinkOK`), and a removal from the members is
  followed by one from the list (`OutOK`). The exception in `OutOK` is that of the property:
  the kick by a manager, which swaps the names of the group and of its founder when it
  removes the entry (`connection.cc:550`). Like `ProgramsOK` it is a property of suffixes.

`TablesOK`, `ProgramsOK`, `CoursesOK` and `ApartOK` hold also after a handler went on with
an uninitialised uuid (`garbage`); nothing else does, and nothing else is claimed.

### Files

`FilesProofs.tla` and `FileListsProofs.tla`, for any number of programs, names, workers
and transfers, and files of any length. The assumptions on the constants are those that
`FilesAssumption` states; one of them is of the code: what is sent to a friend is told to
the friend and nobody else (`connection.cc:1057`).

| theorem | says |
|---|---|
| `InvCorrect` | `Spec => [](FilesInv /\ faults \in Nat)` |
| `TypeCorrect` | `Spec => []TypeOK` |
| `UploadedCorrect` | `Spec => []UploadedIsWhole` |
| `ListsCorrect` | `Spec => [](FilesInv /\ faults \in Nat /\ ListsInv)` |
| `FetchedCorrect` | `Spec => []DownloadedIsAsked` |
| `NamesCorrect` | `Spec => []NamesMatchPaths` |
| `RemovedCorrect` | `Spec => []RemovedWasSent` |
| `CrashCorrect` | `Spec => []CrashNeedsDisorder` |

An upload passes through three programs, and each hands on what it does not check: the
thread takes whatever is in `arr` for its reply and whatever is in `ass` for its address
and its data. What keeps an orderly upload on its way is said in parts:

* `LineOK`: on a control connection client and server take turns. There is one command at a
  time, it is of the kind the thread is for, and the thread that reads a reply knows
  which (`rep[t]`). It holds of all transfers, muddled or not, since each has a control
  connection of its own;
* `TaskOK`: a worker that is busy is at one command of one of its own clients, and the
  client waits for it. So another worker, or the same, never begins a second command of it;
* `ApartOK`: of two threads of one program that run at a time, both keys are muddled: who is
  orderly has the two buffers for itself, from its start to its end;
* `LedOK` and `ConnectedOK`: nobody but its own thread was led to the port of an orderly
  transfer, and who waits or is connected there has been led there. That a *muddled* thread
  takes a port out of the shared `arr` is no exception: the port is of another thread of
  its own program, whose key is then muddled too. This is what makes `port[t].data = t`
  true, which no step of the server checks;
* `Undisturbed`: at each step of the thread, where the worker is, what is in the
  reply line, and that what the server has written, with what is under way
  (`FileOf`), is what the thread has sent.

A transfer that fails, on either side, is muddled from then on, so these parts claim nothing of
its data; its turns on the control connection go on as before (`LineOK`), which is why
`Retr_fails` may leave for the 226 while the server still sends.

Only the last speaks of the property. It is not inductive without the others: a worker that
accepted another thread's connection, or a reply left from an earlier command, would break it.
The counter of faults is in the invariant because a new transfer's number is compared with it.

The other four properties are about the two lists, and `FileListsProofs.tla` proves them
together. No program sees both: the FTP server files and removes paths, the chat server
names, at the request of clients whose requests may be handled long after their transfers.
The lists are equal only when nothing is under way. `ListsInv` says what each of them
is in between, in terms of one history: the uploads of a key (`UploadsOf`), what its
receiver has started to download (`Taken`), and the requests the chat server has not handled, of
names to add (`Untold`) and of names to remove (`Fetching`).

* `NamesOK`: the names filed for a friend are the uploads told of, but for those
  taken and no longer asked to be removed, in the order of their numbers. `delUserFile`
  pops the first whatever the name is; this is the right one, because the
  receiver asks in that order (`InTurn`), and he does because what he is shown is a queue in which
  every name comes after all smaller ones that he has not taken (`ShownOK`);
* `PathsOK`: the paths filed are uploads the server has begun to store, in the same order, and a
  worker that sends or removes a file has the first of them. What is stored and not filed any
  more was sent in full to somebody;
* `FetchedOK`: for a friend, the path that is gone is the one whose name was taken, and the
  file sent is the file asked for;
* `Smooth`: what `Undisturbed` is for uploads, step by step of a download;
* `AloneOK`: of an orderly key only the latest transfer is active. So a `RETR` begins when all
  uploads and downloads before it are done, and `PathsOK` gives it a path;
* `CrashOK`: a transfer that ends the server is a disturbed one, or a `RETR` without a path.
  By the parts above that is a group's, and another member has taken the path.

### Only model-checked

Every safety property of a passing run is proved. The liveness properties
(`Released`, `Answered`, `TransfersEnd`, `QuitReturns`, `AllHandled`) rest on fairness and
are outside what this prover does.

## 5. What is not modelled

* *Generated code.* `src/Proto` holds about 40000 of the repository's 48000 lines.
  The messages are records here, their parsing is a step that succeeds or, in Auth,
  takes the last of what was read.
* *Input and output only.* The menu pages and `Clear.hpp`; `MailSender.cc`, which is a
  mail that arrives at the address typed in the form, or does not (Auth); the heartbeat client, which is a connection that says
  nothing of interest (Sessions).
* *Restart within a behaviour.* The server has no code that recovers: presence starts
  empty and Redis is what it was, which is an initial state of Sessions, Friends and
  Chats. Handlers cut short by a crash leave what their last command left; no
  module follows that up.
* *Failing system calls and Redis exceptions* (`epoll_ctl`, `accept` with an exhausted
  descriptor table): the code prints a message; only their absence is modelled.
  `send` on a connection that was reset raises SIGPIPE, which the chat server does not
  block (`connection.cc:1553`): modelled for the file server only.
* *In Sessions*: the set `online_users`, which nothing reads. Frames that arrive
  together with the end of file are dropped (`connection.cc:25`), in the model as in the code,
  and no property is about them.
* *In Friends*: the answer of `send_addFriend` that the user does not exist, after which
  the request is filed all the same (`connection.cc:1418`); a request made again while
  the first is decided (`connection.cc:1281`) shares its key, so it is one request; a
  list of friends that was read before a deletion and sent after it
  (`connection.cc:1319`) is modelled, without a property.
* *In Groups*: the registration of a name that is taken, which deletes that account
  (`UserAuth/User_auth_s.cc:267`, modelled in Auth) with its memberships and list in place.
* *In Auth*: an event loop that is edge-triggered and reads once, so an end of file
  behind unread data may go unnoticed and the descriptor stays open.
* *In Files*: `LIST` and what `QUIT` leaves open; a write to an open file that fails (a full
  disk, on either side); what becomes of the number of a closed `link_sock` that another
  thread of the program gets meanwhile, which the recv after a failed open
  (`FTP_client.cc:170`) or the second `close` in `~FTPClient` (`FTP_client.cc:58`) then hits; two names generated in the same second;
  paths with spaces, which `iss >> word` splits; the prefix match of
  `user:File:<me>*`, which also finds accounts whose names begin with `<me>`.
* *In Reader*: `unpack`'s length is a 32-bit number that is trusted (`protocol.cc:22`); a reader
  that goes back to the menu by itself because the friend or the group is gone.

## 6. Plan

Modelled and checked: Sessions with Presence, Groups, Friends, Auth, Files, Reader,
Chats. Proved: the safety properties of all of them. What is left, in this order:

1. **Mailbox**: an abstract specification (a notice is kept, sent or never written)
   that Friends implements when logins and look-ups do not overlap.
2. **Server** = Sessions + Friends, so that "the addressee is online" is the presence
   table of Sessions, and a restart that keeps Redis and empties the tables.
