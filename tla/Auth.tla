-------------------------------- MODULE Auth --------------------------------
(***************************************************************************)
(* Accounts: the authentication server (one thread, UserAuth_s), its       *)
(* clients (UserAuth_c, one process for each user), and what they keep in  *)
(* Redis: the hash of an account and the verification code of a name.      *)
(*                                                                         *)
(* The server reads whatever frames have arrived from a client, parses     *)
(* them all into the same message, and so handles the last one.  A         *)
(* registration is filed, removed again and kept in the member user_info   *)
(* of the server until a code confirms it.  The chat server deletes        *)
(* accounts at the same time, in threads of its own.                       *)
(***************************************************************************)
EXTENDS Naturals, Sequences, FiniteSets

CONSTANTS
    Clients,    \* runs of the client program
    Names,      \* account names
    Mailboxes,  \* mail addresses
    Reads,      \* client -> the mailboxes that whoever sits there can read
    Typed,      \* bound: the names and addresses typed into the forms of each
    Existing,   \* what is registered at the start: a name -> data of its owner
    MaxForms,   \* bound: how often a user chooses login or register
    Mortal,     \* bound: the clients whose process may end
    MaxExpired, \* bound: codes that expire
    NoClient, NoName, NoMail, NoInfo

\* What somebody types into the registration form (password, email, phone).
Infos == Clients \X Names
NoCode == 0
Codes == Nat \ {NoCode}

ASSUME AuthAssumption ==
    /\ Existing \in [Names -> Infos \cup {NoInfo}]
    /\ \A n \in Names : Existing[n] # NoInfo => Existing[n] = << Existing[n][1], n >>
    /\ Reads \in [Clients -> SUBSET Mailboxes]
    /\ Typed \in [Clients -> SUBSET (Names \X Mailboxes)]
    /\ Mortal \subseteq Clients
    /\ MaxForms \in [Clients -> Nat] /\ MaxExpired \in Nat
    /\ NoClient \notin Clients /\ NoName \notin Names
    /\ NoMail \notin Mailboxes /\ NoInfo \notin Infos

VARIABLES
    \* Redis
    account,    \* user:<name> -> its fields
    code,       \* <name> -> the code, for 300 seconds
    \* the server
    user_info,  \* the member of this name
    srv,        \* its program counter, the client and the frame it works for
    \* sockets and clients
    out, inb,   \* frames to the server, replies to the client
    cl,         \* the client's program counter and the name it typed
    deleting,   \* accounts whose deletion the chat server has been sent
    \* history
    sent,       \* the names the codes were made for, in order
    mails,      \* the codes that have come to a mailbox
    expired,    \* codes that have outlived their 300 seconds
    refused,    \* codes that were refused although typed for their name
    owner,      \* who confirmed the registration of an account
    between,    \* clients since whose REGISTER there has been one of another
    shared,     \* accounts that were confirmed by such a client
    forms, crashed

redisVars == <<account, code>>
histVars == <<sent, mails, expired, refused, owner, between, shared, forms>>
vars == <<redisVars, user_info, srv, out, inb, cl, deleting, histVars, crashed>>

Actions == {"login", "register", "REGISTER", "PASSWORD", "EMAIL", "RVERIFY", "LVERIFY"}
Frames == [act : Actions, name : Names \cup {NoName}, right : BOOLEAN,
           code : Codes \cup {NoCode}, email : Mailboxes \cup {NoMail}]
NoFrame == [act |-> "login", name |-> NoName, right |-> FALSE, code |-> NoCode,
            email |-> NoMail]
Replies == {"login", "register", "REGISTER", "LOGIN", "RVERIFY", "LVERIFY"}

TypeOK ==
    /\ account \in [Names -> Infos \cup {NoInfo}]
    /\ code \in [Names -> Codes \cup {NoCode}]
    /\ \A n \in Names : code[n] # NoCode => sent[code[n]] = n
    /\ user_info \in Infos \cup {NoInfo}
    /\ srv \in [at : Actions \cup {"wait", "delete", "mail", "hget"},
                cli : Clients \cup {NoClient}, frame : Frames]
    /\ \A c \in Clients :
        /\ \A i \in DOMAIN out[c] : out[c][i] \in Frames
        /\ \A i \in DOMAIN inb[c] : inb[c][i] \in Replies \X (0 .. 2)
    /\ cl \in [Clients -> [at : Replies \cup {"menu", "form_l", "form_r", "code_l",
                                             "code_r", "in", "gone"},
                           name : Names \cup {NoName}]]
    /\ deleting \subseteq Names
    /\ \A c \in Clients : forms[c] \in 0 .. MaxForms[c]
    /\ \A k \in DOMAIN sent : sent[k] \in Names
    /\ mails \in [Mailboxes -> SUBSET DOMAIN sent]
    /\ expired \subseteq DOMAIN sent /\ refused \subseteq DOMAIN sent
    /\ owner \in [Names -> Clients \cup {NoClient}]
    /\ between \subseteq Clients /\ shared \subseteq Names
    /\ crashed \in BOOLEAN

idle == [at |-> "wait", cli |-> NoClient, frame |-> NoFrame]

Init ==
    /\ account = Existing
    /\ code = [n \in Names |-> NoCode]
    /\ user_info = NoInfo
    /\ srv = idle
    /\ out = [c \in Clients |-> << >>] /\ inb = [c \in Clients |-> << >>]
    /\ cl = [c \in Clients |-> [at |-> "menu", name |-> NoName]]
    /\ deleting = {}
    /\ sent = << >>
    /\ mails = [b \in Mailboxes |-> {}]
    /\ expired = {} /\ refused = {}
    /\ owner = [n \in Names |-> IF Existing[n] = NoInfo THEN NoClient ELSE Existing[n][1]]
    /\ between = {} /\ shared = {}
    /\ forms = [c \in Clients |-> 0]
    /\ crashed = FALSE

-----------------------------------------------------------------------------
(* The client: run() and what it calls.                                    *)

serverVars == <<redisVars, user_info, srv, sent, mails, expired, refused, owner,
                between, shared, crashed>>

Frame(act, n, right, k, b) ==
    [act |-> act, name |-> n, right |-> right, code |-> k, email |-> b]

GoTo(c, at, n) == cl' = [cl EXCEPT ![c] = [at |-> at, name |-> n]]
Send(c, f) == out' = [out EXCEPT ![c] = Append(@, f)]

\* The start page.  (After a QUIT the client sends nothing any more: see exit.)
run(c, what) ==
    /\ cl[c].at = "menu"
    /\ forms[c] < MaxForms[c]
    /\ forms' = [forms EXCEPT ![c] = @ + 1]
    /\ GoTo(c, what, NoName)
    /\ Send(c, Frame(what, NoName, FALSE, NoCode, NoMail))
    /\ UNCHANGED <<serverVars, inb, deleting>>

Register_u(c, n, b) ==
    /\ cl[c].at = "form_r" /\ << n, b >> \in Typed[c]
    /\ GoTo(c, "REGISTER", n)
    /\ Send(c, Frame("REGISTER", n, TRUE, NoCode, b))
    /\ UNCHANGED <<serverVars, inb, deleting, forms>>

\* By password the client waits for the answer; by code it asks for the code
\* at once, since that request has no answer.  Any name goes with any address.
LogIn(c, n, b) ==
    /\ cl[c].at = "form_l" /\ << n, b >> \in Typed[c]
    /\ \/ /\ GoTo(c, "LOGIN", n)
          /\ \E right \in BOOLEAN : Send(c, Frame("PASSWORD", n, right, NoCode, NoMail))
       \/ /\ GoTo(c, "code_l", n)
          /\ Send(c, Frame("EMAIL", n, FALSE, NoCode, b))
    /\ UNCHANGED <<serverVars, inb, deleting, forms>>

\* The user types a code from a mailbox within reach, or something else.
CodesInReach(c) == UNION {mails[b] : b \in Reads[c]}

get_verify(c) ==
    /\ cl[c].at \in {"code_r", "code_l"}
    /\ LET act == IF cl[c].at = "code_r" THEN "RVERIFY" ELSE "LVERIFY" IN
        /\ GoTo(c, act, cl[c].name)
        /\ \E k \in CodesInReach(c) \cup {NoCode} :
              Send(c, Frame(act, cl[c].name, FALSE, k, NoMail))
    /\ UNCHANGED <<serverVars, inb, deleting, forms>>

\* Where an answer takes the client: the prompts to the forms, an accepted
\* registration to the code, a login to the chat, everything else to the menu.
After(kind, decide) ==
    CASE kind = "login" -> "form_l"
      [] kind = "register" -> "form_r"
      [] kind = "REGISTER" /\ decide = 1 -> "code_r"
      [] kind \in {"LOGIN", "LVERIFY"} /\ decide = 1 -> "in"
      [] OTHER -> "menu"

\* recv, then what is made of it: register_Ver, login_Ver, Parse_u.  The client
\* takes any message for the answer it waits for.
receive(c) ==
    /\ cl[c].at \in Replies
    /\ inb[c] # << >>
    /\ LET decide == Head(inb[c])[2] at == After(cl[c].at, decide) IN
        GoTo(c, at, IF at \in {"in", "code_r"} THEN cl[c].name ELSE NoName)
    /\ inb' = [inb EXCEPT ![c] = Tail(@)]
    /\ UNCHANGED <<serverVars, out, deleting, forms>>

\* The process ends: after a QUIT, at the end of a chat, or by a signal.
exit(c) ==
    /\ c \in Mortal
    /\ cl[c].at # "gone"
    /\ GoTo(c, "gone", NoName)
    /\ inb' = [inb EXCEPT ![c] = << >>]
    /\ UNCHANGED <<serverVars, out, deleting, forms>>

\* In the chat client: delete the account, and leave.
del_account(c) ==
    /\ cl[c].at = "in" /\ cl[c].name # NoName
    /\ deleting' = deleting \cup {cl[c].name}
    /\ GoTo(c, "gone", NoName)
    /\ UNCHANGED <<serverVars, out, inb, forms>>

\* Connection::del_account, in a worker of the chat server.
chat_del_account(n) ==
    /\ ~crashed
    /\ n \in deleting
    /\ deleting' = deleting \ {n}
    /\ account' = [account EXCEPT ![n] = NoInfo]
    /\ owner' = [owner EXCEPT ![n] = NoClient]
    /\ UNCHANGED <<code, user_info, srv, out, inb, cl, sent, mails, expired,
                   refused, between, shared, forms, crashed>>

\* A code that was not replaced is gone after 300 seconds.
Expire(n) ==
    /\ code[n] # NoCode /\ Cardinality(expired) < MaxExpired
    /\ code' = [code EXCEPT ![n] = NoCode]
    /\ expired' = expired \cup {code[n]}
    /\ UNCHANGED <<account, user_info, srv, out, inb, cl, deleting, sent, mails,
                   refused, owner, between, shared, forms, crashed>>
-----------------------------------------------------------------------------
(* The server.                                                             *)

me == srv.cli
req == srv.frame
Handling(at) == ~crashed /\ srv.at = at
Done == srv' = idle
Then(at) == srv' = [srv EXCEPT !.at = at]

\* To a client that has gone, the answer leads nowhere.
Reply(kind, decide) ==
    inb' = [inb EXCEPT ![me] = IF cl[me].at = "gone" THEN @
                               ELSE Append(@, << kind, decide >>)]

\* onMessage and handleProcess: of the frames that have arrived each is parsed
\* into the message of the one before, so that the last of them is handled.
\* (A part of a frame stays in handle_buffer, and nothing is handled for it.)
handled_first(arrived) == arrived[1]
handled(arrived) == arrived[Len(arrived)]

onMessage(c) ==
    /\ Handling("wait")
    /\ \E n \in 1 .. Len(out[c]) :
        LET f == handled(SubSeq(out[c], 1, n)) IN
        /\ srv' = [at |-> f.act, cli |-> c, frame |-> f]
        /\ out' = [out EXCEPT ![c] = SubSeq(@, n + 1, Len(@))]
    /\ UNCHANGED <<redisVars, user_info, inb, cl, deleting, histVars, crashed>>

\* The two prompts.
Process ==
    /\ Handling("login") \/ Handling("register")
    /\ Reply(srv.at, 0)
    /\ Done
    /\ UNCHANGED <<redisVars, user_info, out, cl, deleting, histVars, crashed>>

\* user_info = {...}, whose assignment drops what it held.
insert_info(info) == IF user_info = NoInfo THEN info ELSE user_info
assign_info(info) == info

\* The data become the server's user_info, and saveUser files them unless the
\* name is taken ...
Register_R ==
    LET taken == account[req.name] # NoInfo
        info == assign_info(<< me, req.name >>) IN
    /\ Handling("REGISTER")
    /\ user_info' = info
    /\ account' = IF taken THEN account ELSE [account EXCEPT ![req.name] = info]
    /\ between' = (between \cup (Clients \ {me})) \ {me}
    /\ srv' = [srv EXCEPT !.at = "delete", !.frame.right = ~taken]
    /\ UNCHANGED <<code, out, inb, cl, deleting, sent, mails, expired, refused,
                   owner, shared, forms, crashed>>

\* ... and in either case the account of that name is deleted and the client
\* answered; if it was filed, a code follows.
Register_R_leaves_saved ==
    /\ Handling("delete")
    /\ IF req.right THEN UNCHANGED <<account, owner>>
       ELSE /\ account' = [account EXCEPT ![req.name] = NoInfo]
            /\ owner' = [owner EXCEPT ![req.name] = NoClient]
    /\ Reply("REGISTER", IF req.right THEN 1 ELSE 0)
    /\ IF req.right THEN Then("mail") ELSE Done
    /\ UNCHANGED <<code, user_info, out, cl, deleting, sent, mails, expired,
                   refused, between, shared, forms, crashed>>

Register_R_delete ==
    /\ Handling("delete")
    /\ account' = [account EXCEPT ![req.name] = NoInfo]
    /\ owner' = [owner EXCEPT ![req.name] = NoClient]
    /\ Reply("REGISTER", IF req.right THEN 1 ELSE 0)
    /\ IF req.right THEN Then("mail") ELSE Done
    /\ UNCHANGED <<code, user_info, out, cl, deleting, sent, mails, expired,
                   refused, between, shared, forms, crashed>>

\* The Redis key of a code: the bare name, whatever the code is for.
CodeKey_constant(n) == CHOOSE m \in Names : TRUE
CodeKey(n) == n

\* A new code for the name, mailed to the address of the form, whoever reads
\* it, and stored whether or not the mail goes out.
Send_verify ==
    LET k == Len(sent) + 1 IN
    /\ Handling("mail")
    /\ sent' = Append(sent, req.name)
    /\ \E goes_out \in BOOLEAN :
        mails' = IF goes_out THEN [mails EXCEPT ![req.email] = @ \cup {k}] ELSE mails
    /\ code' = [code EXCEPT ![CodeKey(req.name)] = k]
    /\ Done
    /\ UNCHANGED <<account, user_info, out, inb, cl, deleting, expired, refused,
                   owner, between, shared, forms, crashed>>

\* Is the code the one stored for the name?
Matches == req.code # NoCode /\ req.code = code[CodeKey(req.name)]
NoteRefusal ==
    refused' = IF ~Matches /\ req.code # NoCode /\ sent[req.code] = req.name
               THEN refused \cup {req.code} ELSE refused

\* As if what Register_R has filed were still there.
R_check_unsaved ==
    /\ Handling("RVERIFY")
    /\ NoteRefusal
    /\ Reply("RVERIFY", IF Matches THEN 1 ELSE 0)
    /\ Done
    /\ UNCHANGED <<redisVars, user_info, out, cl, deleting, sent, mails, expired,
                   owner, between, shared, forms, crashed>>

\* The result of saveUser is not looked at.
R_check ==
    /\ Handling("RVERIFY")
    /\ NoteRefusal
    /\ IF Matches /\ account[req.name] = NoInfo
       THEN /\ account' = [account EXCEPT ![req.name] = user_info]
            /\ owner' = [owner EXCEPT ![req.name] = me]
            /\ shared' = IF me \in between THEN shared \cup {req.name}
                         ELSE shared \ {req.name}
       ELSE UNCHANGED <<account, owner, shared>>
    /\ Reply("RVERIFY", IF Matches THEN 1 ELSE 0)
    /\ Done
    /\ UNCHANGED <<code, user_info, out, cl, deleting, sent, mails, expired,
                   between, forms, crashed>>

\* A login by code does not ask whether there is such an account.
L_check ==
    /\ Handling("LVERIFY")
    /\ NoteRefusal
    /\ Reply("LVERIFY", IF Matches THEN 1 ELSE 0)
    /\ Done
    /\ UNCHANGED <<redisVars, user_info, out, cl, deleting, sent, mails, expired,
                   owner, between, shared, forms, crashed>>

LogIn_exists ==
    /\ Handling("PASSWORD")
    /\ IF account[req.name] = NoInfo
       THEN Reply("LOGIN", 0) /\ Done
       ELSE UNCHANGED inb /\ Then("hget")
    /\ UNCHANGED <<redisVars, user_info, out, cl, deleting, histVars, crashed>>

\* getUserField of a field that has gone returns nullptr as an optional
\* string, whose constructor throws: nothing catches that.
LogIn_password ==
    /\ Handling("hget")
    /\ IF account[req.name] = NoInfo
       THEN crashed' = TRUE /\ UNCHANGED <<inb, srv>>
       ELSE /\ Reply("LOGIN", IF req.right /\ account[req.name] = << me, req.name >>
                              THEN 1 ELSE 2)
            /\ Done
            /\ UNCHANGED crashed
    /\ UNCHANGED <<redisVars, user_info, out, cl, deleting, histVars>>

\* A login by code is answered by a mail only.
LogIn_email_replies ==
    /\ Handling("EMAIL")
    /\ Then("mail")
    /\ Reply("LOGIN", 0)
    /\ UNCHANGED <<redisVars, user_info, out, cl, deleting, histVars, crashed>>

LogIn_email ==
    /\ Handling("EMAIL")
    /\ Then("mail")
    /\ UNCHANGED <<redisVars, user_info, out, inb, cl, deleting, histVars, crashed>>

-----------------------------------------------------------------------------
User(c) ==
    \/ \E what \in {"login", "register"} : run(c, what)
    \/ \E n \in Names, b \in Mailboxes : Register_u(c, n, b) \/ LogIn(c, n, b)
    \/ get_verify(c)
    \/ exit(c) \/ del_account(c)

Server ==
    \/ Process \/ Register_R \/ Register_R_delete \/ Send_verify
    \/ R_check \/ L_check \/ LogIn_exists \/ LogIn_password \/ LogIn_email

Next ==
    \/ \E c \in Clients : User(c) \/ receive(c) \/ onMessage(c)
    \/ Server
    \/ \E n \in Names : chat_del_account(n) \/ Expire(n)

\* The server's thread runs and its commands and mails come back; epoll reports
\* every client with something to read; a client process that waits in recv
\* gets what has arrived.  Nothing is assumed of users, nor of the chat server.
Fairness ==
    /\ WF_vars(Server)
    /\ \A c \in Clients : SF_vars(onMessage(c)) /\ WF_vars(receive(c))

Spec == Init /\ [][Next]_vars
FairSpec == Spec /\ Fairness
-----------------------------------------------------------------------------
(* Properties.                                                             *)

\* Between two requests every account in Redis is one that somebody confirmed
\* with a code: what Register_R files in passing never outlasts the handler
\* (User_auth_s.cc:262-276), and nothing else brings an account into being.
AccountsAreConfirmed ==
    srv.at = "wait" => \A n \in Names : account[n] # NoInfo => owner[n] # NoClient

\* In this step the client is sent "registration successful".
Told(c) == inb'[c] = Append(inb[c], << "RVERIFY", 1 >>)

\* "Registration successful" is shown to a client only when the account of the
\* name holds what that client typed, unless somebody else's REGISTER came in
\* between: the member user_info survives from the request to the code, and if
\* saveUser fails, whose result is ignored (User_auth_s.cc:141-144), it is because
\* somebody with the same code has saved those very data before.
SuccessIsSaved ==
    [][\A c \in Clients \ between :
          Told(c) => account'[cl[c].name] = << c, cl[c].name >>]_vars

\* An account holds what its owner typed, unless somebody else's registration
\* came in between the owner's form and code: the member user_info is the only
\* thing that registrations share (User_auth_s.cc:143, 254).
OwnersData ==
    \A n \in Names :
        (srv.at = "wait" /\ account[n] # NoInfo /\ n \notin shared)
            => account[n] = << owner[n], n >>

\* A code that is refused, typed for the name it was made for, has expired or
\* has been replaced by one made for the same name later: requests for other
\* names do it no harm (User_auth_s.cc:235, RedisClient.cc:52-57).
RefusedCodeWasReplaced ==
    \A k \in refused :
        k \in expired \/ \E j \in DOMAIN sent : j > k /\ sent[j] = sent[k]

\* Requests and answers stay in step although two of the client's frames may
\* be handled as one and some requests have no answer: what a client finds in
\* its socket is the answer to what it asked last (User_auth_c.cc:88-117).
AnswersMatch ==
    \A c \in Clients :
        inb[c] # << >> => Len(inb[c]) = 1 /\ inb[c][1][1] = cl[c].at

\* A client that waits for an answer gets one, unless its process ends or the
\* server's does: no frame that has an answer is ever lost to a later one
\* (User_auth_s.cc:193-209).
Answered ==
    \A c \in Clients :
        cl[c].at \in Replies ~> (cl[c].at \notin Replies \/ crashed)
=============================================================================
