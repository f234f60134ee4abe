----------------------------- MODULE AuthProofs -----------------------------
(***************************************************************************)
(* Accounts are confirmed, hold their owner's data, and to whom success is *)
(* shown has them saved; questions and answers stay in step.  The          *)
(* argument follows a client's frames through its socket and the server:   *)
(* what is on its way, and for which registration.                         *)
(***************************************************************************)
EXTENDS Auth, SequenceTheorems, TLAPS

Replied == Replies \X (0 .. 2)
Places == Replies \cup {"menu", "form_l", "form_r", "code_l", "code_r", "in", "gone"}
Handlers == Actions \cup {"wait", "delete", "mail", "hget"}

TablesOK ==
    /\ account \in [Names -> Infos \cup {NoInfo}]
    /\ user_info \in Infos \cup {NoInfo}
    /\ owner \in [Names -> Clients \cup {NoClient}]
    /\ deleting \subseteq Names /\ between \subseteq Clients /\ shared \subseteq Names
    /\ forms \in [Clients -> Nat] /\ \A c \in Clients : forms[c] <= MaxForms[c]
    /\ crashed \in BOOLEAN

\* The codes there have been.
Made == 1 .. Len(sent)

\* A code that was made for a name and is not there for it any more has expired,
\* or another has been made.
Gone(k) == k \in expired \/ \E j \in 1 .. Len(sent) : j > k /\ sent[j] = sent[k]

CodesOK ==
    /\ sent \in Seq(Names) /\ code \in [Names -> Nat]
    /\ \A n \in Names : code[n] # NoCode => code[n] \in 1 .. Len(sent) /\ sent[code[n]] = n
    /\ mails \in [Mailboxes -> SUBSET (1 .. Len(sent))]
    /\ expired \subseteq 1 .. Len(sent) /\ refused \subseteq 1 .. Len(sent)
    /\ \A k \in 1 .. Len(sent) : code[sent[k]] = k \/ Gone(k)
    /\ \A k \in refused : Gone(k)

\* A frame names an account, unless it asks for a form, and an address, if it
\* asks for a code; the code in it is one of these.
FrameOK(made, f) ==
    /\ f \in Frames
    /\ f.act \notin {"login", "register"} => f.name \in Names
    /\ f.act \in {"REGISTER", "EMAIL"} => f.email \in Mailboxes
    /\ f.code # NoCode => f.code \in made

\* The handler at this place runs for a frame that asks for this.
RunsFor(at, act) ==
    \/ at \in Actions /\ act = at
    \/ at = "delete" /\ act = "REGISTER"
    \/ at = "hget" /\ act = "PASSWORD"
    \/ at = "mail" /\ act \in {"REGISTER", "EMAIL"}

ServerOK ==
    /\ srv \in [at : Handlers, cli : Clients \cup {NoClient}, frame : Frames]
    /\ srv.at # "wait" => /\ srv.cli \in Clients
                          /\ FrameOK(Made, srv.frame)
                          /\ RunsFor(srv.at, srv.frame.act)
    /\ srv.at = "wait" => srv.cli = NoClient

SocketsOK ==
    /\ out \in [Clients -> Seq(Frames)] /\ inb \in [Clients -> Seq(Replied)]
    /\ cl \in [Clients -> [at : Places, name : Names \cup {NoName}]]
    /\ \A c \in Clients : \A i \in 1 .. Len(out[c]) : FrameOK(Made, out[c][i])
    /\ \A c \in Clients :
          cl[c].at \notin {"menu", "form_l", "form_r", "login", "register", "gone"}
             => cl[c].name \in Names

\* What the server does for c has no answer: a code is on its way.
Silent(c) == srv.cli = c => srv.at \in {"EMAIL", "mail"}

\* The handler at this place answers a client that waits for a reply of a kind.
Serves(at, kind) ==
    \/ kind = "LOGIN" /\ at \in {"PASSWORD", "hget"}
    \/ kind = "REGISTER" /\ at \in {"REGISTER", "delete"}
    \/ kind = at /\ at \in {"login", "register", "RVERIFY", "LVERIFY"}

\* A question is in the socket, with the server, or answered.
InSocket(c) ==
    /\ inb[c] = << >> /\ out[c] # << >> /\ Silent(c)
    /\ Serves(out[c][Len(out[c])].act, cl[c].at)
    /\ out[c][Len(out[c])].name = cl[c].name
WithServer(c) ==
    /\ inb[c] = << >> /\ srv.cli = c /\ Serves(srv.at, cl[c].at)
    /\ srv.frame.name = cl[c].name
WithClient(c) ==
    /\ out[c] = << >> /\ Len(inb[c]) = 1 /\ inb[c][1][1] = cl[c].at
    /\ srv.cli = c => srv.at = "mail" /\ srv.frame.act = "REGISTER"

\* A request for a code goes with nothing but a login by code.
ByCode(c) ==
    (\/ srv.cli = c /\ srv.frame.act = "EMAIL"
     \/ \E i \in 1 .. Len(out[c]) : out[c][i].act = "EMAIL")
        => /\ cl[c].at \in {"code_l", "LVERIFY", "gone"}
           /\ \A i \in 1 .. Len(out[c]) : out[c][i].act \in {"EMAIL", "LVERIFY"}

TurnOK(c) ==
    /\ \A i \in 1 .. Len(out[c]) : i < Len(out[c]) => out[c][i].act = "EMAIL"
    /\ ~Silent(c) => out[c] = << >>
    /\ ByCode(c)
    /\ cl[c].at = "gone" => inb[c] = << >>
    /\ cl[c].at \notin Replies \cup {"gone"} =>
          /\ inb[c] = << >> /\ Silent(c)
          /\ \A i \in 1 .. Len(out[c]) : out[c][i].act = "EMAIL"
    /\ cl[c].at \in Replies => InSocket(c) \/ WithServer(c) \/ WithClient(c)

TurnsOK == \A c \in Clients : TurnOK(c)

\* c has been told that n is free, and has not confirmed it: it is to type the
\* code, or has sent it.
Registering(c, n) ==
    \/ cl[c].at = "code_r" /\ cl[c].name = n
    \/ cl[c].at = "REGISTER" /\ cl[c].name = n /\ inb[c] # << >> /\ inb[c][1][2] = 1
    \/ \E i \in 1 .. Len(out[c]) : out[c][i].act = "RVERIFY" /\ out[c][i].name = n
    \/ srv.cli = c /\ srv.at = "RVERIFY" /\ srv.frame.name = n

\* What Register_R has filed for a moment.
Filed(n) == srv.at = "delete" /\ srv.frame.name = n
Stands(n) == account[n] # NoInfo /\ ~Filed(n)

\* An account that has come to stand while c registers that name, and nobody
\* else has begun to register, holds what c has typed: nobody else's data were
\* there to be saved.
SavedOK ==
    \A c \in Clients \ between, n \in Names :
        Registering(c, n) /\ Stands(n) => account[n] = << c, n >>

\* The server holds the data of the client that was the last to register.
HeldOK ==
    \A c \in Clients \ between, n \in Names :
        Registering(c, n) \/ (srv.cli = c /\ Filed(n)) => user_info = << c, n >>

OwnersOK ==
    \A n \in Names :
        Stands(n) => /\ owner[n] # NoClient
                     /\ n \notin shared => account[n] = << owner[n], n >>

Inv == /\ TablesOK /\ CodesOK /\ ServerOK /\ SocketsOK /\ TurnsOK
       /\ SavedOK /\ HeldOK /\ OwnersOK

-----------------------------------------------------------------------------
LEMMA AuthConstants ==
  /\ Existing \in [Names -> Infos \cup {NoInfo}]
  /\ \A c \in Clients : Reads[c] \subseteq Mailboxes
  /\ MaxForms \in [Clients -> Nat]
  /\ NoClient \notin Clients /\ NoName \notin Names /\ NoInfo \notin Infos
  /\ \A n \in Names : Existing[n] # NoInfo => Existing[n] = << Existing[n][1], n >>
  BY AuthAssumption

LEMMA InvInit == Init => Inv
<1> SUFFICES ASSUME Init PROVE Inv
  OBVIOUS
<1> USE AuthConstants
<1>1. \A c \in Clients : out[c] = << >> /\ inb[c] = << >> /\ cl[c].at = "menu"
  BY DEF Init
<1>2. srv = idle /\ srv.at = "wait" /\ srv.cli = NoClient
  BY DEF Init, idle
<1>3. TablesOK
  <2>1. \A n \in Names : Existing[n] # NoInfo => Existing[n][1] \in Clients
    BY DEF Infos
  <2>2. owner \in [Names -> Clients \cup {NoClient}]
    BY <2>1 DEF Init
  <2>3. forms \in [Clients -> Nat] /\ \A c \in Clients : forms[c] <= MaxForms[c]
    BY DEF Init
  <2> QED
    BY <2>2, <2>3 DEF Init, TablesOK
<1>4. CodesOK
  BY DEF Init, CodesOK, NoCode
<1>5. ServerOK
  <2>1. NoFrame \in Frames
    BY DEF NoFrame, Frames, Actions
  <2> QED
    BY <1>2, <2>1 DEF ServerOK, idle, Handlers
<1>6. SocketsOK
  <2>1. cl \in [Clients -> [at : Places, name : Names \cup {NoName}]]
    BY DEF Init, Places
  <2>2. << >> \in Seq(Frames) /\ << >> \in Seq(Replied) /\ Len(<< >>) = 0 /\ 1 .. 0 = {}
    OBVIOUS
  <2> QED
    BY <1>1, <2>1, <2>2 DEF Init, SocketsOK
<1>7. \A c \in Clients : 1 .. Len(out[c]) = {} /\ srv.cli # c
  BY <1>1, <1>2
<1>8. TurnsOK
  BY <1>1, <1>7 DEF TurnsOK, TurnOK, ByCode, Silent, Replies
<1>9. \A c \in Clients, n \in Names : ~Registering(c, n) /\ ~Filed(n)
  BY <1>1, <1>2, <1>7 DEF Registering, Filed
<1>10. SavedOK /\ HeldOK
  BY <1>2, <1>9 DEF SavedOK, HeldOK
<1>11. OwnersOK
  <2>1. ASSUME NEW n \in Names, account[n] # NoInfo
        PROVE  owner[n] # NoClient /\ account[n] = << owner[n], n >>
    <3>1. account[n] = Existing[n] /\ owner[n] = Existing[n][1]
      BY <2>1 DEF Init
    <3>2. Existing[n][1] \in Clients
      BY <2>1, <3>1 DEF Infos
    <3> QED
      BY <2>1, <3>1, <3>2
  <2> QED
    BY <2>1 DEF OwnersOK, Stands
<1> QED
  BY <1>3, <1>4, <1>5, <1>6, <1>8, <1>10, <1>11 DEF Inv

\* For whom a handler runs, and for what.
LEMMA Handled ==
  ASSUME ServerOK, srv.at # "wait"
  PROVE  /\ me \in Clients /\ FrameOK(Made, req) /\ RunsFor(srv.at, req.act)
         /\ srv.at \notin {"login", "register"} => req.name \in Names
         /\ \A d \in Clients \ {me} : srv.cli # d
<1>1. srv.frame.act \in {"login", "register"} => srv.at \in {"login", "register"}
  BY DEF ServerOK, RunsFor
<1> QED
  BY <1>1 DEF ServerOK, FrameOK, me, req

\* What a client does by itself concerns its socket and itself.
LEMMA ClientSteps ==
  ASSUME NEW c \in Clients, User(c) \/ receive(c)
  PROVE  UNCHANGED serverVars
  BY DEF User, receive, run, Register_u, LogIn, get_verify, exit, del_account

LEMMA TablesStep == Inv /\ [Next]_vars => TablesOK'
<1> SUFFICES ASSUME Inv, [Next]_vars PROVE TablesOK'
  OBVIOUS
<1> USE DEF redisVars, histVars, serverVars
<1>0. TablesOK /\ ServerOK /\ SocketsOK
  BY DEF Inv
<1>1. ASSUME UNCHANGED <<account, user_info, owner, deleting, between, shared, forms,
                         crashed>>
      PROVE  TablesOK'
  BY <1>0, <1>1 DEF TablesOK
<1>2. ASSUME NEW c \in Clients, User(c) \/ receive(c)
      PROVE  TablesOK'
  <2>1. UNCHANGED <<account, user_info, owner, between, shared, crashed>>
    BY <1>2, ClientSteps
  <2>2. \/ forms' = forms
        \/ forms[c] < MaxForms[c] /\ forms' = [forms EXCEPT ![c] = @ + 1]
    <3>1. ASSUME NEW what, run(c, what)
          PROVE  forms[c] < MaxForms[c] /\ forms' = [forms EXCEPT ![c] = @ + 1]
      BY <3>1 DEF run
    <3>2. CASE \/ \E n \in Names, b \in Mailboxes : Register_u(c, n, b) \/ LogIn(c, n, b)
               \/ get_verify(c) \/ exit(c) \/ del_account(c) \/ receive(c)
      BY <3>2 DEF receive, Register_u, LogIn, get_verify, exit, del_account
    <3> QED
      BY <1>2, <3>1, <3>2 DEF User
  <2>3. forms' \in [Clients -> Nat] /\ \A d \in Clients : forms'[d] <= MaxForms[d]
    BY <1>0, <2>2, AuthConstants DEF TablesOK
  <2>4. deleting' = deleting \/ (cl[c].at = "in" /\ deleting' = deleting \cup {cl[c].name})
    <3>1. CASE \/ \E what \in {"login", "register"} : run(c, what)
               \/ \E n \in Names, b \in Mailboxes : Register_u(c, n, b) \/ LogIn(c, n, b)
               \/ get_verify(c) \/ exit(c) \/ receive(c)
      BY <3>1 DEF receive, run, Register_u, LogIn, get_verify, exit
    <3>2. CASE del_account(c)
      BY <3>2 DEF del_account
    <3> QED
      BY <1>2, <3>1, <3>2 DEF User
  <2>5. deleting' \subseteq Names
    <3>1. cl[c].at = "in" => cl[c].name \in Names
      BY <1>0 DEF SocketsOK
    <3> QED
      BY <1>0, <2>4, <3>1 DEF TablesOK
  <2> QED
    BY <1>0, <2>1, <2>3, <2>5 DEF TablesOK
<1>3. ASSUME NEW c \in Clients, onMessage(c)
      PROVE  TablesOK'
  BY <1>1, <1>3 DEF onMessage
<1>4. ASSUME NEW n \in Names, chat_del_account(n)
      PROVE  TablesOK'
  BY <1>0, <1>4 DEF chat_del_account, TablesOK
<1>5. ASSUME NEW n \in Names, Expire(n)
      PROVE  TablesOK'
  BY <1>1, <1>5 DEF Expire
<1>6. CASE Process \/ Send_verify \/ L_check \/ LogIn_exists \/ LogIn_email
  BY <1>1, <1>6 DEF Process, Send_verify, L_check, LogIn_exists, LogIn_email
<1>7. CASE Register_R
  <2>1. me \in Clients /\ req.name \in Names
    BY <1>0, <1>7, Handled DEF Register_R, Handling
  <2>2. << me, req.name >> \in Infos
    BY <2>1 DEF Infos
  <2>3. user_info' = << me, req.name >>
    BY <1>7 DEF Register_R, assign_info
  <2>4. account' = account \/ account' = [account EXCEPT ![req.name] = << me, req.name >>]
    BY <1>7 DEF Register_R, assign_info
  <2>5. between' \subseteq Clients
    BY <1>0, <1>7 DEF Register_R, TablesOK
  <2>6. UNCHANGED <<owner, deleting, shared, forms, crashed>>
    BY <1>7 DEF Register_R
  <2> QED
    BY <1>0, <2>1, <2>2, <2>3, <2>4, <2>5, <2>6 DEF TablesOK
<1>8. CASE Register_R_delete
  <2>1. me \in Clients /\ req.name \in Names
    BY <1>0, <1>8, Handled DEF Register_R_delete, Handling
  <2> QED
    BY <1>0, <1>8, <2>1 DEF Register_R_delete, TablesOK
<1>9. CASE R_check
  <2>1. me \in Clients /\ req.name \in Names
    BY <1>0, <1>9, Handled DEF R_check, Handling
  <2>2. \/ UNCHANGED <<account, owner, shared>>
        \/ /\ account' = [account EXCEPT ![req.name] = user_info]
           /\ owner' = [owner EXCEPT ![req.name] = me]
           /\ shared' = shared \cup {req.name} \/ shared' = shared \ {req.name}
    BY <1>9 DEF R_check
  <2>3. UNCHANGED <<user_info, deleting, between, forms, crashed>>
    BY <1>9 DEF R_check
  <2> QED
    BY <1>0, <2>1, <2>2, <2>3 DEF TablesOK
<1>10. CASE LogIn_password
  BY <1>0, <1>10 DEF LogIn_password, TablesOK
<1>11. CASE UNCHANGED vars
  BY <1>1, <1>11 DEF vars
<1>12. CASE Server
  BY <1>6, <1>7, <1>8, <1>9, <1>10, <1>12 DEF Server
<1> QED
  BY <1>2, <1>3, <1>4, <1>5, <1>11, <1>12 DEF Next

LEMMA CodesStep == Inv /\ [Next]_vars => CodesOK'
<1> SUFFICES ASSUME Inv, [Next]_vars PROVE CodesOK'
  OBVIOUS
<1> USE DEF redisVars, histVars, serverVars
<1>0. CodesOK /\ ServerOK
  BY DEF Inv
<1>1. ASSUME UNCHANGED <<sent, code, mails, expired, refused>>
      PROVE  CodesOK'
  BY <1>0, <1>1 DEF CodesOK, Gone
<1>2. ASSUME NEW n \in Names, Expire(n)
      PROVE  CodesOK'
  <2>1. /\ code[n] # NoCode /\ code' = [code EXCEPT ![n] = NoCode]
        /\ expired' = expired \cup {code[n]} /\ UNCHANGED <<sent, mails, refused>>
    BY <1>2 DEF Expire
  <2>2. \A k : Gone(k) => Gone(k)'
    BY <2>1 DEF Gone
  <2>3. code' \in [Names -> Nat] /\ \A m \in Names : code'[m] = IF m = n THEN NoCode ELSE code[m]
    BY <1>0, <2>1 DEF CodesOK, NoCode
  <2>4. ASSUME NEW k \in 1 .. Len(sent)
        PROVE  code'[sent[k]] = k \/ Gone(k)'
    <3>1. sent[k] \in Names
      BY <1>0, ElementOfSeq DEF CodesOK
    <3>2. CASE sent[k] = n
      <4>1. code[n] = k \/ Gone(k)
        BY <1>0, <3>2 DEF CodesOK
      <4>2. code[n] = k => Gone(k)'
        BY <2>1 DEF Gone
      <4> QED
        BY <2>2, <4>1, <4>2
    <3>3. CASE sent[k] # n
      BY <1>0, <2>2, <2>3, <3>1, <3>3 DEF CodesOK
    <3> QED
      BY <3>2, <3>3
  <2>5. \A k \in refused : Gone(k)'
    BY <1>0, <2>2 DEF CodesOK
  <2>6. expired' \subseteq 1 .. Len(sent)
    BY <1>0, <2>1 DEF CodesOK
  <2> QED
    BY <1>0, <2>1, <2>3, <2>4, <2>5, <2>6 DEF CodesOK
<1>3. CASE Send_verify
  <2> DEFINE l == Len(sent)
             k == l + 1
             n == req.name
  <2>0. PICK b \in Mailboxes : b = req.email
    BY <1>0, <1>3, Handled DEF Send_verify, Handling, FrameOK, RunsFor, Actions
  <2>1. /\ sent' = Append(sent, n) /\ code' = [code EXCEPT ![n] = k]
        /\ mails' = mails \/ mails' = [mails EXCEPT ![b] = @ \cup {k}]
        /\ UNCHANGED <<expired, refused>>
    BY <1>3, <2>0 DEF Send_verify, CodeKey
  <2>2. me \in Clients /\ n \in Names
    BY <1>0, <1>3, Handled DEF Send_verify, Handling
  <2>3. /\ sent \in Seq(Names) /\ l \in Nat /\ sent' \in Seq(Names) /\ Len(sent') = k
        /\ sent'[k] = n /\ \A i \in 1 .. l : sent'[i] = sent[i]
    BY <1>0, <2>1, <2>2, LenProperties, AppendProperties DEF CodesOK
  <2>4. l \in Nat /\ k \in Nat /\ k \in 1 .. k /\ k \notin 1 .. l /\ k # NoCode
        /\ 1 .. l \subseteq 1 .. k /\ \A i \in 1 .. k : i \in 1 .. l \/ i = k
    BY <2>3 DEF NoCode
  <2>5. \A i \in 1 .. l : k > i
    BY <2>3
  <2> HIDE DEF k, n, l
  <2>6. \A i \in 1 .. Len(sent) : Gone(i) => Gone(i)'
    <3> SUFFICES ASSUME NEW i \in 1 .. Len(sent), Gone(i) PROVE Gone(i)'
      OBVIOUS
    <3>1. CASE i \in expired
      BY <2>1, <3>1 DEF Gone
    <3>2. ASSUME NEW j \in 1 .. Len(sent), j > i, sent[j] = sent[i]
          PROVE  Gone(i)'
      <4>1. j \in 1 .. Len(sent') /\ sent'[j] = sent'[i]
        BY <2>3, <2>4, <3>2 DEF l
      <4> QED
        BY <3>2, <4>1 DEF Gone
    <3> QED
      BY <3>1, <3>2 DEF Gone
  <2>7. /\ code' \in [Names -> Nat] /\ code'[n] = k
        /\ \A m \in Names \ {n} : code'[m] = code[m]
    BY <1>0, <2>1, <2>2, <2>4 DEF CodesOK
  <2>8. ASSUME NEW m \in Names, code'[m] # NoCode
        PROVE  code'[m] \in 1 .. Len(sent') /\ sent'[code'[m]] = m
    <3>1. CASE m = n
      BY <2>3, <2>4, <2>7, <3>1
    <3>2. CASE m # n
      <4>1. code'[m] = code[m] /\ code[m] \in 1 .. l /\ sent[code[m]] = m
        BY <1>0, <2>7, <2>8, <3>2 DEF CodesOK, l
      <4> QED
        BY <2>3, <2>4, <4>1
    <3> QED
      BY <3>1, <3>2
  <2>9. mails' \in [Mailboxes -> SUBSET (1 .. Len(sent'))]
    <3>1. mails \in [Mailboxes -> SUBSET (1 .. l)]
      BY <1>0 DEF CodesOK, l
    <3>2. CASE mails' = mails
      BY <2>3, <2>4, <3>1, <3>2
    <3>3. CASE mails' = [mails EXCEPT ![b] = @ \cup {k}]
      <4>1. \A a \in Mailboxes : mails'[a] = IF a = b THEN mails[a] \cup {k} ELSE mails[a]
        BY <3>1, <3>3
      <4>2. \A a \in Mailboxes : mails'[a] \subseteq 1 .. k
        BY <2>4, <3>1, <4>1
      <4> QED
        BY <2>3, <3>1, <3>3, <4>2
    <3> QED
      BY <2>1, <3>2, <3>3
  <2>10. ASSUME NEW i \in 1 .. Len(sent')
         PROVE  code'[sent'[i]] = i \/ Gone(i)'
    <3>1. CASE i = k
      BY <2>3, <2>7, <3>1
    <3>2. CASE i \in 1 .. l
      <4>1. sent'[i] = sent[i] /\ sent[i] \in Names /\ (code[sent[i]] = i \/ Gone(i))
        BY <1>0, <2>3, <3>2, ElementOfSeq DEF CodesOK, l
      <4>2. CASE sent[i] = n
        <5>1. k \in 1 .. Len(sent') /\ k > i /\ sent'[k] = sent'[i]
          BY <2>3, <2>4, <2>5, <3>2, <4>1, <4>2
        <5> QED
          BY <5>1 DEF Gone
      <4>3. CASE sent[i] # n
        BY <2>6, <2>7, <3>2, <4>1, <4>3 DEF l
      <4> QED
        BY <4>2, <4>3
    <3> QED
      BY <2>3, <2>4, <3>1, <3>2
  <2>11. /\ expired' \subseteq 1 .. Len(sent') /\ refused' \subseteq 1 .. Len(sent')
         /\ \A i \in refused' : Gone(i)'
    BY <1>0, <2>1, <2>3, <2>4, <2>6 DEF CodesOK, l
  <2> QED
    BY <2>3, <2>7, <2>8, <2>9, <2>10, <2>11 DEF CodesOK
<1>4. CASE R_check \/ L_check
  <2>1. NoteRefusal /\ UNCHANGED <<sent, code, mails, expired>> /\ srv.at # "wait"
    BY <1>4 DEF R_check, L_check, Handling
  <2>2. ASSUME ~Matches, req.code # NoCode, sent[req.code] = req.name
        PROVE  req.code \in 1 .. Len(sent) /\ Gone(req.code)
    <3>1. req.code \in 1 .. Len(sent)
      BY <1>0, <2>1, <2>2, Handled DEF FrameOK, CodesOK, Made
    <3>2. code[sent[req.code]] # req.code
      BY <2>2 DEF Matches, CodeKey
    <3> QED
      BY <1>0, <3>1, <3>2 DEF CodesOK
  <2>3. refused' \subseteq 1 .. Len(sent) /\ \A k \in refused' : Gone(k)
    BY <1>0, <2>1, <2>2 DEF NoteRefusal, CodesOK
  <2> QED
    BY <1>0, <2>1, <2>3 DEF CodesOK, Gone
<1>5. ASSUME NEW c \in Clients, User(c) \/ receive(c) \/ onMessage(c)
      PROVE  CodesOK'
  BY <1>1, <1>5, ClientSteps DEF onMessage
<1>6. ASSUME NEW n \in Names, chat_del_account(n)
      PROVE  CodesOK'
  BY <1>1, <1>6 DEF chat_del_account
<1>7. CASE Process \/ Register_R \/ Register_R_delete \/ LogIn_exists
           \/ LogIn_password \/ LogIn_email
  BY <1>1, <1>7 DEF Process, Register_R, Register_R_delete, LogIn_exists,
                    LogIn_password, LogIn_email
<1>8. CASE UNCHANGED vars
  BY <1>1, <1>8 DEF vars
<1> QED
  BY <1>2, <1>3, <1>4, <1>5, <1>6, <1>7, <1>8 DEF Next, Server

\* Codes are made by Send_verify only, and stay.
LEMMA CodesMade ==
  ASSUME Inv, [Next]_vars
  PROVE  Made \subseteq Made'
<1> USE DEF redisVars, histVars, serverVars
<1>1. CASE UNCHANGED sent
  BY <1>1 DEF Made
<1>2. CASE Send_verify
  <2>1. PICK n : n = req.name
    OBVIOUS
  <2>2. n \in Names
    BY <1>2, <2>1, Handled DEF Inv, Send_verify, Handling
  <2>3. sent \in Seq(Names) /\ sent' = Append(sent, n)
    BY <1>2, <2>1 DEF Inv, CodesOK, Send_verify
  <2>4. Len(sent) \in Nat /\ Len(sent') = Len(sent) + 1
    BY <2>2, <2>3, LenProperties, AppendProperties
  <2> QED
    BY <2>4 DEF Made
<1>3. ASSUME NEW d \in Clients, User(d) \/ receive(d) \/ onMessage(d)
      PROVE  UNCHANGED sent
  BY <1>3, ClientSteps DEF onMessage
<1>4. ASSUME NEW n \in Names, chat_del_account(n) \/ Expire(n)
      PROVE  UNCHANGED sent
  BY <1>4 DEF chat_del_account, Expire
<1>5. CASE Process \/ Register_R \/ Register_R_delete \/ R_check \/ L_check
           \/ LogIn_exists \/ LogIn_password \/ LogIn_email
  BY <1>1, <1>5 DEF Process, Register_R, Register_R_delete, R_check, L_check,
                    LogIn_exists, LogIn_password, LogIn_email
<1>6. CASE UNCHANGED vars
  BY <1>1, <1>6 DEF vars
<1> QED
  BY <1>1, <1>2, <1>3, <1>4, <1>5, <1>6 DEF Next, Server

\* The codes within a user's reach are some of them.
LEMMA CodesReached ==
  ASSUME CodesOK, NEW c \in Clients, NEW k \in CodesInReach(c) \cup {NoCode}
  PROVE  k \in Nat /\ (k # NoCode => k \in Made)
<1>1. CASE k = NoCode
  BY <1>1 DEF NoCode
<1>2. CASE k \in CodesInReach(c)
  <2>1. PICK b \in Reads[c] : k \in mails[b]
    BY <1>2 DEF CodesInReach
  <2>2. k \in 1 .. Len(sent)
    BY <2>1, AuthConstants DEF CodesOK
  <2> QED
    BY <2>2 DEF Made
<1> QED
  BY <1>1, <1>2

LEMMA FrameKept ==
  ASSUME NEW m, NEW w, m \subseteq w, NEW f, FrameOK(m, f)
  PROVE  FrameOK(w, f)
  BY DEF FrameOK

\* The frame that the server takes is the last of those it has read, and the
\* others stay in the socket.
LEMMA Taken ==
  ASSUME SocketsOK, NEW c \in Clients, onMessage(c)
  PROVE  /\ srv.at = "wait" /\ ~crashed
         /\ UNCHANGED <<redisVars, user_info, inb, cl, deleting, histVars, crashed>>
         /\ \E n \in 1 .. Len(out[c]) : \E f \in Frames, rest \in Seq(Frames) :
              /\ f = out[c][n] /\ FrameOK(Made, f)
              /\ srv' = [at |-> f.act, cli |-> c, frame |-> f]
              /\ out' = [out EXCEPT ![c] = rest]
              /\ Len(rest) = Len(out[c]) - n
              /\ \A i \in 1 .. Len(rest) : rest[i] = out[c][n + i]
<1>1. PICK n \in 1 .. Len(out[c]) :
         /\ srv' = [at |-> handled(SubSeq(out[c], 1, n)).act, cli |-> c,
                    frame |-> handled(SubSeq(out[c], 1, n))]
         /\ out' = [out EXCEPT ![c] = SubSeq(@, n + 1, Len(@))]
  BY DEF onMessage
<1>2. PICK s \in Seq(Frames) : s = out[c]
  BY DEF SocketsOK
<1>3. n \in 1 .. Len(s) /\ Len(s) \in Nat /\ n \in Nat /\ \A i \in 1 .. Len(s) : s[i] \in Frames
  BY <1>2, LenProperties, ElementOfSeq
<1>4. Len(SubSeq(s, 1, n)) = n /\ SubSeq(s, 1, n)[n] = s[n]
  BY <1>3
<1>5. PICK f \in Frames : f = s[n]
  BY <1>3
<1>6. handled(SubSeq(out[c], 1, n)) = f
  BY <1>2, <1>4, <1>5 DEF handled
<1>7. PICK rest : rest = SubSeq(s, n + 1, Len(s))
  OBVIOUS
<1>8. /\ rest \in Seq(Frames) /\ Len(rest) = Len(s) - n
      /\ \A i \in 1 .. Len(rest) : rest[i] = s[n + i]
  <2>1. \A i \in n + 1 .. Len(s) : s[i] \in Frames
    BY <1>3
  <2>2. /\ rest \in Seq(Frames)
        /\ Len(rest) = IF n + 1 <= Len(s) THEN Len(s) - (n + 1) + 1 ELSE 0
        /\ \A i \in 1 .. Len(s) - (n + 1) + 1 : rest[i] = s[(n + 1) + i - 1]
    BY <1>3, <1>7, <2>1, SubSeqProperties
  <2>3. Len(rest) = Len(s) - n /\ Len(s) - (n + 1) + 1 = Len(s) - n
    BY <1>3, <2>2
  <2>4. \A i \in 1 .. Len(s) - n : (n + 1) + i - 1 = n + i
    BY <1>3
  <2> QED
    BY <2>2, <2>3, <2>4
<1>9. FrameOK(Made, f)
  BY <1>2, <1>3, <1>5 DEF SocketsOK
<1>10. /\ srv' = [at |-> f.act, cli |-> c, frame |-> f]
       /\ out' = [out EXCEPT ![c] = rest]
  BY <1>1, <1>2, <1>6, <1>7
<1>11. /\ srv.at = "wait" /\ ~crashed
       /\ UNCHANGED <<redisVars, user_info, inb, cl, deleting, histVars, crashed>>
  BY DEF onMessage, Handling
<1> QED
  BY <1>2, <1>5, <1>8, <1>9, <1>10, <1>11

LEMMA ServerStep == Inv /\ [Next]_vars => ServerOK'
<1> SUFFICES ASSUME Inv, [Next]_vars PROVE ServerOK'
  OBVIOUS
<1> USE DEF redisVars, histVars, serverVars
<1>0. ServerOK /\ SocketsOK /\ CodesOK
  BY DEF Inv
<1>1. PICK w : w = Made'
  OBVIOUS
<1>2. Made \subseteq w
  BY <1>1, CodesMade
<1>3. ASSUME UNCHANGED srv
      PROVE  ServerOK'
  <2>1. CASE srv.at = "wait"
    BY <1>0, <1>3, <2>1 DEF ServerOK
  <2>2. CASE srv.at # "wait"
    <3>1. PICK f, c : f = srv.frame /\ c = srv.cli
      OBVIOUS
    <3>2. c \in Clients /\ FrameOK(Made, f)
      BY <1>0, <2>2, <3>1 DEF ServerOK
    <3>3. FrameOK(w, f)
      BY <1>2, <3>2, FrameKept
    <3> QED
      BY <1>0, <1>1, <1>3, <3>1, <3>3 DEF ServerOK
  <2> QED
    BY <2>1, <2>2
<1>4. ASSUME srv' = idle
      PROVE  ServerOK'
  <2>1. NoFrame \in Frames
    BY DEF NoFrame, Frames, Actions
  <2> QED
    BY <1>4, <2>1 DEF idle, ServerOK, Handlers
\* From one handler to the next.
<1>5. ASSUME NEW at \in Handlers \ {"wait"}, NEW f, f = srv'.frame, srv.at # "wait",
             srv' = [at |-> at, cli |-> srv.cli, frame |-> f],
             FrameOK(Made, f), RunsFor(at, f.act)
      PROVE  ServerOK'
  <2>1. PICK c \in Clients : c = srv.cli
    BY <1>0, <1>5 DEF ServerOK
  <2>2. FrameOK(w, f)
    BY <1>2, <1>5, <2>1, FrameKept
  <2>3. srv'.at = at /\ srv'.cli = c /\ srv'.frame = f /\ f \in Frames
    BY <1>5, <2>1 DEF FrameOK
  <2>4. srv' \in [at : Handlers, cli : Clients \cup {NoClient}, frame : Frames]
    BY <1>5, <2>1, <2>3
  <2> QED
    BY <1>1, <1>5, <2>2, <2>3, <2>4 DEF ServerOK
<1>6. ASSUME NEW at \in {"mail", "hget"}, Then(at), srv.at # "wait",
             RunsFor(at, srv.frame.act)
      PROVE  ServerOK'
  <2>1. srv' = [at |-> at, cli |-> srv.cli, frame |-> srv.frame]
    BY <1>0, <1>6 DEF Then, ServerOK
  <2>2. FrameOK(Made, srv.frame)
    BY <1>0, <1>6 DEF ServerOK
  <2>3. PICK f : f = srv.frame
    OBVIOUS
  <2>4. f = srv'.frame /\ srv' = [at |-> at, cli |-> srv.cli, frame |-> f]
        /\ FrameOK(Made, f) /\ RunsFor(at, f.act) /\ at \in Handlers \ {"wait"}
    BY <1>6, <2>1, <2>2, <2>3 DEF Handlers
  <2> QED
    BY <1>5, <1>6, <2>4
<1>7. ASSUME NEW c \in Clients, User(c) \/ receive(c)
      PROVE  ServerOK'
  BY <1>3, <1>7, ClientSteps
<1>8. ASSUME NEW c \in Clients, onMessage(c)
      PROVE  ServerOK'
  <2>1. PICK f \in Frames : /\ FrameOK(Made, f)
                            /\ srv' = [at |-> f.act, cli |-> c, frame |-> f]
    BY <1>0, <1>8, Taken
  <2>2. FrameOK(w, f)
    BY <1>2, <2>1, FrameKept
  <2>3. f.act \in Actions
    BY DEF Frames
  <2>4. RunsFor(f.act, f.act) /\ f.act # "wait" /\ f.act \in Handlers
    BY <2>3 DEF RunsFor, Actions, Handlers
  <2> QED
    BY <1>1, <2>1, <2>2, <2>4 DEF ServerOK
<1>9. ASSUME NEW n \in Names, chat_del_account(n) \/ Expire(n)
      PROVE  ServerOK'
  BY <1>3, <1>9 DEF chat_del_account, Expire
<1>10. CASE Process \/ Send_verify \/ R_check \/ L_check
  BY <1>4, <1>10 DEF Process, Send_verify, R_check, L_check, Done
<1>11. CASE Register_R
  <2>1. srv.at = "REGISTER" /\ srv.frame.act = "REGISTER" /\ FrameOK(Made, srv.frame)
    BY <1>0, <1>11 DEF ServerOK, Register_R, Handling, RunsFor, Actions
  <2>2. PICK free \in BOOLEAN :
           srv' = [srv EXCEPT !.at = "delete", !.frame.right = free]
    BY <1>11 DEF Register_R
  <2>3. PICK g \in Frames : g = srv.frame
    BY <1>0 DEF ServerOK
  <2>4. PICK f : f = [g EXCEPT !.right = free]
    OBVIOUS
  <2>5. f \in Frames /\ f.act = "REGISTER" /\ f.name = g.name /\ f.code = g.code
        /\ f.email = g.email
    BY <2>1, <2>3, <2>4 DEF Frames
  <2>6. FrameOK(Made, f)
    BY <2>1, <2>3, <2>5 DEF FrameOK
  <2>7. srv' = [at |-> "delete", cli |-> srv.cli, frame |-> f]
    BY <1>0, <2>2, <2>3, <2>4 DEF ServerOK
  <2>8. RunsFor("delete", f.act) /\ "delete" \in Handlers \ {"wait"} /\ f = srv'.frame
    BY <2>5, <2>7 DEF RunsFor, Handlers
  <2> QED
    BY <1>5, <2>1, <2>6, <2>7, <2>8
<1>12. CASE Register_R_delete
  <2>1. srv.frame.act = "REGISTER" /\ srv.at # "wait"
    BY <1>0, <1>12 DEF ServerOK, Register_R_delete, Handling, RunsFor, Actions
  <2>2. Then("mail") \/ srv' = idle
    BY <1>12 DEF Register_R_delete, Done
  <2> QED
    BY <1>4, <1>6, <2>1, <2>2 DEF RunsFor
<1>13. CASE LogIn_exists
  <2>1. srv.frame.act = "PASSWORD" /\ srv.at # "wait"
    BY <1>0, <1>13 DEF ServerOK, LogIn_exists, Handling, RunsFor, Actions
  <2>2. Then("hget") \/ srv' = idle
    BY <1>13 DEF LogIn_exists, Done
  <2> QED
    BY <1>4, <1>6, <2>1, <2>2 DEF RunsFor
<1>14. CASE LogIn_password
  <2>1. UNCHANGED srv \/ srv' = idle
    BY <1>14 DEF LogIn_password, Done
  <2> QED
    BY <1>3, <1>4, <2>1
<1>15. CASE LogIn_email
  <2>1. srv.frame.act = "EMAIL" /\ srv.at # "wait" /\ Then("mail")
    BY <1>0, <1>15 DEF ServerOK, LogIn_email, Handling, RunsFor, Actions
  <2> QED
    BY <1>6, <2>1 DEF RunsFor
<1>16. CASE UNCHANGED vars
  BY <1>3, <1>16 DEF vars
<1> QED
  BY <1>7, <1>8, <1>9, <1>10, <1>11, <1>12, <1>13, <1>14, <1>15, <1>16 DEF Next, Server

\* A frame more in c's socket.
LEMMA Sent ==
  ASSUME SocketsOK, NEW c \in Clients, NEW f \in Frames, Send(c, f)
  PROVE  /\ out' \in [Clients -> Seq(Frames)]
         /\ \A d \in Clients \ {c} : out'[d] = out[d]
         /\ Len(out[c]) \in Nat /\ Len(out'[c]) = Len(out[c]) + 1
         /\ out'[c][Len(out[c]) + 1] = f /\ out'[c] # << >>
         /\ \A i \in 1 .. Len(out[c]) : out'[c][i] = out[c][i]
<1>1. PICK s \in Seq(Frames) : s = out[c]
  BY DEF SocketsOK
<1>2. PICK t : t = Append(s, f)
  OBVIOUS
<1>3. /\ t \in Seq(Frames) /\ Len(s) \in Nat /\ Len(t) = Len(s) + 1
      /\ t[Len(s) + 1] = f /\ \A i \in 1 .. Len(s) : t[i] = s[i]
  BY <1>2, AppendProperties, LenProperties
<1>4. out \in [Clients -> Seq(Frames)] /\ out' = [out EXCEPT ![c] = t]
  BY <1>1, <1>2 DEF Send, SocketsOK
<1>5. t # << >>
  BY <1>3, EmptySeq
<1>6. out'[c] = t
  BY <1>4
<1> QED
  BY <1>1, <1>3, <1>4, <1>5, <1>6

\* What a step of the user's does: nothing but moving on, with a frame or not.
LEMMA Moves ==
  ASSUME SocketsOK, NEW c \in Clients, NEW at, NEW n, GoTo(c, at, n)
  PROVE  /\ cl'[c].at = at /\ cl'[c].name = n
         /\ \A d \in Clients \ {c} : cl'[d] = cl[d]
         /\ at \in Places /\ n \in Names \cup {NoName} =>
               cl' \in [Clients -> [at : Places, name : Names \cup {NoName}]]
  BY DEF SocketsOK, GoTo

\* The answer to the client for which a handler runs.
LEMMA Answers ==
  ASSUME SocketsOK, TurnsOK, ServerOK, NEW kind \in Replies, NEW d \in 0 .. 2,
         Reply(kind, d), ~Silent(me), srv.at # "wait", Serves(srv.at, kind)
  PROVE  /\ inb' \in [Clients -> Seq(Replied)]
         /\ \A c \in Clients \ {me} : inb'[c] = inb[c]
         /\ out[me] = << >>
         /\ \/ cl[me].at = "gone" /\ inb'[me] = << >>
            \/ /\ cl[me].at = kind /\ cl[me].at # "gone" /\ WithServer(me)
               /\ inb'[me] = << << kind, d >> >>
<1>1. PICK c \in Clients : c = me
  BY Handled
<1>2. inb \in [Clients -> Seq(Replied)] /\ << kind, d >> \in Replied
  BY DEF SocketsOK, Replied
<1>3. TurnOK(c) /\ ~Silent(c) /\ srv.cli = c
  BY <1>1 DEF TurnsOK, me
<1>4. out[c] = << >>
  BY <1>3 DEF TurnOK
<1>5. inb' = [inb EXCEPT ![c] = IF cl[c].at = "gone" THEN inb[c]
                                ELSE Append(inb[c], << kind, d >>)]
  BY <1>1 DEF Reply
<1>6. inb' \in [Clients -> Seq(Replied)] /\ \A e \in Clients \ {c} : inb'[e] = inb[e]
  <2>1. inb[c] \in Seq(Replied) /\ Append(inb[c], << kind, d >>) \in Seq(Replied)
    BY <1>2, AppendProperties
  <2> QED
    BY <1>2, <1>5, <2>1
<1>7. CASE cl[c].at = "gone"
  <2>1. inb'[c] = << >>
    BY <1>2, <1>3, <1>5, <1>7 DEF TurnOK
  <2> QED
    BY <1>1, <1>4, <1>6, <1>7, <2>1
<1>8. CASE cl[c].at # "gone"
  <2>1. cl[c].at \in Replies
    BY <1>3, <1>8 DEF TurnOK
  <2>2. WithServer(c)
    BY <1>3, <2>1 DEF TurnOK, InSocket, WithClient, Silent
  <2>3. cl[c].at = kind
    BY <2>2 DEF WithServer, Serves
  <2>4. inb'[c] = << << kind, d >> >>
    BY <1>2, <1>5, <1>8, <2>2 DEF WithServer
  <2> QED
    BY <1>1, <1>4, <1>6, <1>8, <2>2, <2>3, <2>4
<1> QED
  BY <1>7, <1>8

\* Which answers the handlers give.
LEMMA Replying ==
  ASSUME Inv,
         \/ Process \/ Register_R_delete \/ R_check \/ L_check
         \/ LogIn_exists /\ srv' = idle
         \/ LogIn_password /\ srv' = idle
  PROVE  \E kind \in Replies, d \in 0 .. 2 :
           /\ Reply(kind, d) /\ ~Silent(me) /\ srv.at # "wait" /\ Serves(srv.at, kind)
           /\ kind = "REGISTER" => srv.at = "delete"
           /\ srv.at = "delete" => d = IF req.right THEN 1 ELSE 0
<1>1. srv.cli = me /\ idle.at = "wait" /\ ServerOK /\ "hget" # "wait"
  BY DEF me, idle, Inv
<1>2. CASE Process
  <2>1. srv.at \in {"login", "register"} /\ Reply(srv.at, 0)
    BY <1>2 DEF Process, Handling
  <2>2. srv.at \in Replies /\ 0 \in 0 .. 2
    BY <2>1 DEF Replies
  <2>3. ~Silent(me) /\ Serves(srv.at, srv.at) /\ srv.at \notin {"wait", "delete", "REGISTER"}
    BY <1>1, <2>1 DEF Silent, Serves
  <2> QED
    BY <2>1, <2>2, <2>3
<1>3. CASE Register_R_delete
  <2>1. srv.at = "delete" /\ Reply("REGISTER", IF req.right THEN 1 ELSE 0)
    BY <1>3 DEF Register_R_delete, Handling
  <2>2. "REGISTER" \in Replies /\ (IF req.right THEN 1 ELSE 0) \in 0 .. 2
    BY DEF Replies
  <2>3. ~Silent(me) /\ Serves(srv.at, "REGISTER") /\ srv.at # "wait"
    BY <1>1, <2>1 DEF Silent, Serves
  <2> QED
    BY <2>1, <2>2, <2>3
<1>4. CASE R_check
  <2>1. srv.at = "RVERIFY" /\ Reply("RVERIFY", IF Matches THEN 1 ELSE 0)
    BY <1>4 DEF R_check, Handling
  <2>2. "RVERIFY" \in Replies /\ (IF Matches THEN 1 ELSE 0) \in 0 .. 2
    BY DEF Replies
  <2>3. ~Silent(me) /\ Serves(srv.at, "RVERIFY") /\ srv.at \notin {"wait", "delete"}
    BY <1>1, <2>1 DEF Silent, Serves
  <2> QED
    BY <2>1, <2>2, <2>3
<1>5. CASE L_check
  <2>1. srv.at = "LVERIFY" /\ Reply("LVERIFY", IF Matches THEN 1 ELSE 0)
    BY <1>5 DEF L_check, Handling
  <2>2. "LVERIFY" \in Replies /\ (IF Matches THEN 1 ELSE 0) \in 0 .. 2
    BY DEF Replies
  <2>3. ~Silent(me) /\ Serves(srv.at, "LVERIFY") /\ srv.at \notin {"wait", "delete"}
    BY <1>1, <2>1 DEF Silent, Serves
  <2> QED
    BY <2>1, <2>2, <2>3
<1>6. ASSUME srv.at \in {"PASSWORD", "hget"}
      PROVE  /\ "LOGIN" \in Replies /\ ~Silent(me) /\ Serves(srv.at, "LOGIN")
             /\ srv.at \notin {"wait", "delete"} /\ {0, 1, 2} \subseteq 0 .. 2
  BY <1>1, <1>6 DEF Silent, Serves, Replies
<1>7. CASE LogIn_exists /\ srv' = idle
  <2>1. srv.at = "PASSWORD" /\ (Reply("LOGIN", 0) \/ Then("hget"))
    BY <1>7 DEF LogIn_exists, Handling
  <2>2. ~Then("hget")
    <3>1. Then("hget") => srv'.at = "hget"
      BY <1>1 DEF Then, ServerOK
    <3> QED
      BY <1>1, <1>7, <3>1
  <2> QED
    BY <1>6, <2>1, <2>2
<1>8. CASE LogIn_password /\ srv' = idle
  <2>1. srv.at = "hget" /\ (Reply("LOGIN", 1) \/ Reply("LOGIN", 2) \/ UNCHANGED srv)
    BY <1>8 DEF LogIn_password, Handling
  <2>2. ~UNCHANGED srv
    BY <1>1, <1>8, <2>1
  <2> QED
    BY <1>6, <2>1, <2>2
<1> QED
  BY <1>2, <1>3, <1>4, <1>5, <1>7, <1>8

\* How the other handlers go on.
LEMMA Continuing ==
  ASSUME Inv,
         \/ Register_R \/ Send_verify \/ LogIn_email
         \/ LogIn_exists /\ srv' # idle
         \/ LogIn_password /\ srv' # idle
  PROVE  /\ UNCHANGED <<out, inb, cl>> /\ srv.at # "wait"
         /\ \/ /\ srv.at = "mail" /\ srv' = idle
            \/ /\ srv'.cli = srv.cli /\ srv'.frame.act = srv.frame.act
               /\ srv'.frame.name = srv.frame.name /\ srv'.at # "RVERIFY"
               /\ srv'.at = "delete" => srv.at = "REGISTER"
               /\ srv'.at = "mail" => srv.frame.act = "EMAIL"
               /\ \/ srv.at = "EMAIL" /\ srv'.at = "mail"
                  \/ srv.at \notin {"EMAIL", "mail"} /\ srv'.at \notin {"EMAIL", "mail"}
               /\ \A kind : Serves(srv.at, kind) => Serves(srv'.at, kind)
<1> USE DEF redisVars, histVars
<1>1. /\ srv \in [at : Handlers, cli : Clients \cup {NoClient}, frame : Frames]
      /\ srv.at # "wait" => RunsFor(srv.at, srv.frame.act)
  BY DEF Inv, ServerOK
<1>2. CASE Send_verify
  BY <1>2 DEF Send_verify, Handling, Done
<1>3. CASE Register_R
  <2>1. srv.at = "REGISTER" /\ UNCHANGED <<out, inb, cl>>
    BY <1>3 DEF Register_R, Handling
  <2>2. PICK free \in BOOLEAN :
           srv' = [srv EXCEPT !.at = "delete", !.frame.right = free]
    BY <1>3 DEF Register_R
  <2>3. /\ srv'.at = "delete" /\ srv'.cli = srv.cli /\ srv'.frame.act = srv.frame.act
        /\ srv'.frame.name = srv.frame.name
    BY <1>1, <2>2 DEF Frames
  <2> QED
    BY <2>1, <2>3 DEF Serves
<1>4. CASE LogIn_email
  <2>1. srv.at = "EMAIL" /\ UNCHANGED <<out, inb, cl>> /\ Then("mail")
    BY <1>4 DEF LogIn_email, Handling
  <2>2. srv'.at = "mail" /\ srv'.cli = srv.cli /\ srv'.frame = srv.frame
    BY <1>1, <2>1 DEF Then
  <2>3. srv.frame.act = "EMAIL"
    BY <1>1, <2>1 DEF RunsFor
  <2> QED
    BY <2>1, <2>2, <2>3 DEF Serves
<1>5. CASE LogIn_exists /\ srv' # idle
  <2>1. srv.at = "PASSWORD" /\ UNCHANGED <<out, inb, cl>> /\ Then("hget")
    BY <1>5 DEF LogIn_exists, Handling, Done
  <2>2. srv'.at = "hget" /\ srv'.cli = srv.cli /\ srv'.frame = srv.frame
    BY <1>1, <2>1 DEF Then
  <2> QED
    BY <2>1, <2>2 DEF Serves
<1>6. CASE LogIn_password /\ srv' # idle
  <2>1. srv.at = "hget" /\ UNCHANGED <<out, inb, cl, srv>>
    BY <1>6 DEF LogIn_password, Handling, Done
  <2> QED
    BY <2>1
<1> QED
  BY <1>2, <1>3, <1>4, <1>5, <1>6

LEMMA Afterwards ==
  ASSUME NEW kind \in Replies, NEW d
  PROVE  /\ After(kind, d) \in {"form_l", "form_r", "code_r", "in", "menu"}
         /\ After(kind, d) = "code_r" => kind = "REGISTER" /\ d = 1
         /\ After(kind, d) = "in" => kind \in {"LOGIN", "LVERIFY"}
  BY DEF After, Replies

\* The client takes the one answer there is.
LEMMA Received ==
  ASSUME SocketsOK, TurnsOK, NEW c \in Clients, receive(c)
  PROVE  /\ cl[c].at \in Replies /\ WithClient(c)
         /\ inb' \in [Clients -> Seq(Replied)] /\ inb'[c] = << >>
         /\ \A d \in Clients \ {c} : inb'[d] = inb[d]
         /\ UNCHANGED <<serverVars, out, deleting, forms>>
         /\ \E at, n : /\ GoTo(c, at, n) /\ at = After(cl[c].at, inb[c][1][2])
                       /\ n = IF at \in {"in", "code_r"} THEN cl[c].name ELSE NoName
<1>1. cl[c].at \in Replies /\ inb[c] # << >> /\ inb' = [inb EXCEPT ![c] = Tail(@)]
  BY DEF receive
<1>2. WithClient(c)
  BY <1>1 DEF TurnsOK, TurnOK, InSocket, WithServer
<1>3. PICK s \in Seq(Replied) : s = inb[c]
  BY DEF SocketsOK
<1>4. Len(s) = 1
  BY <1>2, <1>3 DEF WithClient
<1>5. PICK t \in Seq(Replied) : t = Tail(s) /\ Len(t) = Len(s) - 1
  BY <1>1, <1>3, HeadTailProperties
<1>6. t = << >>
  <2>1. Len(t) = 0
    BY <1>4, <1>5
  <2> QED
    BY <2>1, EmptySeq
<1>7. inb \in [Clients -> Seq(Replied)] /\ inb' = [inb EXCEPT ![c] = t]
  BY <1>1, <1>3, <1>5 DEF SocketsOK
<1>8. Head(inb[c]) = inb[c][1]
  BY <1>3
<1>9. PICK at : at = After(cl[c].at, inb[c][1][2])
  OBVIOUS
<1>10. PICK n : n = IF at \in {"in", "code_r"} THEN cl[c].name ELSE NoName
  OBVIOUS
<1>11. GoTo(c, at, n) /\ UNCHANGED <<serverVars, out, deleting, forms>>
  BY <1>8, <1>9, <1>10 DEF receive
<1> QED
  BY <1>1, <1>2, <1>6, <1>7, <1>9, <1>10, <1>11

LEMMA SocketsStep == Inv /\ [Next]_vars => SocketsOK'
<1> SUFFICES ASSUME Inv, [Next]_vars PROVE SocketsOK'
  OBVIOUS
<1> USE DEF redisVars, histVars
<1>0. ServerOK /\ SocketsOK /\ CodesOK /\ TurnsOK
  BY DEF Inv
<1>1. PICK w : w = Made' /\ Made \subseteq w
  BY CodesMade
<1> DEFINE Nameless == {"menu", "form_l", "form_r", "login", "register", "gone"}
<1>2. ASSUME UNCHANGED cl
      PROVE  /\ cl' \in [Clients -> [at : Places, name : Names \cup {NoName}]]
             /\ \A d \in Clients : cl'[d].at \notin Nameless => cl'[d].name \in Names
  BY <1>0, <1>2 DEF SocketsOK
<1>3. ASSUME NEW c \in Clients, NEW at \in Places, NEW n \in Names \cup {NoName},
             at \notin Nameless => n \in Names, GoTo(c, at, n)
      PROVE  /\ cl' \in [Clients -> [at : Places, name : Names \cup {NoName}]]
             /\ \A d \in Clients : cl'[d].at \notin Nameless => cl'[d].name \in Names
  <2>1. /\ cl'[c].at = at /\ cl'[c].name = n
        /\ \A d \in Clients \ {c} : cl'[d] = cl[d]
        /\ cl' \in [Clients -> [at : Places, name : Names \cup {NoName}]]
    BY <1>0, <1>3, Moves
  <2>2. \A d \in Clients : cl[d].at \notin Nameless => cl[d].name \in Names
    BY <1>0 DEF SocketsOK
  <2> HIDE DEF Nameless
  <2> QED
    BY <1>3, <2>1, <2>2
<1>4. ASSUME UNCHANGED out
      PROVE  /\ out' \in [Clients -> Seq(Frames)]
             /\ \A d \in Clients : \A i \in 1 .. Len(out'[d]) : FrameOK(w, out'[d][i])
  <2>1. \A d \in Clients : \A i \in 1 .. Len(out[d]) : FrameOK(w, out[d][i])
    <3> SUFFICES ASSUME NEW d \in Clients, NEW i \in 1 .. Len(out[d])
                 PROVE  FrameOK(w, out[d][i])
      OBVIOUS
    <3>1. PICK f : f = out[d][i]
      OBVIOUS
    <3>2. FrameOK(Made, f)
      BY <1>0, <3>1 DEF SocketsOK
    <3> QED
      BY <1>1, <3>1, <3>2, FrameKept
  <2> QED
    BY <1>0, <1>4, <2>1 DEF SocketsOK
<1>5. ASSUME NEW c \in Clients, NEW f, FrameOK(Made, f), Send(c, f)
      PROVE  /\ out' \in [Clients -> Seq(Frames)]
             /\ \A d \in Clients : \A i \in 1 .. Len(out'[d]) : FrameOK(w, out'[d][i])
  <2>1. f \in Frames /\ FrameOK(w, f)
    BY <1>1, <1>5, FrameKept DEF FrameOK
  <2>2. /\ out' \in [Clients -> Seq(Frames)]
        /\ \A d \in Clients \ {c} : out'[d] = out[d]
        /\ Len(out[c]) \in Nat /\ Len(out'[c]) = Len(out[c]) + 1
        /\ out'[c][Len(out[c]) + 1] = f
        /\ \A i \in 1 .. Len(out[c]) : out'[c][i] = out[c][i]
    BY <1>0, <1>5, <2>1, Sent
  <2>3. ASSUME NEW d \in Clients, NEW i \in 1 .. Len(out'[d])
        PROVE  FrameOK(w, out'[d][i])
    <3>1. CASE d = c /\ i = Len(out[c]) + 1
      BY <2>1, <2>2, <3>1
    <3>2. CASE ~(d = c /\ i = Len(out[c]) + 1)
      <4>1. i \in 1 .. Len(out[d]) /\ out'[d][i] = out[d][i]
        <5>1. CASE d = c
          <6>1. i \in 1 .. Len(out[c])
            BY <2>2, <3>2, <5>1
          <6> QED
            BY <2>2, <5>1, <6>1
        <5>2. CASE d # c
          BY <2>2, <5>2
        <5> QED
          BY <5>1, <5>2
      <4>2. PICK g : g = out[d][i]
        OBVIOUS
      <4>3. FrameOK(Made, g)
        BY <1>0, <4>1, <4>2 DEF SocketsOK
      <4> QED
        BY <1>1, <4>1, <4>2, <4>3, FrameKept
    <3> QED
      BY <3>1, <3>2
  <2> QED
    BY <2>2, <2>3
<1>6. ASSUME inb' \in [Clients -> Seq(Replied)],
             out' \in [Clients -> Seq(Frames)],
             \A d \in Clients : \A i \in 1 .. Len(out'[d]) : FrameOK(w, out'[d][i]),
             cl' \in [Clients -> [at : Places, name : Names \cup {NoName}]],
             \A d \in Clients : cl'[d].at \notin Nameless => cl'[d].name \in Names
      PROVE  SocketsOK'
  BY <1>1, <1>6 DEF SocketsOK
<1>7. inb \in [Clients -> Seq(Replied)]
  BY <1>0 DEF SocketsOK
<1> HIDE DEF Nameless
<1>8. ASSUME UNCHANGED <<out, inb, cl>>
      PROVE  SocketsOK'
  BY <1>2, <1>4, <1>6, <1>7, <1>8
<1>9. ASSUME NEW c \in Clients, NEW f, FrameOK(Made, f), Send(c, f), UNCHANGED inb,
             NEW at \in Places, NEW n \in Names \cup {NoName},
             at \notin Nameless => n \in Names, GoTo(c, at, n)
      PROVE  SocketsOK'
  BY <1>3, <1>5, <1>6, <1>7, <1>9
<1>10. ASSUME NEW c \in Clients, NEW what \in {"login", "register"}, run(c, what)
       PROVE  SocketsOK'
  <2>1. PICK f : f = Frame(what, NoName, FALSE, NoCode, NoMail)
    OBVIOUS
  <2>2. FrameOK(Made, f)
    BY <2>1 DEF FrameOK, Frame, Frames, Actions
  <2>3. Send(c, f) /\ GoTo(c, what, NoName) /\ UNCHANGED inb
    BY <1>10, <2>1 DEF run
  <2>4. what \in Places /\ what \in Nameless
    BY DEF Places, Replies, Nameless
  <2> QED
    BY <1>9, <2>2, <2>3, <2>4
<1>11. ASSUME NEW c \in Clients, NEW n \in Names, NEW b \in Mailboxes, Register_u(c, n, b)
       PROVE  SocketsOK'
  <2>1. PICK f : f = Frame("REGISTER", n, TRUE, NoCode, b)
    OBVIOUS
  <2>2. FrameOK(Made, f)
    BY <2>1 DEF FrameOK, Frame, Frames, Actions
  <2>3. Send(c, f) /\ GoTo(c, "REGISTER", n) /\ UNCHANGED inb
    BY <1>11, <2>1 DEF Register_u
  <2>4. "REGISTER" \in Places
    BY DEF Places, Replies
  <2> QED
    BY <1>9, <2>2, <2>3, <2>4
<1>12. ASSUME NEW c \in Clients, NEW n \in Names, NEW b \in Mailboxes, LogIn(c, n, b)
       PROVE  SocketsOK'
  <2>1. ASSUME NEW right \in BOOLEAN, GoTo(c, "LOGIN", n),
               Send(c, Frame("PASSWORD", n, right, NoCode, NoMail)), UNCHANGED inb
        PROVE  SocketsOK'
    <3>1. PICK f : f = Frame("PASSWORD", n, right, NoCode, NoMail)
      OBVIOUS
    <3>2. FrameOK(Made, f)
      BY <3>1 DEF FrameOK, Frame, Frames, Actions
    <3>3. Send(c, f) /\ "LOGIN" \in Places
      BY <2>1, <3>1 DEF Places, Replies
    <3> QED
      BY <1>9, <2>1, <3>2, <3>3
  <2>2. ASSUME GoTo(c, "code_l", n), Send(c, Frame("EMAIL", n, FALSE, NoCode, b)),
               UNCHANGED inb
        PROVE  SocketsOK'
    <3>1. PICK f : f = Frame("EMAIL", n, FALSE, NoCode, b)
      OBVIOUS
    <3>2. FrameOK(Made, f)
      BY <3>1 DEF FrameOK, Frame, Frames, Actions
    <3>3. Send(c, f) /\ "code_l" \in Places
      BY <2>2, <3>1 DEF Places, Replies
    <3> QED
      BY <1>9, <2>2, <3>2, <3>3
  <2> QED
    BY <1>12, <2>1, <2>2 DEF LogIn
<1>13. ASSUME NEW c \in Clients, get_verify(c)
       PROVE  SocketsOK'
  <2>1. PICK act \in {"RVERIFY", "LVERIFY"}, k \in CodesInReach(c) \cup {NoCode} :
           /\ GoTo(c, act, cl[c].name) /\ Send(c, Frame(act, cl[c].name, FALSE, k, NoMail))
           /\ UNCHANGED inb /\ cl[c].at \in {"code_r", "code_l"}
    BY <1>13 DEF get_verify
  <2>2. PICK n \in Names : n = cl[c].name
    BY <1>0, <2>1 DEF SocketsOK
  <2>3. PICK f : f = Frame(act, n, FALSE, k, NoMail)
    OBVIOUS
  <2>4. k \in Nat /\ (k # NoCode => k \in Made)
    BY <1>0, <2>1, CodesReached
  <2>5. k \in Codes \cup {NoCode}
    BY <2>4 DEF Codes
  <2>6. FrameOK(Made, f)
    BY <2>3, <2>4, <2>5 DEF FrameOK, Frame, Frames, Actions
  <2>7. Send(c, f) /\ GoTo(c, act, n) /\ act \in Places
    BY <2>1, <2>2, <2>3 DEF Places, Replies
  <2> QED
    BY <1>9, <2>1, <2>6, <2>7
<1>14. ASSUME NEW c \in Clients, receive(c)
       PROVE  SocketsOK'
  <2>1. /\ cl[c].at \in Replies /\ inb' \in [Clients -> Seq(Replied)] /\ UNCHANGED out
        /\ \E at, n : /\ GoTo(c, at, n) /\ at = After(cl[c].at, inb[c][1][2])
                      /\ n = IF at \in {"in", "code_r"} THEN cl[c].name ELSE NoName
    BY <1>0, <1>14, Received
  <2>2. PICK at, n : /\ GoTo(c, at, n) /\ at = After(cl[c].at, inb[c][1][2])
                     /\ n = IF at \in {"in", "code_r"} THEN cl[c].name ELSE NoName
    BY <2>1
  <2>3. /\ at \in {"form_l", "form_r", "code_r", "in", "menu"}
        /\ at = "code_r" => cl[c].at = "REGISTER"
        /\ at = "in" => cl[c].at \in {"LOGIN", "LVERIFY"}
    BY <2>1, <2>2, Afterwards
  <2>4. at \in {"in", "code_r"} => cl[c].name \in Names
    BY <1>0, <2>3 DEF SocketsOK
  <2>5. n \in Names \cup {NoName} /\ at \in Places /\ (at \notin Nameless => n \in Names)
    BY <2>2, <2>3, <2>4 DEF Places, Nameless
  <2> QED
    BY <1>3, <1>4, <1>6, <2>1, <2>2, <2>5
<1>15. ASSUME NEW c \in Clients, exit(c) \/ del_account(c)
       PROVE  SocketsOK'
  <2>1. GoTo(c, "gone", NoName) /\ UNCHANGED out
    BY <1>15 DEF exit, del_account
  <2>2. "gone" \in Places /\ "gone" \in Nameless
    BY DEF Places, Nameless
  <2>3. inb' \in [Clients -> Seq(Replied)]
    <3>1. UNCHANGED inb \/ inb' = [inb EXCEPT ![c] = << >>]
      BY <1>15 DEF exit, del_account
    <3>2. << >> \in Seq(Replied)
      OBVIOUS
    <3> QED
      BY <1>7, <3>1, <3>2
  <2> QED
    BY <1>3, <1>4, <1>6, <2>1, <2>2, <2>3
<1>16. ASSUME NEW c \in Clients, onMessage(c)
       PROVE  SocketsOK'
  <2>1. UNCHANGED <<inb, cl, sent>>
    BY <1>0, <1>16, Taken
  <2>2. PICK n \in 1 .. Len(out[c]), rest \in Seq(Frames) :
           /\ out' = [out EXCEPT ![c] = rest] /\ Len(rest) = Len(out[c]) - n
           /\ \A i \in 1 .. Len(rest) : rest[i] = out[c][n + i]
    BY <1>0, <1>16, Taken
  <2>3. out' \in [Clients -> Seq(Frames)] /\ out'[c] = rest
        /\ \A d \in Clients \ {c} : out'[d] = out[d]
    BY <1>0, <2>2 DEF SocketsOK
  <2>4. ASSUME NEW d \in Clients, NEW i \in 1 .. Len(out'[d])
        PROVE  FrameOK(w, out'[d][i])
    <3>1. \E j \in 1 .. Len(out[d]) : out'[d][i] = out[d][j]
      <4>1. CASE d = c
        <5>1. Len(out[c]) \in Nat /\ i \in 1 .. Len(rest)
          BY <1>0, <2>3, <2>4, <4>1, LenProperties DEF SocketsOK
        <5>2. n + i \in 1 .. Len(out[c])
          BY <2>2, <5>1
        <5> QED
          BY <2>2, <2>3, <4>1, <5>1, <5>2
      <4>2. CASE d # c
        BY <2>3, <2>4, <4>2
      <4> QED
        BY <4>1, <4>2
    <3>2. PICK f : f = out'[d][i]
      OBVIOUS
    <3>3. FrameOK(Made, f)
      BY <1>0, <3>1, <3>2 DEF SocketsOK
    <3> QED
      BY <1>1, <3>2, <3>3, FrameKept
  <2> QED
    BY <1>2, <1>6, <1>7, <2>1, <2>3, <2>4
<1>17. CASE \/ Process \/ Register_R_delete \/ R_check \/ L_check
            \/ LogIn_exists /\ srv' = idle
            \/ LogIn_password /\ srv' = idle
  <2>1. inb' \in [Clients -> Seq(Replied)]
    BY <1>0, <1>17, Replying, Answers
  <2>2. UNCHANGED <<out, cl>>
    BY <1>17 DEF Process, Register_R_delete, R_check, L_check, LogIn_exists, LogIn_password
  <2> QED
    BY <1>2, <1>4, <1>6, <2>1, <2>2
<1>18. CASE \/ Register_R \/ Send_verify \/ LogIn_email
            \/ LogIn_exists /\ srv' # idle
            \/ LogIn_password /\ srv' # idle
  BY <1>8, <1>18, Continuing
<1>19. ASSUME NEW n \in Names, chat_del_account(n) \/ Expire(n)
       PROVE  SocketsOK'
  BY <1>8, <1>19 DEF chat_del_account, Expire
<1>20. CASE UNCHANGED vars
  BY <1>8, <1>20 DEF vars
<1>21. ASSUME NEW c \in Clients, User(c)
       PROVE  SocketsOK'
  BY <1>10, <1>11, <1>12, <1>13, <1>15, <1>21 DEF User
<1> QED
  BY <1>14, <1>16, <1>17, <1>18, <1>19, <1>20, <1>21 DEF Next, Server

\* Whoever takes no part in a step keeps its turn.
LEMMA TurnKept ==
  ASSUME NEW c, TurnOK(c), out'[c] = out[c], inb'[c] = inb[c], cl'[c] = cl[c],
         srv' = srv \/ (srv.cli # c /\ srv'.cli # c)
  PROVE  TurnOK(c)'
<1>1. CASE srv' = srv
  BY <1>1 DEF TurnOK, Silent, ByCode, InSocket, WithServer, WithClient
<1>2. CASE srv.cli # c /\ srv'.cli # c
  <2>1. Silent(c) /\ Silent(c)' /\ ~WithServer(c)
    BY <1>2 DEF Silent, WithServer
  <2>2. InSocket(c) => InSocket(c)'
    BY <2>1 DEF InSocket
  <2>3. WithClient(c) => WithClient(c)'
    BY <1>2 DEF WithClient
  <2>4. ByCode(c)'
    BY <1>2 DEF TurnOK, ByCode
  <2> QED
    BY <2>1, <2>2, <2>3, <2>4 DEF TurnOK
<1> QED
  BY <1>1, <1>2

\* A client that does not wait for an answer asks something.
LEMMA Asked ==
  ASSUME SocketsOK, TurnsOK, NEW c \in Clients, NEW f \in Frames, Send(c, f),
         NEW at \in Replies, GoTo(c, at, f.name), UNCHANGED <<inb, srv>>,
         cl[c].at \notin Replies \cup {"gone"}, Serves(f.act, at),
         cl[c].at = "code_l" => f.act = "LVERIFY"
  PROVE  TurnOK(c)'
<1>1. TurnOK(c) /\ at # "gone" /\ f.act # "EMAIL"
  BY DEF TurnsOK, Replies, Serves
<1>2. PICK l \in Nat : l = Len(out[c])
  BY Sent
<1>3. /\ Len(out'[c]) = l + 1 /\ out'[c][l + 1] = f /\ out'[c] # << >>
      /\ \A i \in 1 .. l : out'[c][i] = out[c][i]
  BY <1>2, Sent
<1>4. cl'[c].at = at /\ cl'[c].name = f.name
  BY Moves
<1>5. inb[c] = << >> /\ Silent(c) /\ \A i \in 1 .. l : out[c][i].act = "EMAIL"
  BY <1>1, <1>2 DEF TurnOK
<1>6. Silent(c)'
  BY <1>5 DEF Silent
<1>7. \A i \in 1 .. l + 1 : i < l + 1 => out'[c][i].act = "EMAIL"
  <2>1. \A i \in 1 .. l + 1 : i < l + 1 => i \in 1 .. l
    BY <1>2
  <2> QED
    BY <1>3, <1>5, <2>1
<1>8. InSocket(c)'
  BY <1>3, <1>4, <1>5, <1>6 DEF InSocket
<1>9. ByCode(c)'
  <2>1. CASE cl[c].at = "code_l"
    <3>1. at = "LVERIFY"
      BY <2>1 DEF Serves
    <3>2. \A i \in 1 .. l + 1 : out'[c][i].act \in {"EMAIL", "LVERIFY"}
      <4>1. \A i \in 1 .. l + 1 : i \in 1 .. l \/ i = l + 1
        BY <1>2
      <4> QED
        BY <1>3, <1>5, <2>1, <4>1
    <3> QED
      BY <1>3, <1>4, <3>1, <3>2 DEF ByCode
  <2>2. CASE cl[c].at # "code_l"
    <3>1. cl[c].at \notin {"code_l", "LVERIFY", "gone"}
      BY <2>2 DEF Replies
    <3>2. /\ ~(srv.cli = c /\ srv.frame.act = "EMAIL")
          /\ \A i \in 1 .. l : out[c][i].act # "EMAIL"
      BY <1>1, <1>2, <3>1 DEF TurnOK, ByCode
    <3>3. l = 0
      <4>1. l # 0 => 1 \in 1 .. l
        BY <1>2
      <4> QED
        BY <1>5, <3>2, <4>1
    <3>4. \A i \in 1 .. Len(out'[c]) : out'[c][i].act # "EMAIL"
      BY <1>1, <1>3, <3>3
    <3> QED
      BY <3>2, <3>4 DEF ByCode
  <2> QED
    BY <2>1, <2>2
<1> QED
  BY <1>1, <1>3, <1>4, <1>6, <1>7, <1>8, <1>9 DEF TurnOK

\* It asks for a code, which is no question.
LEMMA AskedForCode ==
  ASSUME SocketsOK, TurnsOK, NEW c \in Clients, NEW f \in Frames, Send(c, f),
         f.act = "EMAIL", GoTo(c, "code_l", f.name), UNCHANGED <<inb, srv>>,
         cl[c].at \notin Replies \cup {"gone"}
  PROVE  TurnOK(c)'
<1>1. TurnOK(c)
  BY DEF TurnsOK
<1>2. PICK l \in Nat : l = Len(out[c])
  BY Sent
<1>3. /\ Len(out'[c]) = l + 1 /\ out'[c][l + 1] = f
      /\ \A i \in 1 .. l : out'[c][i] = out[c][i]
  BY <1>2, Sent
<1>4. cl'[c].at = "code_l"
  BY Moves
<1>5. inb[c] = << >> /\ Silent(c) /\ \A i \in 1 .. l : out[c][i].act = "EMAIL"
  BY <1>1, <1>2 DEF TurnOK
<1>6. Silent(c)'
  BY <1>5 DEF Silent
<1>7. \A i \in 1 .. Len(out'[c]) : out'[c][i].act = "EMAIL"
  <2>1. \A i \in 1 .. l + 1 : i \in 1 .. l \/ i = l + 1
    BY <1>2
  <2> QED
    BY <1>3, <1>5, <2>1
<1>8. ByCode(c)'
  BY <1>4, <1>7 DEF ByCode
<1> QED
  BY <1>4, <1>5, <1>6, <1>7, <1>8 DEF TurnOK, Replies

LEMMA TurnAfterUser ==
  ASSUME Inv, NEW c \in Clients, User(c)
  PROVE  TurnOK(c)'
<1>0. SocketsOK /\ TurnsOK /\ ServerOK /\ CodesOK
  BY DEF Inv
<1>1. UNCHANGED srv
  BY ClientSteps DEF serverVars
<1>2. ASSUME NEW what \in {"login", "register"}, run(c, what)
      PROVE  TurnOK(c)'
  <2>1. PICK f : f = Frame(what, NoName, FALSE, NoCode, NoMail)
    OBVIOUS
  <2>2. f \in Frames /\ f.act = what /\ f.name = NoName
    BY <2>1 DEF Frame, Frames, Actions
  <2>3. /\ Send(c, f) /\ GoTo(c, what, f.name) /\ UNCHANGED inb
        /\ cl[c].at \notin Replies \cup {"gone"} /\ cl[c].at # "code_l"
    BY <1>2, <2>1, <2>2 DEF run, Replies
  <2>4. what \in Replies /\ Serves(f.act, what)
    BY <2>2 DEF Replies, Serves
  <2> QED
    BY <1>0, <1>1, <2>2, <2>3, <2>4, Asked
<1>3. ASSUME NEW n \in Names, NEW b \in Mailboxes, Register_u(c, n, b)
      PROVE  TurnOK(c)'
  <2>1. PICK f : f = Frame("REGISTER", n, TRUE, NoCode, b)
    OBVIOUS
  <2>2. f \in Frames /\ f.act = "REGISTER" /\ f.name = n
    BY <2>1 DEF Frame, Frames, Actions
  <2>3. /\ Send(c, f) /\ GoTo(c, "REGISTER", f.name) /\ UNCHANGED inb
        /\ cl[c].at \notin Replies \cup {"gone"} /\ cl[c].at # "code_l"
    BY <1>3, <2>1, <2>2 DEF Register_u, Replies
  <2>4. "REGISTER" \in Replies /\ Serves(f.act, "REGISTER")
    BY <2>2 DEF Replies, Serves
  <2> QED
    BY <1>0, <1>1, <2>2, <2>3, <2>4, Asked
<1>4. ASSUME NEW n \in Names, NEW b \in Mailboxes, LogIn(c, n, b)
      PROVE  TurnOK(c)'
  <2>1. cl[c].at \notin Replies \cup {"gone"} /\ cl[c].at # "code_l" /\ UNCHANGED inb
    BY <1>4 DEF LogIn, Replies
  <2>2. ASSUME NEW right \in BOOLEAN, GoTo(c, "LOGIN", n),
               Send(c, Frame("PASSWORD", n, right, NoCode, NoMail))
        PROVE  TurnOK(c)'
    <3>1. PICK f : f = Frame("PASSWORD", n, right, NoCode, NoMail)
      OBVIOUS
    <3>2. f \in Frames /\ f.act = "PASSWORD" /\ f.name = n
      BY <3>1 DEF Frame, Frames, Actions
    <3>3. Send(c, f) /\ GoTo(c, "LOGIN", f.name) /\ "LOGIN" \in Replies
          /\ Serves(f.act, "LOGIN")
      BY <2>2, <3>1, <3>2 DEF Replies, Serves
    <3> QED
      BY <1>0, <1>1, <2>1, <3>2, <3>3, Asked
  <2>3. ASSUME GoTo(c, "code_l", n), Send(c, Frame("EMAIL", n, FALSE, NoCode, b))
        PROVE  TurnOK(c)'
    <3>1. PICK f : f = Frame("EMAIL", n, FALSE, NoCode, b)
      OBVIOUS
    <3>2. f \in Frames /\ f.act = "EMAIL" /\ f.name = n
      BY <3>1 DEF Frame, Frames, Actions
    <3>3. Send(c, f) /\ GoTo(c, "code_l", f.name)
      BY <2>3, <3>1, <3>2
    <3> QED
      BY <1>0, <1>1, <2>1, <3>2, <3>3, AskedForCode
  <2> QED
    BY <1>4, <2>2, <2>3 DEF LogIn
<1>5. CASE get_verify(c)
  <2>1. PICK act \in {"RVERIFY", "LVERIFY"}, k \in CodesInReach(c) \cup {NoCode} :
           /\ GoTo(c, act, cl[c].name) /\ Send(c, Frame(act, cl[c].name, FALSE, k, NoMail))
           /\ UNCHANGED inb /\ cl[c].at \in {"code_r", "code_l"}
           /\ cl[c].at = "code_l" => act = "LVERIFY"
    BY <1>5 DEF get_verify
  <2>2. PICK n \in Names : n = cl[c].name
    BY <1>0, <2>1 DEF SocketsOK
  <2>3. PICK f : f = Frame(act, n, FALSE, k, NoMail)
    OBVIOUS
  <2>4. k \in Nat
    BY <1>0, <2>1, CodesReached
  <2>5. k \in Codes \cup {NoCode}
    BY <2>4 DEF Codes
  <2>6. f \in Frames /\ f.act = act /\ f.name = n
    BY <2>3, <2>5 DEF Frame, Frames, Actions
  <2>7. Send(c, f) /\ GoTo(c, act, f.name) /\ act \in Replies /\ Serves(f.act, act)
    BY <2>1, <2>2, <2>3, <2>6 DEF Replies, Serves
  <2>8. cl[c].at \notin Replies \cup {"gone"}
    BY <2>1 DEF Replies
  <2> QED
    BY <1>0, <1>1, <2>1, <2>6, <2>7, <2>8, Asked
<1>6. CASE exit(c) \/ del_account(c)
  <2>1. GoTo(c, "gone", NoName) /\ UNCHANGED out
    BY <1>6 DEF exit, del_account
  <2>2. TurnOK(c) /\ cl'[c].at = "gone"
    BY <1>0, <2>1, Moves DEF TurnsOK
  <2>3. inb'[c] = << >>
    <3>1. CASE exit(c)
      BY <1>0, <3>1 DEF exit, SocketsOK
    <3>2. CASE del_account(c)
      BY <2>2, <3>2 DEF del_account, TurnOK, Replies
    <3> QED
      BY <1>6, <3>1, <3>2
  <2>4. ByCode(c)' /\ Silent(c)' = Silent(c)
    BY <1>1, <2>1, <2>2 DEF TurnOK, ByCode, Silent
  <2> QED
    BY <2>1, <2>2, <2>3, <2>4 DEF TurnOK, Replies
<1> QED
  BY <1>2, <1>3, <1>4, <1>5, <1>6 DEF User

LEMMA TurnAfterReceive ==
  ASSUME Inv, NEW c \in Clients, receive(c)
  PROVE  TurnOK(c)'
<1>1. SocketsOK /\ TurnsOK
  BY DEF Inv
<1>2. /\ cl[c].at \in Replies /\ WithClient(c) /\ inb'[c] = << >> /\ UNCHANGED <<srv, out>>
      /\ \E at, n : GoTo(c, at, n) /\ at = After(cl[c].at, inb[c][1][2])
  BY <1>1, Received DEF serverVars
<1>3. PICK at, n : GoTo(c, at, n) /\ at = After(cl[c].at, inb[c][1][2])
  BY <1>2
<1>4. at \in {"form_l", "form_r", "code_r", "in", "menu"}
  BY <1>2, <1>3, Afterwards
<1>5. cl'[c].at \notin Replies \cup {"gone"}
  BY <1>1, <1>3, <1>4, Moves DEF Replies
<1>6. out'[c] = << >> /\ Len(out'[c]) = 0 /\ 1 .. 0 = {}
  BY <1>2 DEF WithClient
<1>7. srv'.cli = c => srv'.at = "mail" /\ srv'.frame.act = "REGISTER"
  BY <1>2 DEF WithClient
<1> QED
  BY <1>2, <1>5, <1>6, <1>7 DEF TurnOK, Silent, ByCode

LEMMA TurnAfterMessage ==
  ASSUME Inv, NEW c \in Clients, onMessage(c)
  PROVE  TurnOK(c)'
<1>0. SocketsOK /\ TurnOK(c) /\ ServerOK
  BY DEF Inv, TurnsOK
<1>1. srv.at = "wait" /\ UNCHANGED <<inb, cl>>
  BY <1>0, Taken
<1>2. PICK n \in 1 .. Len(out[c]) : \E f \in Frames, rest \in Seq(Frames) :
         /\ f = out[c][n] /\ FrameOK(Made, f)
         /\ srv' = [at |-> f.act, cli |-> c, frame |-> f]
         /\ out' = [out EXCEPT ![c] = rest]
         /\ Len(rest) = Len(out[c]) - n
         /\ \A i \in 1 .. Len(rest) : rest[i] = out[c][n + i]
  BY <1>0, Taken
<1>3. PICK f \in Frames, rest \in Seq(Frames) :
         /\ f = out[c][n] /\ FrameOK(Made, f)
         /\ srv' = [at |-> f.act, cli |-> c, frame |-> f]
         /\ out' = [out EXCEPT ![c] = rest]
         /\ Len(rest) = Len(out[c]) - n
         /\ \A i \in 1 .. Len(rest) : rest[i] = out[c][n + i]
  BY <1>2
<1>4. PICK l \in Nat : l = Len(out[c])
  BY <1>0, LenProperties DEF SocketsOK
<1>5. out'[c] = rest /\ Len(rest) = l - n /\ n \in 1 .. l
  BY <1>0, <1>3, <1>4 DEF SocketsOK
<1>6. srv'.at = f.act /\ srv'.cli = c /\ srv'.frame = f
  BY <1>3
<1>7. srv.cli # c
  BY <1>0, <1>1, AuthConstants DEF ServerOK
<1>8. /\ \A i \in 1 .. l - n : n + i \in 1 .. l /\ rest[i] = out[c][n + i]
      /\ \A i \in 1 .. l - n : i < l - n => n + i < l
  BY <1>3, <1>4, <1>5
<1>9. \A i \in 1 .. l : i < l => out[c][i].act = "EMAIL"
  BY <1>0, <1>4 DEF TurnOK
<1>10. n # l => f.act = "EMAIL" /\ Silent(c)'
  <2>1. n # l => n < l
    BY <1>4, <1>5
  <2> QED
    BY <1>3, <1>5, <1>6, <1>9, <2>1 DEF Silent
<1>11. n = l => rest = << >> /\ out'[c] = << >>
  <2>1. n = l => Len(rest) = 0
    BY <1>4, <1>5
  <2> QED
    BY <1>5, <2>1, EmptySeq
<1>12. \A i \in 1 .. Len(out'[c]) : i < Len(out'[c]) => out'[c][i].act = "EMAIL"
  BY <1>5, <1>8, <1>9
<1>13. ByCode(c)'
  <2>1. ASSUME NEW i \in 1 .. l, out[c][i].act = "EMAIL"
        PROVE  /\ cl[c].at \in {"code_l", "LVERIFY", "gone"}
               /\ \A j \in 1 .. l : out[c][j].act \in {"EMAIL", "LVERIFY"}
    BY <1>0, <1>4, <2>1 DEF TurnOK, ByCode
  <2>2. ASSUME f.act = "EMAIL" \/ \E i \in 1 .. l - n : rest[i].act = "EMAIL"
        PROVE  \E i \in 1 .. l : out[c][i].act = "EMAIL"
    BY <1>3, <1>5, <1>8, <2>2
  <2> QED
    BY <1>1, <1>5, <1>6, <1>8, <2>1, <2>2 DEF ByCode
<1>14. cl'[c].at = "gone" => inb'[c] = << >>
  BY <1>0, <1>1 DEF TurnOK
<1>15. cl'[c].at \notin Replies \cup {"gone"} =>
          /\ inb'[c] = << >> /\ Silent(c)'
          /\ \A i \in 1 .. Len(out'[c]) : out'[c][i].act = "EMAIL"
  <2>1. ASSUME cl[c].at \notin Replies \cup {"gone"}
        PROVE  inb[c] = << >> /\ \A i \in 1 .. l : out[c][i].act = "EMAIL"
    BY <1>0, <1>4, <2>1 DEF TurnOK
  <2>2. f.act = "EMAIL" => Silent(c)'
    BY <1>6 DEF Silent
  <2>3. ASSUME \A i \in 1 .. l : out[c][i].act = "EMAIL"
        PROVE  f.act = "EMAIL" /\ \A i \in 1 .. l - n : rest[i].act = "EMAIL"
    BY <1>3, <1>5, <1>8, <2>3
  <2>4. Len(out'[c]) = l - n /\ out'[c] = rest
    BY <1>5
  <2> QED
    BY <1>1, <2>1, <2>2, <2>3, <2>4
<1>16. cl'[c].at \in Replies => InSocket(c)' \/ WithServer(c)' \/ WithClient(c)'
  <2> SUFFICES ASSUME cl[c].at \in Replies
               PROVE  InSocket(c)' \/ WithServer(c)'
    BY <1>1
  <2>1. out[c] # << >>
    <3>1. out[c] = << >> => l = 0
      BY <1>4
    <3> QED
      BY <1>4, <1>5, <3>1
  <2>2. InSocket(c)
    BY <1>0, <1>7, <2>1 DEF TurnOK, WithServer, WithClient
  <2>3. CASE n = l
    <3>1. Serves(f.act, cl[c].at) /\ f.name = cl[c].name /\ inb[c] = << >>
      BY <1>3, <1>4, <2>2, <2>3 DEF InSocket
    <3> QED
      BY <1>1, <1>6, <3>1 DEF WithServer
  <2>4. CASE n # l
    <3>1. l - n \in 1 .. l - n /\ n + (l - n) = l
      BY <1>4, <1>5, <2>4
    <3>2. rest[l - n] = out[c][l] /\ Len(out'[c]) = l - n
      BY <1>5, <1>8, <3>1
    <3>3. out'[c] # << >>
      <4>1. rest = << >> => l - n = 0
        BY <1>5
      <4> QED
        BY <1>4, <1>5, <2>4, <4>1
    <3> QED
      BY <1>1, <1>4, <1>5, <1>10, <2>2, <2>4, <3>2, <3>3 DEF InSocket
  <2> QED
    BY <2>3, <2>4
<1> QED
  BY <1>10, <1>11, <1>12, <1>13, <1>14, <1>15, <1>16 DEF TurnOK

\* The client that gets its answer has no other question.
LEMMA TurnAfterAnswer ==
  ASSUME Inv, NEW kind \in Replies, NEW d \in 0 .. 2, Reply(kind, d), ~Silent(me),
         srv.at # "wait", Serves(srv.at, kind), UNCHANGED <<out, cl>>,
         \/ srv' = idle
         \/ srv.at = "delete" /\ srv'.at = "mail" /\ srv'.cli = srv.cli
            /\ srv'.frame = srv.frame
  PROVE  TurnsOK'
<1>0. SocketsOK /\ TurnsOK /\ ServerOK
  BY DEF Inv
<1>1. PICK c \in Clients : c = me
  BY <1>0, Handled
<1>2. /\ \A e \in Clients \ {c} : inb'[e] = inb[e]
      /\ out[c] = << >>
      /\ \/ cl[c].at = "gone" /\ inb'[c] = << >>
         \/ cl[c].at = kind /\ cl[c].at # "gone" /\ inb'[c] = << << kind, d >> >>
  BY <1>0, <1>1, Answers
<1>3. /\ srv.cli = c /\ \A e \in Clients \ {c} : srv.cli # e /\ srv'.cli # e
      /\ srv'.cli = c => srv'.at = "mail" /\ srv'.frame.act = "REGISTER"
  <2>1. srv.cli = c
    BY <1>1 DEF me
  <2>2. idle.cli = NoClient
    BY DEF idle
  <2>3. srv.at = "delete" => srv.frame.act = "REGISTER"
    BY <1>0 DEF ServerOK, RunsFor, Actions
  <2> QED
    BY <2>1, <2>2, <2>3, AuthConstants
<1>4. \A e \in Clients \ {c} : TurnOK(e)'
  BY <1>0, <1>2, <1>3, TurnKept DEF TurnsOK
<1>5. TurnOK(c)'
  <2>1. out'[c] = << >> /\ Len(out'[c]) = 0 /\ 1 .. 0 = {}
    BY <1>2
  <2>2. ByCode(c)'
    BY <1>3, <2>1 DEF ByCode
  <2>3. CASE cl[c].at = "gone" /\ inb'[c] = << >>
    BY <2>1, <2>2, <2>3 DEF TurnOK, Replies
  <2>4. CASE cl[c].at = kind /\ cl[c].at # "gone" /\ inb'[c] = << << kind, d >> >>
    <3>1. WithClient(c)'
      BY <1>3, <2>1, <2>4 DEF WithClient
    <3> QED
      BY <2>1, <2>2, <2>4, <3>1 DEF TurnOK
  <2> QED
    BY <1>2, <2>3, <2>4
<1> QED
  BY <1>4, <1>5 DEF TurnsOK

LEMMA TurnsStep == Inv /\ [Next]_vars => TurnsOK'
<1> SUFFICES ASSUME Inv, [Next]_vars PROVE TurnsOK'
  OBVIOUS
<1> USE DEF redisVars, histVars
<1>0. SocketsOK /\ TurnsOK /\ ServerOK
  BY DEF Inv
<1>1. ASSUME UNCHANGED <<srv, out, inb, cl>>
      PROVE  TurnsOK'
  BY <1>0, <1>1, TurnKept DEF TurnsOK
<1>2. ASSUME NEW c \in Clients, TurnOK(c)',
             \A d \in Clients \ {c} :
                out'[d] = out[d] /\ inb'[d] = inb[d] /\ cl'[d] = cl[d],
             srv' = srv \/ \A d \in Clients \ {c} : srv.cli # d /\ srv'.cli # d
      PROVE  TurnsOK'
  BY <1>0, <1>2, TurnKept DEF TurnsOK
<1>3. ASSUME NEW c \in Clients, User(c)
      PROVE  TurnsOK'
  <2>1. UNCHANGED srv
    BY <1>3, ClientSteps DEF serverVars
  <2>2. \A d \in Clients \ {c} : out'[d] = out[d] /\ inb'[d] = inb[d] /\ cl'[d] = cl[d]
    <3>1. out \in [Clients -> Seq(Frames)] /\ inb \in [Clients -> Seq(Replied)]
          /\ cl \in [Clients -> [at : Places, name : Names \cup {NoName}]]
      BY <1>0 DEF SocketsOK
    <3>2. ASSUME NEW what, run(c, what)
          PROVE  \A d \in Clients \ {c} : out'[d] = out[d] /\ inb'[d] = inb[d] /\ cl'[d] = cl[d]
      BY <3>1, <3>2 DEF run, Send, GoTo
    <3>3. ASSUME NEW n \in Names, NEW b \in Mailboxes, Register_u(c, n, b) \/ LogIn(c, n, b)
          PROVE  \A d \in Clients \ {c} : out'[d] = out[d] /\ inb'[d] = inb[d] /\ cl'[d] = cl[d]
      BY <3>1, <3>3 DEF Register_u, LogIn, Send, GoTo
    <3>4. CASE get_verify(c) \/ exit(c) \/ del_account(c)
      BY <3>1, <3>4 DEF get_verify, exit, del_account, Send, GoTo
    <3> QED
      BY <1>3, <3>2, <3>3, <3>4 DEF User
  <2>3. TurnOK(c)'
    BY <1>3, TurnAfterUser
  <2> QED
    BY <1>2, <2>1, <2>2, <2>3
<1>4. ASSUME NEW c \in Clients, receive(c)
      PROVE  TurnsOK'
  <2>1. UNCHANGED <<srv, out>> /\ \A d \in Clients \ {c} : inb'[d] = inb[d]
    BY <1>0, <1>4, Received DEF serverVars
  <2>2. PICK at, n : GoTo(c, at, n)
    BY <1>4 DEF receive
  <2>3. \A d \in Clients \ {c} : cl'[d] = cl[d]
    BY <1>0, <2>2, Moves
  <2>4. TurnOK(c)'
    BY <1>4, TurnAfterReceive
  <2> QED
    BY <1>2, <2>1, <2>3, <2>4
<1>5. ASSUME NEW c \in Clients, onMessage(c)
      PROVE  TurnsOK'
  <2>1. srv.at = "wait" /\ UNCHANGED <<inb, cl>> /\ srv'.cli = c
        /\ \E rest : out' = [out EXCEPT ![c] = rest]
    <3>1. srv.at = "wait" /\ UNCHANGED <<inb, cl>>
      BY <1>5 DEF onMessage, Handling
    <3>2. PICK n, f : /\ srv' = [at |-> f.act, cli |-> c, frame |-> f]
                      /\ out' = [out EXCEPT ![c] = SubSeq(@, n + 1, Len(@))]
      BY <1>5, Zenon DEF onMessage
    <3> QED
      BY <3>1, <3>2
  <2>2. \A d \in Clients \ {c} : out'[d] = out[d] /\ srv.cli # d /\ srv'.cli # d
    BY <1>0, <2>1, AuthConstants DEF SocketsOK, ServerOK
  <2>3. TurnOK(c)'
    BY <1>5, TurnAfterMessage
  <2> QED
    BY <1>2, <2>1, <2>2, <2>3
<1>6. CASE \/ Process \/ Register_R_delete \/ R_check \/ L_check
           \/ LogIn_exists /\ srv' = idle
           \/ LogIn_password /\ srv' = idle
  <2>1. PICK kind \in Replies, d \in 0 .. 2 :
           Reply(kind, d) /\ ~Silent(me) /\ srv.at # "wait" /\ Serves(srv.at, kind)
    BY <1>6, Replying
  <2>2. UNCHANGED <<out, cl>>
    BY <1>6 DEF Process, Register_R_delete, R_check, L_check, LogIn_exists, LogIn_password
  <2>3. srv' = idle \/ (srv.at = "delete" /\ Then("mail"))
    BY <1>6 DEF Process, Register_R_delete, R_check, L_check, Done, Handling
  <2>4. Then("mail") => srv'.at = "mail" /\ srv'.cli = srv.cli /\ srv'.frame = srv.frame
    BY <1>0 DEF Then, ServerOK
  <2> QED
    BY <2>1, <2>2, <2>3, <2>4, TurnAfterAnswer
<1>7. CASE \/ Register_R \/ Send_verify \/ LogIn_email
           \/ LogIn_exists /\ srv' # idle
           \/ LogIn_password /\ srv' # idle
  <2>1. UNCHANGED <<out, inb, cl>> /\ srv.at # "wait"
    BY <1>7, Continuing
  <2>2. PICK c \in Clients : c = srv.cli
    BY <1>0, <2>1 DEF ServerOK
  <2>3. TurnOK(c)
    BY <1>0 DEF TurnsOK
  <2>4. CASE srv.at = "mail" /\ srv' = idle
    <3>1. srv'.cli = NoClient
      BY <2>4 DEF idle
    <3>2. srv'.cli # c /\ \A d \in Clients \ {c} : srv.cli # d /\ srv'.cli # d
      BY <2>2, <3>1, AuthConstants
    <3>3. Silent(c) /\ Silent(c)' /\ ~WithServer(c)
      BY <2>4, <3>2 DEF Silent, WithServer, Serves
    <3>4. InSocket(c) => InSocket(c)'
      BY <2>1, <3>3 DEF InSocket
    <3>5. WithClient(c) => WithClient(c)'
      BY <2>1, <3>2 DEF WithClient
    <3>6. ByCode(c)'
      BY <2>1, <2>3, <3>2 DEF TurnOK, ByCode
    <3>7. TurnOK(c)'
      BY <2>1, <2>3, <3>3, <3>4, <3>5, <3>6 DEF TurnOK
    <3> QED
      BY <1>2, <2>1, <3>2, <3>7
  <2>5. ASSUME srv'.cli = srv.cli, srv'.frame.act = srv.frame.act,
               srv'.frame.name = srv.frame.name,
               \/ srv.at = "EMAIL" /\ srv'.at = "mail"
               \/ srv.at \notin {"EMAIL", "mail"} /\ srv'.at \notin {"EMAIL", "mail"},
               \A kind : Serves(srv.at, kind) => Serves(srv'.at, kind)
        PROVE  TurnsOK'
    <3>1. srv'.cli = c /\ \A d \in Clients \ {c} : srv.cli # d /\ srv'.cli # d
      BY <2>2, <2>5
    <3>2. Silent(c)' = Silent(c)
      BY <2>5 DEF Silent
    <3>3. InSocket(c) => InSocket(c)'
      BY <2>1, <3>2 DEF InSocket
    <3>4. WithServer(c) => WithServer(c)'
      BY <2>1, <2>5 DEF WithServer
    <3>5. ~WithClient(c)
      BY <2>2, <2>5 DEF WithClient
    <3>6. ByCode(c)'
      BY <2>1, <2>3, <2>5 DEF TurnOK, ByCode
    <3>7. TurnOK(c)'
      BY <2>1, <2>3, <3>2, <3>3, <3>4, <3>5, <3>6 DEF TurnOK
    <3> QED
      BY <1>2, <2>1, <3>1, <3>7
  <2> QED
    BY <1>7, <2>4, <2>5, Continuing
<1>8. ASSUME NEW n \in Names, chat_del_account(n) \/ Expire(n)
      PROVE  TurnsOK'
  BY <1>1, <1>8 DEF chat_del_account, Expire
<1>9. CASE UNCHANGED vars
  BY <1>1, <1>9 DEF vars
<1> QED
  BY <1>3, <1>4, <1>5, <1>6, <1>7, <1>8, <1>9 DEF Next, Server

-----------------------------------------------------------------------------
LEMMA RegisteringSame ==
  ASSUME NEW c, NEW n, out'[c] = out[c], inb'[c] = inb[c], cl'[c] = cl[c],
         srv' = srv \/ srv'.cli # c \/ srv'.at # "RVERIFY", Registering(c, n)'
  PROVE  Registering(c, n)
  BY DEF Registering

\* A frame more is no registration, unless it is the code the user is to type.
LEMMA RegisteringSent ==
  ASSUME Inv, NEW c \in Clients, NEW n, NEW f \in Frames, Send(c, f),
         NEW at, NEW m, GoTo(c, at, m), UNCHANGED <<inb, srv>>,
         at # "code_r", at = "REGISTER" => inb[c] = << >>,
         f.act = "RVERIFY" => cl[c].at = "code_r" /\ cl[c].name = f.name,
         Registering(c, n)'
  PROVE  Registering(c, n)
<1>0. SocketsOK
  BY DEF Inv
<1>1. cl'[c].at = at
  BY <1>0, Moves
<1>2. PICK l \in Nat : l = Len(out[c])
  BY <1>0, Sent
<1>3. /\ Len(out'[c]) = l + 1 /\ out'[c][l + 1] = f
      /\ \A i \in 1 .. l : out'[c][i] = out[c][i]
  BY <1>0, <1>2, Sent
<1>4. CASE srv.cli = c /\ srv.at = "RVERIFY" /\ srv.frame.name = n
  BY <1>4 DEF Registering
<1>5. ASSUME NEW i \in 1 .. l + 1, out'[c][i].act = "RVERIFY", out'[c][i].name = n
      PROVE  Registering(c, n)
  <2>1. i \in 1 .. l \/ i = l + 1
    BY <1>2
  <2>2. CASE i \in 1 .. l
    BY <1>2, <1>3, <1>5, <2>2 DEF Registering
  <2>3. CASE i = l + 1
    BY <1>3, <1>5, <2>3 DEF Registering
  <2> QED
    BY <2>1, <2>2, <2>3
<1> QED
  BY <1>1, <1>3, <1>4, <1>5 DEF Registering

LEMMA RegisteringUser ==
  ASSUME Inv, NEW c \in Clients, User(c), NEW n \in Names, Registering(c, n)'
  PROVE  Registering(c, n)
<1>0. SocketsOK /\ TurnOK(c) /\ CodesOK
  BY DEF Inv, TurnsOK
<1>1. UNCHANGED srv
  BY ClientSteps DEF serverVars
<1>2. ASSUME NEW what \in {"login", "register"}, run(c, what)
      PROVE  Registering(c, n)
  <2>1. PICK f : f = Frame(what, NoName, FALSE, NoCode, NoMail)
    OBVIOUS
  <2>2. f \in Frames /\ f.act = what
    BY <2>1 DEF Frame, Frames, Actions
  <2>3. Send(c, f) /\ GoTo(c, what, NoName) /\ UNCHANGED inb
    BY <1>2, <2>1 DEF run
  <2> QED
    BY <1>1, <2>2, <2>3, RegisteringSent
<1>3. ASSUME NEW m \in Names, NEW b \in Mailboxes, Register_u(c, m, b)
      PROVE  Registering(c, n)
  <2>1. PICK f : f = Frame("REGISTER", m, TRUE, NoCode, b)
    OBVIOUS
  <2>2. f \in Frames /\ f.act = "REGISTER"
    BY <2>1 DEF Frame, Frames, Actions
  <2>3. /\ Send(c, f) /\ GoTo(c, "REGISTER", m) /\ UNCHANGED inb
        /\ cl[c].at \notin Replies \cup {"gone"}
    BY <1>3, <2>1 DEF Register_u, Replies
  <2>4. inb[c] = << >>
    BY <1>0, <2>3 DEF TurnOK
  <2> QED
    BY <1>1, <2>2, <2>3, <2>4, RegisteringSent
<1>4. ASSUME NEW m \in Names, NEW b \in Mailboxes, LogIn(c, m, b)
      PROVE  Registering(c, n)
  <2>1. PICK act \in {"PASSWORD", "EMAIL"}, right \in BOOLEAN, at \in {"LOGIN", "code_l"},
            a \in Mailboxes \cup {NoMail} :
           GoTo(c, at, m) /\ Send(c, Frame(act, m, right, NoCode, a)) /\ UNCHANGED inb
    BY <1>4 DEF LogIn
  <2>2. PICK f : f = Frame(act, m, right, NoCode, a)
    OBVIOUS
  <2>3. f \in Frames /\ f.act = act
    BY <2>2 DEF Frame, Frames, Actions
  <2>4. Send(c, f)
    BY <2>1, <2>2
  <2> QED
    BY <1>1, <2>1, <2>3, <2>4, RegisteringSent
<1>5. CASE get_verify(c)
  <2>1. PICK act \in {"RVERIFY", "LVERIFY"}, k \in CodesInReach(c) \cup {NoCode} :
           /\ GoTo(c, act, cl[c].name) /\ Send(c, Frame(act, cl[c].name, FALSE, k, NoMail))
           /\ UNCHANGED inb /\ cl[c].at \in {"code_r", "code_l"}
           /\ act = "RVERIFY" => cl[c].at = "code_r"
    BY <1>5 DEF get_verify
  <2>2. PICK m \in Names : m = cl[c].name
    BY <1>0, <2>1 DEF SocketsOK
  <2>3. PICK f : f = Frame(act, m, FALSE, k, NoMail)
    OBVIOUS
  <2>4. k \in Nat
    BY <1>0, <2>1, CodesReached
  <2>5. k \in Codes \cup {NoCode}
    BY <2>4 DEF Codes
  <2>6. f \in Frames /\ f.act = act /\ f.name = m
    BY <2>3, <2>5 DEF Frame, Frames, Actions
  <2>7. Send(c, f) /\ GoTo(c, act, m)
    BY <2>1, <2>2, <2>3
  <2> QED
    BY <1>1, <2>1, <2>2, <2>6, <2>7, RegisteringSent
<1>6. CASE exit(c) \/ del_account(c)
  <2>1. GoTo(c, "gone", NoName) /\ UNCHANGED out
    BY <1>6 DEF exit, del_account
  <2>2. cl'[c].at = "gone"
    BY <1>0, <2>1, Moves
  <2> QED
    BY <1>1, <2>1, <2>2 DEF Registering
<1> QED
  BY <1>2, <1>3, <1>4, <1>5, <1>6 DEF User

\* A client whose question the handler has has sent nothing else.
LEMMA Alone ==
  ASSUME Inv, srv.at # "wait", ~Silent(me), NEW n, Registering(me, n)
  PROVE  srv.at = "RVERIFY" /\ req.name = n
<1>1. PICK c \in Clients : c = me
  BY Handled DEF Inv
<1>2. TurnOK(c) /\ srv.cli = c /\ ~Silent(c)
  BY <1>1 DEF Inv, TurnsOK, me
<1>3. out[c] = << >> /\ Len(out[c]) = 0 /\ 1 .. 0 = {}
  BY <1>2 DEF TurnOK
<1>4. cl[c].at = "gone" \/ WithServer(c)
  BY <1>2 DEF TurnOK, InSocket, WithClient, Silent
<1>5. inb[c] = << >> /\ cl[c].at # "code_r"
  BY <1>2, <1>4 DEF TurnOK, WithServer, Serves
<1>6. srv.at = "RVERIFY" /\ srv.frame.name = n
  BY <1>1, <1>3, <1>5 DEF Registering
<1> QED
  BY <1>6 DEF req

\* A registration comes about only where Register_R answers that the name is
\* free.
LEMMA RegisteringKept ==
  ASSUME Inv, [Next]_vars, NEW c \in Clients, NEW n \in Names, Registering(c, n)'
  PROVE  Registering(c, n) \/ (Register_R_delete /\ srv.cli = c /\ Filed(n))
<1> USE DEF redisVars, histVars
<1>0. SocketsOK /\ TurnsOK /\ ServerOK
  BY DEF Inv
<1>1. ASSUME UNCHANGED <<srv, out, inb, cl>>
      PROVE  Registering(c, n)
  BY <1>1, RegisteringSame
<1>2. ASSUME NEW d \in Clients, User(d)
      PROVE  Registering(c, n)
  <2>1. CASE d = c
    BY <1>2, <2>1, RegisteringUser
  <2>2. CASE d # c
    <3>1. UNCHANGED srv
      BY <1>2, ClientSteps DEF serverVars
    <3>2. out'[c] = out[c] /\ inb'[c] = inb[c] /\ cl'[c] = cl[c]
      <4>1. out \in [Clients -> Seq(Frames)] /\ inb \in [Clients -> Seq(Replied)]
            /\ cl \in [Clients -> [at : Places, name : Names \cup {NoName}]]
        BY <1>0 DEF SocketsOK
      <4>2. ASSUME NEW what, run(d, what)
            PROVE  out'[c] = out[c] /\ inb'[c] = inb[c] /\ cl'[c] = cl[c]
        BY <2>2, <4>1, <4>2 DEF run, Send, GoTo
      <4>3. ASSUME NEW m \in Names, NEW b \in Mailboxes, Register_u(d, m, b) \/ LogIn(d, m, b)
            PROVE  out'[c] = out[c] /\ inb'[c] = inb[c] /\ cl'[c] = cl[c]
        BY <2>2, <4>1, <4>3 DEF Register_u, LogIn, Send, GoTo
      <4>4. CASE get_verify(d) \/ exit(d) \/ del_account(d)
        BY <2>2, <4>1, <4>4 DEF get_verify, exit, del_account, Send, GoTo
      <4> QED
        BY <1>2, <4>2, <4>3, <4>4 DEF User
    <3> QED
      BY <3>1, <3>2, RegisteringSame
  <2> QED
    BY <2>1, <2>2
<1>3. ASSUME NEW d \in Clients, receive(d)
      PROVE  Registering(c, n)
  <2>1. /\ UNCHANGED <<srv, out>> /\ \A e \in Clients \ {d} : inb'[e] = inb[e]
        /\ inb'[d] = << >> /\ cl[d].at \in Replies /\ WithClient(d)
        /\ \E at, m : /\ GoTo(d, at, m) /\ at = After(cl[d].at, inb[d][1][2])
                      /\ m = IF at \in {"in", "code_r"} THEN cl[d].name ELSE NoName
    BY <1>0, <1>3, Received DEF serverVars
  <2>2. PICK at, m : /\ GoTo(d, at, m) /\ at = After(cl[d].at, inb[d][1][2])
                     /\ m = IF at \in {"in", "code_r"} THEN cl[d].name ELSE NoName
    BY <2>1
  <2>3. cl'[d].at = at /\ cl'[d].name = m /\ \A e \in Clients \ {d} : cl'[e] = cl[e]
    BY <1>0, <2>2, Moves
  <2>4. CASE d # c
    BY <2>1, <2>3, <2>4, RegisteringSame
  <2>5. CASE d = c
    <3>1. /\ at \in {"form_l", "form_r", "code_r", "in", "menu"}
          /\ at = "code_r" => cl[c].at = "REGISTER" /\ inb[c][1][2] = 1
      BY <2>1, <2>2, <2>5, Afterwards
    <3>2. CASE at = "code_r" /\ m = n
      <4>1. inb[c] # << >>
        BY <2>1, <2>5 DEF WithClient
      <4> QED
        BY <2>2, <2>5, <3>1, <3>2, <4>1 DEF Registering
    <3>3. CASE ~(at = "code_r" /\ m = n)
      BY <2>1, <2>3, <2>5, <3>1, <3>3 DEF Registering
    <3> QED
      BY <3>2, <3>3
  <2> QED
    BY <2>4, <2>5
<1>4. ASSUME NEW d \in Clients, onMessage(d)
      PROVE  Registering(c, n)
  <2>1. PICK l \in 1 .. Len(out[d]) : \E f \in Frames, rest \in Seq(Frames) :
           /\ f = out[d][l] /\ FrameOK(Made, f)
           /\ srv' = [at |-> f.act, cli |-> d, frame |-> f]
           /\ out' = [out EXCEPT ![d] = rest]
           /\ Len(rest) = Len(out[d]) - l
           /\ \A i \in 1 .. Len(rest) : rest[i] = out[d][l + i]
    BY <1>0, <1>4, Taken
  <2>2. PICK f \in Frames, rest \in Seq(Frames) :
           /\ f = out[d][l]
           /\ srv' = [at |-> f.act, cli |-> d, frame |-> f]
           /\ out' = [out EXCEPT ![d] = rest]
           /\ Len(rest) = Len(out[d]) - l
           /\ \A i \in 1 .. Len(rest) : rest[i] = out[d][l + i]
    BY <2>1
  <2>3. /\ srv'.at = f.act /\ srv'.cli = d /\ srv'.frame = f /\ out'[d] = rest
        /\ \A e \in Clients \ {d} : out'[e] = out[e]
    BY <1>0, <2>2 DEF SocketsOK
  <2>4. UNCHANGED <<inb, cl>>
    BY <1>4 DEF onMessage
  <2>5. CASE d # c
    BY <2>3, <2>4, <2>5, RegisteringSame
  <2>6. CASE d = c
    <3>1. CASE f.act = "RVERIFY" /\ f.name = n
      BY <2>2, <2>6, <3>1 DEF Registering
    <3>2. ASSUME NEW i \in 1 .. Len(rest), rest[i].act = "RVERIFY", rest[i].name = n
          PROVE  Registering(c, n)
      <4>1. l + i \in 1 .. Len(out[c])
        BY <1>0, <2>2, <2>6, LenProperties DEF SocketsOK
      <4>2. rest[i] = out[c][l + i]
        BY <2>2, <2>6
      <4> QED
        BY <3>2, <4>1, <4>2 DEF Registering
    <3> QED
      BY <2>3, <2>4, <2>6, <3>1, <3>2 DEF Registering
  <2> QED
    BY <2>5, <2>6
<1>5. CASE \/ Process \/ Register_R_delete \/ R_check \/ L_check
           \/ LogIn_exists /\ srv' = idle
           \/ LogIn_password /\ srv' = idle
  <2>1. PICK kind \in Replies, d \in 0 .. 2 :
           /\ Reply(kind, d) /\ ~Silent(me) /\ srv.at # "wait" /\ Serves(srv.at, kind)
           /\ kind = "REGISTER" => srv.at = "delete"
           /\ srv.at = "delete" => d = IF req.right THEN 1 ELSE 0
    BY <1>5, Replying
  <2>2. UNCHANGED <<out, cl>>
    BY <1>5 DEF Process, Register_R_delete, R_check, L_check, LogIn_exists, LogIn_password
  <2>3. PICK e \in Clients : e = me
    BY <1>0, <2>1, Handled
  <2>4. /\ \A a \in Clients \ {e} : inb'[a] = inb[a]
        /\ out[e] = << >>
        /\ \/ cl[e].at = "gone" /\ inb'[e] = << >>
           \/ /\ cl[e].at = kind /\ cl[e].at # "gone" /\ WithServer(e)
              /\ inb'[e] = << << kind, d >> >>
    BY <1>0, <2>1, <2>3, Answers
  <2>5. srv'.at # "RVERIFY"
    <3>1. srv' = idle \/ Then("mail")
      BY <1>5 DEF Process, Register_R_delete, R_check, L_check, Done
    <3>2. Then("mail") => srv'.at = "mail"
      BY <1>0 DEF Then, ServerOK
    <3> QED
      BY <3>1, <3>2 DEF idle
  <2>6. CASE c # e
    BY <2>2, <2>4, <2>5, <2>6, RegisteringSame
  <2>7. CASE c = e
    <3>1. Len(out'[c]) = 0 /\ 1 .. 0 = {} /\ cl[c].at # "code_r"
      BY <2>2, <2>4, <2>7 DEF Replies
    <3>2. cl[c].at = "REGISTER" /\ cl[c].name = n /\ kind = "REGISTER"
      BY <2>2, <2>4, <2>5, <2>7, <3>1 DEF Registering
    <3>3. srv.at = "delete" /\ srv.cli = c /\ srv.frame.name = n
      BY <2>1, <2>4, <2>7, <3>2 DEF WithServer
    <3>4. Register_R_delete
      BY <1>5, <3>3 DEF Process, R_check, L_check, LogIn_exists, LogIn_password, Handling
    <3> QED
      BY <3>3, <3>4 DEF Filed
  <2> QED
    BY <2>6, <2>7
<1>6. CASE \/ Register_R \/ Send_verify \/ LogIn_email
           \/ LogIn_exists /\ srv' # idle
           \/ LogIn_password /\ srv' # idle
  <2>1. UNCHANGED <<out, inb, cl>>
    BY <1>6, Continuing
  <2>2. srv' = idle \/ srv'.at # "RVERIFY"
    BY <1>6, Continuing
  <2>3. srv'.at # "RVERIFY"
    BY <2>2 DEF idle
  <2> QED
    BY <2>1, <2>3, RegisteringSame
<1>7. ASSUME NEW m \in Names, chat_del_account(m) \/ Expire(m)
      PROVE  Registering(c, n)
  BY <1>1, <1>7 DEF chat_del_account, Expire
<1>8. CASE UNCHANGED vars
  BY <1>1, <1>8 DEF vars
<1> QED
  BY <1>2, <1>3, <1>4, <1>5, <1>6, <1>7, <1>8 DEF Next, Server

\* An account comes to stand where R_check saves one; otherwise accounts stay
\* as they are, or go.
LEMMA StandsKept ==
  ASSUME Inv, [Next]_vars, NEW n \in Names, Stands(n)'
  PROVE  \/ /\ Stands(n) /\ account'[n] = account[n] /\ owner'[n] = owner[n]
            /\ n \in shared' <=> n \in shared
         \/ /\ R_check /\ n = req.name /\ Matches /\ me \in Clients
            /\ account'[n] = user_info /\ owner'[n] = me
            /\ me \in between => n \in shared'
<1> USE DEF redisVars, histVars
<1>0. TablesOK /\ ServerOK /\ account'[n] # NoInfo
  BY DEF Inv, Stands
<1> DEFINE Kept == /\ Stands(n) /\ account'[n] = account[n] /\ owner'[n] = owner[n]
                   /\ n \in shared' <=> n \in shared
<1>1. ASSUME account'[n] = account[n], owner'[n] = owner[n], shared' = shared, ~Filed(n)
      PROVE  Kept
  BY <1>0, <1>1 DEF Stands
<1>2. ASSUME UNCHANGED <<account, owner, shared, srv>>
      PROVE  Kept
  BY <1>2 DEF Stands, Filed
<1> HIDE DEF Kept
<1>3. ASSUME NEW c \in Clients, User(c) \/ receive(c)
      PROVE  Kept
  BY <1>2, <1>3, ClientSteps DEF serverVars
<1>4. ASSUME NEW c \in Clients, onMessage(c)
      PROVE  Kept
  BY <1>1, <1>4 DEF onMessage, Handling, Filed
<1>5. ASSUME Process \/ Send_verify \/ L_check \/ LogIn_exists \/ LogIn_password
             \/ LogIn_email
      PROVE  Kept
  BY <1>1, <1>5 DEF Process, Send_verify, L_check, LogIn_exists, LogIn_password,
                    LogIn_email, Handling, Filed
<1>6. CASE Register_R
  <2>1. srv.at = "REGISTER" /\ owner' = owner /\ shared' = shared
    BY <1>6 DEF Register_R, Handling
  <2>2. req.name \in Names
    BY <1>0, <2>1, Handled
  <2>3. PICK free \in BOOLEAN :
           srv' = [srv EXCEPT !.at = "delete", !.frame.right = free]
    BY <1>6 DEF Register_R
  <2>4. srv'.at = "delete" /\ srv'.frame.name = req.name
    BY <1>0, <2>3 DEF ServerOK, Frames, req
  <2>5. n # req.name
    BY <2>4 DEF Stands, Filed
  <2>6. account'[n] = account[n]
    BY <1>0, <1>6, <2>2, <2>5 DEF Register_R, TablesOK
  <2> QED
    BY <1>1, <2>1, <2>6 DEF Filed, Kept
<1>7. CASE Register_R_delete
  <2>1. srv.at = "delete"
    BY <1>7 DEF Register_R_delete, Handling
  <2>2. req.name \in Names
    BY <1>0, <2>1, Handled
  <2>3. n # req.name
    BY <1>0, <1>7, <2>2 DEF Register_R_delete, TablesOK
  <2>4. account'[n] = account[n] /\ owner'[n] = owner[n] /\ shared' = shared
    BY <1>0, <1>7, <2>2, <2>3 DEF Register_R_delete, TablesOK
  <2>5. ~Filed(n)
    BY <2>3 DEF Filed, req
  <2> QED
    BY <1>1, <2>4, <2>5 DEF Kept
<1>8. CASE R_check
  <2>1. srv.at = "RVERIFY"
    BY <1>8 DEF R_check, Handling
  <2>2. req.name \in Names /\ me \in Clients /\ ~Filed(n)
    BY <1>0, <2>1, Handled DEF Filed
  <2>3. ASSUME ~(Matches /\ account[req.name] = NoInfo)
        PROVE  Kept
    BY <1>1, <1>8, <2>2, <2>3 DEF R_check
  <2>4. CASE Matches /\ account[req.name] = NoInfo
    <3>1. /\ account' = [account EXCEPT ![req.name] = user_info]
          /\ owner' = [owner EXCEPT ![req.name] = me]
          /\ shared' = IF me \in between THEN shared \cup {req.name}
                       ELSE shared \ {req.name}
      BY <1>8, <2>4 DEF R_check
    <3>2. CASE n = req.name
      <4>1. account'[n] = user_info /\ owner'[n] = me /\ (me \in between => n \in shared')
        BY <1>0, <2>2, <3>1, <3>2 DEF TablesOK
      <4> QED
        BY <1>8, <2>2, <2>4, <3>2, <4>1
    <3>3. CASE n # req.name
      <4>1. account'[n] = account[n] /\ owner'[n] = owner[n] /\ (n \in shared' <=> n \in shared)
        BY <1>0, <2>2, <3>1, <3>3 DEF TablesOK
      <4> QED
        BY <1>0, <2>2, <4>1 DEF Stands
    <3> QED
      BY <3>2, <3>3
  <2> QED
    BY <2>3, <2>4 DEF Kept
<1>9. ASSUME NEW m \in Names, chat_del_account(m)
      PROVE  Kept
  <2>1. n # m
    BY <1>0, <1>9 DEF chat_del_account, TablesOK
  <2>2. account'[n] = account[n] /\ owner'[n] = owner[n] /\ UNCHANGED <<shared, srv>>
    BY <1>0, <1>9, <2>1 DEF chat_del_account, TablesOK
  <2> QED
    BY <2>2 DEF Kept, Stands, Filed
<1>10. ASSUME NEW m \in Names, Expire(m)
       PROVE  Kept
  BY <1>2, <1>10 DEF Expire
<1>11. ASSUME UNCHANGED vars
       PROVE  Kept
  BY <1>2, <1>11 DEF vars
<1> QED
  BY <1>3, <1>4, <1>5, <1>6, <1>7, <1>8, <1>9, <1>10, <1>11 DEF Next, Server, Kept

\* The data that the server holds are replaced by the next REGISTER only; of a
\* client that has sent it nothing else is on its way.
LEMMA InfoKept ==
  ASSUME Inv, [Next]_vars
  PROVE  /\ UNCHANGED <<user_info, between>> \/ Register_R
         /\ Register_R =>
            /\ user_info' = << me, req.name >>
            /\ \A c \in Clients \ between', n \in Names : c = me /\ ~Registering(c, n)'
<1> USE DEF redisVars, histVars
<1>1. ASSUME Register_R
      PROVE  /\ user_info' = << me, req.name >>
             /\ \A c \in Clients \ between', n \in Names : c = me /\ ~Registering(c, n)'
  <2>1. /\ srv.at = "REGISTER" /\ user_info' = << me, req.name >>
        /\ between' = (between \cup (Clients \ {me})) \ {me}
    BY <1>1 DEF Register_R, Handling, assign_info
  <2>2. me \in Clients /\ ~Silent(me)
    BY <2>1, Handled DEF Inv, me, Silent
  <2>3. ASSUME NEW c \in Clients \ between', NEW n \in Names
        PROVE  c = me /\ ~Registering(c, n)'
    <3>1. c = me
      BY <2>1, <2>3
    <3>2. Registering(c, n)' => Registering(c, n)
      BY <1>1, <2>1, RegisteringKept DEF Register_R_delete, Handling
    <3>3. ~Registering(me, n)
      BY <2>1, <2>2, Alone
    <3> QED
      BY <3>1, <3>2, <3>3
  <2> QED
    BY <2>1, <2>3
<1>2. ASSUME NEW c \in Clients, User(c) \/ receive(c) \/ onMessage(c)
      PROVE  UNCHANGED <<user_info, between>>
  BY <1>2, ClientSteps DEF onMessage, serverVars
<1>3. ASSUME NEW n \in Names, chat_del_account(n) \/ Expire(n)
      PROVE  UNCHANGED <<user_info, between>>
  BY <1>3 DEF chat_del_account, Expire
<1>4. ASSUME Process \/ Register_R_delete \/ Send_verify \/ R_check \/ L_check
             \/ LogIn_exists \/ LogIn_password \/ LogIn_email
      PROVE  UNCHANGED <<user_info, between>>
  BY <1>4 DEF Process, Register_R_delete, Send_verify, R_check, L_check,
              LogIn_exists, LogIn_password, LogIn_email
<1>5. ASSUME UNCHANGED vars
      PROVE  UNCHANGED <<user_info, between>>
  BY <1>5 DEF vars
<1>6. ASSUME ~Register_R
      PROVE  UNCHANGED <<user_info, between>>
  BY <1>2, <1>3, <1>4, <1>5, <1>6 DEF Next, Server
<1>7. UNCHANGED <<user_info, between>> \/ Register_R
  BY <1>6
<1> QED
  BY <1>1, <1>7

LEMMA SavedStep == Inv /\ [Next]_vars => SavedOK'
<1> SUFFICES ASSUME Inv, [Next]_vars, NEW c \in Clients, c \notin between',
                    NEW n \in Names, Registering(c, n)', Stands(n)'
             PROVE  account'[n] = << c, n >>
  BY DEF SavedOK
<1>0. TablesOK /\ SavedOK /\ HeldOK
  BY DEF Inv
<1>1. c \notin between
  BY InfoKept
<1>2. CASE Register_R_delete /\ srv.cli = c /\ Filed(n)
  <2>1. account'[n] = NoInfo
    BY <1>0, <1>2 DEF Register_R_delete, Filed, req, TablesOK
  <2> QED
    BY <2>1 DEF Stands
<1>3. CASE Registering(c, n)
  <2>1. Stands(n) => account[n] = << c, n >>
    BY <1>0, <1>1, <1>3 DEF SavedOK
  <2>2. user_info = << c, n >>
    BY <1>0, <1>1, <1>3 DEF HeldOK
  <2> QED
    BY <2>1, <2>2, StandsKept
<1> QED
  BY <1>2, <1>3, RegisteringKept

LEMMA HeldStep == Inv /\ [Next]_vars => HeldOK'
<1> SUFFICES ASSUME Inv, [Next]_vars PROVE HeldOK'
  OBVIOUS
<1> USE DEF redisVars, histVars
<1>0. TablesOK /\ ServerOK /\ TurnsOK /\ HeldOK
  BY DEF Inv
<1>1. CASE Register_R
  <2>1. srv.at = "REGISTER"
    BY <1>1 DEF Register_R, Handling
  <2>2. /\ user_info' = << me, req.name >>
        /\ \A c \in Clients \ between', n \in Names : c = me /\ ~Registering(c, n)'
    BY <1>1, InfoKept
  <2>3. PICK free \in BOOLEAN :
           srv' = [srv EXCEPT !.at = "delete", !.frame.right = free]
    BY <1>1 DEF Register_R
  <2>4. srv'.frame.name = req.name
    BY <1>0, <2>3 DEF ServerOK, Frames, req
  <2>5. ASSUME NEW c \in Clients, c \notin between', NEW n \in Names,
               Registering(c, n)' \/ (srv'.cli = c /\ Filed(n)')
        PROVE  user_info' = << c, n >>
    <3>1. c = me /\ ~Registering(c, n)'
      BY <2>2, <2>5
    <3>2. n = req.name
      BY <2>4, <2>5, <3>1 DEF Filed
    <3> QED
      BY <2>2, <3>1, <3>2
  <2> QED
    BY <2>5 DEF HeldOK
<1>2. CASE ~Register_R
  <2>1. UNCHANGED <<user_info, between>>
    BY <1>2, InfoKept
  <2>2. ASSUME NEW c \in Clients, NEW n \in Names, srv'.cli = c, Filed(n)'
        PROVE  srv.cli = c /\ Filed(n)
    <3>1. srv' = srv => srv.cli = c /\ Filed(n)
      BY <2>2 DEF Filed
    <3>2. srv'.at = "delete" /\ srv' # idle
      BY <2>2 DEF Filed, idle
    <3>3. ASSUME NEW d \in Clients, User(d) \/ receive(d)
          PROVE  srv' = srv
      BY <3>3, ClientSteps DEF serverVars
    <3>4. ASSUME NEW d \in Clients, onMessage(d)
          PROVE  srv'.at # "delete"
      <4>1. PICK f \in Frames : srv' = [at |-> f.act, cli |-> d, frame |-> f]
        BY <3>4, Taken DEF Inv
      <4> QED
        BY <4>1 DEF Frames, Actions
    <3>5. ASSUME NEW m \in Names, chat_del_account(m) \/ Expire(m)
          PROVE  srv' = srv
      BY <3>5 DEF chat_del_account, Expire
    <3>6. CASE Process \/ Register_R_delete \/ Send_verify \/ R_check \/ L_check
               \/ LogIn_exists \/ LogIn_password \/ LogIn_email
      <4>1. srv' = idle \/ Then("mail") \/ Then("hget") \/ srv' = srv
        BY <3>6 DEF Process, Register_R_delete, Send_verify, R_check, L_check,
                    LogIn_exists, LogIn_password, LogIn_email, Done
      <4>2. (Then("mail") => srv'.at = "mail") /\ (Then("hget") => srv'.at = "hget")
        BY <1>0 DEF Then, ServerOK
      <4> QED
        BY <3>1, <3>2, <4>1, <4>2
    <3>7. CASE UNCHANGED vars
      BY <3>1, <3>7 DEF vars
    <3> QED
      BY <1>2, <3>1, <3>2, <3>3, <3>4, <3>5, <3>6, <3>7 DEF Next, Server
  <2>3. ASSUME NEW c \in Clients \ between, NEW n \in Names,
               Registering(c, n)' \/ (srv'.cli = c /\ Filed(n)')
        PROVE  user_info' = << c, n >>
    BY <1>0, <2>1, <2>2, <2>3, RegisteringKept DEF HeldOK
  <2> QED
    BY <2>1, <2>3 DEF HeldOK
<1> QED
  BY <1>1, <1>2

LEMMA OwnersStep == Inv /\ [Next]_vars => OwnersOK'
<1> SUFFICES ASSUME Inv, [Next]_vars, NEW n \in Names, Stands(n)'
             PROVE  /\ owner'[n] # NoClient
                    /\ n \notin shared' => account'[n] = << owner'[n], n >>
  BY DEF OwnersOK
<1>0. HeldOK /\ OwnersOK
  BY DEF Inv
<1>1. CASE /\ Stands(n) /\ account'[n] = account[n] /\ owner'[n] = owner[n]
           /\ n \in shared' <=> n \in shared
  BY <1>0, <1>1 DEF OwnersOK
<1>2. CASE /\ R_check /\ n = req.name /\ Matches /\ me \in Clients
           /\ account'[n] = user_info /\ owner'[n] = me
           /\ me \in between => n \in shared'
  <2>1. PICK c \in Clients : c = me
    BY <1>2
  <2>2. Registering(c, n)
    BY <1>2, <2>1 DEF R_check, Handling, Registering, me, req
  <2>3. c \notin between => user_info = << c, n >>
    BY <1>0, <2>2 DEF HeldOK
  <2> QED
    BY <1>2, <2>1, <2>3, AuthConstants
<1> QED
  BY <1>1, <1>2, StandsKept

-----------------------------------------------------------------------------
\* The inductive invariant that the results below follow from: what the
\* sockets, the server and Redis can hold at one time (User_auth_s.cc:180-276).
THEOREM InvCorrect == Spec => []Inv
<1>1. Inv /\ [Next]_vars => Inv'
  <2> SUFFICES ASSUME Inv, [Next]_vars PROVE Inv'
    OBVIOUS
  <2> QED
    BY TablesStep, CodesStep, ServerStep, SocketsStep, TurnsStep, SavedStep, HeldStep,
       OwnersStep DEF Inv
<1> QED
  BY <1>1, InvInit, PTL DEF Spec

\* Types: among them, that the server never works for a frame without a name
\* or with a code that was never made (User_auth_s.cc:193-209).
THEOREM TypeCorrect == Spec => []TypeOK
<1>1. Inv => TypeOK
  <2> SUFFICES ASSUME Inv PROVE TypeOK
    OBVIOUS
  <2>0. TablesOK /\ CodesOK /\ ServerOK /\ SocketsOK
    BY DEF Inv
  <2>1. PICK l \in Nat : l = Len(sent)
    BY <2>0, LenProperties DEF CodesOK
  <2>2. DOMAIN sent = 1 .. l /\ \A k \in DOMAIN sent : sent[k] \in Names
    BY <2>0, <2>1, LenProperties, ElementOfSeq DEF CodesOK
  <2>3. code \in [Names -> Codes \cup {NoCode}]
    <3>1. \A k \in Nat : k \in Codes \cup {NoCode}
      BY DEF Codes
    <3> QED
      BY <2>0, <3>1 DEF CodesOK
  <2>4. ASSUME NEW c \in Clients
        PROVE  /\ \A i \in DOMAIN out[c] : out[c][i] \in Frames
               /\ \A i \in DOMAIN inb[c] : inb[c][i] \in Replies \X (0 .. 2)
    <3>1. out[c] \in Seq(Frames) /\ inb[c] \in Seq(Replied)
      BY <2>0 DEF SocketsOK
    <3>2. DOMAIN out[c] = 1 .. Len(out[c]) /\ DOMAIN inb[c] = 1 .. Len(inb[c])
      BY <3>1, LenProperties
    <3> QED
      BY <3>1, <3>2, ElementOfSeq DEF Replied
  <2>5. \A c \in Clients : forms[c] \in 0 .. MaxForms[c]
    BY <2>0, AuthConstants DEF TablesOK
  <2> QED
    BY <2>0, <2>1, <2>2, <2>3, <2>4, <2>5
    DEF TypeOK, TablesOK, CodesOK, ServerOK, SocketsOK, Handlers, Places
<1> QED
  BY <1>1, InvCorrect, PTL

\* Between two requests every account is one that some client confirmed: what
\* Register_R files it takes away before the next request, whatever the chat
\* server deletes in the meantime (User_auth_s.cc:262-276).
THEOREM ConfirmedCorrect == Spec => []AccountsAreConfirmed
<1>1. Inv => AccountsAreConfirmed
  BY DEF Inv, OwnersOK, Stands, Filed, AccountsAreConfirmed
<1> QED
  BY <1>1, InvCorrect, PTL

\* "Registration successful" tells the truth to a client since whose REGISTER
\* nobody else has sent one: the account holds what that client has typed, also
\* when saveUser, which R_check does not ask, has found one there
\* (User_auth_s.cc:141-144).
THEOREM SavedCorrect == Spec => SuccessIsSaved
<1>1. ASSUME Inv, [Next]_vars, NEW c \in Clients \ between, Told(c)
      PROVE  account'[cl[c].name] = << c, cl[c].name >>
  <2> USE DEF redisVars, histVars
  <2>0. TablesOK /\ ServerOK /\ SocketsOK /\ TurnsOK /\ SavedOK /\ HeldOK
    BY <1>1 DEF Inv
  <2>1. PICK s \in Seq(Replied) : s = inb[c]
    BY <2>0 DEF SocketsOK
  <2>2. << "RVERIFY", 1 >> \in Replied
    BY DEF Replied, Replies
  <2>3. inb'[c] # inb[c] /\ inb'[c] # << >>
    BY <1>1, <2>1, <2>2, LenProperties, AppendProperties DEF Told
  <2>4. ASSUME NEW d \in Clients, User(d) \/ receive(d) \/ onMessage(d)
        PROVE  FALSE
    <3>1. inb' = inb \/ inb' = [inb EXCEPT ![d] = << >>] \/ receive(d)
      <4>1. CASE \/ \E what \in {"login", "register"} : run(d, what)
                 \/ \E n \in Names, b \in Mailboxes : Register_u(d, n, b) \/ LogIn(d, n, b)
                 \/ get_verify(d)
        BY <4>1 DEF run, Register_u, LogIn, get_verify
      <4>2. CASE exit(d) \/ del_account(d) \/ onMessage(d)
        BY <4>2 DEF exit, del_account, onMessage
      <4> QED
        BY <2>4, <4>1, <4>2 DEF User
    <3>2. receive(d) => inb'[d] = << >> /\ \A e \in Clients \ {d} : inb'[e] = inb[e]
      BY <2>0, Received
    <3> QED
      BY <2>0, <2>3, <3>1, <3>2 DEF SocketsOK
  <2>5. ASSUME \/ Process \/ Register_R_delete \/ L_check
               \/ LogIn_exists /\ srv' = idle
               \/ LogIn_password /\ srv' = idle
        PROVE  FALSE
    <3>1. PICK kind \in Replies, d \in 0 .. 2 :
             /\ Reply(kind, d) /\ ~Silent(me) /\ srv.at # "wait" /\ Serves(srv.at, kind)
      BY <1>1, <2>5, Replying
    <3>2. PICK e \in Clients : e = me
      BY <2>0, <3>1, Handled
    <3>3. /\ \A a \in Clients \ {e} : inb'[a] = inb[a]
          /\ inb'[e] = << >> \/ (WithServer(e) /\ inb'[e] = << << kind, d >> >>)
      BY <2>0, <3>1, <3>2, Answers
    <3>4. c = e /\ inb[c] = << >> /\ inb'[c] = << << kind, d >> >>
      BY <2>3, <3>3 DEF WithServer
    <3>5. kind = "RVERIFY"
      BY <1>1, <3>4 DEF Told
    <3>6. srv.at = "RVERIFY"
      BY <3>1, <3>5 DEF Serves
    <3> QED
      BY <2>5, <3>6 DEF Process, Register_R_delete, L_check, LogIn_exists, LogIn_password,
                        Handling
  <2>6. CASE R_check
    <3>1. /\ srv.at = "RVERIFY" /\ Reply("RVERIFY", IF Matches THEN 1 ELSE 0)
          /\ ~Silent(me) /\ Serves(srv.at, "RVERIFY")
      BY <2>6 DEF R_check, Handling, Silent, me, Serves
    <3>2. PICK d \in 0 .. 2 : d = IF Matches THEN 1 ELSE 0
      OBVIOUS
    <3>3. PICK e \in Clients : e = me /\ srv.cli = e
      BY <2>0, <3>1, Handled DEF me
    <3>4. /\ \A a \in Clients \ {e} : inb'[a] = inb[a]
          /\ inb'[e] = << >> \/ (WithServer(e) /\ inb'[e] = << << "RVERIFY", d >> >>)
      <4>1. "RVERIFY" \in Replies /\ Reply("RVERIFY", d)
        BY <3>1, <3>2 DEF Replies
      <4> QED
        BY <2>0, <3>1, <3>3, <4>1, Answers
    <3>5. c = e /\ inb[c] = << >> /\ inb'[c] = << << "RVERIFY", d >> >> /\ WithServer(c)
      BY <2>3, <3>4 DEF WithServer
    <3>6. d = 1
      BY <1>1, <3>5 DEF Told
    <3>7. Matches
      BY <3>2, <3>6
    <3>8. PICK n \in Names : n = req.name /\ n = cl[c].name
      BY <2>0, <3>1, <3>5, Handled DEF WithServer, req
    <3>9. Registering(c, n) /\ ~Filed(n)
      BY <3>1, <3>3, <3>5, <3>8 DEF Registering, Filed, req
    <3>10. CASE account[n] = NoInfo
      <4>1. account'[n] = user_info
        BY <2>0, <2>6, <3>7, <3>8, <3>10 DEF R_check, TablesOK
      <4> QED
        BY <1>1, <2>0, <3>8, <3>9, <4>1 DEF HeldOK
    <3>11. CASE account[n] # NoInfo
      <4>1. account' = account
        BY <2>6, <3>8, <3>11 DEF R_check
      <4> QED
        BY <1>1, <2>0, <3>8, <3>9, <3>11, <4>1 DEF SavedOK, Stands
    <3> QED
      BY <3>10, <3>11
  <2>7. ASSUME \/ Register_R \/ Send_verify \/ LogIn_email
               \/ LogIn_exists /\ srv' # idle
               \/ LogIn_password /\ srv' # idle
        PROVE  FALSE
    BY <1>1, <2>3, <2>7, Continuing
  <2>8. ASSUME NEW n \in Names, chat_del_account(n) \/ Expire(n)
        PROVE  FALSE
    BY <2>3, <2>8 DEF chat_del_account, Expire
  <2>9. ~UNCHANGED vars
    BY <2>3 DEF vars
  <2> QED
    BY <1>1, <2>4, <2>5, <2>6, <2>7, <2>8, <2>9 DEF Next, Server
<1>2. Inv /\ [Next]_vars
        => [\A c \in Clients \ between :
              Told(c) => account'[cl[c].name] = << c, cl[c].name >>]_vars
  BY <1>1
<1> QED
  BY <1>2, InvCorrect, PTL DEF Spec, SuccessIsSaved

\* An account whose owner confirmed it with nobody else's REGISTER since its own
\* holds the owner's data; the other accounts are excepted, since there is one
\* place for the data of all (User_auth_s.cc:143, 254).
THEOREM OwnersCorrect == Spec => []OwnersData
<1>1. Inv => OwnersData
  BY DEF Inv, OwnersOK, Stands, Filed, OwnersData
<1> QED
  BY <1>1, InvCorrect, PTL

\* A code is refused only when it has expired or been replaced by a later one
\* for the same name (User_auth_s.cc:235, RedisClient.cc:52-57).
THEOREM RefusedCorrect == Spec => []RefusedCodeWasReplaced
<1>1. Inv => RefusedCodeWasReplaced
  <2> SUFFICES ASSUME Inv, NEW k \in refused
               PROVE  k \in expired \/ \E j \in DOMAIN sent : j > k /\ sent[j] = sent[k]
    BY DEF RefusedCodeWasReplaced
  <2>1. Gone(k) /\ sent \in Seq(Names)
    BY DEF Inv, CodesOK
  <2>2. DOMAIN sent = 1 .. Len(sent)
    BY <2>1, LenProperties
  <2> QED
    BY <2>1, <2>2 DEF Gone
<1> QED
  BY <1>1, InvCorrect, PTL

\* What a client finds in its socket answers what it asked last, although
\* frames are handled together and requests for codes have no answer
\* (User_auth_c.cc:88-117).
THEOREM AnswersCorrect == Spec => []AnswersMatch
<1>1. Inv => AnswersMatch
  <2> SUFFICES ASSUME Inv, NEW c \in Clients, inb[c] # << >>
               PROVE  Len(inb[c]) = 1 /\ inb[c][1][1] = cl[c].at
    BY DEF AnswersMatch
  <2>1. TurnOK(c)
    BY DEF Inv, TurnsOK
  <2>2. WithClient(c)
    BY <2>1 DEF TurnOK, InSocket, WithServer
  <2> QED
    BY <2>2 DEF WithClient
<1> QED
  BY <1>1, InvCorrect, PTL
=============================================================================
