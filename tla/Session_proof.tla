---------------------------- MODULE Session_proof ---------------------------
(***************************************************************************)
(* Proofs about Session, for every set of rows, passwords and requests and *)
(* all bounds: the tab is one of the clients that Accounts describes, so   *)
(* that every theorem about Accounts holds of the table behind it.         *)
(*                                                                         *)
(* A request carries the token that was stored when it left.  Nothing but  *)
(* answers of the server, and other tabs, put a token there; and a row     *)
(* that was born stays so, whatever becomes of it while the request is on  *)
(* its way.                                                                *)
(*                                                                         *)
(* And about the tab itself: whose data it shows, and which dialogs an     *)
(* answer can close.                                                       *)
(***************************************************************************)
EXTENDS Session, Accounts_proof

SessionInv == /\ TypeOK
              /\ stored \in Tokens
              /\ \A c \in Calls : calls[c].a.session \in Tokens
              /\ AnyClientSendsThis

-----------------------------------------------------------------------------
(* Requests and answers.                                                   *)

LEMMA BlankedTyped ==
  /\ Blanked \in Request /\ Blanked.token = Nobody
  /\ NoCall \in Call /\ Refused \in Answers /\ Refused.session = Nobody
  /\ Plain \subseteq Answers /\ \A a \in Plain : a.session = Nobody
<1>1. Blanked \in Request /\ Blanked.token = Nobody
  BY RootAssumption, AddrAssumption, TypingAssumption, PwAssumption
  DEF Blanked, Request, Mail, RootMail, Roles
<1>2. /\ Refused \in Answers /\ Refused.session = Nobody
      /\ Plain \subseteq Answers /\ \A a \in Plain : a.session = Nobody
  BY DEF Answers, Plain, Refused, Done, Working
<1> QED BY <1>1, <1>2 DEF NoCall, Call

LEMMA AnswerTyped ==
  ASSUME NEW a \in Answers PROVE a.session \in Session \cup {Nobody}
<1>1. CASE a \in Plain
  BY <1>1, BlankedTyped
<1>2. CASE \E t \in Session : a = SignedIn(t.id, t.role)
  BY <1>2 DEF SignedIn, Session
<1> QED BY <1>1, <1>2 DEF Answers

(* The requests of a client have no token yet, and their kinds differ.     *)
LEMMA ClientRequests ==
  /\ \A q \in SignIns : /\ q \in Request /\ q.token = Nobody
                        /\ q.kind \in {"login", "register"}
  /\ \A q \in Requests : /\ q \in Request /\ q.token = Nobody
                         /\ q.kind \notin {"login", "register"}
<1>0. Blanked \in Request /\ Blanked.token = Nobody
  BY BlankedTyped
<1>1. ASSUME NEW q \in SignIns
      PROVE  q \in Request /\ q.token = Nobody /\ q.kind \in {"login", "register"}
  <2>1. PICK k \in {"login", "register"}, m \in Mail, w \in Passwords :
             q = credentials(k, m, w)
    BY DEF SignIns
  <2> QED BY <1>0, <2>1 DEF credentials, Request
<1>2. ASSUME NEW q \in Requests
      PROVE  q \in Request /\ q.token = Nobody /\ q.kind \notin {"login", "register"}
  <2>1. CASE \E o \in Passwords, w \in Passwords : q = changePassword(o, w)
    BY <1>0, <2>1 DEF changePassword, Request
  <2>2. CASE \E m \in Mail, w \in Passwords, r \in Roles : q = createUser(m, w, r)
    BY <1>0, <2>2 DEF createUser, Request
  <2>3. CASE \E i \in Ids, w \in Passwords \cup {Blank}, r \in Roles : q = updateUser(i, w, r)
    BY <1>0, <2>3 DEF updateUser, Request
  <2>4. CASE \E i \in Ids : q = deleteUser(i)
    BY <1>0, <2>4 DEF deleteUser, Request
  <2> QED BY <2>1, <2>2, <2>3, <2>4 DEF Requests
<1> QED BY <1>1, <1>2

(* The interceptor adds the token, and nothing else.                       *)
LEMMA TokenOnly ==
  ASSUME NEW q \in Request, NEW t \in Session \cup {Nobody}
  PROVE  /\ [q EXCEPT !.token = t] \in Request
         /\ [q EXCEPT !.token = t].token = t
         /\ [q EXCEPT !.token = t].kind = q.kind
         /\ [[q EXCEPT !.token = Nobody] EXCEPT !.token = q.token] = q
         /\ q.token = Nobody => [[q EXCEPT !.token = t] EXCEPT !.token = Nobody] = q
  BY DEF Request

-----------------------------------------------------------------------------
(* What a handler answers, and that no row is unborn again.                *)

LEMMA PlainUnlessSignIn ==
  ASSUME NEW q, NEW a, Serve(q, a), q.kind \notin {"login", "register"}
  PROVE  a \in Plain
  BY DEF Serve, Register, Login, CheckPassword, AdminCreateUser, AdminUpdateUser, WriteUser,
         AdminDeleteUser, Plain

LEMMA FinishIsPlain ==
  ASSUME NEW s, NEW a, Finish(s, a)
  PROVE  a \in Plain
  BY DEF Finish, WritePassword, WriteDemotion, WriteUser, Plain

LEMMA SignInIgnoresToken ==
  ASSUME NEW q \in Request, NEW a, q.kind \in {"login", "register"}, Serve(q, a)
  PROVE  Serve([q EXCEPT !.token = Nobody], a)
<1> DEFINE p == [q EXCEPT !.token = Nobody]
<1>1. p.kind = q.kind /\ p.mail = q.mail /\ p.new = q.new
  BY DEF Request
<1> HIDE DEF p
<1>2. Serve(p, a)
  BY <1>1 DEF Serve, Register, Login, CheckPassword, AdminCreateUser, AdminUpdateUser,
              AdminDeleteUser
<1> QED BY <1>2 DEF p

LEMMA ServeAnswers ==
  ASSUME AccountsTypeOK, NEW q \in Request, NEW a \in Answers, Serve(q, a)
  PROVE  a.session = Nobody \/ users'[a.session.id].state # "unborn"
<1>1. CASE q.kind \notin {"login", "register"}
  BY <1>1, PlainUnlessSignIn, BlankedTyped
<1>2. CASE Register(q, a)
  <2>1. CASE a = Refused
    BY <2>1, BlankedTyped
  <2>2. CASE \E i \in Unborn : users'[i].state = "live" /\ a = SignedIn(i, "user")
    <3>1. PICK i \in Unborn : users'[i].state = "live" /\ a = SignedIn(i, "user")
      BY <2>2
    <3>2. a.session.id = i
      BY <3>1 DEF SignedIn
    <3> QED BY <3>1, <3>2
  <2> QED BY <1>2, <2>1, <2>2 DEF Register
<1>3. CASE Login(q, a)
  BY <1>3, BlankedTyped DEF Login, SignedIn, Plain, Live
<1> QED BY <1>1, <1>2, <1>3
        DEF Serve, CheckPassword, AdminCreateUser, AdminUpdateUser, AdminDeleteUser

Born(i) == users[i].state # "unborn"

LEMMA InsertBears ==
  ASSUME AccountsTypeOK, NEW row, row.state = "live", Insert(row)
  PROVE  \A i \in Ids : Born(i) => Born(i)'
  BY DEF AccountsTypeOK, Insert, Unborn, Born

LEMMA BornStay ==
  ASSUME AccountsTypeOK, [AccountsNext]_accountVars
  PROVE  \A i \in Ids : Born(i) => Born(i)'
<1>0. users \in [Ids -> UserRow] /\ \A i \in Ids : users[i] \in UserRow
  BY DEF AccountsTypeOK
<1>1. CASE UNCHANGED users
  BY <1>1 DEF Born
<1>2. CASE \E mail, role, pw, byAdmin : Insert(Row(mail, role, pw, byAdmin))
  BY <1>2, InsertBears DEF Row
<1>3. ASSUME NEW i, NEW role, NEW new, NEW a, WriteUser(i, role, new, a)
      PROVE  \A j \in Ids : Born(j) => Born(j)'
  <2>1. CASE i \in Live /\ users' = [users EXCEPT ![i].role = role,
                                                  ![i].pw = IF new = Blank THEN @ ELSE new]
    BY <1>0, <2>1 DEF Born, Live, UserRow
  <2> QED BY <1>1, <1>3, <2>1 DEF WriteUser
<1>4. ASSUME NEW s, NEW a, Finish(s, a) PROVE \A i \in Ids : Born(i) => Born(i)'
  <2>1. CASE WritePassword(s, a)
    BY <1>0, <2>1 DEF WritePassword, Born, UserRow
  <2>2. CASE WriteDemotion(s, a)
    BY <1>3, <2>2 DEF WriteDemotion
  <2> QED BY <1>4, <2>1, <2>2 DEF Finish
<1>5. ASSUME NEW q, NEW a, Serve(q, a) PROVE \A i \in Ids : Born(i) => Born(i)'
  <2>1. CASE Register(q, a)
    BY <1>1, <1>2, <2>1 DEF Register
  <2>2. CASE Login(q, a) \/ CheckPassword(q, a)
    BY <1>1, <2>2 DEF Login, CheckPassword
  <2>3. CASE AdminCreateUser(q, a)
    BY <1>1, <1>2, <2>3 DEF AdminCreateUser
  <2>4. CASE AdminUpdateUser(q, a)
    BY <1>1, <1>3, <2>4 DEF AdminUpdateUser
  <2>5. CASE AdminDeleteUser(q, a)
    BY <1>0, <1>1, <2>5 DEF AdminDeleteUser, NoRow, Row, Born
  <2> QED BY <1>5, <2>1, <2>2, <2>3, <2>4, <2>5 DEF Serve
<1>6. CASE SeedWrite
  <2>1. CASE users' = [i \in Ids |-> IF i \in Live /\ users[i].mail = RootMail
                                     THEN [users[i] EXCEPT !.role = "admin"] ELSE users[i]]
    BY <1>0, <2>1 DEF Born, UserRow
  <2> QED BY <1>1, <1>2, <1>6, <2>1 DEF SeedWrite
<1>7. CASE SeedCount \/ \E S \in SUBSET Slots : Crash(S)
  BY <1>1, <1>7 DEF SeedCount, Crash
<1> QED BY <1>1, <1>4, <1>5, <1>6, <1>7 DEF AccountsNext, accountVars

LEMMA TokensStay ==
  ASSUME AccountsTypeOK, [AccountsNext]_accountVars
  PROVE  Tokens \subseteq Tokens'
<1>1. \A t \in Session : t.id \in Ids
  BY DEF Session
<1> QED BY <1>1, BornStay DEF Tokens, Born

-----------------------------------------------------------------------------
(* How the requests of the tab may change.                                 *)

(* The four things that become of a request.                               *)
CallKept(c) ==
    \/ calls'[c] = NoCall
    \/ /\ calls[c].phase # "sent" => calls'[c].phase # "sent"
       /\ calls'[c] \in Call /\ calls'[c].q = calls[c].q
       /\ calls'[c].a.session \in {Nobody, calls[c].a.session}
    \/ /\ calls'[c].phase # "sent" /\ calls'[c] \in Call
       /\ calls'[c].a.session \in Tokens'
    \/ /\ calls'[c] \in Call /\ calls'[c].a.session = Nobody
       /\ calls'[c].q.token \in Tokens'
       /\ [calls'[c].q EXCEPT !.token = Nobody] \in SignIns \cup Requests

LEMMA CallsKeep ==
  ASSUME SessionInv, Tokens \subseteq Tokens', calls' \in [Calls -> Call],
         \A c \in Calls : CallKept(c)
  PROVE  (\A c \in Calls : calls'[c].a.session \in Tokens') /\ AnyClientSendsThis'
<1> SUFFICES ASSUME NEW c \in Calls
             PROVE  /\ calls'[c].a.session \in Tokens'
                    /\ calls'[c].phase = "sent" =>
                         /\ calls'[c].q.token \in Tokens'
                         /\ [calls'[c].q EXCEPT !.token = Nobody] \in SignIns \cup Requests
  BY DEF AnyClientSendsThis
<1>1. /\ calls[c].a.session \in Tokens /\ Nobody \in Tokens'
      /\ calls[c].phase = "sent" =>
           /\ calls[c].q.token \in Tokens
           /\ [calls[c].q EXCEPT !.token = Nobody] \in SignIns \cup Requests
  BY DEF SessionInv, AnyClientSendsThis, Tokens
<1>2. CASE calls'[c] = NoCall
  BY <1>1, <1>2, BlankedTyped DEF NoCall
<1>3. CASE calls'[c] # NoCall
  BY <1>1, <1>3 DEF CallKept
<1> QED BY <1>2, <1>3

(* The other variables of the tab.                                         *)
TabOK == /\ stored \in Tokens
         /\ auth \in Session \cup {Nobody}
         /\ page \in Pages /\ modal \in Modal
         /\ busy \in BOOLEAN /\ trail \in BOOLEAN /\ mixed \in BOOLEAN
         /\ list \subseteq Ids /\ owners \subseteq Ids

LEMMA InvFromParts ==
  ASSUME SessionInv, AccountsTypeOK', Tokens \subseteq Tokens', TabOK',
         calls' \in [Calls -> Call], events' \in 0..MaxEvents,
         \A c \in Calls : CallKept(c)
  PROVE  SessionInv'
<1>1. (\A c \in Calls : calls'[c].a.session \in Tokens') /\ AnyClientSendsThis'
  BY CallsKeep
<1>2. stored' \in Session \cup {Nobody}
  BY DEF TabOK, Tokens
<1>3. {busy', trail', mixed'} \subseteq BOOLEAN
  BY DEF TabOK
<1> QED BY <1>1, <1>2, <1>3 DEF SessionInv, TypeOK, TabOK

LEMMA PartsOfInv ==
  ASSUME SessionInv
  PROVE  /\ AccountsTypeOK /\ TabOK /\ calls \in [Calls -> Call] /\ events \in 0..MaxEvents
         /\ MaxEvents \in Nat /\ stored \in Session \cup {Nobody}
         /\ \A c \in Calls : calls[c] \in Call /\ calls[c].a.session \in Session \cup {Nobody}
  BY EventAssumption, AnswerTyped DEF SessionInv, TypeOK, TabOK, Tokens, Call

(* A step of the tab alone: it keeps, forgets or sends requests.           *)
LEMMA TabStep ==
  ASSUME SessionInv, UNCHANGED accountVars, TabOK', calls' \in [Calls -> Call],
         events' \in 0..MaxEvents, \A c \in Calls : CallKept(c)
  PROVE  SessionInv'
<1>1. AccountsTypeOK' /\ Tokens' = Tokens
  BY PartsOfInv DEF accountVars, AccountsTypeOK, Tokens
<1> QED BY <1>1, InvFromParts

LEMMA LeaveKeeps ==
  ASSUME SessionInv, NEW where \in {"left", "gone"}
  PROVE  /\ Leave(where) \in [Calls -> Call]
         /\ \A c \in Calls : /\ Leave(where)[c].phase = calls[c].phase
                             /\ Leave(where)[c].q = calls[c].q
                             /\ Leave(where)[c].a = calls[c].a
  BY PartsOfInv DEF Leave, Call

LEMMA SendKeeps ==
  ASSUME SessionInv, NEW q \in SignIns \cup Requests, Send(q)
  PROVE  /\ UNCHANGED <<accountVars, stored>>
         /\ events' \in 0..MaxEvents /\ calls' \in [Calls -> Call]
         /\ \A c \in Calls : CallKept(c)
<1> DEFINE free == {c \in Calls : calls[c].phase = "free"}
           d    == CHOOSE c \in free : TRUE
           new  == [phase |-> "sent", where |-> "here", q |-> [q EXCEPT !.token = stored],
                    a |-> Refused]
<1>1. /\ d \in Calls /\ calls' = [calls EXCEPT ![d] = new]
      /\ events < MaxEvents /\ events' = events + 1 /\ UNCHANGED <<accountVars, stored>>
  BY DEF Send
<1>2. calls \in [Calls -> Call] /\ events \in 0..MaxEvents /\ MaxEvents \in Nat
      /\ stored \in Session \cup {Nobody} /\ stored \in Tokens /\ Tokens' = Tokens
  BY <1>1, PartsOfInv DEF TabOK, accountVars, Tokens
<1>3. q \in Request /\ q.token = Nobody
  BY ClientRequests
<1>4. /\ [q EXCEPT !.token = stored] \in Request
      /\ [q EXCEPT !.token = stored].token = stored
      /\ [[q EXCEPT !.token = stored] EXCEPT !.token = Nobody] = q
  BY <1>2, <1>3, TokenOnly
<1>5. new \in Call /\ new.a.session = Nobody /\ new.q = [q EXCEPT !.token = stored]
  BY <1>4, BlankedTyped DEF Call
<1> HIDE DEF d, new
<1>6. calls' \in [Calls -> Call] /\ calls'[d] = new
      /\ \A c \in Calls \ {d} : calls'[c] = calls[c]
  BY <1>1, <1>2, <1>5
<1>7. CallKept(d)
  BY <1>2, <1>4, <1>5, <1>6 DEF CallKept
<1>8. \A c \in Calls \ {d} : CallKept(c)
  BY <1>2, <1>6 DEF CallKept
<1> QED BY <1>1, <1>2, <1>6, <1>7, <1>8

LEMMA SubmitKeeps ==
  ASSUME SessionInv, NEW q \in SignIns \cup Requests, Submit(q)
  PROVE  SessionInv' /\ UNCHANGED accountVars
<1>1. Send(q) /\ busy' = TRUE /\ UNCHANGED <<auth, page, modal, list, owners, trail, mixed>>
  BY DEF Submit
<1>2. /\ UNCHANGED <<accountVars, stored>>
      /\ events' \in 0..MaxEvents /\ calls' \in [Calls -> Call]
      /\ \A c \in Calls : CallKept(c)
  BY <1>1, SendKeeps
<1>3. TabOK'
  BY <1>1, <1>2, PartsOfInv DEF TabOK, Tokens, accountVars
<1> QED BY <1>2, <1>3, TabStep

(* What the forms submit is among the requests of a client.                *)
LEMMA FormsKeep ==
  ASSUME SessionInv
  PROVE  /\ \A kind \in SignInPages, mail \in Mail, pw \in Passwords :
               SubmitCredentials(kind, mail, pw) => SessionInv' /\ UNCHANGED accountVars
         /\ \A old, new \in Passwords :
               SubmitPassword(old, new) => SessionInv' /\ UNCHANGED accountVars
         /\ \A mail \in Mail, pw \in Passwords \cup {Blank}, role \in Roles :
               handleSave(mail, pw, role) => SessionInv' /\ UNCHANGED accountVars
<1>1. ASSUME NEW kind \in SignInPages, NEW mail \in Mail, NEW pw \in Passwords,
             SubmitCredentials(kind, mail, pw)
      PROVE  SessionInv' /\ UNCHANGED accountVars
  <2>1. credentials(kind, mail, pw) \in SignIns
    BY DEF SignIns, SignInPages
  <2> QED BY <1>1, <2>1, SubmitKeeps DEF SubmitCredentials
<1>2. ASSUME NEW old \in Passwords, NEW new \in Passwords, SubmitPassword(old, new)
      PROVE  SessionInv' /\ UNCHANGED accountVars
  <2>1. changePassword(old, new) \in Requests
    BY DEF Requests
  <2> QED BY <1>2, <2>1, SubmitKeeps DEF SubmitPassword
<1>3. ASSUME NEW mail \in Mail, NEW pw \in Passwords \cup {Blank}, NEW role \in Roles,
             handleSave(mail, pw, role)
      PROVE  SessionInv' /\ UNCHANGED accountVars
  <2>1. modal.id \in Ids
    BY PartsOfInv DEF TabOK, Modal
  <2>2. pw # Blank => createUser(mail, pw, role) \in Requests
    BY DEF Requests
  <2>3. updateUser(modal.id, pw, role) \in Requests
    BY <2>1 DEF Requests
  <2> QED BY <1>3, <2>2, <2>3, SubmitKeeps DEF handleSave
<1> QED BY <1>1, <1>2, <1>3

(* Dialogs and deletions.                                                  *)
LEMMA DialogsKeep ==
  ASSUME SessionInv,
         openCreate \/ closeModal \/ \E i \in Ids : openEdit(i) \/ removeUser(i)
  PROVE  SessionInv' /\ UNCHANGED accountVars
<1>1. ASSUME NEW m \in Modal, SetModal(m) PROVE SessionInv' /\ UNCHANGED accountVars
  <2>1. /\ modal' = m
        /\ UNCHANGED <<accountVars, stored, calls, events, auth, page, busy, list, owners,
                       trail, mixed>>
    BY <1>1 DEF SetModal, callVars
  <2>2. TabOK'
    BY <1>1, <2>1, PartsOfInv DEF TabOK, Tokens, accountVars
  <2>3. \A c \in Calls : CallKept(c)
    BY <2>1, PartsOfInv DEF CallKept
  <2> QED BY <2>1, <2>2, <2>3, PartsOfInv, TabStep
<1>2. CASE openCreate
  <2>1. [mode |-> "create", id |-> Root, stale |-> busy] \in Modal
    BY RootAssumption, PartsOfInv DEF Modal, TabOK
  <2> QED BY <1>1, <1>2, <2>1 DEF openCreate
<1>3. CASE closeModal
  <2>1. Closed \in Modal
    BY RootAssumption DEF Modal, Closed
  <2> QED BY <1>1, <1>3, <2>1 DEF closeModal
<1>4. ASSUME NEW i \in Ids, openEdit(i) PROVE SessionInv' /\ UNCHANGED accountVars
  <2>1. [mode |-> "edit", id |-> i, stale |-> busy] \in Modal
    BY PartsOfInv DEF Modal, TabOK
  <2> QED BY <1>1, <1>4, <2>1 DEF openEdit
<1>5. ASSUME NEW i \in Ids, removeUser(i) PROVE SessionInv' /\ UNCHANGED accountVars
  <2>1. deleteUser(i) \in Requests
    BY DEF Requests
  <2>2. /\ UNCHANGED <<accountVars, stored, auth, page, busy, modal, list, owners, trail, mixed>>
        /\ events' \in 0..MaxEvents /\ calls' \in [Calls -> Call]
        /\ \A c \in Calls : CallKept(c)
    BY <1>5, <2>1, SendKeeps DEF removeUser, tabVars
  <2>3. TabOK'
    BY <2>2, PartsOfInv DEF TabOK, Tokens, accountVars
  <2> QED BY <2>2, <2>3, TabStep
<1> QED BY <1>2, <1>3, <1>4, <1>5

(* Another page, or the same one loaded anew.                              *)
LEMMA MountKeeps ==
  ASSUME NEW p \in Pages, Mount(p)
  PROVE  page' \in Pages /\ busy' \in BOOLEAN /\ modal' \in Modal
  BY RootAssumption DEF Mount, Modal, Closed

LEMMA PagesKeep ==
  ASSUME SessionInv, handleLogout \/ Reload \/ Fetch \/ \E p \in Pages : Navigate(p)
  PROVE  SessionInv' /\ UNCHANGED accountVars
<1>0. /\ TabOK /\ stored \in Session \cup {Nobody} /\ events \in 0..MaxEvents
      /\ calls \in [Calls -> Call] /\ Nobody \in Tokens
  BY PartsOfInv DEF Tokens
<1>1. ASSUME NEW where \in {"left", "gone"}, calls' = Leave(where)
      PROVE  calls' \in [Calls -> Call] /\ \A c \in Calls : CallKept(c)
  BY <1>1, LeaveKeeps DEF CallKept
<1>2. CASE handleLogout
  <2>1. /\ stored' = Nobody /\ auth' = Nobody /\ mixed' = FALSE /\ owners' = {} /\ list' = {}
        /\ Mount("login") /\ calls' = Leave("left")
        /\ UNCHANGED <<accountVars, trail, events>>
    BY <1>2 DEF handleLogout
  <2>2. page' \in Pages /\ busy' \in BOOLEAN /\ modal' \in Modal
    BY <2>1, MountKeeps DEF Pages, SignInPages
  <2>3. TabOK'
    BY <1>0, <2>1, <2>2 DEF TabOK, Tokens
  <2> QED BY <1>0, <1>1, <2>1, <2>3, TabStep
<1>3. CASE Reload
  <2>1. /\ auth' = stored /\ mixed' = FALSE /\ owners' = {} /\ list' = {}
        /\ Mount(Routed(stored, page)) /\ calls' = Leave("gone")
        /\ UNCHANGED <<accountVars, stored, trail, events>>
    BY <1>3 DEF Reload
  <2>2. Routed(stored, page) \in Pages
    BY <1>0 DEF Routed, TabOK, Pages, SignInPages
  <2>3. page' \in Pages /\ busy' \in BOOLEAN /\ modal' \in Modal
    BY <2>1, <2>2, MountKeeps
  <2>4. TabOK'
    BY <1>0, <2>1, <2>3 DEF TabOK, Tokens, accountVars
  <2> QED BY <1>0, <1>1, <2>1, <2>4, TabStep
<1>4. CASE Fetch
  <2>1. /\ stored # Nobody /\ owners' = owners \cup {stored.id}
        /\ list' = IF page = "users" /\ stored.role = "admin" THEN Live ELSE list
        /\ UNCHANGED <<accountVars, stored, calls, events, auth, page, busy, modal, trail, mixed>>
    BY <1>4 DEF Fetch, callVars
  <2>2. owners' \subseteq Ids /\ list' \subseteq Ids
    BY <1>0, <2>1 DEF TabOK, Session, Live
  <2>3. TabOK'
    BY <1>0, <2>1, <2>2 DEF TabOK, Tokens, accountVars
  <2>4. \A c \in Calls : CallKept(c)
    BY <1>0, <2>1 DEF CallKept
  <2> QED BY <1>0, <2>1, <2>3, <2>4, TabStep
<1>5. ASSUME NEW p \in Pages, Navigate(p) PROVE SessionInv' /\ UNCHANGED accountVars
  <2>1. /\ Mount(p) /\ trail' = (trail \/ page \in SignInPages) /\ calls' = Leave("left")
        /\ UNCHANGED <<accountVars, stored, auth, list, owners, mixed, events>>
    BY <1>5 DEF Navigate
  <2>2. page' \in Pages /\ busy' \in BOOLEAN /\ modal' \in Modal
    BY <2>1, MountKeeps
  <2>3. trail' \in BOOLEAN
    BY <2>1
  <2>4. TabOK'
    BY <1>0, <2>1, <2>2, <2>3 DEF TabOK, Tokens, accountVars
  <2> QED BY <1>0, <1>1, <2>1, <2>4, TabStep
<1> QED BY <1>2, <1>3, <1>4, <1>5

-----------------------------------------------------------------------------
(* The server at work on the requests of the tab.                          *)

LEMMA ServerKeeps ==
  ASSUME AccountsInv, [AccountsNext]_accountVars
  PROVE  AccountsTypeOK' /\ Tokens \subseteq Tokens'
<1>1. AccountsTypeOK /\ AccountsInv'
  BY AccountsInvStep DEF AccountsInv
<1> QED BY <1>1, TokensStay DEF AccountsInv

(* A request of the tab is one that Accounts expects of any client.        *)
LEMMA ServesAnyClient ==
  ASSUME NEW q \in Request, NEW a \in Answers, q.token \in Tokens,
         [q EXCEPT !.token = Nobody] \in SignIns \cup Requests, Serve(q, a)
  PROVE  AccountsNext
<1> DEFINE p == [q EXCEPT !.token = Nobody]
<1>0. q.token \in Session \cup {Nobody}
  BY DEF Tokens
<1>1. p.kind = q.kind /\ [p EXCEPT !.token = q.token] = q
  BY <1>0, TokenOnly
<1> HIDE DEF p
<1>2. CASE p \in SignIns
  <2>1. q.kind \in {"login", "register"}
    BY <1>1, <1>2, ClientRequests
  <2>2. Serve(p, a)
    BY <2>1, SignInIgnoresToken DEF p
  <2> QED BY <1>2, <2>2 DEF AccountsNext
<1>3. CASE p \in Requests
  <2>1. a \in Plain
    BY <1>1, <1>3, ClientRequests, PlainUnlessSignIn
  <2>2. Serve([p EXCEPT !.token = q.token], a)
    BY <1>1
  <2> QED BY <1>3, <2>1, <2>2 DEF AccountsNext
<1> QED BY <1>2, <1>3 DEF p

LEMMA ReplyKeeps ==
  ASSUME SessionInv, NEW c \in Calls, NEW a \in Answers, a.session \in Tokens', Reply(c, a)
  PROVE  calls' \in [Calls -> Call] /\ \A d \in Calls : CallKept(d)
<1> DEFINE kept == [Blanked EXCEPT !.kind = calls[c].q.kind, !.target = calls[c].q.target]
           new  == [calls[c] EXCEPT !.phase = IF a = Working THEN "held" ELSE "answered",
                                    !.q = kept, !.a = a]
<1>1. calls \in [Calls -> Call] /\ calls[c] \in Call
  BY PartsOfInv
<1>2. kept \in Request
  BY <1>1, BlankedTyped DEF Call, Request
<1> HIDE DEF kept
<1>3. new \in Call /\ new.phase # "sent" /\ new.a = a
  BY <1>1, <1>2 DEF Call
<1>4. calls' = [calls EXCEPT ![c] = new]
  BY <1>1 DEF Reply, kept, Call
<1> HIDE DEF new
<1>5. CallKept(c)
  BY <1>1, <1>3, <1>4 DEF CallKept
<1>6. \A d \in Calls \ {c} : CallKept(d)
  BY <1>1, <1>4 DEF CallKept
<1> QED BY <1>1, <1>3, <1>4, <1>5, <1>6

LEMMA TabIdle ==
  ASSUME SessionInv, UNCHANGED <<stored, tabVars>>, Tokens \subseteq Tokens'
  PROVE  TabOK'
  BY PartsOfInv DEF TabOK, tabVars

LEMMA HandleKeeps ==
  ASSUME SessionInv, AccountsInv, NEW c \in Calls, Handle(c)
  PROVE  SessionInv' /\ AccountsNext
<1>1. PICK a \in Answers : Serve(calls[c].q, a) /\ Reply(c, a)
  BY DEF Handle
<1>2. calls[c].phase = "sent" /\ UNCHANGED <<stored, tabVars, events>>
  BY DEF Handle
<1>3. /\ calls[c].q \in Request /\ calls[c].q.token \in Tokens
      /\ [calls[c].q EXCEPT !.token = Nobody] \in SignIns \cup Requests
  BY <1>2, PartsOfInv DEF SessionInv, AnyClientSendsThis, Call
<1>4. AccountsNext
  BY <1>1, <1>3, ServesAnyClient
<1>5. AccountsTypeOK' /\ Tokens \subseteq Tokens'
  BY <1>4, ServerKeeps
<1>6. a.session \in Tokens'
  <2>1. a.session = Nobody \/ users'[a.session.id].state # "unborn"
    BY <1>1, <1>3, PartsOfInv, ServeAnswers
  <2> QED BY <2>1, AnswerTyped DEF Tokens
<1>7. calls' \in [Calls -> Call] /\ \A d \in Calls : CallKept(d)
  BY <1>1, <1>6, ReplyKeeps
<1>8. TabOK' /\ events' \in 0..MaxEvents
  BY <1>2, <1>5, PartsOfInv, TabIdle
<1> QED BY <1>4, <1>5, <1>7, <1>8, InvFromParts

LEMMA NobodyIsToken == Nobody \in Tokens /\ Nobody \in Tokens'
  BY DEF Tokens

LEMMA HandleRestKeeps ==
  ASSUME SessionInv, AccountsInv, NEW c \in Calls, HandleRest(c)
  PROVE  SessionInv' /\ AccountsNext
<1>1. PICK a \in Answers :
          Finish(c, a) /\ IF calls[c].phase = "held" THEN Reply(c, a) ELSE UNCHANGED calls
  BY DEF HandleRest
<1>2. UNCHANGED <<stored, tabVars, events>>
  BY DEF HandleRest
<1>3. a \in Plain /\ c \in Slots
  BY <1>1, FinishIsPlain, SlotAssumption
<1>4. AccountsNext
  BY <1>1, <1>3 DEF AccountsNext
<1>5. AccountsTypeOK' /\ Tokens \subseteq Tokens'
  BY <1>4, ServerKeeps
<1>6. a.session \in Tokens'
  BY <1>3, BlankedTyped, NobodyIsToken
<1>7. calls' \in [Calls -> Call] /\ \A d \in Calls : CallKept(d)
  <2>1. CASE Reply(c, a)
    BY <1>6, <2>1, ReplyKeeps
  <2>2. CASE UNCHANGED calls
    BY <2>2, PartsOfInv DEF CallKept
  <2> QED BY <1>1, <2>1, <2>2
<1>8. TabOK' /\ events' \in 0..MaxEvents
  BY <1>2, <1>5, PartsOfInv, TabIdle
<1> QED BY <1>4, <1>5, <1>7, <1>8, InvFromParts

LEMMA LoseKeeps ==
  ASSUME SessionInv, NEW c \in Calls, Lose(c)
  PROVE  SessionInv' /\ UNCHANGED accountVars
<1>1. Reply(c, Refused) /\ UNCHANGED <<accountVars, stored, tabVars, events>>
  BY DEF Lose
<1>2. calls' \in [Calls -> Call] /\ \A d \in Calls : CallKept(d)
  BY <1>1, BlankedTyped, NobodyIsToken, ReplyKeeps
<1>3. Tokens' = Tokens
  BY <1>1 DEF accountVars, Tokens
<1>4. TabOK' /\ events' \in 0..MaxEvents
  BY <1>1, <1>3, PartsOfInv, TabIdle
<1> QED BY <1>1, <1>2, <1>4, TabStep

LEMMA DieKeeps ==
  ASSUME SessionInv, AccountsInv, NEW S \in SUBSET Calls, Die(S)
  PROVE  SessionInv' /\ AccountsNext
<1>1. /\ Crash(S) /\ UNCHANGED <<stored, tabVars, events>>
      /\ calls' = [c \in Calls |-> IF c \in S /\ calls[c].phase = "held"
                                   THEN [calls[c] EXCEPT !.phase = "answered", !.a = Refused]
                                   ELSE calls[c]]
  BY DEF Die
<1>2. AccountsNext
  BY <1>1, SlotAssumption DEF AccountsNext
<1>3. AccountsTypeOK' /\ Tokens \subseteq Tokens'
  BY <1>2, ServerKeeps
<1>4. \A c \in Calls : calls[c] \in Call /\ calls'[c] \in Call
  BY <1>1, PartsOfInv, BlankedTyped DEF Call
<1>5. \A c \in Calls : CallKept(c)
  <2> SUFFICES ASSUME NEW c \in Calls PROVE CallKept(c)
    OBVIOUS
  <2>1. CASE calls'[c] = calls[c]
    BY <1>4, <2>1 DEF CallKept
  <2>2. CASE calls'[c] = [calls[c] EXCEPT !.phase = "answered", !.a = Refused]
    <3>1. calls'[c].phase = "answered" /\ calls'[c].a = Refused
      BY <1>4, <2>2 DEF Call
    <3> QED BY <1>4, <3>1, BlankedTyped, NobodyIsToken DEF CallKept
  <2> QED BY <1>1, <2>1, <2>2
<1>6. calls' \in [Calls -> Call]
  BY <1>1, <1>4
<1>7. TabOK' /\ events' \in 0..MaxEvents
  BY <1>1, <1>3, PartsOfInv, TabIdle
<1> QED BY <1>2, <1>3, <1>5, <1>6, <1>7, InvFromParts

(* What other tabs and other browsers do is also what a client may do.     *)
LEMMA ElsewhereKeeps ==
  ASSUME SessionInv, AccountsInv, Elsewhere
  PROVE  SessionInv' /\ [AccountsNext]_accountVars
<1>0. Sessions \subseteq Tokens /\ Nobody \in Tokens
  BY PartsOfInv DEF Sessions, Tokens, Live, Session, AccountsTypeOK, UserRow
<1>1. /\ events' \in 0..MaxEvents
      /\ UNCHANGED <<calls, auth, page, busy, modal, list, owners, trail>>
  BY PartsOfInv DEF Elsewhere
<1>2. calls' \in [Calls -> Call] /\ \A c \in Calls : CallKept(c)
  BY <1>1, PartsOfInv DEF CallKept
<1>3. CASE stored' \in Sessions \cup {Nobody} /\ mixed' = TRUE /\ UNCHANGED accountVars
  <2>1. TabOK'
    BY <1>0, <1>1, <1>3, PartsOfInv DEF TabOK, accountVars, Tokens
  <2> QED BY <1>1, <1>2, <1>3, <2>1, TabStep
<1>4. ASSUME NEW q \in SignIns \cup Requests, NEW t \in Sessions \cup {Nobody},
             q.kind = "delete", Serve([q EXCEPT !.token = t], Done), UNCHANGED <<stored, mixed>>
      PROVE  SessionInv' /\ [AccountsNext]_accountVars
  <2>1. q \in Requests /\ t \in Tokens /\ Done \in Plain
    BY <1>0, <1>4, ClientRequests DEF Plain
  <2>2. AccountsNext
    BY <1>4, <2>1 DEF AccountsNext
  <2>3. AccountsTypeOK' /\ Tokens \subseteq Tokens'
    BY <2>2, ServerKeeps
  <2>4. TabOK'
    BY <1>1, <1>4, <2>3, TabIdle DEF tabVars
  <2> QED BY <1>1, <1>2, <2>2, <2>3, <2>4, InvFromParts
<1> QED BY <1>3, <1>4 DEF Elsewhere

LEMMA SeedKeeps ==
  ASSUME SessionInv, AccountsInv, SeedCount \/ SeedWrite,
         UNCHANGED <<stored, tabVars, calls>>, events' \in 0..MaxEvents
  PROVE  SessionInv' /\ AccountsNext
<1>1. AccountsNext
  BY DEF AccountsNext
<1>2. AccountsTypeOK' /\ Tokens \subseteq Tokens'
  BY <1>1, ServerKeeps
<1>3. TabOK'
  BY <1>2, TabIdle
<1>4. calls' \in [Calls -> Call] /\ \A c \in Calls : CallKept(c)
  BY PartsOfInv DEF CallKept
<1> QED BY <1>1, <1>2, <1>3, <1>4, InvFromParts

-----------------------------------------------------------------------------
(* The answer reaches the tab.                                             *)

LEMMA SetAuthKeeps ==
  ASSUME SessionInv, NEW c \in Calls, setAuth(c)
  PROVE  SessionInv' /\ UNCHANGED accountVars
<1>1. /\ stored' = calls[c].a.session /\ auth' = calls[c].a.session
      /\ mixed' = (mixed \/ isAuthenticated)
      /\ Mount("dashboard")
      /\ calls' = [Leave("left") EXCEPT ![c] = NoCall]
      /\ UNCHANGED <<accountVars, list, owners, trail, events>>
  BY DEF setAuth
<1>2. calls[c].a.session \in Tokens /\ Tokens' = Tokens
  BY <1>1 DEF SessionInv, accountVars, Tokens
<1>3. page' \in Pages /\ busy' \in BOOLEAN /\ modal' \in Modal
  BY <1>1, MountKeeps DEF Pages
<1>4. mixed' \in BOOLEAN
  BY <1>1
<1>5. TabOK'
  BY <1>1, <1>2, <1>3, <1>4, PartsOfInv DEF TabOK, Tokens
<1>6. calls' \in [Calls -> Call] /\ calls'[c] = NoCall
      /\ \A d \in Calls \ {c} : calls'[d] = Leave("left")[d]
  BY <1>1, LeaveKeeps, BlankedTyped
<1>7. \A d \in Calls : CallKept(d)
  BY <1>6, LeaveKeeps DEF CallKept
<1>8. events' \in 0..MaxEvents
  BY <1>1, PartsOfInv
<1> QED BY <1>1, <1>5, <1>6, <1>7, <1>8, TabStep

LEMMA SettleKeeps ==
  ASSUME SessionInv, NEW c \in Calls, Settle(c)
  PROVE  SessionInv' /\ UNCHANGED accountVars
<1>1. /\ calls' = [calls EXCEPT ![c] = NoCall]
      /\ busy' \in BOOLEAN
      /\ modal' \in {Closed, modal}
      /\ UNCHANGED <<accountVars, stored, auth, page, list, owners, trail, mixed, events>>
  BY DEF Settle
<1>2. Closed \in Modal
  BY RootAssumption DEF Modal, Closed
<1>3. TabOK'
  BY <1>1, <1>2, PartsOfInv DEF TabOK, Tokens, accountVars
<1>4. calls' \in [Calls -> Call] /\ \A d \in Calls : CallKept(d)
  BY <1>1, PartsOfInv, BlankedTyped DEF CallKept
<1>5. events' \in 0..MaxEvents
  BY <1>1, PartsOfInv
<1> QED BY <1>1, <1>3, <1>4, <1>5, TabStep

-----------------------------------------------------------------------------
(* The invariant, and the step of Accounts under every step of the tab.    *)

LEMMA SessionInvInit == Init => SessionInv /\ AccountsInv
<1> SUFFICES ASSUME Init PROVE SessionInv /\ AccountsInv
  OBVIOUS
<1>1. AccountsInv /\ AccountsTypeOK
  BY AccountsInvInit DEF Init, AccountsInv
<1>2. Sessions \subseteq Tokens /\ Nobody \in Tokens /\ Tokens \subseteq Session \cup {Nobody}
  BY <1>1 DEF Sessions, Tokens, Live, Session, AccountsTypeOK, UserRow
<1>3. stored \in Tokens /\ auth \in Session \cup {Nobody}
  BY <1>2 DEF Init
<1>4. page \in Pages
  BY DEF Init, Routed, Pages, SignInPages
<1>5. Closed \in Modal
  BY RootAssumption DEF Modal, Closed
<1>6. calls \in [Calls -> Call] /\ \A c \in Calls : calls[c] = NoCall
  BY BlankedTyped DEF Init
<1>7. NoCall.phase = "free" /\ NoCall.a.session = Nobody
  BY BlankedTyped DEF NoCall
<1>8. TypeOK
  <2>1. stored \in Session \cup {Nobody} /\ events \in 0..MaxEvents
    BY <1>2, <1>3, EventAssumption DEF Init
  <2>2. {busy, trail, mixed} \subseteq BOOLEAN /\ modal \in Modal
        /\ list \subseteq Ids /\ owners \subseteq Ids
    BY <1>5 DEF Init
  <2> QED BY <1>1, <1>3, <1>4, <1>6, <2>1, <2>2 DEF TypeOK
<1> QED BY <1>1, <1>2, <1>3, <1>6, <1>7, <1>8 DEF SessionInv, AnyClientSendsThis

LEMMA UserKeeps ==
  ASSUME SessionInv, User
  PROVE  SessionInv' /\ UNCHANGED accountVars
<1>1. CASE \/ openCreate \/ closeModal \/ \E i \in Ids : openEdit(i) \/ removeUser(i)
  BY <1>1, DialogsKeep
<1>2. CASE handleLogout \/ Reload \/ \E p \in Pages : Navigate(p)
  BY <1>2, PagesKeep
<1> QED BY <1>1, <1>2, FormsKeep DEF User

LEMMA SessionInvStep ==
  ASSUME SessionInv, AccountsInv, [Next]_vars
  PROVE  SessionInv' /\ [AccountsNext]_accountVars
<1>1. CASE User
  BY <1>1, UserKeeps
<1>2. CASE Fetch
  BY <1>2, PagesKeep
<1>3. CASE Elsewhere
  BY <1>3, ElsewhereKeeps
<1>4. ASSUME NEW c \in Calls, Handle(c) \/ HandleRest(c) \/ Lose(c) \/ Land(c)
      PROVE  SessionInv' /\ [AccountsNext]_accountVars
  BY <1>4, HandleKeeps, HandleRestKeeps, LoseKeeps, SetAuthKeeps, SettleKeeps DEF Land
<1>5. ASSUME NEW S \in SUBSET Calls, Die(S) PROVE SessionInv' /\ [AccountsNext]_accountVars
  BY <1>5, DieKeeps
<1>6. CASE /\ SeedCount /\ events < MaxEvents /\ events' = events + 1
           /\ UNCHANGED <<stored, tabVars, calls>>
  <2>1. events' \in 0..MaxEvents
    BY <1>6, PartsOfInv
  <2> QED BY <1>6, <2>1, SeedKeeps
<1>7. CASE SeedWrite /\ UNCHANGED <<stored, tabVars, callVars>>
  <2>1. events' \in 0..MaxEvents /\ UNCHANGED calls
    BY <1>7, PartsOfInv DEF callVars
  <2> QED BY <1>7, <2>1, SeedKeeps
<1>8. CASE UNCHANGED vars
  <2>1. UNCHANGED accountVars /\ UNCHANGED <<stored, tabVars, callVars>>
    BY <1>8 DEF vars
  <2>2. Tokens' = Tokens
    BY <2>1 DEF accountVars, Tokens
  <2>3. calls' \in [Calls -> Call] /\ events' \in 0..MaxEvents /\ \A c \in Calls : CallKept(c)
    BY <2>1, PartsOfInv DEF CallKept, callVars
  <2>4. TabOK'
    BY <2>1, <2>2, TabIdle
  <2> QED BY <2>1, <2>3, <2>4, TabStep
<1> QED BY <1>1, <1>2, <1>3, <1>4, <1>5, <1>6, <1>7, <1>8 DEF Next

(* The strengthened invariant holds of every reachable state of the tab.   *)
THEOREM SessionInvariant == Spec => [](SessionInv /\ AccountsInv)
<1>1. SessionInv /\ AccountsInv /\ [Next]_vars => (SessionInv /\ AccountsInv)'
  BY SessionInvStep, AccountsInvStep
<1> QED BY SessionInvInit, <1>1, PTL DEF Spec

(* The variables of the tab, of its requests and of the server keep their  *)
(* types.                                                                  *)
THEOREM SessionTypes == Spec => []TypeOK
<1>1. SessionInv => TypeOK
  BY DEF SessionInv
<1> QED BY <1>1, SessionInvariant, PTL

(* Every request on its way to the server is one of those that Accounts    *)
(* lets any client make, with a token of an account that exists or did.    *)
THEOREM TabIsAClient == Spec => []AnyClientSendsThis
<1>1. SessionInv => AnyClientSendsThis
  BY DEF SessionInv
<1> QED BY <1>1, SessionInvariant, PTL

(* The table behind the tab behaves as Accounts says, so that whatever is  *)
(* proved of Accounts holds of it.                                         *)
THEOREM SessionImplementsAccounts == Spec => AccountsSpec
<1>1. Init => AccountsInit
  BY DEF Init
<1>2. SessionInv /\ AccountsInv /\ [Next]_vars => [AccountsNext]_accountVars
  BY SessionInvStep
<1> QED BY <1>1, <1>2, SessionInvariant, PTL DEF Spec, AccountsSpec

(* For one: whoever registered can log in, however many tabs, crashes and  *)
(* restarts there were since.                                              *)
THEOREM TabUsersAreFound == Spec => []LoginFindsAccount
  BY SessionImplementsAccounts, LoginsFindAccounts, PTL

-----------------------------------------------------------------------------
(* Whose data the tab shows, and which dialog an answer closes.            *)

(* Unless a sign-in or a sign-out passed the tab by, the session it shows  *)
(* is the stored one, whose token its queries carry.                       *)
Owned == ~mixed => stored = auth /\ owners \subseteq {i \in Ids : isAuthenticated /\ auth.id = i}

(* A form of the page on display waits for the answer to request c.        *)
Forms == SignInPages \cup {"password", "create", "update"}
Waiting(c) == calls[c].phase # "free" /\ Waits(c, Forms)

SentFrom(c) ==
    \/ modal.mode = "create" /\ calls[c].q.kind = "create"
    \/ modal.mode = "edit" /\ calls[c].q.kind = "update" /\ calls[c].q.target = modal.id

(* The disabled button keeps the requests of forms apart: one at a time,   *)
(* and a dialog that was opened with none on its way meets no other's.     *)
DialogSound ==
    /\ modal # Closed => page = "users"
    /\ \A c \in Calls : Waiting(c) =>
          /\ busy
          /\ \A d \in Calls : Waiting(d) => d = c
          /\ modal # Closed /\ ~modal.stale /\ Waits(c, {"create", "update"}) => SentFrom(c)

TabInv == SessionInv /\ AccountsInv /\ Owned /\ DialogSound

(* No answer to c arrives at the tab, and no form starts to wait for it.   *)
Still(c) ==
    /\ calls[c].phase # "free" => calls'[c].phase # "free"
    /\ Waiting(c)' => /\ Waiting(c) /\ calls'[c].q.kind = calls[c].q.kind
                      /\ calls'[c].q.target = calls[c].q.target

Quiet == UNCHANGED <<page, busy, modal>> /\ \A c \in Calls : Still(c)

Mounted == modal' = Closed /\ \A c \in Calls : Still(c) /\ ~Waiting(c)'

Opened == /\ page = "users" /\ (modal' = Closed \/ modal'.stale = busy)
          /\ UNCHANGED <<page, busy, calls>>

Submitted ==
    /\ ~busy /\ busy' = TRUE /\ UNCHANGED <<page, modal>>
    /\ \E d \in Calls : /\ calls[d].phase = "free"
                        /\ \A c \in Calls \ {d} : Still(c)
                        /\ Waits(d, {"create", "update"})' => SentFrom(d)'

LEMMA DialogStep ==
  ASSUME busy \in BOOLEAN, DialogSound, Quiet \/ Mounted \/ Opened \/ Submitted
  PROVE  /\ DialogSound'
         /\ \A c \in Calls : calls[c].phase # "free" => calls'[c].phase # "free"
<1>1. CASE Quiet
  BY <1>1 DEF Quiet, Still, DialogSound, SentFrom, Waits, Waiting
<1>2. CASE Mounted
  BY <1>2 DEF Mounted, Still, DialogSound
<1>3. CASE Opened
  BY <1>3 DEF Opened, DialogSound, SentFrom, Waits, Waiting
<1>4. CASE Submitted
  <2>1. PICK d \in Calls : /\ calls[d].phase = "free"
                           /\ \A c \in Calls \ {d} : Still(c)
                           /\ Waits(d, {"create", "update"})' => SentFrom(d)'
    BY <1>4 DEF Submitted
  <2>2. \A c \in Calls \ {d} : ~Waiting(c)'
    BY <1>4, <2>1 DEF Submitted, Still, DialogSound
  <2>3. \A c \in Calls : calls[c].phase # "free" => calls'[c].phase # "free"
    BY <2>1 DEF Still
  <2> QED BY <1>4, <2>1, <2>2, <2>3 DEF Submitted, DialogSound
<1> QED BY <1>1, <1>2, <1>3, <1>4

OwnedKept == \/ UNCHANGED <<stored, auth, owners, mixed>>
             \/ mixed' = TRUE
             \/ stored' = auth' /\ owners' = {}

LEMMA OwnedStays == Owned /\ OwnedKept => Owned'
  BY DEF Owned, OwnedKept, isAuthenticated

LEMMA KindsSent ==
  /\ \A kind \in SignInPages : \A mail, pw : credentials(kind, mail, pw).kind = kind
  /\ \A old, new : changePassword(old, new).kind = "password"
  /\ \A mail, pw, role : createUser(mail, pw, role).kind = "create"
  /\ \A i, pw, role : /\ updateUser(i, pw, role).kind = "update"
                      /\ updateUser(i, pw, role).target = i
  /\ \A i : deleteUser(i).kind = "delete"
  BY DEF Blanked, credentials, changePassword, createUser, updateUser, deleteUser

LEMMA SendStarts ==
  ASSUME SessionInv, NEW q \in SignIns \cup Requests, Send(q)
  PROVE  \E d \in Calls : /\ calls[d].phase = "free"
                          /\ calls'[d].q.kind = q.kind /\ calls'[d].q.target = q.target
                          /\ \A c \in Calls \ {d} : calls'[c] = calls[c]
<1> DEFINE free == {c \in Calls : calls[c].phase = "free"}
           d    == CHOOSE c \in free : TRUE
           new  == [phase |-> "sent", where |-> "here", q |-> [q EXCEPT !.token = stored],
                    a |-> Refused]
<1>1. d \in free /\ calls' = [calls EXCEPT ![d] = new]
  BY DEF Send
<1>2. new.q.kind = q.kind /\ new.q.target = q.target
  BY ClientRequests DEF Request
<1>3. d \in Calls /\ calls[d].phase = "free"
  BY <1>1
<1> HIDE DEF d, new
<1>4. calls'[d] = new /\ \A c \in Calls \ {d} : calls'[c] = calls[c]
  BY <1>1, <1>3, PartsOfInv
<1> QED BY <1>2, <1>3, <1>4

LEMMA StillUnchanged ==
  ASSUME NEW c \in Calls, calls'[c] = calls[c]
  PROVE  Still(c)
  BY DEF Still, Waiting, Waits

LEMMA FormsSubmit ==
  ASSUME SessionInv, NEW q \in SignIns \cup Requests, Submit(q),
         \/ q.kind \notin {"create", "update"}
         \/ modal.mode = "create" /\ q.kind = "create"
         \/ modal.mode = "edit" /\ q.kind = "update" /\ q.target = modal.id
  PROVE  OwnedKept /\ Submitted
<1>1. /\ ~busy /\ busy' = TRUE /\ Send(q)
      /\ UNCHANGED <<stored, auth, page, modal, list, owners, trail, mixed>>
  BY DEF Submit, Send
<1>2. PICK d \in Calls : /\ calls[d].phase = "free"
                         /\ calls'[d].q.kind = q.kind /\ calls'[d].q.target = q.target
                         /\ \A c \in Calls \ {d} : calls'[c] = calls[c]
  BY <1>1, SendStarts
<1>3. Waits(d, {"create", "update"})' => SentFrom(d)'
  BY <1>1, <1>2 DEF Waits, SentFrom
<1>4. \A c \in Calls \ {d} : Still(c)
  BY <1>2, StillUnchanged
<1> QED BY <1>1, <1>2, <1>3, <1>4 DEF OwnedKept, Submitted

LEMMA UserSubmits ==
  ASSUME SessionInv,
         \/ \E kind \in SignInPages, mail \in Mail, pw \in Passwords :
               SubmitCredentials(kind, mail, pw)
         \/ \E old, new \in Passwords : SubmitPassword(old, new)
         \/ \E mail \in Mail, pw \in Passwords \cup {Blank}, role \in Roles :
               handleSave(mail, pw, role)
  PROVE  OwnedKept /\ Submitted
<1>1. ASSUME NEW kind \in SignInPages, NEW mail \in Mail, NEW pw \in Passwords,
             SubmitCredentials(kind, mail, pw)
      PROVE  OwnedKept /\ Submitted
  <2>1. credentials(kind, mail, pw) \in SignIns
    BY DEF SignIns, SignInPages
  <2>2. credentials(kind, mail, pw).kind \notin {"create", "update"}
    BY KindsSent DEF SignInPages
  <2> QED BY <1>1, <2>1, <2>2, FormsSubmit DEF SubmitCredentials
<1>2. ASSUME NEW old \in Passwords, NEW new \in Passwords, SubmitPassword(old, new)
      PROVE  OwnedKept /\ Submitted
  <2>1. changePassword(old, new) \in Requests
    BY DEF Requests
  <2>2. changePassword(old, new).kind \notin {"create", "update"}
    BY KindsSent
  <2> QED BY <1>2, <2>1, <2>2, FormsSubmit DEF SubmitPassword
<1>3. ASSUME NEW mail \in Mail, NEW pw \in Passwords \cup {Blank}, NEW role \in Roles,
             handleSave(mail, pw, role)
      PROVE  OwnedKept /\ Submitted
  <2>1. CASE modal.mode = "create" /\ pw # Blank /\ Submit(createUser(mail, pw, role))
    <3>1. createUser(mail, pw, role) \in Requests
      BY <2>1 DEF Requests
    <3>2. createUser(mail, pw, role).kind = "create"
      BY KindsSent
    <3> QED BY <2>1, <3>1, <3>2, FormsSubmit
  <2>2. CASE modal.mode = "edit" /\ Submit(updateUser(modal.id, pw, role))
    <3>1. modal.id \in Ids
      BY PartsOfInv DEF TabOK, Modal
    <3>2. updateUser(modal.id, pw, role) \in Requests
      BY <3>1 DEF Requests
    <3>3. /\ updateUser(modal.id, pw, role).kind = "update"
          /\ updateUser(modal.id, pw, role).target = modal.id
      BY KindsSent
    <3> QED BY <2>2, <3>2, <3>3, FormsSubmit
  <2> QED BY <1>3, <2>1, <2>2 DEF handleSave
<1> QED BY <1>1, <1>2, <1>3

LEMMA UserMoves ==
  ASSUME SessionInv, User
  PROVE  OwnedKept /\ (Quiet \/ Mounted \/ Opened \/ Submitted)
<1>1. ASSUME NEW m, SetModal(m), m = Closed \/ m.stale = busy PROVE OwnedKept /\ Opened
  BY <1>1 DEF SetModal, OwnedKept, Opened, callVars
<1>2. CASE openCreate \/ closeModal \/ \E i \in Ids : openEdit(i)
  BY <1>1, <1>2 DEF openCreate, closeModal, openEdit
<1>3. ASSUME NEW i \in Ids, removeUser(i) PROVE OwnedKept /\ Quiet
  <2>1. deleteUser(i) \in Requests /\ deleteUser(i).kind = "delete"
    BY KindsSent DEF Requests
  <2>2. PICK d \in Calls : /\ calls[d].phase = "free" /\ calls'[d].q.kind = "delete"
                           /\ \A c \in Calls \ {d} : calls'[c] = calls[c]
    BY <1>3, <2>1, SendStarts DEF removeUser
  <2>3. Still(d)
    BY <2>2 DEF Still, Waiting, Waits, Forms, SignInPages
  <2>4. UNCHANGED <<stored, tabVars>>
    BY <1>3 DEF removeUser, Send
  <2> QED BY <2>2, <2>3, <2>4, StillUnchanged DEF OwnedKept, Quiet, tabVars
<1>4. ASSUME NEW where \in {"left", "gone"}, calls' = Leave(where), modal' = Closed
      PROVE  Mounted
  <2>1. \A c \in Calls : calls'[c].where # "here" /\ calls'[c].phase = calls[c].phase
    BY <1>4, LeaveKeeps, PartsOfInv DEF Leave, Call
  <2> QED BY <1>4, <2>1 DEF Mounted, Still, Waiting, Waits
<1>5. CASE handleLogout \/ Reload \/ \E p \in Pages : Navigate(p)
  <2>1. OwnedKept /\ modal' = Closed /\ \E where \in {"left", "gone"} : calls' = Leave(where)
    BY <1>5 DEF handleLogout, Reload, Navigate, Mount, OwnedKept
  <2> QED BY <1>4, <2>1
<1> QED BY <1>2, <1>3, <1>5, UserSubmits DEF User

(* The server, the network and the other tabs do not touch what the tab    *)
(* shows.                                                                  *)
LEMMA ReplyStill ==
  ASSUME SessionInv, NEW c \in Calls, NEW a \in Answers, Reply(c, a), calls[c].phase # "free"
  PROVE  \A d \in Calls : Still(d)
<1> DEFINE kept == [Blanked EXCEPT !.kind = calls[c].q.kind, !.target = calls[c].q.target]
           new  == [calls[c] EXCEPT !.phase = IF a = Working THEN "held" ELSE "answered",
                                    !.q = kept, !.a = a]
<1>1. calls \in [Calls -> Call] /\ calls[c] \in Call
  BY PartsOfInv
<1>2. kept.kind = calls[c].q.kind /\ kept.target = calls[c].q.target
  BY BlankedTyped DEF Request
<1> HIDE DEF kept
<1>3. new.phase # "free" /\ new.q = kept /\ new.where = calls[c].where
  BY <1>1 DEF Call
<1>4. calls' = [calls EXCEPT ![c] = new]
  BY <1>1 DEF Reply, kept, Call
<1> HIDE DEF new
<1>5. Still(c)
  BY <1>1, <1>2, <1>3, <1>4 DEF Still, Waiting, Waits
<1>6. \A d \in Calls \ {c} : calls'[d] = calls[d]
  BY <1>1, <1>4
<1> QED BY <1>5, <1>6, StillUnchanged

LEMMA OthersMove ==
  ASSUME SessionInv,
         \/ \E c \in Calls : Handle(c) \/ HandleRest(c) \/ Lose(c)
         \/ \E S \in SUBSET Calls : Die(S)
         \/ UNCHANGED <<stored, tabVars, calls>>
  PROVE  OwnedKept /\ Quiet
<1>1. UNCHANGED <<stored, tabVars>>
  BY DEF Handle, HandleRest, Lose, Die
<1>2. CASE UNCHANGED calls
  BY <1>1, <1>2, StillUnchanged DEF OwnedKept, Quiet, tabVars
<1>3. CASE \E c \in Calls, a \in Answers : calls[c].phase # "free" /\ Reply(c, a)
  BY <1>1, <1>3, ReplyStill DEF OwnedKept, Quiet, tabVars
<1>4. ASSUME NEW S \in SUBSET Calls, Die(S) PROVE OwnedKept /\ Quiet
  <2>1. \A c \in Calls : \/ calls'[c] = calls[c]
                         \/ calls'[c] = [calls[c] EXCEPT !.phase = "answered", !.a = Refused]
                            /\ calls[c].phase = "held"
    BY <1>4 DEF Die
  <2>2. ASSUME NEW c \in Calls PROVE Still(c)
    <3>1. calls[c] \in Call
      BY PartsOfInv
    <3>2. CASE calls'[c] = [calls[c] EXCEPT !.phase = "answered", !.a = Refused]
               /\ calls[c].phase = "held"
      BY <3>1, <3>2 DEF Still, Waiting, Waits, Call
    <3> QED BY <2>1, <3>2, StillUnchanged
  <2> QED BY <1>1, <2>2 DEF OwnedKept, Quiet, tabVars
<1>5. ASSUME NEW c \in Calls, Handle(c) \/ HandleRest(c) \/ Lose(c)
      PROVE  UNCHANGED calls \/ \E a \in Answers : calls[c].phase # "free" /\ Reply(c, a)
  BY <1>5, BlankedTyped DEF Handle, HandleRest, Lose
<1> QED BY <1>2, <1>3, <1>4, <1>5

(* An answer closes the dialog it was sent from, or one that opened late.  *)
ClosesItsOwn ==
    \A c \in Calls :
        /\ calls[c].phase = "answered" /\ calls'[c] = NoCall
        /\ modal # Closed /\ modal' = Closed /\ page' = page
        => \/ modal.stale
           \/ modal.mode = "create" /\ calls[c].q.kind = "create"
           \/ /\ modal.mode = "edit" /\ calls[c].q.kind = "update"
              /\ calls[c].q.target = modal.id

LEMMA SettleSound ==
  ASSUME TabInv, NEW c \in Calls, Settle(c)
  PROVE  Owned' /\ DialogSound' /\ ClosesItsOwn
<1>1. /\ calls \in [Calls -> Call] /\ busy \in BOOLEAN
      /\ calls'[c] = NoCall /\ \A d \in Calls \ {c} : calls'[d] = calls[d]
      /\ calls[c].phase = "answered" /\ NoCall.phase = "free"
  BY PartsOfInv DEF TabInv, TabOK, Settle, NoCall
<1>2. /\ UNCHANGED <<stored, auth, page, owners, mixed>>
      /\ busy' = (busy /\ ~Waits(c, Forms))
      /\ modal' = IF Waits(c, {"create", "update"}) /\ calls[c].a # Refused
                  THEN Closed ELSE modal
  BY DEF Settle, Forms
<1>3. Owned'
  BY <1>2, OwnedStays DEF TabInv, OwnedKept
<1>4. \A d \in Calls : Waiting(d)' => d # c /\ Waiting(d)
  BY <1>1 DEF Waiting, Waits
<1>5. Waits(c, {"create", "update"}) => Waiting(c)
  BY <1>1 DEF Waiting, Waits, Forms
<1>6. DialogSound'
  <2>1. modal' # Closed => page' = "users" /\ modal' = modal
    BY <1>2 DEF TabInv, DialogSound
  <2>2. ASSUME NEW d \in Calls, Waiting(d)'
        PROVE  /\ busy' /\ \A e \in Calls : Waiting(e)' => e = d
               /\ modal' # Closed /\ ~modal'.stale /\ Waits(d, {"create", "update"})'
                  => SentFrom(d)'
    <3>1. d # c /\ Waiting(d) /\ busy /\ calls'[d] = calls[d]
      BY <1>1, <1>4, <2>2 DEF TabInv, DialogSound
    <3>2. ~Waits(c, Forms)
      BY <1>1, <3>1 DEF TabInv, DialogSound, Waiting
    <3>3. Waits(d, {"create", "update"})' => Waits(d, {"create", "update"})
      BY <3>1 DEF Waits
    <3> QED BY <1>2, <1>4, <2>1, <3>1, <3>2, <3>3 DEF TabInv, DialogSound, SentFrom
  <2> QED BY <2>1, <2>2 DEF DialogSound
<1>7. ClosesItsOwn
  <2> SUFFICES ASSUME NEW d \in Calls, calls[d].phase = "answered", calls'[d] = NoCall,
                      modal # Closed, modal' = Closed, ~modal.stale
               PROVE  SentFrom(d)
    BY DEF ClosesItsOwn, SentFrom
  <2>1. d = c /\ Waits(c, {"create", "update"})
    BY <1>1, <1>2
  <2> QED BY <1>5, <2>1 DEF TabInv, DialogSound
<1> QED BY <1>3, <1>6, <1>7

LEMMA SetAuthSound ==
  ASSUME TabInv, NEW c \in Calls, setAuth(c)
  PROVE  Owned' /\ DialogSound' /\ ClosesItsOwn
<1>1. /\ stored' = auth' /\ mixed' = (mixed \/ isAuthenticated) /\ owners' = owners
      /\ page' = "dashboard" /\ modal' = Closed
      /\ calls' = [Leave("left") EXCEPT ![c] = NoCall]
  BY DEF setAuth, Mount
<1>2. Owned'
  BY <1>1 DEF TabInv, Owned, isAuthenticated
<1>3. \A d \in Calls : ~Waiting(d)'
  <2>1. NoCall.phase = "free"
    BY DEF NoCall
  <2>2. \A d \in Calls : calls[d] \in Call
    BY PartsOfInv DEF TabInv
  <2>3. \A d \in Calls \ {c} : calls'[d].where # "here"
    BY <1>1, <2>2 DEF Leave, Call
  <2>4. calls'[c] = NoCall
    BY <1>1 DEF Leave
  <2> QED BY <2>1, <2>3, <2>4 DEF Waiting, Waits
<1>4. DialogSound'
  BY <1>1, <1>3 DEF DialogSound
<1>5. ClosesItsOwn
  BY <1>1 DEF ClosesItsOwn, TabInv, DialogSound
<1> QED BY <1>2, <1>4, <1>5

LEMMA TabStepSound ==
  ASSUME TabInv, [Next]_vars
  PROVE  Owned' /\ DialogSound' /\ ClosesItsOwn
<1>1. SessionInv /\ Owned /\ DialogSound /\ busy \in BOOLEAN /\ NoCall.phase = "free"
  BY PartsOfInv DEF TabInv, TabOK, NoCall
<1>2. ASSUME Quiet \/ Mounted \/ Opened \/ Submitted PROVE DialogSound' /\ ClosesItsOwn
  BY <1>1, <1>2, DialogStep DEF ClosesItsOwn
<1>3. CASE User
  BY <1>1, <1>2, <1>3, UserMoves, OwnedStays
<1>4. CASE Fetch
  <2>1. /\ UNCHANGED <<stored, calls, auth, page, busy, modal, mixed>>
        /\ stored # Nobody /\ owners' = owners \cup {stored.id}
    BY <1>4 DEF Fetch, callVars
  <2>2. Quiet
    BY <2>1, StillUnchanged DEF Quiet
  <2>3. stored.id \in Ids
    BY <1>1, <2>1, PartsOfInv DEF Session
  <2>4. Owned'
    BY <1>1, <2>1, <2>3 DEF Owned, isAuthenticated
  <2> QED BY <1>2, <2>2, <2>4
<1>5. CASE Elsewhere
  <2>1. UNCHANGED <<calls, page, busy, modal, auth, owners>>
        /\ (mixed' = TRUE \/ UNCHANGED <<stored, mixed>>)
    BY <1>5 DEF Elsewhere
  <2>2. Quiet /\ OwnedKept
    BY <2>1, StillUnchanged DEF Quiet, OwnedKept
  <2> QED BY <1>1, <1>2, <2>2, OwnedStays
<1>6. CASE \/ \E c \in Calls : Handle(c) \/ HandleRest(c) \/ Lose(c)
           \/ \E S \in SUBSET Calls : Die(S)
           \/ UNCHANGED <<stored, tabVars, calls>>
  BY <1>1, <1>2, <1>6, OthersMove, OwnedStays
<1>7. CASE \E c \in Calls : Land(c)
  BY <1>7, SettleSound, SetAuthSound DEF Land
<1> QED BY <1>3, <1>4, <1>5, <1>6, <1>7 DEF Next, vars, callVars

LEMMA TabInvInit == Init => TabInv
<1> SUFFICES ASSUME Init PROVE TabInv
  OBVIOUS
<1>1. SessionInv /\ AccountsInv
  BY SessionInvInit
<1>2. \A c \in Calls : calls[c].phase = "free"
  BY DEF Init, NoCall
<1> QED BY <1>1, <1>2 DEF Init, TabInv, Owned, DialogSound, Waiting

LEMMA TabInvariant == Spec => []TabInv
<1>1. TabInv /\ [Next]_vars => TabInv'
  BY TabStepSound, SessionInvStep, AccountsInvStep DEF TabInv
<1> QED BY <1>1, TabInvInit, PTL DEF Spec

(* Unless a sign-in or a sign-out passed the tab by, the lists in it are   *)
(* those of the account whose name the header shows.                       *)
THEOREM DataOfShownAccountHolds == Spec => []DataOfShownAccount
<1>1. TabInv => DataOfShownAccount
  BY DEF TabInv, Owned, DataOfShownAccount
<1> QED BY <1>1, TabInvariant, PTL

(* No answer closes a dialog other than the one its request was sent from, *)
(* except one that was opened while a save was pending.                    *)
THEOREM DialogsOutliveAnswers == Spec => DialogOutlivesAnswers
<1>1. TabInv /\ [Next]_vars => [ClosesItsOwn]_vars
  BY TabStepSound
<1>2. Spec => [][ClosesItsOwn]_vars
  BY <1>1, TabInvariant, PTL DEF Spec
<1> QED BY <1>2 DEF DialogOutlivesAnswers, ClosesItsOwn
=============================================================================
