------------------------------ MODULE Session -------------------------------
(***************************************************************************)
(* A tab of the signed-in browser: AuthContext, the axios client, the      *)
(* pages Login, Register, Profile and AdminUsers, the routes and the       *)
(* header, on top of the handlers of Accounts.                             *)
(*                                                                         *)
(* The tab keeps its session in React state (auth).  localStorage (stored) *)
(* is common to all tabs of the browser, and a request carries the token   *)
(* that is stored at the moment it is sent.                                *)
(***************************************************************************)
EXTENDS Accounts

CONSTANTS Calls,       \* identities of requests of the tab
          MaxEvents    \* bound: requests that sign in or change something, and
                       \* what happens in other tabs and other browsers

ASSUME SlotAssumption == Slots = Calls
ASSUME EventAssumption == MaxEvents \in Nat

VARIABLES stored,      \* localStorage: token and user
          auth,        \* AuthContext: token and user
          page,        \* the route
          busy,        \* loading, isPending: the submit button is disabled
          modal,       \* the dialog of AdminUsers
          list,        \* the query admin-users: whom it shows
          owners,      \* whose data the tab's query cache holds
          trail,       \* /login or /register is in the tab's history
          calls,       \* the requests that sign in or change something
          events,      \* how many there were, and how much happened elsewhere
          mixed        \* history: a sign-in or a sign-out passed the tab by

tabVars  == <<auth, page, busy, modal, list, owners, trail, mixed>>
callVars == <<calls, events>>
vars     == <<accountVars, stored, tabVars, callVars>>

SignInPages == {"login", "register"}
Pages == SignInPages \cup {"dashboard", "profile", "users"}

(* stale: history, the dialog was opened while a save was pending.         *)
Modal  == [mode : {"closed", "create", "edit"}, id : Ids, stale : BOOLEAN]
Closed == [mode |-> "closed", id |-> Root, stale |-> FALSE]

(* where: the component that waits for the answer is still mounted (here), *)
(* the tab has left its page (left), or was loaded anew (gone).            *)
Call == [phase : {"free", "sent", "held", "answered"}, where : {"here", "left", "gone"},
         q : Request, a : Answers]

NoCall == [phase |-> "free", where |-> "gone", q |-> Blanked, a |-> Refused]

(* Every variable of the server and of the tab keeps its type.             *)
TypeOK ==
    /\ AccountsTypeOK
    /\ stored \in Session \cup {Nobody} /\ auth \in Session \cup {Nobody}
    /\ page \in Pages /\ modal \in Modal
    /\ {busy, trail, mixed} \subseteq BOOLEAN
    /\ list \subseteq Ids /\ owners \subseteq Ids
    /\ calls \in [Calls -> Call]
    /\ events \in 0..MaxEvents

isAuthenticated == auth # Nobody
isAdmin == isAuthenticated /\ auth.role = "admin"

(* ProtectedRoute and AdminRoute: where a tab with session s ends up.      *)
Routed(s, p) ==
    IF p \in SignInPages THEN p
    ELSE IF s = Nobody THEN "login"
    ELSE IF p = "users" /\ s.role # "admin" THEN "dashboard" ELSE p

Sessions == {[id |-> i, role |-> users[i].role] : i \in Live}

(* A tab that has just been loaded, with what an earlier visit stored.     *)
Init ==
    /\ AccountsInit
    /\ stored \in Sessions \cup {Nobody}
    /\ auth = stored
    /\ page = Routed(stored, "dashboard")
    /\ busy = FALSE /\ modal = Closed
    /\ list = {} /\ owners = {}
    /\ trail = FALSE /\ mixed = FALSE
    /\ calls = [c \in Calls |-> NoCall]
    /\ events = 0

-----------------------------------------------------------------------------
(* client.js: the interceptor reads the token when the request leaves.     *)
Send(q) ==
    LET free == {c \in Calls : calls[c].phase = "free"}
        c    == CHOOSE c \in free : TRUE
    IN  /\ free # {} /\ events < MaxEvents
        /\ events' = events + 1
        /\ calls' = [calls EXCEPT ![c] =
              [phase |-> "sent", where |-> "here", q |-> [q EXCEPT !.token = stored],
               a |-> Refused]]
        /\ UNCHANGED <<accountVars, stored>>

(* A form sends and disables its button.                                   *)
Submit(q) ==
    /\ ~busy
    /\ Send(q)
    /\ busy' = TRUE
    /\ UNCHANGED <<auth, page, modal, list, owners, trail, mixed>>

(* Login and Register, handleSubmit.                                       *)
SubmitCredentials(kind, mail, pw) == page = kind /\ Submit(credentials(kind, mail, pw))

(* Profile, handleSubmit, once the two new passwords agree.                *)
SubmitPassword(old, new) == page = "profile" /\ Submit(changePassword(old, new))

(* AdminUsers, openCreate, openEdit and onClose.                           *)
SetModal(m) ==
    /\ page = "users"
    /\ modal' = m
    /\ UNCHANGED <<accountVars, stored, callVars, auth, page, busy, list, owners,
                   trail, mixed>>

openCreate  == modal = Closed /\ SetModal([mode |-> "create", id |-> Root, stale |-> busy])
openEdit(i) == /\ modal = Closed /\ i \in list
               /\ SetModal([mode |-> "edit", id |-> i, stale |-> busy])
closeModal  == modal # Closed /\ SetModal(Closed)

(* Mutant: a new account needs no password.                                *)
handleSaveBlank(mail, pw, role) ==
    \/ modal.mode = "create" /\ Submit(createUser(mail, pw, role))
    \/ modal.mode = "edit" /\ Submit(updateUser(modal.id, pw, role))

(* UserModal, handleSubmit, and handleSave: a new account with everything, *)
(* or the role, as it was or chosen anew, and a password unless blank.     *)
handleSave(mail, pw, role) ==
    \/ modal.mode = "create" /\ pw # Blank /\ Submit(createUser(mail, pw, role))
    \/ modal.mode = "edit" /\ Submit(updateUser(modal.id, pw, role))

(* The Delete button of every row but one's own.                           *)
removeUser(i) ==
    /\ page = "users" /\ modal = Closed
    /\ i \in list /\ i # auth.id
    /\ Send(deleteUser(i))
    /\ UNCHANGED tabVars

-----------------------------------------------------------------------------
(* The page is unmounted: its state is gone, its requests are not.         *)
Mount(p) == page' = p /\ busy' = FALSE /\ modal' = Closed

Leave(where) == [c \in Calls |-> IF calls[c].where = "gone" THEN calls[c]
                                 ELSE [calls[c] EXCEPT !.where = where]]

(* Mutant: the queries of the tab are not dropped.                         *)
handleLogoutKeepsCache ==
    /\ page \notin SignInPages
    /\ stored' = Nobody /\ auth' = Nobody /\ mixed' = FALSE
    /\ Mount("login")
    /\ calls' = Leave("left")
    /\ UNCHANGED <<accountVars, list, owners, trail, events>>

(* Header, handleLogout: clearAuth, queryClient.clear, navigate.           *)
handleLogout ==
    /\ page \notin SignInPages
    /\ stored' = Nobody /\ auth' = Nobody /\ mixed' = FALSE
    /\ owners' = {} /\ list' = {}
    /\ Mount("login")
    /\ calls' = Leave("left")
    /\ UNCHANGED <<accountVars, trail, events>>

(* The links between Login and Register, the sidebar and the header.       *)
Links == IF page \in SignInPages THEN SignInPages
         ELSE {"dashboard", "profile"} \cup (IF isAdmin THEN {"users"} ELSE {})

(* A link, or the browser's Back to a sign-in page the tab came along: the *)
(* routes /login and /register do not ask whether there is a session.      *)
Navigate(p) ==
    /\ p # page
    /\ p \in Links \/ (trail /\ p = "login")
    /\ Mount(p)
    /\ trail' = (trail \/ page \in SignInPages)
    /\ calls' = Leave("left")
    /\ UNCHANGED <<accountVars, stored, auth, list, owners, mixed, events>>

(* The document is loaded again: AuthProvider starts from localStorage.    *)
Reload ==
    /\ auth' = stored /\ mixed' = FALSE
    /\ owners' = {} /\ list' = {}
    /\ Mount(Routed(stored, page))
    /\ calls' = Leave("gone")
    /\ UNCHANGED <<accountVars, stored, trail, events>>

(* A query of the page is answered; RequireAuth decides by the stored      *)
(* token whose rows come back, RequireAdmin whether the users do.          *)
Fetch ==
    /\ page \notin SignInPages /\ stored # Nobody
    /\ owners' = owners \cup {stored.id}
    /\ list' = IF page = "users" /\ stored.role = "admin" THEN Live ELSE list
    /\ UNCHANGED <<accountVars, stored, callVars, auth, page, busy, modal, trail, mixed>>

-----------------------------------------------------------------------------
(* The server takes the request, in a slot of its own.                     *)
Reply(c, a) ==
    calls' = [calls EXCEPT
        ![c].phase = IF a = Working THEN "held" ELSE "answered",
        ![c].q = [Blanked EXCEPT !.kind = calls[c].q.kind, !.target = calls[c].q.target],
        ![c].a = a]

Handle(c) ==
    /\ calls[c].phase = "sent"
    /\ \E a \in Answers : /\ Serve(calls[c].q, a)
                          /\ a = Working => held[c] = Nothing /\ held'[c] # Nothing
                          /\ Reply(c, a)
    /\ UNCHANGED <<stored, tabVars, events>>

HandleRest(c) ==
    /\ \E a \in Answers : /\ Finish(c, a)
                          /\ IF calls[c].phase = "held" THEN Reply(c, a) ELSE UNCHANGED calls
    /\ UNCHANGED <<stored, tabVars, events>>

(* The connection breaks: before the handler, in it (which goes on: its    *)
(* statements do not run in the context of the request), or after it.      *)
Lose(c) ==
    /\ calls[c].phase \in {"sent", "held"} \/ (calls[c].phase = "answered" /\ calls[c].a # Refused)
    /\ Reply(c, Refused)
    /\ UNCHANGED <<accountVars, stored, tabVars, events>>

(* The process of some requests dies.                                      *)
Die(S) ==
    /\ Crash(S)
    /\ calls' = [c \in Calls |-> IF c \in S /\ calls[c].phase = "held"
                                 THEN [calls[c] EXCEPT !.phase = "answered", !.a = Refused]
                                 ELSE calls[c]]
    /\ UNCHANGED <<stored, tabVars, events>>

(* Another tab of the browser signs out or in, or another browser changes  *)
(* the table.                                                              *)
Elsewhere ==
    /\ events < MaxEvents /\ events' = events + 1
    /\ \/ /\ stored' \in (Sessions \cup {Nobody}) \ {stored}
          /\ mixed' = TRUE
          /\ UNCHANGED accountVars
       \/ /\ \E q \in SignIns \cup Requests, t \in Sessions \cup {Nobody} :
                q.kind = "delete" /\ Serve([q EXCEPT !.token = t], Done)
          /\ UNCHANGED <<stored, mixed>>
    /\ UNCHANGED <<calls, auth, page, busy, modal, list, owners, trail>>

(* The answer is a session, and the tab was not loaded anew meanwhile.     *)
SignsIn(c) == calls[c].a.session # Nobody /\ calls[c].where # "gone"

(* AuthContext, setAuth: localStorage first, then the state of this tab;   *)
(* then navigate, from whatever page the tab shows by now.                 *)
setAuth(c) ==
    /\ calls[c].phase = "answered" /\ SignsIn(c)
    /\ stored' = calls[c].a.session /\ auth' = calls[c].a.session
    /\ mixed' = (mixed \/ isAuthenticated)
    /\ Mount("dashboard")
    /\ calls' = [Leave("left") EXCEPT ![c] = NoCall]
    /\ UNCHANGED <<accountVars, list, owners, trail, events>>

Waits(c, kinds) == calls[c].where = "here" /\ calls[c].q.kind \in kinds

(* Mutant: no finally, a refused submission leaves loading set.            *)
SettleOnlySuccess(c) ==
    /\ calls[c].phase = "answered" /\ ~SignsIn(c)
    /\ calls' = [calls EXCEPT ![c] = NoCall]
    /\ busy' = (busy /\ (~Waits(c, SignInPages \cup {"password", "create", "update"})
                         \/ calls[c].a = Refused))
    /\ modal' = IF Waits(c, {"create", "update"}) /\ calls[c].a # Refused THEN Closed ELSE modal
    /\ UNCHANGED <<accountVars, stored, auth, page, list, owners, trail, mixed, events>>

(* Mutant: a deletion closes the dialog, too.                              *)
SettleDelete(c) ==
    /\ calls[c].phase = "answered" /\ ~SignsIn(c)
    /\ calls' = [calls EXCEPT ![c] = NoCall]
    /\ busy' = (busy /\ ~Waits(c, SignInPages \cup {"password", "create", "update"}))
    /\ modal' = IF Waits(c, {"create", "update", "delete"}) /\ calls[c].a # Refused
                THEN Closed ELSE modal
    /\ UNCHANGED <<accountVars, stored, auth, page, list, owners, trail, mixed, events>>

(* Every other answer: the pending flag falls, a saved dialog closes, an   *)
(* error is shown.  onSuccess closes the dialog that is open by now.       *)
Settle(c) ==
    /\ calls[c].phase = "answered" /\ ~SignsIn(c)
    /\ calls' = [calls EXCEPT ![c] = NoCall]
    /\ busy' = (busy /\ ~Waits(c, SignInPages \cup {"password", "create", "update"}))
    /\ modal' = IF Waits(c, {"create", "update"}) /\ calls[c].a # Refused THEN Closed ELSE modal
    /\ UNCHANGED <<accountVars, stored, auth, page, list, owners, trail, mixed, events>>

Land(c) == setAuth(c) \/ Settle(c)

-----------------------------------------------------------------------------
User ==
    \/ \E kind \in SignInPages, mail \in Mail, pw \in Passwords : SubmitCredentials(kind, mail, pw)
    \/ \E old, new \in Passwords : SubmitPassword(old, new)
    \/ \E mail \in Mail, pw \in Passwords \cup {Blank}, role \in Roles : handleSave(mail, pw, role)
    \/ openCreate \/ closeModal
    \/ \E i \in Ids : openEdit(i) \/ removeUser(i)
    \/ handleLogout \/ Reload
    \/ \E p \in Pages : Navigate(p)

Next ==
    \/ User \/ Fetch \/ Elsewhere
    \/ \E c \in Calls : Handle(c) \/ HandleRest(c) \/ Lose(c) \/ Land(c)
    \/ \E S \in SUBSET Calls : Die(S)
    \/ /\ SeedCount /\ events < MaxEvents /\ events' = events + 1
       /\ UNCHANGED <<stored, tabVars, calls>>
    \/ SeedWrite /\ UNCHANGED <<stored, tabVars, callVars>>

(* The server answers, and the browser runs the continuation.              *)
Fairness == \A c \in Calls : /\ WF_vars(Handle(c)) /\ WF_vars(HandleRest(c))
                             /\ WF_vars(Land(c))

Spec == Init /\ [][Next]_vars /\ Fairness
-----------------------------------------------------------------------------
(* The lists in a tab are those of the account its header shows, unless    *)
(* another tab of the browser signed in or out behind its back, or the tab *)
(* itself signed in over a session, which does not clear the queries.      *)
DataOfShownAccount ==
    ~mixed => owners \subseteq {i \in Ids : isAuthenticated /\ auth.id = i}

(* An answer closes no dialog but the one it was sent from: what was typed *)
(* into another one is lost only if that was opened while a save was       *)
(* pending (onSuccess says setModal(null), whatever is open).              *)
DialogOutlivesAnswers ==
    [][\A c \in Calls :
          /\ calls[c].phase = "answered" /\ calls'[c] = NoCall
          /\ modal # Closed /\ modal' = Closed /\ page' = page
          => \/ modal.stale
             \/ modal.mode = "create" /\ calls[c].q.kind = "create"
             \/ /\ modal.mode = "edit" /\ calls[c].q.kind = "update"
                /\ calls[c].q.target = modal.id]_vars

(* A pending form becomes usable again, whatever becomes of its request:   *)
(* refused, lost on the way, or answered.                                  *)
SubmitComesBack == busy ~> ~busy

(* What the tab sends is among the requests that Accounts takes from any   *)
(* client, with a token that some sign-in handed out: so whatever is true  *)
(* of Accounts with its most general client is true of it here.            *)
AnyClientSendsThis ==
    \A c \in Calls : calls[c].phase = "sent" =>
        /\ calls[c].q.token \in Tokens
        /\ [calls[c].q EXCEPT !.token = Nobody] \in SignIns \cup Requests
=============================================================================
