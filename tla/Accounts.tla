------------------------------ MODULE Accounts ------------------------------
(***************************************************************************)
(* The table users and the handlers of cronpilot-api that read and write   *)
(* it (handler/auth.go, handler/admin.go, seedAdmin in main.go).           *)
(*                                                                         *)
(* A handler is an action of a request q and its answer a.  Two of them    *)
(* look at the table before they write it, in two statements without a     *)
(* transaction: between the two the request is held by one of Slots, and   *)
(* every other handler may run.                                            *)
(***************************************************************************)
EXTENDS Naturals, FiniteSets

CONSTANTS Ids,         \* primary keys of users
          Root,        \* the row that the first seedAdmin inserted
          Addrs,       \* mail addresses, up to the case of their letters
          RootAddr,    \* ADMIN_EMAIL
          Typings,     \* how the letters of an address may be typed
          Passwords,
          RootPw,      \* ADMIN_PASSWORD
          Blank,       \* a password field that was left empty
          Slots,       \* goroutines that hold a request between two statements
          Nobody,      \* no session
          MaxBoots     \* bound: starts of an API process after the first

ASSUME RootAssumption == Root \in Ids
ASSUME AddrAssumption == RootAddr \in Addrs
ASSUME TypingAssumption == "lower" \in Typings
ASSUME PwAssumption == RootPw \in Passwords /\ Blank \notin Passwords
ASSUME BootAssumption == MaxBoots \in Nat

VARIABLES users,       \* the table
          held,        \* the requests between two statements
          boot,        \* the seedAdmin of a starting process
          boots,       \* how many processes have started
          causes       \* history: what may have cost the last administrator

accountVars == <<users, held, boot, boots, causes>>

Roles == {"user", "admin"}
Mail  == [addr : Addrs, typed : Typings]

(* byAdmin: history, the row was inserted by AdminCreateUser.              *)
UserRow == [state : {"unborn", "live", "deleted"}, mail : Mail, role : Roles,
            pw : Passwords, byAdmin : BOOLEAN]

(* What a token claims, and the user object that is returned with it.      *)
Session == [id : Ids, role : Roles]

ASSUME NobodyAssumption == Nobody \notin Session

Request == [kind : {"login", "register", "password", "create", "update", "delete"},
            token : Session \cup {Nobody}, mail : Mail, old : Passwords,
            new : Passwords \cup {Blank}, target : Ids, role : Roles]

(* held: no answer yet, the request is in a slot.                          *)
Working == [is |-> "held", session |-> Nobody]
Done    == [is |-> "done", session |-> Nobody]
Refused == [is |-> "refused", session |-> Nobody]
SignedIn(i, role) == [is |-> "done", session |-> [id |-> i, role |-> role]]
Plain   == {Working, Done, Refused}
Answers == Plain \cup {SignedIn(t.id, t.role) : t \in Session}

(* nothing: the slot is free.  overtaken: history, another request changed *)
(* what this one has looked at.                                            *)
Held == [doing : {"nothing", "demotion", "password"}, id : Ids, old : Passwords,
         new : Passwords \cup {Blank}, overtaken : BOOLEAN]

RootMail == [addr |-> RootAddr, typed |-> "lower"]
Nothing  == [doing |-> "nothing", id |-> Root, old |-> RootPw, new |-> Blank,
             overtaken |-> FALSE]

(* Every variable of the server keeps its type.                            *)
AccountsTypeOK == /\ users \in [Ids -> UserRow]
                  /\ held \in [Slots -> Held]
                  /\ boot \in {"up", "insert", "promote"}
                  /\ boots \in Nat
                  /\ causes \subseteq {"race", "outdated"}

Live   == {i \in Ids : users[i].state = "live"}
Unborn == {i \in Ids : users[i].state = "unborn"}
Admins == {i \in Live : users[i].role = "admin"}
Taken(mail) == \E i \in Live : users[i].mail = mail

(* strings.ToLower(strings.TrimSpace(...))                                 *)
Normalised(mail) == [mail EXCEPT !.typed = "lower"]

Row(mail, role, pw, byAdmin) ==
    [state |-> "live", mail |-> mail, role |-> role, pw |-> pw, byAdmin |-> byAdmin]
NoRow == [Row(RootMail, "user", RootPw, FALSE) EXCEPT !.state = "unborn"]

SignedUp(mail, role) == Row(Normalised(mail), role, RootPw, FALSE)

(* The table after the first seedAdmin and any number of sign-ups.         *)
AccountsInit ==
    /\ users \in [Ids -> {SignedUp(m, r) : m \in Mail, r \in Roles} \cup {NoRow}]
    /\ users[Root] = Row(RootMail, "admin", RootPw, FALSE)
    /\ \A i, j \in Live : users[i].mail = users[j].mail => i = j
    /\ held = [s \in Slots |-> Nothing]
    /\ boot = "up" /\ boots = 0 /\ causes = {}

-----------------------------------------------------------------------------
(* RequireAuth trusts the token, RequireAdmin the role in it.              *)
RequireAuth(q)  == q.token # Nobody
RequireAdmin(q) == RequireAuth(q) /\ q.token.role = "admin"

(* Ids is finite: an INSERT that finds none left fails (a bound).          *)
Rejected(mail) == Taken(mail) \/ Unborn = {}
Insert(row) == \E i \in Unborn : users' = [users EXCEPT ![i] = row]

(* A row was changed: whoever counted or compared looked at another table. *)
Overtake(S) == [s \in Slots |-> IF s \in S THEN [held[s] EXCEPT !.overtaken = TRUE]
                                           ELSE held[s]]
Demotions   == {s \in Slots : held[s].doing = "demotion"}
Changing(i) == {s \in Slots : held[s].doing = "password" /\ held[s].id = i}

Hold(h) == \E s \in Slots : held[s] = Nothing /\ held' = [held EXCEPT ![s] = h]

(* Mutant: the address is compared as it was typed.                        *)
RegisterAsTyped(q, a) ==
    /\ q.kind = "register"
    /\ IF Rejected(q.mail) THEN a = Refused /\ UNCHANGED users
       ELSE /\ Insert(Row(q.mail, "user", q.new, FALSE))
            /\ \E i \in Unborn : users'[i].state = "live" /\ a = SignedIn(i, "user")
    /\ UNCHANGED <<held, causes>>

(* INSERT INTO users; a unique violation is 409.                           *)
Register(q, a) ==
    /\ q.kind = "register"
    /\ IF Rejected(Normalised(q.mail)) THEN a = Refused /\ UNCHANGED users
       ELSE /\ Insert(Row(Normalised(q.mail), "user", q.new, FALSE))
            /\ \E i \in Unborn : users'[i].state = "live" /\ a = SignedIn(i, "user")
    /\ UNCHANGED <<held, causes>>

Login(q, a) ==
    /\ q.kind = "login"
    /\ LET found == {i \in Live : users[i].mail = Normalised(q.mail) /\ users[i].pw = q.new} IN
       IF found = {} THEN a = Refused
       ELSE \E i \in found : a = SignedIn(i, users[i].role)
    /\ UNCHANGED <<users, held, causes>>

(* Mutant: the current password is not compared.                           *)
CheckPasswordNot(q, a) ==
    /\ q.kind = "password"
    /\ IF RequireAuth(q) /\ q.token.id \in Live
       THEN a = Working /\ Hold([Nothing EXCEPT !.doing = "password", !.id = q.token.id,
                                               !.old = q.old, !.new = q.new])
       ELSE a = Refused /\ UNCHANGED held
    /\ UNCHANGED <<users, causes>>

(* ChangePassword reads the hash and compares ...                          *)
CheckPassword(q, a) ==
    /\ q.kind = "password"
    /\ IF RequireAuth(q) /\ q.token.id \in Live /\ users[q.token.id].pw = q.old
       THEN a = Working /\ Hold([Nothing EXCEPT !.doing = "password", !.id = q.token.id,
                                               !.old = q.old, !.new = q.new])
       ELSE a = Refused /\ UNCHANGED held
    /\ UNCHANGED <<users, causes>>

(* ... and writes whatever the row holds by then.  No row is no error.     *)
WritePassword(s, a) ==
    /\ held[s].doing = "password" /\ a = Done
    /\ users' = [i \in Ids |-> IF i = held[s].id /\ i \in Live
                               THEN [users[i] EXCEPT !.pw = held[s].new] ELSE users[i]]
    /\ held' = [Overtake(Changing(held[s].id)) EXCEPT ![s] = Nothing]
    /\ UNCHANGED causes

(* The address is stored as it was typed.                                  *)
AdminCreateUser(q, a) ==
    /\ q.kind = "create"
    /\ IF RequireAdmin(q) /\ ~Rejected(q.mail)
       THEN a = Done /\ Insert(Row(q.mail, q.role, q.new, TRUE))
       ELSE a = Refused /\ UNCHANGED users
    /\ UNCHANGED <<held, causes>>

(* AdminUpdateUser, the UPDATE.                                            *)
WriteUser(i, role, new, a) ==
    IF i \in Live
    THEN /\ users' = [users EXCEPT ![i].role = role,
                                   ![i].pw = IF new = Blank THEN @ ELSE new]
         /\ a = Done
    ELSE UNCHANGED users /\ a = Refused

(* Who is overtaken by the UPDATE.                                         *)
Outdates(i, role, new) ==
    Overtake((IF role = "user" THEN Demotions ELSE {})
             \cup (IF new = Blank THEN {} ELSE Changing(i)))

(* Mutant: the count includes the user who is demoted.                     *)
AdminUpdateUserAll(q, a) ==
    /\ q.kind = "update"
    /\ \/ /\ RequireAdmin(q) /\ q.role = "user" /\ Admins # {}
          /\ a = Working /\ Hold([Nothing EXCEPT !.doing = "demotion", !.id = q.target,
                                                !.new = q.new])
          /\ UNCHANGED users
       \/ /\ RequireAdmin(q) /\ q.role = "admin"
          /\ WriteUser(q.target, q.role, q.new, a)
          /\ held' = Outdates(q.target, q.role, q.new)
    /\ UNCHANGED causes

(* AdminUpdateUser: a demotion first counts the other administrators.      *)
AdminUpdateUser(q, a) ==
    /\ q.kind = "update"
    /\ \/ /\ ~RequireAdmin(q) \/ (q.role = "user" /\ Admins \ {q.target} = {})
          /\ a = Refused /\ UNCHANGED <<users, held>>
       \/ /\ RequireAdmin(q) /\ q.role = "user" /\ Admins \ {q.target} # {}
          /\ a = Working /\ Hold([Nothing EXCEPT !.doing = "demotion", !.id = q.target,
                                                !.new = q.new])
          /\ UNCHANGED users
       \/ /\ RequireAdmin(q) /\ q.role = "admin"
          /\ WriteUser(q.target, q.role, q.new, a)
          /\ held' = Outdates(q.target, q.role, q.new)
    /\ UNCHANGED causes

(* Mutant: a password that was left blank is written too.                  *)
WriteDemotionBlank(s, a) ==
    /\ held[s].doing = "demotion" /\ held[s].id \in Live /\ a = Done
    /\ users' = [users EXCEPT ![held[s].id].role = "user", ![held[s].id].pw = held[s].new]
    /\ held' = [held EXCEPT ![s] = Nothing]
    /\ UNCHANGED causes

(* ... and then updates the row, without looking again.                    *)
WriteDemotion(s, a) ==
    /\ held[s].doing = "demotion"
    /\ WriteUser(held[s].id, "user", held[s].new, a)
    /\ held' = [Outdates(held[s].id, "user", held[s].new) EXCEPT ![s] = Nothing]
    /\ causes' = IF held[s].overtaken THEN causes \cup {"race"} ELSE causes

(* Everyone but the caller can be deleted, the last administrator by the   *)
(* holder of a token that is older than the holder's row.                  *)
AdminDeleteUser(q, a) ==
    /\ q.kind = "delete"
    /\ IF RequireAdmin(q) /\ q.target # q.token.id /\ q.target \in Live
       THEN /\ a = Done
            /\ users' = [users EXCEPT ![q.target] = [NoRow EXCEPT !.state = "deleted"]]
            /\ held' = Overtake(Demotions \cup Changing(q.target))
            /\ causes' = IF q.token.id \in Admins THEN causes ELSE causes \cup {"outdated"}
       ELSE a = Refused /\ UNCHANGED <<users, held, causes>>

(* The first statements of a request, and the last ones of a held one.     *)
Serve(q, a) ==
    /\ \/ Register(q, a) \/ Login(q, a) \/ CheckPassword(q, a)
       \/ AdminCreateUser(q, a) \/ AdminUpdateUser(q, a) \/ AdminDeleteUser(q, a)
    /\ UNCHANGED <<boot, boots>>

Finish(s, a) ==
    /\ WritePassword(s, a) \/ WriteDemotion(s, a)
    /\ UNCHANGED <<boot, boots>>

(* A process dies, with what it held.                                      *)
Crash(S) ==
    /\ \E s \in S : held[s] # Nothing
    /\ held' = [s \in Slots |-> IF s \in S THEN Nothing ELSE held[s]]
    /\ UNCHANGED <<users, boot, boots, causes>>

(* A process starts while others serve: seedAdmin looks for ADMIN_EMAIL    *)
(* and then inserts the row or makes it an administrator again.            *)
SeedCount ==
    /\ boot = "up" /\ boots < MaxBoots
    /\ boots' = boots + 1
    /\ boot' = IF Taken(RootMail) THEN "promote" ELSE "insert"
    /\ UNCHANGED <<users, held, causes>>

SeedWrite ==
    /\ \/ /\ boot = "promote"
          /\ users' = [i \in Ids |-> IF i \in Live /\ users[i].mail = RootMail
                                     THEN [users[i] EXCEPT !.role = "admin"] ELSE users[i]]
       \/ /\ boot = "insert"
          /\ IF Rejected(RootMail) THEN UNCHANGED users
                                ELSE Insert(Row(RootMail, "admin", RootPw, FALSE))
    /\ boot' = "up"
    /\ UNCHANGED <<held, boots, causes>>

-----------------------------------------------------------------------------
(* A request has no token, or the one that some login of the user handed   *)
(* out, whatever the row says by now.                                      *)
Tokens == {t \in Session : users[t.id].state # "unborn"} \cup {Nobody}

Blanked == [kind |-> "login", token |-> Nobody, mail |-> RootMail, old |-> RootPw,
            new |-> Blank, target |-> Root, role |-> "user"]

credentials(kind, mail, pw) == [Blanked EXCEPT !.kind = kind, !.mail = mail, !.new = pw]
changePassword(old, new)    == [Blanked EXCEPT !.kind = "password", !.old = old, !.new = new]
createUser(mail, pw, role)  ==
    [Blanked EXCEPT !.kind = "create", !.mail = mail, !.new = pw, !.role = role]
updateUser(i, pw, role)     ==
    [Blanked EXCEPT !.kind = "update", !.target = i, !.new = pw, !.role = role]
deleteUser(i)               == [Blanked EXCEPT !.kind = "delete", !.target = i]

SignIns == {credentials(k, m, w) : k \in {"login", "register"}, m \in Mail, w \in Passwords}
Requests ==
    {changePassword(o, w) : o \in Passwords, w \in Passwords}
    \cup {createUser(m, w, r) : m \in Mail, w \in Passwords, r \in Roles}
    \cup {updateUser(i, w, r) : i \in Ids, w \in Passwords \cup {Blank}, r \in Roles}
    \cup {deleteUser(i) : i \in Ids}

(* Every request that a client could make, at any time.                    *)
AccountsNext ==
    \/ \E q \in SignIns, a \in Answers : Serve(q, a)
    \/ \E q \in Requests, t \in Tokens, a \in Plain : Serve([q EXCEPT !.token = t], a)
    \/ \E s \in Slots, a \in Plain : Finish(s, a)
    \/ \E S \in SUBSET Slots : Crash(S)
    \/ SeedCount \/ SeedWrite

AccountsSpec == AccountsInit /\ [][AccountsNext]_accountVars

-----------------------------------------------------------------------------
(* Some row is an administrator, although the check of AdminUpdateUser and *)
(* its UPDATE are two statements and AdminDeleteUser checks nothing but    *)
(* the caller's id, unless a demotion was overtaken by another change or   *)
(* somebody used a token that still said admin after the row did not.      *)
AdminLostOnlyBy == Admins = {} => causes # {}

(* ChangePassword replaces no password but the one the caller proved to    *)
(* know, unless another change of it fell between the compare and the      *)
(* UPDATE, which has no condition.                                         *)
OldPasswordProved ==
    [][\A s \in Slots : /\ held[s].doing = "password" /\ held'[s] = Nothing
                        /\ users' # users
                        => held[s].overtaken \/ users[held[s].id].pw = held[s].old]_accountVars

(* Whoever registered, and the seeded administrator, is found by a login   *)
(* that gives the address in any case of its letters, and nobody else is.  *)
(* (Of an account that an administrator made this is not true.)            *)
LoginFindsAccount ==
    \A i \in Live, form \in Typings :
        ~users[i].byAdmin
        => {j \in Live : users[j].mail = Normalised([users[i].mail EXCEPT !.typed = form])} = {i}
=============================================================================
