--------------------------- MODULE Accounts_proof ---------------------------
(***************************************************************************)
(* Proofs about Accounts, for every set of rows, addresses, passwords and  *)
(* slots, and however many processes start.                                *)
(*                                                                         *)
(* The invariant says of the requests between two statements what their    *)
(* first statement saw and what is still true of it; of the addresses why  *)
(* a login finds one row; and of the administrators why one is left.       *)
(***************************************************************************)
EXTENDS Accounts, TLAPS

(* A held password change: the row it compared still has that password, or *)
(* the change was overtaken.  (A row that was never born is held by none.) *)
HeldSound ==
    \A s \in Slots : held[s].doing = "password" =>
        /\ held[s].new \in Passwords
        /\ held[s].id \notin Unborn
        /\ held[s].overtaken \/ users[held[s].id].pw = held[s].old

(* The unique address, and its form unless an administrator typed it.      *)
AddressesSound ==
    /\ \A i \in Live : ~users[i].byAdmin => users[i].mail.typed = "lower"
    /\ \A i, j \in Live : users[i].mail = users[j].mail => i = j

(* A held demotion still has an administrator beside it, or was overtaken. *)
DemotionsSound ==
    \A s \in Demotions : held[s].overtaken \/ Admins \ {held[s].id} # {}

AccountsInv == /\ AccountsTypeOK
               /\ HeldSound
               /\ AddressesSound
               /\ DemotionsSound
               /\ AdminLostOnlyBy

(* What a client sends: a password, where one is written without asking    *)
(* whether it was left blank.                                              *)
Sendable(q) == /\ q \in Request
               /\ q.kind \in {"register", "password", "create"} => q.new \in Passwords

LEMMA ClientsSend ==
    /\ \A q \in SignIns : Sendable(q)
    /\ \A q \in Requests, t \in Tokens : Sendable([q EXCEPT !.token = t])
<1>0. Blanked \in Request
  BY RootAssumption, AddrAssumption, TypingAssumption, PwAssumption
  DEF Blanked, Request, Mail, RootMail, Roles
<1>1. ASSUME NEW q \in SignIns PROVE Sendable(q)
  <2>1. PICK k \in {"login", "register"}, m \in Mail, w \in Passwords :
             q = credentials(k, m, w)
    BY DEF SignIns
  <2> QED BY <1>0, <2>1 DEF credentials, Sendable, Request
<1>2. ASSUME NEW q \in Requests, NEW t \in Tokens
      PROVE  Sendable([q EXCEPT !.token = t])
  <2>1. t \in Session \cup {Nobody}
    BY DEF Tokens
  <2>2. Sendable(q)
    <3>1. CASE \E o \in Passwords, w \in Passwords : q = changePassword(o, w)
      BY <1>0, <3>1 DEF changePassword, Sendable, Request
    <3>2. CASE \E m \in Mail, w \in Passwords, r \in Roles : q = createUser(m, w, r)
      BY <1>0, <3>2 DEF createUser, Sendable, Request
    <3>3. CASE \E i \in Ids, w \in Passwords \cup {Blank}, r \in Roles :
                  q = updateUser(i, w, r)
      BY <1>0, <3>3 DEF updateUser, Sendable, Request
    <3>4. CASE \E i \in Ids : q = deleteUser(i)
      BY <1>0, <3>4 DEF deleteUser, Sendable, Request
    <3> QED BY <3>1, <3>2, <3>3, <3>4 DEF Requests
  <2> QED BY <2>1, <2>2 DEF Sendable, Request
<1> QED BY <1>1, <1>2

-----------------------------------------------------------------------------
(* Addresses: rows keep theirs, and a new one is not taken.                *)

LEMMA RowsKeepAddresses ==
  ASSUME AddressesSound,
         \A i \in Live' : /\ i \in Live /\ users'[i].mail = users[i].mail
                          /\ users'[i].byAdmin = users[i].byAdmin
  PROVE  AddressesSound'
  BY DEF AddressesSound

LEMMA NewAddress ==
  ASSUME AccountsTypeOK, AddressesSound, NEW row \in UserRow, row.state = "live",
         ~Taken(row.mail), ~row.byAdmin => row.mail.typed = "lower", Insert(row)
  PROVE  AddressesSound'
<1>1. PICK i \in Unborn : users' = [users EXCEPT ![i] = row]
  BY DEF Insert
<1>2. i \in Ids /\ i \notin Live /\ Live' = Live \cup {i} /\ users'[i] = row
  BY <1>1 DEF AccountsTypeOK, Unborn, Live
<1>3. \A j \in Live : users'[j] = users[j] /\ users[j].mail # row.mail
  BY <1>1, <1>2 DEF AccountsTypeOK, Live, Taken
<1> QED BY <1>2, <1>3 DEF AddressesSound

(* An insertion also keeps the type, and costs nobody anything.            *)
LEMMA Inserted ==
  ASSUME AccountsTypeOK, NEW row \in UserRow, row.state = "live", Insert(row)
  PROVE  /\ users' \in [Ids -> UserRow]
         /\ Unborn' \subseteq Unborn
         /\ \A i \in Ids \ Unborn : users'[i] = users[i]
         /\ Admins \subseteq Admins'
  BY DEF AccountsTypeOK, Insert, Unborn, Admins, Live

-----------------------------------------------------------------------------
(* The conjuncts about held requests, for steps that leave them alone.     *)

LEMMA NothingHeldMoves ==
  ASSUME AccountsInv, UNCHANGED <<held, causes>>,
         Unborn' \subseteq Unborn, Admins \subseteq Admins',
         \A i \in Ids \ Unborn : users'[i].pw = users[i].pw
  PROVE  HeldSound' /\ DemotionsSound' /\ AdminLostOnlyBy'
<1>1. HeldSound'
  <2> SUFFICES ASSUME NEW s \in Slots, held[s].doing = "password"
               PROVE  /\ held[s].new \in Passwords /\ held[s].id \notin Unborn'
                      /\ held[s].overtaken \/ users'[held[s].id].pw = held[s].old
    BY DEF HeldSound
  <2>1. held[s].id \in Ids \ Unborn
    BY DEF AccountsInv, HeldSound, AccountsTypeOK, Held
  <2> QED BY <2>1 DEF AccountsInv, HeldSound
<1>2. DemotionsSound'
  BY DEF AccountsInv, DemotionsSound, Demotions
<1>3. AdminLostOnlyBy'
  BY DEF AccountsInv, AdminLostOnlyBy
<1> QED BY <1>1, <1>2, <1>3

LEMMA NewRow ==
  ASSUME AccountsInv, NEW row \in UserRow, row.state = "live", Insert(row),
         ~Taken(row.mail), ~row.byAdmin => row.mail.typed = "lower",
         UNCHANGED <<held, causes>>
  PROVE  HeldSound' /\ AddressesSound' /\ DemotionsSound' /\ AdminLostOnlyBy'
         /\ users' \in [Ids -> UserRow]
<1>1. AccountsTypeOK /\ AddressesSound
  BY DEF AccountsInv
<1>2. AddressesSound'
  BY <1>1, NewAddress
<1>3. /\ users' \in [Ids -> UserRow] /\ Unborn' \subseteq Unborn /\ Admins \subseteq Admins'
      /\ \A i \in Ids \ Unborn : users'[i] = users[i]
  BY <1>1, Inserted
<1> QED BY <1>2, <1>3, NothingHeldMoves

(* What a step may do to the slots: free them, leave them, or mark them as *)
(* overtaken, and the marked ones ask for nothing.                         *)
Kept(s) == held'[s] = held[s]
Marked(s) == held'[s] = [held[s] EXCEPT !.overtaken = TRUE]

LEMMA ChangesSurvive ==
  ASSUME AccountsTypeOK, HeldSound, Unborn' \subseteq Unborn,
         \A s \in Slots : \/ held'[s] = Nothing
                          \/ Marked(s)
                          \/ Kept(s) /\ (held[s].doing = "password" =>
                                users'[held[s].id].pw = users[held[s].id].pw)
  PROVE  HeldSound'
<1> SUFFICES ASSUME NEW s \in Slots, held'[s].doing = "password"
             PROVE  /\ held'[s].new \in Passwords /\ held'[s].id \notin Unborn'
                    /\ held'[s].overtaken \/ users'[held'[s].id].pw = held'[s].old
  BY DEF HeldSound
<1>1. held[s] \in Held
  BY DEF AccountsTypeOK
<1>2. CASE held'[s] = Nothing
  BY <1>2 DEF Nothing
<1>3. CASE Marked(s)
  BY <1>1, <1>3 DEF Marked, Held, HeldSound
<1>4. CASE Kept(s) /\ (held[s].doing = "password" =>
                          users'[held[s].id].pw = users[held[s].id].pw)
  BY <1>1, <1>4 DEF Kept, Held, HeldSound
<1> QED BY <1>2, <1>3, <1>4

LEMMA DemotionsSurvive ==
  ASSUME AccountsTypeOK, DemotionsSound,
         \A s \in Slots : \/ held'[s] = Nothing
                          \/ Marked(s)
                          \/ Kept(s) /\ (held[s].doing = "demotion" => Admins \subseteq Admins')
  PROVE  DemotionsSound'
<1> SUFFICES ASSUME NEW s \in Slots, held'[s].doing = "demotion"
             PROVE  held'[s].overtaken \/ Admins' \ {held'[s].id} # {}
  BY DEF DemotionsSound, Demotions
<1>1. held[s] \in Held
  BY DEF AccountsTypeOK
<1>2. CASE held'[s] = Nothing
  BY <1>2 DEF Nothing
<1>3. CASE Marked(s)
  BY <1>1, <1>3 DEF Marked, Held
<1>4. CASE Kept(s) /\ (held[s].doing = "demotion" => Admins \subseteq Admins')
  BY <1>1, <1>4 DEF Kept, Held, DemotionsSound, Demotions
<1> QED BY <1>2, <1>3, <1>4

(* The type of the slots, after a step of that form.                       *)
LEMMA SlotsTyped ==
  ASSUME AccountsTypeOK, NEW S \in SUBSET Slots
  PROVE  /\ Overtake(S) \in [Slots -> Held]
         /\ \A s \in Slots : /\ [Overtake(S) EXCEPT ![s] = Nothing] \in [Slots -> Held]
                             /\ [held EXCEPT ![s] = Nothing] \in [Slots -> Held]
         /\ Nothing \in Held
<1>1. Nothing \in Held
  BY RootAssumption, PwAssumption DEF Nothing, Held
<1>2. Overtake(S) \in [Slots -> Held]
  BY DEF AccountsTypeOK, Overtake, Held
<1> QED BY <1>1, <1>2 DEF AccountsTypeOK

-----------------------------------------------------------------------------
(* One lemma per action.                                                   *)

LEMMA NormalForm ==
  ASSUME NEW mail \in Mail
  PROVE  Normalised(mail) \in Mail /\ Normalised(mail).typed = "lower"
  BY TypingAssumption DEF Normalised, Mail

LEMMA RowTyped ==
  ASSUME NEW mail \in Mail, NEW role \in Roles, NEW pw \in Passwords, NEW byAdmin \in BOOLEAN
  PROVE  /\ Row(mail, role, pw, byAdmin) \in UserRow
         /\ Row(mail, role, pw, byAdmin).state = "live"
         /\ Row(mail, role, pw, byAdmin).mail = mail
         /\ Row(mail, role, pw, byAdmin).byAdmin = byAdmin
  BY DEF Row, UserRow

(* A step that changes no row and no slot.                                 *)
LEMMA NothingMoves ==
  ASSUME AccountsInv, UNCHANGED <<users, held, causes>>,
         boot' \in {"up", "insert", "promote"}, boots' \in Nat
  PROVE  AccountsInv'
  BY DEF AccountsInv, AccountsTypeOK, HeldSound, AddressesSound, DemotionsSound, Demotions,
         AdminLostOnlyBy, Unborn, Admins, Live

(* Reads and inserts.                                                      *)
LEMMA RegisterKeeps ==
  ASSUME AccountsInv, NEW q, NEW a, Sendable(q), Register(q, a), UNCHANGED <<boot, boots>>
  PROVE  AccountsInv'
<1>1. q.mail \in Mail /\ q.new \in Passwords
  BY DEF Sendable, Request, Register
<1>2. CASE UNCHANGED users
  BY <1>2, NothingMoves DEF Register, AccountsInv, AccountsTypeOK
<1>3. CASE ~Rejected(Normalised(q.mail))
  <2> DEFINE row == Row(Normalised(q.mail), "user", q.new, FALSE)
  <2>1. row \in UserRow /\ row.state = "live" /\ row.mail = Normalised(q.mail)
        /\ row.mail.typed = "lower"
    <3>1. Normalised(q.mail) \in Mail /\ Normalised(q.mail).typed = "lower"
      BY <1>1, NormalForm
    <3>2. "user" \in Roles
      BY DEF Roles
    <3> QED BY <1>1, <3>1, <3>2, RowTyped
  <2>2. Insert(row) /\ ~Taken(row.mail) /\ UNCHANGED <<held, causes>>
    BY <1>3, <2>1 DEF Register, Rejected
  <2> HIDE DEF row
  <2> QED BY <2>1, <2>2, NewRow DEF AccountsInv, AccountsTypeOK
<1> QED BY <1>2, <1>3 DEF Register

LEMMA AdminCreateUserKeeps ==
  ASSUME AccountsInv, NEW q, NEW a, Sendable(q), AdminCreateUser(q, a),
         UNCHANGED <<boot, boots>>
  PROVE  AccountsInv'
<1>1. q.mail \in Mail /\ q.new \in Passwords /\ q.role \in Roles
  BY DEF Sendable, Request, AdminCreateUser
<1>2. CASE UNCHANGED users
  BY <1>2, NothingMoves DEF AdminCreateUser, AccountsInv, AccountsTypeOK
<1>3. CASE RequireAdmin(q) /\ ~Rejected(q.mail)
  <2> DEFINE row == Row(q.mail, q.role, q.new, TRUE)
  <2>1. row \in UserRow /\ row.state = "live" /\ row.mail = q.mail /\ row.byAdmin
    BY <1>1, RowTyped
  <2>2. Insert(row) /\ ~Taken(row.mail) /\ UNCHANGED <<held, causes>>
    BY <1>3, <2>1 DEF AdminCreateUser, Rejected
  <2> HIDE DEF row
  <2> QED BY <2>1, <2>2, NewRow DEF AccountsInv, AccountsTypeOK
<1> QED BY <1>2, <1>3 DEF AdminCreateUser

LEMMA SeedWriteKeeps ==
  ASSUME AccountsInv, SeedWrite
  PROVE  AccountsInv'
<1>1. RootMail \in Mail /\ RootMail.typed = "lower" /\ "admin" \in Roles
  BY AddrAssumption, TypingAssumption DEF RootMail, Mail, Roles
<1>2. boot' \in {"up", "insert", "promote"} /\ boots' \in Nat
      /\ UNCHANGED <<held, causes>>
  BY DEF SeedWrite, AccountsInv, AccountsTypeOK
<1>3. CASE UNCHANGED users
  BY <1>2, <1>3, NothingMoves
<1>4. CASE ~Rejected(RootMail) /\ Insert(Row(RootMail, "admin", RootPw, FALSE))
  <2> DEFINE row == Row(RootMail, "admin", RootPw, FALSE)
  <2>1. row \in UserRow /\ row.state = "live" /\ row.mail = RootMail
    BY <1>1, RowTyped, PwAssumption
  <2>2. Insert(row) /\ ~Taken(row.mail)
    BY <1>4, <2>1 DEF Rejected
  <2> HIDE DEF row
  <2> QED BY <1>1, <1>2, <2>1, <2>2, NewRow DEF AccountsInv, AccountsTypeOK
<1>5. CASE users' = [i \in Ids |-> IF i \in Live /\ users[i].mail = RootMail
                                   THEN [users[i] EXCEPT !.role = "admin"] ELSE users[i]]
  <2>1. users \in [Ids -> UserRow]
    BY DEF AccountsInv, AccountsTypeOK
  <2>2. \A i \in Ids : /\ users'[i] \in UserRow
                       /\ users'[i].state = users[i].state
                       /\ users'[i].mail = users[i].mail
                       /\ users'[i].pw = users[i].pw
                       /\ users'[i].byAdmin = users[i].byAdmin
                       /\ users[i].role = "admin" => users'[i].role = "admin"
    BY <1>5, <2>1 DEF UserRow, Roles
  <2>3. users' \in [Ids -> UserRow] /\ Live' = Live /\ Unborn' = Unborn
        /\ Admins \subseteq Admins'
    BY <1>5, <2>2 DEF Live, Unborn, Admins
  <2>4. AddressesSound'
    BY <2>2, <2>3, RowsKeepAddresses DEF AccountsInv, Live
  <2>5. HeldSound' /\ DemotionsSound' /\ AdminLostOnlyBy'
    BY <1>2, <2>2, <2>3, NothingHeldMoves
  <2> QED BY <1>2, <2>3, <2>4, <2>5 DEF AccountsInv, AccountsTypeOK
<1> QED BY <1>3, <1>4, <1>5 DEF SeedWrite

(* A request takes a slot: what its first statement saw is true now.       *)
LEMMA CheckPasswordKeeps ==
  ASSUME AccountsInv, NEW q, NEW a, Sendable(q), CheckPassword(q, a),
         UNCHANGED <<boot, boots>>
  PROVE  AccountsInv'
<1>0. AccountsTypeOK /\ HeldSound /\ AddressesSound /\ DemotionsSound /\ AdminLostOnlyBy
  BY DEF AccountsInv
<1>1. CASE UNCHANGED held
  BY <1>1, NothingMoves DEF CheckPassword, AccountsInv, AccountsTypeOK
<1>2. ASSUME NEW s \in Slots, q.token.id \in Live, users[q.token.id].pw = q.old,
             held' = [held EXCEPT ![s] = [Nothing EXCEPT !.doing = "password",
                                 !.id = q.token.id, !.old = q.old, !.new = q.new]]
      PROVE  AccountsInv'
  <2> DEFINE h == [Nothing EXCEPT !.doing = "password", !.id = q.token.id,
                                  !.old = q.old, !.new = q.new]
  <2>1. UNCHANGED <<users, causes>> /\ q.new \in Passwords /\ q.old \in Passwords
        /\ q.token.id \in Ids /\ q.token.id \notin Unborn
    BY <1>2 DEF CheckPassword, Sendable, Request, Live, Unborn
  <2>2. h \in Held /\ h.doing = "password" /\ h.id = q.token.id /\ h.old = q.old
        /\ h.new = q.new
    BY <2>1, RootAssumption, PwAssumption DEF Nothing, Held
  <2> HIDE DEF h
  <2>3. held' = [held EXCEPT ![s] = h] /\ held \in [Slots -> Held]
    BY <1>0, <1>2 DEF h, AccountsTypeOK
  <2>4. AccountsTypeOK'
    BY <1>0, <2>1, <2>2, <2>3 DEF AccountsTypeOK
  <2>5. HeldSound'
    BY <1>0, <1>2, <2>1, <2>2, <2>3 DEF HeldSound, Unborn
  <2>6. DemotionsSound'
    BY <1>0, <2>1, <2>2, <2>3 DEF DemotionsSound, Demotions, Admins, Live
  <2> QED BY <1>0, <2>1, <2>4, <2>5, <2>6
          DEF AccountsInv, AddressesSound, AdminLostOnlyBy, Admins, Live
<1> QED BY <1>1, <1>2 DEF CheckPassword, Hold

(* Writes: whoever compared or counted is marked as overtaken.             *)
LEMMA WritePasswordKeeps ==
  ASSUME AccountsInv, NEW s \in Slots, NEW a, WritePassword(s, a), UNCHANGED <<boot, boots>>
  PROVE  AccountsInv'
<1>0. /\ AccountsTypeOK /\ HeldSound /\ AddressesSound /\ DemotionsSound /\ AdminLostOnlyBy
      /\ users \in [Ids -> UserRow] /\ held \in [Slots -> Held] /\ held[s].new \in Passwords
  BY DEF AccountsInv, AccountsTypeOK, HeldSound, WritePassword
<1>1. \A i \in Ids : /\ users'[i] \in UserRow
                     /\ users'[i].state = users[i].state
                     /\ users'[i].mail = users[i].mail
                     /\ users'[i].byAdmin = users[i].byAdmin
                     /\ users'[i].role = users[i].role
                     /\ i # held[s].id => users'[i] = users[i]
  BY <1>0 DEF WritePassword, UserRow
<1>2. /\ users' \in [Ids -> UserRow] /\ Live' = Live /\ Unborn' = Unborn
      /\ Admins' = Admins
  BY <1>1 DEF Live, Unborn, Admins, WritePassword
<1>3. held' = [Overtake(Changing(held[s].id)) EXCEPT ![s] = Nothing] /\ UNCHANGED causes
  BY DEF WritePassword
<1>4. \A r \in Slots : \/ held'[r] = Nothing
                       \/ Marked(r)
                       \/ Kept(r) /\ (held[r].doing = "password" => held[r].id # held[s].id)
  BY <1>3 DEF Overtake, Changing, Marked, Kept
<1>5. \A r \in Slots : held[r].id \in Ids
  BY <1>0 DEF Held
<1>6. HeldSound'
  BY <1>0, <1>1, <1>2, <1>4, <1>5, ChangesSurvive
<1>7. DemotionsSound'
  BY <1>0, <1>2, <1>4, DemotionsSurvive
<1>8. AddressesSound'
  BY <1>0, <1>1, <1>2, RowsKeepAddresses DEF Live
<1>9. AccountsTypeOK'
  BY <1>0, <1>2, <1>3, SlotsTyped DEF AccountsTypeOK, Changing
<1> QED BY <1>0, <1>2, <1>3, <1>6, <1>7, <1>8, <1>9 DEF AccountsInv, AdminLostOnlyBy

(* The UPDATE of AdminUpdateUser, with whom it overtakes and who is left.  *)
LEMMA WriteUserKeeps ==
  ASSUME AccountsTypeOK, HeldSound, AddressesSound,
         NEW i \in Ids, NEW role \in Roles, NEW new \in Passwords \cup {Blank}, NEW a,
         WriteUser(i, role, new, a)
  PROVE  /\ users' \in [Ids -> UserRow] /\ Unborn' = Unborn /\ AddressesSound'
         /\ Admins \ {i} \subseteq Admins'
         /\ role = "admin" => Admins \subseteq Admins'
         /\ \A j \in Ids : new = Blank \/ j # i => users'[j].pw = users[j].pw
<1>0. users \in [Ids -> UserRow]
  BY DEF AccountsTypeOK
<1>1. CASE UNCHANGED users
  BY <1>0, <1>1, RowsKeepAddresses DEF Unborn, Live, Admins
<1>2. CASE i \in Live /\ users' = [users EXCEPT ![i].role = role,
                                                ![i].pw = IF new = Blank THEN @ ELSE new]
  <2>1. \A j \in Ids : /\ users'[j] \in UserRow
                       /\ users'[j].state = users[j].state
                       /\ users'[j].mail = users[j].mail
                       /\ users'[j].byAdmin = users[j].byAdmin
                       /\ j # i => users'[j] = users[j]
                       /\ new = Blank => users'[j].pw = users[j].pw
                       /\ j = i => users'[j].role = role
    BY <1>0, <1>2, PwAssumption DEF UserRow
  <2>2. users' \in [Ids -> UserRow] /\ Live' = Live /\ Unborn' = Unborn
    BY <1>0, <1>2, <2>1 DEF Live, Unborn
  <2>3. Admins \ {i} \subseteq Admins' /\ (role = "admin" => Admins \subseteq Admins')
    BY <2>1, <2>2 DEF Admins, Live
  <2>4. AddressesSound'
    BY <2>1, <2>2, RowsKeepAddresses DEF Live
  <2> QED BY <2>1, <2>2, <2>3, <2>4
<1> QED BY <1>1, <1>2 DEF WriteUser

LEMMA OutdatesWhom ==
  ASSUME NEW i \in Ids, NEW role \in Roles, NEW new \in Passwords \cup {Blank},
         NEW r \in Slots
  PROVE  \/ /\ Outdates(i, role, new)[r] = held[r]
            /\ held[r].doing = "password" => new = Blank \/ held[r].id # i
            /\ held[r].doing = "demotion" => role = "admin"
         \/ Outdates(i, role, new)[r] = [held[r] EXCEPT !.overtaken = TRUE]
  BY DEF Outdates, Overtake, Demotions, Changing, Roles

LEMMA AdminUpdateUserKeeps ==
  ASSUME AccountsInv, NEW q, NEW a, Sendable(q), AdminUpdateUser(q, a),
         UNCHANGED <<boot, boots>>
  PROVE  AccountsInv'
<1>0. /\ AccountsTypeOK /\ HeldSound /\ AddressesSound /\ DemotionsSound /\ AdminLostOnlyBy
      /\ users \in [Ids -> UserRow] /\ held \in [Slots -> Held]
      /\ q.target \in Ids /\ q.role \in Roles /\ q.new \in Passwords \cup {Blank}
      /\ UNCHANGED causes
  BY DEF AccountsInv, AccountsTypeOK, Sendable, Request, AdminUpdateUser
<1>1. CASE UNCHANGED <<users, held>>
  BY <1>0, <1>1, NothingMoves DEF AccountsTypeOK
<1>2. ASSUME NEW s \in Slots, Admins \ {q.target} # {}, UNCHANGED users,
             held' = [held EXCEPT ![s] = [Nothing EXCEPT !.doing = "demotion",
                                                 !.id = q.target, !.new = q.new]]
      PROVE  AccountsInv'
  <2> DEFINE h == [Nothing EXCEPT !.doing = "demotion", !.id = q.target, !.new = q.new]
  <2>1. h \in Held /\ h.doing = "demotion" /\ h.id = q.target
    BY <1>0, RootAssumption, PwAssumption DEF Nothing, Held
  <2> HIDE DEF h
  <2>2. held' = [held EXCEPT ![s] = h]
    BY <1>2 DEF h
  <2>3. AccountsTypeOK'
    BY <1>0, <1>2, <2>1, <2>2 DEF AccountsTypeOK
  <2>4. HeldSound'
    BY <1>0, <1>2, <2>1, <2>2 DEF HeldSound, Unborn
  <2>5. DemotionsSound'
    BY <1>0, <1>2, <2>1, <2>2 DEF DemotionsSound, Demotions, Admins, Live
  <2> QED BY <1>0, <1>2, <2>3, <2>4, <2>5
          DEF AccountsInv, AddressesSound, AdminLostOnlyBy, Admins, Live
<1>3. CASE /\ q.role = "admin" /\ WriteUser(q.target, q.role, q.new, a)
           /\ held' = Outdates(q.target, q.role, q.new)
  <2>1. /\ users' \in [Ids -> UserRow] /\ Unborn' = Unborn /\ AddressesSound'
        /\ Admins \subseteq Admins'
        /\ \A j \in Ids : q.new = Blank \/ j # q.target => users'[j].pw = users[j].pw
    BY <1>0, <1>3, WriteUserKeeps
  <2>2. \A r \in Slots :
           \/ Kept(r) /\ (held[r].doing = "password" => q.new = Blank \/ held[r].id # q.target)
           \/ Marked(r)
    BY <1>0, <1>3, OutdatesWhom DEF Kept, Marked
  <2>3. \A r \in Slots : held[r].id \in Ids
    BY <1>0 DEF Held
  <2>4. HeldSound'
    BY <1>0, <2>1, <2>2, <2>3, ChangesSurvive
  <2>5. DemotionsSound'
    BY <1>0, <2>1, <2>2, DemotionsSurvive
  <2>6. held' \in [Slots -> Held]
    BY <1>0, <1>3, SlotsTyped DEF Outdates, Demotions, Changing
  <2> QED BY <1>0, <2>1, <2>4, <2>5, <2>6 DEF AccountsInv, AccountsTypeOK, AdminLostOnlyBy
<1> QED BY <1>1, <1>2, <1>3 DEF AdminUpdateUser, Hold

LEMMA WriteDemotionKeeps ==
  ASSUME AccountsInv, NEW s \in Slots, NEW a, WriteDemotion(s, a), UNCHANGED <<boot, boots>>
  PROVE  AccountsInv'
<1>0. /\ AccountsTypeOK /\ HeldSound /\ AddressesSound /\ DemotionsSound
      /\ held \in [Slots -> Held] /\ "user" \in Roles
      /\ held[s].id \in Ids /\ held[s].new \in Passwords \cup {Blank}
      /\ causes' \subseteq {"race", "outdated"}
  BY DEF AccountsInv, AccountsTypeOK, Held, Roles, WriteDemotion
<1>1. /\ WriteUser(held[s].id, "user", held[s].new, a)
      /\ held' = [Outdates(held[s].id, "user", held[s].new) EXCEPT ![s] = Nothing]
      /\ causes' = IF held[s].overtaken THEN causes \cup {"race"} ELSE causes
  BY DEF WriteDemotion
<1>2. /\ users' \in [Ids -> UserRow] /\ Unborn' = Unborn /\ AddressesSound'
      /\ Admins \ {held[s].id} \subseteq Admins'
      /\ \A j \in Ids : held[s].new = Blank \/ j # held[s].id
                           => users'[j].pw = users[j].pw
  BY <1>0, <1>1, WriteUserKeeps
<1>3. \A r \in Slots :
         \/ held'[r] = Nothing
         \/ Kept(r) /\ held[r].doing # "demotion"
            /\ (held[r].doing = "password" => held[s].new = Blank \/ held[r].id # held[s].id)
         \/ Marked(r)
  <2> SUFFICES ASSUME NEW r \in Slots, r # s
               PROVE  \/ Kept(r) /\ held[r].doing # "demotion"
                         /\ (held[r].doing = "password"
                                => held[s].new = Blank \/ held[r].id # held[s].id)
                      \/ Marked(r)
    BY <1>1 DEF Outdates, Overtake
  <2>1. held'[r] = Outdates(held[s].id, "user", held[s].new)[r]
    BY <1>1 DEF Outdates, Overtake
  <2> QED BY <1>0, <2>1, OutdatesWhom DEF Kept, Marked
<1>4. \A r \in Slots : held[r].id \in Ids
  BY <1>0 DEF Held
<1>5. HeldSound'
  BY <1>0, <1>2, <1>3, <1>4, ChangesSurvive
<1>6. DemotionsSound'
  BY <1>0, <1>3, DemotionsSurvive
<1>7. held' \in [Slots -> Held]
  BY <1>0, <1>1, SlotsTyped DEF Outdates, Demotions, Changing
(* The administrator beside the one who is demoted, if nobody overtook it. *)
<1>8. AdminLostOnlyBy'
  BY <1>0, <1>1, <1>2 DEF AdminLostOnlyBy, DemotionsSound, Demotions, WriteDemotion
<1>9. AccountsTypeOK'
  BY <1>0, <1>2, <1>7 DEF AccountsTypeOK
<1> QED BY <1>2, <1>5, <1>6, <1>8, <1>9 DEF AccountsInv

LEMMA AdminDeleteUserKeeps ==
  ASSUME AccountsInv, NEW q, NEW a, Sendable(q), AdminDeleteUser(q, a),
         UNCHANGED <<boot, boots>>
  PROVE  AccountsInv'
<1>0. /\ AccountsTypeOK /\ HeldSound /\ AddressesSound /\ DemotionsSound /\ AdminLostOnlyBy
      /\ users \in [Ids -> UserRow] /\ held \in [Slots -> Held] /\ q.target \in Ids
  BY DEF AccountsInv, AccountsTypeOK, Sendable, Request
<1>1. CASE UNCHANGED <<users, held, causes>>
  BY <1>0, <1>1, NothingMoves DEF AccountsTypeOK
<1>2. CASE RequireAdmin(q) /\ q.target # q.token.id /\ q.target \in Live
  <2>1. /\ users' = [users EXCEPT ![q.target] = [NoRow EXCEPT !.state = "deleted"]]
        /\ held' = Overtake(Demotions \cup Changing(q.target))
        /\ causes' = IF q.token.id \in Admins THEN causes ELSE causes \cup {"outdated"}
    BY <1>2 DEF AdminDeleteUser
  <2>2. [NoRow EXCEPT !.state = "deleted"] \in UserRow
    BY AddrAssumption, TypingAssumption, PwAssumption
    DEF NoRow, Row, RootMail, UserRow, Mail, Roles
  <2>3. users'[q.target].state = "deleted" /\ \A j \in Ids \ {q.target} : users'[j] = users[j]
    BY <1>0, <2>1 DEF NoRow, Row
  <2>4. /\ users' \in [Ids -> UserRow] /\ Unborn' \subseteq Unborn
        /\ Live' = Live \ {q.target}
    BY <1>0, <2>1, <2>2, <2>3 DEF Unborn, Live
  <2>5. \A r \in Slots : \/ Marked(r)
                         \/ /\ Kept(r) /\ held[r].doing # "demotion"
                            /\ held[r].doing = "password" => held[r].id # q.target
    BY <2>1 DEF Overtake, Demotions, Changing, Marked, Kept
  <2>6. \A r \in Slots : held[r].id \in Ids
    BY <1>0 DEF Held
  <2>7. HeldSound'
    BY <1>0, <2>3, <2>4, <2>5, <2>6, ChangesSurvive
  <2>8. DemotionsSound'
    BY <1>0, <2>5, DemotionsSurvive
  <2>9. AddressesSound'
    BY <1>0, <2>3, <2>4, RowsKeepAddresses DEF Live
  (* A caller who is an administrator cannot be the target.                *)
  <2>10. AdminLostOnlyBy'
    BY <1>0, <1>2, <2>1, <2>3, <2>4 DEF AdminLostOnlyBy, Admins, Live
  <2>11. AccountsTypeOK'
    BY <1>0, <2>1, <2>4, SlotsTyped DEF AccountsTypeOK, Demotions, Changing, AdminDeleteUser
  <2> QED BY <2>7, <2>8, <2>9, <2>10, <2>11 DEF AccountsInv
<1> QED BY <1>1, <1>2 DEF AdminDeleteUser

LEMMA CrashKeeps ==
  ASSUME AccountsInv, NEW S \in SUBSET Slots, Crash(S)
  PROVE  AccountsInv'
<1>0. /\ AccountsTypeOK /\ HeldSound /\ AddressesSound /\ DemotionsSound /\ AdminLostOnlyBy
      /\ held \in [Slots -> Held] /\ Nothing \in Held
  BY RootAssumption, PwAssumption DEF AccountsInv, AccountsTypeOK, Nothing, Held
<1>1. UNCHANGED <<users, boot, boots, causes>> /\ Unborn' = Unborn /\ Live' = Live
      /\ Admins' = Admins
  BY DEF Crash, Unborn, Live, Admins
<1>2. \A r \in Slots : held'[r] = Nothing \/ Kept(r)
  BY DEF Crash, Kept
<1>3. HeldSound'
  BY <1>0, <1>1, <1>2, ChangesSurvive
<1>4. DemotionsSound'
  BY <1>0, <1>1, <1>2, DemotionsSurvive
<1>5. AccountsTypeOK'
  BY <1>0, <1>1 DEF AccountsTypeOK, Crash
<1> QED BY <1>0, <1>1, <1>3, <1>4, <1>5 DEF AccountsInv, AddressesSound, AdminLostOnlyBy

-----------------------------------------------------------------------------
(* The invariant.                                                          *)

LEMMA AccountsInvInit == AccountsInit => AccountsInv
<1> SUFFICES ASSUME AccountsInit PROVE AccountsInv
  OBVIOUS
<1>1. RootMail \in Mail /\ Nothing \in Held
  BY RootAssumption, AddrAssumption, TypingAssumption, PwAssumption
  DEF RootMail, Mail, Nothing, Held
<1>2. \A m \in Mail, r \in Roles : /\ SignedUp(m, r) \in UserRow
                                   /\ SignedUp(m, r).mail.typed = "lower"
  <2> SUFFICES ASSUME NEW m \in Mail, NEW r \in Roles
               PROVE  SignedUp(m, r) \in UserRow /\ SignedUp(m, r).mail.typed = "lower"
    OBVIOUS
  <2>1. Normalised(m) \in Mail /\ Normalised(m).typed = "lower"
    BY NormalForm
  <2> QED BY <2>1, PwAssumption DEF SignedUp, Row, UserRow
<1>3. NoRow \in UserRow /\ NoRow.state = "unborn"
  BY <1>1, PwAssumption DEF NoRow, Row, UserRow, Roles
<1>4. \A i \in Ids : /\ users[i] \in UserRow
                     /\ i \in Live => users[i].mail.typed = "lower"
  <2> SUFFICES ASSUME NEW i \in Ids
               PROVE  users[i] \in UserRow /\ (i \in Live => users[i].mail.typed = "lower")
    OBVIOUS
  <2>1. \/ \E m \in Mail, r \in Roles : users[i] = SignedUp(m, r)
        \/ users[i] = NoRow
    BY DEF AccountsInit
  <2>2. CASE users[i] = NoRow
    BY <1>3, <2>2 DEF Live
  <2>3. CASE \E m \in Mail, r \in Roles : users[i] = SignedUp(m, r)
    BY <1>2, <2>3
  <2> QED BY <2>1, <2>2, <2>3
<1>5. AccountsTypeOK
  BY <1>1, <1>4 DEF AccountsInit, AccountsTypeOK
<1>6. AddressesSound
  BY <1>4 DEF AccountsInit, AddressesSound, Live
<1>7. HeldSound /\ DemotionsSound
  BY DEF AccountsInit, HeldSound, DemotionsSound, Demotions, Nothing
<1>8. Root \in Admins
  BY RootAssumption DEF AccountsInit, Admins, Live, Row
<1> QED BY <1>5, <1>6, <1>7, <1>8 DEF AccountsInv, AdminLostOnlyBy

LEMMA ServeKeeps ==
  ASSUME AccountsInv, NEW q, NEW a, Sendable(q), Serve(q, a)
  PROVE  AccountsInv'
<1>1. UNCHANGED <<boot, boots>>
  BY DEF Serve
<1>2. CASE Register(q, a)
  BY <1>1, <1>2, RegisterKeeps
<1>3. CASE Login(q, a)
  BY <1>1, <1>3, NothingMoves DEF Login, AccountsInv, AccountsTypeOK
<1>4. CASE CheckPassword(q, a)
  BY <1>1, <1>4, CheckPasswordKeeps
<1>5. CASE AdminCreateUser(q, a)
  BY <1>1, <1>5, AdminCreateUserKeeps
<1>6. CASE AdminUpdateUser(q, a)
  BY <1>1, <1>6, AdminUpdateUserKeeps
<1>7. CASE AdminDeleteUser(q, a)
  BY <1>1, <1>7, AdminDeleteUserKeeps
<1> QED BY <1>2, <1>3, <1>4, <1>5, <1>6, <1>7 DEF Serve

LEMMA AccountsInvStep == AccountsInv /\ [AccountsNext]_accountVars => AccountsInv'
<1> SUFFICES ASSUME AccountsInv, [AccountsNext]_accountVars PROVE AccountsInv'
  OBVIOUS
<1>1. ASSUME NEW q \in SignIns, NEW a \in Answers, Serve(q, a) PROVE AccountsInv'
  BY <1>1, ClientsSend, ServeKeeps
<1>2. ASSUME NEW q \in Requests, NEW t \in Tokens, NEW a \in Plain,
             Serve([q EXCEPT !.token = t], a)
      PROVE  AccountsInv'
  BY <1>2, ClientsSend, ServeKeeps
<1>3. ASSUME NEW s \in Slots, NEW a \in Plain, Finish(s, a) PROVE AccountsInv'
  BY <1>3, WritePasswordKeeps, WriteDemotionKeeps DEF Finish
<1>4. ASSUME NEW S \in SUBSET Slots, Crash(S) PROVE AccountsInv'
  BY <1>4, CrashKeeps
<1>5. CASE SeedCount
  BY <1>5, NothingMoves DEF SeedCount, AccountsInv, AccountsTypeOK
<1>6. CASE SeedWrite
  BY <1>6, SeedWriteKeeps
<1>7. CASE UNCHANGED accountVars
  BY <1>7, NothingMoves DEF accountVars, AccountsInv, AccountsTypeOK
<1> QED BY <1>1, <1>2, <1>3, <1>4, <1>5, <1>6, <1>7 DEF AccountsNext

(* The strengthened invariant holds of every reachable table.              *)
THEOREM AccountsInvariant == AccountsSpec => []AccountsInv
  BY AccountsInvInit, AccountsInvStep, PTL DEF AccountsSpec

(* The variables of the account server keep their types.                   *)
THEOREM AccountsTypes == AccountsSpec => []AccountsTypeOK
<1>1. AccountsInv => AccountsTypeOK
  BY DEF AccountsInv
<1> QED BY <1>1, AccountsInvariant, PTL

(* The last administrator is lost only by a demotion that was overtaken    *)
(* between the count and the UPDATE of AdminUpdateUser, or by a deletion   *)
(* with a token older than its holder's demotion.                          *)
THEOREM AdministratorsStay == AccountsSpec => []AdminLostOnlyBy
<1>1. AccountsInv => AdminLostOnlyBy
  BY DEF AccountsInv
<1> QED BY <1>1, AccountsInvariant, PTL

(* Login looks up the address that Register and seedAdmin have stored, in  *)
(* whatever letters it is typed, and finds that row and no other.          *)
THEOREM LoginsFindAccounts == AccountsSpec => []LoginFindsAccount
<1>1. AccountsInv => LoginFindsAccount
  <2> SUFFICES ASSUME AccountsInv, NEW i \in Live, NEW form \in Typings, ~users[i].byAdmin
               PROVE  {j \in Live : users[j].mail
                            = Normalised([users[i].mail EXCEPT !.typed = form])} = {i}
    BY DEF LoginFindsAccount
  <2>1. users[i].mail \in Mail /\ users[i].mail.typed = "lower"
    BY DEF AccountsInv, AccountsTypeOK, AddressesSound, Live, UserRow
  <2>2. Normalised([users[i].mail EXCEPT !.typed = form]) = users[i].mail
    BY <2>1 DEF Normalised, Mail
  <2> QED BY <2>2 DEF AccountsInv, AddressesSound
<1> QED BY <1>1, AccountsInvariant, PTL

(* ChangePassword replaces only a password that its caller has proved to   *)
(* know, unless it was overtaken between the compare and the UPDATE.       *)
THEOREM PasswordsProved == AccountsSpec => OldPasswordProved
<1> DEFINE Proved == \A s \in Slots :
                        /\ held[s].doing = "password" /\ held'[s] = Nothing
                        /\ users' # users
                        => held[s].overtaken \/ users[held[s].id].pw = held[s].old
<1>1. AccountsInv => Proved
  BY DEF AccountsInv, HeldSound
<1>2. AccountsInv /\ [AccountsNext]_accountVars => [Proved]_accountVars
  BY <1>1
<1> HIDE DEF Proved
<1>3. AccountsSpec => [][Proved]_accountVars
  BY <1>2, AccountsInvariant, PTL DEF AccountsSpec
<1> QED BY <1>3 DEF OldPasswordProved, Proved
=============================================================================
