---------------------------- MODULE Console_proof ---------------------------
(***************************************************************************)
(* Proofs about Console, for any number of mutations, every length of the  *)
(* history of the row and every number of fetches.                         *)
(*                                                                         *)
(* The history only grows, so that what a copy named by its place in it    *)
(* said once it says for ever; and whatever holds a copy (a query, a fetch *)
(* on its way, a form, a mutation) took it from another that did.          *)
(***************************************************************************)
EXTENDS Console, TLAPS

HistorySound ==
    /\ rows \in Seq(Row) /\ Len(rows) \in 1..MaxRows
    /\ \A i \in 1..Len(rows) : rows[i] \in Row
    /\ \A i \in 1..Len(rows) : rows[i].state = "unborn" => ~rows[i].headers

PageSound == /\ part \in {"user", "admin"}
             /\ page \in IF part = "user" THEN UserPages ELSE AdminPages

PartKeys == IF part = "user" THEN {"jobs", "job"} ELSE {"admin"}

(* What the cache holds of a query, and what is on its way, is of the part *)
(* the tab is in, is no older than it is marked to be, and of one job that *)
(* was not deleted then.                                                   *)
KeySound(k) ==
    /\ cache[k] \in Entry /\ fetch[k] \in Flight
    /\ cache[k].v <= Len(rows) /\ fetch[k].v <= Len(rows)
    /\ k \notin PartKeys => cache[k] = NoEntry /\ fetch[k] = Idle
    /\ fetch[k] # Idle => fetch[k].v # 0
    /\ k = "job" /\ cache[k].v # 0 => rows[cache[k].v].state = "live"
    /\ cache[k].v # 0 /\ cache[k].v < own => cache[k].mark # "fresh"
    /\ fetch[k] # Idle /\ fetch[k].v < own => fetch[k].missed

(* A request was offered for the copy that it names.                       *)
CallSound(c) ==
    /\ calls[c] \in Call /\ calls[c].v <= Len(rows)
    /\ calls[c].phase # "free" /\ calls[c].op \in {"create", "remove"} => part = "user"
    /\ calls[c].phase = "sent" /\ calls[c].v # 0 /\ calls[c].op # "create" =>
          /\ rows[calls[c].v].state = "live"
          /\ calls[c].op = "pause" => rows[calls[c].v].status = "active"
          /\ calls[c].op = "resume" => rows[calls[c].v].status = "paused"

(* A form that met no answer on its way when it was opened has, at most,   *)
(* its own save on its way now.                                            *)
FormSound ==
    /\ form \in Form
    /\ form # NoForm => /\ page \in {"edit", "admin"}
                        /\ form.v \in 1..Len(rows) /\ rows[form.v].state = "live"
    /\ form # NoForm /\ ~form.crossed
       => \A c \in Calls : Moves(calls[c]) => calls[c].op = "save" /\ calls[c].here

ConsoleInv ==
    /\ HistorySound /\ PageSound /\ FormSound
    /\ cache \in [Keys -> Entry] /\ fetch \in [Keys -> Flight] /\ calls \in [Calls -> Call]
    /\ own \in 0..Len(rows)
    /\ \A k \in Keys : KeySound(k)
    /\ \A c \in Calls : CallSound(c)

LEMMA ConsoleInvTyped == ConsoleInv => TypeOK
  BY DEF ConsoleInv, TypeOK, HistorySound, PageSound, FormSound, KeySound

-----------------------------------------------------------------------------
(* The history grows.                                                      *)

Grown == /\ HistorySound' /\ Len(rows) <= Len(rows')
         /\ \A i \in 1..Len(rows) : rows'[i] = rows[i]

LEMMA SameHistory == HistorySound /\ UNCHANGED rows => Grown
  BY BoundAssumption DEF HistorySound, Grown

LEMMA LongerHistory ==
  ASSUME HistorySound, NEW r \in Row, Becomes(r), r.state # "unborn"
  PROVE  Grown /\ Len(rows') = Len(rows) + 1 /\ rows'[Len(rows) + 1] = r
<1>1. /\ rows' = Append(rows, r) /\ Len(rows) < MaxRows
      /\ rows \in Seq(Row) /\ Len(rows) \in 1..MaxRows /\ MaxRows \in Nat
  BY BoundAssumption DEF Becomes, HistorySound
<1>2. /\ rows' \in Seq(Row) /\ Len(rows') = Len(rows) + 1
      /\ rows'[Len(rows) + 1] = r /\ \A i \in 1..Len(rows) : rows'[i] = rows[i]
  BY <1>1
<1>3. Len(rows') \in 1..MaxRows
  BY <1>1, <1>2
<1>4. \A i \in 1..Len(rows') : i \in 1..Len(rows) \/ i = Len(rows) + 1
  BY <1>1, <1>2
<1> QED BY <1>1, <1>2, <1>3, <1>4 DEF HistorySound, Grown

LEMMA LatestRow ==
  ASSUME HistorySound
  PROVE  /\ Len(rows) \in 1..Len(rows) /\ row \in Row
         /\ row.state = "unborn" => ~row.headers
  BY BoundAssumption DEF HistorySound, row

(* The numbers of the invariant.                                           *)
LEMMA Numbers ==
  ASSUME ConsoleInv
  PROVE  /\ Len(rows) \in Nat /\ Len(rows) >= 1 /\ Len(rows) <= MaxRows /\ MaxRows \in Nat
         /\ own \in Nat /\ own <= Len(rows)
         /\ \A k \in Keys : cache[k].v \in Nat /\ fetch[k].v \in Nat
         /\ \A c \in Calls : calls[c].v \in Nat
         /\ form.v \in Nat
  BY BoundAssumption
     DEF ConsoleInv, HistorySound, FormSound, KeySound, CallSound, Entry, Flight, Call, Form,
         Version

-----------------------------------------------------------------------------
(* The parts of the invariant, in steps that leave their variables alone.  *)

LEMMA KeysStay ==
  ASSUME ConsoleInv, Grown, UNCHANGED <<part, own>>,
         NEW k \in Keys, cache'[k] = cache[k], fetch'[k] = fetch[k]
  PROVE  KeySound(k)'
<1>1. KeySound(k) /\ HistorySound /\ Len(rows') \in Nat
  BY BoundAssumption DEF ConsoleInv, Grown, HistorySound
<1>2. cache[k].v <= Len(rows') /\ fetch[k].v <= Len(rows')
  BY <1>1, Numbers DEF Grown, KeySound
<1>3. k = "job" /\ cache[k].v # 0 => rows'[cache[k].v].state = "live"
  BY <1>1, Numbers DEF Grown, KeySound
<1> QED BY <1>1, <1>2, <1>3 DEF KeySound, PartKeys

LEMMA FormStays ==
  ASSUME ConsoleInv, Grown, UNCHANGED <<form, page>>,
         \A c \in Calls : Moves(calls'[c]) =>
            \/ calls'[c].op = "save" /\ calls'[c].here
            \/ /\ Moves(calls[c]) /\ calls'[c].op = calls[c].op
               /\ calls'[c].here = calls[c].here
            \/ form = NoForm
  PROVE  FormSound'
<1>1. FormSound /\ Len(rows') \in Nat /\ Len(rows) \in Nat
  BY BoundAssumption DEF ConsoleInv, Grown, HistorySound
<1>2. form # NoForm => form.v \in 1..Len(rows') /\ rows'[form.v].state = "live"
  BY <1>1, Numbers DEF FormSound, Grown
<1> QED BY <1>1, <1>2 DEF FormSound

LEMMA NoFormSound == form' = NoForm => FormSound'
  BY BoundAssumption DEF NoForm, Form, Version, FormSound

(* A mutation ends, or goes on as it is, perhaps without its form.         *)
LEMMA CallStays ==
  ASSUME ConsoleInv, Grown, UNCHANGED part, NEW c \in Calls,
         \/ calls'[c] = NoCall
         \/ calls'[c] = calls[c]
         \/ \E b \in BOOLEAN : calls'[c] = [calls[c] EXCEPT !.here = b]
  PROVE  CallSound(c)'
<1>1. CallSound(c) /\ Len(rows') \in Nat /\ Len(rows) \in Nat /\ calls[c] \in Call
  BY BoundAssumption DEF ConsoleInv, Grown, HistorySound
<1>2. CASE calls'[c] = NoCall
  <2>1. NoCall \in Call /\ NoCall.phase = "free" /\ NoCall.v = 0
    BY BoundAssumption DEF NoCall, Call, Ops, Version
  <2> QED BY <1>1, <1>2, <2>1 DEF CallSound
<1>3. ASSUME calls'[c] \in Call, calls'[c].v = calls[c].v, calls'[c].op = calls[c].op,
             calls'[c].phase = calls[c].phase
      PROVE  CallSound(c)'
  <2>1. calls[c].v <= Len(rows')
    BY <1>1, Numbers DEF CallSound, Grown
  <2>2. calls[c].v # 0 => rows'[calls[c].v] = rows[calls[c].v]
    BY <1>1, Numbers DEF CallSound, Grown
  <2> QED BY <1>1, <1>3, <2>1, <2>2 DEF CallSound
<1>4. CASE \E b \in BOOLEAN : calls'[c] = [calls[c] EXCEPT !.here = b]
  BY <1>1, <1>3, <1>4 DEF Call
<1> QED BY <1>1, <1>2, <1>3, <1>4

LEMMA MountedKeys ==
  ASSUME PageSound, NEW k \in Keys, Mounted(k)
  PROVE  k \in PartKeys
  BY DEF PageSound, Mounted, KeysOf, PartKeys, Pages, UserPages, AdminPages

(* invalidateQueries: what is older than the tab's last change is marked,  *)
(* and so is every fetch that goes on.                                     *)
LEMMA InvalidateSound ==
  ASSUME ConsoleInv, NEW ks \in SUBSET Keys, Invalidate(ks), UNCHANGED <<part, rows>>,
         own' \in 0..Len(rows), own' = own \/ PartKeys \subseteq ks
  PROVE  /\ cache' \in [Keys -> Entry] /\ fetch' \in [Keys -> Flight]
         /\ \A k \in Keys : KeySound(k)'
<1>1. Request \in Flight /\ Request.v = Len(rows) /\ Request # Idle
      /\ Idle \in Flight /\ NoEntry \in Entry /\ Idle.v = 0 /\ NoEntry.v = 0
  BY Numbers DEF Request, Idle, NoEntry, Entry, Flight, Version
<1>2. ASSUME NEW k \in Keys PROVE KeySound(k)'
  <2>1. KeySound(k) /\ cache[k] \in Entry /\ fetch[k] \in Flight
    BY DEF ConsoleInv, KeySound
  <2>2. CASE k \notin ks
    <3>1. cache'[k] = cache[k] /\ fetch'[k] = fetch[k]
      BY <2>2 DEF Invalidate
    <3>2. CASE own' = own
      BY <3>1, <3>2, KeysStay, SameHistory DEF ConsoleInv
    <3>3. CASE k \notin PartKeys
      BY <1>1, <2>1, <3>1, <3>3 DEF KeySound, PartKeys
    <3> QED BY <2>2, <3>2, <3>3
  <2>3. CASE k \in ks
    <3>1. cache'[k] = IF cache[k].v # 0 THEN [cache[k] EXCEPT !.mark = "invalid"] ELSE cache[k]
      BY <2>3 DEF Invalidate
    <3>2. cache'[k] \in Entry /\ cache'[k].v = cache[k].v
          /\ (cache[k].v # 0 => cache'[k].mark = "invalid")
      BY <2>1, <3>1 DEF Entry
    <3>3. fetch'[k] = IF Restarts(k) THEN Request
                      ELSE [fetch[k] EXCEPT !.missed = fetch[k] # Idle]
      BY <2>3 DEF Invalidate
    <3>4. CASE Restarts(k)
      <4>1. k \in PartKeys
        BY <3>4, MountedKeys DEF Restarts, ConsoleInv
      <4> QED BY <1>1, <2>1, <3>2, <3>3, <3>4, <4>1, Numbers DEF KeySound, PartKeys
    <3>5. CASE ~Restarts(k)
      <4>1. CASE fetch[k] = Idle
        <5>1. fetch'[k] = Idle
          <6>1. [Idle EXCEPT !.missed = FALSE] = Idle
            <7>1. \A f \in Flight : f.missed = FALSE => [f EXCEPT !.missed = FALSE] = f
              BY DEF Flight
            <7>2. Idle.missed = FALSE
              BY DEF Idle
            <7> QED BY <1>1, <7>1, <7>2
          <6>2. (fetch[k] # Idle) = FALSE
            BY <4>1
          <6> QED BY <3>3, <3>5, <4>1, <6>1, <6>2
        <5> QED BY <1>1, <2>1, <3>1, <3>2, <4>1, <5>1, Numbers DEF KeySound, PartKeys
      <4>2. CASE fetch[k] # Idle
        <5>1. fetch'[k] \in Flight /\ fetch'[k].v = fetch[k].v /\ fetch'[k].missed
          BY <2>1, <3>3, <3>5, <4>2 DEF Flight
        <5> QED BY <1>1, <2>1, <3>1, <3>2, <4>2, <5>1, Numbers DEF KeySound, PartKeys
      <4> QED BY <4>1, <4>2
    <3> QED BY <3>4, <3>5
  <2> QED BY <2>2, <2>3
<1>3. cache' \in [Keys -> Entry] /\ fetch' \in [Keys -> Flight]
  <2>1. \A k \in Keys : cache'[k] \in Entry /\ fetch'[k] \in Flight
    BY <1>2 DEF KeySound
  <2>2. DOMAIN cache' = Keys /\ DOMAIN fetch' = Keys
    BY DEF Invalidate
  <2> QED BY <2>1, <2>2 DEF Invalidate
<1> QED BY <1>2, <1>3

-----------------------------------------------------------------------------
(* The row changes.                                                        *)

(* A step after which the cache, the form and the page are as they were.   *)
LEMMA RowsMove ==
  ASSUME ConsoleInv, Grown, UNCHANGED <<part, page, cache, fetch, form, own>>,
         calls' \in [Calls -> Call], \A c \in Calls : CallSound(c)',
         \A c \in Calls : Moves(calls'[c]) =>
            /\ Moves(calls[c]) /\ calls'[c].op = calls[c].op /\ calls'[c].here = calls[c].here
  PROVE  ConsoleInv'
<1>1. \A k \in Keys : KeySound(k)'
  BY KeysStay
<1>2. own' \in 0..Len(rows')
  BY Numbers, BoundAssumption DEF Grown, HistorySound
<1>3. FormSound'
  BY FormStays
<1>4. PageSound' /\ cache' \in [Keys -> Entry] /\ fetch' \in [Keys -> Flight]
  BY DEF ConsoleInv, PageSound
<1> QED BY <1>1, <1>2, <1>3, <1>4 DEF ConsoleInv, Grown

(* What the handlers make of a row, and that a save which loses its        *)
(* headers is the administrator's or never had them.                       *)
LEMMA ResultSound ==
  ASSUME ConsoleInv, NEW c \in Calls, calls[c].phase = "sent",
         Accepts(calls[c]), Alters(calls[c])
  PROVE  /\ Result(calls[c]) \in Row /\ Result(calls[c]).state # "unborn"
         /\ row.headers /\ ~Result(calls[c]).headers
            => part = "admin" \/ ~rows[calls[c].v].headers
<1> DEFINE q == calls[c]
<1>1. /\ row \in Row /\ (row.state = "unborn" => ~row.headers)
      /\ q.op \in Ops /\ part \in {"user", "admin"}
  BY LatestRow DEF ConsoleInv, CallSound, Call, PageSound
<1>2. CASE q.op \in {"pause", "resume"}
  BY <1>1, <1>2 DEF Result, Accepts, Live, Row, Status
<1>3. CASE q.op \in {"delete", "remove"}
  BY <1>1, <1>3 DEF Result, Row
<1>4. CASE q.op = "create"
  <2>1. Result(q) = [row EXCEPT !.state = "live", !.headers = FALSE] /\ row.state = "unborn"
    BY <1>4 DEF Result, Alters
  <2> QED BY <1>1, <2>1 DEF Row
<1>5. CASE q.op = "save"
  <2>1. /\ row.state = "live" /\ q.v # 0
        /\ Result(q) = [row EXCEPT !.headers = part = "user" /\ rows[q.v].headers]
    BY <1>5 DEF Result, Accepts, Live
  <2>2. q.v \in 1..Len(rows)
    BY <2>1, Numbers DEF ConsoleInv, CallSound
  <2>3. rows[q.v].headers \in BOOLEAN
    BY <2>2 DEF ConsoleInv, HistorySound, Row
  <2> DEFINE h == (part = "user" /\ rows[q.v].headers)
  <2>4. h \in BOOLEAN /\ Result(q) = [row EXCEPT !.headers = h]
    BY <2>1
  <2>5. ~h => part = "admin" \/ ~rows[q.v].headers
    BY <1>1
  <2> HIDE DEF q, h
  <2>6. Result(q) \in Row /\ Result(q).state = "live" /\ Result(q).headers = h
    BY <1>1, <2>1, <2>4 DEF Row
  <2> QED BY <2>5, <2>6 DEF q
<1>6. q.op # "trigger"
  BY DEF Alters
<1> QED BY <1>1, <1>2, <1>3, <1>4, <1>5, <1>6 DEF Ops

LEMMA ServeKeeps ==
  ASSUME ConsoleInv, NEW c \in Calls, Serve(c)
  PROVE  ConsoleInv'
<1> DEFINE q == calls[c]
<1>1. /\ UNCHANGED <<part, page, cache, fetch, form, own>> /\ q.phase = "sent"
      /\ q \in Call /\ CallSound(c) /\ calls \in [Calls -> Call]
  BY DEF Serve, ConsoleInv
<1>2. NoCall \in Call /\ NoCall.phase = "free"
  BY BoundAssumption DEF NoCall, Call, Ops, Version
<1>3. CASE ~Accepts(q) /\ calls' = [calls EXCEPT ![c] = NoCall] /\ UNCHANGED rows
  <2>1. Grown
    BY <1>3, SameHistory DEF ConsoleInv
  <2>2. calls' \in [Calls -> Call] /\ calls'[c] = NoCall
        /\ \A d \in Calls \ {c} : calls'[d] = calls[d]
    BY <1>1, <1>2, <1>3
  <2>3. \A d \in Calls : CallSound(d)'
    BY <1>1, <2>1, <2>2, CallStays
  <2> QED BY <1>1, <1>2, <2>1, <2>2, <2>3, RowsMove DEF Moves
<1>4. ASSUME NEW w \in 0..MaxRows, Grown, w <= Len(rows'), calls' = Answered(c, w)
      PROVE  ConsoleInv'
  <2> DEFINE new == [q EXCEPT !.phase = "done", !.v = w]
  <2>1. /\ new \in Call /\ new.phase = "done" /\ new.op = q.op /\ new.here = q.here
        /\ new.v = w
    BY <1>1 DEF Call, Version
  <2>2. calls' = [calls EXCEPT ![c] = new]
    BY <1>1, <1>4 DEF Answered, Call
  <2> HIDE DEF new
  <2>3. calls' \in [Calls -> Call] /\ calls'[c] = new
        /\ \A d \in Calls \ {c} : calls'[d] = calls[d]
    BY <1>1, <2>1, <2>2
  <2>4. CallSound(c)'
    BY <1>1, <1>4, <2>1, <2>3 DEF CallSound
  <2>5. \A d \in Calls : CallSound(d)'
    BY <1>1, <1>4, <2>3, <2>4, CallStays
  <2>6. \A d \in Calls : Moves(calls'[d]) =>
            /\ Moves(calls[d]) /\ calls'[d].op = calls[d].op /\ calls'[d].here = calls[d].here
    BY <1>1, <2>1, <2>3 DEF Moves
  <2> QED BY <1>1, <1>4, <2>3, <2>5, <2>6, RowsMove
<1>5. CASE calls' = Answered(c, 0) /\ UNCHANGED rows
  <2>1. Grown
    BY <1>5, SameHistory DEF ConsoleInv
  <2> QED BY <1>4, <1>5, <2>1, Numbers
<1>6. CASE Accepts(q) /\ Alters(q) /\ Becomes(Result(q)) /\ calls' = Answered(c, Len(rows) + 1)
  <2>1. Result(q) \in Row /\ Result(q).state # "unborn"
    BY <1>1, <1>6, ResultSound
  <2>2. Grown /\ Len(rows') = Len(rows) + 1
    BY <1>6, <2>1, LongerHistory DEF ConsoleInv
  <2>3. Len(rows) + 1 \in 0..MaxRows /\ Len(rows) + 1 <= Len(rows')
    BY <2>2, Numbers, BoundAssumption DEF Grown, HistorySound
  <2> QED BY <1>4, <1>6, <2>2, <2>3
<1> QED BY <1>3, <1>5, <1>6 DEF Serve

LEMMA LoseKeeps ==
  ASSUME ConsoleInv, NEW c \in Calls, Lose(c)
  PROVE  ConsoleInv'
<1>1. /\ UNCHANGED <<part, rows, page, cache, fetch, form, own>>
      /\ calls' = [calls EXCEPT ![c] = NoCall] /\ calls \in [Calls -> Call]
  BY DEF Lose, ConsoleInv
<1>2. NoCall \in Call /\ NoCall.phase = "free"
  BY BoundAssumption DEF NoCall, Call, Ops, Version
<1>3. Grown
  BY <1>1, SameHistory DEF ConsoleInv
<1>4. calls' \in [Calls -> Call] /\ calls'[c] = NoCall
      /\ \A d \in Calls \ {c} : calls'[d] = calls[d]
  BY <1>1, <1>2
<1>5. \A d \in Calls : CallSound(d)'
  BY <1>1, <1>3, <1>4, CallStays
<1> QED BY <1>1, <1>2, <1>3, <1>4, <1>5, RowsMove DEF Moves

LEMMA ElsewhereKeeps ==
  ASSUME ConsoleInv, Elsewhere
  PROVE  ConsoleInv'
<1>1. row \in Row /\ row.state = "live"
  BY LatestRow DEF ConsoleInv, Elsewhere, Live
<1>2. PICK r \in {row, [row EXCEPT !.status = "paused"], [row EXCEPT !.headers = FALSE],
                  [row EXCEPT !.state = "deleted"]} : Becomes(r)
  BY DEF Elsewhere
<1>3. r \in Row /\ r.state # "unborn"
  BY <1>1, <1>2 DEF Row, Status
<1>4. Grown
  BY <1>2, <1>3, LongerHistory DEF ConsoleInv
<1>5. UNCHANGED <<part, page, cache, fetch, form, calls, own>>
  BY DEF Elsewhere
<1>6. \A c \in Calls : CallSound(c)'
  BY <1>4, <1>5, CallStays
<1>7. calls' \in [Calls -> Call]
  BY <1>5 DEF ConsoleInv
<1> QED BY <1>4, <1>5, <1>6, <1>7, RowsMove

-----------------------------------------------------------------------------
(* The query cache.                                                        *)

LEMMA AskKeeps ==
  ASSUME ConsoleInv, NEW k \in Keys, Ask(k)
  PROVE  ConsoleInv'
<1>1. /\ UNCHANGED <<part, rows, page, cache, form, calls, own>> /\ Mounted(k)
      /\ fetch' = [fetch EXCEPT ![k] = Request] /\ fetch \in [Keys -> Flight]
  BY DEF Ask, ConsoleInv
<1>2. Request \in Flight /\ Request.v = Len(rows)
  BY Numbers DEF Request, Flight, Version
<1>3. Grown /\ k \in PartKeys
  BY <1>1, SameHistory, MountedKeys DEF ConsoleInv
<1>4. fetch' \in [Keys -> Flight] /\ fetch'[k] = Request
      /\ \A l \in Keys \ {k} : fetch'[l] = fetch[l]
  BY <1>1, <1>2
<1>5. KeySound(k)'
  BY <1>1, <1>2, <1>3, <1>4, Numbers DEF ConsoleInv, KeySound, PartKeys
<1>6. \A l \in Keys : KeySound(l)'
  BY <1>1, <1>3, <1>4, <1>5, KeysStay
<1>7. FormSound' /\ \A c \in Calls : CallSound(c)'
  BY <1>1, <1>3, FormStays, CallStays
<1> QED BY <1>1, <1>3, <1>4, <1>6, <1>7 DEF ConsoleInv, PageSound, Grown

(* A form that is opened now.                                              *)
LEMMA OpenedForm ==
  ASSUME ConsoleInv, UNCHANGED rows, NEW v \in 1..Len(rows), rows[v].state = "live",
         form' = [v |-> v, crossed |-> Crossed], page' \in {"edit", "admin"},
         \A c \in Calls : Moves(calls'[c]) => Moves(calls[c])
  PROVE  FormSound'
<1>1. form' \in Form /\ form'.v = v /\ form'.crossed = Crossed
  BY Numbers DEF Form, Version, Crossed
<1> QED BY <1>1 DEF FormSound, Crossed

LEMMA LandFetchKeeps ==
  ASSUME ConsoleInv, NEW k \in Keys, LandFetch(k)
  PROVE  ConsoleInv'
<1>1. /\ UNCHANGED <<part, rows, page, calls, own>> /\ fetch[k] # Idle
      /\ fetch' = [fetch EXCEPT ![k] = Idle]
      /\ fetch \in [Keys -> Flight] /\ cache \in [Keys -> Entry] /\ KeySound(k)
  BY DEF LandFetch, ConsoleInv
<1>2. PICK v \in fetch[k].v..Len(rows) :
          IF Missing(k, v) THEN UNCHANGED <<cache, form>>
          ELSE /\ cache' = [cache EXCEPT ![k] = [v |-> v,
                            mark |-> IF fetch[k].missed THEN "late" ELSE "fresh"]]
               /\ form' = IF page = "edit" /\ k = "job" /\ form = NoForm
                          THEN [v |-> v, crossed |-> Crossed] ELSE form
  BY DEF LandFetch
<1>3. v \in 1..Len(rows) /\ v \in Version /\ v >= fetch[k].v /\ k \in PartKeys
  BY <1>1, Numbers DEF KeySound, Version
<1>4. Idle \in Flight /\ Idle.v = 0 /\ Grown
  BY <1>1, SameHistory, Numbers DEF ConsoleInv, Idle, Flight, Version
<1>5. fetch' \in [Keys -> Flight] /\ fetch'[k] = Idle
      /\ \A l \in Keys \ {k} : fetch'[l] = fetch[l]
  BY <1>1, <1>4
<1>6. /\ cache' \in [Keys -> Entry] /\ \A l \in Keys \ {k} : cache'[l] = cache[l]
      /\ KeySound(k)' /\ FormSound'
  <2>1. CASE Missing(k, v)
    <3>1. UNCHANGED <<cache, form>>
      BY <1>2, <2>1
    <3>2. KeySound(k)'
      BY <1>1, <1>3, <1>4, <1>5, <3>1, Numbers DEF KeySound, PartKeys
    <3> QED BY <1>1, <1>4, <3>1, <3>2, FormStays
  <2>2. CASE ~Missing(k, v)
    <3> DEFINE new == [v |-> v, mark |-> IF fetch[k].missed THEN "late" ELSE "fresh"]
    <3>1. /\ cache' = [cache EXCEPT ![k] = new]
          /\ form' = IF page = "edit" /\ k = "job" /\ form = NoForm
                     THEN [v |-> v, crossed |-> Crossed] ELSE form
      BY <1>2, <2>2
    <3>2. new \in Entry /\ new.v = v /\ (fetch[k].missed => new.mark # "fresh")
      BY <1>3 DEF Entry
    <3>3. k = "job" => rows[v].state = "live"
      BY <2>2 DEF Missing
    <3> HIDE DEF new
    <3>4. /\ cache' \in [Keys -> Entry] /\ cache'[k] = new
          /\ \A l \in Keys \ {k} : cache'[l] = cache[l]
      BY <1>1, <3>1, <3>2
    <3>5. KeySound(k)'
      BY <1>1, <1>3, <1>4, <1>5, <3>2, <3>3, <3>4, Numbers DEF KeySound, PartKeys
    <3>6. FormSound'
      <4>1. CASE page = "edit" /\ k = "job" /\ form = NoForm
        BY <1>1, <1>3, <3>1, <3>3, <4>1, OpenedForm
      <4>2. CASE ~(page = "edit" /\ k = "job" /\ form = NoForm)
        BY <1>1, <1>4, <3>1, <4>2, FormStays
      <4> QED BY <4>1, <4>2
    <3> QED BY <3>4, <3>5, <3>6
  <2> QED BY <2>1, <2>2
<1>7. \A l \in Keys : KeySound(l)'
  BY <1>1, <1>4, <1>5, <1>6, KeysStay
<1>8. \A c \in Calls : CallSound(c)'
  BY <1>1, <1>4, CallStays
<1> QED BY <1>1, <1>4, <1>5, <1>6, <1>7, <1>8 DEF ConsoleInv, PageSound, Grown

LEMMA RefreshKeeps == ConsoleInv /\ Refresh => ConsoleInv'
<1> SUFFICES ASSUME ConsoleInv, Refresh PROVE ConsoleInv'
  OBVIOUS
<1>1. UNCHANGED <<part, rows, page, form, calls, own>> /\ Invalidate(Keys)
  BY DEF Refresh
<1>2. Grown /\ own' \in 0..Len(rows)
  BY <1>1, SameHistory DEF ConsoleInv
<1>3. /\ cache' \in [Keys -> Entry] /\ fetch' \in [Keys -> Flight]
      /\ \A k \in Keys : KeySound(k)'
  BY <1>1, <1>2, InvalidateSound
<1>4. FormSound' /\ \A c \in Calls : CallSound(c)'
  BY <1>1, <1>2, FormStays, CallStays
<1> QED BY <1>1, <1>2, <1>3, <1>4 DEF ConsoleInv, PageSound, Grown

-----------------------------------------------------------------------------
(* The pages.                                                              *)

LEMMA GoKeeps ==
  ASSUME ConsoleInv, NEW p \in Pages, Go(p)
  PROVE  ConsoleInv' /\ \A c \in Calls : calls'[c].phase = calls[c].phase
<1>1. /\ UNCHANGED <<part, rows, cache, fetch, own>> /\ page' = p /\ p \in Links
      /\ form' = Opened(p) /\ calls \in [Calls -> Call]
      /\ calls' = [c \in Calls |-> [calls[c] EXCEPT !.here = c \notin Saving]]
  BY DEF Go, ConsoleInv
<1>2. \A c \in Calls : /\ calls'[c] \in Call /\ calls'[c].phase = calls[c].phase
                       /\ calls'[c].op = calls[c].op
                       /\ \E b \in BOOLEAN : calls'[c] = [calls[c] EXCEPT !.here = b]
  <2> SUFFICES ASSUME NEW c \in Calls
               PROVE  /\ calls'[c] \in Call /\ calls'[c].phase = calls[c].phase
                      /\ calls'[c].op = calls[c].op
                      /\ \E b \in BOOLEAN : calls'[c] = [calls[c] EXCEPT !.here = b]
    OBVIOUS
  <2> DEFINE b == (c \notin Saving)
  <2>1. calls[c] \in Call /\ b \in BOOLEAN /\ calls'[c] = [calls[c] EXCEPT !.here = b]
    BY <1>1
  <2> HIDE DEF b
  <2> QED BY <2>1 DEF Call
<1>3. Grown
  BY <1>1, SameHistory DEF ConsoleInv
<1>4. calls' \in [Calls -> Call] /\ \A c \in Calls : CallSound(c)'
  BY <1>1, <1>2, <1>3, CallStays
<1>5. \A k \in Keys : KeySound(k)'
  BY <1>1, <1>3, KeysStay
<1>6. FormSound'
  <2>1. CASE p = "edit" /\ cache["job"].v # 0
    <3>1. cache["job"].v \in 1..Len(rows) /\ rows[cache["job"].v].state = "live"
      <4>1. "job" \in Keys
        BY DEF Keys
      <4> QED BY <2>1, <4>1, Numbers DEF ConsoleInv, KeySound
    <3>2. form' = [v |-> cache["job"].v, crossed |-> Crossed]
      BY <1>1, <2>1 DEF Opened
    <3>3. \A c \in Calls : Moves(calls'[c]) => Moves(calls[c])
      BY <1>2 DEF Moves
    <3> QED BY <1>1, <2>1, <3>1, <3>2, <3>3, OpenedForm
  <2>2. CASE ~(p = "edit" /\ cache["job"].v # 0)
    BY <1>1, <2>2, NoFormSound DEF Opened
  <2> QED BY <2>1, <2>2
<1>7. PageSound'
  BY <1>1 DEF ConsoleInv, PageSound, Links, UserPages, AdminPages
<1> QED BY <1>1, <1>2, <1>3, <1>4, <1>5, <1>6, <1>7 DEF ConsoleInv, Grown

LEMMA DrawerKeeps == ConsoleInv /\ setEditJob => ConsoleInv'
<1> SUFFICES ASSUME ConsoleInv, setEditJob PROVE ConsoleInv'
  OBVIOUS
<1>1. UNCHANGED <<part, rows, page, cache, fetch, calls, own>> /\ page = "admin"
  BY DEF setEditJob
<1>2. Grown
  BY <1>1, SameHistory DEF ConsoleInv
<1>3. FormSound'
  <2>1. CASE form = NoForm /\ Offers("admin")
             /\ form' = [v |-> cache["admin"].v, crossed |-> Crossed]
    <3>1. "admin" \in Keys /\ cache["admin"].v # 0 /\ rows[cache["admin"].v].state = "live"
      BY <2>1 DEF Offers, Shown, Copy, Keys
    <3>2. cache["admin"].v \in 1..Len(rows)
      BY <3>1, Numbers DEF ConsoleInv, KeySound
    <3> QED BY <1>1, <2>1, <3>1, <3>2, OpenedForm
  <2>2. CASE form' = NoForm
    BY <2>2, NoFormSound
  <2> QED BY <2>1, <2>2 DEF setEditJob
<1>4. (\A k \in Keys : KeySound(k)') /\ \A c \in Calls : CallSound(c)'
  BY <1>1, <1>2, KeysStay, CallStays
<1> QED BY <1>1, <1>2, <1>3, <1>4 DEF ConsoleInv, PageSound, Grown

-----------------------------------------------------------------------------
(* Mutations.                                                              *)

LEMMA MutateKeeps ==
  ASSUME ConsoleInv, NEW op \in Ops, NEW v \in 0..Len(rows), Mutate(Sent(op, v)),
         op \in {"create", "remove"} => part = "user",
         op # "create" /\ v # 0 => /\ rows[v].state = "live"
                                   /\ op = "pause" => rows[v].status = "active"
                                   /\ op = "resume" => rows[v].status = "paused",
         op \in {"create", "remove"} => form = NoForm
  PROVE  ConsoleInv' /\ \A c \in Calls : calls[c].phase # "free" => calls'[c] = calls[c]
<1> DEFINE q == Sent(op, v)
<1>1. PICK c \in Calls : calls[c].phase = "free" /\ calls' = [calls EXCEPT ![c] = q]
  BY DEF Mutate
<1>2. UNCHANGED <<part, rows, page, cache, fetch, form, own>> /\ calls \in [Calls -> Call]
  BY DEF Mutate, ConsoleInv
<1>3. /\ q \in Call /\ q.phase = "sent" /\ q.op = op /\ q.v = v /\ q.here
  <2>1. v \in Version
    BY Numbers DEF Version
  <2> QED BY <2>1 DEF Sent, NoCall, Call
<1>4. Grown
  BY <1>2, SameHistory DEF ConsoleInv
<1> HIDE DEF q
<1>5. calls' \in [Calls -> Call] /\ calls'[c] = q /\ \A d \in Calls \ {c} : calls'[d] = calls[d]
  BY <1>1, <1>2, <1>3
<1>6. CallSound(c)'
  BY <1>2, <1>3, <1>5, Numbers DEF CallSound
<1>7. \A d \in Calls : CallSound(d)'
  BY <1>2, <1>4, <1>5, <1>6, CallStays
<1>8. FormSound'
  BY <1>2, <1>3, <1>4, <1>5, FormStays DEF Moves
<1>9. \A k \in Keys : KeySound(k)'
  BY <1>2, <1>4, KeysStay
<1> QED BY <1>1, <1>2, <1>4, <1>5, <1>7, <1>8, <1>9 DEF ConsoleInv, PageSound, Grown

LEMMA PressKeeps ==
  ASSUME ConsoleInv, NEW op \in {"pause", "resume", "delete", "remove", "trigger"}, Press(op)
  PROVE  ConsoleInv' /\ \A c \in Calls : calls[c].phase # "free" => calls'[c] = calls[c]
<1>1. PICK k \in Keys :
        /\ Offers(k) /\ (op = "remove" => page = "detail")
        /\ op = "pause"  => Copy(k).status = "active"
        /\ op = "resume" => Copy(k).status = "paused"
        /\ Mutate(Sent(op, cache[k].v))
  BY DEF Press
<1>2. cache[k].v \in 0..Len(rows) /\ cache[k].v # 0 /\ rows[cache[k].v].state = "live"
  BY <1>1, Numbers DEF ConsoleInv, KeySound, Offers, Shown, Copy
<1>3. op = "remove" => part = "user" /\ form = NoForm
  BY <1>1 DEF ConsoleInv, PageSound, FormSound, AdminPages
<1>4. op \in Ops /\ op # "create"
  BY DEF Ops
<1> QED BY <1>1, <1>2, <1>3, <1>4, MutateKeeps DEF Copy

LEMMA SaveKeeps ==
  ASSUME ConsoleInv, NEW numeric \in BOOLEAN, Save(numeric) \/ Create(numeric)
  PROVE  ConsoleInv' /\ \A c \in Calls : calls[c].phase # "free" => calls'[c] = calls[c]
<1>1. CASE Save(numeric)
  <2>1. PICK v \in {form.v, 0} : Mutate(Sent("save", v)) /\ form # NoForm
    BY <1>1 DEF Save
  <2>2. v \in 0..Len(rows) /\ (v # 0 => rows[v].state = "live")
    BY <2>1, Numbers DEF ConsoleInv, FormSound
  <2> QED BY <2>1, <2>2, MutateKeeps DEF Ops
<1>2. CASE Create(numeric)
  <2>1. PICK v \in {0, 1} : Mutate(Sent("create", v)) /\ page = "new"
    BY <1>2 DEF Create
  <2>2. v \in 0..Len(rows)
    BY Numbers
  <2>3. part = "user" /\ form = NoForm
    BY <2>1 DEF ConsoleInv, PageSound, FormSound, AdminPages
  <2> QED BY <2>1, <2>2, <2>3, MutateKeeps DEF Ops
<1> QED BY <1>1, <1>2

(* An answer closes the form it was sent from, or one that it crossed.     *)
ClosesItsOwn ==
    \A c \in Calls : (calls[c].phase = "done" /\ calls'[c] = NoCall
                      /\ form # NoForm /\ form' = NoForm)
       => form.crossed \/ (calls[c].op = "save" /\ calls[c].here)

LEMMA SuccessKeeps ==
  ASSUME ConsoleInv, NEW c \in Calls, onSuccess(c)
  PROVE  ConsoleInv' /\ ClosesItsOwn
<1> DEFINE q    == calls[c]
           away == Target(q) # page
<1>1. /\ q.phase = "done" /\ Invalidate(Invalidates(q)) /\ page' = Target(q)
      /\ form' = IF away \/ (q.op = "save" /\ q.here) THEN NoForm ELSE form
      /\ own' = IF Invalidates(q) = {} \/ q.v <= own THEN own ELSE q.v
      /\ calls' = [d \in Calls |->
            IF d = c THEN NoCall
            ELSE [calls[d] EXCEPT !.here = @ /\ ~(away /\ d \in Saving)]]
      /\ UNCHANGED <<part, rows>>
  BY DEF onSuccess
<1>2. /\ q \in Call /\ CallSound(c) /\ PageSound /\ calls \in [Calls -> Call]
      /\ own \in 0..Len(rows) /\ q.v \in Nat /\ q.v <= Len(rows)
  BY Numbers DEF ConsoleInv, CallSound
<1>3. NoCall \in Call /\ NoCall.phase = "free" /\ Grown
  BY <1>1, SameHistory, BoundAssumption DEF ConsoleInv, NoCall, Call, Ops, Version
<1>4. Invalidates(q) \in SUBSET Keys /\ (Invalidates(q) = {} \/ PartKeys \subseteq Invalidates(q))
  BY <1>2 DEF PageSound, Invalidates, PartKeys, Keys
<1>5. own' \in 0..Len(rows) /\ (own' = own \/ PartKeys \subseteq Invalidates(q))
  BY <1>1, <1>2, <1>4, Numbers
<1>6. /\ cache' \in [Keys -> Entry] /\ fetch' \in [Keys -> Flight]
      /\ \A k \in Keys : KeySound(k)'
  BY <1>1, <1>4, <1>5, InvalidateSound
<1>7. PageSound'
  BY <1>1, <1>2 DEF PageSound, CallSound, Target, UserPages
<1>8. \A d \in Calls \ {c} :
          /\ calls'[d] \in Call /\ calls'[d].phase = calls[d].phase /\ calls'[d].op = calls[d].op
          /\ ~away => calls'[d].here = calls[d].here
          /\ \E b \in BOOLEAN : calls'[d] = [calls[d] EXCEPT !.here = b]
  <2> SUFFICES ASSUME NEW d \in Calls \ {c}
               PROVE  /\ calls'[d] \in Call /\ calls'[d].phase = calls[d].phase
                      /\ calls'[d].op = calls[d].op
                      /\ ~away => calls'[d].here = calls[d].here
                      /\ \E b \in BOOLEAN : calls'[d] = [calls[d] EXCEPT !.here = b]
    OBVIOUS
  <2> DEFINE b == (calls[d].here /\ ~(away /\ d \in Saving))
  <2>1. calls[d] \in Call /\ b \in BOOLEAN /\ calls'[d] = [calls[d] EXCEPT !.here = b]
    BY <1>1, <1>2
  <2>2. ~away => b = calls[d].here
    BY <2>1 DEF Call
  <2> HIDE DEF b, away
  <2> QED BY <2>1, <2>2 DEF Call
<1>9. calls'[c] = NoCall /\ calls' \in [Calls -> Call]
  BY <1>1, <1>3, <1>8
<1>10. \A d \in Calls : CallSound(d)'
  BY <1>1, <1>3, <1>8, <1>9, CallStays
<1>11. FormSound'
  <2>1. CASE form' = NoForm
    BY <2>1, NoFormSound
  <2>2. CASE form' # NoForm
    <3>1. form' = form /\ page' = page /\ ~away
      BY <1>1, <2>2
    <3>2. \A d \in Calls : Moves(calls'[d]) => /\ Moves(calls[d]) /\ calls'[d].op = calls[d].op
                                               /\ calls'[d].here = calls[d].here
      BY <1>3, <1>8, <1>9, <3>1 DEF Moves
    <3> QED BY <1>3, <3>1, <3>2, FormStays
  <2> QED BY <2>1, <2>2
<1>12. ClosesItsOwn
  <2> SUFFICES ASSUME NEW d \in Calls, calls[d].phase = "done", calls'[d] = NoCall,
                      form # NoForm, form' = NoForm, ~form.crossed
               PROVE  calls[d].op = "save" /\ calls[d].here
    BY DEF ClosesItsOwn
  <2>1. d = c
    BY <1>3, <1>8
  <2>2. CASE away
    <3>1. q.op \in {"save", "create", "remove"}
      BY <2>2 DEF Target
    <3>2. Moves(q)
      BY <1>1, <3>1 DEF Moves
    <3> QED BY <2>1, <3>2 DEF ConsoleInv, FormSound
  <2>3. CASE ~away
    BY <1>1, <2>1, <2>3
  <2> QED BY <2>2, <2>3
<1> HIDE DEF q, away
<1>13. own' \in 0..Len(rows')
  BY <1>1, <1>5
<1> QED BY <1>3, <1>6, <1>7, <1>9, <1>10, <1>11, <1>12, <1>13 DEF ConsoleInv, Grown

-----------------------------------------------------------------------------
(* Every step.                                                             *)

LEMMA ConsoleInvInit == Init => ConsoleInv
<1> SUFFICES ASSUME Init PROVE ConsoleInv
  OBVIOUS
<1>1. PICK s \in {"unborn", "live"} :
         rows = <<[state |-> s, status |-> "active", headers |-> s = "live"]>>
  BY DEF Init
<1> DEFINE r == [state |-> s, status |-> "active", headers |-> s = "live"]
<1>2. r \in Row /\ (r.state = "unborn" => ~r.headers)
  <2> DEFINE h == (s = "live")
  <2>1. h \in BOOLEAN /\ (s = "unborn" => ~h)
        /\ r = [state |-> s, status |-> "active", headers |-> h]
    OBVIOUS
  <2> HIDE DEF h
  <2> QED BY <2>1 DEF Row, Status
<1>3. rows = <<r>>
  BY <1>1
<1> HIDE DEF r
<1>4. /\ rows \in Seq(Row) /\ Len(rows) = 1 /\ rows[1] = r /\ 1 \in 1..MaxRows
  BY <1>2, <1>3, BoundAssumption
<1>5. HistorySound
  BY <1>2, <1>4 DEF HistorySound
<1>6. PageSound
  BY DEF Init, PageSound, UserPages, AdminPages
<1>7. /\ NoEntry \in Entry /\ NoEntry.v = 0 /\ Idle \in Flight /\ Idle.v = 0
      /\ NoCall \in Call /\ NoCall.phase = "free" /\ NoCall.v = 0
      /\ NoForm \in Form /\ own = 0
  BY BoundAssumption
     DEF Init, NoEntry, Entry, Idle, Flight, NoCall, Call, Ops, NoForm, Form, Version
<1>8. /\ cache \in [Keys -> Entry] /\ fetch \in [Keys -> Flight] /\ calls \in [Calls -> Call]
      /\ \A k \in Keys : cache[k] = NoEntry /\ fetch[k] = Idle
      /\ \A c \in Calls : calls[c] = NoCall
      /\ form = NoForm
  BY <1>7 DEF Init
<1>9. \A k \in Keys : KeySound(k)
  BY <1>4, <1>7, <1>8 DEF KeySound
<1>10. FormSound /\ \A c \in Calls : CallSound(c)
  BY <1>4, <1>7, <1>8 DEF FormSound, CallSound
<1>11. own \in 0..Len(rows)
  BY <1>4, <1>7
<1> QED BY <1>5, <1>6, <1>8, <1>9, <1>10, <1>11 DEF ConsoleInv

(* A save that loses the headers of the row.                               *)
HeadersKept ==
    \A c \in Calls : calls[c].phase = "sent" /\ calls'[c].phase = "done"
                      /\ row.headers /\ ~row'.headers
       => part = "admin" \/ ~rows[calls[c].v].headers

LEMMA SameRowsKept == UNCHANGED rows => HeadersKept
  BY DEF HeadersKept, row

LEMMA ServeKeepsHeaders ==
  ASSUME ConsoleInv, NEW c \in Calls, Serve(c)
  PROVE  HeadersKept
<1> DEFINE q == calls[c]
<1>1. CASE UNCHANGED rows
  BY <1>1, SameRowsKept
<1>2. CASE /\ Accepts(q) /\ Alters(q)
           /\ Becomes(Result(q)) /\ calls' = Answered(c, Len(rows) + 1)
  <2>1. /\ Result(q) \in Row /\ Result(q).state # "unborn"
        /\ row.headers /\ ~Result(q).headers => part = "admin" \/ ~rows[q.v].headers
    BY <1>2, ResultSound DEF Serve
  <2>2. row' = Result(q)
    BY <1>2, <2>1, LongerHistory DEF ConsoleInv, row
  <2>3. \A d \in Calls \ {c} : calls'[d] = calls[d]
    BY <1>2 DEF Answered, ConsoleInv
  <2> QED BY <2>1, <2>2, <2>3 DEF HeadersKept
<1> QED BY <1>1, <1>2 DEF Serve

LEMMA FormKept == (form = NoForm \/ form' # NoForm) => ClosesItsOwn
  BY DEF ClosesItsOwn

LEMMA CallsKept ==
  (\A c \in Calls : calls[c].phase = "done" => calls'[c].phase = "done") => ClosesItsOwn
  BY DEF ClosesItsOwn, NoCall

LEMMA ConsoleStep ==
  ASSUME ConsoleInv, [Next]_vars
  PROVE  ConsoleInv' /\ ClosesItsOwn /\ HeadersKept
<1>1. ASSUME NEW p \in Pages, Go(p) PROVE ConsoleInv' /\ ClosesItsOwn /\ HeadersKept
  <2>1. UNCHANGED rows
    BY <1>1 DEF Go
  <2> QED BY <1>1, <2>1, GoKeeps, CallsKept, SameRowsKept
<1>2. CASE setEditJob
  <2>1. UNCHANGED <<rows, calls>>
    BY <1>2 DEF setEditJob
  <2> QED BY <1>2, <2>1, DrawerKeeps, CallsKept, SameRowsKept
<1>3. CASE Refresh
  <2>1. UNCHANGED <<rows, calls>>
    BY <1>3 DEF Refresh
  <2> QED BY <1>3, <2>1, RefreshKeeps, CallsKept, SameRowsKept
<1>4. ASSUME NEW op \in {"pause", "resume", "delete", "remove", "trigger"}, Press(op)
      PROVE  ConsoleInv' /\ ClosesItsOwn /\ HeadersKept
  <2>1. UNCHANGED rows
    BY <1>4 DEF Press, Mutate
  <2> QED BY <1>4, <2>1, PressKeeps, CallsKept, SameRowsKept
<1>5. ASSUME NEW numeric \in BOOLEAN, Save(numeric) \/ Create(numeric)
      PROVE  ConsoleInv' /\ ClosesItsOwn /\ HeadersKept
  <2>1. UNCHANGED rows
    BY <1>5 DEF Save, Create, Mutate
  <2> QED BY <1>5, <2>1, SaveKeeps, CallsKept, SameRowsKept
<1>6. ASSUME NEW c \in Calls, Serve(c) PROVE ConsoleInv' /\ ClosesItsOwn /\ HeadersKept
  <2>1. UNCHANGED form
    BY <1>6 DEF Serve
  <2> QED BY <1>6, <2>1, ServeKeeps, ServeKeepsHeaders, FormKept
<1>7. ASSUME NEW c \in Calls, Lose(c) PROVE ConsoleInv' /\ ClosesItsOwn /\ HeadersKept
  <2>1. UNCHANGED <<rows, form>>
    BY <1>7 DEF Lose
  <2> QED BY <1>7, <2>1, LoseKeeps, FormKept, SameRowsKept
<1>8. ASSUME NEW c \in Calls, onSuccess(c) PROVE ConsoleInv' /\ ClosesItsOwn /\ HeadersKept
  <2>1. UNCHANGED rows
    BY <1>8 DEF onSuccess
  <2> QED BY <1>8, <2>1, SuccessKeeps, SameRowsKept
<1>9. CASE Elsewhere
  <2>1. UNCHANGED <<form, calls>>
    BY <1>9 DEF Elsewhere
  <2> QED BY <1>9, <2>1, ElsewhereKeeps, FormKept DEF HeadersKept
<1>10. ASSUME NEW k \in Keys, Ask(k) PROVE ConsoleInv' /\ ClosesItsOwn /\ HeadersKept
  <2>1. UNCHANGED <<rows, form>>
    BY <1>10 DEF Ask
  <2> QED BY <1>10, <2>1, AskKeeps, FormKept, SameRowsKept
<1>11. ASSUME NEW k \in Keys, LandFetch(k) PROVE ConsoleInv' /\ ClosesItsOwn /\ HeadersKept
  <2>1. UNCHANGED <<rows, calls>>
    BY <1>11 DEF LandFetch
  <2> QED BY <1>11, <2>1, LandFetchKeeps, CallsKept, SameRowsKept
<1>12. CASE UNCHANGED vars
  <2>1. UNCHANGED <<part, rows, page, cache, fetch, form, calls, own>>
    BY <1>12 DEF vars
  <2>2. Grown
    BY <2>1, SameHistory DEF ConsoleInv
  <2>3. /\ FormSound' /\ \A c \in Calls : CallSound(c)'
        /\ \A k \in Keys : KeySound(k)'
    BY <2>1, <2>2, FormStays, CallStays, KeysStay
  <2>4. ConsoleInv'
    BY <2>1, <2>2, <2>3 DEF ConsoleInv, PageSound, Grown
  <2> QED BY <2>1, <2>4, CallsKept, SameRowsKept
<1> QED BY <1>1, <1>2, <1>3, <1>4, <1>5, <1>6, <1>7, <1>8, <1>9, <1>10, <1>11, <1>12
        DEF Next

LEMMA ConsoleInvHolds == Spec => []ConsoleInv
<1>1. ConsoleInv /\ [Next]_vars => ConsoleInv'
  BY ConsoleStep
<1> QED BY <1>1, ConsoleInvInit, PTL DEF Spec

-----------------------------------------------------------------------------
(* Every variable keeps its type, and no copy of the row, in the cache or  *)
(* on its way to it, is newer than the row.                                *)
THEOREM ConsoleTypes == Spec => []TypeOK
BY ConsoleInvHolds, ConsoleInvTyped, PTL

(* onSuccess: once a change of the tab's own was answered, every copy that *)
(* the tab holds of an older row is marked to be fetched again, or came by *)
(* a fetch that could not be cancelled.                                    *)
THEOREM OwnChangesMarkedHolds == Spec => []OwnChangesMarked
<1>1. ConsoleInv => OwnChangesMarked
  BY DEF ConsoleInv, KeySound, OwnChangesMarked
<1> QED BY <1>1, ConsoleInvHolds, PTL

(* The buttons and forms of a page, and the handlers: what the page offers *)
(* for the newest row is accepted, so that a refusal says that the page    *)
(* was behind the row, or that the timeout was typed into.                 *)
THEOREM RefusedOnlyIfOutdatedHolds == Spec => []RefusedOnlyIfOutdated
<1>1. ASSUME ConsoleInv, NEW c \in Calls, calls[c].phase = "sent", calls[c].v = Len(rows)
      PROVE  Accepts(calls[c])
  <2>1. calls[c].v # 0 /\ rows[calls[c].v] = row /\ calls[c].op \in Ops
    BY <1>1, Numbers DEF row, ConsoleInv, CallSound, Call
  <2>2. CASE calls[c].op = "create"
    BY <2>1, <2>2 DEF Accepts
  <2>3. CASE calls[c].op # "create"
    <3>1. /\ Live /\ (calls[c].op = "pause" => row.status = "active")
          /\ (calls[c].op = "resume" => row.status = "paused")
      BY <1>1, <2>1, <2>3 DEF ConsoleInv, CallSound, Live
    <3> QED BY <2>1, <2>3, <3>1 DEF Accepts
  <2> QED BY <2>2, <2>3
<1>2. ASSUME ConsoleInv, NEW c \in Calls PROVE calls[c].v \in 0..Len(rows)
  BY <1>2, Numbers DEF ConsoleInv, CallSound
<1>3. ConsoleInv => RefusedOnlyIfOutdated
  BY <1>1, <1>2, Numbers DEF RefusedOnlyIfOutdated
<1> QED BY <1>3, ConsoleInvHolds, PTL

(* UpdateJob and AdminUpdateJob: a save loses the headers of a job only in *)
(* AdminJobs, or if its form was opened on a copy without them.            *)
THEOREM HeadersLostOnlyByAdminHolds == Spec => HeadersLostOnlyByAdmin
<1>1. ConsoleInv /\ [Next]_vars => [HeadersKept]_vars
  BY ConsoleStep
<1>2. Spec => [][HeadersKept]_vars
  BY <1>1, ConsoleInvHolds, PTL DEF Spec
<1> QED BY <1>2 DEF HeadersLostOnlyByAdmin, HeadersKept

(* onSuccess: an answer closes no form but the one it was sent from,       *)
(* unless it was under way when the form was opened.                       *)
THEOREM FormOutlivesAnswersHolds == Spec => FormOutlivesAnswers
<1>1. ConsoleInv /\ [Next]_vars => [ClosesItsOwn]_vars
  BY ConsoleStep
<1>2. Spec => [][ClosesItsOwn]_vars
  BY <1>1, ConsoleInvHolds, PTL DEF Spec
<1> QED BY <1>2 DEF FormOutlivesAnswers, ClosesItsOwn
=============================================================================
