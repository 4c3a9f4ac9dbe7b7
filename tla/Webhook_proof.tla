---------------------------- MODULE Webhook_proof ---------------------------
(***************************************************************************)
(* Proofs about Webhook, for any number of requests, calls of /slow,       *)
(* clears, dashboards, faults and for every capacity: the dashboards       *)
(* implement Feed, and they show what is true once all is quiet.           *)
(*                                                                         *)
(* What is on its way to a tab is a stretch of the log that begins after   *)
(* the place the tab is at, or will be at once it has handled its copy;    *)
(* and the stretch has no gap and ends with the log, as long as no         *)
(* broadcast passed the tab by.  What the tab shows, or its copy, is the   *)
(* state of the server but for that stretch.                               *)
(***************************************************************************)
EXTENDS Webhook, TLAPS

Copy == [requests : Seq(Reqs), active : SUBSET Slows, at : Nat]

(* TypeOK, with the functions it takes apart.                              *)
Typed == /\ TypeOK
         /\ held \in [Tabs -> Copy]
         /\ inbox \in [Tabs -> Seq(Nat)]
         /\ requests \in [Tabs -> Seq(Reqs)]

(* A stretch of the log after f, up to n; all that follows f, up to n.     *)
Stretch(s, f, n) == /\ \A i \in 1..Len(s) : f < s[i] /\ s[i] <= n
                    /\ \A i, j \in 1..Len(s) : i < j => s[i] < s[j]
Whole(s, f, n)   == Len(s) = n - f /\ \A i \in 1..Len(s) : s[i] = f + i

(* Where in the log the inbox of a tab begins.                             *)
Floor(t) == IF inited[t] THEN seen[t] ELSE held[t].at

Linked(t) == /\ link[t] # "live" => inbox[t] = <<>>
             /\ inited[t] => link[t] \in {"written", "live"}
             /\ link[t] # "closed" => seen[t] <= Floor(t)

Ascending(t) == Stretch(inbox[t], Floor(t), Len(log))

Gapless(t) == link[t] # "closed" /\ ~missed[t] => Whole(inbox[t], Floor(t), Len(log))

InOrder(t) == Linked(t) /\ Ascending(t) /\ Gapless(t)

WebhookInv == /\ Typed
              /\ CountOfList
              /\ \A t \in Tabs : InOrder(t)

(* A sequence of numbers is one over any set that holds them.              *)
LEMMA SeqOver ==
  ASSUME NEW S, NEW s \in Seq(Nat), \A i \in 1..Len(s) : s[i] \in S
  PROVE  s \in Seq(S)
  OBVIOUS

(* What a step leaves in order of a tab it does not touch.                 *)
LEMMA SameInOrder ==
  ASSUME NEW t \in Tabs, InOrder(t), log' = log,
         link'[t] = link[t], inbox'[t] = inbox[t], inited'[t] = inited[t],
         held'[t] = held[t], seen'[t] = seen[t], missed'[t] = missed[t]
  PROVE  InOrder(t)'
  BY DEF InOrder, Linked, Ascending, Gapless, Floor

-----------------------------------------------------------------------------
(* The handlers, up to their broadcast: they touch no tab.                 *)

LEMMA AddKeeps ==
  ASSUME NEW r \in Reqs, entries \in Seq(Reqs), Len(entries) <= maxEntries, add(r)
  PROVE  entries' \in Seq(Reqs) /\ Len(entries') <= maxEntries
<1>1. maxEntries \in Nat /\ maxEntries > 0
  BY SizesAssumption
<1>2. CASE Len(entries) < maxEntries
  <2>1. entries' = <<r>> \o entries
    BY <1>2 DEF add
  <2> QED BY <1>1, <1>2, <2>1
<1>3. CASE Len(entries) = maxEntries
  <2> DEFINE s == SubSeq(entries, 1, maxEntries - 1)
  <2>1. entries' = <<r>> \o s
    BY <1>1, <1>3 DEF add
  <2>2. s \in Seq(Reqs) /\ Len(s) = maxEntries - 1
    BY <1>1, <1>3
  <2> HIDE DEF s
  <2> QED BY <1>1, <2>1, <2>2
<1> QED BY <1>1, <1>2, <1>3

LEMMA WritesKeep ==
  ASSUME WebhookInv,
         UNCHANGED <<stream, tab, faults, log, seen, missed, early>>,
         entries' \in Seq(Reqs), Len(entries') <= maxEntries, slows' \in SUBSET Slows,
         phase' \in [Calls -> Phases], crossed' \in SUBSET Reqs
  PROVE  WebhookInv'
<1>1. UNCHANGED <<link, held, inited, inbox, requests, count, active, faults, log, seen,
                  missed, early>>
  BY DEF stream, tab
<1>2. Typed'
  BY <1>1 DEF WebhookInv, Typed, TypeOK
<1>3. CountOfList'
  BY <1>1 DEF WebhookInv, CountOfList
<1>4. \A t \in Tabs : InOrder(t)'
  BY <1>1, SameInOrder DEF WebhookInv
<1> QED BY <1>2, <1>3, <1>4 DEF WebhookInv

LEMMA Phased ==
  ASSUME Typed, NEW c \in Calls, NEW from, NEW to \in Phases, Moves(c, from, to)
  PROVE  phase' \in [Calls -> Phases]
  BY DEF Moves, Typed, TypeOK

(* The step of a handler that writes.                                      *)
Writes == \/ \E r \in Reqs : Capture(r)
          \/ \E s \in Slows : StartSlow(s) \/ EndSlow(s)
          \/ \E d \in Clears : Clear(d)

LEMMA WritesKeepInv ==
  ASSUME WebhookInv, Writes
  PROVE  WebhookInv' /\ UNCHANGED <<stream, tab, faults, log, seen, missed, early>>
<1>0. Typed /\ entries \in Seq(Reqs) /\ Len(entries) <= maxEntries /\ slows \in SUBSET Slows
      /\ crossed \in SUBSET Reqs
  BY DEF WebhookInv, Typed, TypeOK
<1>1. ASSUME NEW r \in Reqs, Capture(r)
      PROVE  WebhookInv' /\ UNCHANGED <<stream, tab, faults, log, seen, missed, early>>
  <2>1. entries' \in Seq(Reqs) /\ Len(entries') <= maxEntries
    BY <1>0, <1>1, AddKeeps DEF Capture
  <2>2. phase' \in [Calls -> Phases]
    BY <1>0, <1>1, Phased DEF Capture, Calls, Phases
  <2>3. slows' = slows /\ crossed' \in SUBSET Reqs
        /\ UNCHANGED <<stream, tab, faults, log, seen, missed, early>>
    BY <1>0, <1>1 DEF Capture
  <2> QED BY <1>0, <2>1, <2>2, <2>3, WritesKeep
<1>2. ASSUME NEW s \in Slows, StartSlow(s) \/ EndSlow(s)
      PROVE  WebhookInv' /\ UNCHANGED <<stream, tab, faults, log, seen, missed, early>>
  <2>1. phase' \in [Calls -> Phases]
    BY <1>0, <1>2, Phased DEF StartSlow, EndSlow, Calls, Phases
  <2>2. UNCHANGED <<entries, crossed, stream, tab, faults, log, seen, missed, early>>
        /\ slows' \in SUBSET Slows
    BY <1>0, <1>2 DEF StartSlow, EndSlow, history
  <2> QED BY <1>0, <2>1, <2>2, WritesKeep
<1>3. ASSUME NEW d \in Clears, Clear(d)
      PROVE  WebhookInv' /\ UNCHANGED <<stream, tab, faults, log, seen, missed, early>>
  <2>1. phase' \in [Calls -> Phases]
    BY <1>0, <1>3, Phased DEF Clear, Calls, Phases
  <2>2. UNCHANGED <<slows, crossed, stream, tab, faults, log, seen, missed, early>>
        /\ entries' = <<>>
    BY <1>3 DEF Clear, history
  <2>3. entries' \in Seq(Reqs) /\ Len(entries') <= maxEntries
    BY <2>2, SizesAssumption
  <2> QED BY <1>0, <2>1, <2>2, <2>3, WritesKeep
<1> QED BY <1>1, <1>2, <1>3 DEF Writes

-----------------------------------------------------------------------------
(* A broadcast: the log grows, and each inbox with it or not at all.       *)

LEMMA StretchGrows ==
  ASSUME NEW s \in Seq(Nat), NEW f \in Nat, NEW n \in Nat, f <= n, Stretch(s, f, n)
  PROVE  /\ Stretch(s, f, n + 1)
         /\ Stretch(Append(s, n + 1), f, n + 1)
         /\ Whole(s, f, n) => Whole(Append(s, n + 1), f, n + 1)
<1> DEFINE r == Append(s, n + 1)
<1>1. /\ Len(r) = Len(s) + 1 /\ Len(s) \in Nat
      /\ \A i \in 1..Len(s) : r[i] = s[i] /\ s[i] \in Nat
      /\ r[Len(s) + 1] = n + 1
  OBVIOUS
<1> HIDE DEF r
<1>2. Stretch(s, f, n + 1)
  BY <1>1 DEF Stretch
<1>3. Stretch(r, f, n + 1)
  <2>1. ASSUME NEW i \in 1..Len(r) PROVE f < r[i] /\ r[i] <= n + 1
    BY <1>1, <2>1 DEF Stretch
  <2>2. ASSUME NEW i \in 1..Len(r), NEW j \in 1..Len(r), i < j PROVE r[i] < r[j]
    <3>1. i \in 1..Len(s) /\ r[i] = s[i] /\ s[i] <= n
      BY <1>1, <2>2 DEF Stretch
    <3>2. CASE j \in 1..Len(s)
      BY <1>1, <2>2, <3>1, <3>2 DEF Stretch
    <3>3. CASE j = Len(s) + 1
      BY <1>1, <3>1, <3>3
    <3> QED BY <1>1, <3>2, <3>3
  <2> QED BY <2>1, <2>2 DEF Stretch
<1>4. ASSUME Whole(s, f, n) PROVE Whole(r, f, n + 1)
  BY <1>1, <1>4 DEF Whole
<1> QED BY <1>2, <1>3, <1>4 DEF r

LEMMA QueuedInOrder ==
  ASSUME NEW t \in Tabs, InOrder(t), inbox[t] \in Seq(Nat), log \in Seq(Events),
         NEW e, log' = Append(log, e), UNCHANGED <<link, held, inited, seen>>,
         seen[t] \in 0..Len(log), held[t].at \in 0..Len(log),
         missed[t] \in BOOLEAN,
         inbox'[t] = IF Takes(t) THEN Queued(t) ELSE inbox[t],
         missed'[t] = (missed[t] \/ (link[t] # "closed" /\ ~Takes(t)))
  PROVE  InOrder(t)'
<1>1. Len(log') = Len(log) + 1 /\ Len(log) \in Nat
  OBVIOUS
<1>2. /\ Floor(t)' = Floor(t) /\ Floor(t) \in 0..Len(log) /\ Floor(t) \in Nat
      /\ Floor(t) <= Len(log) /\ Stretch(inbox[t], Floor(t), Len(log))
  BY <1>1 DEF Floor, InOrder, Ascending
<1>3. CASE Takes(t)
  <2>1. inbox'[t] = Append(inbox[t], Len(log) + 1) /\ link[t] = "live"
        /\ missed'[t] = missed[t]
    BY <1>3 DEF Queued, Takes
  <2>2. /\ Stretch(inbox'[t], Floor(t), Len(log) + 1)
        /\ Whole(inbox[t], Floor(t), Len(log)) => Whole(inbox'[t], Floor(t), Len(log) + 1)
    <3>1. /\ Stretch(Append(inbox[t], Len(log) + 1), Floor(t), Len(log) + 1)
          /\ Whole(inbox[t], Floor(t), Len(log))
                => Whole(Append(inbox[t], Len(log) + 1), Floor(t), Len(log) + 1)
      BY <1>1, <1>2, StretchGrows, Zenon
    <3> QED BY <2>1, <3>1
  <2>3. Linked(t)'
    BY <1>2, <2>1 DEF InOrder, Linked
  <2>4. Ascending(t)'
    BY <1>1, <1>2, <2>2 DEF InOrder, Ascending
  <2>5. Gapless(t)'
    BY <1>1, <1>2, <2>1, <2>2 DEF InOrder, Gapless
  <2> QED BY <2>3, <2>4, <2>5 DEF InOrder
<1>4. CASE ~Takes(t)
  <2>1. inbox'[t] = inbox[t] /\ (link[t] # "closed" => missed'[t])
    BY <1>4
  <2>2. Linked(t)'
    BY <1>2, <2>1 DEF InOrder, Linked
  <2>3. Ascending(t)'
    BY <1>1, <1>2, <2>1, StretchGrows DEF InOrder, Ascending
  <2>4. Gapless(t)'
    BY <2>1 DEF Gapless
  <2> QED BY <2>2, <2>3, <2>4 DEF InOrder
<1> QED BY <1>3, <1>4

LEMMA BroadcastKeeps ==
  ASSUME WebhookInv, NEW type, NEW id, [type |-> type, id |-> id] \in Events,
         phase' \in [Calls -> Phases], broadcast(type, id)
  PROVE  WebhookInv'
<1> DEFINE e == [type |-> type, id |-> id]
<1>1. /\ log' = Append(log, e) /\ e \in Events
      /\ inbox' = [t \in Tabs |-> IF Takes(t) THEN Queued(t) ELSE inbox[t]]
      /\ missed' = [t \in Tabs |-> missed[t] \/ (link[t] # "closed" /\ ~Takes(t))]
      /\ UNCHANGED <<entries, slows, link, held, inited, requests, count, active, faults,
                     seen, crossed, early>>
  BY DEF broadcast, tab
<1> HIDE DEF e
<1>2. /\ Typed /\ log \in Seq(Events) /\ missed \in [Tabs -> BOOLEAN]
      /\ \A t \in Tabs : /\ InOrder(t) /\ inbox[t] \in Seq(Nat) /\ Len(inbox[t]) <= Buffer
                         /\ seen[t] \in 0..Len(log) /\ held[t].at \in 0..Len(log)
  BY DEF WebhookInv, Typed, TypeOK
<1>3. log' \in Seq(Events) /\ Len(log') = Len(log) + 1 /\ Len(log) \in Nat
  BY <1>1, <1>2
<1>4. \A t \in Tabs : InOrder(t)'
  BY <1>1, <1>2, QueuedInOrder
<1>5. ASSUME NEW t \in Tabs
      PROVE  inbox'[t] \in Seq(Nat) /\ Len(inbox'[t]) <= Buffer
             /\ inbox'[t] \in Seq(1..Len(log'))
  <2>1. inbox'[t] = IF Takes(t) THEN Append(inbox[t], Len(log) + 1) ELSE inbox[t]
    BY <1>1 DEF Queued
  <2>2. inbox'[t] \in Seq(Nat) /\ Len(inbox'[t]) <= Buffer
    BY <1>2, <1>3, <2>1, SizesAssumption DEF Takes
  <2>3. \A i \in 1..Len(inbox'[t]) : inbox'[t][i] \in 1..Len(log')
    <3>1. Ascending(t)' /\ Floor(t)' \in Nat
      BY <1>1, <1>2, <1>4 DEF InOrder, Floor
    <3> QED BY <1>3, <2>2, <3>1 DEF Ascending, Stretch
  <2> QED BY <2>2, <2>3, SeqOver
<1>6. Typed'
  <2>1. inbox' \in [Tabs -> Seq(Nat)] /\ missed' \in [Tabs -> BOOLEAN]
    BY <1>1, <1>2, <1>5
  <2>2. seen' \in [Tabs -> 0..Len(log')] /\ \A t \in Tabs : held'[t].at \in 0..Len(log')
    BY <1>1, <1>2, <1>3 DEF Typed, TypeOK
  <2> QED BY <1>1, <1>2, <1>3, <1>5, <2>1, <2>2 DEF Typed, TypeOK
<1>7. CountOfList'
  BY <1>1 DEF WebhookInv, CountOfList
<1> QED BY <1>4, <1>6, <1>7 DEF WebhookInv

LEMMA AnnounceIs ==
  ASSUME Typed, NEW c \in Calls, Announce(c)
  PROVE  /\ phase' \in [Calls -> Phases]
         /\ \E type \in {"request", "slow_start", "slow_end", "clear"} :
               [type |-> type, id |-> c] \in Events /\ broadcast(type, c)
<1>1. phase' \in [Calls -> Phases]
  BY Phased DEF Announce, Phases
<1>2. \E type \in {"request", "slow_start", "slow_end", "clear"} :
         [type |-> type, id |-> c] \in Events /\ broadcast(type, c)
  BY DEF Announce, Events
<1> QED BY <1>1, <1>2

-----------------------------------------------------------------------------
(* The event stream and the script of a tab.                               *)

(* A step of tab t leaves the others, and the log, alone.                  *)
OnlyTab(t) ==
    /\ UNCHANGED <<entries, slows, phase, faults, log, crossed>>
    /\ \A u \in Tabs \ {t} :
          /\ link'[u] = link[u] /\ held'[u] = held[u] /\ inited'[u] = inited[u]
          /\ inbox'[u] = inbox[u] /\ seen'[u] = seen[u] /\ missed'[u] = missed[u]
          /\ requests'[u] = requests[u] /\ count'[u] = count[u]

TabTyped ==
    /\ link \in [Tabs -> Links] /\ held \in [Tabs -> Copy] /\ inited \in [Tabs -> BOOLEAN]
    /\ inbox \in [Tabs -> Seq(Nat)] /\ seen \in [Tabs -> 0..Len(log)]
    /\ missed \in [Tabs -> BOOLEAN] /\ early \in [Tabs -> SUBSET Reqs]
    /\ requests \in [Tabs -> Seq(Reqs)] /\ count \in [Tabs -> Nat]
    /\ active \in [Tabs -> SUBSET Slows]
    /\ \A t \in Tabs : /\ held[t].at <= Len(log)
                       /\ inbox[t] \in Seq(1..Len(log)) /\ Len(inbox[t]) <= Buffer

LEMMA TypedTab == ASSUME Typed PROVE TabTyped /\ Len(log) \in Nat
  BY DEF Typed, TypeOK, TabTyped, Copy

LEMMA TabTypes ==
  ASSUME Typed, TabTyped', UNCHANGED <<entries, slows, phase, faults, log, crossed>>
  PROVE  Typed'
<1>1. \A t \in Tabs : /\ held'[t].requests \in Seq(Reqs) /\ held'[t].active \in SUBSET Slows
                      /\ held'[t].at \in 0..Len(log)
  BY DEF TabTyped, Copy, Typed, TypeOK
<1> QED BY <1>1 DEF Typed, TypeOK, TabTyped

LEMMA TabKeeps ==
  ASSUME WebhookInv, NEW t \in Tabs, OnlyTab(t), TabTyped', InOrder(t)',
         requests'[t] # <<>> => count'[t] = Len(requests'[t])
  PROVE  WebhookInv'
<1>1. Typed'
  BY TabTypes DEF WebhookInv, OnlyTab
<1>2. CountOfList'
  BY DEF WebhookInv, CountOfList, OnlyTab
<1>3. \A u \in Tabs \ {t} : InOrder(u)'
  BY SameInOrder DEF WebhookInv, OnlyTab
<1> QED BY <1>1, <1>2, <1>3 DEF WebhookInv

LEMMA ConnectKeeps ==
  ASSUME WebhookInv, NEW t \in Tabs, connect(t)
  PROVE  WebhookInv'
<1>1. /\ link[t] = "closed" /\ link' = [link EXCEPT ![t] = "reading"]
      /\ held' = [held EXCEPT ![t] = [requests |-> entries, active |-> {}, at |-> Len(log)]]
      /\ inited' = [inited EXCEPT ![t] = FALSE] /\ missed' = [missed EXCEPT ![t] = FALSE]
      /\ early' = [early EXCEPT ![t] = {r \in Items(entries) : phase[r] = "added"}]
      /\ UNCHANGED <<entries, slows, phase, inbox, requests, count, active, faults, log,
                     seen, crossed>>
  BY DEF connect, server, tab
<1>2. Typed /\ TabTyped /\ Len(log) \in Nat /\ entries \in Seq(Reqs) /\ InOrder(t)
  BY TypedTab DEF WebhookInv, Typed, TypeOK
<1>3. Items(entries) \subseteq Reqs
  BY <1>2 DEF Items
<1>4. TabTyped'
  BY <1>1, <1>2, <1>3 DEF TabTyped, Copy, Links
<1>5. /\ inbox'[t] = <<>> /\ link'[t] = "reading" /\ ~inited'[t]
      /\ Floor(t)' = Len(log) /\ seen'[t] <= Len(log)
  BY <1>1, <1>2 DEF InOrder, Linked, Floor, TabTyped
<1>6. InOrder(t)'
  BY <1>1, <1>2, <1>5 DEF InOrder, Linked, Ascending, Gapless, Stretch, Whole
<1>7. OnlyTab(t)
  BY <1>1, <1>2 DEF OnlyTab, TabTyped
<1>8. requests'[t] # <<>> => count'[t] = Len(requests'[t])
  BY <1>1 DEF WebhookInv, CountOfList
<1> QED BY <1>4, <1>6, <1>7, <1>8, TabKeeps

LEMMA WriteInitKeeps ==
  ASSUME WebhookInv, NEW t \in Tabs, WriteInit(t)
  PROVE  WebhookInv'
<1>1. /\ link[t] = "reading" /\ link' = [link EXCEPT ![t] = "written"]
      /\ held' = [held EXCEPT ![t].active = slows]
      /\ UNCHANGED <<entries, slows, phase, inited, inbox, requests, count, active, faults,
                     log, seen, missed, crossed, early>>
  BY DEF WriteInit, server, tab, history
<1>2. Typed /\ TabTyped /\ Len(log) \in Nat /\ slows \in SUBSET Slows /\ InOrder(t)
  BY TypedTab DEF WebhookInv, Typed, TypeOK
<1>3. held'[t].at = held[t].at /\ held' \in [Tabs -> Copy]
      /\ \A u \in Tabs : held'[u].at = held[u].at
  BY <1>1, <1>2 DEF TabTyped, Copy
<1>4. TabTyped'
  BY <1>1, <1>2, <1>3 DEF TabTyped, Links
<1>5. Floor(t)' = Floor(t)
  BY <1>1, <1>3 DEF Floor
<1>6. InOrder(t)'
  BY <1>1, <1>2, <1>5 DEF InOrder, Linked, Ascending, Gapless, TabTyped
<1>7. OnlyTab(t)
  BY <1>1, <1>2 DEF OnlyTab, TabTyped
<1>8. requests'[t] # <<>> => count'[t] = Len(requests'[t])
  BY <1>1 DEF WebhookInv, CountOfList
<1> QED BY <1>4, <1>6, <1>7, <1>8, TabKeeps

LEMMA SubscribeKeeps ==
  ASSUME WebhookInv, NEW t \in Tabs, subscribe(t)
  PROVE  WebhookInv'
<1>1. /\ link[t] = "written" /\ link' = [link EXCEPT ![t] = "live"]
      /\ UNCHANGED <<entries, slows, phase, held, inited, inbox, requests, count, active,
                     faults, log, seen, missed, crossed, early>>
  BY DEF subscribe, server, tab, history
<1>2. Typed /\ TabTyped /\ InOrder(t)
  BY TypedTab DEF WebhookInv
<1>3. TabTyped'
  BY <1>1, <1>2 DEF TabTyped, Links
<1>4. Floor(t)' = Floor(t)
  BY <1>1 DEF Floor
<1>5. InOrder(t)'
  BY <1>1, <1>2, <1>4 DEF InOrder, Linked, Ascending, Gapless, TabTyped
<1>6. OnlyTab(t)
  BY <1>1, <1>2 DEF OnlyTab, TabTyped
<1>7. requests'[t] # <<>> => count'[t] = Len(requests'[t])
  BY <1>1 DEF WebhookInv, CountOfList
<1> QED BY <1>3, <1>5, <1>6, <1>7, TabKeeps

LEMMA OnInitKeeps ==
  ASSUME WebhookInv, NEW t \in Tabs, OnInit(t)
  PROVE  WebhookInv'
<1>1. /\ link[t] \in {"written", "live"} /\ ~inited[t]
      /\ requests' = [requests EXCEPT ![t] = held[t].requests]
      /\ count' = IF held[t].requests = <<>> THEN count
                  ELSE [count EXCEPT ![t] = Len(held[t].requests)]
      /\ active' = [active EXCEPT ![t] = held[t].active]
      /\ seen' = [seen EXCEPT ![t] = held[t].at]
      /\ inited' = [inited EXCEPT ![t] = TRUE] /\ held' = [held EXCEPT ![t] = NoCopy]
      /\ UNCHANGED <<entries, slows, phase, link, inbox, faults, log, missed, crossed, early>>
  BY DEF OnInit, server
<1>2. Typed /\ TabTyped /\ Len(log) \in Nat /\ InOrder(t)
  BY TypedTab DEF WebhookInv
<1>3. held[t] \in Copy /\ held[t].at <= Len(log) /\ Len(held[t].requests) \in Nat
      /\ NoCopy \in Copy /\ NoCopy.at = 0
  BY <1>2 DEF TabTyped, Copy, NoCopy
<1>4. TabTyped'
  BY <1>1, <1>2, <1>3 DEF TabTyped, Copy
<1>5. Floor(t)' = Floor(t) /\ seen'[t] = Floor(t)' /\ Floor(t) \in Nat
  BY <1>1, <1>2, <1>3 DEF Floor, TabTyped, Copy
<1>6. InOrder(t)'
  BY <1>1, <1>2, <1>5 DEF InOrder, Linked, Ascending, Gapless, TabTyped
<1>7. OnlyTab(t)
  BY <1>1, <1>2 DEF OnlyTab, TabTyped
<1>8. requests'[t] # <<>> => count'[t] = Len(requests'[t])
  BY <1>1, <1>2 DEF TabTyped
<1> QED BY <1>4, <1>6, <1>7, <1>8, TabKeeps

LEMMA StretchShrinks ==
  ASSUME NEW s \in Seq(Nat), NEW f \in Nat, NEW n \in Nat, Stretch(s, f, n), s # <<>>
  PROVE  /\ Head(s) \in f + 1 .. n /\ Tail(s) \in Seq(Nat) /\ Len(Tail(s)) <= Len(s)
         /\ Stretch(Tail(s), Head(s), n)
         /\ Whole(s, f, n) => Head(s) = f + 1 /\ Whole(Tail(s), Head(s), n)
<1> DEFINE r == Tail(s)
<1>1. /\ Len(s) \in Nat /\ Len(s) > 0 /\ Len(r) = Len(s) - 1 /\ r \in Seq(Nat)
      /\ \A i \in 1..Len(r) : r[i] = s[i + 1]
      /\ Head(s) = s[1] /\ s[1] \in Nat
  OBVIOUS
<1> HIDE DEF r
<1>2. Head(s) \in f + 1 .. n
  BY <1>1 DEF Stretch
<1>3. Stretch(r, Head(s), n)
  <2>1. ASSUME NEW i \in 1..Len(r) PROVE Head(s) < r[i] /\ r[i] <= n
    <3>1. 1 \in 1..Len(s) /\ i + 1 \in 1..Len(s) /\ 1 < i + 1 /\ r[i] = s[i + 1]
      BY <1>1
    <3> QED BY <1>1, <3>1 DEF Stretch
  <2>2. ASSUME NEW i \in 1..Len(r), NEW j \in 1..Len(r), i < j PROVE r[i] < r[j]
    <3>1. /\ i + 1 \in 1..Len(s) /\ j + 1 \in 1..Len(s) /\ i + 1 < j + 1
          /\ r[i] = s[i + 1] /\ r[j] = s[j + 1]
      BY <1>1, <2>2
    <3> QED BY <3>1 DEF Stretch
  <2> QED BY <2>1, <2>2 DEF Stretch
<1>4. ASSUME Whole(s, f, n) PROVE Head(s) = f + 1 /\ Whole(r, Head(s), n)
  <2>1. Len(s) = n - f /\ 1 \in 1..Len(s) /\ Head(s) = f + 1
    BY <1>1, <1>4 DEF Whole
  <2>2. ASSUME NEW i \in 1..Len(r) PROVE r[i] = Head(s) + i
    <3>1. i \in Nat /\ i + 1 \in 1..Len(s) /\ r[i] = s[i + 1]
      BY <1>1
    <3>2. s[i + 1] = f + (i + 1)
      BY <1>4, <3>1 DEF Whole
    <3>3. f + (i + 1) = (f + 1) + i
      BY <3>1
    <3> QED BY <2>1, <3>1, <3>2, <3>3
  <2>3. Len(r) = n - Head(s)
    BY <1>1, <2>1
  <2> QED BY <2>1, <2>2, <2>3 DEF Whole
<1> QED BY <1>1, <1>2, <1>3, <1>4 DEF r

(* What an event does to the lists of a tab keeps their types.             *)
LEMMA OnEventKeeps ==
  ASSUME Typed, CountOfList, NEW t \in Tabs, NEW e \in Events,
         \/ e.type = "request"    /\ OnRequest(t, e.id)
         \/ e.type = "clear"      /\ OnClear(t)
         \/ e.type = "slow_start" /\ OnSlowStart(t, e.id)
         \/ e.type = "slow_end"   /\ OnSlowEnd(t, e.id)
  PROVE  /\ requests' \in [Tabs -> Seq(Reqs)] /\ count' \in [Tabs -> Nat]
         /\ active' \in [Tabs -> SUBSET Slows]
         /\ requests'[t] # <<>> => count'[t] = Len(requests'[t])
         /\ \A u \in Tabs \ {t} : /\ requests'[u] = requests[u] /\ count'[u] = count[u]
                                  /\ active'[u] = active[u]
         /\ [requests |-> requests'[t], active |-> active'[t]]
               = F!After([requests |-> requests[t], active |-> active[t]], e)
<1>1. /\ requests \in [Tabs -> Seq(Reqs)] /\ count \in [Tabs -> Nat]
      /\ active \in [Tabs -> SUBSET Slows]
      /\ requests[t] # <<>> => count[t] = Len(requests[t])
  BY DEF Typed, TypeOK, CountOfList
<1>2. CASE e.type = "request" /\ OnRequest(t, e.id)
  <2>1. e.id \in Reqs
    BY <1>2 DEF Events
  <2>2. <<e.id>> \o requests[t] \in Seq(Reqs)
        /\ Len(<<e.id>> \o requests[t]) = Len(requests[t]) + 1
    BY <1>1, <2>1
  <2>3. /\ requests' = [requests EXCEPT ![t] = <<e.id>> \o @]
        /\ count' = [count EXCEPT ![t] = Len(requests[t]) + 1] /\ active' = active
    BY <1>2 DEF OnRequest
  <2>4. /\ requests' \in [Tabs -> Seq(Reqs)] /\ count' \in [Tabs -> Nat]
        /\ requests'[t] = <<e.id>> \o requests[t] /\ count'[t] = Len(requests[t]) + 1
    BY <1>1, <2>2, <2>3
  <2>5. [requests |-> requests'[t], active |-> active'[t]]
          = F!After([requests |-> requests[t], active |-> active[t]], e)
    BY <1>2, <2>3, <2>4 DEF F!After
  <2> QED BY <1>1, <2>2, <2>3, <2>4, <2>5
<1>3. CASE e.type = "clear" /\ OnClear(t)
  BY <1>1, <1>3 DEF OnClear, F!After
<1>4. CASE e.type = "slow_start" /\ OnSlowStart(t, e.id)
  <2>1. e.id \in Slows
    BY <1>4 DEF Events
  <2> QED BY <1>1, <1>4, <2>1 DEF OnSlowStart, F!After
<1>5. CASE e.type = "slow_end" /\ OnSlowEnd(t, e.id)
  BY <1>1, <1>5 DEF OnSlowEnd, F!After
<1> QED BY <1>2, <1>3, <1>4, <1>5

(* The event that a tab handles, and where that leaves it.                 *)
LEMMA MessageIs ==
  ASSUME WebhookInv, NEW t \in Tabs, onmessage(t)
  PROVE  /\ inited[t] /\ Head(inbox[t]) \in seen[t] + 1 .. Len(log)
         /\ link[t] # "closed" /\ (~missed[t] => Head(inbox[t]) = seen[t] + 1)
         /\ log[Head(inbox[t])] \in Events
         /\ Tail(inbox[t]) \in Seq(Nat) /\ Len(Tail(inbox[t])) <= Buffer
         /\ Stretch(Tail(inbox[t]), Head(inbox[t]), Len(log))
         /\ ~missed[t] => Whole(Tail(inbox[t]), Head(inbox[t]), Len(log))
<1>1. /\ InOrder(t) /\ inited[t] /\ inbox[t] # <<>> /\ Floor(t) = seen[t]
      /\ inbox[t] \in Seq(Nat) /\ Len(inbox[t]) <= Buffer /\ Buffer \in Nat
      /\ seen[t] \in Nat /\ Len(log) \in Nat /\ log \in Seq(Events)
  BY SizesAssumption DEF onmessage, WebhookInv, Typed, TypeOK, Floor
<1>2. link[t] # "closed" /\ Stretch(inbox[t], seen[t], Len(log))
      /\ (~missed[t] => Whole(inbox[t], seen[t], Len(log)))
  BY <1>1 DEF InOrder, Linked, Ascending, Gapless
<1>3. /\ Head(inbox[t]) \in seen[t] + 1 .. Len(log) /\ Tail(inbox[t]) \in Seq(Nat)
      /\ Len(Tail(inbox[t])) <= Len(inbox[t])
      /\ Stretch(Tail(inbox[t]), Head(inbox[t]), Len(log))
      /\ Whole(inbox[t], seen[t], Len(log))
            => Head(inbox[t]) = seen[t] + 1 /\ Whole(Tail(inbox[t]), Head(inbox[t]), Len(log))
  BY <1>1, <1>2, StretchShrinks, Zenon
<1>4. log[Head(inbox[t])] \in Events /\ Len(Tail(inbox[t])) <= Buffer
  BY <1>1, <1>3
<1> QED BY <1>1, <1>2, <1>3, <1>4

LEMMA onmessageKeeps ==
  ASSUME WebhookInv, NEW t \in Tabs, onmessage(t)
  PROVE  WebhookInv'
<1> DEFINE i == Head(inbox[t])
<1>1. /\ inbox' = [inbox EXCEPT ![t] = Tail(@)] /\ seen' = [seen EXCEPT ![t] = i]
      /\ UNCHANGED <<entries, slows, phase, link, held, inited, faults, log, missed,
                     crossed, early>>
  BY DEF onmessage, server
<1>2. Typed /\ TabTyped /\ Len(log) \in Nat /\ InOrder(t)
  BY TypedTab DEF WebhookInv
<1>3. /\ inited[t] /\ i \in seen[t] + 1 .. Len(log) /\ link[t] # "closed"
      /\ Tail(inbox[t]) \in Seq(Nat) /\ Len(Tail(inbox[t])) <= Buffer
      /\ Stretch(Tail(inbox[t]), i, Len(log))
      /\ ~missed[t] => Whole(Tail(inbox[t]), i, Len(log))
      /\ log[i] \in Events
  BY MessageIs
<1>4. /\ requests' \in [Tabs -> Seq(Reqs)] /\ count' \in [Tabs -> Nat]
      /\ active' \in [Tabs -> SUBSET Slows]
      /\ requests'[t] # <<>> => count'[t] = Len(requests'[t])
      /\ \A u \in Tabs \ {t} : requests'[u] = requests[u] /\ count'[u] = count[u]
  BY <1>3, OnEventKeeps DEF onmessage, WebhookInv
<1> HIDE DEF i
<1>5. inbox'[t] = Tail(inbox[t]) /\ seen'[t] = i /\ Floor(t)' = i /\ i \in Nat
      /\ seen[t] \in Nat
  BY <1>1, <1>2, <1>3 DEF TabTyped, Floor
<1>6. InOrder(t)'
  BY <1>1, <1>2, <1>3, <1>5 DEF InOrder, Linked, Ascending, Gapless
<1>7. inbox'[t] \in Seq(1..Len(log))
  <2>1. \A j \in 1..Len(Tail(inbox[t])) : Tail(inbox[t])[j] \in 1..Len(log)
    BY <1>2, <1>3, <1>5 DEF Stretch
  <2> QED BY <1>3, <1>5, <2>1, SeqOver
<1>8. TabTyped'
  <2>1. seen[t] \in 0..Len(log) /\ i \in 0..Len(log)
    BY <1>2, <1>3, <1>5
  <2> QED BY <1>1, <1>2, <1>3, <1>4, <1>5, <1>7, <2>1 DEF TabTyped
<1>9. OnlyTab(t)
  BY <1>1, <1>2, <1>4 DEF OnlyTab, TabTyped
<1> QED BY <1>4, <1>6, <1>8, <1>9, TabKeeps

-----------------------------------------------------------------------------
(* Connections that break.                                                 *)

LEMMA CutKeeps ==
  ASSUME WebhookInv, NEW T \in SUBSET Tabs, Cut(T), UNCHANGED <<tab, history>>,
         entries' \in Seq(Reqs), Len(entries') <= maxEntries, slows' \in SUBSET Slows,
         phase' \in [Calls -> Phases], faults' \in 0..MaxFaults
  PROVE  WebhookInv'
<1>1. UNCHANGED <<requests, count, active, log, seen, missed, crossed, early>>
  BY DEF tab, history
<1>2. Typed /\ TabTyped /\ Len(log) \in Nat /\ NoCopy \in Copy /\ NoCopy.at = 0
  BY TypedTab DEF WebhookInv, Copy, NoCopy
<1>3. \A t \in Tabs :
         IF t \in T
         THEN link'[t] = "closed" /\ held'[t] = NoCopy /\ ~inited'[t] /\ inbox'[t] = <<>>
         ELSE link'[t] = link[t] /\ held'[t] = held[t] /\ inited'[t] = inited[t]
              /\ inbox'[t] = inbox[t]
  BY <1>2 DEF Cut, TabTyped
<1>4. /\ link' \in [Tabs -> Links] /\ held' \in [Tabs -> Copy]
      /\ inited' \in [Tabs -> BOOLEAN] /\ inbox' \in [Tabs -> Seq(Nat)]
  BY <1>2, <1>3 DEF Cut, TabTyped, Links
<1>5. \A t \in Tabs : /\ held'[t].at <= Len(log) /\ inbox'[t] \in Seq(1..Len(log))
                      /\ Len(inbox'[t]) <= Buffer
  <2>1. <<>> \in Seq(1..Len(log)) /\ Len(<<>>) <= Buffer
    BY SizesAssumption
  <2> SUFFICES ASSUME NEW t \in Tabs
               PROVE  /\ held'[t].at <= Len(log) /\ inbox'[t] \in Seq(1..Len(log))
                      /\ Len(inbox'[t]) <= Buffer
    OBVIOUS
  <2>2. CASE t \in T
    <3>1. inbox'[t] = <<>> /\ held'[t] = NoCopy
      BY <1>3, <2>2
    <3>2. held'[t].at <= Len(log)
      BY <1>2, <3>1
    <3>3. inbox'[t] \in Seq(1..Len(log)) /\ Len(inbox'[t]) <= Buffer
      BY <2>1, <3>1
    <3> QED BY <3>2, <3>3
  <2>3. CASE t \notin T
    BY <1>2, <1>3, <2>3 DEF TabTyped
  <2> QED BY <2>2, <2>3
<1>6. Typed'
  <2>1. \A t \in Tabs : /\ held'[t].requests \in Seq(Reqs) /\ held'[t].active \in SUBSET Slows
                        /\ held'[t].at \in 0..Len(log)
    BY <1>2, <1>4, <1>5 DEF Copy
  <2> QED BY <1>1, <1>2, <1>4, <1>5, <2>1 DEF Typed, TypeOK
<1>7. ASSUME NEW t \in Tabs PROVE InOrder(t)'
  <2>1. CASE t \in T
    BY <1>1, <1>3, <2>1 DEF InOrder, Linked, Ascending, Gapless, Stretch
  <2>2. CASE t \notin T
    BY <1>1, <1>3, <2>2, SameInOrder DEF WebhookInv
  <2> QED BY <2>1, <2>2
<1>8. CountOfList'
  BY <1>1 DEF WebhookInv, CountOfList
<1> QED BY <1>6, <1>7, <1>8 DEF WebhookInv

LEMMA FaultKeeps ==
  ASSUME WebhookInv, Restart \/ \E t \in Tabs : Break(t)
  PROVE  /\ WebhookInv' /\ UNCHANGED <<tab, history>>
         /\ \E T \in SUBSET Tabs : Cut(T)
<1>1. /\ entries \in Seq(Reqs) /\ Len(entries) <= maxEntries /\ slows \in SUBSET Slows
      /\ phase \in [Calls -> Phases] /\ faults \in 0..MaxFaults
      /\ maxEntries \in Nat /\ MaxFaults \in Nat
  BY SizesAssumption, FaultsAssumption DEF WebhookInv, Typed, TypeOK
<1>2. CASE Restart
  <2>1. /\ entries' = <<>> /\ slows' = {} /\ faults' \in 0..MaxFaults
        /\ phase' \in [Calls -> Phases] /\ Cut(Tabs) /\ UNCHANGED <<tab, history>>
    BY <1>1, <1>2 DEF Restart, Phases
  <2>2. entries' \in Seq(Reqs) /\ Len(entries') <= maxEntries
    BY <1>1, <2>1
  <2> QED BY <2>1, <2>2, CutKeeps
<1>3. ASSUME NEW t \in Tabs, Break(t)
      PROVE  /\ WebhookInv' /\ UNCHANGED <<tab, history>>
             /\ \E T \in SUBSET Tabs : Cut(T)
  <2>1. /\ UNCHANGED <<entries, slows, phase, tab, history>> /\ Cut({t})
        /\ faults' \in 0..MaxFaults
    BY <1>1, <1>3 DEF Break, server
  <2> QED BY <1>1, <2>1, CutKeeps
<1> QED BY <1>2, <1>3

-----------------------------------------------------------------------------
(* The invariant.                                                          *)

LEMMA WebhookInvInit == Init => WebhookInv
<1> SUFFICES ASSUME Init PROVE WebhookInv
  OBVIOUS
<1>1. NoCopy \in Copy /\ NoCopy.requests = <<>> /\ NoCopy.active = {} /\ NoCopy.at = 0
      /\ MaxFaults \in Nat /\ maxEntries \in Nat /\ Buffer \in Nat
  BY SizesAssumption, FaultsAssumption DEF NoCopy, Copy
<1>2. Typed
  <2>1. /\ log = <<>> /\ Len(log) = 0 /\ log \in Seq(Events)
        /\ <<>> \in Seq(1..Len(log)) /\ <<>> \in Seq(Nat) /\ <<>> \in Seq(Reqs)
        /\ entries = <<>> /\ Len(entries) = 0
    BY DEF Init
  <2>2. /\ phase \in [Calls -> Phases] /\ link \in [Tabs -> Links]
        /\ inited \in [Tabs -> BOOLEAN] /\ missed \in [Tabs -> BOOLEAN]
        /\ count \in [Tabs -> Nat] /\ active \in [Tabs -> SUBSET Slows]
        /\ early \in [Tabs -> SUBSET Reqs] /\ seen \in [Tabs -> 0..Len(log)]
        /\ faults \in 0..MaxFaults /\ slows = {} /\ crossed = {}
    BY <1>1, <2>1 DEF Init, Phases, Links
  <2>3. held \in [Tabs -> Copy] /\ inbox \in [Tabs -> Seq(Nat)]
        /\ requests \in [Tabs -> Seq(Reqs)]
        /\ \A t \in Tabs : held[t] = NoCopy /\ inbox[t] = <<>>
    BY <1>1, <2>1 DEF Init
  <2>4. \A t \in Tabs : /\ held[t].requests \in Seq(Reqs) /\ held[t].active \in SUBSET Slows
                        /\ held[t].at \in 0..Len(log)
                        /\ inbox[t] \in Seq(1..Len(log)) /\ Len(inbox[t]) <= Buffer
                        /\ requests[t] \in Seq(Reqs)
    BY <1>1, <2>1, <2>3
  <2> QED BY <1>1, <2>1, <2>2, <2>3, <2>4 DEF Typed, TypeOK
<1>3. \A t \in Tabs : InOrder(t)
  BY DEF Init, InOrder, Linked, Ascending, Gapless, Stretch
<1>4. CountOfList
  BY DEF Init, CountOfList
<1> QED BY <1>2, <1>3, <1>4 DEF WebhookInv

LEMMA WebhookInvStep == WebhookInv /\ [Next]_vars => WebhookInv'
<1> SUFFICES ASSUME WebhookInv, [Next]_vars PROVE WebhookInv'
  OBVIOUS
<1>1. CASE Writes
  BY <1>1, WritesKeepInv
<1>2. ASSUME NEW c \in Calls, Announce(c) PROVE WebhookInv'
  BY <1>2, AnnounceIs, BroadcastKeeps DEF WebhookInv
<1>3. ASSUME NEW t \in Tabs, Follow(t) PROVE WebhookInv'
  BY <1>3, ConnectKeeps, WriteInitKeeps, SubscribeKeeps, OnInitKeeps, onmessageKeeps
  DEF Follow
<1>4. CASE Restart \/ \E t \in Tabs : Break(t)
  BY <1>4, FaultKeeps
<1>5. CASE UNCHANGED vars
  <2>1. UNCHANGED <<stream, tab, faults, log, seen, missed, early>>
        /\ UNCHANGED <<entries, slows, phase, crossed>>
    BY <1>5 DEF vars, server, history
  <2> QED BY <2>1, WritesKeep DEF WebhookInv, Typed, TypeOK
<1> QED BY <1>1, <1>2, <1>3, <1>4, <1>5 DEF Next, Handle, Writes

(* The strengthened invariant holds in every reachable state.              *)
THEOREM WebhookInvariant == Spec => []WebhookInv
  BY WebhookInvInit, WebhookInvStep, PTL DEF Spec

(* The store of cron-webhook never exceeds its limit, nor a channel of its *)
(* broker its capacity, and every variable keeps its type.                 *)
THEOREM WebhookTypes == Spec => []TypeOK
<1>1. WebhookInv => TypeOK
  BY DEF WebhookInv, Typed
<1> QED BY <1>1, WebhookInvariant, PTL

(* The counter of the dashboard is the length of its list, unless that is  *)
(* empty.                                                                  *)
THEOREM CountsLists == Spec => []CountOfList
<1>1. WebhookInv => CountOfList
  BY DEF WebhookInv
<1> QED BY <1>1, WebhookInvariant, PTL

-----------------------------------------------------------------------------
(* The refinement: what stands for the variables of Feed, and the step of  *)
(* Feed that each step is.                                                 *)
wholeTabs == [t \in Tabs |-> inited[t] /\ ~missed[t]]
shownTabs == [t \in Tabs |-> [requests |-> requests[t], active |-> active[t]]]
feedVars  == <<log, seen, wholeTabs, shownTabs>>

LEMMA InitIsFeed == Init => F!FeedInit
<1> SUFFICES ASSUME Init PROVE F!FeedInit
  OBVIOUS
<1>1. log = <<>> /\ seen = [t \in Tabs |-> 0]
  BY DEF Init
<1>2. wholeTabs = [t \in Tabs |-> FALSE]
  BY DEF Init, wholeTabs
<1>3. shownTabs = [t \in Tabs |-> [requests |-> <<>>, active |-> {}]]
  BY DEF Init, shownTabs
<1> QED BY <1>1, <1>2, <1>3 DEF F!FeedInit, wholeTabs, shownTabs

(* Nothing that the tabs show changes, and none is in step anew.           *)
LEMMA LagOrStutter ==
  ASSUME UNCHANGED <<log, seen, requests, active>>,
         \A t \in Tabs : inited'[t] /\ ~missed'[t] => inited[t] /\ ~missed[t]
  PROVE  F!Lag
<1>1. UNCHANGED shownTabs
  BY DEF shownTabs
<1>2. \A t \in Tabs : /\ wholeTabs'[t] \in BOOLEAN
                      /\ wholeTabs'[t] => wholeTabs[t]
  BY DEF wholeTabs
<1> QED BY <1>1, <1>2 DEF F!Lag, F!Lags, wholeTabs, shownTabs

LEMMA BroadcastPublishes ==
  ASSUME Typed, NEW type, NEW id, [type |-> type, id |-> id] \in Events,
         broadcast(type, id)
  PROVE  F!Publish
<1>1. /\ log' = Append(log, [type |-> type, id |-> id])
      /\ missed' = [t \in Tabs |-> missed[t] \/ (link[t] # "closed" /\ ~Takes(t))]
      /\ UNCHANGED <<inited, seen, requests, active>>
  BY DEF broadcast, tab
<1>2. \E e \in F!Events : log' = Append(log, e)
  BY <1>1 DEF Events, F!Events
<1>3. \A t \in Tabs : /\ wholeTabs'[t] \in BOOLEAN
                      /\ wholeTabs'[t] => wholeTabs[t]
  BY <1>1 DEF wholeTabs
<1>4. UNCHANGED <<seen, shownTabs>>
  BY <1>1 DEF shownTabs
<1> QED BY <1>2, <1>3, <1>4 DEF F!Publish, F!Lags, wholeTabs, shownTabs

LEMMA OnInitResyncs ==
  ASSUME WebhookInv, NEW t \in Tabs, OnInit(t)
  PROVE  F!Resync(t)
<1>1. /\ link[t] \in {"written", "live"} /\ ~inited[t]
      /\ requests' = [requests EXCEPT ![t] = held[t].requests]
      /\ active' = [active EXCEPT ![t] = held[t].active]
      /\ seen' = [seen EXCEPT ![t] = held[t].at]
      /\ inited' = [inited EXCEPT ![t] = TRUE]
      /\ UNCHANGED <<log, missed>>
  BY DEF OnInit
<1>2. Typed /\ TabTyped /\ Len(log) \in Nat /\ Linked(t)
  BY TypedTab DEF WebhookInv, InOrder
<1>3. held[t].at \in seen[t] .. Len(log)
  BY <1>1, <1>2 DEF Linked, Floor, TabTyped, Copy
<1>4. wholeTabs' = [wholeTabs EXCEPT ![t] = ~missed[t]] /\ (~missed[t]) \in BOOLEAN
  BY <1>1, <1>2 DEF wholeTabs, TabTyped
<1>5. shownTabs' \in [Tabs -> F!View]
      /\ \A u \in Tabs \ {t} : shownTabs'[u] = shownTabs[u]
  BY <1>1, <1>2 DEF shownTabs, F!View, TabTyped, Copy
<1> QED BY <1>1, <1>3, <1>4, <1>5 DEF F!Resync, wholeTabs, shownTabs

LEMMA onmessageReceives ==
  ASSUME WebhookInv, NEW t \in Tabs, onmessage(t)
  PROVE  F!Receive(t)
<1> DEFINE i == Head(inbox[t])
<1>1. seen' = [seen EXCEPT ![t] = i] /\ UNCHANGED <<inited, log, missed>>
  BY DEF onmessage
<1>2. /\ inited[t] /\ i \in seen[t] + 1 .. Len(log)
      /\ ~missed[t] => i = seen[t] + 1
      /\ log[i] \in Events
  BY MessageIs
<1>3. /\ \A u \in Tabs \ {t} : requests'[u] = requests[u] /\ active'[u] = active[u]
      /\ [requests |-> requests'[t], active |-> active'[t]]
            = F!After([requests |-> requests[t], active |-> active[t]], log[i])
  BY <1>2, OnEventKeeps DEF onmessage, WebhookInv
<1> HIDE DEF i
<1>4. shownTabs' = [shownTabs EXCEPT ![t] = F!After(@, log[i])]
  BY <1>3 DEF shownTabs
<1>5. UNCHANGED wholeTabs /\ (wholeTabs[t] => i = seen[t] + 1)
  BY <1>1, <1>2 DEF wholeTabs
<1> QED BY <1>1, <1>2, <1>4, <1>5 DEF F!Receive, wholeTabs, shownTabs

LEMMA StepIsFeed == WebhookInv /\ [Next]_vars => [F!FeedNext]_feedVars
<1> SUFFICES ASSUME WebhookInv, [Next]_vars PROVE F!FeedNext \/ UNCHANGED feedVars
  OBVIOUS
<1>1. CASE Writes
  BY <1>1, WritesKeepInv, LagOrStutter
  DEF F!FeedNext, stream, tab
<1>2. ASSUME NEW c \in Calls, Announce(c) PROVE F!FeedNext
  BY <1>2, AnnounceIs, BroadcastPublishes DEF WebhookInv, F!FeedNext
<1>3. ASSUME NEW t \in Tabs, Follow(t) PROVE F!FeedNext
  <2>1. CASE connect(t)
    <3>1. UNCHANGED <<log, seen, requests, active>>
          /\ \A u \in Tabs : inited'[u] => inited[u] /\ missed'[u] = missed[u]
      BY <2>1 DEF connect, tab, WebhookInv, Typed, TypeOK
    <3> QED BY <3>1, LagOrStutter DEF F!FeedNext
  <2>2. CASE WriteInit(t) \/ subscribe(t)
    BY <2>2, LagOrStutter DEF WriteInit, subscribe, tab, history, F!FeedNext
  <2>3. CASE OnInit(t)
    BY <2>3, OnInitResyncs DEF F!FeedNext
  <2>4. CASE onmessage(t)
    BY <2>4, onmessageReceives DEF F!FeedNext
  <2> QED BY <1>3, <2>1, <2>2, <2>3, <2>4 DEF Follow
<1>4. CASE Restart \/ \E t \in Tabs : Break(t)
  <2>1. UNCHANGED <<log, seen, requests, active, missed>>
        /\ \A u \in Tabs : inited'[u] => inited[u]
    BY <1>4, FaultKeeps DEF tab, history, Cut
  <2> QED BY <2>1, LagOrStutter DEF F!FeedNext
<1>5. CASE UNCHANGED vars
  BY <1>5 DEF vars, tab, stream, history, feedVars, wholeTabs, shownTabs
<1> QED BY <1>1, <1>2, <1>3, <1>4, <1>5 DEF Next, Handle, Writes

(* The dashboards of cron-webhook implement Feed: they follow one log of   *)
(* broadcasts in its order, handle no event twice, and leave none out as   *)
(* long as none was dropped and they have their copy.                      *)
THEOREM DashboardsFollow == Spec => FollowsFeed
<1>1. Spec => [][F!FeedNext]_feedVars
  BY StepIsFeed, WebhookInvariant, PTL DEF Spec
<1>2. Spec => F!FeedInit
  BY InitIsFeed DEF Spec
<1> QED BY <1>1, <1>2, PTL DEF FollowsFeed, F!FeedSpec, feedVars, wholeTabs, shownTabs
-----------------------------------------------------------------------------
(* What the dashboards show.                                               *)

(* The copy of a tab until it is handled, and then what the tab shows.     *)
ListOf(t)   == IF inited[t] THEN requests[t] ELSE held[t].requests
ActiveOf(t) == IF inited[t] THEN active[t] ELSE held[t].active

Requested(r) == [type |-> "request", id |-> r]
Started(s)   == [type |-> "slow_start", id |-> s]
Ended(s)     == [type |-> "slow_end", id |-> s]

(* The server's side: what is stored, and what was broadcast of it.        *)
OfRequests ==
    /\ \A i, j \in DOMAIN entries : i # j => entries[i] # entries[j]
    /\ \A r \in Items(entries) : phase[r] \in {"added", "done"}
    /\ \A r \in Reqs : phase[r] # "done" => \A k \in 1..Len(log) : log[k] # Requested(r)
    /\ \A r \in Reqs : \A i, j \in 1..Len(log) :
          log[i] = Requested(r) /\ log[j] = Requested(r) => i = j
    /\ (\E d \in Clears : phase[d] = "cleared") => Items(entries) \subseteq crossed

OfSlows ==
    \A s \in Slows :
        /\ s \in slows <=> phase[s] \in {"added", "waiting"}
        /\ \A k \in 1..Len(log) :
              /\ log[k] = Started(s) => phase[s] \notin {"idle", "added"}
              /\ log[k] = Ended(s) => phase[s] = "done"

(* A request that the copy of a tab holds, and that was broadcast by then, *)
(* does not come again.                                                    *)
Doubles(t) ==
    \A i \in DOMAIN ListOf(t) : ListOf(t)[i] \notin early[t] =>
        /\ phase[ListOf(t)[i]] = "done"
        /\ \A k \in Floor(t) + 1 .. Len(log) : log[k] # Requested(ListOf(t)[i])
        /\ \A j \in DOMAIN ListOf(t) : ListOf(t)[i] = ListOf(t)[j] => i = j

(* No clear is on its way to the tab after place k of the log.             *)
NoClearAfter(k) == \A l \in k + 1 .. Len(log) : log[l].type # "clear"

(* An entry of the store is shown, or is on its way, or will be broadcast. *)
Stored(t) ==
    \A r \in Items(entries) \ crossed :
        \/ phase[r] = "added"
        \/ r \in Items(ListOf(t)) /\ NoClearAfter(Floor(t))
        \/ \E k \in Floor(t) + 1 .. Len(log) : log[k] = Requested(r) /\ NoClearAfter(k)

(* The copy of the calls of /slow is newer than its place in the log; what *)
(* comes of them after that place ends with what is true of them.          *)
Slowed(t) ==
    \A s \in Slows :
        /\ phase[s] = "idle" => s \notin ActiveOf(t)
        /\ phase[s] = "waiting" => \/ link[t] = "reading" \/ s \in ActiveOf(t)
                                   \/ \E k \in Floor(t) + 1 .. Len(log) : log[k] = Started(s)
        /\ phase[s] = "done" =>
              \/ /\ s \notin ActiveOf(t)
                 /\ \A k \in Floor(t) + 1 .. Len(log) : log[k] \notin {Started(s), Ended(s)}
              \/ \E k \in Floor(t) + 1 .. Len(log) :
                    /\ log[k] = Ended(s)
                    /\ \A l \in k + 1 .. Len(log) : log[l] # Started(s)

TabSound(t) == link[t] # "closed" =>
    /\ Doubles(t)
    /\ ~missed[t] => Stored(t) /\ Slowed(t)
    /\ link[t] = "reading" => held[t].active = {}

ShownInv == /\ WebhookInv
            /\ OfRequests /\ OfSlows
            /\ \A t \in Tabs : TabSound(t)

LEMMA Typing ==
  ASSUME WebhookInv
  PROVE  /\ entries \in Seq(Reqs) /\ Len(entries) \in Nat
         /\ log \in Seq(Events) /\ Len(log) \in Nat
         /\ phase \in [Calls -> Phases] /\ slows \in SUBSET Slows /\ crossed \in SUBSET Reqs
         /\ \A t \in Tabs :
              /\ ListOf(t) \in Seq(Reqs) /\ ActiveOf(t) \in SUBSET Slows
              /\ Floor(t) \in Nat /\ Floor(t) <= Len(log)
              /\ InOrder(t)
              /\ link[t] \in {"closed", "reading"} => ~inited[t]
  BY TypedTab
  DEF WebhookInv, Typed, TypeOK, TabTyped, Copy, ListOf, ActiveOf, Floor, InOrder, Linked

LEMMA Announced ==
  ASSUME log \in Seq(Events), NEW e \in Events, log' = Append(log, e)
  PROVE  /\ Len(log) \in Nat /\ Len(log') = Len(log) + 1 /\ log'[Len(log) + 1] = e
         /\ \A k \in 1..Len(log) : log'[k] = log[k]
         /\ \A k \in 1..Len(log') : k \in 1..Len(log) \/ k = Len(log) + 1
  OBVIOUS

LEMMA PhaseMoves ==
  ASSUME WebhookInv, NEW c \in Calls, NEW from, NEW to, Moves(c, from, to)
  PROVE  /\ phase[c] = from /\ phase'[c] = to
         /\ \A d \in Calls \ {c} : phase'[d] = phase[d]
  BY Typing DEF Moves

(* The requests, the calls of /slow and the clears are different calls.    *)
LEMMA Kinds ==
  /\ Reqs \subseteq Calls /\ Slows \subseteq Calls /\ Clears \subseteq Calls
  /\ \A c \in Reqs : c \notin Slows /\ c \notin Clears
  /\ \A c \in Slows : c \notin Reqs /\ c \notin Clears
  /\ \A c \in Clears : c \notin Reqs /\ c \notin Slows
  BY DistinctAssumption DEF Calls

-----------------------------------------------------------------------------
(* The server's side.                                                      *)

LEMMA AddIs ==
  ASSUME WebhookInv, NEW r \in Reqs, add(r)
  PROVE  \E n \in 0..Len(entries) :
            /\ DOMAIN entries' = 1..n + 1 /\ entries'[1] = r
            /\ \A i \in 2..n + 1 : entries'[i] = entries[i - 1]
<1>1. /\ entries \in Seq(Reqs) /\ Len(entries) \in Nat /\ Len(entries) <= maxEntries
      /\ maxEntries \in Nat /\ maxEntries > 0
  BY Typing, SizesAssumption DEF WebhookInv, Typed, TypeOK
<1>2. CASE Len(entries) < maxEntries
  <2>1. entries' = <<r>> \o entries
    BY <1>2 DEF add
  <2>2. Len(entries) \in 0..Len(entries)
    BY <1>1
  <2>3. /\ DOMAIN entries' = 1..Len(entries) + 1 /\ entries'[1] = r
        /\ \A i \in 2..Len(entries) + 1 : entries'[i] = entries[i - 1]
    BY <1>1, <2>1
  <2> QED BY <2>2, <2>3
<1>3. CASE ~(Len(entries) < maxEntries)
  <2> DEFINE m == maxEntries - 1
             s == SubSeq(entries, 1, m)
  <2>1. entries' = <<r>> \o s
    BY <1>3 DEF add
  <2>2. /\ s \in Seq(Reqs) /\ Len(s) = m /\ m \in 0..Len(entries)
        /\ \A i \in 1..m : s[i] = entries[i]
    BY <1>1, <1>3
  <2> HIDE DEF s, m
  <2>3. /\ DOMAIN entries' = 1..m + 1 /\ entries'[1] = r
        /\ \A i \in 2..m + 1 : entries'[i] = entries[i - 1]
    BY <1>1, <2>1, <2>2
  <2> QED BY <2>2, <2>3
<1> QED BY <1>2, <1>3

LEMMA CaptureSound ==
  ASSUME WebhookInv, OfRequests, OfSlows, NEW r \in Reqs, Capture(r)
  PROVE  OfRequests' /\ OfSlows' /\ Items(entries') \subseteq Items(entries) \cup {r}
<1>1. /\ UNCHANGED <<slows, log>> /\ add(r) /\ r \in Calls
      /\ phase[r] = "idle" /\ phase'[r] = "added"
      /\ \A d \in Calls \ {r} : phase'[d] = phase[d]
      /\ crossed' = IF \E d \in Clears : phase[d] = "cleared" THEN crossed \cup {r} ELSE crossed
  BY PhaseMoves, Kinds DEF Capture
<1>2. PICK n \in 0..Len(entries) :
            /\ DOMAIN entries' = 1..n + 1 /\ entries'[1] = r
            /\ \A i \in 2..n + 1 : entries'[i] = entries[i - 1]
  BY <1>1, AddIs
<1>3. /\ n \in Nat /\ Len(entries) \in Nat /\ DOMAIN entries = 1..Len(entries)
      /\ entries \in Seq(Reqs) /\ n <= Len(entries)
  BY Typing
<1>4. \A i \in 2..n + 1 : i - 1 \in DOMAIN entries /\ entries'[i] = entries[i - 1]
  BY <1>2, <1>3
<1>5. Items(entries') \subseteq Items(entries) \cup {r}
  BY <1>2, <1>3, <1>4 DEF Items
<1>6. r \notin Items(entries)
  BY <1>1 DEF OfRequests
<1>7. \A i, j \in DOMAIN entries' : i # j => entries'[i] # entries'[j]
  <2> SUFFICES ASSUME NEW i \in 1..n + 1, NEW j \in 1..n + 1, i < j
               PROVE  entries'[i] # entries'[j]
    BY <1>2, <1>3
  <2>1. j \in 2..n + 1 /\ j - 1 \in DOMAIN entries /\ entries'[j] = entries[j - 1]
    BY <1>3, <1>4
  <2>2. CASE i = 1
    BY <1>2, <1>6, <2>1, <2>2 DEF Items
  <2>3. CASE i # 1
    <3>1. i - 1 \in DOMAIN entries /\ entries'[i] = entries[i - 1] /\ i - 1 # j - 1
      BY <1>3, <1>4, <2>3
    <3> QED BY <2>1, <3>1 DEF OfRequests
  <2> QED BY <2>2, <2>3
<1>8. \A e \in Items(entries') : phase'[e] \in {"added", "done"}
  <2>1. Items(entries) \subseteq Reqs
    BY <1>3 DEF Items
  <2> QED BY <1>1, <1>5, <2>1, Kinds DEF OfRequests
<1>9. (\E d \in Clears : phase'[d] = "cleared") => Items(entries') \subseteq crossed'
  <2>1. \A d \in Clears : phase'[d] = phase[d]
    BY <1>1, Kinds
  <2> QED BY <1>1, <1>5, <2>1 DEF OfRequests
<1>10. OfRequests'
  <2>1. \A q \in Reqs : phase'[q] # "done" => phase[q] # "done"
    BY <1>1, Kinds
  <2> QED BY <1>1, <1>7, <1>8, <1>9, <2>1 DEF OfRequests
<1>11. OfSlows'
  <2>1. \A s \in Slows : phase'[s] = phase[s]
    BY <1>1, Kinds
  <2> QED BY <1>1, <2>1 DEF OfSlows
<1> QED BY <1>5, <1>10, <1>11

(* The steps of a call of /slow and of a clear, up to its broadcast.       *)
LEMMA SlowSound ==
  ASSUME WebhookInv, OfRequests, OfSlows, NEW s \in Slows, StartSlow(s) \/ EndSlow(s)
  PROVE  OfRequests' /\ OfSlows'
<1>1. /\ UNCHANGED <<entries, log, crossed>> /\ s \in Calls
      /\ \A d \in Calls \ {s} : phase'[d] = phase[d]
      /\ \/ phase[s] = "idle" /\ phase'[s] = "added" /\ slows' = slows \cup {s}
         \/ phase[s] = "waiting" /\ phase'[s] = "removed" /\ slows' = slows \ {s}
  BY PhaseMoves, Kinds DEF StartSlow, EndSlow, history
<1>2. \A c \in Reqs \cup Clears : phase'[c] = phase[c]
  BY <1>1, Kinds
<1>3. \A r \in Items(entries) : r \in Reqs
  BY Typing DEF Items
<1>4. OfRequests'
  BY <1>1, <1>2, <1>3 DEF OfRequests
<1>5. OfSlows'
  <2> SUFFICES ASSUME NEW u \in Slows
               PROVE  /\ u \in slows' <=> phase'[u] \in {"added", "waiting"}
                      /\ \A k \in 1..Len(log) :
                            /\ log[k] = Started(u) => phase'[u] \notin {"idle", "added"}
                            /\ log[k] = Ended(u) => phase'[u] = "done"
    BY <1>1 DEF OfSlows, Started, Ended
  <2>1. CASE u = s
    BY <1>1, <2>1 DEF OfSlows
  <2>2. CASE u # s
    BY <1>1, <2>2, Kinds DEF OfSlows
  <2> QED BY <2>1, <2>2
<1> QED BY <1>4, <1>5

LEMMA ClearSound ==
  ASSUME WebhookInv, OfRequests, OfSlows, NEW d \in Clears, Clear(d)
  PROVE  OfRequests' /\ OfSlows' /\ Items(entries') = {}
<1>1. /\ UNCHANGED <<slows, log, crossed>> /\ entries' = <<>> /\ d \in Calls
      /\ \A c \in Calls \ {d} : phase'[c] = phase[c]
  BY PhaseMoves, Kinds DEF Clear, history
<1>2. \A c \in Reqs \cup Slows : phase'[c] = phase[c]
  BY <1>1, Kinds
<1>3. Items(entries') = {} /\ DOMAIN entries' = {}
  BY <1>1 DEF Items
<1> QED BY <1>1, <1>2, <1>3 DEF OfRequests, OfSlows

LEMMA RestartSound ==
  ASSUME WebhookInv, OfRequests, OfSlows, Restart
  PROVE  OfRequests' /\ OfSlows'
<1>1. /\ entries' = <<>> /\ slows' = {} /\ UNCHANGED <<log, crossed>>
      /\ \A c \in Calls : phase'[c] = IF phase[c] = "idle" THEN "idle" ELSE "done"
  BY DEF Restart, history
<1>2. Items(entries') = {} /\ DOMAIN entries' = {}
  BY <1>1 DEF Items
<1>3. OfRequests'
  BY <1>1, <1>2, Kinds DEF OfRequests
<1>4. OfSlows'
  BY <1>1, Kinds DEF OfSlows
<1> QED BY <1>3, <1>4

(* What a broadcast says, and what becomes of its call.                    *)
LEMMA AnnounceSays ==
  ASSUME WebhookInv, NEW c \in Calls, Announce(c)
  PROVE  /\ \A d \in Calls \ {c} : phase'[d] = phase[d]
         /\ \E e \in Events :
              /\ broadcast(e.type, c) /\ e.id = c /\ log' = Append(log, e)
              /\ \/ c \in Reqs /\ phase[c] = "added" /\ phase'[c] = "done" /\ e = Requested(c)
                 \/ c \in Slows /\ phase[c] = "added" /\ phase'[c] = "waiting" /\ e = Started(c)
                 \/ c \in Slows /\ phase[c] = "removed" /\ phase'[c] = "done" /\ e = Ended(c)
                 \/ c \in Clears /\ phase[c] = "cleared" /\ phase'[c] = "done"
                    /\ e = [type |-> "clear", id |-> c]
<1>1. \A d \in Calls \ {c} : phase'[d] = phase[d]
  BY PhaseMoves DEF Announce
<1>2. ASSUME NEW type, NEW to, NEW from, Moves(c, from, to), broadcast(type, c),
             [type |-> type, id |-> c] \in Events
      PROVE  /\ phase[c] = from /\ phase'[c] = to
             /\ \E e \in Events : /\ e = [type |-> type, id |-> c] /\ broadcast(e.type, c)
                                  /\ e.id = c /\ log' = Append(log, e)
  <2>1. log' = Append(log, [type |-> type, id |-> c])
    BY <1>2 DEF broadcast
  <2> QED BY <1>2, <2>1, PhaseMoves
<1>3. CASE c \in Reqs /\ Moves(c, "added", "done") /\ broadcast("request", c)
  <2>1. [type |-> "request", id |-> c] \in Events
    BY <1>3 DEF Events
  <2> QED BY <1>1, <1>2, <1>3, <2>1 DEF Requested
<1>4. CASE c \in Slows /\ Moves(c, "added", "waiting") /\ broadcast("slow_start", c)
  <2>1. [type |-> "slow_start", id |-> c] \in Events
    BY <1>4 DEF Events
  <2> QED BY <1>1, <1>2, <1>4, <2>1 DEF Started
<1>5. CASE c \in Slows /\ Moves(c, "removed", "done") /\ broadcast("slow_end", c)
  <2>1. [type |-> "slow_end", id |-> c] \in Events
    BY <1>5 DEF Events
  <2> QED BY <1>1, <1>2, <1>5, <2>1 DEF Ended
<1>6. CASE c \in Clears /\ Moves(c, "cleared", "done") /\ broadcast("clear", c)
  <2>1. [type |-> "clear", id |-> c] \in Events
    BY <1>6 DEF Events
  <2> QED BY <1>1, <1>2, <1>6, <2>1
<1> QED BY <1>3, <1>4, <1>5, <1>6 DEF Announce

LEMMA AnnounceSound ==
  ASSUME WebhookInv, OfRequests, OfSlows, NEW c \in Calls, Announce(c)
  PROVE  OfRequests' /\ OfSlows'
<1>1. PICK e \in Events :
              /\ broadcast(e.type, c) /\ e.id = c /\ log' = Append(log, e)
              /\ \/ c \in Reqs /\ phase[c] = "added" /\ phase'[c] = "done" /\ e = Requested(c)
                 \/ c \in Slows /\ phase[c] = "added" /\ phase'[c] = "waiting" /\ e = Started(c)
                 \/ c \in Slows /\ phase[c] = "removed" /\ phase'[c] = "done" /\ e = Ended(c)
                 \/ c \in Clears /\ phase[c] = "cleared" /\ phase'[c] = "done"
                    /\ e = [type |-> "clear", id |-> c]
  BY AnnounceSays
<1>2. /\ UNCHANGED <<entries, slows, crossed>>
      /\ \A d \in Calls \ {c} : phase'[d] = phase[d]
  BY <1>1, AnnounceSays DEF broadcast
<1>3. /\ Len(log) \in Nat /\ Len(log') = Len(log) + 1 /\ log'[Len(log) + 1] = e
      /\ \A k \in 1..Len(log) : log'[k] = log[k]
      /\ \A k \in 1..Len(log') : k \in 1..Len(log) \/ k = Len(log) + 1
  BY <1>1, Typing, Announced
<1>4. Items(entries) \subseteq Reqs
  BY Typing DEF Items
<1>5. \A r \in Items(entries) : phase'[r] \in {"added", "done"}
  BY <1>1, <1>2, <1>4, Kinds DEF OfRequests
<1>6. ASSUME NEW r \in Reqs, e = Requested(r) PROVE r = c /\ c \in Reqs /\ phase[c] = "added"
                                                   /\ phase'[c] = "done"
  BY <1>1, <1>6 DEF Requested, Started, Ended
<1>7. \A r \in Reqs : phase'[r] # "done" => phase[r] # "done" /\ e # Requested(r)
  BY <1>1, <1>2, <1>6, Kinds
<1>8. \A r \in Reqs : phase'[r] # "done" => \A k \in 1..Len(log') : log'[k] # Requested(r)
  BY <1>3, <1>7 DEF OfRequests
<1>9. ASSUME NEW r \in Reqs, NEW i \in 1..Len(log'), NEW j \in 1..Len(log'),
             log'[i] = Requested(r), log'[j] = Requested(r)
      PROVE  i = j
  <2>1. CASE e # Requested(r)
    BY <1>3, <1>9, <2>1 DEF OfRequests
  <2>2. CASE e = Requested(r)
    <3>1. \A k \in 1..Len(log) : log[k] # Requested(r)
      BY <1>6, <2>2 DEF OfRequests
    <3> QED BY <1>3, <1>9, <3>1
  <2> QED BY <2>1, <2>2
<1>10. (\E d \in Clears : phase'[d] = "cleared") => Items(entries) \subseteq crossed
  BY <1>1, <1>2, Kinds DEF OfRequests
<1>11. OfRequests'
  BY <1>2, <1>5, <1>8, <1>9, <1>10 DEF OfRequests, Requested
<1>12. OfSlows'
  <2> SUFFICES ASSUME NEW s \in Slows
               PROVE  /\ s \in slows <=> phase'[s] \in {"added", "waiting"}
                      /\ \A k \in 1..Len(log') :
                            /\ log'[k] = Started(s) => phase'[s] \notin {"idle", "added"}
                            /\ log'[k] = Ended(s) => phase'[s] = "done"
    BY <1>2 DEF OfSlows, Started, Ended
  <2>1. CASE s = c
    BY <1>1, <1>3, <2>1, Kinds DEF OfSlows, Started, Ended
  <2>2. CASE s # c
    <3>1. phase'[s] = phase[s] /\ e # Started(s) /\ e # Ended(s)
      BY <1>1, <1>2, <2>2, Kinds DEF Started, Ended
    <3> QED BY <1>3, <3>1 DEF OfSlows
  <2> QED BY <2>1, <2>2
<1> QED BY <1>11, <1>12

-----------------------------------------------------------------------------
(* The tabs.                                                               *)

(* A step of the server that broadcasts nothing.                           *)
LEMMA QuietTab ==
  ASSUME NEW t \in Tabs, TabSound(t), ShownInv,
         UNCHANGED <<stream, tab, log, seen, missed, early>>,
         \A r \in Reqs : phase[r] = "done" => phase'[r] = "done",
         \A r \in Items(entries') \ crossed' :
            phase'[r] = "added" \/ (r \in Items(entries) \ crossed /\ phase'[r] = phase[r]),
         \A s \in Slows : phase'[s] \in {"idle", "waiting", "done"} => phase'[s] = phase[s]
  PROVE  TabSound(t)'
<1>1. /\ UNCHANGED <<link, held, inited, requests, active, log, seen, missed, early>>
      /\ ListOf(t)' = ListOf(t) /\ ActiveOf(t)' = ActiveOf(t) /\ Floor(t)' = Floor(t)
  BY DEF stream, tab, ListOf, ActiveOf, Floor
<1>2. Doubles(t) => Doubles(t)'
  <2>1. \A i \in DOMAIN ListOf(t) : ListOf(t)[i] \in Reqs
    BY Typing DEF ShownInv
  <2> QED BY <1>1, <2>1 DEF Doubles, Requested
<1>3. Stored(t) => Stored(t)'
  BY <1>1 DEF Stored, NoClearAfter, Requested
<1>4. Slowed(t) => Slowed(t)'
  BY <1>1 DEF Slowed, Started, Ended
<1> QED BY <1>1, <1>2, <1>3, <1>4 DEF TabSound

(* A step that leaves the tab and what it depends on alone.                *)
LEMMA SameTab ==
  ASSUME NEW t \in Tabs, TabSound(t), UNCHANGED <<entries, phase, log, crossed>>,
         link'[t] = link[t], held'[t] = held[t], inited'[t] = inited[t],
         requests'[t] = requests[t], active'[t] = active[t], seen'[t] = seen[t],
         missed'[t] = missed[t], early'[t] = early[t]
  PROVE  TabSound(t)'
<1>1. ListOf(t)' = ListOf(t) /\ ActiveOf(t)' = ActiveOf(t) /\ Floor(t)' = Floor(t)
  BY DEF ListOf, ActiveOf, Floor
<1>2. Doubles(t)' = Doubles(t)
  BY <1>1 DEF Doubles, Requested
<1>3. Stored(t)' = Stored(t)
  BY <1>1 DEF Stored, NoClearAfter, Requested
<1>4. Slowed(t)' = Slowed(t)
  BY <1>1 DEF Slowed, Started, Ended
<1> QED BY <1>2, <1>3, <1>4 DEF TabSound

(* A broadcast finds what follows it in the log, whether or not the tab    *)
(* has room for it.                                                        *)
LEMMA BroadcastTab ==
  ASSUME NEW t \in Tabs, ShownInv, NEW c \in Calls, Announce(c)
  PROVE  TabSound(t)'
<1>1. PICK e \in Events :
              /\ broadcast(e.type, c) /\ e.id = c /\ log' = Append(log, e)
              /\ \/ c \in Reqs /\ phase[c] = "added" /\ phase'[c] = "done" /\ e = Requested(c)
                 \/ c \in Slows /\ phase[c] = "added" /\ phase'[c] = "waiting" /\ e = Started(c)
                 \/ c \in Slows /\ phase[c] = "removed" /\ phase'[c] = "done" /\ e = Ended(c)
                 \/ c \in Clears /\ phase[c] = "cleared" /\ phase'[c] = "done"
                    /\ e = [type |-> "clear", id |-> c]
  BY AnnounceSays DEF ShownInv
<1>2. /\ UNCHANGED <<entries, crossed, link, held, inited, requests, active, seen, early>>
      /\ \A d \in Calls \ {c} : phase'[d] = phase[d]
      /\ ~missed'[t] => ~missed[t]
  BY <1>1, AnnounceSays DEF broadcast, tab, ShownInv
<1>0. PICK n \in Nat : n = Len(log) + 1
  BY Typing DEF ShownInv
<1>3. /\ n = Len(log) + 1 /\ Len(log) \in Nat /\ Len(log') = n /\ log'[n] = e
      /\ \A k \in 1..Len(log) : log'[k] = log[k]
      /\ \A k \in 1..Len(log') : k \in 1..Len(log) \/ k = n
  BY <1>0, <1>1, Typing, Announced DEF ShownInv
<1>4. /\ ListOf(t)' = ListOf(t) /\ ActiveOf(t)' = ActiveOf(t) /\ Floor(t)' = Floor(t)
      /\ Floor(t) \in Nat /\ Floor(t) < n
  BY <1>2, <1>3, Typing DEF ListOf, ActiveOf, Floor, ShownInv
<1>5. /\ \A k \in Floor(t) + 1 .. n : k # n => k \in Floor(t) + 1 .. Len(log) /\ log'[k] = log[k]
      /\ \A k \in Floor(t) + 1 .. Len(log) : k \in Floor(t) + 1 .. n /\ log'[k] = log[k]
      /\ n \in Floor(t) + 1 .. n
  BY <1>3, <1>4
<1>6. ASSUME Doubles(t) PROVE Doubles(t)'
  <2> SUFFICES ASSUME NEW i \in DOMAIN ListOf(t), ListOf(t)[i] \notin early[t]
               PROVE  /\ phase'[ListOf(t)[i]] = "done"
                      /\ \A k \in Floor(t) + 1 .. n : log'[k] # Requested(ListOf(t)[i])
                      /\ \A j \in DOMAIN ListOf(t) : ListOf(t)[i] = ListOf(t)[j] => i = j
    BY <1>2, <1>3, <1>4 DEF Doubles, Requested
  <2> DEFINE r == ListOf(t)[i]
  <2>1. r \in Reqs /\ r \in Calls /\ phase[r] = "done"
    BY <1>6, Typing, Kinds DEF Doubles, ShownInv
  <2>2. r # c /\ e # Requested(r)
    BY <1>1, <2>1 DEF Requested, Started, Ended
  <2>3. \A k \in Floor(t) + 1 .. Len(log) : log[k] # Requested(r)
    BY <1>6 DEF Doubles
  <2>4. \A j \in DOMAIN ListOf(t) : r = ListOf(t)[j] => i = j
    BY <1>6 DEF Doubles
  <2> HIDE DEF r
  <2>5. \A k \in Floor(t) + 1 .. n : log'[k] # Requested(r)
    BY <1>3, <1>5, <2>2, <2>3
  <2> QED BY <1>2, <2>1, <2>2, <2>4, <2>5 DEF r
<1>7. ASSUME Stored(t) PROVE Stored(t)'
  <2> SUFFICES ASSUME NEW r \in Items(entries) \ crossed
               PROVE  \/ phase'[r] = "added"
                      \/ r \in Items(ListOf(t)) /\ NoClearAfter(Floor(t))'
                      \/ \E k \in Floor(t) + 1 .. n : log'[k] = Requested(r) /\ NoClearAfter(k)'
    BY <1>2, <1>3, <1>4 DEF Stored, Requested
  <2>1. r \in Reqs /\ r \in Calls
    BY Typing, Kinds DEF Items, ShownInv
  <2>2. e.type # "clear"
    BY <1>1, Kinds DEF Requested, Started, Ended, ShownInv, OfRequests
  <2>3. ASSUME NEW k \in Nat, NoClearAfter(k) PROVE NoClearAfter(k)'
    BY <1>3, <2>2, <2>3 DEF NoClearAfter
  <2>4. NoClearAfter(n)'
    BY <1>3 DEF NoClearAfter
  <2>5. CASE phase[r] = "added" /\ r = c
    <3>1. e = Requested(r)
      BY <1>1, <2>1, <2>5, Kinds
    <3>2. n \in Floor(t) + 1 .. n /\ log'[n] = Requested(r) /\ NoClearAfter(n)'
      BY <1>3, <1>5, <2>4, <3>1
    <3> QED BY <3>2 DEF NoClearAfter
  <2>6. CASE phase[r] = "added" /\ r # c
    BY <1>2, <2>1, <2>6
  <2>7. CASE r \in Items(ListOf(t)) /\ NoClearAfter(Floor(t))
    BY <1>4, <2>3, <2>7
  <2>8. ASSUME NEW k \in Floor(t) + 1 .. Len(log), log[k] = Requested(r), NoClearAfter(k)
        PROVE  \E l \in Floor(t) + 1 .. n : log'[l] = Requested(r) /\ NoClearAfter(l)'
    BY <1>4, <1>5, <2>3, <2>8
  <2> QED BY <1>7, <2>5, <2>6, <2>7, <2>8 DEF Stored
<1>8. ASSUME Slowed(t) PROVE Slowed(t)'
  <2> SUFFICES ASSUME NEW s \in Slows
               PROVE
        /\ phase'[s] = "idle" => s \notin ActiveOf(t)
        /\ phase'[s] = "waiting" => \/ link[t] = "reading" \/ s \in ActiveOf(t)
                                    \/ \E k \in Floor(t) + 1 .. n : log'[k] = Started(s)
        /\ phase'[s] = "done" =>
              \/ /\ s \notin ActiveOf(t)
                 /\ \A k \in Floor(t) + 1 .. n : log'[k] \notin {Started(s), Ended(s)}
              \/ \E k \in Floor(t) + 1 .. n :
                    /\ log'[k] = Ended(s)
                    /\ \A l \in k + 1 .. n : log'[l] # Started(s)
    BY <1>2, <1>3, <1>4 DEF Slowed, Started, Ended
  <2>1. CASE s = c
    <3>1. CASE phase'[s] = "waiting"
      BY <1>1, <1>3, <1>5, <2>1, <3>1, Kinds
    <3>2. CASE phase'[s] = "done"
      <4>1. e = Ended(s) /\ \A l \in n + 1 .. n : log'[l] # Started(s)
        BY <1>1, <1>3, <2>1, <3>2, Kinds
      <4> QED BY <1>3, <1>5, <3>2, <4>1
    <3> QED BY <1>1, <2>1, <3>1, <3>2, Kinds
  <2>2. CASE s # c
    <3>1. phase'[s] = phase[s] /\ e # Started(s) /\ e # Ended(s)
      BY <1>1, <1>2, <2>2, Kinds DEF Started, Ended
    <3>2. phase[s] = "waiting" => \/ link[t] = "reading" \/ s \in ActiveOf(t)
                                  \/ \E k \in Floor(t) + 1 .. n : log'[k] = Started(s)
      BY <1>5, <1>8 DEF Slowed
    <3>3. ASSUME \A k \in Floor(t) + 1 .. Len(log) : log[k] \notin {Started(s), Ended(s)}
          PROVE  \A k \in Floor(t) + 1 .. n : log'[k] \notin {Started(s), Ended(s)}
      BY <1>3, <1>5, <3>1, <3>3
    <3>4. ASSUME NEW k \in Floor(t) + 1 .. Len(log), log[k] = Ended(s),
                 \A l \in k + 1 .. Len(log) : log[l] # Started(s)
          PROVE  /\ k \in Floor(t) + 1 .. n /\ log'[k] = Ended(s)
                 /\ \A l \in k + 1 .. n : log'[l] # Started(s)
      BY <1>3, <1>4, <1>5, <3>1, <3>4
    <3> QED BY <1>8, <3>1, <3>2, <3>3, <3>4 DEF Slowed
  <2> QED BY <2>1, <2>2
<1>9. link'[t] = "reading" => held'[t].active = held[t].active
  BY <1>2
<1> QED BY <1>2, <1>6, <1>7, <1>8, <1>9 DEF TabSound, ShownInv

(* The copy of a tab that connects is of now; WriteInit reads the calls of *)
(* /slow later, when more of them may have begun and ended.                *)
LEMMA ConnectTab ==
  ASSUME ShownInv, NEW t \in Tabs, connect(t)
  PROVE  TabSound(t)'
<1>1. /\ link'[t] = "reading" /\ ~inited'[t]
      /\ held'[t] = [requests |-> entries, active |-> {}, at |-> Len(log)]
      /\ early'[t] = {r \in Items(entries) : phase[r] = "added"}
      /\ UNCHANGED <<entries, phase, log, crossed>>
  BY TypedTab DEF connect, server, ShownInv, WebhookInv, TabTyped
<1>2. /\ ListOf(t)' = entries /\ ActiveOf(t)' = {} /\ Floor(t)' = Len(log)
      /\ held'[t].active = {}
  BY <1>1 DEF ListOf, ActiveOf, Floor
<1>3. Len(log) \in Nat /\ \A k \in Len(log) + 1 .. Len(log) : FALSE
  BY Typing DEF ShownInv
<1>4. Doubles(t)'
  <2> SUFFICES ASSUME NEW i \in DOMAIN entries, entries[i] \notin early'[t]
               PROVE  /\ phase[entries[i]] = "done"
                      /\ \A j \in DOMAIN entries : entries[i] = entries[j] => i = j
    BY <1>1, <1>2, <1>3 DEF Doubles
  <2> QED BY <1>1 DEF ShownInv, OfRequests, Items
<1>5. Stored(t)'
  BY <1>1, <1>2, <1>3 DEF Stored, NoClearAfter
<1>6. Slowed(t)'
  BY <1>1, <1>2, <1>3 DEF Slowed
<1> QED BY <1>1, <1>2, <1>4, <1>5, <1>6 DEF TabSound

LEMMA WriteInitTab ==
  ASSUME ShownInv, NEW t \in Tabs, WriteInit(t)
  PROVE  TabSound(t)'
<1>1. /\ link[t] = "reading" /\ link'[t] = "written" /\ ~inited[t] /\ ~inited'[t]
      /\ held'[t].active = slows /\ held'[t].requests = held[t].requests
      /\ held'[t].at = held[t].at
      /\ UNCHANGED <<entries, slows, phase, log, missed, crossed, early>>
  BY TypedTab, Typing DEF WriteInit, server, history, ShownInv, WebhookInv, TabTyped, Copy
<1>2. /\ ListOf(t)' = ListOf(t) /\ ActiveOf(t)' = slows /\ Floor(t)' = Floor(t)
      /\ ActiveOf(t) = held[t].active
  BY <1>1 DEF ListOf, ActiveOf, Floor
<1>3. TabSound(t)
  BY DEF ShownInv
<1>4. Doubles(t)'
  BY <1>1, <1>2, <1>3 DEF TabSound, Doubles, Requested
<1>5. Stored(t) => Stored(t)'
  BY <1>1, <1>2 DEF Stored, NoClearAfter, Requested
<1>6. ASSUME Slowed(t) PROVE Slowed(t)'
  <2>1. \A s \in Slows : s \in slows <=> phase[s] \in {"added", "waiting"}
    BY DEF ShownInv, OfSlows
  <2> QED BY <1>1, <1>2, <1>6, <2>1 DEF Slowed, Started, Ended
<1> QED BY <1>1, <1>3, <1>4, <1>5, <1>6 DEF TabSound

(* subscribe and the init event: the copy takes the place of the list.     *)
LEMMA TakesCopy ==
  ASSUME ShownInv, NEW t \in Tabs, UNCHANGED <<entries, phase, log, crossed>>,
         link[t] \in {"written", "live"}, link'[t] # "reading",
         ListOf(t)' = ListOf(t), ActiveOf(t)' = ActiveOf(t), Floor(t)' = Floor(t),
         early'[t] = early[t], missed'[t] = missed[t]
  PROVE  TabSound(t)'
<1>1. TabSound(t) /\ link[t] # "closed" /\ link[t] # "reading"
  BY DEF ShownInv
<1>2. Doubles(t)'
  BY <1>1 DEF TabSound, Doubles, Requested
<1>3. Stored(t) => Stored(t)'
  BY DEF Stored, NoClearAfter, Requested
<1>4. Slowed(t) => Slowed(t)'
  BY <1>1 DEF Slowed, Started, Ended
<1> QED BY <1>1, <1>2, <1>3, <1>4 DEF TabSound

LEMMA SubscribeTab ==
  ASSUME ShownInv, NEW t \in Tabs, subscribe(t)
  PROVE  TabSound(t)'
<1>1. /\ link[t] = "written" /\ link'[t] = "live"
      /\ UNCHANGED <<entries, phase, log, crossed, held, inited, requests, active, seen,
                     missed, early>>
  BY TypedTab DEF subscribe, server, tab, history, ShownInv, WebhookInv, TabTyped
<1> QED BY <1>1, TakesCopy DEF ListOf, ActiveOf, Floor

LEMMA OnInitTab ==
  ASSUME ShownInv, NEW t \in Tabs, OnInit(t)
  PROVE  TabSound(t)'
<1>1. /\ link[t] \in {"written", "live"} /\ ~inited[t] /\ inited'[t]
      /\ requests'[t] = held[t].requests /\ active'[t] = held[t].active
      /\ seen'[t] = held[t].at
      /\ UNCHANGED <<entries, phase, log, crossed, link, missed, early>>
  BY TypedTab DEF OnInit, server, ShownInv, WebhookInv, TabTyped
<1> QED BY <1>1, TakesCopy DEF ListOf, ActiveOf, Floor

LEMMA EventIs ==
  ASSUME NEW e \in Events
  PROVE  /\ e.type = "request" => e.id \in Reqs /\ e = Requested(e.id)
         /\ e.type = "slow_start" => e.id \in Slows /\ e = Started(e.id)
         /\ e.type = "slow_end" => e.id \in Slows /\ e = Ended(e.id)
         /\ \A x : /\ e = Requested(x) => e.type = "request" /\ e.id = x
                   /\ e = Started(x) => e.type = "slow_start" /\ e.id = x
                   /\ e = Ended(x) => e.type = "slow_end" /\ e.id = x
  BY DEF Events, Requested, Started, Ended

(* The next event of the log, at the tab.                                  *)
LEMMA onmessageTab ==
  ASSUME ShownInv, NEW t \in Tabs, onmessage(t)
  PROVE  TabSound(t)'
<1>1. PICK i \in seen[t] + 1 .. Len(log) :
         /\ log[i] \in Events /\ seen'[t] = i /\ (~missed[t] => i = seen[t] + 1)
         /\ \/ log[i].type = "request"    /\ OnRequest(t, log[i].id)
            \/ log[i].type = "clear"      /\ OnClear(t)
            \/ log[i].type = "slow_start" /\ OnSlowStart(t, log[i].id)
            \/ log[i].type = "slow_end"   /\ OnSlowEnd(t, log[i].id)
  <2>1. TabTyped
    BY TypedTab DEF ShownInv, WebhookInv
  <2> QED BY <2>1, MessageIs DEF onmessage, ShownInv, TabTyped
<1>2. /\ inited[t] /\ inited'[t] /\ link[t] \notin {"closed", "reading"} /\ TabSound(t)
      /\ UNCHANGED <<entries, phase, log, crossed, link, missed, early>>
      /\ Len(log) \in Nat /\ seen[t] \in Nat /\ requests[t] \in Seq(Reqs)
      /\ requests \in [Tabs -> Seq(Reqs)] /\ active \in [Tabs -> SUBSET Slows]
  BY Typing, TypedTab DEF onmessage, server, ShownInv, WebhookInv, Typed, TypeOK, Floor,
     TabTyped, InOrder, Linked
<1>3. /\ ListOf(t) = requests[t] /\ ListOf(t)' = requests'[t]
      /\ ActiveOf(t) = active[t] /\ ActiveOf(t)' = active'[t]
      /\ Floor(t) = seen[t] /\ Floor(t)' = i
  BY <1>1, <1>2 DEF ListOf, ActiveOf, Floor
<1>4. /\ \A k \in i + 1 .. Len(log) : k \in seen[t] + 1 .. Len(log) /\ k # i
      /\ ~missed[t] => \A k \in seen[t] + 1 .. Len(log) : k = i \/ k \in i + 1 .. Len(log)
      /\ i \in Nat /\ i \in 1..Len(log)
      /\ \A k \in i + 1 .. Len(log) : k \in 1..Len(log)
  BY <1>1, <1>2
<1> DEFINE e == log[i]
<1>5. /\ \/ /\ e.type = "request" /\ requests'[t] = <<e.id>> \o requests[t]
            /\ active'[t] = active[t]
         \/ e.type = "clear" /\ requests'[t] = <<>> /\ active'[t] = active[t]
         \/ e.type = "slow_start" /\ requests'[t] = requests[t]
            /\ active'[t] = active[t] \cup {e.id}
         \/ e.type = "slow_end" /\ requests'[t] = requests[t]
            /\ active'[t] = active[t] \ {e.id}
      /\ e \in Events
  BY <1>1, <1>2 DEF OnRequest, OnClear, OnSlowStart, OnSlowEnd
<1>6. Doubles(t)'
  <2>1. Doubles(t)
    BY <1>2 DEF TabSound
  <2> SUFFICES ASSUME NEW a \in DOMAIN requests'[t], requests'[t][a] \notin early[t]
               PROVE
            /\ phase[requests'[t][a]] = "done"
            /\ \A k \in i + 1 .. Len(log) : log[k] # Requested(requests'[t][a])
            /\ \A b \in DOMAIN requests'[t] : requests'[t][a] = requests'[t][b] => a = b
    <3>1. /\ ListOf(t)' = requests'[t] /\ Floor(t)' = i
          /\ phase' = phase /\ log' = log /\ early'[t] = early[t]
      BY <1>2, <1>3
    <3> QED BY <3>1 DEF Doubles, Requested
  <2>2. ASSUME NEW b \in DOMAIN requests[t], requests[t][b] \notin early[t]
        PROVE  /\ phase[requests[t][b]] = "done"
               /\ \A k \in seen[t] + 1 .. Len(log) : log[k] # Requested(requests[t][b])
               /\ \A d \in DOMAIN requests[t] : requests[t][b] = requests[t][d] => b = d
    BY <1>3, <2>1, <2>2 DEF Doubles
  <2>3. CASE requests'[t] = requests[t]
    BY <1>4, <2>2, <2>3
  <2>4. CASE requests'[t] = <<>>
    BY <2>4
  <2>5. CASE e.type = "request" /\ requests'[t] = <<e.id>> \o requests[t]
    <3>1. e.id \in Reqs /\ log[i] = Requested(e.id)
      BY <1>5, <2>5, EventIs
    <3>2. phase[e.id] = "done" /\ \A k \in 1..Len(log) : log[k] = Requested(e.id) => k = i
      BY <1>4, <3>1 DEF ShownInv, OfRequests
    <3>3. \A k \in i + 1 .. Len(log) : log[k] # Requested(e.id)
      BY <1>4, <3>2
    <3>4. ASSUME NEW b \in DOMAIN requests[t], requests[t][b] \notin early[t]
          PROVE  requests[t][b] # e.id
      BY <1>1, <2>2, <3>1, <3>4
    <3> HIDE DEF e
    <3>5. /\ requests'[t][1] = e.id
          /\ \A b \in DOMAIN requests'[t] :
                b = 1 \/ (b - 1 \in DOMAIN requests[t] /\ requests'[t][b] = requests[t][b - 1])
          /\ DOMAIN requests'[t] \subseteq Nat
      BY <1>2, <2>5, <3>1
    <3>6. CASE a = 1
      BY <3>2, <3>3, <3>4, <3>5, <3>6
    <3>7. CASE a # 1
      <4>1. /\ a - 1 \in DOMAIN requests[t] /\ requests'[t][a] = requests[t][a - 1]
            /\ requests[t][a - 1] # e.id
        BY <3>4, <3>5, <3>7
      <4>2. \A b \in DOMAIN requests'[t] : requests'[t][a] = requests'[t][b] => a = b
        BY <2>2, <3>5, <4>1
      <4> QED BY <1>4, <2>2, <4>1, <4>2
    <3> QED BY <3>6, <3>7
  <2> QED BY <1>5, <2>3, <2>4, <2>5
<1>7. ASSUME Stored(t), ~missed[t] PROVE Stored(t)'
  <2> SUFFICES ASSUME NEW r \in Items(entries) \ crossed, phase[r] # "added"
               PROVE  \/ r \in Items(requests'[t]) /\ NoClearAfter(i)
                      \/ \E k \in i + 1 .. Len(log) : log[k] = Requested(r) /\ NoClearAfter(k)
    BY <1>2, <1>3 DEF Stored, NoClearAfter, Requested
  <2>1. CASE r \in Items(requests[t]) /\ NoClearAfter(seen[t])
    <3>1. NoClearAfter(i) /\ e.type # "clear"
      BY <1>1, <1>4, <2>1 DEF NoClearAfter
    <3>2. PICK b \in DOMAIN requests[t] : requests[t][b] = r
      BY <2>1 DEF Items
    <3>3. r \in Items(requests'[t])
      <4>1. CASE requests'[t] = requests[t]
        BY <2>1, <4>1
      <4>2. CASE e.type = "request" /\ requests'[t] = <<e.id>> \o requests[t]
        <5>1. e.id \in Reqs
          BY <1>5, <4>2, EventIs
        <5> HIDE DEF e
        <5>2. b + 1 \in DOMAIN requests'[t] /\ requests'[t][b + 1] = r
          BY <1>2, <3>2, <4>2, <5>1
        <5> QED BY <5>2 DEF Items
      <4> QED BY <1>5, <3>1, <4>1, <4>2
    <3> QED BY <3>1, <3>3
  <2>2. ASSUME NEW k \in seen[t] + 1 .. Len(log), log[k] = Requested(r), NoClearAfter(k)
        PROVE  \/ r \in Items(requests'[t]) /\ NoClearAfter(i)
               \/ \E l \in i + 1 .. Len(log) : log[l] = Requested(r) /\ NoClearAfter(l)
    <3>1. CASE k = i
      <4>1. e.type = "request" /\ e.id = r /\ requests'[t] = <<r>> \o requests[t]
            /\ r \in Reqs
        BY <1>5, <2>2, <3>1, EventIs
      <4>2. 1 \in DOMAIN requests'[t] /\ requests'[t][1] = r
        BY <1>2, <4>1
      <4> QED BY <2>2, <3>1, <4>2 DEF Items
    <3>2. CASE k # i
      BY <1>4, <1>7, <2>2, <3>2
    <3> QED BY <3>1, <3>2
  <2> QED BY <1>3, <1>7, <2>1, <2>2 DEF Stored
<1>8. ASSUME Slowed(t), ~missed[t] PROVE Slowed(t)'
  <2> SUFFICES ASSUME NEW s \in Slows
               PROVE
        /\ phase[s] = "idle" => s \notin active'[t]
        /\ phase[s] = "waiting" => \/ s \in active'[t]
                                   \/ \E k \in i + 1 .. Len(log) : log[k] = Started(s)
        /\ phase[s] = "done" =>
              \/ /\ s \notin active'[t]
                 /\ \A k \in i + 1 .. Len(log) : log[k] \notin {Started(s), Ended(s)}
              \/ \E k \in i + 1 .. Len(log) :
                    /\ log[k] = Ended(s)
                    /\ \A l \in k + 1 .. Len(log) : log[l] # Started(s)
    BY <1>2, <1>3 DEF Slowed, Started, Ended
  <2>1. /\ e = Started(s) => s \in active'[t]
        /\ e = Ended(s) => s \notin active'[t]
        /\ e # Started(s) /\ e # Ended(s) => (s \in active'[t] <=> s \in active[t])
    BY <1>5, EventIs
  <2>2. /\ e = Started(s) => phase[s] \notin {"idle", "added"}
        /\ e = Ended(s) => phase[s] = "done"
        /\ e = Started(s) => e # Ended(s)
    BY <1>4 DEF ShownInv, OfSlows, Started, Ended
  <2>3. /\ phase[s] = "idle" => s \notin active[t]
        /\ phase[s] = "waiting" =>
              s \in active[t] \/ \E k \in seen[t] + 1 .. Len(log) : log[k] = Started(s)
        /\ phase[s] = "done" =>
              \/ /\ s \notin active[t]
                 /\ \A k \in seen[t] + 1 .. Len(log) : log[k] \notin {Started(s), Ended(s)}
              \/ \E k \in seen[t] + 1 .. Len(log) :
                    /\ log[k] = Ended(s)
                    /\ \A l \in k + 1 .. Len(log) : log[l] # Started(s)
    BY <1>2, <1>3, <1>8 DEF Slowed
  <2>4. CASE phase[s] = "idle"
    BY <2>1, <2>2, <2>3, <2>4
  <2>5. CASE phase[s] = "waiting"
    <3>1. CASE s \in active[t]
      BY <2>1, <2>2, <2>5, <3>1
    <3>2. ASSUME NEW k \in seen[t] + 1 .. Len(log), log[k] = Started(s)
          PROVE  s \in active'[t] \/ \E l \in i + 1 .. Len(log) : log[l] = Started(s)
      BY <1>4, <1>8, <2>1, <3>2
    <3> QED BY <2>3, <2>5, <3>1, <3>2
  <2>6. CASE phase[s] = "done"
    <3>1. CASE /\ s \notin active[t]
               /\ \A k \in seen[t] + 1 .. Len(log) : log[k] \notin {Started(s), Ended(s)}
      BY <1>1, <1>4, <2>1, <2>6, <3>1
    <3>2. ASSUME NEW k \in seen[t] + 1 .. Len(log), log[k] = Ended(s),
                 \A l \in k + 1 .. Len(log) : log[l] # Started(s)
          PROVE
              \/ /\ s \notin active'[t]
                 /\ \A l \in i + 1 .. Len(log) : log[l] \notin {Started(s), Ended(s)}
              \/ \E l \in i + 1 .. Len(log) :
                    /\ log[l] = Ended(s)
                    /\ \A m \in l + 1 .. Len(log) : log[m] # Started(s)
      <4>1. CASE k # i
        BY <1>4, <1>8, <3>2, <4>1
      <4>2. CASE k = i /\ \E l \in i + 1 .. Len(log) : log[l] = Ended(s)
        <5>1. PICK l \in i + 1 .. Len(log) : log[l] = Ended(s)
          BY <4>2
        <5>2. \A m \in l + 1 .. Len(log) : m \in k + 1 .. Len(log)
          BY <1>2, <1>4, <4>2, <5>1
        <5> QED BY <3>2, <5>1, <5>2
      <4>3. CASE k = i /\ ~\E l \in i + 1 .. Len(log) : log[l] = Ended(s)
        BY <2>1, <3>2, <4>3
      <4> QED BY <4>1, <4>2, <4>3
    <3> QED BY <2>3, <2>6, <3>1, <3>2
  <2> QED BY <2>4, <2>5, <2>6
<1> QED BY <1>2, <1>6, <1>7, <1>8 DEF TabSound

(* A step of one tab leaves the others alone.                              *)
LEMMA OtherTabs ==
  ASSUME ShownInv, NEW t \in Tabs, Follow(t), NEW u \in Tabs, u # t
  PROVE  TabSound(u)'
<1>1. /\ UNCHANGED <<entries, phase, log, crossed>>
      /\ link'[u] = link[u] /\ held'[u] = held[u] /\ inited'[u] = inited[u]
      /\ requests'[u] = requests[u] /\ active'[u] = active[u] /\ seen'[u] = seen[u]
      /\ missed'[u] = missed[u] /\ early'[u] = early[u]
  <2>1. TabTyped
    BY TypedTab DEF ShownInv, WebhookInv
  <2>2. CASE connect(t)
    BY <2>1, <2>2 DEF connect, server, tab, TabTyped
  <2>3. CASE WriteInit(t)
    BY <2>1, <2>3 DEF WriteInit, server, tab, history, TabTyped
  <2>4. CASE subscribe(t)
    BY <2>1, <2>4 DEF subscribe, server, tab, history, TabTyped
  <2>5. CASE OnInit(t)
    BY <2>1, <2>5 DEF OnInit, server, TabTyped
  <2>6. CASE onmessage(t)
    <3>1. /\ UNCHANGED <<entries, phase, log, crossed, link, held, inited, missed, early>>
          /\ seen'[u] = seen[u]
      BY <2>1, <2>6 DEF onmessage, server, TabTyped
    <3>2. requests'[u] = requests[u] /\ active'[u] = active[u]
      BY <2>1, <2>6 DEF onmessage, OnRequest, OnClear, OnSlowStart, OnSlowEnd, TabTyped
    <3> QED BY <3>1, <3>2
  <2> QED BY <2>2, <2>3, <2>4, <2>5, <2>6 DEF Follow
<1> QED BY <1>1, SameTab DEF ShownInv

LEMMA ShownInvInit == Init => ShownInv
<1> SUFFICES ASSUME Init PROVE ShownInv
  OBVIOUS
<1>1. WebhookInv
  BY WebhookInvInit
<1>2. /\ entries = <<>> /\ slows = {} /\ log = <<>> /\ phase = [c \in Calls |-> "idle"]
      /\ link = [t \in Tabs |-> "closed"]
  BY DEF Init
<1>3. DOMAIN entries = {} /\ Items(entries) = {} /\ Len(log) = 0
  BY <1>2 DEF Items
<1>4. OfRequests /\ OfSlows
  BY <1>2, <1>3, Kinds DEF OfRequests, OfSlows
<1>5. \A t \in Tabs : TabSound(t)
  BY <1>2 DEF TabSound
<1> QED BY <1>1, <1>4, <1>5 DEF ShownInv

LEMMA WritesShown ==
  ASSUME ShownInv, Writes
  PROVE  OfRequests' /\ OfSlows' /\ \A t \in Tabs : TabSound(t)'
<1>1. /\ UNCHANGED <<stream, tab, log, seen, missed, early>>
      /\ WebhookInv /\ OfRequests /\ OfSlows /\ \A t \in Tabs : TabSound(t)
  BY WritesKeepInv DEF ShownInv
<1>2. Items(entries) \subseteq Reqs
  BY <1>1, Typing DEF Items
<1>3. ASSUME NEW r \in Reqs, Capture(r)
      PROVE  OfRequests' /\ OfSlows' /\ \A t \in Tabs : TabSound(t)'
  <2>1. /\ phase[r] = "idle" /\ phase'[r] = "added" /\ r \in Calls
        /\ \A d \in Calls \ {r} : phase'[d] = phase[d]
        /\ crossed \subseteq crossed'
    BY <1>1, <1>3, PhaseMoves, Kinds DEF Capture
  <2>2. OfRequests' /\ OfSlows' /\ Items(entries') \subseteq Items(entries) \cup {r}
    BY <1>1, <1>3, CaptureSound
  <2>3. \A q \in Reqs : phase[q] = "done" => phase'[q] = "done"
    BY <2>1, Kinds
  <2>4. \A q \in Items(entries') \ crossed' :
            phase'[q] = "added" \/ (q \in Items(entries) \ crossed /\ phase'[q] = phase[q])
    BY <1>2, <2>1, <2>2, Kinds
  <2>5. \A s \in Slows : phase'[s] = phase[s]
    BY <2>1, Kinds
  <2> QED BY <1>1, <2>2, <2>3, <2>4, <2>5, QuietTab
<1>4. ASSUME NEW s \in Slows, StartSlow(s) \/ EndSlow(s)
      PROVE  OfRequests' /\ OfSlows' /\ \A t \in Tabs : TabSound(t)'
  <2>1. /\ UNCHANGED <<entries, crossed>> /\ phase'[s] \in {"added", "removed"} /\ s \in Calls
        /\ \A d \in Calls \ {s} : phase'[d] = phase[d]
    BY <1>1, <1>4, PhaseMoves, Kinds DEF StartSlow, EndSlow, history
  <2>2. \A r \in Reqs : phase'[r] = phase[r]
    BY <2>1, Kinds
  <2>3. \A u \in Slows : phase'[u] \in {"idle", "waiting", "done"} => phase'[u] = phase[u]
    BY <2>1, Kinds
  <2> QED BY <1>1, <1>2, <1>4, <2>1, <2>2, <2>3, SlowSound, QuietTab
<1>5. ASSUME NEW d \in Clears, Clear(d)
      PROVE  OfRequests' /\ OfSlows' /\ \A t \in Tabs : TabSound(t)'
  <2>1. OfRequests' /\ OfSlows' /\ Items(entries') = {}
    BY <1>1, <1>5, ClearSound
  <2>2. \A c \in Reqs \cup Slows : phase'[c] = phase[c]
    BY <1>1, <1>5, PhaseMoves, Kinds DEF Clear
  <2> QED BY <1>1, <2>1, <2>2, QuietTab
<1> QED BY <1>3, <1>4, <1>5 DEF Writes

LEMMA FaultShown ==
  ASSUME ShownInv, Restart \/ \E t \in Tabs : Break(t)
  PROVE  OfRequests' /\ OfSlows' /\ \A t \in Tabs : TabSound(t)'
<1>1. CASE Restart
  <2>1. \A t \in Tabs : link'[t] = "closed"
    BY <1>1 DEF Restart, Cut
  <2> QED BY <1>1, <2>1, RestartSound DEF ShownInv, TabSound
<1>2. ASSUME NEW t \in Tabs, Break(t)
      PROVE  OfRequests' /\ OfSlows' /\ \A u \in Tabs : TabSound(u)'
  <2>1. /\ UNCHANGED <<entries, slows, phase, requests, active, log, seen, missed, crossed,
                       early>>
        /\ link'[t] = "closed"
        /\ \A u \in Tabs \ {t} : /\ link'[u] = link[u] /\ held'[u] = held[u]
                                 /\ inited'[u] = inited[u]
    <3>1. TabTyped
      BY TypedTab DEF ShownInv, WebhookInv
    <3> QED BY <1>2, <3>1 DEF Break, Cut, server, tab, history, TabTyped
  <2>2. OfRequests' /\ OfSlows'
    BY <2>1 DEF ShownInv, OfRequests, OfSlows, Requested, Started, Ended
  <2>3. \A u \in Tabs \ {t} : TabSound(u)'
    BY <2>1, SameTab DEF ShownInv
  <2> QED BY <2>1, <2>2, <2>3 DEF TabSound
<1> QED BY <1>1, <1>2

LEMMA ShownInvStep == ShownInv /\ [Next]_vars => ShownInv'
<1> SUFFICES ASSUME ShownInv, [Next]_vars
             PROVE  OfRequests' /\ OfSlows' /\ \A t \in Tabs : TabSound(t)'
  BY WebhookInvStep DEF ShownInv
<1>1. CASE Writes
  BY <1>1, WritesShown
<1>2. ASSUME NEW c \in Calls, Announce(c)
      PROVE  OfRequests' /\ OfSlows' /\ \A t \in Tabs : TabSound(t)'
  BY <1>2, AnnounceSound, BroadcastTab DEF ShownInv
<1>3. ASSUME NEW t \in Tabs, Follow(t)
      PROVE  OfRequests' /\ OfSlows' /\ \A u \in Tabs : TabSound(u)'
  <2>1. UNCHANGED <<entries, slows, phase, log, crossed>>
    BY <1>3 DEF Follow, connect, WriteInit, subscribe, OnInit, onmessage, server, history
  <2>2. OfRequests' /\ OfSlows'
    BY <2>1 DEF ShownInv, OfRequests, OfSlows, Requested, Started, Ended
  <2>3. TabSound(t)'
    BY <1>3, ConnectTab, WriteInitTab, SubscribeTab, OnInitTab, onmessageTab DEF Follow
  <2> QED BY <1>3, <2>2, <2>3, OtherTabs
<1>4. CASE Restart \/ \E t \in Tabs : Break(t)
  BY <1>4, FaultShown
<1>5. CASE UNCHANGED vars
  <2>1. UNCHANGED <<entries, slows, phase, link, held, inited, requests, active, log, seen,
                    missed, crossed, early>>
    BY <1>5 DEF vars, server, stream, tab, history
  <2>2. OfRequests' /\ OfSlows'
    BY <2>1 DEF ShownInv, OfRequests, OfSlows, Requested, Started, Ended
  <2> QED BY <2>1, <2>2, SameTab DEF ShownInv
<1> QED BY <1>1, <1>2, <1>3, <1>4, <1>5 DEF Next, Handle, Writes

LEMMA ShownInvariant == Spec => []ShownInv
  BY ShownInvInit, ShownInvStep, PTL DEF Spec

(* Nothing is on its way to a tab that is settled.                         *)
LEMMA SettledTab ==
  ASSUME ShownInv, NEW t \in Tabs, Settled(t)
  PROVE  /\ Stored(t) /\ Slowed(t) /\ ListOf(t) = requests[t] /\ ActiveOf(t) = active[t]
         /\ link[t] = "live" /\ \A k \in Floor(t) + 1 .. Len(log) : FALSE
<1>1. link[t] = "live" /\ inited[t] /\ inbox[t] = <<>> /\ ~missed[t]
  BY DEF Settled
<1>2. Floor(t) \in Nat /\ Len(log) \in Nat /\ Whole(inbox[t], Floor(t), Len(log))
  BY <1>1, Typing DEF ShownInv, InOrder, Gapless
<1>3. Floor(t) = Len(log)
  BY <1>1, <1>2 DEF Whole
<1> QED BY <1>1, <1>2, <1>3 DEF ShownInv, TabSound, ListOf, ActiveOf

(* The dashboards of cron-webhook, once all is quiet: what the store holds *)
(* is on the screen of every tab that missed no broadcast, except what was *)
(* added while a clear was not yet broadcast.                              *)
THEOREM StoredAreShownHolds == Spec => []StoredAreShown
<1>1. ASSUME ShownInv, NEW t \in Tabs, Settled(t), NEW r \in Items(entries), r \notin crossed
      PROVE  r \in Items(requests[t])
  <2>1. r \in Calls /\ phase[r] # "added"
    <3>1. r \in Reqs
      BY <1>1, Typing DEF ShownInv, Items
    <3> QED BY <1>1, <3>1, Kinds DEF Settled
  <2> QED BY <1>1, <2>1, SettledTab DEF Stored
<1>2. ShownInv => StoredAreShown
  BY <1>1 DEF StoredAreShown
<1> QED BY <1>2, ShownInvariant, PTL

(* A dashboard that is settled shows the calls of /slow that run, and no   *)
(* others, though its copy of them is newer than its place in the log.     *)
THEOREM SlowsAreShownHolds == Spec => []SlowsAreShown
<1>1. ASSUME ShownInv, NEW t \in Tabs, Settled(t) PROVE active[t] = slows
  <2>1. \A s \in Slows : phase[s] \in {"idle", "waiting", "done"}
    BY <1>1, Kinds DEF Settled
  <2>2. \A s \in Slows : s \in active[t] <=> phase[s] = "waiting"
    BY <1>1, <2>1, SettledTab DEF Slowed
  <2>3. \A s \in Slows : s \in slows <=> phase[s] = "waiting"
    BY <1>1, <2>1 DEF ShownInv, OfSlows
  <2>4. active[t] \subseteq Slows /\ slows \subseteq Slows
    BY <1>1, Typing, SettledTab DEF ShownInv
  <2> QED BY <2>2, <2>3, <2>4
<1>2. ShownInv => SlowsAreShown
  BY <1>1 DEF SlowsAreShown
<1> QED BY <1>2, ShownInvariant, PTL

(* connect reads the store before the tab is subscribed: only a request    *)
(* that was stored and not yet broadcast then is listed twice.             *)
THEOREM DoubledOnlyByInitHolds == Spec => []DoubledOnlyByInit
<1>1. ASSUME ShownInv, NEW t \in Tabs, inited[t],
             NEW i \in DOMAIN requests[t], NEW j \in DOMAIN requests[t],
             i # j, requests[t][i] = requests[t][j]
      PROVE  requests[t][i] \in early[t]
  <2>1. link[t] # "closed" /\ ListOf(t) = requests[t]
    BY <1>1, Typing DEF ShownInv, ListOf
  <2> QED BY <1>1, <2>1 DEF ShownInv, TabSound, Doubles
<1>2. ShownInv => DoubledOnlyByInit
  BY <1>1 DEF DoubledOnlyByInit
<1> QED BY <1>2, ShownInvariant, PTL
=============================================================================
