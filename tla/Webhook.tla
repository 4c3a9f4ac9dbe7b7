------------------------------ MODULE Webhook -------------------------------
(***************************************************************************)
(* cron-webhook: the server that receives the requests of the jobs, keeps  *)
(* the last ones in memory and streams them to the dashboards that are     *)
(* open.  Every handler is a goroutine: between two statements that take a *)
(* mutex the others may run.  A request, a call of /slow and a DELETE of   *)
(* /__history are named by their id; phase is where their handler is.      *)
(*                                                                         *)
(* What a broadcast puts into the channel of a tab and the tab has not     *)
(* handled is in inbox, the part that is on the wire as well.              *)
(***************************************************************************)
EXTENDS Naturals, Sequences, FiniteSets

CONSTANTS Reqs,        \* requests to be captured
          Slows,       \* calls of /slow
          Clears,      \* calls of DELETE /__history
          Tabs,        \* dashboards
          maxEntries,  \* entries kept
          Buffer,      \* capacity of the channel of a tab
          MaxFaults    \* bound: connections that break and restarts of the server

ASSUME SizesAssumption == maxEntries \in Nat \ {0} /\ Buffer \in Nat \ {0}
ASSUME FaultsAssumption == MaxFaults \in Nat
ASSUME DistinctAssumption ==
    Reqs \cap Slows = {} /\ Reqs \cap Clears = {} /\ Slows \cap Clears = {}

VARIABLES entries,     \* store.entries, the newest first
          slows,       \* slowStore.entries
          phase,       \* the handlers
          link,        \* the handler of /__events of each tab
          held,        \* the init event, while it is read and until it is handled
          inited,      \* the tab has handled it
          inbox,       \* events on their way to the tab, by their place in the log
          requests,    \* the script of the tab: requests
          count,       \* ... what the counter shows
          active,      \* ... activeSlows
          faults,      \* how many there were
          log,         \* history: the broadcasts
          seen,        \* history: the place in the log that the tab is at
          missed,      \* history: a broadcast since the copy did not reach the tab
          crossed,     \* history: requests added while a clear was not yet broadcast
          early        \* history: requests that the tab's copy held before their broadcast

server  == <<entries, slows, phase>>
stream  == <<link, held, inited, inbox>>
tab     == <<requests, count, active>>
history == <<log, seen, missed, crossed, early>>
vars    == <<server, stream, tab, faults, history>>

Calls == Reqs \cup Slows \cup Clears

(* added: stored, not yet broadcast; removed and cleared: the same for the *)
(* end of a call of /slow and for a clear.                                 *)
Phases == {"idle", "added", "waiting", "removed", "cleared", "done"}
Links  == {"closed", "reading", "written", "live"}

Items(s) == {s[i] : i \in DOMAIN s}

NoCopy == [requests |-> <<>>, active |-> {}, at |-> 0]

Events == [type : {"request"}, id : Reqs]
     \cup [type : {"slow_start", "slow_end"}, id : Slows]
     \cup [type : {"clear"}, id : Clears]

(* Every variable keeps its type; the store keeps maxEntries entries and   *)
(* the channel of a tab Buffer events.                                     *)
TypeOK ==
    /\ entries \in Seq(Reqs) /\ Len(entries) <= maxEntries
    /\ slows \in SUBSET Slows
    /\ phase \in [Calls -> Phases]
    /\ link \in [Tabs -> Links] /\ inited \in [Tabs -> BOOLEAN]
    /\ \A t \in Tabs : /\ held[t].requests \in Seq(Reqs) /\ held[t].active \in SUBSET Slows
                       /\ held[t].at \in 0..Len(log)
                       /\ inbox[t] \in Seq(1..Len(log)) /\ Len(inbox[t]) <= Buffer
                       /\ requests[t] \in Seq(Reqs)
    /\ count \in [Tabs -> Nat] /\ active \in [Tabs -> SUBSET Slows]
    /\ faults \in 0..MaxFaults
    /\ log \in Seq(Events) /\ seen \in [Tabs -> 0..Len(log)]
    /\ missed \in [Tabs -> BOOLEAN]
    /\ crossed \in SUBSET Reqs /\ early \in [Tabs -> SUBSET Reqs]

Init ==
    /\ entries = <<>> /\ slows = {} /\ phase = [c \in Calls |-> "idle"]
    /\ link = [t \in Tabs |-> "closed"] /\ held = [t \in Tabs |-> NoCopy]
    /\ inited = [t \in Tabs |-> FALSE] /\ inbox = [t \in Tabs |-> <<>>]
    /\ requests = [t \in Tabs |-> <<>>] /\ count = [t \in Tabs |-> 0]
    /\ active = [t \in Tabs |-> {}]
    /\ faults = 0
    /\ log = <<>> /\ seen = [t \in Tabs |-> 0] /\ missed = [t \in Tabs |-> FALSE]
    /\ crossed = {} /\ early = [t \in Tabs |-> {}]

-----------------------------------------------------------------------------
(* The handlers.                                                           *)
Moves(c, from, to) == phase[c] = from /\ phase' = [phase EXCEPT ![c] = to]

(* Mutant: the list is not cut.                                            *)
addUncut(r) == entries' = <<r>> \o entries

add(r) == entries' = IF Len(entries) < maxEntries THEN <<r>> \o entries
                     ELSE <<r>> \o SubSeq(entries, 1, maxEntries - 1)

(* The catch-all handler, as far as s.add.                                 *)
Capture(r) ==
    /\ Moves(r, "idle", "added") /\ add(r)
    /\ crossed' = IF \E d \in Clears : phase[d] = "cleared" THEN crossed \cup {r} ELSE crossed
    /\ UNCHANGED <<slows, stream, tab, faults, log, seen, missed, early>>

StartSlow(s) ==
    /\ Moves(s, "idle", "added") /\ slows' = slows \cup {s}
    /\ UNCHANGED <<entries, stream, tab, faults, history>>

(* Mutant: when the caller is gone the handler returns before the removal. *)
EndSlowKeeps(s) ==
    /\ Moves(s, "waiting", "removed")
    /\ UNCHANGED <<entries, slows, stream, tab, faults, history>>

(* The delay has passed, or the caller is gone.                            *)
EndSlow(s) ==
    /\ Moves(s, "waiting", "removed") /\ slows' = slows \ {s}
    /\ UNCHANGED <<entries, stream, tab, faults, history>>

Clear(d) ==
    /\ Moves(d, "idle", "cleared") /\ entries' = <<>>
    /\ UNCHANGED <<slows, stream, tab, faults, history>>

(* broker.broadcast, under its mutex: to every subscribed tab with room.   *)
Takes(t) == link[t] = "live" /\ Len(inbox[t]) < Buffer

(* Mutant: the newest event first.                                         *)
QueuedFirst(t) == <<Len(log) + 1>> \o inbox[t]

Queued(t) == Append(inbox[t], Len(log) + 1)

broadcast(type, id) ==
    /\ log' = Append(log, [type |-> type, id |-> id])
    /\ inbox' = [t \in Tabs |-> IF Takes(t) THEN Queued(t) ELSE inbox[t]]
    /\ missed' = [t \in Tabs |-> missed[t] \/ (link[t] # "closed" /\ ~Takes(t))]
    /\ UNCHANGED <<entries, slows, link, held, inited, tab, faults, seen, crossed, early>>

(* The second half of the handlers.                                        *)
Announce(c) ==
    \/ c \in Reqs   /\ Moves(c, "added", "done")    /\ broadcast("request", c)
    \/ c \in Slows  /\ Moves(c, "added", "waiting") /\ broadcast("slow_start", c)
    \/ c \in Slows  /\ Moves(c, "removed", "done")  /\ broadcast("slow_end", c)
    \/ c \in Clears /\ Moves(c, "cleared", "done")  /\ broadcast("clear", c)

-----------------------------------------------------------------------------
(* The handler of /__events: it copies the entries, then the calls of      *)
(* /slow, writes both as the init event, and only then subscribes.         *)

(* Mutant: after an error no timer is set.                                 *)
connectOnce(t) ==
    /\ link[t] = "closed" /\ faults = 0
    /\ link' = [link EXCEPT ![t] = "reading"]
    /\ held' = [held EXCEPT ![t] = [requests |-> entries, active |-> {}, at |-> Len(log)]]
    /\ inited' = [inited EXCEPT ![t] = FALSE]
    /\ missed' = [missed EXCEPT ![t] = FALSE]
    /\ early' = [early EXCEPT ![t] = {r \in Items(entries) : phase[r] = "added"}]
    /\ UNCHANGED <<server, inbox, tab, faults, log, seen, crossed>>

connect(t) ==
    /\ link[t] = "closed"
    /\ link' = [link EXCEPT ![t] = "reading"]
    /\ held' = [held EXCEPT ![t] = [requests |-> entries, active |-> {}, at |-> Len(log)]]
    /\ inited' = [inited EXCEPT ![t] = FALSE]
    /\ missed' = [missed EXCEPT ![t] = FALSE]
    /\ early' = [early EXCEPT ![t] = {r \in Items(entries) : phase[r] = "added"}]
    /\ UNCHANGED <<server, inbox, tab, faults, log, seen, crossed>>

WriteInit(t) ==
    /\ link[t] = "reading"
    /\ link' = [link EXCEPT ![t] = "written"]
    /\ held' = [held EXCEPT ![t].active = slows]
    /\ UNCHANGED <<server, inited, inbox, tab, faults, history>>

subscribe(t) ==
    /\ link[t] = "written"
    /\ link' = [link EXCEPT ![t] = "live"]
    /\ UNCHANGED <<server, held, inited, inbox, tab, faults, history>>

-----------------------------------------------------------------------------
(* onmessage.                                                              *)

(* Mutant: the copy is added to what the tab has.                          *)
OnInitAppends(t) ==
    /\ link[t] \in {"written", "live"} /\ ~inited[t]
    /\ requests' = [requests EXCEPT ![t] = held[t].requests \o @]
    /\ count' = IF held[t].requests = <<>> THEN count
                ELSE [count EXCEPT ![t] = Len(held[t].requests) + Len(requests[t])]
    /\ active' = [active EXCEPT ![t] = held[t].active]
    /\ seen' = [seen EXCEPT ![t] = held[t].at]
    /\ inited' = [inited EXCEPT ![t] = TRUE] /\ held' = [held EXCEPT ![t] = NoCopy]
    /\ UNCHANGED <<server, link, inbox, faults, log, missed, crossed, early>>

(* renderList returns before updateCount when there is nothing to list.    *)
OnInit(t) ==
    /\ link[t] \in {"written", "live"} /\ ~inited[t]
    /\ requests' = [requests EXCEPT ![t] = held[t].requests]
    /\ count' = IF held[t].requests = <<>> THEN count
                ELSE [count EXCEPT ![t] = Len(held[t].requests)]
    /\ active' = [active EXCEPT ![t] = held[t].active]
    /\ seen' = [seen EXCEPT ![t] = held[t].at]
    /\ inited' = [inited EXCEPT ![t] = TRUE] /\ held' = [held EXCEPT ![t] = NoCopy]
    /\ UNCHANGED <<server, link, inbox, faults, log, missed, crossed, early>>

(* Mutant: a list that is empty stays so.                                  *)
OnRequestIfListed(t, r) ==
    /\ requests' = [requests EXCEPT ![t] = IF @ = <<>> THEN @ ELSE <<r>> \o @]
    /\ count' = [count EXCEPT ![t] = Len(requests[t]) + 1]
    /\ UNCHANGED active

(* Mutant: the counter counts by itself.                                   *)
OnRequestCounts(t, r) ==
    /\ requests' = [requests EXCEPT ![t] = <<r>> \o @]
    /\ count' = [count EXCEPT ![t] = @ + 1]
    /\ UNCHANGED active

OnRequest(t, r) ==
    /\ requests' = [requests EXCEPT ![t] = <<r>> \o @]
    /\ count' = [count EXCEPT ![t] = Len(requests[t]) + 1]
    /\ UNCHANGED active

OnClear(t) == requests' = [requests EXCEPT ![t] = <<>>] /\ UNCHANGED <<count, active>>

OnSlowStart(t, s) ==
    active' = [active EXCEPT ![t] = @ \cup {s}] /\ UNCHANGED <<requests, count>>

OnSlowEnd(t, s) ==
    active' = [active EXCEPT ![t] = @ \ {s}] /\ UNCHANGED <<requests, count>>

onmessage(t) ==
    /\ inited[t] /\ inbox[t] # <<>>
    /\ LET e == log[Head(inbox[t])] IN
          \/ e.type = "request"    /\ OnRequest(t, e.id)
          \/ e.type = "clear"      /\ OnClear(t)
          \/ e.type = "slow_start" /\ OnSlowStart(t, e.id)
          \/ e.type = "slow_end"   /\ OnSlowEnd(t, e.id)
    /\ inbox' = [inbox EXCEPT ![t] = Tail(@)]
    /\ seen' = [seen EXCEPT ![t] = Head(inbox[t])]
    /\ UNCHANGED <<server, link, held, inited, faults, log, missed, crossed, early>>

-----------------------------------------------------------------------------
(* onerror: what was on the way is lost; connect is called again later.    *)
Cut(T) ==
    /\ link'   = [t \in Tabs |-> IF t \in T THEN "closed" ELSE link[t]]
    /\ held'   = [t \in Tabs |-> IF t \in T THEN NoCopy ELSE held[t]]
    /\ inited' = [t \in Tabs |-> inited[t] /\ t \notin T]
    /\ inbox'  = [t \in Tabs |-> IF t \in T THEN <<>> ELSE inbox[t]]

Break(t) ==
    /\ link[t] # "closed" /\ faults < MaxFaults /\ faults' = faults + 1
    /\ Cut({t})
    /\ UNCHANGED <<server, tab, history>>

(* Nothing is persisted.  The handlers under way are gone.                 *)
Restart ==
    /\ faults < MaxFaults /\ faults' = faults + 1
    /\ entries' = <<>> /\ slows' = {}
    /\ phase' = [c \in Calls |-> IF phase[c] = "idle" THEN "idle" ELSE "done"]
    /\ Cut(Tabs)
    /\ UNCHANGED <<tab, history>>

Handle(c) == Announce(c) \/ (c \in Slows /\ EndSlow(c))

Follow(t) == connect(t) \/ WriteInit(t) \/ subscribe(t) \/ OnInit(t) \/ onmessage(t)

Next ==
    \/ \E r \in Reqs : Capture(r)
    \/ \E s \in Slows : StartSlow(s)
    \/ \E d \in Clears : Clear(d)
    \/ \E c \in Calls : Handle(c)
    \/ \E t \in Tabs : Follow(t) \/ Break(t)
    \/ Restart

(* A handler that runs goes on, the delay of /slow passes, and a dashboard *)
(* that is open connects, reads what is sent to it and connects again.     *)
Fairness == /\ \A c \in Calls : WF_vars(Handle(c))
            /\ \A t \in Tabs : WF_vars(Follow(t))

Spec == Init /\ [][Next]_vars /\ Fairness
-----------------------------------------------------------------------------
(* Nothing is between its change and its broadcast, and the tab has        *)
(* handled everything that was sent to it, and everything was sent to it.  *)
Settled(t) ==
    /\ \A c \in Calls : phase[c] \in {"idle", "waiting", "done"}
    /\ link[t] = "live" /\ inited[t] /\ inbox[t] = <<>> /\ ~missed[t]

(* A dashboard that missed no broadcast since its init shows every entry   *)
(* of the store, once all is quiet; except one that was added while a      *)
(* clear had emptied the store and was not broadcast yet: its broadcast    *)
(* then takes the entry off the screen.                                    *)
StoredAreShown ==
    \A t \in Tabs : Settled(t) => Items(entries) \subseteq Items(requests[t]) \cup crossed

(* It shows the calls of /slow that are running, and no others.            *)
SlowsAreShown == \A t \in Tabs : Settled(t) => active[t] = slows

(* A request is listed twice only if the copy that the tab began with held *)
(* it before it was broadcast.                                             *)
DoubledOnlyByInit ==
    \A t \in Tabs : inited[t] =>
        \A i, j \in DOMAIN requests[t] :
            i # j /\ requests[t][i] = requests[t][j] => requests[t][i] \in early[t]

(* The counter agrees with the list, unless the list was emptied: then it  *)
(* keeps the last number.                                                  *)
CountOfList == \A t \in Tabs : requests[t] # <<>> => count[t] = Len(requests[t])

(* Once connections hold, every dashboard is live, with nothing unread.    *)
TabsCatchUp == \A t \in Tabs : <>[](link[t] = "live" /\ inited[t] /\ inbox[t] = <<>>)

(* The dashboards follow one log of broadcasts: in its order, no event     *)
(* twice, and without a gap for those that missed nothing.                 *)
F == INSTANCE Feed WITH
        whole <- [t \in Tabs |-> inited[t] /\ ~missed[t]],
        shown <- [t \in Tabs |-> [requests |-> requests[t], active |-> active[t]]]

FollowsFeed == F!FeedSpec
=============================================================================
