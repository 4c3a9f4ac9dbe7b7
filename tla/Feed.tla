-------------------------------- MODULE Feed --------------------------------
(***************************************************************************)
(* What the live view of cron-webhook promises: one log of events, and     *)
(* tabs that follow it.  A tab begins with a copy of the server's state,   *)
(* taken at some point of the log, and from there on applies the events in *)
(* the order of the log, each at most once.  It may fall out of step; as   *)
(* long as it has not (whole), it leaves out none.                         *)
(***************************************************************************)
EXTENDS Naturals, Sequences

CONSTANTS Tabs, Reqs, Slows, Clears

VARIABLES log,    \* the events that were broadcast
          seen,   \* how far in the log each tab is
          whole,  \* the tab has missed nothing since its copy
          shown   \* what the tab shows

Events == [type : {"request"}, id : Reqs]
     \cup [type : {"slow_start", "slow_end"}, id : Slows]
     \cup [type : {"clear"}, id : Clears]

View == [requests : Seq(Reqs), active : SUBSET Slows]

(* What an event does to a view.                                           *)
After(v, e) ==
    CASE e.type = "request"    -> [v EXCEPT !.requests = <<e.id>> \o @]
      [] e.type = "clear"      -> [v EXCEPT !.requests = <<>>]
      [] e.type = "slow_start" -> [v EXCEPT !.active = @ \cup {e.id}]
      [] e.type = "slow_end"   -> [v EXCEPT !.active = @ \ {e.id}]

FeedInit ==
    /\ log = <<>>
    /\ seen = [t \in Tabs |-> 0] /\ whole = [t \in Tabs |-> FALSE]
    /\ shown = [t \in Tabs |-> [requests |-> <<>>, active |-> {}]]

(* Tabs fall out of step, or are out of step already.                      *)
Lags == \A t \in Tabs : whole'[t] \in BOOLEAN /\ (whole'[t] => whole[t])

Publish == /\ \E e \in Events : log' = Append(log, e)
           /\ Lags /\ UNCHANGED <<seen, shown>>

Lag == Lags /\ UNCHANGED <<log, seen, shown>>

Receive(t) ==
    /\ \E i \in seen[t] + 1 .. Len(log) :
          /\ whole[t] => i = seen[t] + 1
          /\ seen' = [seen EXCEPT ![t] = i]
          /\ shown' = [shown EXCEPT ![t] = After(@, log[i])]
    /\ UNCHANGED <<log, whole>>

Resync(t) ==
    /\ \E i \in seen[t] .. Len(log) : seen' = [seen EXCEPT ![t] = i]
    /\ \E b \in BOOLEAN : whole' = [whole EXCEPT ![t] = b]
    /\ shown' \in [Tabs -> View] /\ \A u \in Tabs \ {t} : shown'[u] = shown[u]
    /\ UNCHANGED log

FeedNext == Publish \/ Lag \/ \E t \in Tabs : Receive(t) \/ Resync(t)

FeedSpec == FeedInit /\ [][FeedNext]_<<log, seen, whole, shown>>
=============================================================================
