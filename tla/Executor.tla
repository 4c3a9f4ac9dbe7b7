------------------------------ MODULE Executor ------------------------------
(***************************************************************************)
(* Package executor of the worker and of the API (the two copies differ    *)
(* only in RunWithContext): one goroutine run() per execution, which       *)
(* inserts a 'running' row, performs the HTTP request while a second       *)
(* goroutine polls cancel_requested, and writes the outcome.               *)
(*                                                                         *)
(* A dispatcher (a cron callback or the trigger handler) occupies the same *)
(* run id from the moment it captures the job, so that pc covers both the  *)
(* dispatch and the execution:                                             *)
(*    idle -> fired [-> locked] -> insert -> request                       *)
(*         -> response -> stamp -> done   or   -> error -> done            *)
(* and dead (its process is gone) from anywhere between idle and done.     *)
(***************************************************************************)
EXTENDS Tables

CONSTANTS Procs,       \* the operating system processes
          Unlimited,   \* jobs with a negative timeout_seconds: no client timeout
          MaxFaults    \* bound: statements and reads that fail

ASSUME JobsNonempty == Jobs # {}
ASSUME ProcsNonempty == Procs # {}
ASSUME UnlimitedAssumption == Unlimited \subseteq Jobs
ASSUME MaxFaultsAssumption == MaxFaults \in Nat

VARIABLES runs,        \* the goroutines
          faults       \* how many database calls have failed so far

execVars == <<runs, faults>>

PCs == {"idle", "fired", "locked", "insert", "request", "response", "stamp",
        "error", "done", "dead"}

(* cancelled: reqCtx or its parent is done.  unseen: history, the runs of  *)
(* the job whose row the policy check of this run could not see.           *)
RunState == [pc : PCs, job : Jobs, proc : Procs, policy : Policies,
             cancelled : BOOLEAN, unseen : SUBSET Runs]

ExecutorTypeOK == /\ runs \in [Runs -> RunState]
                  /\ faults \in Nat

ExecutorInit ==
    /\ runs \in [Runs -> {[pc |-> "idle", job |-> CHOOSE j \in Jobs : TRUE,
                           proc |-> CHOOSE p \in Procs : TRUE,
                           policy |-> "Allow", cancelled |-> FALSE,
                           unseen |-> {}]}]
    /\ faults = 0

At(r, label) == runs[r].pc = label
Fault == faults < MaxFaults /\ faults' = faults + 1

(* A dispatcher of process p captures job j: run id r is taken.            *)
Captured(r, j, p, policy, label) ==
    runs' = [runs EXCEPT ![r] = [@ EXCEPT !.pc = label, !.job = j, !.proc = p,
                                          !.policy = policy]]

(* Runs of j that are past their policy check and have not inserted yet.   *)
Pending(j) == {r \in Runs : At(r, "insert") /\ runs[r].job = j}

(* Mutant: count > 1 instead of count > 0.                                 *)
HasRunningTwo(j) == Cardinality({r \in Runs : Running(r) /\ runs[r].job = j}) > 1

(* HasRunning: the count of 'running' rows of the job.  A failed query     *)
(* leaves count 0.                                                         *)
HasRunning(j) == \E r \in Runs : Running(r) /\ runs[r].job = j

(* Mutant: the UPDATE flags the rows that are not running.                 *)
CancelRequestedEnded(j) ==
    [r \in Runs |-> IF execs[r].status = "ended" /\ runs[r].job = j
                    THEN [execs[r] EXCEPT !.cancelRequested = TRUE] ELSE execs[r]]

(* UPDATE executions SET cancel_requested=TRUE of the Replace branches.    *)
CancelRequested(j) ==
    [r \in Runs |-> IF Running(r) /\ runs[r].job = j
                    THEN [execs[r] EXCEPT !.cancelRequested = TRUE] ELSE execs[r]]

(* go run(...): the goroutine exists; its row does not.                    *)
Spawned(r, unseen) == [runs[r] EXCEPT !.pc = "insert", !.unseen = unseen]

(* The dispatcher or run() returns; reqCancel is deferred.                 *)
Returned(r) == [runs[r] EXCEPT !.pc = "done", !.cancelled = TRUE, !.unseen = {}]

(* The switch of a dispatcher for Forbid: check, then Run.  The failed     *)
(* check proceeds like an empty one.                                       *)
ForbidSkip(r) ==
    /\ At(r, "fired") /\ runs[r].policy = "Forbid" /\ HasRunning(runs[r].job)
    /\ runs' = [runs EXCEPT ![r] = Returned(r)]
    /\ UNCHANGED <<tableVars, faults>>

ForbidSpawn(r) ==
    /\ At(r, "fired") /\ runs[r].policy = "Forbid" /\ ~HasRunning(runs[r].job)
    /\ runs' = [runs EXCEPT ![r] = Spawned(r, Pending(runs[r].job))]
    /\ UNCHANGED <<tableVars, faults>>

ForbidBlind(r) ==
    /\ At(r, "fired") /\ runs[r].policy = "Forbid" /\ Fault
    /\ runs' = [runs EXCEPT ![r] = Spawned(r, Runs)]
    /\ UNCHANGED tableVars

AllowSpawn(r) ==
    /\ At(r, "fired") /\ runs[r].policy = "Allow"
    /\ runs' = [runs EXCEPT ![r] = Spawned(r, {})]
    /\ UNCHANGED <<tableVars, faults>>

(* run(): the INSERT.  It fails when the job is gone (foreign key), and    *)
(* when the connection breaks, before or after the row was committed.      *)
Insert(r) ==
    /\ At(r, "insert") /\ Exists(runs[r].job)
    /\ runs' = [runs EXCEPT ![r].pc = "request"]
    /\ execs' = [execs EXCEPT ![r] = [status |-> "running", cancelRequested |-> FALSE]]
    /\ UNCHANGED <<jobs, clock, faults>>

InsertRefused(r) ==
    /\ At(r, "insert") /\ ~Exists(runs[r].job)
    /\ runs' = [runs EXCEPT ![r] = Returned(r)]
    /\ UNCHANGED <<tableVars, faults>>

InsertFails(r) ==
    /\ At(r, "insert") /\ Exists(runs[r].job) /\ Fault
    /\ runs' = [runs EXCEPT ![r] = Returned(r)]
    /\ execs' \in {execs, [execs EXCEPT ![r] = [status |-> "running",
                                                cancelRequested |-> FALSE]]}
    /\ UNCHANGED <<jobs, clock>>

(* The watcher goroutine: a tick that reads cancel_requested = TRUE.  A    *)
(* failed or empty read waits for the next tick.                           *)
Watch(r) ==
    /\ At(r, "request") /\ Running(r) /\ execs[r].cancelRequested
    /\ ~runs[r].cancelled
    /\ runs' = [runs EXCEPT ![r].cancelled = TRUE]
    /\ UNCHANGED <<tableVars, faults>>

DoRequest(r, result) ==
    /\ At(r, "request")
    /\ runs' = [runs EXCEPT ![r].pc = result]
    /\ UNCHANGED <<tableVars, faults>>

(* doRequest returns.  The server answered or the connection failed (also  *)
(* after a cancellation, which then came too late or hit the body read,    *)
(* whose error is dropped); the client timed out; reqCtx was cancelled.    *)
Respond(r) == DoRequest(r, "response") \/ DoRequest(r, "error")
TimeOut(r) == runs[r].job \notin Unlimited /\ DoRequest(r, "error")

(* Mutant: the request is built with a context nobody cancels.             *)
AbortUnbound(r) == runs[r].cancelled /\ TimeOut(r)

Abort(r) == runs[r].cancelled /\ DoRequest(r, "error")

(* After the UPDATE of the row the error path returns.                     *)
Written(r) == runs' = [runs EXCEPT ![r] = IF At(r, "error") THEN Returned(r)
                                          ELSE [@ EXCEPT !.pc = "stamp"]]

(* Mutant: the error path returns before its UPDATE.                       *)
FinishResponseOnly(r) ==
    /\ runs[r].pc \in {"response", "error"}
    /\ Written(r)
    /\ execs' = [execs EXCEPT ![r].status = IF Running(r) /\ At(r, "response")
                                            THEN "ended" ELSE @]
    /\ UNCHANGED <<jobs, clock, faults>>

(* The UPDATE of the row, on either path.  It touches nothing when the row *)
(* was deleted with its job, and its failure is ignored.                   *)
Finish(r) ==
    /\ runs[r].pc \in {"response", "error"}
    /\ Written(r)
    /\ execs' = [execs EXCEPT ![r].status = IF Running(r) THEN "ended" ELSE @]
    /\ UNCHANGED <<jobs, clock, faults>>

FinishFails(r) ==
    /\ runs[r].pc \in {"response", "error"}
    /\ Fault
    /\ Written(r)
    /\ UNCHANGED tableVars

(* UPDATE jobs SET last_run_at, only after a response.                     *)
Stamp(r) ==
    /\ At(r, "stamp")
    /\ runs' = [runs EXCEPT ![r] = Returned(r)]
    /\ jobs' = [jobs EXCEPT ![runs[r].job].lastRun = IF Exists(runs[r].job) THEN r ELSE @]
    /\ UNCHANGED <<execs, clock, faults>>

StampFails(r) ==
    /\ At(r, "stamp") /\ Fault
    /\ runs' = [runs EXCEPT ![r] = Returned(r)]
    /\ UNCHANGED tableVars

ExecutorStep(r) ==
    \/ Insert(r) \/ InsertRefused(r) \/ InsertFails(r)
    \/ Watch(r) \/ Respond(r) \/ TimeOut(r) \/ Abort(r)
    \/ Finish(r) \/ FinishFails(r) \/ Stamp(r) \/ StampFails(r)

(* A process dies: its goroutines vanish, the rows they inserted stay.     *)
Vanish(p) ==
    runs' = [r \in Runs |-> IF runs[r].proc = p /\ runs[r].pc \notin {"idle", "done", "dead"}
                            THEN [runs[r] EXCEPT !.pc = "dead", !.cancelled = TRUE]
                            ELSE runs[r]]
=============================================================================
