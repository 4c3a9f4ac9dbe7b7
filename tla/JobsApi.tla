------------------------------ MODULE JobsApi -------------------------------
(***************************************************************************)
(* The handlers of cronpilot-api that write the table jobs or start runs   *)
(* (handler/jobs.go, handler/admin.go).  Whether the caller owns the job   *)
(* or is an administrator is not represented: any existing job may be      *)
(* changed by somebody.                                                    *)
(***************************************************************************)
EXTENDS Executor

CONSTANTS Api,         \* the process that serves the handlers
          MaxClock     \* bound: statements that stamp updated_at

ASSUME ApiAssumption == Api \in Procs
ASSUME MaxClockAssumption == MaxClock \in Nat

(* updated_at = NOW(), later than every earlier stamp.                     *)
Stamped(j, row) ==
    /\ clock < MaxClock
    /\ clock' = clock + 1
    /\ jobs' = [jobs EXCEPT ![j] = [row EXCEPT !.updatedAt = clock + 1]]
    /\ UNCHANGED <<execs, execVars>>

(* INSERT INTO jobs: status active; an administrator cannot give a policy, *)
(* the column's default is Allow.                                          *)
CreateJob(j) ==
    /\ jobs[j].status = "new"
    /\ \E policy \in Offered, valid \in BOOLEAN :
          Stamped(j, [jobs[j] EXCEPT !.status = "active", !.policy = policy,
                                     !.valid = valid])

AdminCreateJob(j) ==
    /\ jobs[j].status = "new"
    /\ \E valid \in BOOLEAN :
          Stamped(j, [jobs[j] EXCEPT !.status = "active", !.policy = "Allow",
                                     !.valid = valid])

(* A full-row UPDATE, in any status.                                       *)
UpdateJob(j) ==
    /\ Exists(j)
    /\ \E policy \in Offered, valid \in BOOLEAN :
          Stamped(j, [jobs[j] EXCEPT !.policy = policy, !.valid = valid])

(* The administrator's form has no policy: the column is left alone.       *)
AdminUpdateJob(j) ==
    /\ Exists(j)
    /\ \E valid \in BOOLEAN : Stamped(j, [jobs[j] EXCEPT !.valid = valid])

setJobStatus(j, newStatus, requiredStatus) ==
    /\ jobs[j].status = requiredStatus
    /\ Stamped(j, [jobs[j] EXCEPT !.status = newStatus])

(* Mutant: a status that no query knows.                                   *)
PauseJobMisspelt(j) == setJobStatus(j, "pause", "active")

PauseJob(j)  == setJobStatus(j, "paused", "active")
ResumeJob(j) == setJobStatus(j, "active", "paused")

(* DELETE FROM jobs, and its executions with it.                           *)
DeleteJob(j) ==
    /\ Exists(j)
    /\ jobs' = [jobs EXCEPT ![j].status = "deleted"]
    /\ execs' = [r \in Runs |-> IF runs[r].job = j THEN NoExec ELSE execs[r]]
    /\ UNCHANGED <<clock, execVars>>

(* TriggerJob reads the row first ...                                      *)
TriggerJob(r, j) ==
    /\ At(r, "idle") /\ Exists(j)
    /\ Captured(r, j, Api, jobs[j].policy, "fired")
    /\ UNCHANGED <<tableVars, faults>>

(* ... and then, for Replace, flags the running rows and starts the run.   *)
TriggerReplace(r) ==
    /\ At(r, "fired") /\ runs[r].proc = Api /\ runs[r].policy = "Replace"
    /\ \/ /\ execs' = CancelRequested(runs[r].job)
          /\ runs' = [runs EXCEPT ![r] = Spawned(r, Pending(runs[r].job))]
          /\ UNCHANGED faults
       \/ /\ Fault
          /\ runs' = [runs EXCEPT ![r] = Spawned(r, Runs)]
          /\ UNCHANGED execs
    /\ UNCHANGED <<jobs, clock>>

(* adminJobsQuery does not select concurrency_policy: the run just starts. *)
AdminTriggerJob(r, j) ==
    /\ At(r, "idle") /\ Exists(j)
    /\ Captured(r, j, Api, "Allow", "insert")
    /\ UNCHANGED <<tableVars, faults>>

ApiStep ==
    \/ \E j \in Jobs : \/ CreateJob(j) \/ AdminCreateJob(j)
                       \/ UpdateJob(j) \/ AdminUpdateJob(j)
                       \/ PauseJob(j) \/ ResumeJob(j) \/ DeleteJob(j)
    \/ \E r \in Runs, j \in Jobs : TriggerJob(r, j) \/ AdminTriggerJob(r, j)
    \/ \E r \in Runs : TriggerReplace(r)
=============================================================================
