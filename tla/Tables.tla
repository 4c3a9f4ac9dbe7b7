------------------------------- MODULE Tables -------------------------------
(***************************************************************************)
(* The two PostgreSQL tables through which the CronPilot API and worker    *)
(* processes interact, jobs and executions (db/schema.sql), and the SQL    *)
(* statements on them that more than one component issues.  A statement is *)
(* one atomic step of the database.                                        *)
(***************************************************************************)
EXTENDS Naturals, FiniteSets

CONSTANTS Jobs,        \* the UUIDs that jobs.id may take
          Runs,        \* the UUIDs of executions.id, one per call of run()
          NoRun,       \* "no run": a nil cancelFn, a NULL last_run_at
          Offered      \* the values of concurrency_policy that clients send

(* The values of concurrency_policy that the code tells apart: any other   *)
(* string takes the "Allow" branch.                                        *)
Policies == {"Allow", "Forbid", "Replace"}

ASSUME OfferedAssumption == Offered \subseteq Policies
ASSUME JobsFinite == IsFiniteSet(Jobs)
ASSUME RunsFinite == IsFiniteSet(Runs)
ASSUME NoRunAssumption == NoRun \notin Runs

VARIABLES jobs,        \* table jobs
          execs,       \* table executions
          clock        \* NOW() of the last statement that stamped updated_at

tableVars == <<jobs, execs, clock>>

(* A row of jobs.  status is "new" until the UUID is used and "deleted"    *)
(* after the row is gone: a UUID is never reused.  valid tells whether the *)
(* cron library can parse CRON_TZ, timezone and cron_expression together.  *)
JobRow == [status : {"new", "active", "paused", "deleted"}, policy : Policies,
           valid : BOOLEAN, updatedAt : Nat, lastRun : Runs \cup {NoRun}]

(* A row of executions; status "none" means that there is no such row, and *)
(* "ended" stands for success and failure, which nothing here tells apart. *)
ExecRow == [status : {"none", "running", "ended"},
            cancelRequested : BOOLEAN]

NoExec == [status |-> "none", cancelRequested |-> FALSE]

TablesTypeOK == /\ jobs \in [Jobs -> JobRow]
                /\ execs \in [Runs -> ExecRow]
                /\ clock \in Nat

Unborn == [status |-> "new", policy |-> "Allow", valid |-> TRUE,
           updatedAt |-> 0, lastRun |-> NoRun]

(* The tables outlive the processes: jobs may exist when the worker starts.*)
TablesInit ==
    /\ jobs \in [Jobs -> {Unborn} \cup
          {[Unborn EXCEPT !.status = "active", !.policy = policy, !.updatedAt = 1] :
              policy \in Offered}]
    /\ execs = [r \in Runs |-> NoExec]
    /\ clock = 1

Exists(j)  == jobs[j].status \in {"active", "paused"}
Running(r) == execs[r].status = "running"
=============================================================================
