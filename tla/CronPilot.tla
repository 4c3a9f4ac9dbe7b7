----------------------------- MODULE CronPilot ------------------------------
(***************************************************************************)
(* CronPilot: the worker process (scheduler and executor) and the API      *)
(* process (job handlers and executor) over the tables they share, with    *)
(* crashes of either process.                                              *)
(***************************************************************************)
EXTENDS Scheduler, JobsApi

CONSTANT MaxCrashes    \* bound: process crashes

ASSUME MaxCrashesAssumption == MaxCrashes \in Nat
ASSUME ProcsAssumption == Api # Worker

VARIABLE crashes

vars == <<tableVars, execVars, schedVars, crashes>>

(* Every variable keeps its type in every component: in particular a row   *)
(* of jobs never gets a status that the queries of the worker do not know, *)
(* and no cancelFn, EntryID or snapshot row dangles outside its domain.    *)
TypeOK == TablesTypeOK /\ ExecutorTypeOK /\ SchedulerTypeOK /\ crashes \in Nat

Init == TablesInit /\ ExecutorInit /\ SchedulerInit /\ crashes = 0

(* The policies Allow and Forbid read the same in the cron callback and in *)
(* the trigger handler.                                                    *)
Dispatch(r) == ForbidSkip(r) \/ ForbidSpawn(r) \/ ForbidBlind(r) \/ AllowSpawn(r)

(* The worker stops: on a signal main returns at once, and nothing waits   *)
(* for a goroutine.  Its successor starts with an empty scheduler; the     *)
(* first sync of Start is the next SyncQuery.                              *)
WorkerCrash ==
    /\ crashes < MaxCrashes /\ crashes' = crashes + 1
    /\ Vanish(Worker)
    /\ entries' = [j \in Jobs |-> NoEntry]
    /\ cron' = {} /\ cronSeq' = 0 /\ mu' = Free
    /\ snap' = [j \in Jobs |-> NoRow] /\ syncPc' = Free
    /\ snapAt' = 0 /\ syncedAt' = 0
    /\ UNCHANGED <<tableVars, faults>>

ApiCrash ==
    /\ crashes < MaxCrashes /\ crashes' = crashes + 1
    /\ Vanish(Api)
    /\ UNCHANGED <<tableVars, faults, schedVars>>

Next ==
    \/ SchedulerStep /\ UNCHANGED crashes
    \/ ApiStep /\ UNCHANGED <<schedVars, crashes>>
    \/ \E r \in Runs : (Dispatch(r) \/ ExecutorStep(r)) /\ UNCHANGED <<schedVars, crashes>>
    \/ WorkerCrash \/ ApiCrash

Spec == Init /\ [][Next]_vars

(* What the Go runtime and the ticker guarantee: the sync goroutine, the   *)
(* goroutines of callbacks and runs, and the watcher keep going.  Nothing  *)
(* is assumed of the server that is called (Respond), of the users of the  *)
(* API, or of the cron library's choice of when to fire.                   *)
Fairness ==
    /\ WF_vars(SyncQuery /\ UNCHANGED crashes)
    /\ WF_vars(SyncReconcile /\ UNCHANGED crashes)
    /\ \A r \in Runs :
          /\ WF_vars((ReplaceLock(r) \/ ReplaceSwap(r)) /\ UNCHANGED crashes)
          /\ WF_vars(Watch(r) /\ UNCHANGED <<schedVars, crashes>>)
          /\ WF_vars((Abort(r) \/ TimeOut(r)) /\ UNCHANGED <<schedVars, crashes>>)

FairSpec == Spec /\ Fairness

-----------------------------------------------------------------------------
(* Safety                                                                  *)

InFlight(r) == runs[r].pc \in {"insert", "request", "response", "error", "stamp"}

(* Of the runs that the worker started for a Replace job at most one per   *)
(* job is not cancelled, and the entry of the job can still cancel it: no  *)
(* interleaving of callbacks, late callbacks of removed registrations and  *)
(* syncs loses a cancelFn.                                                 *)
ReplaceExclusive ==
    \A r \in Runs :
        (OfWorker(r) /\ runs[r].policy = "Replace" /\ InFlight(r) /\ ~runs[r].cancelled)
        => HasEntry(runs[r].job) /\ EntryOf(r).cancelFn = r

(* Every registration is the one its job's entry remembers, so that a job  *)
(* never fires twice per tick and every registration can still be removed; *)
(* and every entry that names a registration has it.                       *)
CronOwned ==
    /\ \A c \in cron : HasEntry(c.job) /\ entries[c.job].cronID = c.id
    /\ \A j \in Jobs : HasEntry(j) /\ entries[j].cronID # 0
                        => \E c \in cron : c.id = entries[j].cronID /\ c.job = j

(* A change of a job that a completed sync has seen is missing from the    *)
(* schedule only if it was committed between the read and the time.Now()   *)
(* of the sync that registered the job.  A pause is never missed.          *)
MissedOnlyByRace ==
    \A c \in cron :
        LET row == jobs[c.job]
            e   == entries[c.job]
        IN  /\ (row.status = "paused") => row.updatedAt > syncedAt
            /\ (row.status = "active" /\ c.ver # row.updatedAt)
               => \/ row.updatedAt > syncedAt
                  \/ e.seenAt < row.updatedAt /\ row.updatedAt <= e.scheduledAt

(* Two runs of a job execute side by side against its policy only if one   *)
(* made its policy check while the other had passed its own and had not    *)
(* inserted its row, or if a check failed.                                 *)
Overlap(r, s) == /\ r # s /\ runs[r].job = runs[s].job
                 /\ InFlight(r) /\ Running(r) /\ InFlight(s) /\ Running(s)

OverlapOnlyByRace ==
    \A r, s \in Runs :
        /\ Overlap(r, s)
        /\ runs[r].policy = runs[s].policy
        /\ \/ runs[r].policy = "Forbid"
           \/ runs[r].policy = "Replace"
              /\ ~execs[r].cancelRequested /\ ~execs[s].cancelRequested
        => r \in runs[s].unseen \/ s \in runs[r].unseen

(* A row says 'running' while nothing runs only because a process died or  *)
(* a statement failed, and each failed statement strands one row at most.  *)
StrandedByFaults ==
    Cardinality({r \in Runs : Running(r) /\ runs[r].pc \in {"stamp", "done"}}) <= faults

-----------------------------------------------------------------------------
(* Liveness                                                                *)

Registered(j) == \E c \in cron : c.job = j

(* A run whose cancellation was requested through the table stops even if  *)
(* the server never answers and the job has no timeout, unless its row is  *)
(* deleted with the job before the watcher has read it.                    *)
CancelTakesEffect ==
    \A r \in Runs : (At(r, "request") /\ execs[r].cancelRequested)
                     ~> (~At(r, "request") \/ execs[r] = NoExec)

(* A job that is paused or deleted, and stays so, is unscheduled.          *)
PauseTakesEffect ==
    \A j \in Jobs : (jobs[j].status \in {"paused", "deleted"})
                     ~> (~Registered(j) \/ jobs[j].status = "active")

(* ... and its in-flight Replace run is cancelled, also when a late        *)
(* callback started it after the job was unscheduled.                      *)
PauseCancelsReplace ==
    \A r \in Runs :
        (At(r, "request") /\ OfWorker(r) /\ runs[r].policy = "Replace"
            /\ jobs[runs[r].job].status # "active")
        ~> (runs[r].cancelled \/ ~At(r, "request") \/ jobs[runs[r].job].status = "active")

(* An active job with a valid expression gets scheduled, whatever ghost    *)
(* entries late callbacks, failed reads and restarts leave behind.         *)
Schedulable(j) == jobs[j].status = "active" /\ jobs[j].valid

ActiveGetsScheduled ==
    \A j \in Jobs : Schedulable(j) ~> (Registered(j) \/ ~Schedulable(j))

-----------------------------------------------------------------------------
(* What the repository says and the code does not do                       *)

(* scheduler.go, field scheduledAt: "tracks job.updated_at so we can       *)
(* detect changes": a registration of an old version looks old.            *)
ChangesDetectable ==
    \A c \in cron :
        jobs[c.job].status = "active" /\ c.ver # jobs[c.job].updatedAt
        => entries[c.job].scheduledAt < jobs[c.job].updatedAt

(* JobForm.jsx, Forbid: "Skip new run if the previous one hasn't finished  *)
(* yet": a scheduled and a manual run never execute side by side.          *)
ForbidNoOverlap ==
    \A r, s \in Runs : Overlap(r, s) /\ OfWorker(r) /\ ~OfWorker(s)
                        => ~(runs[r].policy = "Forbid" /\ runs[s].policy = "Forbid")

(* The same sentence the other way round: a new run is skipped only when   *)
(* there is a previous one that has not finished.                          *)
SkipOnlyForLiveRun ==
    [][\A r \in Runs : (At(r, "fired") /\ At(r, "done")')
          => \E s \in Runs : InFlight(s) /\ runs[s].job = runs[r].job]_vars
=============================================================================
