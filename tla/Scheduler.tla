----------------------------- MODULE Scheduler ------------------------------
(***************************************************************************)
(* Package scheduler of cronpilot-worker: the cron registrations, the map  *)
(* entries guarded by the mutex mu, the sync that reconciles them with the *)
(* table jobs, and the callbacks that enforce the concurrency policy.      *)
(***************************************************************************)
EXTENDS Executor

CONSTANTS Worker,      \* the process of this scheduler
          NoEntry, NoRow, Free, Syncing

ASSUME WorkerAssumption == Worker \in Procs
ASSUME MarkersAssumption ==
    /\ Free \notin Runs /\ Syncing \notin Runs /\ Free # Syncing

VARIABLES entries,     \* s.entries
          cron,        \* the registrations held by s.c, as a set
          cronSeq,     \* the last EntryID that s.c handed out
          mu,          \* holder of s.mu: Free or a Replace callback
          snap,        \* jobs, the local variable of sync; NoRow if not in it
          syncPc,      \* Free between syncs, Syncing between Query and Lock
          snapAt,      \* history: NOW() when the rows in snap were read
          syncedAt     \* history: the same for the last sync that completed

syncVars  == <<snap, syncPc, snapAt, syncedAt>>
schedVars == <<entries, cron, cronSeq, mu, syncVars>>

(* seenAt is history: when the row behind this entry was read.             *)
Entry == [cronID : Nat, scheduledAt : Nat, cancelFn : Runs \cup {NoRun},
          seenAt : Nat]

(* One AddFunc: its EntryID, the job captured by the closure and the       *)
(* updated_at of the row it was read from.                                 *)
Registration == [id : Nat \ {0}, job : Jobs, policy : Policies, ver : Nat]

Snapshot == [policy : Policies, valid : BOOLEAN, ver : Nat]

ASSUME NothingAssumption == NoEntry \notin Entry /\ NoRow \notin Snapshot

SchedulerTypeOK ==
    /\ entries \in [Jobs -> Entry \cup {NoEntry}]
    /\ cron \subseteq Registration
    /\ cronSeq \in Nat
    /\ mu \in Runs \cup {Free}
    /\ snap \in [Jobs -> Snapshot \cup {NoRow}]
    /\ syncPc \in {Free, Syncing}
    /\ snapAt \in Nat /\ syncedAt \in Nat

SchedulerInit ==
    /\ entries = [j \in Jobs |-> NoEntry]
    /\ cron = {}
    /\ cronSeq = 0
    /\ mu = Free
    /\ snap = [j \in Jobs |-> NoRow]
    /\ syncPc = Free
    /\ snapAt = 0 /\ syncedAt = 0

(* context.CancelFunc of the run s that a cancelFn belongs to.             *)
Cancelled(S) == [r \in Runs |-> IF r \in S THEN [runs[r] EXCEPT !.cancelled = TRUE]
                                ELSE runs[r]]

HasEntry(j) == entries[j] # NoEntry

-----------------------------------------------------------------------------
(* sync                                                                    *)

Row(j) == [policy |-> jobs[j].policy, valid |-> jobs[j].valid,
           ver |-> jobs[j].updatedAt]

(* Mutant: the query forgets WHERE status = 'active'.                      *)
ActiveOrPaused == {j \in Jobs : Exists(j)}

Active == {j \in Jobs : jobs[j].status = "active"}

(* The query of the active jobs and its scan, which hold no lock.  A query *)
(* that fails ends the sync without any effect.                            *)
SyncQuery ==
    /\ syncPc = Free
    /\ syncPc' = Syncing /\ snapAt' = clock
    /\ snap' = [j \in Jobs |-> IF j \in Active THEN Row(j) ELSE NoRow]
    /\ UNCHANGED <<entries, cron, cronSeq, mu, syncedAt, tableVars, execVars>>

(* A row that fails to scan, or a connection lost between rows, leaves the *)
(* list short: rows.Err is not consulted.                                  *)
SyncQueryTruncated ==
    /\ syncPc = Free /\ Fault
    /\ syncPc' = Syncing /\ snapAt' = clock
    /\ \E part \in SUBSET Active \ {Active} :
          snap' = [j \in Jobs |-> IF j \in part THEN Row(j) ELSE NoRow]
    /\ UNCHANGED <<entries, cron, cronSeq, mu, syncedAt, tableVars, runs>>

Listed(j) == snap[j] # NoRow

(* Mutant: any scheduled job counts as up to date.                         *)
UpToDateIfScheduled(j) == HasEntry(j)

(* if scheduled && !existing.scheduledAt.Before(j.updatedAt) { continue }  *)
UpToDate(j) == HasEntry(j) /\ ~(entries[j].scheduledAt < snap[j].ver)

(* Mutants: the stale entry is not removed before rescheduling; the entry  *)
(* that is no longer active is not removed.                                *)
DroppedUnlistedOnly == {j \in Jobs : HasEntry(j) /\ ~Listed(j)}
DroppedStaleOnly    == {j \in Jobs : HasEntry(j) /\ Listed(j) /\ ~UpToDate(j)}

Dropped == {j \in Jobs : HasEntry(j) /\ ~(Listed(j) /\ UpToDate(j))}
Added   == {j \in Jobs : Listed(j) /\ ~UpToDate(j) /\ snap[j].valid}

(* EntryIDs in the unspecified order of the rows.                          *)
FreshIDs == {f \in [Added -> (cronSeq + 1)..(cronSeq + Cardinality(Added))] :
                \A i, j \in Added : f[i] = f[j] => i = j}

(* The rest of sync, under the lock: unschedule what is not listed, cancel *)
(* and remove what changed, register what is new or changed.  AddFunc      *)
(* refuses an expression it cannot parse, and the entry stays removed.     *)
SyncReconcile ==
    /\ syncPc = Syncing /\ mu = Free
    /\ syncPc' = Free /\ snapAt' = 0 /\ syncedAt' = snapAt
    /\ snap' = [j \in Jobs |-> NoRow]
    /\ runs' = Cancelled({entries[j].cancelFn : j \in Dropped})
    /\ \E newID \in FreshIDs :
          /\ cron' = {c \in cron : \A j \in Dropped : c.id # entries[j].cronID}
                     \cup {[id |-> newID[j], job |-> j, policy |-> snap[j].policy,
                            ver |-> snap[j].ver] : j \in Added}
          /\ entries' = [j \in Jobs |->
                IF j \in Added THEN [cronID |-> newID[j], scheduledAt |-> clock,
                                     cancelFn |-> NoRun, seenAt |-> snapAt]
                ELSE IF j \in Dropped THEN NoEntry ELSE entries[j]]
    /\ cronSeq' = cronSeq + Cardinality(Added)
    /\ UNCHANGED <<mu, tableVars, faults>>

-----------------------------------------------------------------------------
(* The callbacks made by makeRunner                                        *)

(* The cron loop starts a registered callback in a goroutine of its own,   *)
(* which may run long after the registration was removed.                  *)
Fire(r) ==
    /\ At(r, "idle")
    /\ \E c \in cron : Captured(r, c.job, Worker, c.policy, "fired")
    /\ UNCHANGED <<schedVars, tableVars, faults>>

OfWorker(r) == runs[r].proc = Worker
EntryOf(r)  == entries[runs[r].job]

(* Mutants: the callback works on the map without the lock; it does not    *)
(* cancel the run it finds.                                                *)
ReplaceUnlocked(r) ==
    /\ At(r, "fired") /\ OfWorker(r) /\ runs[r].policy = "Replace"
    /\ LET held == IF HasEntry(runs[r].job) THEN {EntryOf(r).cancelFn} ELSE {}
       IN  runs' = [Cancelled(held) EXCEPT ![r].pc = "locked"]
    /\ UNCHANGED <<entries, cron, cronSeq, mu, syncVars, tableVars, faults>>

ReplaceKeepsOld(r) ==
    /\ At(r, "fired") /\ OfWorker(r) /\ runs[r].policy = "Replace" /\ mu = Free
    /\ mu' = r
    /\ runs' = [runs EXCEPT ![r].pc = "locked"]
    /\ UNCHANGED <<entries, cron, cronSeq, syncVars, tableVars, faults>>

(* Replace: take the lock and cancel the run held by the entry, if any.    *)
ReplaceLock(r) ==
    /\ At(r, "fired") /\ OfWorker(r) /\ runs[r].policy = "Replace" /\ mu = Free
    /\ mu' = r
    /\ LET held == IF HasEntry(runs[r].job) THEN {EntryOf(r).cancelFn} ELSE {}
       IN  runs' = [Cancelled(held) EXCEPT ![r].pc = "locked"]
    /\ UNCHANGED <<entries, cron, cronSeq, syncVars, tableVars, faults>>

(* Mutants: a new entry instead of the one that was read; no entry when    *)
(* none was read.                                                          *)
HeldZero(r) == [cronID |-> 0, scheduledAt |-> 0, cancelFn |-> r, seenAt |-> 0]
HeldIfScheduled(r) == IF HasEntry(runs[r].job)
                      THEN [EntryOf(r) EXCEPT !.cancelFn = r] ELSE NoEntry

(* Still locked: flag the running rows of every process, put the new       *)
(* cancel function into the entry, unlock and start the run.  Without an   *)
(* entry the zero value is stored: EntryID 0 and the zero time.            *)
Held(r) == IF HasEntry(runs[r].job)
           THEN [EntryOf(r) EXCEPT !.cancelFn = r]
           ELSE [cronID |-> 0, scheduledAt |-> 0, cancelFn |-> r, seenAt |-> 0]

ReplaceSwap(r) ==
    /\ At(r, "locked")
    /\ mu' = Free
    /\ entries' = [entries EXCEPT ![runs[r].job] = Held(r)]
    /\ \/ /\ execs' = CancelRequested(runs[r].job)
          /\ runs' = [runs EXCEPT ![r] = Spawned(r, Pending(runs[r].job))]
          /\ UNCHANGED faults
       \/ /\ Fault
          /\ runs' = [runs EXCEPT ![r] = Spawned(r, Runs)]
          /\ UNCHANGED execs
    /\ UNCHANGED <<cron, cronSeq, syncVars, jobs, clock>>

SchedulerStep ==
    \/ SyncQuery \/ SyncQueryTruncated \/ SyncReconcile
    \/ \E r \in Runs : Fire(r) \/ ReplaceLock(r) \/ ReplaceSwap(r)
=============================================================================
