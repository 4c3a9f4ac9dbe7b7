-------------------------- MODULE CronPilot_proof ---------------------------
(***************************************************************************)
(* Proofs about CronPilot, for every set of jobs and runs and every bound. *)
(***************************************************************************)
EXTENDS CronPilot, FiniteSetTheorems, TLAPS

-----------------------------------------------------------------------------
(* Type correctness                                                        *)

(* Assigning fields of a row or of a run keeps its type.                   *)
LEMMA RunUpdates ==
  ASSUME NEW s \in RunState
  PROVE  /\ [s EXCEPT !.cancelled = TRUE] \in RunState
         /\ \A label \in PCs :
              /\ [s EXCEPT !.pc = label] \in RunState
              /\ [s EXCEPT !.pc = label, !.cancelled = TRUE] \in RunState
              /\ [s EXCEPT !.pc = label, !.cancelled = TRUE, !.unseen = {}] \in RunState
              /\ \A unseen \in SUBSET Runs :
                    [s EXCEPT !.pc = label, !.unseen = unseen] \in RunState
              /\ \A j \in Jobs, p \in Procs, policy \in Policies :
                    [s EXCEPT !.pc = label, !.job = j, !.proc = p,
                              !.policy = policy] \in RunState
<1>1. [s EXCEPT !.cancelled = TRUE] \in RunState
  BY DEF RunState
<1>2. ASSUME NEW label \in PCs
      PROVE  /\ [s EXCEPT !.pc = label] \in RunState
             /\ [s EXCEPT !.pc = label, !.cancelled = TRUE] \in RunState
             /\ [s EXCEPT !.pc = label, !.cancelled = TRUE, !.unseen = {}] \in RunState
  BY DEF RunState
<1>3. ASSUME NEW label \in PCs, NEW unseen \in SUBSET Runs
      PROVE  [s EXCEPT !.pc = label, !.unseen = unseen] \in RunState
  BY DEF RunState
<1>4. ASSUME NEW label \in PCs, NEW j \in Jobs, NEW p \in Procs, NEW policy \in Policies
      PROVE  [s EXCEPT !.pc = label, !.job = j, !.proc = p, !.policy = policy] \in RunState
  BY DEF RunState
<1> QED BY <1>1, <1>2, <1>3, <1>4

LEMMA ExecUpdates ==
  ASSUME NEW s \in ExecRow
  PROVE  /\ [s EXCEPT !.cancelRequested = TRUE] \in ExecRow
         /\ [s EXCEPT !.status = "ended"] \in ExecRow
         /\ [s EXCEPT !.status = s.status] \in ExecRow
  BY DEF ExecRow

LEMMA ExecRows == NoExec \in ExecRow
                  /\ [status |-> "running", cancelRequested |-> FALSE] \in ExecRow
  BY DEF NoExec, ExecRow

LEMMA JobUpdates ==
  ASSUME NEW s \in JobRow
  PROVE  /\ \A status \in {"active", "paused", "deleted"} :
              [s EXCEPT !.status = status] \in JobRow
         /\ \A n \in Nat : [s EXCEPT !.updatedAt = n] \in JobRow
         /\ \A r \in Runs : [s EXCEPT !.lastRun = r] \in JobRow
         /\ [s EXCEPT !.lastRun = s.lastRun] \in JobRow
         /\ \A valid \in BOOLEAN : [s EXCEPT !.valid = valid] \in JobRow
         /\ \A policy \in Policies, valid \in BOOLEAN :
              /\ [s EXCEPT !.policy = policy, !.valid = valid] \in JobRow
              /\ [s EXCEPT !.status = "active", !.policy = policy, !.valid = valid] \in JobRow
  BY DEF JobRow

LEMMA InitTyped == Init => TypeOK
<1> SUFFICES ASSUME Init PROVE TypeOK
  OBVIOUS
<1> USE DEF Init
<1>1. Unborn \in JobRow
  BY NoRunAssumption DEF Unborn, JobRow, Policies
<1>2. \A policy \in Offered :
        [Unborn EXCEPT !.status = "active", !.policy = policy, !.updatedAt = 1] \in JobRow
  BY OfferedAssumption DEF Unborn, JobRow, Policies
<1>3. TablesTypeOK
  <2>1. jobs \in [Jobs -> JobRow]
    <3> DEFINE rows == {Unborn} \cup
                 {[Unborn EXCEPT !.status = "active", !.policy = policy, !.updatedAt = 1] :
                     policy \in Offered}
    <3>1. rows \subseteq JobRow
      BY <1>1, <1>2
    <3>2. jobs \in [Jobs -> rows]
      BY DEF TablesInit
    <3> HIDE DEF rows
    <3> QED BY <3>1, <3>2
  <2>2. execs \in [Runs -> ExecRow] /\ clock \in Nat
    BY ExecRows DEF TablesInit
  <2> QED BY <2>1, <2>2 DEF TablesTypeOK
<1>4. ExecutorTypeOK
  <2> DEFINE first == [pc |-> "idle", job |-> CHOOSE j \in Jobs : TRUE,
                       proc |-> CHOOSE p \in Procs : TRUE, policy |-> "Allow",
                       cancelled |-> FALSE, unseen |-> {}]
  <2>1. (CHOOSE j \in Jobs : TRUE) \in Jobs /\ (CHOOSE p \in Procs : TRUE) \in Procs
    BY JobsNonempty, ProcsNonempty
  <2>2. first \in RunState
    BY <2>1 DEF RunState, PCs, Policies
  <2>3. runs \in [Runs -> {first}] /\ faults = 0
    BY DEF ExecutorInit
  <2> HIDE DEF first
  <2> QED BY <2>2, <2>3 DEF ExecutorTypeOK
<1>5. SchedulerTypeOK
  BY DEF SchedulerInit, SchedulerTypeOK
<1> QED BY <1>3, <1>4, <1>5 DEF TypeOK

LEMMA FaultTyped == faults \in Nat /\ Fault => faults' \in Nat
  BY DEF Fault

(* The goroutine of a run.                                                 *)
LEMMA ExecutorTyped ==
  ASSUME TablesTypeOK, ExecutorTypeOK, NEW r \in Runs, ExecutorStep(r)
  PROVE  TablesTypeOK' /\ ExecutorTypeOK'
<1> USE DEF TablesTypeOK, ExecutorTypeOK, tableVars
<1>0. /\ runs[r] \in RunState /\ execs[r] \in ExecRow
      /\ {"request", "response", "error", "stamp", "done"} \subseteq PCs
  BY DEF PCs
<1>1. CASE Insert(r)
  <2>1. [runs[r] EXCEPT !.pc = "request"] \in RunState
    BY <1>0, RunUpdates
  <2>2. execs' \in [Runs -> ExecRow]
    BY <1>1, ExecRows DEF Insert
  <2> QED BY <1>1, <2>1, <2>2 DEF Insert
<1>2. CASE InsertRefused(r)
  BY <1>0, <1>2, RunUpdates DEF InsertRefused, Returned
<1>3. CASE InsertFails(r)
  <2>1. Returned(r) \in RunState
    BY <1>0, RunUpdates DEF Returned
  <2>2. execs' \in [Runs -> ExecRow]
    BY <1>3, ExecRows DEF InsertFails
  <2> QED BY <1>3, <2>1, <2>2, FaultTyped DEF InsertFails
<1>4. CASE Watch(r)
  BY <1>0, <1>4, RunUpdates DEF Watch
<1>5. CASE Respond(r) \/ TimeOut(r) \/ Abort(r)
  <2>1. ASSUME NEW label \in {"response", "error"}, DoRequest(r, label)
        PROVE  TablesTypeOK' /\ ExecutorTypeOK'
    BY <1>0, <2>1, RunUpdates DEF DoRequest
  <2> QED BY <1>5, <2>1 DEF Respond, TimeOut, Abort
<1>6. ASSUME Written(r)
      PROVE  runs' \in [Runs -> RunState]
  BY <1>0, <1>6, RunUpdates DEF Written, Returned
<1>7. CASE Finish(r)
  BY <1>0, <1>6, <1>7, ExecUpdates DEF Finish
<1>8. CASE FinishFails(r)
  BY <1>6, <1>8, FaultTyped DEF FinishFails
<1>9. CASE Stamp(r)
  <2>1. runs[r].job \in Jobs
    BY <1>0 DEF RunState
  <2>2. jobs' \in [Jobs -> JobRow]
    BY <2>1, <1>9, JobUpdates DEF Stamp
  <2> QED BY <1>0, <2>2, <1>9, RunUpdates DEF Stamp, Returned
<1>10. CASE StampFails(r)
  BY <1>0, <1>10, RunUpdates, FaultTyped DEF StampFails, Returned
<1> QED BY <1>1, <1>2, <1>3, <1>4, <1>5, <1>7, <1>8, <1>9, <1>10 DEF ExecutorStep

LEMMA DispatchTyped ==
  ASSUME TablesTypeOK, ExecutorTypeOK, NEW r \in Runs, Dispatch(r)
  PROVE  TablesTypeOK' /\ ExecutorTypeOK'
<1> USE DEF TablesTypeOK, ExecutorTypeOK, tableVars
<1>0. /\ runs[r] \in RunState /\ "insert" \in PCs /\ "done" \in PCs
      /\ \A j \in Jobs : Pending(j) \subseteq Runs
  BY DEF PCs, Pending
<1>1. CASE ForbidSkip(r)
  BY <1>0, <1>1, RunUpdates DEF ForbidSkip, Returned
<1>2. CASE ForbidSpawn(r)
  <2>1. Pending(runs[r].job) \in SUBSET Runs
    BY <1>0 DEF RunState
  <2> QED BY <1>0, <1>2, <2>1, RunUpdates DEF ForbidSpawn, Spawned
<1>3. CASE ForbidBlind(r)
  BY <1>0, <1>3, RunUpdates, FaultTyped DEF ForbidBlind, Spawned
<1>4. CASE AllowSpawn(r)
  BY <1>0, <1>4, RunUpdates DEF AllowSpawn, Spawned
<1> QED BY <1>1, <1>2, <1>3, <1>4 DEF Dispatch

(* Flagging the running rows of a job and spawning a run, in both          *)
(* dispatchers of Replace.                                                 *)
LEMMA ReplaceTyped ==
  ASSUME TablesTypeOK, ExecutorTypeOK, NEW r \in Runs
  PROVE  /\ CancelRequested(runs[r].job) \in [Runs -> ExecRow]
         /\ [runs EXCEPT ![r] = Spawned(r, Pending(runs[r].job))] \in [Runs -> RunState]
         /\ [runs EXCEPT ![r] = Spawned(r, Runs)] \in [Runs -> RunState]
<1> USE DEF TablesTypeOK, ExecutorTypeOK
<1>1. CancelRequested(runs[r].job) \in [Runs -> ExecRow]
  BY ExecUpdates DEF CancelRequested
<1>2. \A unseen \in SUBSET Runs : Spawned(r, unseen) \in RunState
  BY RunUpdates DEF Spawned, PCs
<1>3. Pending(runs[r].job) \in SUBSET Runs
  BY DEF Pending
<1> QED BY <1>1, <1>2, <1>3

(* The handlers of the API.                                                *)
LEMMA ApiTyped ==
  ASSUME TablesTypeOK, ExecutorTypeOK, ApiStep
  PROVE  TablesTypeOK' /\ ExecutorTypeOK'
<1> USE DEF TablesTypeOK, ExecutorTypeOK, tableVars, execVars
<1>1. ASSUME NEW j \in Jobs, NEW row \in JobRow, Stamped(j, row)
      PROVE  TablesTypeOK' /\ ExecutorTypeOK'
  <2>1. clock + 1 \in Nat
    OBVIOUS
  <2>2. [row EXCEPT !.updatedAt = clock + 1] \in JobRow
    BY <2>1, JobUpdates
  <2> QED BY <1>1, <2>1, <2>2 DEF Stamped
<1>2. ASSUME NEW j \in Jobs,
             CreateJob(j) \/ AdminCreateJob(j) \/ UpdateJob(j) \/ AdminUpdateJob(j)
      PROVE  TablesTypeOK' /\ ExecutorTypeOK'
  <2>1. "Allow" \in Policies /\ \A policy \in Offered : policy \in Policies
    BY OfferedAssumption DEF Policies
  <2> QED BY <1>1, <1>2, <2>1, JobUpdates
          DEF CreateJob, AdminCreateJob, UpdateJob, AdminUpdateJob
<1>3. ASSUME NEW j \in Jobs, PauseJob(j) \/ ResumeJob(j)
      PROVE  TablesTypeOK' /\ ExecutorTypeOK'
  BY <1>1, <1>3, JobUpdates DEF PauseJob, ResumeJob, setJobStatus
<1>4. ASSUME NEW j \in Jobs, DeleteJob(j)
      PROVE  TablesTypeOK' /\ ExecutorTypeOK'
  BY <1>4, JobUpdates, ExecRows DEF DeleteJob
<1>5. ASSUME NEW r \in Runs, NEW j \in Jobs, TriggerJob(r, j) \/ AdminTriggerJob(r, j)
      PROVE  TablesTypeOK' /\ ExecutorTypeOK'
  <2>1. /\ jobs[j].policy \in Policies /\ "Allow" \in Policies
        /\ "fired" \in PCs /\ "insert" \in PCs
    BY DEF JobRow, Policies, PCs
  <2>2. ASSUME NEW policy \in Policies, NEW label \in PCs,
               Captured(r, j, Api, policy, label)
        PROVE  runs' \in [Runs -> RunState]
    BY <2>2, ApiAssumption, RunUpdates DEF Captured
  <2> QED BY <1>5, <2>1, <2>2 DEF TriggerJob, AdminTriggerJob
<1>6. ASSUME NEW r \in Runs, TriggerReplace(r)
      PROVE  TablesTypeOK' /\ ExecutorTypeOK'
  BY <1>6, ReplaceTyped, FaultTyped DEF TriggerReplace
<1> QED BY <1>2, <1>3, <1>4, <1>5, <1>6 DEF ApiStep

LEMMA CancelledTyped ==
  ASSUME ExecutorTypeOK, NEW S
  PROVE  Cancelled(S) \in [Runs -> RunState]
  BY RunUpdates DEF ExecutorTypeOK, Cancelled

LEMMA AddedFinite ==
  ASSUME cronSeq \in Nat
  PROVE  Cardinality(Added) \in Nat /\ cronSeq + Cardinality(Added) \in Nat
<1>1. IsFiniteSet(Added)
  BY JobsFinite, FS_Subset DEF Added
<1>2. Cardinality(Added) \in Nat
  BY <1>1, FS_CardinalityType
<1> QED BY <1>2

(* A new EntryID is one that the cron instance has not handed out before.  *)
LEMMA FreshIDsAreFresh ==
  ASSUME cronSeq \in Nat, NEW newID \in FreshIDs, NEW j \in Added
  PROVE  /\ newID[j] \in Nat \ {0}
         /\ newID[j] > cronSeq
         /\ newID[j] <= cronSeq + Cardinality(Added)
         /\ \A i \in Added : newID[i] = newID[j] => i = j
<1>1. newID[j] \in (cronSeq + 1)..(cronSeq + Cardinality(Added))
  BY DEF FreshIDs
<1>2. \A i \in Added : newID[i] = newID[j] => i = j
  BY DEF FreshIDs
<1> HIDE DEF FreshIDs, Added
<1> QED BY <1>1, <1>2, AddedFinite

LEMMA SchedulerTyped ==
  ASSUME TypeOK, SchedulerStep
  PROVE  TablesTypeOK' /\ ExecutorTypeOK' /\ SchedulerTypeOK'
<1> USE DEF TypeOK, SchedulerTypeOK
<1> DEFINE Data == TablesTypeOK /\ ExecutorTypeOK
<1>1. ASSUME UNCHANGED <<tableVars, runs>>, faults' \in Nat
      PROVE  Data'
  BY <1>1 DEF TablesTypeOK, ExecutorTypeOK, tableVars
<1>2. \A j \in Jobs : Row(j) \in Snapshot
  BY DEF Row, Snapshot, TablesTypeOK, JobRow
<1>3. CASE SyncQuery
  <2>1. snap' \in [Jobs -> Snapshot \cup {NoRow}]
    BY <1>2, <1>3 DEF SyncQuery
  <2>2. clock \in Nat /\ faults \in Nat
    BY DEF TablesTypeOK, ExecutorTypeOK
  <2> QED BY <1>1, <1>3, <2>1, <2>2 DEF SyncQuery, execVars
<1>4. CASE SyncQueryTruncated
  <2>1. snap' \in [Jobs -> Snapshot \cup {NoRow}]
    BY <1>2, <1>4 DEF SyncQueryTruncated
  <2>2. clock \in Nat /\ faults' \in Nat
    BY <1>4, FaultTyped DEF TablesTypeOK, ExecutorTypeOK, SyncQueryTruncated
  <2> QED BY <1>1, <1>4, <2>1, <2>2 DEF SyncQueryTruncated
<1>5. CASE SyncReconcile
  <2> PICK newID \in FreshIDs :
        /\ cron' = {c \in cron : \A j \in Dropped : c.id # entries[j].cronID}
                   \cup {[id |-> newID[j], job |-> j, policy |-> snap[j].policy,
                          ver |-> snap[j].ver] : j \in Added}
        /\ entries' = [j \in Jobs |->
              IF j \in Added THEN [cronID |-> newID[j], scheduledAt |-> clock,
                                   cancelFn |-> NoRun, seenAt |-> snapAt]
              ELSE IF j \in Dropped THEN NoEntry ELSE entries[j]]
    BY <1>5 DEF SyncReconcile
  <2>1. \A j \in Added : /\ j \in Jobs /\ newID[j] \in Nat \ {0}
                          /\ snap[j].policy \in Policies /\ snap[j].ver \in Nat
    BY FreshIDsAreFresh DEF Added, Listed, Snapshot
  <2>2. clock \in Nat /\ snapAt \in Nat
    BY DEF TablesTypeOK
  <2>3. \A j \in Added :
          [id |-> newID[j], job |-> j, policy |-> snap[j].policy, ver |-> snap[j].ver]
             \in Registration
    BY <2>1 DEF Registration
  <2>4. \A j \in Added :
          [cronID |-> newID[j], scheduledAt |-> clock, cancelFn |-> NoRun,
           seenAt |-> snapAt] \in Entry
    BY <2>1, <2>2 DEF Entry
  <2>5. cron' \subseteq Registration
    BY <2>3
  <2>6. entries' \in [Jobs -> Entry \cup {NoEntry}]
    BY <2>4
  <2>7. cronSeq' \in Nat
    BY <1>5, AddedFinite DEF SyncReconcile
  <2>8. runs' \in [Runs -> RunState]
    BY <1>5, CancelledTyped DEF SyncReconcile
  <2>9. Data'
    BY <1>5, <2>8 DEF SyncReconcile, TablesTypeOK, ExecutorTypeOK, tableVars
  <2> QED BY <1>5, <2>2, <2>5, <2>6, <2>7, <2>9 DEF SyncReconcile
<1>6. ASSUME NEW r \in Runs, Fire(r)
      PROVE  Data' /\ SchedulerTypeOK'
  <2>1. PICK c \in cron : Captured(r, c.job, Worker, c.policy, "fired")
    BY <1>6 DEF Fire
  <2>2. c.job \in Jobs /\ c.policy \in Policies /\ "fired" \in PCs
    BY DEF Registration, PCs
  <2>3. runs' \in [Runs -> RunState]
    BY <2>1, <2>2, WorkerAssumption, RunUpdates DEF Captured, ExecutorTypeOK
  <2>4. Data'
    BY <1>6, <2>3 DEF Fire, TablesTypeOK, ExecutorTypeOK, tableVars
  <2> QED BY <1>6, <2>4 DEF Fire, schedVars, syncVars
<1>7. ASSUME NEW r \in Runs, ReplaceLock(r)
      PROVE  Data' /\ SchedulerTypeOK'
  <2>1. PICK S : runs' = [Cancelled(S) EXCEPT ![r].pc = "locked"]
    BY <1>7 DEF ReplaceLock
  <2>2. runs' \in [Runs -> RunState]
    <3>1. Cancelled(S) \in [Runs -> RunState]
      BY CancelledTyped
    <3>2. [Cancelled(S)[r] EXCEPT !.pc = "locked"] \in RunState
      BY <3>1, RunUpdates DEF PCs
    <3> QED BY <2>1, <3>1, <3>2
  <2>3. Data'
    BY <1>7, <2>2 DEF ReplaceLock, TablesTypeOK, ExecutorTypeOK, tableVars
  <2> QED BY <1>7, <2>3 DEF ReplaceLock, syncVars
<1>8. ASSUME NEW r \in Runs, ReplaceSwap(r)
      PROVE  Data' /\ SchedulerTypeOK'
  <2>1. Held(r) \in Entry
    <3>1. runs[r].job \in Jobs
      BY DEF ExecutorTypeOK, RunState
    <3>2. CASE HasEntry(runs[r].job)
      <4>1. entries[runs[r].job] \in Entry
        BY <3>1, <3>2 DEF HasEntry
      <4> QED BY <3>2, <4>1 DEF Held, EntryOf, Entry
    <3>3. CASE ~HasEntry(runs[r].job)
      BY <3>3 DEF Held, Entry
    <3> QED BY <3>2, <3>3
  <2>2. entries' \in [Jobs -> Entry \cup {NoEntry}]
    BY <1>8, <2>1 DEF ReplaceSwap
  <2>3. Data'
    BY <1>8, ReplaceTyped, FaultTyped DEF ReplaceSwap, TablesTypeOK, ExecutorTypeOK
  <2> QED BY <1>8, <2>2, <2>3 DEF ReplaceSwap, syncVars
<1> QED BY <1>3, <1>4, <1>5, <1>6, <1>7, <1>8 DEF SchedulerStep

LEMMA VanishTyped ==
  ASSUME ExecutorTypeOK, NEW p \in Procs, Vanish(p)
  PROVE  runs' \in [Runs -> RunState]
  BY RunUpdates DEF ExecutorTypeOK, Vanish, PCs

LEMMA NextTyped == TypeOK /\ [Next]_vars => TypeOK'
<1> SUFFICES ASSUME TypeOK, [Next]_vars PROVE TypeOK'
  OBVIOUS
<1> USE DEF TypeOK
<1>1. ASSUME UNCHANGED schedVars
      PROVE  SchedulerTypeOK'
  BY <1>1 DEF SchedulerTypeOK, schedVars, syncVars
<1>2. CASE SchedulerStep /\ UNCHANGED crashes
  BY <1>2, SchedulerTyped
<1>3. CASE ApiStep /\ UNCHANGED <<schedVars, crashes>>
  BY <1>1, <1>3, ApiTyped
<1>4. ASSUME NEW r \in Runs,
             (Dispatch(r) \/ ExecutorStep(r)) /\ UNCHANGED <<schedVars, crashes>>
      PROVE  TypeOK'
  BY <1>1, <1>4, DispatchTyped, ExecutorTyped
<1>5. CASE WorkerCrash
  <2>1. runs' \in [Runs -> RunState]
    BY <1>5, WorkerAssumption, VanishTyped DEF WorkerCrash
  <2>2. TablesTypeOK' /\ ExecutorTypeOK' /\ crashes' \in Nat
    BY <1>5, <2>1 DEF WorkerCrash, TablesTypeOK, ExecutorTypeOK, tableVars
  <2> QED BY <1>5, <2>2 DEF WorkerCrash, SchedulerTypeOK
<1>6. CASE ApiCrash
  <2>1. runs' \in [Runs -> RunState]
    BY <1>6, ApiAssumption, VanishTyped DEF ApiCrash
  <2>2. TablesTypeOK' /\ ExecutorTypeOK' /\ crashes' \in Nat
    BY <1>6, <2>1 DEF ApiCrash, TablesTypeOK, ExecutorTypeOK, tableVars
  <2> QED BY <1>1, <1>6, <2>2 DEF ApiCrash
<1>7. CASE UNCHANGED vars
  BY <1>1, <1>7 DEF vars, tableVars, execVars, TablesTypeOK, ExecutorTypeOK
<1> QED BY <1>2, <1>3, <1>4, <1>5, <1>6, <1>7 DEF Next

(* Every variable keeps its type, for every set of jobs and runs.          *)
THEOREM TypeCorrect == Spec => []TypeOK
  BY InitTyped, NextTyped, PTL DEF Spec
=============================================================================
