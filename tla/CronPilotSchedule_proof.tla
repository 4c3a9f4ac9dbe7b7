---------------------- MODULE CronPilotSchedule_proof -----------------------
(***************************************************************************)
(* The invariants of CronPilot about the schedule: who owns the cron       *)
(* registrations, and which changes of a job they can miss.                *)
(***************************************************************************)
EXTENDS CronPilot_proof

-----------------------------------------------------------------------------
(* Ownership of registrations                                              *)

IDsUsed   == \A c \in cron : c.id <= cronSeq
IDsUnique == \A c, d \in cron : c.id = d.id => c = d

CronInv == TypeOK /\ IDsUsed /\ IDsUnique /\ CronOwned

(* What an entry says to the scheduler apart from its cancelFn.            *)
SameEntry(j) ==
    /\ HasEntry(j)' <=> HasEntry(j)
    /\ HasEntry(j) => /\ entries'[j].cronID = entries[j].cronID
                      /\ entries'[j].scheduledAt = entries[j].scheduledAt
                      /\ entries'[j].seenAt = entries[j].seenAt

LEMMA SwapEntries ==
  ASSUME TypeOK, NEW r \in Runs, ReplaceSwap(r), NEW j \in Jobs
  PROVE  \/ SameEntry(j)
         \/ /\ ~HasEntry(j) /\ HasEntry(j)'
            /\ entries'[j].cronID = 0 /\ entries'[j].seenAt = 0
<1>1. /\ entries' = [entries EXCEPT ![runs[r].job] = Held(r)]
      /\ entries \in [Jobs -> Entry \cup {NoEntry}] /\ runs[r].job \in Jobs
  BY DEF ReplaceSwap, TypeOK, SchedulerTypeOK, ExecutorTypeOK, RunState
<1>2. CASE j # runs[r].job
  BY <1>1, <1>2 DEF SameEntry, HasEntry
<1>3. CASE j = runs[r].job
  <2>1. entries'[j] = Held(r)
    BY <1>1, <1>3
  <2>2. CASE HasEntry(j)
    <3>1. entries[j] \in Entry
      BY <1>1, <2>2 DEF HasEntry
    <3>2. Held(r) = [entries[j] EXCEPT !.cancelFn = r]
      BY <1>3, <2>2 DEF Held, EntryOf
    <3>3. /\ Held(r) \in Entry /\ Held(r).cronID = entries[j].cronID
          /\ Held(r).scheduledAt = entries[j].scheduledAt
          /\ Held(r).seenAt = entries[j].seenAt
      BY <3>1, <3>2 DEF Entry
    <3> QED BY <2>1, <2>2, <3>3, NothingAssumption DEF SameEntry, HasEntry
  <2>3. CASE ~HasEntry(j)
    <3>1. Held(r) \in Entry /\ Held(r).cronID = 0 /\ Held(r).seenAt = 0
      BY <1>3, <2>3 DEF Held, Entry
    <3> QED BY <2>1, <2>3, <3>1, NothingAssumption DEF HasEntry
  <2> QED BY <2>2, <2>3
<1> QED BY <1>2, <1>3

(* The three kinds of registration after a sync.                           *)
LEMMA ReconcileCron ==
  ASSUME TypeOK, CronOwned, SyncReconcile
  PROVE  \E newID \in FreshIDs :
           /\ \A c \in cron' :
                \/ /\ c \in cron /\ c.job \in Jobs \ (Dropped \cup Added)
                   /\ entries'[c.job] = entries[c.job]
                \/ /\ c.job \in Added /\ c.id = newID[c.job] /\ c.ver = snap[c.job].ver
                   /\ c = [id |-> c.id, job |-> c.job, policy |-> snap[c.job].policy,
                           ver |-> snap[c.job].ver]
           /\ \A c \in cron : (\A j \in Dropped : c.id # entries[j].cronID) => c \in cron'
           /\ \A j \in Added : /\ \E c \in cron' : c.id = newID[j] /\ c.job = j
                               /\ entries'[j] = [cronID |-> newID[j], scheduledAt |-> clock,
                                                 cancelFn |-> NoRun, seenAt |-> snapAt]
           /\ \A j \in Jobs \ Added : entries'[j] = IF j \in Dropped THEN NoEntry
                                                    ELSE entries[j]
<1> PICK newID \in FreshIDs :
        /\ cron' = {c \in cron : \A j \in Dropped : c.id # entries[j].cronID}
                   \cup {[id |-> newID[j], job |-> j, policy |-> snap[j].policy,
                          ver |-> snap[j].ver] : j \in Added}
        /\ entries' = [j \in Jobs |->
              IF j \in Added THEN [cronID |-> newID[j], scheduledAt |-> clock,
                                   cancelFn |-> NoRun, seenAt |-> snapAt]
              ELSE IF j \in Dropped THEN NoEntry ELSE entries[j]]
  BY DEF SyncReconcile
<1>1. Added \subseteq Jobs /\ Dropped \subseteq Jobs
  BY DEF Added, Dropped
<1>2. ASSUME NEW c \in cron, \A j \in Dropped : c.id # entries[j].cronID
      PROVE  c.job \in Jobs \ (Dropped \cup Added) /\ entries'[c.job] = entries[c.job]
  <2>1. c.job \in Jobs /\ HasEntry(c.job) /\ entries[c.job].cronID = c.id
    BY DEF TypeOK, SchedulerTypeOK, Registration, CronOwned
  <2>2. c.job \notin Dropped
    BY <1>2, <2>1
  <2>3. c.job \notin Added
    BY <2>1, <2>2 DEF Added, Dropped
  <2> QED BY <2>1, <2>2, <2>3
<1>3. ASSUME NEW j \in Added
      PROVE  LET c == [id |-> newID[j], job |-> j, policy |-> snap[j].policy,
                       ver |-> snap[j].ver]
             IN  c.job = j /\ c.id = newID[j] /\ c.ver = snap[j].ver /\ c \in cron'
  OBVIOUS
<1>4. ASSUME NEW j \in Added
      PROVE  entries'[j] = [cronID |-> newID[j], scheduledAt |-> clock,
                            cancelFn |-> NoRun, seenAt |-> snapAt]
  BY <1>1
<1>5. ASSUME NEW j \in Jobs \ Added
      PROVE  entries'[j] = IF j \in Dropped THEN NoEntry ELSE entries[j]
  BY <1>1
<1>6. ASSUME NEW c \in cron'
      PROVE  \/ /\ c \in cron /\ c.job \in Jobs \ (Dropped \cup Added)
                /\ entries'[c.job] = entries[c.job]
             \/ /\ c.job \in Added /\ c.id = newID[c.job] /\ c.ver = snap[c.job].ver
                /\ c = [id |-> c.id, job |-> c.job, policy |-> snap[c.job].policy,
                        ver |-> snap[c.job].ver]
  BY <1>2, <1>6
<1>7. \A j \in Added : \E c \in cron' : c.id = newID[j] /\ c.job = j
  BY <1>3
<1>8. ASSUME NEW c \in cron, \A j \in Dropped : c.id # entries[j].cronID
      PROVE  c \in cron'
  BY <1>8
<1> HIDE DEF FreshIDs, Added, Dropped
<1> QED BY <1>4, <1>5, <1>6, <1>7, <1>8

LEMMA ReconcileKeepsCron ==
  ASSUME CronInv, TypeOK', SyncReconcile
  PROVE  IDsUsed' /\ IDsUnique' /\ CronOwned'
<1> USE DEF CronInv
<1> PICK newID \in FreshIDs :
           /\ \A c \in cron' :
                \/ /\ c \in cron /\ c.job \in Jobs \ (Dropped \cup Added)
                   /\ entries'[c.job] = entries[c.job]
                \/ /\ c.job \in Added /\ c.id = newID[c.job] /\ c.ver = snap[c.job].ver
                   /\ c = [id |-> c.id, job |-> c.job, policy |-> snap[c.job].policy,
                           ver |-> snap[c.job].ver]
           /\ \A c \in cron : (\A j \in Dropped : c.id # entries[j].cronID) => c \in cron'
           /\ \A j \in Added : /\ \E c \in cron' : c.id = newID[j] /\ c.job = j
                               /\ entries'[j] = [cronID |-> newID[j], scheduledAt |-> clock,
                                                 cancelFn |-> NoRun, seenAt |-> snapAt]
           /\ \A j \in Jobs \ Added : entries'[j] = IF j \in Dropped THEN NoEntry
                                                    ELSE entries[j]
  BY ReconcileCron
<1>1. cronSeq \in Nat /\ cronSeq' = cronSeq + Cardinality(Added) /\ Cardinality(Added) \in Nat
  BY AddedFinite DEF TypeOK, SchedulerTypeOK, SyncReconcile
<1>2. \A j \in Added : /\ newID[j] \in Nat \ {0} /\ newID[j] > cronSeq /\ newID[j] <= cronSeq'
                       /\ \A i \in Added : newID[i] = newID[j] => i = j
  BY <1>1, FreshIDsAreFresh
<1>3. \A c \in cron : c.id \in Nat \ {0} /\ c.job \in Jobs
  BY DEF TypeOK, SchedulerTypeOK, Registration
<1> HIDE DEF FreshIDs, Added, Dropped
<1>4. IDsUsed'
  BY <1>1, <1>2, <1>3 DEF IDsUsed
<1>5. IDsUnique'
  <2> SUFFICES ASSUME NEW c \in cron', NEW d \in cron', c.id = d.id
               PROVE  c = d
    BY DEF IDsUnique
  <2>1. CASE c \in cron /\ d \in cron
    BY <2>1 DEF IDsUnique
  <2>2. CASE c.job \in Added /\ c.id = newID[c.job] /\ d \in cron
    <3>1. newID[c.job] > cronSeq /\ newID[c.job] \in Nat
      BY <1>2, <2>2
    <3>2. d.id \in Nat /\ d.id <= cronSeq
      BY <1>3, <2>2 DEF IDsUsed
    <3> QED BY <1>1, <2>2, <3>1, <3>2
  <2>3. CASE d.job \in Added /\ d.id = newID[d.job] /\ c \in cron
    <3>1. newID[d.job] > cronSeq /\ newID[d.job] \in Nat
      BY <1>2, <2>3
    <3>2. c.id \in Nat /\ c.id <= cronSeq
      BY <1>3, <2>3 DEF IDsUsed
    <3> QED BY <1>1, <2>3, <3>1, <3>2
  <2>4. CASE /\ c.job \in Added /\ c.id = newID[c.job]
             /\ c = [id |-> c.id, job |-> c.job, policy |-> snap[c.job].policy,
                     ver |-> snap[c.job].ver]
             /\ d.job \in Added /\ d.id = newID[d.job]
             /\ d = [id |-> d.id, job |-> d.job, policy |-> snap[d.job].policy,
                     ver |-> snap[d.job].ver]
    <3>1. c.job = d.job
      BY <1>2, <2>4
    <3> QED BY <2>4, <3>1
  <2> QED BY <2>1, <2>2, <2>3, <2>4
<1>6. ASSUME NEW c \in cron'
      PROVE  (HasEntry(c.job) /\ entries[c.job].cronID = c.id)'
  <2>1. CASE c \in cron /\ entries'[c.job] = entries[c.job]
    BY <2>1 DEF CronOwned, HasEntry
  <2>2. CASE c.job \in Added /\ c.id = newID[c.job]
    <3>1. entries'[c.job] = [cronID |-> newID[c.job], scheduledAt |-> clock,
                             cancelFn |-> NoRun, seenAt |-> snapAt]
      BY <2>2
    <3>2. entries'[c.job] \in Entry
      BY <1>2, <2>2, <3>1 DEF TypeOK, SchedulerTypeOK, TablesTypeOK, Entry
    <3> QED BY <2>2, <3>1, <3>2, NothingAssumption DEF HasEntry
  <2> QED BY <2>1, <2>2
<1>7. ASSUME NEW j \in Jobs, HasEntry(j)', entries'[j].cronID # 0
      PROVE  \E c \in cron' : c.id = entries'[j].cronID /\ c.job = j
  <2>1. CASE j \in Added
    <3>1. /\ \E c \in cron' : c.id = newID[j] /\ c.job = j
          /\ entries'[j] = [cronID |-> newID[j], scheduledAt |-> clock,
                            cancelFn |-> NoRun, seenAt |-> snapAt]
      BY <2>1
    <3>2. entries'[j].cronID = newID[j]
      BY <3>1
    <3> QED BY <3>1, <3>2
  <2>2. CASE j \notin Added
    <3>1. j \notin Dropped /\ entries'[j] = entries[j] /\ HasEntry(j)
      BY <1>7, <2>2 DEF HasEntry
    <3>2. PICK c \in cron : c.id = entries[j].cronID /\ c.job = j
      BY <1>7, <3>1 DEF CronOwned
    <3>3. ASSUME NEW k \in Dropped, c.id = entries[k].cronID
          PROVE  FALSE
      <4>1. k \in Jobs /\ HasEntry(k)
        BY DEF Dropped
      <4>2. PICK d \in cron : d.id = entries[k].cronID /\ d.job = k
        BY <1>3, <3>3, <4>1 DEF CronOwned
      <4> QED BY <3>1, <3>2, <3>3, <4>2 DEF IDsUnique
    <3> QED BY <3>1, <3>2, <3>3
  <2> QED BY <2>1, <2>2
<1>8. CronOwned'
  BY <1>6, <1>7 DEF CronOwned
<1> QED BY <1>4, <1>5, <1>8

LEMMA SwapKeepsCron ==
  ASSUME CronInv, NEW r \in Runs, ReplaceSwap(r)
  PROVE  IDsUsed' /\ IDsUnique' /\ CronOwned'
<1> USE DEF CronInv
<1>1. UNCHANGED <<cron, cronSeq>>
  BY DEF ReplaceSwap
<1>2. \A c \in cron : c.job \in Jobs
  BY DEF TypeOK, SchedulerTypeOK, Registration
<1>3. \A c \in cron : (HasEntry(c.job) /\ entries[c.job].cronID = c.id)'
  BY <1>2, SwapEntries DEF CronOwned, SameEntry
<1>4. ASSUME NEW j \in Jobs, HasEntry(j)', entries'[j].cronID # 0
      PROVE  \E c \in cron : c.id = entries'[j].cronID /\ c.job = j
  <2>1. SameEntry(j)
    BY <1>4, SwapEntries
  <2> QED BY <1>4, <2>1 DEF SameEntry, CronOwned
<1> QED BY <1>1, <1>3, <1>4 DEF IDsUsed, IDsUnique, CronOwned

(* The steps that leave entries, registrations and sync alone.             *)
LEMMA SchedFrame ==
  ASSUME [Next]_vars
  PROVE  \/ SyncQuery \/ SyncQueryTruncated \/ SyncReconcile
         \/ \E r \in Runs : ReplaceSwap(r)
         \/ WorkerCrash
         \/ UNCHANGED <<entries, cron, cronSeq, syncVars>>
  BY DEF Next, SchedulerStep, Fire, ReplaceLock, ApiCrash, schedVars, vars

LEMMA CronNext == CronInv /\ [Next]_vars => CronInv'
<1> SUFFICES ASSUME CronInv, [Next]_vars PROVE CronInv'
  OBVIOUS
<1>1. TypeOK /\ TypeOK'
  BY NextTyped DEF CronInv
<1> SUFFICES IDsUsed' /\ IDsUnique' /\ CronOwned'
  BY <1>1 DEF CronInv
<1>2. CASE UNCHANGED <<entries, cron, cronSeq>>
  BY <1>2 DEF CronInv, IDsUsed, IDsUnique, CronOwned, HasEntry
<1>3. CASE SyncQuery \/ SyncQueryTruncated
  BY <1>2, <1>3 DEF SyncQuery, SyncQueryTruncated
<1>4. CASE SyncReconcile
  BY <1>1, <1>4, ReconcileKeepsCron
<1>5. CASE \E r \in Runs : ReplaceSwap(r)
  BY <1>5, SwapKeepsCron
<1>6. CASE WorkerCrash
  BY <1>6 DEF WorkerCrash, IDsUsed, IDsUnique, CronOwned, HasEntry
<1> QED BY <1>2, <1>3, <1>4, <1>5, <1>6, SchedFrame

LEMMA CronInit == Init => CronInv
  BY InitTyped DEF Init, SchedulerInit, CronInv, IDsUsed, IDsUnique, CronOwned, HasEntry

(* Every registration is the one its job's entry remembers, and every      *)
(* entry that names a registration has it.                                 *)
THEOREM CronOwnedHolds == Spec => []CronOwned
<1>1. CronInv => CronOwned
  BY DEF CronInv
<1> QED BY <1>1, CronInit, CronNext, PTL DEF Spec

-----------------------------------------------------------------------------
(* Which changes the schedule can miss                                     *)

Clocked ==
    /\ \A j \in Jobs : jobs[j].updatedAt <= clock
    /\ \A j \in Jobs : HasEntry(j) => entries[j].seenAt <= clock
    /\ snapAt <= clock /\ syncedAt <= clock

(* What a sync has read is still what the table says, unless the row was   *)
(* stamped since; and what a registration was made from likewise.          *)
SnapFaithful ==
    syncPc = Syncing =>
        \A j \in Jobs : Listed(j) /\ Exists(j) /\ jobs[j].updatedAt <= snapAt
                       => jobs[j].status = "active" /\ snap[j].ver = jobs[j].updatedAt

CronFaithful ==
    \A c \in cron : Exists(c.job) /\ jobs[c.job].updatedAt <= entries[c.job].seenAt
                    => jobs[c.job].status = "active" /\ c.ver = jobs[c.job].updatedAt

VersionInv == CronInv /\ Clocked /\ SnapFaithful /\ CronFaithful /\ MissedOnlyByRace

(* What a statement outside the worker's scheduler can do to a row: leave  *)
(* status and stamp alone, delete it, or stamp it later than everything.   *)
JobMoves ==
    /\ clock' \in {clock, clock + 1}
    /\ \A j \in Jobs :
          \/ jobs'[j].status = jobs[j].status /\ jobs'[j].updatedAt = jobs[j].updatedAt
          \/ jobs'[j].status = "deleted" /\ jobs'[j].updatedAt = jobs[j].updatedAt
          \/ jobs'[j].updatedAt = clock + 1 /\ clock' = clock + 1

LEMMA VersionTypes ==
  ASSUME TypeOK
  PROVE  /\ clock \in Nat /\ snapAt \in Nat /\ syncedAt \in Nat
         /\ \A j \in Jobs : jobs[j].updatedAt \in Nat
         /\ \A j \in Jobs : HasEntry(j) => /\ entries[j].seenAt \in Nat
                                           /\ entries[j].scheduledAt \in Nat
         /\ \A j \in Jobs : Listed(j) => snap[j].ver \in Nat
         /\ \A c \in cron : c.job \in Jobs
<1>1. clock \in Nat /\ snapAt \in Nat /\ syncedAt \in Nat
  BY DEF TypeOK, TablesTypeOK, SchedulerTypeOK
<1>2. \A j \in Jobs : jobs[j].updatedAt \in Nat
  BY DEF TypeOK, TablesTypeOK, JobRow
<1>3. \A j \in Jobs : HasEntry(j) => entries[j].seenAt \in Nat /\ entries[j].scheduledAt \in Nat
  BY DEF TypeOK, SchedulerTypeOK, HasEntry, Entry
<1>4. \A j \in Jobs : Listed(j) => snap[j].ver \in Nat
  BY DEF TypeOK, SchedulerTypeOK, Listed, Snapshot
<1>5. \A c \in cron : c.job \in Jobs
  BY DEF TypeOK, SchedulerTypeOK, Registration
<1> QED BY <1>1, <1>2, <1>3, <1>4, <1>5

LEMMA JobMovesKeepVersions ==
  ASSUME VersionInv, JobMoves, UNCHANGED <<entries, cron, cronSeq, syncVars>>
  PROVE  Clocked' /\ SnapFaithful' /\ CronFaithful' /\ MissedOnlyByRace'
<1>1. TypeOK
  BY DEF VersionInv, CronInv
<1>2. UNCHANGED <<snap, syncPc, snapAt, syncedAt, entries, cron>>
  BY DEF syncVars
<1>3. \A c \in cron : c.job \in Jobs /\ HasEntry(c.job)
  BY <1>1, VersionTypes DEF VersionInv, CronInv, CronOwned
<1>4. Clocked'
  BY <1>1, <1>2, VersionTypes DEF VersionInv, Clocked, JobMoves, HasEntry
<1>5. SnapFaithful'
  BY <1>1, <1>2, VersionTypes DEF VersionInv, Clocked, SnapFaithful, JobMoves, Listed, Exists
<1>6. CronFaithful'
  BY <1>1, <1>2, <1>3, VersionTypes DEF VersionInv, Clocked, CronFaithful, JobMoves, Exists
<1>7. MissedOnlyByRace'
  BY <1>1, <1>2, <1>3, VersionTypes DEF VersionInv, Clocked, MissedOnlyByRace, JobMoves
<1> QED BY <1>4, <1>5, <1>6, <1>7

LEMMA OthersMoveJobs ==
  ASSUME TypeOK, [Next]_vars
  PROVE  \/ SyncQuery \/ SyncQueryTruncated \/ SyncReconcile
         \/ \E r \in Runs : ReplaceSwap(r)
         \/ WorkerCrash
         \/ JobMoves /\ UNCHANGED <<entries, cron, cronSeq, syncVars>>
<1>1. ASSUME UNCHANGED <<jobs, clock>>
      PROVE  JobMoves
  BY <1>1 DEF JobMoves
<1>2. jobs \in [Jobs -> JobRow] /\ clock \in Nat
  BY DEF TypeOK, TablesTypeOK
<1>3. ASSUME NEW j \in Jobs, NEW row \in JobRow, Stamped(j, row)
      PROVE  JobMoves
  <2>1. [row EXCEPT !.updatedAt = clock + 1].updatedAt = clock + 1
    BY DEF JobRow
  <2> QED BY <1>2, <1>3, <2>1 DEF Stamped, JobMoves
<1>4. ASSUME NEW r \in Runs, ExecutorStep(r)
      PROVE  JobMoves
  <2>1. CASE Stamp(r)
    <3>1. \A j \in Jobs : jobs'[j] = jobs[j] \/ \E x : jobs'[j] = [jobs[j] EXCEPT !.lastRun = x]
      BY <1>2, <2>1 DEF Stamp
    <3>2. \A j \in Jobs : \A x : /\ [jobs[j] EXCEPT !.lastRun = x].status = jobs[j].status
                             /\ [jobs[j] EXCEPT !.lastRun = x].updatedAt = jobs[j].updatedAt
      BY <1>2 DEF JobRow
    <3> QED BY <2>1, <3>1, <3>2 DEF Stamp, JobMoves
  <2>2. CASE ~Stamp(r)
    BY <1>1, <1>4, <2>2
       DEF ExecutorStep, Insert, InsertRefused, InsertFails, Watch, Respond, TimeOut, Abort,
           DoRequest, Finish, FinishFails, StampFails, tableVars
  <2> QED BY <2>1, <2>2
<1>5. ASSUME NEW r \in Runs, Dispatch(r)
      PROVE  JobMoves
  BY <1>1, <1>5 DEF Dispatch, ForbidSkip, ForbidSpawn, ForbidBlind, AllowSpawn, tableVars
<1>6. ASSUME NEW j \in Jobs,
             \/ CreateJob(j) \/ AdminCreateJob(j) \/ UpdateJob(j) \/ AdminUpdateJob(j)
             \/ PauseJob(j) \/ ResumeJob(j)
      PROVE  JobMoves
  <2>1. \E row \in JobRow : Stamped(j, row)
    <3>1. "Allow" \in Policies /\ (\A policy \in Offered : policy \in Policies)
      BY OfferedAssumption DEF Policies
    <3> QED BY <1>2, <1>6, <3>1, JobUpdates
            DEF CreateJob, AdminCreateJob, UpdateJob, AdminUpdateJob, PauseJob, ResumeJob,
                setJobStatus
  <2> QED BY <1>3, <2>1
<1>7. ASSUME NEW j \in Jobs, DeleteJob(j)
      PROVE  JobMoves
  <2>1. \A i \in Jobs : i # j => jobs'[i] = jobs[i]
    BY <1>2, <1>7 DEF DeleteJob
  <2>2. jobs'[j].status = "deleted" /\ jobs'[j].updatedAt = jobs[j].updatedAt
    BY <1>2, <1>7 DEF DeleteJob, JobRow
  <2> QED BY <1>7, <2>1, <2>2 DEF DeleteJob, JobMoves
<1>8. ASSUME ApiStep
      PROVE  JobMoves
  <2>1. ASSUME NEW r \in Runs, NEW j \in Jobs,
               TriggerJob(r, j) \/ AdminTriggerJob(r, j)
        PROVE  JobMoves
    BY <1>1, <2>1 DEF TriggerJob, AdminTriggerJob, tableVars
  <2>2. ASSUME NEW r \in Runs, TriggerReplace(r)
        PROVE  JobMoves
    <3>1. UNCHANGED <<jobs, clock>>
      BY <2>2 DEF TriggerReplace
    <3> QED BY <1>1, <3>1
  <2>3. CASE \E j \in Jobs : \/ CreateJob(j) \/ AdminCreateJob(j) \/ UpdateJob(j)
                             \/ AdminUpdateJob(j) \/ PauseJob(j) \/ ResumeJob(j)
                             \/ DeleteJob(j)
    BY <1>6, <1>7, <2>3
  <2>4. CASE \E r \in Runs, j \in Jobs : TriggerJob(r, j) \/ AdminTriggerJob(r, j)
    BY <2>1, <2>4
  <2>5. CASE \E r \in Runs : TriggerReplace(r)
    BY <2>2, <2>5
  <2> QED BY <1>8, <2>3, <2>4, <2>5 DEF ApiStep
<1>9. ASSUME NEW r \in Runs, Fire(r) \/ ReplaceLock(r)
      PROVE  JobMoves
  BY <1>1, <1>9 DEF Fire, ReplaceLock, tableVars
<1>10. ASSUME ApiCrash \/ UNCHANGED vars
       PROVE  JobMoves
  <2>1. UNCHANGED <<jobs, clock>>
    BY <1>10 DEF ApiCrash, vars, tableVars
  <2> QED BY <1>1, <2>1
<1> QED BY <1>4, <1>5, <1>8, <1>9, <1>10, SchedFrame DEF Next, SchedulerStep

LEMMA QueryKeepsVersions ==
  ASSUME VersionInv, SyncQuery \/ SyncQueryTruncated
  PROVE  Clocked' /\ SnapFaithful' /\ CronFaithful' /\ MissedOnlyByRace'
<1>1. /\ UNCHANGED <<entries, cron, jobs, clock, syncedAt>> /\ snapAt' = clock
      /\ clock \in Nat
  BY VersionTypes DEF SyncQuery, SyncQueryTruncated, tableVars, VersionInv, CronInv
<1>2. ASSUME NEW j \in Jobs, snap'[j] # NoRow
      PROVE  jobs[j].status = "active" /\ snap'[j].ver = jobs[j].updatedAt
  <2>1. j \in Active /\ snap'[j] = Row(j)
    BY <1>2 DEF SyncQuery, SyncQueryTruncated
  <2> QED BY <2>1 DEF Active, Row
<1>3. Clocked'
  BY <1>1 DEF VersionInv, Clocked, HasEntry
<1>4. SnapFaithful'
  BY <1>1, <1>2 DEF SnapFaithful, Listed
<1>5. CronFaithful' /\ MissedOnlyByRace'
  BY <1>1 DEF VersionInv, CronFaithful, MissedOnlyByRace, Exists
<1> QED BY <1>3, <1>4, <1>5

LEMMA SwapKeepsVersions ==
  ASSUME VersionInv, NEW r \in Runs, ReplaceSwap(r)
  PROVE  Clocked' /\ SnapFaithful' /\ CronFaithful' /\ MissedOnlyByRace'
<1>1. /\ UNCHANGED <<cron, jobs, clock, snap, syncPc, snapAt, syncedAt>> /\ TypeOK
      /\ clock \in Nat
  BY VersionTypes DEF ReplaceSwap, syncVars, VersionInv, CronInv
<1>2. \A c \in cron : c.job \in Jobs /\ HasEntry(c.job)
  BY <1>1, VersionTypes DEF VersionInv, CronInv, CronOwned
<1>3. \A c \in cron : /\ entries'[c.job].seenAt = entries[c.job].seenAt
                      /\ entries'[c.job].scheduledAt = entries[c.job].scheduledAt
  BY <1>1, <1>2, SwapEntries DEF SameEntry
<1>4. Clocked'
  BY <1>1, SwapEntries DEF VersionInv, Clocked, SameEntry
<1>5. SnapFaithful'
  BY <1>1 DEF VersionInv, SnapFaithful, Listed, Exists
<1>6. CronFaithful' /\ MissedOnlyByRace'
  BY <1>1, <1>3 DEF VersionInv, CronFaithful, MissedOnlyByRace, Exists
<1> QED BY <1>4, <1>5, <1>6

LEMMA ReconcileKeepsVersions ==
  ASSUME VersionInv, SyncReconcile
  PROVE  Clocked' /\ SnapFaithful' /\ CronFaithful' /\ MissedOnlyByRace'
<1>1. /\ UNCHANGED <<jobs, clock>> /\ snapAt' = 0 /\ syncedAt' = snapAt /\ syncPc' = Free
      /\ TypeOK /\ CronOwned /\ syncPc = Syncing
  BY DEF SyncReconcile, tableVars, VersionInv, CronInv
<1> PICK newID \in FreshIDs :
           /\ \A c \in cron' :
                \/ /\ c \in cron /\ c.job \in Jobs \ (Dropped \cup Added)
                   /\ entries'[c.job] = entries[c.job]
                \/ /\ c.job \in Added /\ c.id = newID[c.job] /\ c.ver = snap[c.job].ver
                   /\ c = [id |-> c.id, job |-> c.job, policy |-> snap[c.job].policy,
                           ver |-> snap[c.job].ver]
           /\ \A c \in cron : (\A j \in Dropped : c.id # entries[j].cronID) => c \in cron'
           /\ \A j \in Added : /\ \E c \in cron' : c.id = newID[j] /\ c.job = j
                               /\ entries'[j] = [cronID |-> newID[j], scheduledAt |-> clock,
                                                 cancelFn |-> NoRun, seenAt |-> snapAt]
           /\ \A j \in Jobs \ Added : entries'[j] = IF j \in Dropped THEN NoEntry
                                                    ELSE entries[j]
  BY <1>1, ReconcileCron
<1>2. \A j \in Added : entries'[j].seenAt = snapAt /\ entries'[j].scheduledAt = clock
  <2> TAKE j \in Added
  <2>1. entries'[j] = [cronID |-> newID[j], scheduledAt |-> clock,
                       cancelFn |-> NoRun, seenAt |-> snapAt]
    OBVIOUS
  <2> QED BY <2>1
<1>3. /\ clock \in Nat /\ snapAt \in Nat /\ snapAt <= clock
      /\ \A j \in Jobs : jobs[j].updatedAt \in Nat /\ jobs[j].updatedAt <= clock
  BY <1>1, VersionTypes DEF VersionInv, Clocked
<1>4. Added \subseteq Jobs
  BY DEF Added
<1>5. ASSUME NEW c \in cron', c.job \in Added, c.ver = snap[c.job].ver, Exists(c.job)
      PROVE  jobs[c.job].updatedAt <= snapAt
             => jobs[c.job].status = "active" /\ c.ver = jobs[c.job].updatedAt
  <2>1. Listed(c.job) /\ c.job \in Jobs
    BY <1>5 DEF Added
  <2> QED BY <1>1, <1>5, <2>1 DEF VersionInv, SnapFaithful
<1>6. ASSUME NEW c \in cron, c.job \in Jobs \ (Dropped \cup Added)
      PROVE  /\ HasEntry(c.job) /\ Listed(c.job)
             /\ entries[c.job].scheduledAt \in Nat /\ snap[c.job].ver \in Nat
             /\ snap[c.job].ver <= entries[c.job].scheduledAt
  <2>1. HasEntry(c.job)
    BY <1>1 DEF CronOwned
  <2>2. Listed(c.job) /\ UpToDate(c.job)
    BY <1>6, <2>1 DEF Dropped
  <2>3. entries[c.job].scheduledAt \in Nat /\ snap[c.job].ver \in Nat
    BY <1>1, <1>6, <2>1, <2>2, VersionTypes
  <2> QED BY <2>1, <2>2, <2>3 DEF UpToDate
<1>7. Clocked'
  <2>1. ASSUME NEW j \in Jobs, HasEntry(j)'
        PROVE  entries'[j].seenAt <= clock
    <3>1. CASE j \in Added
      BY <1>2, <1>3, <3>1
    <3>2. CASE j \notin Added
      <4>1. entries'[j] = entries[j] /\ HasEntry(j)
        BY <2>1, <3>2 DEF HasEntry
      <4> QED BY <4>1 DEF VersionInv, Clocked
    <3> QED BY <3>1, <3>2
  <2> QED BY <1>1, <1>3, <2>1 DEF Clocked
<1>8. SnapFaithful'
  BY <1>1, MarkersAssumption DEF SnapFaithful
<1> HIDE DEF FreshIDs, Added, Dropped
<1>9. ASSUME NEW c \in cron', Exists(c.job), jobs[c.job].updatedAt <= entries'[c.job].seenAt
      PROVE  jobs[c.job].status = "active" /\ c.ver = jobs[c.job].updatedAt
  <2>1. CASE c \in cron /\ entries'[c.job] = entries[c.job]
    BY <1>9, <2>1 DEF VersionInv, CronFaithful
  <2>2. CASE c.job \in Added /\ c.ver = snap[c.job].ver
    BY <1>2, <1>5, <1>9, <2>2
  <2> QED BY <2>1, <2>2
<1>10. ASSUME NEW c \in cron'
       PROVE  /\ (jobs[c.job].status = "paused") => jobs[c.job].updatedAt > snapAt
              /\ (jobs[c.job].status = "active" /\ c.ver # jobs[c.job].updatedAt)
                 => \/ jobs[c.job].updatedAt > snapAt
                    \/ /\ entries'[c.job].seenAt < jobs[c.job].updatedAt
                       /\ jobs[c.job].updatedAt <= entries'[c.job].scheduledAt
  <2> DEFINE row == jobs[c.job]
  <2> SUFFICES ASSUME Exists(c.job), row.updatedAt <= snapAt
               PROVE  /\ row.status = "active"
                      /\ c.ver # row.updatedAt
                         => /\ entries'[c.job].seenAt < row.updatedAt
                            /\ row.updatedAt <= entries'[c.job].scheduledAt
    <3>1. c.job \in Jobs
      BY <1>4
    <3> QED BY <1>3, <3>1 DEF Exists
  <2>1. CASE /\ c \in cron /\ c.job \in Jobs \ (Dropped \cup Added)
             /\ entries'[c.job] = entries[c.job]
    <3>1. /\ HasEntry(c.job) /\ Listed(c.job)
          /\ entries[c.job].scheduledAt \in Nat /\ snap[c.job].ver \in Nat
          /\ snap[c.job].ver <= entries[c.job].scheduledAt
      BY <1>6, <2>1
    <3>2. row.status = "active" /\ snap[c.job].ver = row.updatedAt
      BY <1>1, <2>1, <3>1 DEF VersionInv, SnapFaithful
    <3>3. row.updatedAt \in Nat /\ entries[c.job].seenAt \in Nat
      BY <1>1, <1>3, <2>1, <3>1, VersionTypes
    <3>4. c.ver # row.updatedAt => entries[c.job].seenAt < row.updatedAt
      BY <2>1, <3>3 DEF VersionInv, CronFaithful
    <3> QED BY <2>1, <3>1, <3>2, <3>4
  <2>2. CASE c.job \in Added /\ c.ver = snap[c.job].ver
    BY <1>5, <2>2
  <2> QED BY <2>1, <2>2
<1>11. CronFaithful'
  BY <1>1, <1>9 DEF CronFaithful, Exists
<1>12. MissedOnlyByRace'
  BY <1>1, <1>10 DEF MissedOnlyByRace
<1> QED BY <1>7, <1>8, <1>11, <1>12

LEMMA CrashKeepsVersions ==
  ASSUME VersionInv, WorkerCrash
  PROVE  Clocked' /\ SnapFaithful' /\ CronFaithful' /\ MissedOnlyByRace'
<1>1. /\ UNCHANGED <<jobs, clock>> /\ cron' = {} /\ snapAt' = 0 /\ syncedAt' = 0
      /\ syncPc' = Free /\ \A j \in Jobs : ~HasEntry(j)'
  BY DEF WorkerCrash, tableVars, HasEntry
<1>2. Clocked'
  BY <1>1, VersionTypes DEF VersionInv, CronInv, Clocked
<1>3. SnapFaithful'
  BY <1>1, MarkersAssumption DEF SnapFaithful
<1>4. CronFaithful' /\ MissedOnlyByRace'
  BY <1>1 DEF CronFaithful, MissedOnlyByRace
<1> QED BY <1>2, <1>3, <1>4

LEMMA VersionNext == VersionInv /\ [Next]_vars => VersionInv'
<1> SUFFICES ASSUME VersionInv, [Next]_vars PROVE VersionInv'
  OBVIOUS
<1>1. CronInv' /\ TypeOK
  BY CronNext DEF VersionInv, CronInv
<1> SUFFICES Clocked' /\ SnapFaithful' /\ CronFaithful' /\ MissedOnlyByRace'
  BY <1>1 DEF VersionInv
<1> QED BY <1>1, OthersMoveJobs, JobMovesKeepVersions, QueryKeepsVersions,
           SwapKeepsVersions, ReconcileKeepsVersions, CrashKeepsVersions

LEMMA VersionInit == Init => VersionInv
<1> SUFFICES ASSUME Init PROVE VersionInv
  OBVIOUS
<1>1. /\ cron = {} /\ snapAt = 0 /\ syncedAt = 0 /\ syncPc = Free /\ clock = 1
      /\ \A j \in Jobs : ~HasEntry(j)
  BY DEF Init, SchedulerInit, TablesInit, HasEntry
<1>2. \A j \in Jobs : jobs[j].updatedAt \in {0, 1}
  <2>1. Unborn.updatedAt = 0
    BY DEF Unborn
  <2>2. \A policy \in Offered :
          [Unborn EXCEPT !.status = "active", !.policy = policy, !.updatedAt = 1].updatedAt = 1
    BY DEF Unborn
  <2> DEFINE rows == {Unborn} \cup
               {[Unborn EXCEPT !.status = "active", !.policy = policy, !.updatedAt = 1] :
                   policy \in Offered}
  <2>3. \A row \in rows : row.updatedAt \in {0, 1}
    BY <2>1, <2>2
  <2>4. jobs \in [Jobs -> rows]
    BY DEF Init, TablesInit
  <2> HIDE DEF rows
  <2> QED BY <2>3, <2>4
<1>3. Clocked
  BY <1>1, <1>2 DEF Clocked
<1>4. SnapFaithful
  BY <1>1, MarkersAssumption DEF SnapFaithful
<1>5. CronFaithful /\ MissedOnlyByRace
  BY <1>1 DEF CronFaithful, MissedOnlyByRace
<1> QED BY <1>3, <1>4, <1>5, CronInit DEF VersionInv

(* A change that a completed sync has seen is missing from the schedule    *)
(* only if it raced the sync that registered the job; a pause never is.    *)
THEOREM MissedOnlyByRaceHolds == Spec => []MissedOnlyByRace
<1>1. VersionInv => MissedOnlyByRace
  BY DEF VersionInv
<1> QED BY <1>1, VersionInit, VersionNext, PTL DEF Spec
=============================================================================
