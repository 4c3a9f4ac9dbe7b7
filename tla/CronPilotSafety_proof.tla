----------------------- MODULE CronPilotSafety_proof ------------------------
(***************************************************************************)
(* The safety invariants of CronPilot, for every set of jobs and runs and  *)
(* every bound.  Each is a part of an inductive invariant that says what   *)
(* the lock and the map entries guarantee in between.                      *)
(***************************************************************************)
EXTENDS CronPilot_proof

-----------------------------------------------------------------------------
(* At most one live Replace run per job                                    *)

LiveReplace(r) == /\ OfWorker(r) /\ runs[r].policy = "Replace"
                  /\ InFlight(r) /\ ~runs[r].cancelled

(* A callback in its critical section holds the lock and has cancelled     *)
(* whatever was live.                                                      *)
LockedAlone ==
    \A r \in Runs : At(r, "locked") =>
        /\ mu = r /\ OfWorker(r)
        /\ \A s \in Runs : LiveReplace(s) => runs[s].job # runs[r].job

ReplaceInv == TypeOK /\ LockedAlone /\ ReplaceExclusive

(* Steps that neither start a live Replace run nor enter the critical      *)
(* section nor change what the entries and the lock say.                   *)
Quiet == /\ UNCHANGED <<entries, mu>>
         /\ \A r \in Runs : /\ LiveReplace(r)' => LiveReplace(r)
                            /\ At(r, "locked")' => At(r, "locked")
                            /\ (LiveReplace(r) \/ At(r, "locked"))
                               => /\ runs'[r].job = runs[r].job
                                  /\ runs'[r].proc = runs[r].proc

LEMMA QuietKeepsReplace ==
  ASSUME ReplaceInv, Quiet
  PROVE  LockedAlone' /\ ReplaceExclusive'
<1>1. LockedAlone'
  <2> SUFFICES ASSUME NEW r \in Runs, At(r, "locked")'
               PROVE  /\ mu' = r /\ OfWorker(r)'
                      /\ \A s \in Runs : LiveReplace(s)' => runs'[s].job # runs'[r].job
    BY DEF LockedAlone
  <2> QED BY DEF ReplaceInv, LockedAlone, Quiet, OfWorker
<1>2. ReplaceExclusive'
  <2> SUFFICES ASSUME NEW r \in Runs, LiveReplace(r)'
               PROVE  (HasEntry(runs[r].job) /\ EntryOf(r).cancelFn = r)'
    BY DEF ReplaceExclusive, LiveReplace
  <2>1. LiveReplace(r) /\ runs'[r].job = runs[r].job /\ entries' = entries
    BY DEF Quiet
  <2>2. HasEntry(runs[r].job) /\ EntryOf(r).cancelFn = r
    BY <2>1 DEF ReplaceInv, ReplaceExclusive, LiveReplace
  <2> QED BY <2>1, <2>2 DEF HasEntry, EntryOf
<1> QED BY <1>1, <1>2

(* Only run r changes, it stays the same job's, and it does not become a   *)
(* live Replace run.                                                       *)
LEMMA OneRunQuiet ==
  ASSUME TypeOK, NEW r \in Runs, NEW new \in RunState,
         UNCHANGED <<entries, mu>>, runs' = [runs EXCEPT ![r] = new],
         new.pc # "locked",
         \/ ~(new.proc = Worker /\ new.policy = "Replace") /\ ~LiveReplace(r) /\ ~At(r, "locked")
         \/ /\ new.pc \in {"insert", "request", "response", "error", "stamp"} => InFlight(r)
            /\ ~At(r, "locked")
            /\ new.job = runs[r].job /\ new.proc = runs[r].proc
            /\ new.policy = runs[r].policy /\ (runs[r].cancelled => new.cancelled)
         \/ new.pc \in {"fired", "done"} /\ ~At(r, "locked") /\ ~LiveReplace(r)
  PROVE  Quiet
<1>1. runs'[r] = new /\ \A s \in Runs : s # r => runs'[s] = runs[s]
  BY DEF TypeOK, ExecutorTypeOK
<1>2. new.cancelled \in BOOLEAN /\ runs[r].cancelled \in BOOLEAN
  BY DEF TypeOK, ExecutorTypeOK, RunState
<1> QED BY <1>1, <1>2 DEF Quiet, LiveReplace, InFlight, OfWorker, At

(* The fields that an assignment to other fields of a run leaves alone.    *)
Sibling(s, t) == t.job = s.job /\ t.proc = s.proc /\ t.policy = s.policy

LEMMA RunFields ==
  ASSUME NEW s \in RunState
  PROVE  /\ Sibling(s, [s EXCEPT !.cancelled = TRUE])
         /\ [s EXCEPT !.cancelled = TRUE].pc = s.pc
         /\ [s EXCEPT !.cancelled = TRUE].unseen = s.unseen
         /\ [s EXCEPT !.cancelled = TRUE].cancelled
         /\ \A label \in PCs :
              /\ Sibling(s, [s EXCEPT !.pc = label])
              /\ [s EXCEPT !.pc = label].pc = label
              /\ [s EXCEPT !.pc = label].cancelled = s.cancelled
              /\ [s EXCEPT !.pc = label].unseen = s.unseen
  BY DEF RunState, Sibling

LEMMA ReturnedFields ==
  ASSUME TypeOK, NEW r \in Runs
  PROVE  /\ Returned(r) \in RunState /\ Sibling(runs[r], Returned(r))
         /\ Returned(r).pc = "done" /\ Returned(r).cancelled
<1>1. runs[r] \in RunState
  BY DEF TypeOK, ExecutorTypeOK
<1>2. Returned(r) \in RunState
  BY <1>1, RunUpdates DEF Returned, PCs
<1>3. /\ Sibling(runs[r], Returned(r))
      /\ Returned(r).pc = "done" /\ Returned(r).cancelled
  BY <1>1 DEF Returned, RunState, Sibling
<1> QED BY <1>2, <1>3

LEMMA SpawnedFields ==
  ASSUME TypeOK, NEW r \in Runs, NEW unseen \in SUBSET Runs
  PROVE  /\ Spawned(r, unseen) \in RunState /\ Sibling(runs[r], Spawned(r, unseen))
         /\ Spawned(r, unseen).pc = "insert"
         /\ Spawned(r, unseen).cancelled = runs[r].cancelled
         /\ Spawned(r, unseen).unseen = unseen
<1>1. runs[r] \in RunState
  BY DEF TypeOK, ExecutorTypeOK
<1>2. Spawned(r, unseen) \in RunState
  BY <1>1, RunUpdates DEF Spawned, PCs
<1>3. /\ Sibling(runs[r], Spawned(r, unseen))
      /\ Spawned(r, unseen).pc = "insert"
      /\ Spawned(r, unseen).cancelled = runs[r].cancelled
      /\ Spawned(r, unseen).unseen = unseen
  BY <1>1 DEF Spawned, RunState, Sibling
<1> QED BY <1>2, <1>3

LEMMA ExecutorQuiet ==
  ASSUME TypeOK, NEW r \in Runs, ExecutorStep(r), UNCHANGED schedVars
  PROVE  Quiet
<1> DEFINE Ahead == {"insert", "request", "response", "error", "stamp"}
<1>1. /\ runs[r] \in RunState /\ UNCHANGED <<entries, mu>>
      /\ InFlight(r) <=> runs[r].pc \in Ahead
  BY DEF TypeOK, ExecutorTypeOK, schedVars, InFlight
<1>2. ASSUME NEW label \in {"request", "response", "error", "stamp"},
             runs' = [runs EXCEPT ![r].pc = label], runs[r].pc \in Ahead
      PROVE  Quiet
  <2>1. [runs[r] EXCEPT !.pc = label] \in RunState
    BY <1>1, RunUpdates DEF PCs
  <2>2. Sibling(runs[r], [runs[r] EXCEPT !.pc = label])
        /\ [runs[r] EXCEPT !.pc = label].pc = label
        /\ [runs[r] EXCEPT !.pc = label].cancelled = runs[r].cancelled
    BY <1>1 DEF RunState, Sibling
  <2> QED BY <1>1, <1>2, <2>1, <2>2, OneRunQuiet DEF At, Sibling
<1>3. ASSUME runs' = [runs EXCEPT ![r] = Returned(r)], runs[r].pc \in Ahead
      PROVE  Quiet
  BY <1>1, <1>3, ReturnedFields, OneRunQuiet DEF At, Sibling
<1>4. ASSUME runs' = [runs EXCEPT ![r].cancelled = TRUE], runs[r].pc \in Ahead
      PROVE  Quiet
  <2>1. [runs[r] EXCEPT !.cancelled = TRUE] \in RunState
    BY <1>1, RunUpdates
  <2> QED BY <1>1, <1>4, <2>1, RunFields, OneRunQuiet DEF At, Sibling
<1>5. CASE Insert(r)
  BY <1>2, <1>5 DEF Insert, At
<1>6. CASE InsertRefused(r) \/ InsertFails(r) \/ Stamp(r) \/ StampFails(r)
  BY <1>3, <1>6 DEF InsertRefused, InsertFails, Stamp, StampFails, At
<1>7. CASE Watch(r)
  BY <1>4, <1>7 DEF Watch, At
<1>8. CASE Respond(r) \/ TimeOut(r) \/ Abort(r)
  BY <1>2, <1>8 DEF Respond, TimeOut, Abort, DoRequest, At
<1>9. CASE Finish(r) \/ FinishFails(r)
  BY <1>2, <1>3, <1>9 DEF Finish, FinishFails, Written, At
<1> QED BY <1>5, <1>6, <1>7, <1>8, <1>9 DEF ExecutorStep

(* The policies Forbid and Allow spawn runs that are not Replace runs.     *)
LEMMA DispatchQuiet ==
  ASSUME TypeOK, NEW r \in Runs, Dispatch(r), UNCHANGED schedVars
  PROVE  Quiet
<1>1. runs[r] \in RunState /\ UNCHANGED <<entries, mu>>
  BY DEF TypeOK, ExecutorTypeOK, schedVars
<1>2. At(r, "fired") /\ runs[r].policy # "Replace"
  BY DEF Dispatch, ForbidSkip, ForbidSpawn, ForbidBlind, AllowSpawn
<1>3. CASE ForbidSkip(r)
  BY <1>1, <1>2, <1>3, ReturnedFields, OneRunQuiet
     DEF ForbidSkip, At, LiveReplace, Sibling
<1>4. ASSUME NEW unseen \in SUBSET Runs, runs' = [runs EXCEPT ![r] = Spawned(r, unseen)]
      PROVE  Quiet
  <2>1. /\ Spawned(r, unseen) \in RunState /\ Spawned(r, unseen).pc = "insert"
        /\ Spawned(r, unseen).policy # "Replace"
    BY <1>2, SpawnedFields DEF Sibling
  <2> QED BY <1>1, <1>2, <1>4, <2>1, OneRunQuiet DEF At, LiveReplace
<1>5. Pending(runs[r].job) \in SUBSET Runs
  BY DEF Pending
<1> QED BY <1>3, <1>4, <1>5 DEF Dispatch, ForbidSpawn, ForbidBlind, AllowSpawn

(* The API starts no run of the worker.                                    *)
LEMMA ApiQuiet ==
  ASSUME TypeOK, ApiStep, UNCHANGED schedVars
  PROVE  Quiet
<1>1. UNCHANGED <<entries, mu>>
  BY DEF schedVars
<1>2. CASE UNCHANGED runs
  BY <1>1, <1>2 DEF Quiet, LiveReplace, InFlight, OfWorker, At
<1>3. ASSUME NEW r \in Runs, NEW j \in Jobs, TriggerJob(r, j) \/ AdminTriggerJob(r, j)
      PROVE  Quiet
  <2>1. PICK policy \in Policies, label \in {"fired", "insert"} :
          At(r, "idle") /\ Captured(r, j, Api, policy, label)
    <3>1. jobs[j].policy \in Policies /\ "Allow" \in Policies
      BY DEF TypeOK, TablesTypeOK, JobRow, Policies
    <3> QED BY <1>3, <3>1 DEF TriggerJob, AdminTriggerJob
  <2> DEFINE new == [runs[r] EXCEPT !.pc = label, !.job = j, !.proc = Api, !.policy = policy]
  <2>2. runs[r] \in RunState
    BY DEF TypeOK, ExecutorTypeOK
  <2>3. new \in RunState
    BY <2>2, ApiAssumption, RunUpdates DEF PCs
  <2>4. new.pc = label /\ new.proc = Api
    BY <2>2 DEF RunState
  <2>5. runs' = [runs EXCEPT ![r] = new]
    BY <2>1 DEF Captured
  <2> HIDE DEF new
  <2> QED BY <1>1, <2>1, <2>3, <2>4, <2>5, ProcsAssumption, OneRunQuiet
          DEF LiveReplace, InFlight, At
<1>4. ASSUME NEW r \in Runs, TriggerReplace(r)
      PROVE  Quiet
  <2>1. At(r, "fired") /\ runs[r].proc = Api
    BY <1>4 DEF TriggerReplace
  <2>2. PICK unseen \in SUBSET Runs : runs' = [runs EXCEPT ![r] = Spawned(r, unseen)]
    BY <1>4 DEF TriggerReplace, Pending
  <2>3. /\ Spawned(r, unseen) \in RunState
        /\ Spawned(r, unseen).pc = "insert" /\ Spawned(r, unseen).proc = Api
    BY <2>1, SpawnedFields DEF Sibling
  <2> QED BY <1>1, <2>1, <2>2, <2>3, ProcsAssumption, OneRunQuiet
          DEF LiveReplace, OfWorker, At
<1>5. ASSUME NEW j \in Jobs,
             \/ CreateJob(j) \/ AdminCreateJob(j) \/ UpdateJob(j) \/ AdminUpdateJob(j)
             \/ PauseJob(j) \/ ResumeJob(j) \/ DeleteJob(j)
      PROVE  UNCHANGED runs
  BY <1>5 DEF CreateJob, AdminCreateJob, UpdateJob, AdminUpdateJob, PauseJob, ResumeJob,
              DeleteJob, setJobStatus, Stamped, execVars
<1> QED BY <1>2, <1>3, <1>4, <1>5 DEF ApiStep

LEMMA CancelledFields ==
  ASSUME TypeOK, NEW S, NEW r \in Runs
  PROVE  /\ Sibling(runs[r], Cancelled(S)[r]) /\ Cancelled(S)[r].pc = runs[r].pc
         /\ Cancelled(S)[r].cancelled = (runs[r].cancelled \/ r \in S)
         /\ Cancelled(S)[r].unseen = runs[r].unseen
<1>1. runs[r] \in RunState
  BY DEF TypeOK, ExecutorTypeOK
<1> QED BY <1>1 DEF Cancelled, RunState, Sibling

(* A sync needs the lock, so that no callback is in its critical section,  *)
(* and cancels the run of every entry it removes.                          *)
LEMMA ReconcileKeepsReplace ==
  ASSUME ReplaceInv, SyncReconcile
  PROVE  LockedAlone' /\ ReplaceExclusive'
<1> DEFINE dropped == {entries[j].cancelFn : j \in Dropped}
<1>1. mu = Free /\ runs' = Cancelled(dropped) /\ TypeOK
  BY DEF SyncReconcile, ReplaceInv
<1>2. \A r \in Runs : /\ Sibling(runs[r], runs'[r]) /\ runs'[r].pc = runs[r].pc
                      /\ runs'[r].cancelled = (runs[r].cancelled \/ r \in dropped)
  BY <1>1, CancelledFields
<1> HIDE DEF dropped
<1>3. LockedAlone'
  BY <1>1, <1>2, MarkersAssumption DEF ReplaceInv, LockedAlone, At
<1>4. ASSUME NEW r \in Runs, LiveReplace(r)'
      PROVE  (HasEntry(runs[r].job) /\ EntryOf(r).cancelFn = r)'
  <2>1. LiveReplace(r) /\ r \notin dropped /\ runs'[r].job = runs[r].job
    BY <1>2, <1>4 DEF LiveReplace, OfWorker, InFlight, Sibling
  <2> DEFINE j == runs[r].job
  <2>2. j \in Jobs /\ HasEntry(j) /\ entries[j].cancelFn = r
    BY <1>1, <2>1
       DEF ReplaceInv, ReplaceExclusive, LiveReplace, EntryOf, TypeOK, ExecutorTypeOK, RunState
  <2>3. j \notin Dropped
    BY <2>1, <2>2 DEF dropped
  <2>4. j \notin Added
    BY <2>2, <2>3 DEF Added, Dropped
  <2>5. entries'[j] = entries[j]
    BY <2>2, <2>3, <2>4 DEF SyncReconcile
  <2> QED BY <2>1, <2>2, <2>5 DEF HasEntry, EntryOf
<1> QED BY <1>3, <1>4 DEF ReplaceExclusive, LiveReplace

LEMMA LockKeepsReplace ==
  ASSUME ReplaceInv, NEW r \in Runs, ReplaceLock(r)
  PROVE  LockedAlone' /\ ReplaceExclusive'
<1> DEFINE held == IF HasEntry(runs[r].job) THEN {EntryOf(r).cancelFn} ELSE {}
<1>1. /\ TypeOK /\ At(r, "fired") /\ mu = Free /\ mu' = r /\ UNCHANGED entries
      /\ runs' = [Cancelled(held) EXCEPT ![r].pc = "locked"]
  BY DEF ReplaceLock, ReplaceInv
<1>2. Cancelled(held) \in [Runs -> RunState]
  BY <1>1, CancelledTyped DEF TypeOK
<1>3. \A s \in Runs : s # r => runs'[s] = Cancelled(held)[s]
  BY <1>1, <1>2
<1>4. /\ runs'[r] = [Cancelled(held)[r] EXCEPT !.pc = "locked"]
      /\ Cancelled(held)[r] \in RunState
  BY <1>1, <1>2
<1>5. Sibling(Cancelled(held)[r], runs'[r]) /\ runs'[r].pc = "locked"
  BY <1>4 DEF RunState, Sibling
<1>6. \A s \in Runs : /\ Sibling(runs[s], Cancelled(held)[s])
                      /\ Cancelled(held)[s].pc = runs[s].pc
                      /\ Cancelled(held)[s].cancelled = (runs[s].cancelled \/ s \in held)
  BY <1>1, CancelledFields
<1>7. \A s \in Runs : Sibling(runs[s], runs'[s])
  BY <1>3, <1>5, <1>6 DEF Sibling
<1>8. \A s \in Runs : LiveReplace(s)' => LiveReplace(s) /\ s \notin held
  <2> SUFFICES ASSUME NEW s \in Runs, LiveReplace(s)'
               PROVE  LiveReplace(s) /\ s \notin held
    OBVIOUS
  <2>1. s # r
    BY <1>5 DEF LiveReplace, InFlight
  <2>2. runs'[s].pc = runs[s].pc /\ runs'[s].cancelled = (runs[s].cancelled \/ s \in held)
    BY <1>3, <1>6, <2>1
  <2>3. Sibling(runs[s], runs'[s])
    BY <1>7
  <2> HIDE DEF held
  <2> QED BY <2>2, <2>3 DEF LiveReplace, OfWorker, InFlight, Sibling
<1>9. \A s \in Runs : LiveReplace(s)' => runs'[s].job # runs'[r].job
  <2> SUFFICES ASSUME NEW s \in Runs, LiveReplace(s)', runs'[s].job = runs'[r].job
               PROVE  FALSE
    OBVIOUS
  <2>1. LiveReplace(s) /\ s \notin held /\ runs[s].job = runs[r].job
    BY <1>7, <1>8 DEF Sibling
  <2>2. HasEntry(runs[s].job) /\ EntryOf(s).cancelFn = s
    BY <2>1 DEF ReplaceInv, ReplaceExclusive, LiveReplace
  <2> QED BY <2>1, <2>2 DEF EntryOf
<1>10. \A s \in Runs : At(s, "locked")' => s = r
  <2> SUFFICES ASSUME NEW s \in Runs, At(s, "locked")', s # r
               PROVE  FALSE
    OBVIOUS
  <2>1. At(s, "locked")
    BY <1>3, <1>6 DEF At
  <2>2. mu = s
    BY <2>1 DEF ReplaceInv, LockedAlone
  <2> QED BY <1>1, <2>2, MarkersAssumption
<1>11. LockedAlone'
  BY <1>1, <1>7, <1>9, <1>10 DEF LockedAlone, OfWorker, Sibling, ReplaceLock
<1>12. ReplaceExclusive'
  <2> SUFFICES ASSUME NEW s \in Runs, LiveReplace(s)'
               PROVE  (HasEntry(runs[s].job) /\ EntryOf(s).cancelFn = s)'
    BY DEF ReplaceExclusive, LiveReplace
  <2>1. LiveReplace(s) /\ runs'[s].job = runs[s].job
    BY <1>7, <1>8 DEF Sibling
  <2>2. HasEntry(runs[s].job) /\ EntryOf(s).cancelFn = s
    BY <2>1 DEF ReplaceInv, ReplaceExclusive, LiveReplace
  <2> QED BY <1>1, <2>1, <2>2 DEF HasEntry, EntryOf
<1> QED BY <1>11, <1>12

LEMMA SwapKeepsReplace ==
  ASSUME ReplaceInv, NEW r \in Runs, ReplaceSwap(r)
  PROVE  LockedAlone' /\ ReplaceExclusive'
<1> DEFINE j == runs[r].job
<1>1. /\ TypeOK /\ At(r, "locked") /\ mu = r /\ j \in Jobs
      /\ \A s \in Runs : At(s, "locked") => s = r
      /\ \A s \in Runs : LiveReplace(s) => runs[s].job # j
  BY DEF ReplaceSwap, ReplaceInv, LockedAlone, TypeOK, ExecutorTypeOK, RunState
<1>2. PICK unseen \in SUBSET Runs : runs' = [runs EXCEPT ![r] = Spawned(r, unseen)]
  BY DEF ReplaceSwap, Pending
<1>3. /\ Sibling(runs[r], Spawned(r, unseen)) /\ Spawned(r, unseen).pc = "insert"
  BY <1>1, SpawnedFields
<1>4. runs'[r] = Spawned(r, unseen) /\ \A s \in Runs : s # r => runs'[s] = runs[s]
  BY <1>1, <1>2 DEF TypeOK, ExecutorTypeOK
<1>5. LockedAlone'
  BY <1>1, <1>3, <1>4 DEF LockedAlone, At
<1>6. entries' = [entries EXCEPT ![j] = Held(r)] /\ entries \in [Jobs -> Entry \cup {NoEntry}]
  BY <1>1 DEF ReplaceSwap, TypeOK, SchedulerTypeOK
<1>7. Held(r) # NoEntry /\ Held(r).cancelFn = r
  <2>1. CASE HasEntry(j)
    <3>1. entries[j] \in Entry
      BY <1>1, <1>6, <2>1 DEF HasEntry
    <3>2. Held(r) = [entries[j] EXCEPT !.cancelFn = r]
      BY <2>1 DEF Held, EntryOf
    <3>3. Held(r) \in Entry /\ Held(r).cancelFn = r
      BY <3>1, <3>2 DEF Entry
    <3> QED BY <3>3, NothingAssumption
  <2>2. CASE ~HasEntry(j)
    <3>1. Held(r) \in Entry /\ Held(r).cancelFn = r
      BY <2>2 DEF Held, Entry
    <3> QED BY <3>1, NothingAssumption
  <2> QED BY <2>1, <2>2
<1>8. ASSUME NEW s \in Runs, LiveReplace(s)'
      PROVE  (HasEntry(runs[s].job) /\ EntryOf(s).cancelFn = s)'
  <2>1. CASE s = r
    <3>1. runs'[r].job = j
      BY <1>3, <1>4 DEF Sibling
    <3> QED BY <1>1, <1>6, <1>7, <2>1, <3>1 DEF HasEntry, EntryOf
  <2>2. CASE s # r
    <3>1. LiveReplace(s) /\ runs'[s] = runs[s]
      BY <1>4, <1>8, <2>2 DEF LiveReplace, OfWorker, InFlight
    <3>2. runs[s].job \in Jobs /\ runs[s].job # j
      BY <1>1, <3>1 DEF TypeOK, ExecutorTypeOK, RunState
    <3>3. HasEntry(runs[s].job) /\ EntryOf(s).cancelFn = s
      BY <3>1 DEF ReplaceInv, ReplaceExclusive, LiveReplace
    <3> HIDE DEF j
    <3> QED BY <1>6, <3>1, <3>2, <3>3 DEF HasEntry, EntryOf
  <2> QED BY <2>1, <2>2
<1> QED BY <1>5, <1>8 DEF ReplaceExclusive, LiveReplace

LEMMA VanishFields ==
  ASSUME TypeOK, NEW p \in Procs, Vanish(p), NEW r \in Runs
  PROVE  /\ Sibling(runs[r], runs'[r])
         /\ runs'[r].pc \in {runs[r].pc, "dead"}
         /\ runs'[r].pc = "dead" \/ runs'[r] = runs[r]
         /\ runs[r].proc = p => runs'[r].pc \in {"idle", "done", "dead"}
<1>1. runs[r] \in RunState
  BY DEF TypeOK, ExecutorTypeOK
<1> QED BY <1>1 DEF Vanish, RunState, Sibling

LEMMA ReplaceNext == ReplaceInv /\ [Next]_vars => ReplaceInv'
<1> SUFFICES ASSUME ReplaceInv, [Next]_vars PROVE ReplaceInv'
  OBVIOUS
<1>1. TypeOK /\ TypeOK'
  BY NextTyped DEF ReplaceInv
<1> SUFFICES LockedAlone' /\ ReplaceExclusive'
  BY <1>1 DEF ReplaceInv
<1>2. CASE SchedulerStep
  <2>1. CASE SyncQuery \/ SyncQueryTruncated
    <3>1. UNCHANGED <<entries, mu, runs>>
      BY <2>1 DEF SyncQuery, SyncQueryTruncated, execVars
    <3>2. Quiet
      BY <3>1 DEF Quiet, LiveReplace, InFlight, OfWorker, At
    <3> QED BY <3>2, QuietKeepsReplace
  <2>2. CASE SyncReconcile
    BY <2>2, ReconcileKeepsReplace
  <2>3. ASSUME NEW r \in Runs, Fire(r)
        PROVE  LockedAlone' /\ ReplaceExclusive'
    <3>1. PICK c \in cron : Captured(r, c.job, Worker, c.policy, "fired")
      BY <2>3 DEF Fire
    <3> DEFINE new == [runs[r] EXCEPT !.pc = "fired", !.job = c.job, !.proc = Worker,
                                      !.policy = c.policy]
    <3>2. c.job \in Jobs /\ c.policy \in Policies /\ "fired" \in PCs /\ runs[r] \in RunState
      BY <1>1 DEF TypeOK, SchedulerTypeOK, ExecutorTypeOK, Registration, PCs
    <3>3. new \in RunState
      BY <3>2, WorkerAssumption, RunUpdates
    <3>4. new.pc = "fired"
      BY <3>2 DEF RunState
    <3>5. runs' = [runs EXCEPT ![r] = new] /\ UNCHANGED <<entries, mu>> /\ At(r, "idle")
      BY <2>3, <3>1 DEF Captured, Fire, schedVars
    <3> HIDE DEF new
    <3>6. Quiet
      BY <1>1, <3>3, <3>4, <3>5, OneRunQuiet DEF LiveReplace, InFlight, At
    <3> QED BY <3>6, QuietKeepsReplace
  <2>4. ASSUME NEW r \in Runs, ReplaceLock(r) \/ ReplaceSwap(r)
        PROVE  LockedAlone' /\ ReplaceExclusive'
    BY <2>4, LockKeepsReplace, SwapKeepsReplace
  <2> QED BY <1>2, <2>1, <2>2, <2>3, <2>4 DEF SchedulerStep
<1>3. CASE ApiStep /\ UNCHANGED <<schedVars, crashes>>
  BY <1>1, <1>3, ApiQuiet, QuietKeepsReplace
<1>4. ASSUME NEW r \in Runs,
             (Dispatch(r) \/ ExecutorStep(r)) /\ UNCHANGED <<schedVars, crashes>>
      PROVE  LockedAlone' /\ ReplaceExclusive'
  BY <1>1, <1>4, DispatchQuiet, ExecutorQuiet, QuietKeepsReplace
<1>5. CASE WorkerCrash
  <2>1. \A r \in Runs : /\ Sibling(runs[r], runs'[r])
                        /\ runs'[r].pc \in {runs[r].pc, "dead"}
                        /\ runs[r].proc = Worker => runs'[r].pc \in {"idle", "done", "dead"}
    BY <1>1, <1>5, WorkerAssumption, VanishFields DEF WorkerCrash
  <2>2. \A r \in Runs : ~LiveReplace(r)'
    BY <2>1 DEF LiveReplace, OfWorker, InFlight, Sibling
  <2>3. ASSUME NEW r \in Runs, At(r, "locked")'
        PROVE  FALSE
    <3>1. At(r, "locked") /\ OfWorker(r)
      BY <2>1, <2>3 DEF At, ReplaceInv, LockedAlone
    <3> QED BY <2>1, <2>3, <3>1 DEF At, OfWorker
  <2> QED BY <2>2, <2>3 DEF LockedAlone, ReplaceExclusive, LiveReplace
<1>6. CASE ApiCrash
  <2>1. /\ UNCHANGED <<entries, mu>>
        /\ \A r \in Runs : Sibling(runs[r], runs'[r])
                           /\ (runs'[r].pc = "dead" \/ runs'[r] = runs[r])
    BY <1>1, <1>6, ApiAssumption, VanishFields DEF ApiCrash, schedVars
  <2>2. Quiet
    BY <2>1 DEF Quiet, LiveReplace, InFlight, OfWorker, At, Sibling
  <2> QED BY <2>2, QuietKeepsReplace
<1>7. CASE UNCHANGED vars
  <2>1. Quiet
    BY <1>7 DEF vars, execVars, schedVars, Quiet, LiveReplace, InFlight, OfWorker, At
  <2> QED BY <2>1, QuietKeepsReplace
<1> QED BY <1>2, <1>3, <1>4, <1>5, <1>6, <1>7 DEF Next

LEMMA ReplaceInit == Init => ReplaceInv
<1> SUFFICES ASSUME Init PROVE ReplaceInv
  OBVIOUS
<1>1. \A r \in Runs : runs[r].pc = "idle"
  BY DEF Init, ExecutorInit
<1> QED BY <1>1, InitTyped
        DEF ReplaceInv, LockedAlone, ReplaceExclusive, At, InFlight

(* At most one run of a job that the worker started under Replace is not   *)
(* cancelled, and its cancel function is never lost.                       *)
THEOREM ReplaceExclusiveHolds == Spec => []ReplaceExclusive
<1>1. ReplaceInv => ReplaceExclusive
  BY DEF ReplaceInv
<1> QED BY <1>1, ReplaceInit, ReplaceNext, PTL DEF Spec
=============================================================================
