----------------------- MODULE CronPilotPolicy_proof ------------------------
(***************************************************************************)
(* The invariants of CronPilot about the concurrency policy and about the  *)
(* rows of executions, for every set of jobs and runs and every bound.     *)
(*                                                                         *)
(* Both are about what a step does to a run: it ages (Aged), it is left    *)
(* behind by a statement that fails (Strands), or it passes its policy     *)
(* check (Starts); and a step does the last two to one run at most.        *)
(***************************************************************************)
EXTENDS CronPilotSafety_proof, FiniteSetTheorems

Early(r) == runs[r].pc \in {"idle", "fired", "locked", "insert"}

(* The run is past its INSERT, and its row is ended, deleted or flagged.   *)
Over(r) == /\ ~At(r, "insert")
           /\ ~Running(r) \/ (runs[r].policy = "Replace" /\ execs[r].cancelRequested)

Rivals(r, s) == /\ InFlight(r) /\ InFlight(s)
                /\ runs[r].job = runs[s].job /\ runs[r].policy = runs[s].policy
                /\ runs[r].policy # "Allow"

(* Of two runs under the same policy the later one has found the earlier   *)
(* one over or made it so, or could not see it.                            *)
RivalsSettled ==
    \A r, s \in Runs : r # s /\ Rivals(r, s)
        => r \in runs[s].unseen \/ s \in runs[r].unseen \/ Over(r) \/ Over(s)

RowsInserted == \A r \in Runs : Early(r) => ~Running(r)

LockedReplaces == \A r \in Runs : At(r, "locked") => runs[r].policy = "Replace"

PolicyInv == TypeOK /\ RowsInserted /\ LockedReplaces /\ RivalsSettled

(* What StrandedByFaults counts.                                           *)
Left(r) == Running(r) /\ runs[r].pc \in {"stamp", "done"}

-----------------------------------------------------------------------------
(* What a step does to a run.                                              *)

RowAges(r) == Running(r)' => Running(r) /\ (execs[r].cancelRequested => execs'[r].cancelRequested)

InOrder(r) == /\ Early(r)' => Early(r)
              /\ At(r, "locked")' => \/ runs'[r].policy = "Replace"
                                     \/ At(r, "locked") /\ runs'[r].policy = runs[r].policy
              /\ RowAges(r) \/ (At(r, "insert") /\ ~Early(r)')

Onward(r) == InFlight(r)' /\ runs'[r].policy # "Allow" =>
                /\ InFlight(r) /\ (At(r, "insert")' => At(r, "insert"))
                /\ runs'[r].job = runs[r].job /\ runs'[r].policy = runs[r].policy
                /\ runs'[r].unseen = runs[r].unseen

Aged(r) == InOrder(r) /\ Onward(r) /\ (Left(r)' => Left(r))

OthersAge(r) == \A s \in Runs \ {r} : Aged(s)

Strands(r) == OthersAge(r) /\ InOrder(r) /\ Onward(r) /\ faults' = faults + 1

Starts(r) == /\ OthersAge(r) /\ InOrder(r) /\ ~Left(r)'
             /\ \A s \in Runs \ {r} : Rivals(r, s)' => s \in runs'[r].unseen \/ Over(s)'

StepOfPolicy == /\ faults' \in {faults, faults + 1}
                /\ \/ \A s \in Runs : Aged(s)
                   \/ \E r \in Runs : Strands(r) \/ Starts(r)

LEMMA StepKeepsPolicy ==
  ASSUME PolicyInv, StepOfPolicy
  PROVE  RowsInserted' /\ LockedReplaces' /\ RivalsSettled'
<1>1. \A r \in Runs : InOrder(r)
  BY DEF StepOfPolicy, Strands, Starts, OthersAge, Aged
<1>2. RowsInserted' /\ LockedReplaces'
  BY <1>1 DEF PolicyInv, RowsInserted, LockedReplaces, InOrder, RowAges
<1>3. ASSUME NEW r \in Runs, NEW s \in Runs, r # s, Rivals(r, s)', Onward(r), Onward(s)
      PROVE  (r \in runs[s].unseen \/ s \in runs[r].unseen \/ Over(r) \/ Over(s))'
  <2>1. Rivals(r, s) /\ runs'[r].unseen = runs[r].unseen /\ runs'[s].unseen = runs[s].unseen
        /\ InFlight(r)' /\ InFlight(s)' /\ runs'[r].policy # "Allow" /\ runs'[s].policy # "Allow"
    BY <1>3 DEF Rivals, Onward
  <2>2. r \in runs[s].unseen \/ s \in runs[r].unseen \/ Over(r) \/ Over(s)
    BY <1>3, <2>1 DEF PolicyInv, RivalsSettled
  <2>3. \A t \in {r, s} : Over(t) => Over(t)'
    BY <1>1, <1>3, <2>1 DEF Onward, InOrder, RowAges, Over, At
  <2> QED BY <2>1, <2>2, <2>3
<1>4. ASSUME \A s \in Runs : Onward(s) PROVE RivalsSettled'
  <2> SUFFICES ASSUME NEW r \in Runs, NEW s \in Runs, r # s, Rivals(r, s)'
               PROVE  (r \in runs[s].unseen \/ s \in runs[r].unseen \/ Over(r) \/ Over(s))'
    BY DEF RivalsSettled
  <2> QED BY <1>3, <1>4
<1>5. ASSUME NEW r \in Runs, Starts(r) PROVE RivalsSettled'
  <2>1. \A s \in Runs \ {r} : Onward(s)
    BY <1>5 DEF Starts, OthersAge, Aged
  <2>2. \A s \in Runs \ {r} : /\ Rivals(r, s)' => s \in runs'[r].unseen \/ Over(s)'
                              /\ Rivals(s, r)' => Rivals(r, s)'
    BY <1>5 DEF Starts, Rivals
  <2> SUFFICES ASSUME NEW t \in Runs, NEW s \in Runs, t # s, Rivals(t, s)'
               PROVE  (t \in runs[s].unseen \/ s \in runs[t].unseen \/ Over(t) \/ Over(s))'
    BY DEF RivalsSettled
  <2>3. CASE t = r \/ s = r
    BY <2>2, <2>3
  <2>4. CASE t # r /\ s # r
    BY <1>3, <2>1, <2>4
  <2> QED BY <2>3, <2>4
<1> QED BY <1>2, <1>4, <1>5 DEF StepOfPolicy, Strands, OthersAge, Aged

LEMMA StepKeepsStranded ==
  ASSUME faults \in Nat, StrandedByFaults, StepOfPolicy
  PROVE  StrandedByFaults'
<1> DEFINE Lost == {r \in Runs : Left(r)}
<1>1. IsFiniteSet(Lost) /\ Cardinality(Lost) \in Nat /\ IsFiniteSet(Lost')
  <2>1. Lost \in SUBSET Runs /\ Lost' \in SUBSET Runs
    OBVIOUS
  <2> QED BY <2>1, RunsFinite, FS_Subset, FS_CardinalityType
<1>2. Cardinality(Lost) <= faults
  BY DEF StrandedByFaults, Left
<1>3. CASE Lost' \subseteq Lost
  <2>1. Cardinality(Lost') <= Cardinality(Lost) /\ Cardinality(Lost') \in Nat
    BY <1>1, <1>3, FS_Subset, FS_CardinalityType
  <2>2. faults' \in Nat /\ faults <= faults'
    BY DEF StepOfPolicy
  <2>3. Cardinality(Lost') <= faults'
    BY <1>1, <1>2, <2>1, <2>2
  <2> QED BY <2>3 DEF StrandedByFaults, Left
<1>4. ASSUME NEW r \in Runs, Lost' \subseteq Lost \cup {r}, faults' = faults + 1
      PROVE  StrandedByFaults'
  <2>1. IsFiniteSet(Lost \cup {r}) /\ Cardinality(Lost \cup {r}) <= Cardinality(Lost) + 1
        /\ Cardinality(Lost \cup {r}) \in Nat
    <3>1. IsFiniteSet(Lost \cup {r})
          /\ Cardinality(Lost \cup {r}) \in {Cardinality(Lost), Cardinality(Lost) + 1}
      <4> HIDE DEF Lost
      <4> QED BY <1>1, FS_AddElement
    <3> QED BY <1>1, <3>1
  <2>2. Cardinality(Lost') <= Cardinality(Lost \cup {r}) /\ Cardinality(Lost') \in Nat
    BY <1>1, <1>4, <2>1, FS_Subset, FS_CardinalityType
  <2>3. Cardinality(Lost') <= faults'
    BY <1>1, <1>2, <1>4, <2>1, <2>2
  <2> QED BY <2>3 DEF StrandedByFaults, Left
<1>5. CASE \A s \in Runs : Left(s)' => Left(s)
  BY <1>3, <1>5
<1>6. ASSUME NEW r \in Runs, Strands(r) PROVE StrandedByFaults'
  <2>1. Lost' \subseteq Lost \cup {r}
    BY <1>6 DEF Strands, OthersAge, Aged
  <2> QED BY <1>4, <1>6, <2>1 DEF Strands
<1>7. ASSUME NEW r \in Runs, Starts(r) PROVE StrandedByFaults'
  <2>1. Lost' \subseteq Lost
    BY <1>7 DEF Starts, OthersAge, Aged
  <2> QED BY <1>3, <2>1
<1> QED BY <1>5, <1>6, <1>7 DEF StepOfPolicy, Aged

-----------------------------------------------------------------------------
(* What the steps do to the runs they change and to the others.            *)

Same(s, t) == Sibling(s, t) /\ t.pc = s.pc /\ t.unseen = s.unseen

RowsAge == \A r \in Runs : RowAges(r)

LEMMA RowsKept == UNCHANGED execs => RowsAge
  BY DEF RowsAge, RowAges, Running

LEMMA RowsFlagged ==
  ASSUME TypeOK, NEW j, execs' = CancelRequested(j)
  PROVE  /\ RowsAge
         /\ \A s \in Runs : Running(s)' /\ runs[s].job = j => execs'[s].cancelRequested
<1> SUFFICES ASSUME NEW s \in Runs
             PROVE  RowAges(s) /\ (Running(s)' /\ runs[s].job = j => execs'[s].cancelRequested)
  BY DEF RowsAge
<1>1. execs[s] \in ExecRow
  BY DEF TypeOK, TablesTypeOK
<1>2. execs'[s] = IF Running(s) /\ runs[s].job = j
                  THEN [execs[s] EXCEPT !.cancelRequested = TRUE] ELSE execs[s]
  BY DEF CancelRequested
<1> QED BY <1>1, <1>2 DEF RowAges, Running, ExecRow

LEMMA SameAges ==
  ASSUME NEW r \in Runs, Same(runs[r], runs'[r]), RowAges(r)
  PROVE  Aged(r)
<1>1. InOrder(r)
  <2>1. At(r, "locked")' => At(r, "locked") /\ runs'[r].policy = runs[r].policy
    BY DEF Same, Sibling, At
  <2> QED BY <2>1 DEF Same, InOrder, Early
<1>2. Onward(r)
  BY DEF Same, Sibling, Onward, InFlight, At
<1>3. Left(r)' => Left(r)
  BY DEF Same, Left, RowAges
<1> QED BY <1>1, <1>2, <1>3 DEF Aged

(* A run that has left the states in which it matters to its rivals.       *)
LEMMA GoneAges ==
  ASSUME NEW r \in Runs, runs'[r].pc \in {"done", "dead"}, RowAges(r), Left(r)' => Left(r)
  PROVE  Aged(r)
<1>1. ~InFlight(r)' /\ ~Early(r)' /\ ~At(r, "locked")'
  BY DEF InFlight, Early, At
<1> QED BY <1>1 DEF Aged, InOrder, Onward

LEMMA OthersAgeIf ==
  ASSUME TypeOK, NEW r \in Runs, NEW new, runs' = [runs EXCEPT ![r] = new],
         \A s \in Runs \ {r} : RowAges(s)
  PROVE  OthersAge(r) /\ runs'[r] = new /\ \A s \in Runs \ {r} : runs'[s] = runs[s]
<1>1. runs'[r] = new /\ \A s \in Runs \ {r} : runs'[s] = runs[s]
  BY DEF TypeOK, ExecutorTypeOK
<1>2. \A s \in Runs \ {r} : Same(runs[s], runs'[s])
  BY <1>1 DEF Same, Sibling
<1> QED BY <1>1, <1>2, SameAges DEF OthersAge

(* A dispatcher that starts its run sees, or flags, the rows of its rivals,*)
(* except those of the runs it remembers as unseen.                        *)
LEMMA SpawnStarts ==
  ASSUME PolicyInv, NEW r \in Runs, Early(r), NEW unseen \in SUBSET Runs,
         runs' = [runs EXCEPT ![r] = Spawned(r, unseen)],
         RowsAge, faults' \in {faults, faults + 1},
         \A s \in Runs \ {r} :
            Rivals(r, s)' => s \in unseen \/ Over(s)'
  PROVE  StepOfPolicy
<1>1. OthersAge(r) /\ runs'[r] = Spawned(r, unseen)
  BY OthersAgeIf DEF RowsAge, PolicyInv
<1>2. runs'[r].pc = "insert" /\ runs'[r].unseen = unseen
  BY <1>1, SpawnedFields DEF PolicyInv
<1>3. InOrder(r) /\ ~Left(r)'
  BY <1>2 DEF InOrder, Early, At, Left, RowsAge
<1> QED BY <1>1, <1>2, <1>3 DEF StepOfPolicy, Starts

-----------------------------------------------------------------------------
(* The actions.                                                            *)

(* Only r changes, among the runs and among the rows.                      *)
LEMMA OneAges ==
  ASSUME TypeOK, NEW r \in Runs, NEW new, runs' = [runs EXCEPT ![r] = new],
         \A s \in Runs \ {r} : RowAges(s), runs'[r] = new => Aged(r),
         faults' \in {faults, faults + 1}
  PROVE  StepOfPolicy
  BY OthersAgeIf DEF StepOfPolicy, OthersAge

LEMMA ExecutorPolicy ==
  ASSUME PolicyInv, NEW r \in Runs, ExecutorStep(r)
  PROVE  StepOfPolicy
<1>1. /\ TypeOK /\ runs[r] \in RunState /\ execs \in [Runs -> ExecRow] /\ faults \in Nat
      /\ Early(r) => ~Running(r)
  BY DEF PolicyInv, TypeOK, ExecutorTypeOK, TablesTypeOK, RowsInserted
<1>2. Returned(r).pc = "done"
  BY <1>1, ReturnedFields
<1>3. ASSUME NEW label \in PCs
      PROVE  /\ Sibling(runs[r], [runs[r] EXCEPT !.pc = label])
             /\ [runs[r] EXCEPT !.pc = label].pc = label
             /\ [runs[r] EXCEPT !.pc = label].unseen = runs[r].unseen
  BY <1>1, RunFields
<1>4. CASE Insert(r)
  <2>1. At(r, "insert") /\ runs' = [runs EXCEPT ![r] = [runs[r] EXCEPT !.pc = "request"]]
        /\ faults' = faults /\ \A s \in Runs \ {r} : execs'[s] = execs[s]
    BY <1>1, <1>4 DEF Insert
  <2>2. "request" \in PCs
    BY DEF PCs
  <2>3. runs'[r] = [runs[r] EXCEPT !.pc = "request"] => Aged(r)
    BY <1>3, <2>1, <2>2 DEF Aged, InOrder, Onward, Left, Early, At, InFlight, Sibling
  <2> QED BY <1>1, <2>1, <2>3, OneAges DEF RowAges, Running
<1>5. CASE InsertRefused(r) \/ Stamp(r) \/ StampFails(r)
  <2>1. /\ runs' = [runs EXCEPT ![r] = Returned(r)] /\ UNCHANGED execs
        /\ faults' \in {faults, faults + 1} /\ runs[r].pc \in {"insert", "stamp"}
    BY <1>5 DEF InsertRefused, Stamp, StampFails, At, Fault, tableVars
  <2>2. runs'[r] = Returned(r) => Aged(r)
    BY <1>1, <1>2, <2>1, GoneAges, RowsKept DEF RowsAge, Left, Early, Running
  <2> QED BY <1>1, <2>1, <2>2, OneAges, RowsKept DEF RowsAge
<1>6. CASE InsertFails(r)
  <2>1. /\ runs' = [runs EXCEPT ![r] = Returned(r)] /\ At(r, "insert")
        /\ faults' = faults + 1 /\ \A s \in Runs \ {r} : execs'[s] = execs[s]
    BY <1>1, <1>6 DEF InsertFails, Fault
  <2>10. \A s \in Runs \ {r} : RowAges(s)
    BY <2>1 DEF RowAges, Running
  <2>2. OthersAge(r) /\ runs'[r] = Returned(r)
    BY <1>1, <2>10, <2>1, OthersAgeIf
  <2>3. InOrder(r) /\ Onward(r)
    BY <1>2, <2>1, <2>2 DEF InOrder, Onward, Early, At, InFlight
  <2> QED BY <2>1, <2>2, <2>3 DEF StepOfPolicy, Strands
<1>7. CASE Watch(r)
  <2>1. runs' = [runs EXCEPT ![r] = [runs[r] EXCEPT !.cancelled = TRUE]]
        /\ faults' = faults /\ UNCHANGED execs
    BY <1>7 DEF Watch, tableVars
  <2>2. runs'[r] = [runs[r] EXCEPT !.cancelled = TRUE] => Aged(r)
    BY <1>1, <2>1, RunFields, SameAges, RowsKept DEF RowsAge, Same
  <2> QED BY <1>1, <2>1, <2>2, OneAges, RowsKept DEF RowsAge
<1>8. CASE Respond(r) \/ TimeOut(r) \/ Abort(r)
  <2>1. PICK label \in {"response", "error"} : DoRequest(r, label)
    BY <1>8 DEF Respond, TimeOut, Abort
  <2>2. At(r, "request") /\ runs' = [runs EXCEPT ![r] = [runs[r] EXCEPT !.pc = label]]
        /\ faults' = faults /\ UNCHANGED execs
    BY <2>1 DEF DoRequest, tableVars
  <2>3. label \in PCs
    BY DEF PCs
  <2>4. runs'[r] = [runs[r] EXCEPT !.pc = label] => Aged(r)
    BY <1>3, <2>2, <2>3
       DEF Aged, InOrder, Onward, Left, Early, At, InFlight, Sibling, RowAges, Running
  <2> QED BY <1>1, <2>2, <2>4, OneAges, RowsKept DEF RowsAge
<1>9. CASE Finish(r) \/ FinishFails(r)
  <2> DEFINE new == IF At(r, "error") THEN Returned(r) ELSE [runs[r] EXCEPT !.pc = "stamp"]
  <2>1. /\ runs' = [runs EXCEPT ![r] = new] /\ runs[r].pc \in {"response", "error"}
        /\ \A s \in Runs \ {r} : execs'[s] = execs[s]
    BY <1>1, <1>9 DEF Finish, FinishFails, Written, tableVars
  <2> HIDE DEF new
  <2>10. \A s \in Runs \ {r} : RowAges(s)
    BY <2>1 DEF RowAges, Running
  <2>2. OthersAge(r) /\ runs'[r] = new
    BY <1>1, <2>10, <2>1, OthersAgeIf
  <2>3. RowAges(r)
    BY <1>1, <1>9 DEF Finish, FinishFails, tableVars, RowAges, Running, ExecRow
  <2>4. new.pc = "done" \/ (new.pc = "stamp" /\ Sibling(runs[r], new)
                            /\ new.unseen = runs[r].unseen)
    BY <1>2, <1>3 DEF PCs, new
  <2>5. InOrder(r) /\ Onward(r)
    BY <2>1, <2>2, <2>3, <2>4 DEF InOrder, Onward, Early, At, InFlight, Sibling
  <2>6. CASE Finish(r)
    <3>1. ~Running(r)' /\ faults' = faults
      BY <1>1, <2>6 DEF Finish, Running, ExecRow
    <3>2. Aged(r)
      BY <2>5, <3>1 DEF Aged, Left
    <3> QED BY <2>2, <3>1, <3>2 DEF StepOfPolicy, OthersAge
  <2>7. CASE FinishFails(r)
    BY <2>2, <2>5, <2>7 DEF StepOfPolicy, Strands, FinishFails, Fault
  <2> QED BY <1>9, <2>6, <2>7
<1> QED BY <1>4, <1>5, <1>6, <1>7, <1>8, <1>9 DEF ExecutorStep

LEMMA DispatchPolicy ==
  ASSUME PolicyInv, NEW r \in Runs, Dispatch(r)
  PROVE  StepOfPolicy
<1>1. /\ TypeOK /\ runs[r] \in RunState /\ faults \in Nat
      /\ At(r, "fired") /\ Early(r) /\ ~Running(r) /\ UNCHANGED execs
      /\ \A j \in Jobs : Pending(j) \in SUBSET Runs
  BY DEF PolicyInv, TypeOK, ExecutorTypeOK, RowsInserted, Early, At, Dispatch, ForbidSkip,
         ForbidSpawn, ForbidBlind, AllowSpawn, tableVars, Pending
<1>2. CASE ForbidSkip(r)
  <2>1. runs' = [runs EXCEPT ![r] = Returned(r)] /\ faults' = faults
    BY <1>2 DEF ForbidSkip
  <2>2. runs'[r] = Returned(r) => Aged(r)
    BY <1>1, ReturnedFields, GoneAges, RowsKept DEF RowsAge, Left, Running
  <2> QED BY <1>1, <2>1, <2>2, OneAges, RowsKept DEF RowsAge
<1>3. CASE ForbidSpawn(r)
  <2> DEFINE j == runs[r].job
  <2>1. runs' = [runs EXCEPT ![r] = Spawned(r, Pending(j))] /\ ~HasRunning(j) /\ j \in Jobs
        /\ faults' = faults
    BY <1>1, <1>3 DEF ForbidSpawn, RunState
  <2>2. \A s \in Runs \ {r} : runs'[s] = runs[s] /\ runs'[r].job = j
    BY <1>1, <2>1, SpawnedFields DEF TypeOK, ExecutorTypeOK, Sibling
  <2>3. \A s \in Runs \ {r} : Rivals(r, s)' => s \in Pending(j) \/ Over(s)'
    BY <1>1, <2>1, <2>2 DEF Rivals, Pending, HasRunning, Over, At, Running
  <2> HIDE DEF j
  <2> QED BY <1>1, <2>1, <2>3, SpawnStarts, RowsKept
<1>4. CASE ForbidBlind(r)
  <2>1. runs' = [runs EXCEPT ![r] = Spawned(r, Runs)] /\ faults' = faults + 1
    BY <1>4 DEF ForbidBlind, Fault
  <2> QED BY <1>1, <2>1, SpawnStarts, RowsKept
<1>5. CASE AllowSpawn(r)
  <2>1. runs' = [runs EXCEPT ![r] = Spawned(r, {})] /\ runs[r].policy = "Allow"
        /\ faults' = faults
    BY <1>5 DEF AllowSpawn
  <2>2. runs'[r] = Spawned(r, {}) => runs'[r].pc = "insert" /\ runs'[r].policy = "Allow"
    BY <1>1, <2>1, SpawnedFields DEF Sibling
  <2>3. runs'[r] = Spawned(r, {}) => Aged(r)
    BY <1>1, <2>2, RowsKept DEF RowsAge, Aged, InOrder, Onward, Early, At, Left
  <2> QED BY <1>1, <2>1, <2>3, OneAges, RowsKept DEF RowsAge
<1> QED BY <1>2, <1>3, <1>4, <1>5 DEF Dispatch

(* Both dispatchers of Replace flag the rows that they find.               *)
LEMMA ReplacePolicy ==
  ASSUME PolicyInv, NEW r \in Runs, ReplaceSwap(r) \/ TriggerReplace(r)
  PROVE  StepOfPolicy
<1> DEFINE j == runs[r].job
<1>1. /\ TypeOK /\ Early(r) /\ runs[r].policy = "Replace" /\ faults \in Nat
      /\ Pending(j) \in SUBSET Runs
  BY DEF PolicyInv, TypeOK, ExecutorTypeOK, LockedReplaces, ReplaceSwap, TriggerReplace, Early,
         At, Pending
<1>2. CASE /\ execs' = CancelRequested(j) /\ faults' = faults
           /\ runs' = [runs EXCEPT ![r] = Spawned(r, Pending(j))]
  <2>1. /\ \A s \in Runs \ {r} : runs'[s] = runs[s]
        /\ runs'[r].job = j /\ runs'[r].policy = "Replace"
    BY <1>1, <1>2, SpawnedFields DEF TypeOK, ExecutorTypeOK, Sibling
  <2>2. RowsAge /\ \A s \in Runs : Running(s)' /\ runs[s].job = j => execs'[s].cancelRequested
    BY <1>1, <1>2, RowsFlagged
  <2>3. \A s \in Runs \ {r} : Rivals(r, s)' => s \in Pending(j) \/ Over(s)'
    BY <2>1, <2>2 DEF Rivals, Pending, Over, At
  <2> HIDE DEF j
  <2> QED BY <1>1, <1>2, <2>2, <2>3, SpawnStarts
<1>3. CASE /\ UNCHANGED execs /\ faults' = faults + 1
           /\ runs' = [runs EXCEPT ![r] = Spawned(r, Runs)]
  BY <1>1, <1>3, SpawnStarts, RowsKept
<1> QED BY <1>2, <1>3 DEF ReplaceSwap, TriggerReplace, Fault

(* A run id is taken.                                                      *)
LEMMA CapturedPolicy ==
  ASSUME PolicyInv, NEW r \in Runs, At(r, "idle"), NEW j \in Jobs, NEW p \in Procs,
         NEW policy \in Policies, NEW label \in {"fired", "insert"},
         label = "insert" => policy = "Allow",
         Captured(r, j, p, policy, label), UNCHANGED <<execs, faults>>
  PROVE  StepOfPolicy
<1> DEFINE new == [runs[r] EXCEPT !.pc = label, !.job = j, !.proc = p, !.policy = policy]
<1>1. TypeOK /\ runs[r] \in RunState /\ runs' = [runs EXCEPT ![r] = new]
  BY DEF PolicyInv, TypeOK, ExecutorTypeOK, Captured
<1>2. new.pc = label /\ new.policy = policy
  BY <1>1 DEF RunState
<1> HIDE DEF new
<1>3. runs'[r] = new => Aged(r)
  BY <1>2, RowsKept DEF RowsAge, Aged, InOrder, Onward, Early, At, Left, InFlight
<1> QED BY <1>1, <1>3, OneAges, RowsKept DEF RowsAge

(* No run moves, except that its process may die.                          *)
LEMMA AllAge ==
  ASSUME RowsAge, faults' \in {faults, faults + 1},
         \A r \in Runs : Same(runs[r], runs'[r]) \/ runs'[r].pc = "dead"
  PROVE  StepOfPolicy
<1>1. ASSUME NEW r \in Runs PROVE Aged(r)
  <2>1. CASE Same(runs[r], runs'[r])
    BY <2>1, SameAges DEF RowsAge
  <2>2. CASE runs'[r].pc = "dead"
    BY <2>2, GoneAges DEF RowsAge, Left
  <2> QED BY <2>1, <2>2
<1> QED BY <1>1 DEF StepOfPolicy

LEMMA ApiPolicy ==
  ASSUME PolicyInv, ApiStep
  PROVE  StepOfPolicy
<1>1. TypeOK
  BY DEF PolicyInv
<1>2. ASSUME NEW j \in Jobs,
             \/ CreateJob(j) \/ AdminCreateJob(j) \/ UpdateJob(j) \/ AdminUpdateJob(j)
             \/ PauseJob(j) \/ ResumeJob(j) \/ DeleteJob(j)
      PROVE  StepOfPolicy
  <2>1. UNCHANGED <<runs, faults>>
    BY <1>2 DEF CreateJob, AdminCreateJob, UpdateJob, AdminUpdateJob, PauseJob, ResumeJob,
                DeleteJob, setJobStatus, Stamped, execVars
  <2>2. \/ UNCHANGED execs
        \/ execs' = [r \in Runs |-> IF runs[r].job = j THEN NoExec ELSE execs[r]]
    BY <1>2 DEF CreateJob, AdminCreateJob, UpdateJob, AdminUpdateJob, PauseJob, ResumeJob,
                DeleteJob, setJobStatus, Stamped
  <2>3. RowsAge
    BY <2>2 DEF RowsAge, RowAges, Running, NoExec
  <2> QED BY <2>1, <2>3, AllAge DEF Same, Sibling
<1>3. ASSUME NEW r \in Runs, NEW j \in Jobs, TriggerJob(r, j) \/ AdminTriggerJob(r, j)
      PROVE  StepOfPolicy
  <2>1. PICK policy \in Policies, label \in {"fired", "insert"} :
          /\ Captured(r, j, Api, policy, label) /\ At(r, "idle")
          /\ label = "insert" => policy = "Allow"
    <3>1. jobs[j].policy \in Policies /\ "Allow" \in Policies
      BY <1>1 DEF TypeOK, TablesTypeOK, JobRow, Policies
    <3> QED BY <1>3, <3>1 DEF TriggerJob, AdminTriggerJob
  <2>2. UNCHANGED <<execs, faults>>
    BY <1>3 DEF TriggerJob, AdminTriggerJob, tableVars
  <2> QED BY <2>1, <2>2, ApiAssumption, CapturedPolicy
<1> QED BY <1>2, <1>3, ReplacePolicy DEF ApiStep

LEMMA SchedulerPolicy ==
  ASSUME PolicyInv, SchedulerStep
  PROVE  StepOfPolicy
<1>1. TypeOK
  BY DEF PolicyInv
<1>2. CASE SyncQuery \/ SyncQueryTruncated
  <2>1. UNCHANGED <<runs, execs>> /\ faults' \in {faults, faults + 1}
    BY <1>2 DEF SyncQuery, SyncQueryTruncated, tableVars, execVars, Fault
  <2> QED BY <2>1, RowsKept, AllAge DEF Same, Sibling
<1>3. CASE SyncReconcile
  <2>1. PICK S : runs' = Cancelled(S) /\ UNCHANGED <<execs, faults>>
    BY <1>3 DEF SyncReconcile, tableVars
  <2>2. \A r \in Runs : Same(runs[r], runs'[r])
    BY <1>1, <2>1, CancelledFields DEF Same
  <2> QED BY <2>1, <2>2, RowsKept, AllAge
<1>4. ASSUME NEW r \in Runs, Fire(r) PROVE StepOfPolicy
  <2>1. PICK c \in cron : Captured(r, c.job, Worker, c.policy, "fired")
    BY <1>4 DEF Fire
  <2>2. c.job \in Jobs /\ c.policy \in Policies
    BY <1>1 DEF TypeOK, SchedulerTypeOK, Registration
  <2>3. At(r, "idle") /\ UNCHANGED <<execs, faults>>
    BY <1>4 DEF Fire, tableVars
  <2> QED BY <2>1, <2>2, <2>3, WorkerAssumption, CapturedPolicy
<1>5. ASSUME NEW r \in Runs, ReplaceLock(r) PROVE StepOfPolicy
  <2>1. PICK S : runs' = [Cancelled(S) EXCEPT ![r].pc = "locked"]
    BY <1>5 DEF ReplaceLock
  <2>2. At(r, "fired") /\ runs[r].policy = "Replace" /\ UNCHANGED <<execs, faults>>
    BY <1>5 DEF ReplaceLock, tableVars
  <2>3. Cancelled(S) \in [Runs -> RunState] /\ "locked" \in PCs
    BY <1>1, CancelledTyped DEF TypeOK, PCs
  <2>4. /\ \A s \in Runs \ {r} : runs'[s] = Cancelled(S)[s]
        /\ runs'[r] = [Cancelled(S)[r] EXCEPT !.pc = "locked"]
    BY <2>1, <2>3
  <2>5. \A s \in Runs \ {r} : Same(runs[s], runs'[s])
    BY <1>1, <2>4, CancelledFields DEF Same
  <2>6. runs'[r].pc = "locked" /\ runs'[r].policy = "Replace"
    <3>1. Cancelled(S)[r] \in RunState /\ Cancelled(S)[r].policy = "Replace"
      BY <1>1, <2>2, <2>3, CancelledFields DEF Sibling
    <3> QED BY <2>4, <3>1 DEF RunState
  <2>7. Aged(r)
    BY <2>2, <2>6, RowsKept DEF RowsAge, Aged, InOrder, Onward, Early, At, Left, InFlight
  <2>8. \A s \in Runs \ {r} : Aged(s)
    BY <2>2, <2>5, SameAges, RowsKept DEF RowsAge
  <2> QED BY <2>2, <2>7, <2>8 DEF StepOfPolicy
<1> QED BY <1>2, <1>3, <1>4, <1>5, ReplacePolicy DEF SchedulerStep

LEMMA NextOfPolicy == PolicyInv /\ [Next]_vars => StepOfPolicy
<1> SUFFICES ASSUME PolicyInv, [Next]_vars PROVE StepOfPolicy
  OBVIOUS
<1>1. ASSUME NEW p \in Procs, Vanish(p), UNCHANGED <<execs, faults>>
      PROVE  StepOfPolicy
  <2>1. \A r \in Runs : runs'[r].pc = "dead" \/ runs'[r] = runs[r]
    BY <1>1, VanishFields DEF PolicyInv
  <2> QED BY <1>1, <2>1, RowsKept, AllAge DEF Same, Sibling
<1>2. CASE WorkerCrash \/ ApiCrash
  BY <1>1, <1>2, WorkerAssumption, ApiAssumption DEF WorkerCrash, ApiCrash, tableVars
<1>3. CASE UNCHANGED vars
  BY <1>3, RowsKept, AllAge DEF vars, tableVars, execVars, Same, Sibling
<1> QED BY <1>2, <1>3, SchedulerPolicy, ApiPolicy, DispatchPolicy, ExecutorPolicy DEF Next

-----------------------------------------------------------------------------
(* The invariants.                                                         *)

LEMMA PolicyInit == Init => PolicyInv /\ StrandedByFaults
<1> SUFFICES ASSUME Init PROVE PolicyInv /\ StrandedByFaults
  OBVIOUS
<1>1. \A r \in Runs : runs[r].pc = "idle" /\ ~Running(r)
  <2>1. \A r \in Runs : runs[r].pc = "idle"
    BY DEF Init, ExecutorInit
  <2>2. \A r \in Runs : execs[r].status = "none"
    BY DEF Init, TablesInit, NoExec
  <2> QED BY <2>1, <2>2 DEF Running
<1>2. PolicyInv
  BY <1>1, InitTyped DEF PolicyInv, RowsInserted, LockedReplaces, RivalsSettled, Rivals,
                         InFlight, At
<1>3. {r \in Runs : Running(r) /\ runs[r].pc \in {"stamp", "done"}} = {}
  BY <1>1
<1>4. faults = 0
  BY DEF Init, ExecutorInit
<1> QED BY <1>2, <1>3, <1>4, FS_EmptySet DEF StrandedByFaults

LEMMA PolicyNext == PolicyInv /\ [Next]_vars => PolicyInv'
  BY NextOfPolicy, StepKeepsPolicy, NextTyped DEF PolicyInv

LEMMA PolicyImplies == PolicyInv => OverlapOnlyByRace
<1> SUFFICES ASSUME PolicyInv, NEW r \in Runs, NEW s \in Runs, Overlap(r, s),
                    runs[r].policy = runs[s].policy,
                    \/ runs[r].policy = "Forbid"
                    \/ runs[r].policy = "Replace"
                       /\ ~execs[r].cancelRequested /\ ~execs[s].cancelRequested
             PROVE  r \in runs[s].unseen \/ s \in runs[r].unseen
  BY DEF OverlapOnlyByRace
<1>1. r # s /\ Rivals(r, s)
  BY DEF Overlap, Rivals
<1>2. ~Over(r) /\ ~Over(s)
  BY DEF Over, Overlap
<1> QED BY <1>1, <1>2 DEF PolicyInv, RivalsSettled

(* Two runs of a job execute side by side against its policy, Forbid or    *)
(* Replace, only if one of them could not see the other's row when it made *)
(* its check: whatever the worker, the API and the crashes of both do.     *)
THEOREM OverlapOnlyByRaceHolds == Spec => []OverlapOnlyByRace
  BY PolicyInit, PolicyNext, PolicyImplies, PTL DEF Spec

(* The rows that say 'running' after their run has returned without a      *)
(* crash are at most as many as the statements that failed.                *)
THEOREM StrandedByFaultsHolds == Spec => []StrandedByFaults
<1>1. PolicyInv /\ StrandedByFaults /\ [Next]_vars => PolicyInv' /\ StrandedByFaults'
  <2>1. PolicyInv => faults \in Nat
    BY DEF PolicyInv, TypeOK, ExecutorTypeOK
  <2> QED BY <2>1, PolicyNext, NextOfPolicy, StepKeepsStranded
<1> QED BY <1>1, PolicyInit, PTL DEF Spec
=============================================================================
