------------------------------ MODULE Console ------------------------------
(***************************************************************************)
(* The job pages of one tab over the query cache they share, for one job   *)
(* (of policy Allow), while other tabs and the scheduler change the same   *)
(* row: Dashboard, Jobs with its JobCards, NewJob, JobDetail and EditJob,  *)
(* or AdminJobs.  The pages of the user and that of the administrator      *)
(* share no key of the cache; a tab is followed in the part it is in.      *)
(*                                                                         *)
(* rows is the history of the row: a copy of it in the cache, in an answer *)
(* on its way or in an open form is named by its place in that history.    *)
(* The cache (@tanstack/react-query) is external: it keeps the data of a   *)
(* query when a refetch is an error; it fetches what a page shows when the *)
(* page is opened and again and again (a fetch that fails and is tried     *)
(* again is one that takes longer here); invalidateQueries marks the data, *)
(* and refetches at once what is on the screen, in place of a fetch that   *)
(* is under way, unless there is no data yet.                              *)
(***************************************************************************)
EXTENDS Naturals, Sequences, FiniteSets

CONSTANTS Calls,       \* identities of the tab's mutations on their way
          MaxRows,     \* bound: length of the history of the row
          MaxFlights   \* bound: fetches under way when another is begun

ASSUME BoundAssumption == MaxRows \in Nat \ {0} /\ MaxFlights \in Nat

VARIABLES part,        \* the pages the tab stays in
          rows,        \* the row of table jobs, now and before
          page,        \* the route
          cache,       \* the data of each query
          fetch,       \* the fetch of each query
          form,        \* the JobForm of EditJob, or of the drawer of AdminJobs
          calls,       \* the mutations
          own          \* history: the row that the tab's last answered change made

vars == <<part, rows, page, cache, fetch, form, calls, own>>

Keys   == {"jobs", "job", "admin"}   \* ['jobs'], ['jobs', id], ['admin-jobs']
UserPages  == {"jobs", "new", "detail", "edit"}
AdminPages == {"admin", "users"}
Pages  == UserPages \cup AdminPages
Status == {"active", "paused"}

(* A save makes a new row even if its plain fields, which are left out     *)
(* here, say the same.                                                     *)
Row == [state : {"unborn", "live", "deleted"}, status : Status, headers : BOOLEAN]

Version == 0..MaxRows                \* 0: no data

(* late: history, the data came by a fetch that had missed an invalidation.*)
Entry   == [v : Version, mark : {"fresh", "invalid", "late"}]
NoEntry == [v |-> 0, mark |-> "fresh"]

(* v: the oldest row that the answer can hold, 0 if nothing is under way;  *)
(* missed: history, the key was invalidated and the fetch went on.         *)
Flight  == [v : Version, missed : BOOLEAN]
Idle    == [v |-> 0, missed |-> FALSE]
Request == [v |-> Len(rows), missed |-> FALSE]

(* crossed: history, an answer that changes the page was under way when    *)
(* the form was opened.                                                    *)
Form   == [v : Version, crossed : BOOLEAN]
NoForm == [v |-> 0, crossed |-> FALSE]

(* remove: the deletion on JobDetail.                                      *)
Ops == {"pause", "resume", "delete", "remove", "trigger", "save", "create"}

(* v: while it is sent the copy of the row that the page showed, 0 if the  *)
(* timeout of the form was typed into; then the row it made, 0 if none.    *)
(* here: the form that a save or a creation came from has not been left.   *)
Call   == [phase : {"free", "sent", "done"}, op : Ops, v : Version, here : BOOLEAN]
NoCall == [phase |-> "free", op |-> "pause", v |-> 0, here |-> TRUE]

(* Every variable keeps its type; no copy is newer than the row.           *)
TypeOK ==
    /\ part \in {"user", "admin"}
    /\ rows \in Seq(Row) /\ Len(rows) \in 1..MaxRows
    /\ page \in IF part = "user" THEN UserPages ELSE AdminPages
    /\ cache \in [Keys -> Entry] /\ fetch \in [Keys -> Flight]
    /\ form \in Form
    /\ calls \in [Calls -> Call]
    /\ own \in 0..Len(rows)
    /\ \A k \in Keys : cache[k].v <= Len(rows) /\ fetch[k].v <= Len(rows)

row == rows[Len(rows)]
Live == row.state = "live"

(* useQuery: what each page shows.                                         *)
KeysOf(p) == CASE p = "jobs"                    -> {"jobs"}
               [] p \in {"detail", "edit"}     -> {"job"}
               [] p = "admin"                  -> {"admin"}
               [] p \in {"new", "users"}       -> {}

Shown(k) == k \in KeysOf(page) /\ cache[k].v # 0
Copy(k)  == rows[cache[k].v]

(* The page offers the buttons of a row that its copy of the list holds.   *)
Offers(k) == Shown(k) /\ Copy(k).state = "live"

Init ==
    /\ rows \in {<<[state |-> s, status |-> "active", headers |-> s = "live"]>> :
                    s \in {"unborn", "live"}}
    /\ \/ part = "user" /\ page = "jobs"
       \/ part = "admin" /\ page = "admin"
    /\ cache = [k \in Keys |-> NoEntry] /\ fetch = [k \in Keys |-> Idle]
    /\ form = NoForm
    /\ calls = [c \in Calls |-> NoCall]
    /\ own = 0

-----------------------------------------------------------------------------
(* The row changes.                                                        *)
Becomes(r) == Len(rows) < MaxRows /\ rows' = Append(rows, r)

(* Mutant: only an active job can be edited.                               *)
AcceptsActiveOnly(q) ==
    CASE q.op = "pause"   -> Live /\ row.status = "active"
      [] q.op = "resume"  -> Live /\ row.status = "paused"
      [] q.op = "create"  -> q.v # 0
      [] q.op = "save"    -> Live /\ q.v # 0 /\ row.status = "active"
      [] OTHER            -> Live

(* The handlers: whom they accept, and what becomes of the row.            *)
(* setJobStatus names the status it wants to find; UpdateJob and           *)
(* CreateJob cannot decode a timeout that is a string.                     *)
Accepts(q) ==
    CASE q.op = "pause"   -> Live /\ row.status = "active"
      [] q.op = "resume"  -> Live /\ row.status = "paused"
      [] q.op = "create"  -> q.v # 0
      [] q.op = "save"    -> Live /\ q.v # 0
      [] OTHER            -> Live

(* Mutant: the form of the owner leaves the headers out, too.              *)
ResultWithoutHeaders(q) ==
    CASE q.op = "pause"   -> [row EXCEPT !.status = "paused"]
      [] q.op = "resume"  -> [row EXCEPT !.status = "active"]
      [] q.op \in {"delete", "remove"} -> [row EXCEPT !.state = "deleted"]
      [] q.op = "trigger" -> row
      [] q.op = "create"  -> [row EXCEPT !.state = "live", !.headers = FALSE]
      [] q.op = "save"    -> [row EXCEPT !.headers = FALSE]

(* The owner's form carries the headers of the copy it was opened with;    *)
(* the administrator's leaves them out, and AdminUpdateJob writes {}.      *)
Result(q) ==
    CASE q.op = "pause"   -> [row EXCEPT !.status = "paused"]
      [] q.op = "resume"  -> [row EXCEPT !.status = "active"]
      [] q.op \in {"delete", "remove"} -> [row EXCEPT !.state = "deleted"]
      [] q.op = "trigger" -> row
      [] q.op = "create"  -> [row EXCEPT !.state = "live", !.headers = FALSE]
      [] q.op = "save"    -> [row EXCEPT !.headers = part = "user" /\ rows[q.v].headers]

Answered(c, w) == [calls EXCEPT ![c].phase = "done", ![c].v = w]

(* A run leaves the row as it is; a second creation makes another job.     *)
Alters(q) == q.op # "trigger" /\ (q.op = "create" => row.state = "unborn")

(* A refusal and a lost answer change nothing on the page but a message.   *)
Serve(c) ==
    LET q == calls[c] IN
    /\ q.phase = "sent"
    /\ \/ ~Accepts(q) /\ calls' = [calls EXCEPT ![c] = NoCall] /\ UNCHANGED rows
       \/ Accepts(q) /\ ~Alters(q) /\ calls' = Answered(c, 0) /\ UNCHANGED rows
       \/ /\ Accepts(q) /\ Alters(q)
          /\ Becomes(Result(q)) /\ calls' = Answered(c, Len(rows) + 1)
    /\ UNCHANGED <<part, page, cache, fetch, form, own>>

Lose(c) ==
    /\ calls[c].phase # "free"
    /\ calls' = [calls EXCEPT ![c] = NoCall]
    /\ UNCHANGED <<part, rows, page, cache, fetch, form, own>>

(* Another tab, through the same handlers, or the scheduler, which stamps  *)
(* the row and adds to the executions that are listed with it.             *)
Elsewhere ==
    /\ Live
    /\ \E r \in {row, [row EXCEPT !.status = "paused"], [row EXCEPT !.headers = FALSE],
                 [row EXCEPT !.state = "deleted"]} :
          Becomes(r)
    /\ UNCHANGED <<part, page, cache, fetch, form, calls, own>>

-----------------------------------------------------------------------------
(* The query cache.                                                        *)
Flying     == {k \in Keys : fetch[k] # Idle}
Mounted(k) == k \in KeysOf(page)

(* Mutant: only what is marked is fetched again.                           *)
AskIfMarked(k) ==
    /\ Mounted(k) /\ fetch[k] = Idle /\ Cardinality(Flying) < MaxFlights
    /\ cache[k].v = 0 \/ cache[k].mark = "invalid"
    /\ fetch' = [fetch EXCEPT ![k] = Request]
    /\ UNCHANGED <<part, rows, page, cache, form, calls, own>>

(* A page that is opened, refetchInterval, the window's focus.             *)
Ask(k) ==
    /\ Mounted(k) /\ fetch[k] = Idle /\ Cardinality(Flying) < MaxFlights
    /\ fetch' = [fetch EXCEPT ![k] = Request]
    /\ UNCHANGED <<part, rows, page, cache, form, calls, own>>

(* An answer that a later action of the page may depend on: of the calls   *)
(* that navigate or close the drawer when they succeed.                    *)
Moves(q) == /\ q.phase # "free"
            /\ q.op \in {"save", "create", "remove"}
Crossed == \E c \in Calls : Moves(calls[c])

(* GetJob of a deleted job is an error, and an error keeps the data.       *)
Missing(k, v) == k = "job" /\ rows[v].state # "live"

LandFetch(k) ==
    /\ fetch[k] # Idle
    /\ fetch' = [fetch EXCEPT ![k] = Idle]
    /\ \E v \in fetch[k].v..Len(rows) :
          IF Missing(k, v) THEN UNCHANGED <<cache, form>>
          ELSE /\ cache' = [cache EXCEPT ![k] = [v |-> v,
                            mark |-> IF fetch[k].missed THEN "late" ELSE "fresh"]]
               /\ form' = IF page = "edit" /\ k = "job" /\ form = NoForm
                          THEN [v |-> v, crossed |-> Crossed] ELSE form
    /\ UNCHANGED <<part, rows, page, calls, own>>

(* invalidateQueries({ queryKey }) for the keys with that prefix.          *)
Restarts(k) == Mounted(k) /\ (fetch[k] = Idle \/ cache[k].v # 0)
Invalidate(ks) ==
    /\ cache' = [k \in Keys |-> IF k \in ks /\ cache[k].v # 0
                                THEN [cache[k] EXCEPT !.mark = "invalid"] ELSE cache[k]]
    /\ fetch' = [k \in Keys |->
          IF k \notin ks THEN fetch[k]
          ELSE IF Restarts(k) THEN Request
          ELSE [fetch[k] EXCEPT !.missed = fetch[k] # Idle]]

-----------------------------------------------------------------------------
(* The pages.                                                              *)
Opened(p) == IF p = "edit" /\ cache["job"].v # 0
             THEN [v |-> cache["job"].v, crossed |-> Crossed] ELSE NoForm

(* The sidebar; the names and Edit links of the rows shown; the arrow.     *)
Links ==
    IF part = "admin" THEN AdminPages
    ELSE {"jobs", "new"}
         \cup {p \in {"detail", "edit"} : Offers("jobs") \/ Shown("job")}

Saving == {c \in Calls : calls[c].phase # "free" /\ calls[c].op \in {"save", "create"}}

Go(p) ==
    /\ p \in Links \ {page}
    /\ page' = p /\ form' = Opened(p)
    /\ calls' = [c \in Calls |-> [calls[c] EXCEPT !.here = c \notin Saving]]
    /\ UNCHANGED <<part, rows, cache, fetch, own>>

(* AdminJobs, setEditJob(job) and setEditJob(null).                        *)
setEditJob ==
    /\ page = "admin"
    /\ \/ form = NoForm /\ Offers("admin")
          /\ form' = [v |-> cache["admin"].v, crossed |-> Crossed]
       \/ form # NoForm /\ form' = NoForm
    /\ UNCHANGED <<part, rows, page, cache, fetch, calls, own>>

(* Header, the Refresh button.                                             *)
Refresh == Invalidate(Keys) /\ UNCHANGED <<part, rows, page, form, calls, own>>

Mutate(q) ==
    /\ \E c \in Calls : /\ calls[c].phase = "free"
                        /\ calls' = [calls EXCEPT ![c] = q]
    /\ UNCHANGED <<part, rows, page, cache, fetch, form, own>>

Sent(op, v) == [NoCall EXCEPT !.phase = "sent", !.op = op, !.v = v]

(* JobCard, JobDetail and the table of AdminJobs: Run, Pause or Resume by  *)
(* the status the copy shows, Delete.  A copy of a job outlives it here.   *)
Press(op) ==
    \E k \in Keys :
        /\ Offers(k) /\ page \in {"jobs", "detail", "admin"} /\ (page = "admin" => form = NoForm)
        /\ op \in {"delete", "remove"} => (op = "remove" <=> page = "detail")
        /\ op = "pause"  => Copy(k).status = "active"
        /\ op = "resume" => Copy(k).status = "paused"
        /\ Mutate(Sent(op, cache[k].v))

(* isPending of the component's own save.                                  *)
Pending == \E c \in Saving : calls[c].here

(* JobForm: every field is a string once it was typed into, the timeout as *)
(* well; numeric says that it was left as it came.                         *)
Save(numeric) ==
    /\ form # NoForm /\ ~Pending
    /\ Mutate(Sent("save", IF numeric THEN form.v ELSE 0))

Create(numeric) ==
    /\ page = "new" /\ row.state = "unborn" /\ ~Pending
    /\ Mutate(Sent("create", IF numeric THEN 1 ELSE 0))

-----------------------------------------------------------------------------
(* Mutant: the key is taken for the list alone.                            *)
InvalidatesExact(q) == CASE part = "admin"   -> {"admin"}
                         [] q.op = "remove"  -> {}
                         [] OTHER -> {"jobs"}

(* The keys with the prefixes that onSuccess names.                        *)
Invalidates(q) == CASE part = "admin"    -> {"admin"}
                    [] q.op = "remove"   -> {}
                    [] OTHER -> {"jobs", "job"}

(* Mutant: a save goes to the page of the job from AdminJobs, too.         *)
TargetAnyPart(q) == CASE q.op \in {"save", "create"} -> "detail"
                      [] q.op = "remove" -> "jobs"
                      [] OTHER -> page

(* Mutant: Run goes to the page of the job, to show the execution.         *)
TargetOfRun(q) ==
    CASE q.op \in {"save", "create", "trigger"} /\ part = "user" -> "detail"
      [] q.op = "remove" -> "jobs"
      [] OTHER -> page

(* navigate after a save, a creation and a deletion on JobDetail.          *)
Target(q) == CASE q.op \in {"save", "create"} /\ part = "user" -> "detail"
               [] q.op = "remove" -> "jobs"
               [] OTHER -> page

(* onSuccess of the mutation, also when its component is gone.             *)
onSuccess(c) ==
    LET q == calls[c] IN
    /\ q.phase = "done"
    /\ Invalidate(Invalidates(q))
    /\ page' = Target(q)
    /\ form' = IF Target(q) # page \/ (q.op = "save" /\ q.here)
               THEN NoForm ELSE form
    /\ own' = IF Invalidates(q) = {} \/ q.v <= own THEN own ELSE q.v
    /\ calls' = [d \in Calls |->
          IF d = c THEN NoCall
          ELSE [calls[d] EXCEPT !.here = @ /\ ~(Target(q) # page /\ d \in Saving)]]
    /\ UNCHANGED <<part, rows>>

Next ==
    \/ \E p \in Pages : Go(p)
    \/ setEditJob \/ Refresh
    \/ \E op \in {"pause", "resume", "delete", "remove", "trigger"} : Press(op)
    \/ \E numeric \in BOOLEAN : Save(numeric) \/ Create(numeric)
    \/ \E c \in Calls : Serve(c) \/ Lose(c) \/ onSuccess(c)
    \/ Elsewhere
    \/ \E k \in Keys : Ask(k) \/ LandFetch(k)

(* A page that stays open polls, and what was asked is answered.           *)
Fairness == \A k \in Keys : WF_vars(Ask(k) \/ LandFetch(k))

Spec == Init /\ [][Next]_vars /\ Fairness
-----------------------------------------------------------------------------
(* Once a change of the tab's own has been answered, what the tab holds of *)
(* the row shows it or is marked to be fetched again; except what a fetch  *)
(* brought that had read before the change and could not be cancelled, and *)
(* except a deletion on JobDetail, which marks nothing.                    *)
OwnChangesMarked ==
    \A k \in Keys : cache[k].v # 0 /\ cache[k].v < own => cache[k].mark # "fresh"

(* A request that the page offered is refused only if the row has changed  *)
(* since the copy the page shows, or if the timeout was typed into.        *)
RefusedOnlyIfOutdated ==
    \A c \in Calls : calls[c].phase = "sent" /\ ~Accepts(calls[c])
        => calls[c].v \in 0..Len(rows) - 1

(* A save loses the headers of a job only in AdminJobs, or if its form was *)
(* opened on a copy without them.                                          *)
HeadersLostOnlyByAdmin ==
    [][\A c \in Calls : calls[c].phase = "sent" /\ calls'[c].phase = "done"
                         /\ row.headers /\ ~row'.headers
          => part = "admin" \/ ~rows[calls[c].v].headers]_vars

(* An answer closes no form but the one it was sent from, unless it was    *)
(* under way when the form was opened: then it takes the user away from    *)
(* whatever was typed by then.                                             *)
FormOutlivesAnswers ==
    [][\A c \in Calls : (calls[c].phase = "done" /\ calls'[c] = NoCall
                         /\ form # NoForm /\ form' = NoForm)
          => form.crossed \/ (calls[c].op = "save" /\ calls[c].here)]_vars

(* What a page shows catches up with the row, if the page stays open and   *)
(* the row stays as it is; but JobDetail and EditJob show a deleted job    *)
(* for as long as they are open.                                           *)
ShownCatchesUp ==
    \A k \in Keys : Mounted(k) ~> \/ ~Mounted(k) \/ cache[k].v = Len(rows)
                                  \/ (k = "job" /\ ~Live)
=============================================================================
