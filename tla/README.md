# CronPilot: TLA+ models, checks and proofs

CronPilot is the application of this repository: users register HTTP jobs with a
cron expression, a worker calls them on schedule, an API changes and triggers
them, and a webhook receiver plays the server that is called. Next to it stand a
Kafka producer and consumer, and the Kubernetes, Argo CD and Terraform files
that deploy everything. Paths below are relative to the repository.

The heart of the system, and the part modelled first, is what the worker's
scheduler, the two executors and the job handlers do to each other through a
mutex, a map of cancel functions and two PostgreSQL tables.

## Inventory

| Component | State | Operations | What is hard, and what must hold |
|---|---|---|---|
| Tables (`cronpilot-api/db/schema.sql`) | `jobs`, `executions`, `users` | single SQL statements, no transaction anywhere | a decision and the write that depends on it are always two statements |
| Scheduler (`cronpilot-worker/scheduler`) | `entries` (job to EntryID, scheduledAt, cancelFn), mutex `mu`, the cron's registrations | `sync` every minute, callbacks of `makeRunner` in goroutines of their own | rows are read before the lock; callbacks outlive their registration; ghost entries. No cancel function is lost, no registration leaks, changes and pauses reach the schedule |
| Executor (`cronpilot-worker/executor`, `cronpilot-api/executor`) | one goroutine and one watcher per run, `executions` rows | `Run`, `RunWithContext`, `HasRunning`, `run`, `doRequest` | every database error is ignored; crashes orphan rows; two processes. The concurrency policy holds up to the races named below, cancellation ends a run |
| Job handlers (`handler/jobs.go`, `handler/admin.go`) | none but the tables | create, update, pause, resume, delete, trigger, for owners and administrators | manual runs race scheduled ones; the administrator's trigger ignores the policy |
| Accounts (`handler/auth.go`, `handler/admin.go`, `middleware`, `seedAdmin`) | `users`, tokens of 7 days | register, log in, change password, create, change and delete users, seed | count-then-update of the last administrator, compare-then-update of a password, a seed that runs in every process. An administrator remains, a login finds its account, a replaced password was known |
| Frontend, session (`context`, `api/client.js`, sign-in pages, `Profile`, `AdminUsers`, `Header`) | React state, `localStorage`, query cache | sign in and out, forms, dialogs, routes, reload | late and lost answers, other tabs. The lists belong to the account shown, buttons come back, dialogs survive other answers |
| Frontend, job pages (`Jobs`, `JobDetail`, `EditJob`, `NewJob`, `AdminJobs`, `JobForm`) | query cache, form state, pending mutations | buttons and forms over cached rows | fetches, mutations and changes elsewhere overlap. What a page shows catches up, a form loses nothing that nobody typed |
| Listings and reports (`handler/executions.go`, `handler/report.go`, `Report.jsx`) | none | paginated lists, summary, timeline, CSV | the summary is two queries with ignored errors |
| Webhook receiver (`cron-webhook/main.go`, `public/index.html`) | `store` (100 newest), `slowStore`, `broker` of 8-slot channels; the list, counter and running calls of each dashboard | capture, `/slow`, history, clear, event stream, the dashboard's `onmessage` | snapshot before subscribe, dropped events, write and broadcast in different orders, reconnects. Dashboards follow one log and show the store |
| Order pipeline (`kafka-producer`, `kafka-consumer`) | offsets, counters | rate-limited send, burst, process and mark | at-least-once, retries without idempotence, start at the newest offset |
| Deployment (`kubernetes`, `infra`, `.github`) | none | declarative | not modelled |

How they interact: the worker and the API share nothing but the tables; within
the worker the scheduler's callbacks and `sync` share a mutex, a map and the
cron; a browser reaches the API through HTTP requests that carry whatever token
is in `localStorage` when they leave; a job's run calls some server, of which the
webhook receiver is one, and that one pushes events to its open dashboards.

`hazards` in `PROJECT.json` lists every place where this bites, with its line.

## Modules

```
Tables  <-  Executor  <-  Scheduler  <-  CronPilot  <-  MCCronPilot       (TLC)
                      <-  JobsApi    <-             <-  CronPilot_proof   (TLAPS)
                                                          <- CronPilotSafety_proof
                                                               <- CronPilotPolicy_proof
                                                          <- CronPilotSchedule_proof

Accounts  <-  Session         <-  MCSession         Console  <-  MCConsole
                              <-  Session_proof              <-  Console_proof
          <-  MCAccounts                            Feed  <-  Webhook  <-  MCWebhook
          <-  Accounts_proof                        (INSTANCE)         <-  Webhook_proof
                 <-  Session_proof
```

* `Tables`: the columns of `jobs` and `executions` through which processes
  interact. A job row is `new`, `active`, `paused` or `deleted`; `valid` says
  whether the cron library parses its expression and time zone; `updatedAt`
  counts the statements that stamped `NOW()` (`clock`). The outcomes success and
  failure are one status, `ended`.
* `Executor`: `runs[r]` is the life of one call of `run()`, from the moment a
  dispatcher captured the job (`fired`) over the INSERT, the request, the final
  UPDATE (`response` or `error`) and `last_run_at` (`stamp`) to `done`. `Fault`
  is a database call that fails, and `InsertFails` also covers the INSERT that
  was committed and whose answer was lost. `unseen` is a history field: the runs
  that a policy check could not see, because they had passed their own check and
  had not inserted their row.
* `Scheduler`: `sync` is two steps, `SyncQuery` (rows read without a lock into
  `snap`) and `SyncReconcile` (everything under `s.mu`, with the EntryIDs handed
  out in any order). A Replace callback is two steps as well, `ReplaceLock` and
  `ReplaceSwap`, because a database call stands between them while the mutex is
  held. `Fire` may take any registration at any time; the callback keeps the job
  as it was registered and may run after the registration is gone. `seenAt`,
  `snapAt`, `syncedAt` and `ver` are history: they record which version of the
  row was read, and no guard reads them, except `ver` of a snapshot row, which is
  the `updatedAt` that `sync` compares.
* `JobsApi`: one action per handler that writes. Whose job it is does not matter
  to these properties, so that owner and administrator share an action where
  their statements differ in the owner only, and the deletion of a user is one
  `DeleteJob` per job.
* `CronPilot`: the two processes together, `Dispatch` (the Allow and Forbid
  branches, which callback and trigger handler share), crashes of either process
  and the properties. A restarted worker is the empty scheduler; its goroutines
  are `dead` and their rows stay.

* `Accounts`: the table `users` and every handler that reads or writes it. A
  handler is an action of a request `q` and its answer `a`. `ChangePassword`
  (compare, then UPDATE) and a demotion in `AdminUpdateUser` (count, then UPDATE)
  are two actions, and between them the request is held in a slot. A mail
  address is a pair of what it is and how its letters were typed; `Normalised`
  is `ToLower(TrimSpace(...))`, which `Register`, `Login` and `seedAdmin` apply
  and `AdminCreateUser` does not. A token keeps the role it was signed with, so
  `AccountsNext` offers every token that was ever handed out. `overtaken` and
  `causes` are history.
* `Session`: one tab of a browser over those handlers. `auth` is the state of
  `AuthContext`, `stored` is `localStorage`, shared with other tabs; a request
  in `calls` is sent, held between two statements, answered, and then lands in
  whatever page is open. Unmounting a page forgets its state (`Mount`) but not
  its requests (`Leave`).
* `Console`: the pages of one job over the query cache. `rows` is the history of
  the row and the cache holds, per query key, the version it was read at, so
  that "stale" is a comparison of numbers. `Ask` and `LandFetch` are a fetch,
  `Invalidate` is `invalidateQueries` (with prefix matching, and the restart of
  mounted queries), `Serve` is the answer of the handlers in `jobs.go` and
  `admin.go`, `onSuccess` the continuation with its `navigate`. What the query
  library does is external and modelled from the options in `main.jsx`.
* `Webhook`: the handlers of `cron-webhook` as goroutines (`phase` says where
  each is between its write and its broadcast), the event stream of each
  dashboard (`link`: copy the entries, copy the slow calls and write both,
  subscribe) and the script of the page. `log`, `seen`, `missed`, `crossed` and
  `early` are history.
* `Feed`: the abstract specification of the live view: one log of events, and
  tabs that begin with a copy and apply the log in its order, without a gap as
  long as they are `whole`. `Webhook` implements it (`FollowsFeed`).

Lines named `Mutant` are not part of the specification: each is a plausible
wrong version of the definition that follows, and the property it breaks is
named in `PROJECT.json`.

## Properties

| Property | Says |
|---|---|
| `ReplaceExclusive` | of the worker's runs of a Replace job at most one is not cancelled, and the entry's `cancelFn` is its own |
| `CronOwned` | registrations and entries match: no job fires twice per tick, no registration is beyond the reach of `sync` |
| `MissedOnlyByRace` | after a sync, an old version is registered only if the update fell between the sync's query and its `time.Now()`; a pause is never missed |
| `OverlapOnlyByRace` | two runs execute against their policy only if one checked while the other was between its check and its INSERT, or a check failed |
| `StrandedByFaults` | a finished run leaves a `running` row only if its final UPDATE failed, one row per failure (rows of dead processes apart) |
| `CancelTakesEffect` | a run flagged in the table leaves its request although the server never answers, unless the job's deletion takes the flag away first |
| `PauseTakesEffect`, `PauseCancelsReplace` | a paused or deleted job is unscheduled, and its worker Replace run is cancelled |
| `ActiveGetsScheduled` | an active, valid job gets a registration, whatever ghost entries exist |
| `AdminLostOnlyBy` | some row is an administrator, unless a demotion was overtaken between count and UPDATE, or a deletion came with a token older than its holder's demotion |
| `LoginFindsAccount` | whoever registered is found by a login in any letters, and nobody else is |
| `OldPasswordProved` | `ChangePassword` replaces the password that was compared, unless it was overtaken |
| `DataOfShownAccount` | the lists of a tab are those of the account in its header, unless a session was replaced without `queryClient.clear` |
| `AnyClientSendsThis` | the tab sends only requests that `AccountsNext` covers, so that `Accounts` is about this client too |
| `DialogOutlivesAnswers` | an answer closes only the dialog it came from, or one opened while a save was pending |
| `SubmitComesBack` | a submit button that was disabled is enabled again, or its page is left |
| `OwnChangesMarked` | after a change of the tab's own, an older copy is marked stale, apart from a fetch that could not be cancelled and from the deletion on `JobDetail`, which invalidates nothing |
| `RefusedOnlyIfOutdated` | a button that is offered is refused only if the copy shown is outdated (or the timeout was typed) |
| `HeadersLostOnlyByAdmin` | saving a job loses its headers only in `AdminJobs` or from a copy that had none |
| `FormOutlivesAnswers` | an answer takes away no form but its own, or one opened while it was under way |
| `ShownCatchesUp` | an open page shows the row as it is, once the row rests |
| `StoredAreShown`, `SlowsAreShown` | a dashboard that missed nothing shows the store and the running `/slow` calls once all is quiet |
| `DoubledOnlyByInit` | a request is listed twice only if the copy held it before its broadcast |
| `CountOfList` | the counter is the length of a non-empty list |
| `FollowsFeed` | `Webhook` implements `Feed` |
| `TabsCatchUp` | once connections hold every dashboard is live and has read everything |

Three statements the repository makes are refuted: see "Findings".

## Runs

| Run | Bounds | Shows |
|---|---|---|
| `core` | 1 job, 2 runs, all policies, 1 fault, 1 crash, 1 edit | all safety properties of the scheduler together (4.6 million states) |
| `threeruns` | 1 Replace job, 3 runs, 1 edit, no fault | a late callback, its successor and a manual run (3.0 million states) |
| `twojobs` | 2 jobs, 1 run, 1 fault, 1 crash, 1 edit | one sync that drops and adds, in any EntryID order (1.3 million states) |
| `cancel` | 1 Replace job without client timeout, 2 runs, 1 edit | `CancelTakesEffect`, `PauseCancelsReplace` |
| `schedule` | 1 Replace job, 1 run, 2 edits, 1 fault, 1 crash | `PauseTakesEffect`, `ActiveGetsScheduled` |
| `accounts` | 2 rows, 2 addresses in 2 typings, 2 passwords, 2 held requests, 1 start of a process | the four properties of `Accounts` under every request (116 000 states) |
| `session` | 2 rows, 2 requests under way, 2 events, 1 start of a process | a tab, its late and lost answers, another tab (370 000 states) |
| `console` | 1 mutation and 1 fetch at a time, 3 versions of the row | the job pages (990 000 states) |
| `webhook` | 2 requests, 1 slow call, 1 clear, 1 dashboard, store of 1, channel of 2, 1 fault | the receiver, its dashboard and the refinement (2.6 million states) |
| `stale`, `forbid`, `skip` | as small as the finding allows | the three violations |

In the first five and the last three the bounds are `MaxClock` (statements that
stamp `updated_at`; the clock starts at 1), `MaxFaults`, `MaxCrashes` and the
number of runs, with two processes. They are where the interesting cases are: a
late callback, a ghost entry, an update inside a sync's window and a lost cancel
function need one job, two runs and one edit; the order of EntryIDs and a
truncated list need two jobs; three runs are the first number at which a run can
be replaced twice. Runs are interchangeable, and the safety runs use that
symmetry, as `accounts` uses that of its slots.

`accounts`: two administrators who demote each other are the smallest race for
the last one, and two slots the smallest in which a held request is overtaken;
`MaxBoots` counts starts of a process. `session`: `MaxEvents` bounds the
requests that change something together with what happens elsewhere, so that a
late answer meets a second request, a sign-in elsewhere or a deletion.
`console`: the row has as many versions as `MaxRows`, so that a copy can be one
or two changes behind; `MaxFlights` keeps one fetch under way, which a mutation
and a change made elsewhere can cross. `webhook`: a store of one entry (for 100)
and a channel of two events (for 8) are full within the run, the store when the
second request arrives and the channel when a request, a slow call and a clear
are announced to a dashboard that reads nothing; `MaxFaults` counts broken
connections and restarts.

Deadlock is not checked: when every run id, row, request and event of a run is
used up and nothing is under way, nothing has to happen any more.

## Fairness

`FairSpec` (`CronPilot`) assumes that the ticker goroutine keeps syncing
(`SyncQuery`, `SyncReconcile`), that a Replace callback which waits for the mutex
or holds it goes on, that the watcher ticks, and that a cancelled or timed-out
request returns: the Go scheduler, `sync.Mutex`, the tickers and `net/http`
guarantee this. Nothing is assumed of the server that is called (`Respond`), of
the API's users or of the cron library. The database answers in the end; a
failed query is one of at most `MaxFaults`. Weak fairness is enough: nothing but
a callback holding the mutex disables `SyncReconcile`, and it lets go.

`Session`: the server takes a request and finishes it, and the browser runs the
continuation of an answer (`Handle`, `HandleRest`, `Land`). An answer that is
lost is an answer too: axios reports a network error. Nothing is assumed of the
user.

`Console`: a query of a page that stays open is polled (`refetchInterval` of 30
seconds, `main.jsx:11`) and what was asked is answered: `Ask(k) \/ LandFetch(k)`
keeps happening for each mounted key.

`Webhook`: a goroutine that has written goes on to broadcast, the delay of
`/slow` passes or its caller leaves, and a dashboard that is open connects, reads
what is sent and connects again after an error (the timer in `onerror`). The
bound on faults says that connections hold in the end, without which no
dashboard could catch up.

## Proofs

All proofs hold for every value of the constants and all bounds, under the named
assumptions of the modules. Of `CronPilot`: `Jobs` and `Runs` are finite
(EntryIDs are counted), the markers `NoRun`, `Free`, `Syncing`, `NoEntry` and
`NoRow` are not ordinary values, worker and API are different processes, the
bounds are natural numbers. Of `Accounts`: the seeded row, address and password
exist, `Blank` is no password and `Nobody` no session. Of `Session`: a request of
the tab is held in a slot of its own. Of `Webhook`: the store and a channel hold
at least one, requests, slow calls and clears are different things, and the number
of faults is a natural number. Of `Console`: the bounds are natural numbers, and
the history of the row holds at least one row.

Every safety invariant and every action property of the passing runs is a theorem.

* `TypeCorrect` (`CronPilot_proof`): `TypeOK` is inductive. The lemmas about
  `FreshIDs` show that new EntryIDs are natural numbers above all earlier ones.
* `ReplaceExclusiveHolds` (`CronPilotSafety_proof`): `ReplaceExclusive` is not
  inductive, because between `ReplaceLock` and `ReplaceSwap` the old run must
  already be cancelled and nobody else may enter. `ReplaceInv` adds
  `LockedAlone`: the callback between its two steps holds the mutex, and no
  other worker run of its job is alive. Most actions are `Quiet` (they touch
  neither entries nor mutex and revive no run), which one lemma per component
  establishes.
* `OverlapOnlyByRaceHolds` (`CronPilotPolicy_proof`): of two runs of a job under
  the same policy, Forbid or Replace, the later one has found the earlier one
  over, or made it so, or could not see it (`RivalsSettled`). The invariant needs
  that a run before its INSERT has no row (`RowsInserted`) and that only a
  Replace callback is between lock and swap (`LockedReplaces`). What a step does
  to the runs is one of three things: they age (`Aged`: no row is revived, no
  flag taken back, no `unseen` forgotten), one is left behind by a statement that
  fails (`Strands`), or one passes its check (`Starts`, and then
  it has marked every rival it could see). `StepOfPolicy` shows this action by action.
* `StrandedByFaultsHolds` (same module): a step that ages the runs adds nothing
  to the set that is counted, and one that strands a run adds one and counts one
  fault.
* `CronOwnedHolds` (`CronPilotSchedule_proof`): needs that EntryIDs in use are
  at most `cronSeq` and are not shared (`IDsUsed`, `IDsUnique`); otherwise a
  removal could hit the registration of another job.
* `MissedOnlyByRaceHolds` (same module): needs the clock to bound every stamp
  (`Clocked`), the snapshot to be as old as `snapAt` says (`SnapFaithful`) and
  every registration to be as old as its entry's `seenAt` (`CronFaithful`).
  `JobMoves` says what any other step can do to a job row.
* `AccountsTypes`, `AdministratorsStay`, `LoginsFindAccounts`, `PasswordsProved`
  (`Accounts_proof`): one inductive invariant, `AccountsInv`, for all four. It
  says of the requests between two statements what is still true of what their
  first statement saw: a held demotion that was not overtaken has another
  administrator beside its target (`DemotionsSound`), a held password change
  that was not overtaken compared the password the row still has (`HeldSound`).
  Every write that could falsify this marks the slot as overtaken, which is what
  `Outdates` and `Overtake` are shown to do. `AddressesSound` is the unique
  address together with its normal form. One lemma per action; those that only
  insert share `NewRow`.
* `SessionTypes`, `TabIsAClient`, `SessionImplementsAccounts`, `TabUsersAreFound`
  (`Session_proof`): a tab is one of the clients that `Accounts` describes, so
  that every safety theorem about `Accounts` holds of the table behind it;
  `TabUsersAreFound` is one such corollary. `SessionInv` says that what is in
  `localStorage`, in answers and in requests under way are tokens of rows that
  were born (`Tokens`); `TokensStay` says that a row that was born stays so, also
  when it is deleted while the request is on its way. `CallKept` lists the four
  things that can become of a request, one lemma per group of actions.
* `DataOfShownAccountHolds`, `DialogsOutliveAnswers` (same module): unless a
  sign-in or sign-out passed the tab by, what it shows as its session is what is
  stored, and the lists are of that account (`Owned`). And the button that is
  disabled while a form waits keeps requests of forms apart: at most one is on
  its way, and a dialog that was opened with none on its way is the one it was
  sent from (`DialogSound`). `TabInv` is both.
* `ConsoleTypes`, `OwnChangesMarkedHolds`, `RefusedOnlyIfOutdatedHolds`,
  `HeadersLostOnlyByAdminHolds`, `FormOutlivesAnswersHolds` (`Console_proof`): one
  inductive invariant, `ConsoleInv`, for all five. The history of the row only
  grows (`Grown`), so that what a copy said of its version stays true of it.
  `KeySound` says that a fetch which left before the tab's own last change, and
  was not restarted by it, is recorded as having missed it, which is what makes
  `OwnChangesMarked` inductive; `CallSound` that a request was offered for the
  version it names; `FormSound` that a form which crossed no answer when it was
  opened has, at most, its own save on its way. `InvalidateSound` is the lemma
  about `invalidateQueries`; there is one lemma per action.
* `WebhookTypes`, `CountsLists`, `DashboardsFollow` (`Webhook_proof`): the
  strengthened invariant `WebhookInv` says that the places in a tab's channel
  and connection are a stretch of the log (`InOrder`): they belong to the log
  (`Linked`), ascend (`Ascending`), and lie without a gap up to its end as long
  as nothing was missed (`Gapless`). The refinement is a step simulation: a
  broadcast is `Publish`, `OnInit` is `Resync`, `onmessage` is `Receive`, a
  dropped event or a lost connection is `Lag`, and everything else stutters.
* `StoredAreShownHolds`, `SlowsAreShownHolds`, `DoubledOnlyByInitHolds` (same
  module): `Settled` says nothing of a tab that is not at rest, so the invariant
  (`ShownInv`) says what each tab will show once it has handled the stretch of
  the log that is on its way. An entry of the store is in the list with no clear
  behind it, or in that stretch, or will be broadcast (`Stored`). A slow call
  that runs is in the copy or its start is on its way; of one that is over
  nothing is left, or the last that is on its way is its end (`Slowed`), so
  that events which happened before the copy of the slow calls was read do no
  harm. What the copy held and was broadcast by then does not come again
  (`Doubles`). On the server's side (`OfRequests`, `OfSlows`) a request is stored
  and broadcast once, and while a clear is not yet broadcast every entry is one
  that `crossed` it.

Only model-checked: the temporal properties (`CancelTakesEffect`,
`PauseTakesEffect`, `PauseCancelsReplace`, `ActiveGetsScheduled`,
`SubmitComesBack`, `ShownCatchesUp`, `TabsCatchUp`), since liveness under fairness
is out of the prover's reach. The history variables (`unseen`, `crossed`, `early`,
`missed`, `overtaken` and the like) name the exceptions in these properties; no
guard reads them.

## Findings

* `stale` (`scheduler.go:143`): `scheduledAt` is `time.Now()` at registration,
  not the row's `updated_at` that the comment at `scheduler.go:19` promises. An
  update that is committed while a sync is between its query and its
  registration is older than `scheduledAt` and newer than what was registered:
  the worker goes on calling the old URL, with the old policy, until the job is
  edited again or the worker restarts.
* `forbid` (`scheduler.go:153`, `handler/jobs.go:173`): `HasRunning` and the
  INSERT are separate statements in separate goroutines, and a manual and a
  scheduled run of a Forbid job can execute together, against the sentence that
  the form shows (`JobForm.jsx:8`).
* `skip` (`executor.go:50`): a crash leaves a `running` row that nothing ever
  repairs, and a Forbid job with such a row is skipped from then on.

Noticed while modelling, and modelled as the code has it:

* `AdminCreateUser` stores the address as it was typed, while `Login` looks it
  up in lower case (`byAdmin` in `LoginFindsAccount`).
* A timeout that was typed into `JobForm` is a string, which `jobInput` does not
  decode: the save is refused whatever the number, so the timeout of a job
  cannot be changed from the pages (`numeric` in `Console`).
* The form of `AdminJobs` starts without the job's headers and submits the whole
  row, which erases them.
* The deletion on `JobDetail` invalidates no query, and a `GET` that answers 404
  keeps the data that was shown: a deleted job stays on the page that has it
  open.
* `onSuccess` runs after its component is gone: a late answer navigates away
  from another page, or closes another dialog.
* No page reacts to 401: with an outdated or missing token the lists stay as
  they are.
* In the webhook's dashboard the counter keeps the last number after a clear,
  the list has no cap while the server keeps 100 entries, and
  `MAX_ENTRIES=500` (`docker-compose.yml:58`, `.env.example:2`) is read by
  nothing.

## Not modelled

* `handler/executions.go`, `handler/report.go`, `Report.jsx`, `ExecutionTable`,
  the counters of `Dashboard`: read-only queries that PostgreSQL aggregates and
  that the pages draw. They change no state; what they compute is SQL.
* `CronHelper`, layout, wording, and the parsing of cron expressions (`valid`
  stands for its verdict).
* The Kafka producer and consumer: what is hard about them (offsets, retries,
  generations) is the client library's and the broker's; the repository only
  configures it.
* Deployment files: they declare state and have no control flow.
* bcrypt, the signature and the expiry of tokens: a token is what it claims.
* In `Console`, the policies Forbid and Replace of a triggered job (they are in
  `CronPilot`), and the entry selected in the webhook's dashboard.
* The ownership of jobs: owner and administrator share an action where their
  statements differ in the owner only.

## Plan

What is left: an abstract specification of what a row of `executions` goes
through (inserted as running, flagged at most, ended once) with `CronPilot` shown to
implement it; and a property of the order in which `last_run_at` is written,
which whichever run writes last decides.
