# AI Calendar in TLA+

This directory is a model of the parts of AI Calendar that several requests,
a database and Google Calendar work on together: schedule plans, their
revalidation and application, the synchronization of calendar changes back
into plans, the Google connection they share, and the task backlog; of what the
planner page and the day view tell a user about them; and of the way from a
text through the AI's draft, the user's review and the scheduler to a preview.
TLC checks the models on small instances, and TLAPS proves every safety
invariant that the runs check, their action properties and both refinements,
for every instance.

Paths are relative to `src/`.

## 1. The system

AI Calendar is one FastAPI process (`uvicorn app.main:app`) in front of a
PostgreSQL database, with Google Calendar as the provider. A request has one
SQLAlchemy `Session` (`app/core/database.py`); `expire_on_commit=False`, and
the isolation level is PostgreSQL's default, READ COMMITTED. Routes declared
`def` run in a thread pool; routes declared `async def` run on the event loop,
give it up at every call to Google, and make their (synchronous) database calls
on it.

### Components

| Component | State | Operations | Interacts with |
|---|---|---|---|
| Schedule plans `app/schedule_plans/service.py` | `schedule_plans`, `scheduled_sessions` | create from preview (replay, first version, revision), confirm, obsolete | backlog entry of a linked plan; reservations read by revalidation and scheduling |
| Revalidation `app/schedule_plans/revalidation.py` | `schedule_plan_revalidations` | revalidate, with optional `request_id` | reads plan and reservations, awaits FreeBusy, moves the plan's status |
| Apply `app/schedule_plans/apply.py` | `calendar_event_mappings` | apply, retry of a partially applied plan | claims the plan, awaits one event creation per session, settles the plan |
| Google client `app/calendar_integration/google/client.py` | none | FreeBusy, list, get, create event; retries | external |
| Calendar pull `app/calendar_sync/pull.py` | mapping's `last_synced_snapshot`, `sync_status`; `external_calendar_changes` | sync one mapping | awaits the provider's copy of the event |
| External calendar policy `app/domain/external_calendar_policy.py` | none (pure) | evaluate a change | called by processing |
| Change processing `app/calendar_sync/processing.py` | session times, `Task.deadline`, findings, deadline history, `processing_status` | process one change | reads the pull's results, writes plan and task |
| Backlog `app/backlog/` | `backlog_entries` | file, defer, reactivate, resolve, cancel, preview, draft a plan | task duration, plans that reserve time, confirmation |
| Tasks, preferences `app/services/` | `tasks`, `user_preferences` | create, read, patch | read by everybody, locked by few |
| Connections and OAuth `app/calendar_integration/service.py` | `calendar_connections`, `calendar_selections`, `calendar_oauth_states` | start, callback, credentials with refresh, list, select, disconnect | holds the connection row's lock while Google is awaited |
| Availability, scheduler `app/availability/`, `app/scheduling/` | none (pure) | free intervals; greedy placement | called by previews |
| Consistency, deadline policy, snapshots `app/calendar_sync/` | none (pure) | comparison of a plan with its events | no runtime caller for the checker |
| Planner `app/planner/` | none (read model) | build the page for a range of days | several SELECTs of one request over plans, sessions, mappings |
| Calendar day `app/calendar_day/` | none (read model) | build the view of a day | awaits Google once per selected calendar, then reads the day's sessions |
| AI intake `app/ai_intake/` | none | turn a text into a task draft | language-model client; its answer is validated, then reviewed |
| Task confirmation `app/task_confirmation/` | none (pure) | apply a review to a draft | called by the workflow, and on its own |
| Preview workflow `app/workflows/`, `app/services/scheduling.py` | none | preview a text, preview the stored tasks | intake, confirmation, scheduler; reservations |
| Routers, UI, migrations | none | parsing, error mapping, pages, schema | |

### What is hard in it

*Reads before a lock or an await.* Plan creation looks up its idempotency key
and selects the group's newest version before it holds a row; revalidation
reads plan and reservations, awaits Google, and only then locks; pull
synchronization compares, after its await, with a snapshot loaded before it,
since `SELECT ... FOR UPDATE` does not refresh an object the session already
holds; processing reads sessions and task without a lock.

*One transaction per step.* Apply commits the claim, each session and the final
status separately. A crash, a cancelled request, an exception that is not a
`CalendarIntegrationError` or a lost answer can fall between any two.

*Several writers of one row.* A plan's status is written by creation of its
successor, confirmation, obsoletion, revalidation, and apply; a mapping's status
by pulls, failed pulls and processing; a task's deadline by processing and by
clients; an open backlog entry by eight operations and by plan confirmation.

*Views put together from several reads.* The planner's statements and the day
view's calls to Google are separated from each other by whatever commits in
between, and the answer must still not contradict itself.

*Guesses that nobody confirmed.* A draft marks which of its values the AI made
up; they pass through review modes, per-field reviews, step reviews and default
rules before they reach the scheduler.

*Retries.* Create and revalidation are idempotent by key, backlog drafts by a
derived key, changes by a transition hash, Google events by the session's id.

Section "hazards" of `PROJECT.json` lists these with their lines and the
properties that are about them.

## 2. Modules

```
SchedulePlans ----+-- PlanRevalidation --+
                  |                      +-- SchedulePlanSystem -- MCSchedulePlanSystem
                  +-- PlanApply ---------+    |      |      |
                       |   |                  | PlanLifecycle (abstract)
                       |   |                  |             |
                       |   |   SchedulePlanSystemProofs -- PlanLifecycleProofs
                       |   |                                    |
                       |   |                             ReadModelProofs
                       |   |
                       |   +-- SessionQuery --+-- CalendarDay --+
                       |                      |                 +-- ReadModelSystem
                       |                      +-- Planner ------+   (with SchedulePlanSystem)
                       |                                               |
SchedulePlans -- Backlog                                        MCReadModelSystem
                       |
                  BacklogSystem --+-- MCBacklogSystem
                       |          +-- BacklogProofs
                 BacklogLifecycle (abstract)

CalendarPull ---------+
                      +-- ChangeProcessing -- CalendarSyncSystem -- MCCalendarSyncSystem
ExternalCalendarPolicy+                              |
                                               CalendarSyncProofs

Availability --+-- Scheduler ----------+-- PreviewWorkflow -- MCPreviewWorkflow
               |                       |     (with TaskConfirmation)
               +-- AvailabilityLoops --+-- SchedulerLoops -- MCScheduler
                                              |
                                       SchedulerProofs -- PreviewWorkflowProofs
                                                            (with PreviewWorkflow)

CalendarConnection -- ConnectionProofs
```

A module that `EXTENDS` another shares its variables; a composition conjoins
each component's actions with `UNCHANGED` for the others' own variables. The
operators whose names contain an underscore and a suffix (`UpdatePlan_NoClock`,
`FileInsert_SecondOpen`) are plausible wrong versions of the definition they are
named after; no specification uses them. They show that the checked properties
depend on the code being as it is.

**SchedulePlans.** A plan is `<<group, version>>`, its sessions a set of time
slots. `status`, `session`, `key`, `updates` are columns; `updates` stands for
`updated_at`, which the code compares only for equality. `creation[r]` is what
create request `r` holds: key looked up (`CreateReplay`, `CreateMiss`), newest
version selected (`CreateRead`), outcome (`CreateRefused`, `CreateCommit`,
`CreateRollback`). `CreateRead` is a step of its own because a
`SELECT ... ORDER BY version DESC LIMIT 1 FOR UPDATE` that has to wait goes on
with the row it waited for, although a newer one may have been inserted by then;
the unique constraint on group and version then decides. `Confirm` and
`Obsolete` lock first and never await: one action each.

**PlanRevalidation.** `reval[r]` is a request's local state through
`RevalidateBegin`, `ProviderAnswers`, and one of `RevalidateCommit`,
`RevalidateRejected`, `RevalidateDuplicate`; `RevalidateReplay` answers a known
`request_id`. The provider's answer is any set of slots, a partial answer or a
failure. Of a request that has returned, only what its audit row is found by is
kept, and nothing if it wrote none (`Returns`). `verdict` is a history variable.
**SchedulePlanSystem**, which composes the three parts, adds another,
`overtaken`: the revalidations in flight whose plan has changed its status since
they read it, whoever changed it and whatever the status is now.

**PlanApply.** `run[p]` is the apply request at work on plan `p`: sessions left
to do, tries of the current call. `EventCreated`, `CallFails`, `SessionFails`,
`MappingCommits`, `ApplySettles` are the loop; `ApplyAbort` is a crash or an
uncaught exception. `event` is Google's side: a call that fails may have
created the event, and creating it again answers 409, which the client takes as
success.

**PlanLifecycle** is the contract: the documented transition table, versions
drafted one after the other, sessions published one at a time and only by an
applying plan, and statuses that tell the truth about what is published.
`SchedulePlanSystem!ImplementsLifecycle` says the detailed system refines it,
with published sessions mapped to mapping rows.

**ExternalCalendarPolicy** translates the pure policy function: missing events,
projected intervals, deadline extension, window and overlap conflicts.

**CalendarPull.** `calendar` is Google's side, changed by `EditEvent` at any
time; `baseline`, `sync`, `changes` are the database; `pull[r]` holds the
snapshot the request loaded before its await. `PullCommit` writes a column only
if the new value differs from the loaded one (`Written`), as the ORM does.
`PullDuplicate` is the rollback on the transition-hash constraint.

**ChangeProcessing.** `ProcessRead` takes the change row's lock and reads the
aggregate, `ProcessCommit` writes all decisions and marks the change processed.
Clients may edit the deadline between the two (`UpdateTaskDeadline`). That one
request's reads are one step is an abstraction; reads and writes are not.
Refusals (the policy raises, the decision is stale, the change is processed
already) change nothing and are not actions.

**Backlog.** One task and its entries. Durations are counted in sessions. Entry
operations lock the entry and then the task, so each is one action; filing an
entry reads the task before it locks anything (`FileRead`, then `FileInsert` or
`FileAnswer`). `DraftLinked` and `ConfirmLinked` are the two places where plans
and backlog meet; `EditTask` is a PATCH of the task, which looks at neither.
**BacklogSystem** composes it with `PlanApply`, because sessions that fail to
be applied no longer count as booked. The key of a plan drafted from an entry is
derived from the entry, its attempts and the preview; the code hashes a client's
key in as well, so that a client may draft the same preview twice under two keys,
which the model leaves out (it drafts different selections of one preview).
**BacklogLifecycle** is the contract: one
open entry per task, and closed entries stay closed.

**SessionQuery** is the statement the planner and the day view share: sessions
of plans in given statuses, with the mapping each is joined with.

**CalendarDay** is one day-view request. `DayConnect` gets a connection's
credentials, `DayListed` and `DayListFails` are the awaits, one per selected
calendar, and `DayMerge` reads the sessions after all of them and merges the two
(`EventItems`, `CancelledItems`, `SessionItems`, `SyncStatus`). A user may have
several accounts connected, and the calendar plans are applied to may be shared
with another of them and selected there too: both connections then list its
events, and only the one the mapping names links them (`LinkedTo`). What a calendar
answers about an event is a choice (there, cancelled, gone), since people edit
their calendars meanwhile; only events that apply has created by then can be in
the answer.

**Planner** is one planner request in its two statements about plans:
`PlannerSessions` and `PlannerPlans`, between which other requests commit.
`Readiness`, the split into proposed and confirmed plans and `NeedsAttention`
follow from what was read. **ReadModelSystem** runs one of the two readers
beside the whole plan subsystem.

**TaskConfirmation** is `apply_review` as operators: what the contract's and
the review's validators let in (`IsDraft`, `IsReview`), the review of fields
(`Resolved`) and of steps (`StepValue`, `FinalOrder`), what it refuses
(`IsRefused`) and what gets past it (`StepEscapes`), the confirmed task and the
audit. Texts are blank, longer than 255 characters, longer than 10,000, or none
of these; a text is otherwise compared, never read.

**PreviewWorkflow** takes a request through its stages: the AI's answer
(`AIAnswers`, `AIFails`), the review (`Confirm`, `ConfirmFails`), window checks
and mapping to a scheduler's task (`MappingError`, `MapTask`), and then
`Scheduler`'s own steps; and the stored request, which previews a user's
pending tasks around their reservations (`LoadTasks`). The error codes of the
workflow are outcomes, and so is the exception that it does not catch. Two codes
are not: `invalid_confirmed_duration`, since a confirmed duration is positive,
and `scheduling_preview_failed`, which takes preferences or wall-clock times
that the types of a request do not let in.

**Availability** says what free time is, as sets of half-open intervals in
whole minutes of local time: `Merged` are the maximal intervals a set covers,
`Gaps` the maximal parts of an interval that nothing reserved overlaps.
**AvailabilityLoops** is how `calculator.py` and `_subtract_intervals` compute
them, as folds over sorted sequences: the n-th of the sorted intervals is the
one that has n - 1 of them before it. **SchedulerLoops** says that the two agree
on what scheduling leads to.

**Scheduler** is `schedule_tasks`. The input is chosen in `Init`; one step is
one round of `_place_task`'s loop: `Place` adds the selected candidate's block
and subtracts it from `remaining`, `GiveUp` leaves a task that has no
candidate. `pending` is what the outer loop has still to do. Blocks are
reserved with their breaks, gaps are cut from the allowed parts of the free
intervals, and `Candidate`, `Score` and `Better` translate length, start and
choice. The properties say what a preview may contain without the clipping and
cutting that the code does (`Admissible`, `Apart`, `Lengths`).

**CalendarConnection** is one `calendar_connections` row, its OAuth states and
the requests that need its tokens: reads (FreeBusy, list of calendars), day
views, which refresh at most once per calendar and never expire a connection
over a 401, pulls, disconnections and OAuth callbacks. `request[r].seen` is the
object the request's session holds: `SELECT ... FOR UPDATE` does not refresh
it, and a commit writes only the attributes that differ from what was loaded
(`Differences`, `Updated`). `lock` is the row lock, which `connection_credentials`
takes and keeps while it awaits a refresh (`Credentials`, `RefreshAnswers`); a
pull commits before it calls Google, a read does not. Database calls are
synchronous, so that a call that meets the lock of another coroutine stops the
event loop (`Wait`); only a `Restart` goes on from there. Whether the access
token is still valid is a choice, as time is not modelled.

## 3. What the runs check

| Run | What it shows |
|---|---|
| `plan_revalidation` | Three revalidations, overlapping, with and without the same request id, against confirmation, obsoletion, a second plan and apply. `TimestampCoversStatus` is why comparing `updated_at` is enough; `StatusAgreesWithAudits` and `AuditsAreTruthful` tie each status to its audit rows; and a result is dropped if the plan's status changed at any time while the request waited, as `docs/schedule-plan-revalidation.md:117-120` says (`StaleResultsAreDropped`). Comparing the status alone would not do: two other revalidations can take a confirmation back and give it again during one await. |
| `plan_apply` | Up to three concurrent create requests with two keys, two versions of one group, two sessions, two tries per call, partial failure, retry, one crash. Only the newest version is live (`OnlyLatestIsLive`), a key names one plan and answers with it (`CreateIsIdempotent`), a failed insert does not leave its predecessor obsolete (`CreateIsAtomic`); mappings name real events, the final status says exactly how much is mapped, session rows follow the plan row, the whole refines `PlanLifecycle`, and a claimed plan settles unless its request dies. |
| `calendar_sync` | Two pulls and two processing requests on one mapping, two edits of the event, deadline edits: a deletion status always has a recorded deletion behind it, a change acts once (`ChangesActOnce`), a session converges to its event when no two requests of a kind overlapped (`SerialSyncConverges`), and processing never shortens a deadline it was given (`KnownDeadlinesHold`, of the moves of sessions the policy was not told are missing). A deadline that a client commits between its read and its write is overwritten, against `docs/external-calendar-policy-engine.md`, where processing never shortens the deadline; the property says exactly which deadlines are safe. |
| `backlog` | Two entries, two plans, all operations: refinement of `BacklogLifecycle`, the remainder stored at a confirmation is the recalculated one, and overbooking comes only from a shortened task, a plan the backlog does not know, or the retry of a plan whose failed sessions were given away (`OnlyOutsidersOverbook`). That a PATCH of a task can leave an open entry larger than its task, against `docs/architecture/domain-model.md`, is one of the exceptions it names. |
| `scheduler` | Every preview of two tasks over two days: all blocks together respect free time, dates, cutoff, breaks and the daily limit (`BlocksAreFeasible`), splitting strands nothing, a task ends with minutes left only if no block of it fits the finished preview (`UnscheduledMeansNoRoom`: later tasks only take room away), ties never decide (`SelectionIsUnique`), and the code's loops give the model's intervals for every set of reservations met (`LoopsComputeAvailability`). |
| `connections` | Three requests of any kind on one connection, two OAuth states: the lock makes the first use of a token work on the row as it is, an OAuth state leads to one callback across restarts, no stale row reactivates a connection (`OnlyConsentActivates`: the refresh assigns `active` after an await, and only the ORM's writing of differences keeps that from undoing a disconnection), and 401s do not go round for ever (`RequestsEnd`, unless the event loop is stuck). |
| `read_models` | One planner or day-view request at a time beside a plan that is created, confirmed, revalidated, obsoleted and applied with failures, lost answers and a crash. A session is on the day once, although its event may appear at Google and its mapping in the database between the two reads, but for the unlinked copies of a calendar that another selected connection shares (`EachSessionOnce`); a day called `fresh` compared every mapped session (`FreshMeansVerified`); the planner's two statements contradict each other in no way a plan could not have moved (`PlannerNeverGoesBack`), and each plan's readiness tells what is mapped of it (`ReadinessTellsMappings`). |
| `previews` | Workflow requests for drafts with estimated, defaulted, inferred and missing values and with steps, under reviews of every mode that accept, edit, reject, move or leave out, and stored requests around reservations. Under `reject_unreviewed_estimates`, a draft comes out as it would without the estimates and defaults that nobody reviewed, whether it is confirmed, refused or escapes (`EstimatesAreDropped`); nothing of the kind holds in the other modes: `accept_unreviewed` takes every value, and `explicit`, the default, takes estimates that do not ask for a confirmation (`task_confirmation/service.py:80-82`). The audit alone explains the task (`AuditExplainsTask`); window, dates, wholeness and minutes of the preview are those the user stated (`PreviewHonoursReview`); nothing that has a place in the window is refused for its dates (`RefusalsAreRight`); every request is answered (`PreviewEnds`). |

Four runs show that the code departs from a statement of the repository; each
has its entry, with the quotation, in `PROJECT.json` "findings".

| Run | Statement | What happens |
|---|---|---|
| `crash_recovery` | `docs/schedule-plans.md`: a crash between event and mapping is recovered by retrying | the plan stays `applying`, and apply accepts only `confirmed` and `partially_applied` |
| `disconnect_race` | `docs/google-calendar-readonly.md`: disconnecting clears tokens | a pull that was answered 401 after the disconnection refreshes the row it loaded before and commits a token into the revoked row |
| `repeated_deletion` | `docs/calendar-synchronization-domain.md`: confirmed deletions become `externally_deleted` | an event that is not found, comes back as it was and is not found again has a transition hash already on record (a 404 has no etag), and the rollback of the duplicate leaves `synced` |
| `policy_decides` | `docs/external-calendar-policy-engine.md`: unsupported changes do not raise | a move of the only session whose mapping went missing in the meantime projects no interval, and `max()` of nothing raises |

### Bounds

`MaxVersion`, `MaxUpdates`, `MaxAborts`, `MaxEdits`, `MaxDuration`,
`MaxAttempts` and the sizes of the sets of requests are bounds of the model, and
each appears in a guard; `MAX_ATTEMPTS` is a constant of the code (3), given a
smaller value since only "tries left" and "no try left" are told apart.

* Two concurrent requests of a kind are enough for every race between two
  holders of stale state; `plan_apply` has three create requests because the
  third can meet both the winner and the loser of the first two, and
  `connections` three requests because a race of two with a callback needs them.
  That versions go no further than 2 there matters little: what the run says of
  versions is proved for any number of them.
* `MaxUpdates` counts row updates of a plan: 6 in `plan_apply` leaves room for
  confirm, and for two claim-and-settle rounds, so a partial result is retried.
* `MaxEdits = 2` lets an event be moved away and back, or deleted and restored;
  `repeated_deletion` needs a third edit.
* `plan_revalidation` uses one slot and two groups: a conflict with a reserved
  slot needs another plan, not another slot. It has three revalidations, since it
  takes two, one after the other, to change a status and change it back under
  the third; `MaxInFlight = 2` bounds how many of them await the provider at once.
* `scheduler` has days of eight minutes, so that every boundary is met: windows
  that touch, a window cut by a busy time, gaps of 1 to 7 minutes against tasks
  of 2 to 7, minimums of 1, 2 and 5, breaks of 0 and 1, with and without cutoff,
  deadline, earliest start and preferred time. Two tasks suffice for a block
  placed against another task's; one splittable task has up to four blocks.
* `read_models` has one reader at a time: readers write nothing, so two of them
  see no more than one does. One version (`MaxVersion = 1`) is enough since the
  readers look at plans one by one; two slots, of which the planner's horizon
  holds one, let a plan be published in part. Three calendars on two connections
  let calendars fail singly and together.
* `previews` takes every combination of the listed drafts and reviews: fields
  without steps, up to three steps under fixed fields, and stored requests with
  two tasks; days are those of `scheduler`, so that dates fall before, in and after
  the window.
* Requests, keys, groups and ids are symmetric where a run says `SYMMETRY`; no
  run with a liveness property uses symmetry. Entries and groups are symmetric
  in `backlog`.

`CHECK_DEADLOCK FALSE` is set in the plan and backlog runs, where the system
may stop: every request has ended and the bounds are used up; in `read_models`,
which contains the plan subsystem; and in `scheduler` and `previews`, where it
stops when the preview is complete or the request is answered.

### Fairness

Only `plan_apply`, `crash_recovery`, `connections` and `previews` need it.
`PreviewSpec` has weak fairness of its steps: the call of the AI client ends by
an answer or by its timeout, and everything after it is a computation without
a wait, so that the scheduler's loop must end by itself (the `scheduler` run
has no fairness). `ApplyProgress` is weak fairness
of the steps of a running apply loop: the event loop resumes a coroutine whose
call has ended, and every HTTP call ends by an answer or by the client's timeout
(`google_calendar_timeout_seconds`). `ClientsRetry` lets clients repeat every
apply the code accepts; it makes `crash_recovery` stronger, as the plan is
stuck even then. In `connections`, what a request does once it has begun
(`Continue`) is weakly fair while the loop is not stuck, for the same reason. Nothing makes Google succeed, and a died request has no
fairness.

## 4. What is proved

All theorems are of the full specifications, for every value of the constants
that satisfies the named assumptions. TLC evaluates each of them in a run. They
say no more than the code justifies:

* sentinels lie outside the sets they extend (`KeyAssumption`,
  `NoTimeAssumption`, `NoneAssumption`, ...), bounds are natural numbers;
* sessions, tasks, groups and slots are finite sets where they are counted
  (`SessionAssumption`, `TaskAssumption`, `FiniteAssumption`), as tables are;
* placements, windows and working hours are intervals that end after they begin,
  the latter within a day (`PlacementAssumption`, `WindowAssumption`,
  `HoursAssumption`, `TimeWindowAssumption`, `PlanningAssumption`), as the code's
  value types enforce;
* the scheduler's input is what its types allow (`InputAssumption`), and a
  request to the preview workflow is one its contract lets in
  (`RequestAssumption`). That free time consists of proper intervals within one
  day that do not overlap is not only assumed of the scheduler's input: it is a
  theorem about what the calculator returns (`FreeIntervalsAreFreeTime`).

`SchedulePlanSystemProofs`: `TypeCorrect`, `OnlyLatestIsLiveTheorem`,
`CreateIsIdempotentTheorem`. The inductive invariant is `Inv`: `PlanInv`, the
types, "an in-flight revalidation has a plan" and "a run in progress holds the
claim". Why the parts of `PlanInv` are needed:

* `OnlyLatestIsLive` is not inductive: a create request may commit against a
  version it read long ago. `PendingCreates` says that version existed when it
  was read, so if it is no longer the newest, its successor exists by
  `NoVersionGaps` (versions have no gaps), and the insert collides.
* `RowsHaveKeys` and `AnswersExist` make the key constraint's effect on
  answers inductive; `NewHaveNoAnswer` covers requests that have not started.
* Apply moves a plan only while its status is `applying`
  (`RunsHoldTheClaim`), which no other component leaves.

Its second part is about apply: `MappingsHaveEventsTheorem`,
`StatusTellsMappingsTheorem`, `SessionsFollowPlanTheorem` and the action
property `CreateIsAtomicTheorem`. The three invariants hold together or not at
all: `ResultingStatus` counts mappings only, so that it tells the truth about
sessions because every session the loop has left behind is applied or failed
(`LoopAgrees`), the ones ahead of it are unmapped, and a mapping is about to be
written only for an event that exists. `ApplyInv` says this of every plan.

`PlanLifecycleProofs` begins with revalidation: `TimestampCoversStatusTheorem`,
`StatusAgreesWithAuditsTheorem`, `AuditsAreTruthfulTheorem` and
`StaleResultsAreDroppedTheorem`, for any number of overlapping revalidations.
Comparing `updated_at` is sound since it never goes back and moves with every
change of the status; `SnapshotHolds` says both of each request in flight. The
last of the four says more than the first, which is about requests whose
timestamp still matches: a plan that an overtaken request waits for has another
timestamp than the one it read (`HistoryInv`), and never gets it back.
`VerdictAgrees` extends `StatusAgreesWithAudits` to plans that cannot have been
revalidated yet, which confirmation relies on.

Then `ImplementsLifecycleTheorem`, the refinement of `PlanLifecycle`, from
`ApplyInv` and `RevalInv`: a create commit is a `Draft`,
every other change of a status a `Move` that is allowed and truthful, a mapping
commit a `Publish`, and all other steps stutter. That a move to `applied`,
`partially_applied`, `failed` or `obsolete` is truthful is where `ApplyInv` is
used; that nothing else moves a claimed plan, `RunsHoldTheClaim`.

`ReadModelProofs`: `ReadModelTypeCorrect`, `EachSessionOnceTheorem`,
`FreshMeansVerifiedTheorem`, `PlannerNeverGoesBackTheorem`,
`ReadinessTellsMappingsTheorem`, for any plans, calendars and interleaving with
the plan subsystem. A reader relies on it for two things: rows agree whenever
they are read (`ApplyInv`), and between two reads they move on as the contract
says (`RowsMoveOn`, which the refinement gives: no status goes back to a draft or
from what apply made of it, and what is mapped or created stays so). The
planner's inductive invariant says that each entry of its timeline is still
ahead of the row or beside it (`StillAhead`); the day view's, that the calendars
that are listed, still to be listed or skipped with their connection are the
selected ones (`ListingAgrees`), and that what it shows of an event exists. That
a session is on the day once, but for the copies of other connections, follows as an event is shown with its session
exactly if the session is mapped when it is read (`ShownIsMapped`).

`CalendarSyncProofs`: `SyncTypeCorrect`, `DeletionsAreOnRecordTheorem`,
`ChangesActOnceTheorem`. `DeletionsAreOnRecord` alone is not inductive either:
a pull in flight may hold a snapshot whose event is missing, loaded before the
await, and write a status from it. `AbsencesAreOnRecord` says of every baseline
and every held snapshot that shows a missing event that a change records it;
`LocksAreExclusive` says that a change being processed is pending and held by
one request, which is what makes it act once.

`SyncSystemTypeCorrect` and `KnownDeadlinesTheorem` need what is known of the
decisions a processing request holds (`HeldDecisions`): they are the policy's
answer to a change that is still on record, for a session and a deadline that
were read. The extended deadline is the greatest of a finite set of ends
(`GreatestValue`), so that it lies above the new end of every session that was
projected. This proof is what showed that a session the policy was told is
missing must be excepted (section 5).

`SerialSyncConvergesTheorem` is an argument about paths. The pending changes of
a session are steps from an old to a new placement; pulls append at the
baseline, processing takes steps away in any order. `TrailsConnect` says, without
naming a path, that as many of them leave a placement as arrive at it, but for
the two ends, the session's and the baseline's (`Balanced`). So when none is left
the ends are the same. `LonePullsAreCurrent` and `LoneMovesAreCurrent` say that a
request that works alone holds the row as it is, and `RacesAreOnRecord` that two
at work on a session are noticed by the history variable.

`SchedulerProofs`: `SchedulerTypeCorrect`, `PreviewsAreFeasible`,
`SplittingStrandsNothing`, `UnscheduledMeansFull`, `SchedulingIsDeterministic`,
for any tasks, preferences, free time and length of a day. `CandidateIsFeasible`
is the lemma behind all three: a candidate's block stays in its gap wherever the
preferred time puts it, the gap is in an allowed interval and a break away from
every block, and a cutoff that holds for the beginning of the interval holds for
a block in it since later instants have later cutoffs. The daily limit follows
as a candidate is only offered on a day that has sessions left. These invariants
are inductive with the type invariant alone.

`UnscheduledMeansNoRoom` speaks of the finished preview, although a task is
given up in the middle of it. The inductive form, `GivenUpHaveNoRoom`, says of
every task that is not pending and has minutes left that no block it may have
fits: when it is given up, since a block that fits lies in a gap long enough to
be used (`GapAround`, `LongGapIsUsed`), and afterwards, since blocks are only
added. `SelectionIsUnique` rests on `Precedes` being a strict total order of the
tasks, and on candidates differing in their start. The steps are stated for
`Round`, any step over the tasks that are there, and a type invariant that
names no constant, so that the preview workflow uses the same lemmas.

The last part is about the calculator and its loops. `FreeIntervalsAreFreeTime`:
what is left free are proper intervals, each within one day, that do not overlap
(a merged interval cannot have a hole, `MergedIsConnected`, so merging never joins
the windows of two days). `LoopsComputeFreeTime` and `LoopsTheorem`: the loops
return what `Merged` and `Gaps` say. A fold of the community modules is a
`CHOOSE` of a function on sets of positions; `FoldExists` shows that it is there,
and from it every loop gets its rounds. The invariants of the rounds are:
`_merge_intervals` has merged what it has seen, in order, and the last of the
merged intervals ends last (`IsMergedSeq`: an interval that begins after all
others end stays apart, `MergedApart`, any other is taken into the last one,
`MergedJoin`); `_subtract_intervals` has the gaps between the reservations it has
seen (`SubtractOneGap`); the free parts of `_subtract_busy` and what is left from
its cursor on are the gaps between the busy intervals it has seen (`IsScanned`).
Sorting gives each interval its position (`SortedFacts`), as many come before it
as there are positions before its own.

`PreviewWorkflowProofs`: `UnreviewedEstimatesDontCount`, `AuditTellsAll`,
`RefusalsAreJustified`, `PreviewsHonourReviews` and `ResponsesAreSchedules` (the
scheduler's limits hold of every response), for any requests, drafts, reviews and
stored tasks. `ProgressInv` says what is known at each stage: a task that reaches
mapping is the confirmation of the request's draft and review. `ScheduleInv` says
that from then on the scheduler's rounds run on the mapped task, or the stored
tasks that belong in the window, and in free time that lies in the window;
`RoundsInv` is what the rounds keep, and adds to the scheduler's invariants that
the minutes placed and left add up to the duration (`AccountedFor`). What the
audit says of steps needs that ranks number them from 1 without a hole
(`RanksNumber`), and their sums are compared by the smallest counterexample,
since the library's induction theorems cannot be instantiated.

`ConnectionProofs`: `ConnectionTypeCorrect`, `LockedRowIsCurrentTheorem`,
`OneRefreshAtATimeTheorem`, `StateGrantsOnceTheorem`,
`OnlyConsentActivatesTheorem`, for any number of requests and OAuth states. The
inductive invariant adds who may hold the lock (`LockIsForAwaits`), that
credentials come from rows that were active when they were loaded
(`CredentialsAreActive`, which makes the refresh's assignment of `active` write
nothing), and that a callback's state is marked before the callback goes on
(`StatesAreSpent`).

`BacklogProofs`: `BacklogTypeCorrect`, `ImplementsBacklogLifecycleTheorem` (the
refinement), `RemainderIsRecalculatedTheorem` and `OnlyOutsidersOverbookTheorem`,
for any number of entries, plans, slots and requests. Counting sessions needs
finite sets, which `FiniteAssumption` says. The steps of the last one bound the
number of booked sessions: a draft and an obsolete plan hold nothing, a linked
confirmation adds at most its own sessions, which fit what is unscheduled
(`ConfirmLinkedFits`), and apply adds none unless it claims a partially applied
plan again (`ApplyHoldsNoMore`). The inductive invariant adds to the types that
a confirmed plan has lost no session yet and that the sessions apply has still
to deal with are held already (`RowAgrees`): without it a claim would book time
anew.

Model-checked only: liveness and anything with `ENABLED`, which the provers do
not reach: `ApplySettlesEventually`, `RequestsEnd`, `PreviewEnds`, and of the
runs that expect a violation `CrashIsRecovered`.

## 5. What is left out

* Contents of previews, snapshots and audits, wording, logging, TTLs and the
  padding of query windows: data that decides nothing in the modelled steps.
* Ownership and validation checks that refuse a request before it changes
  anything.
* In pulls, token refresh and mappings that were created before snapshots were
  stored. In the Google client, FreeBusy, list and get.
* Task status in the backlog: it only makes previews and drafts refuse.
  `update_remaining_duration` has no caller.
* The planner's statements about backlog entries, consistency findings and
  external changes, which read tables the plan subsystem does not write; titles,
  times and warnings of the read models.
* Of AI intake, prompts, the language-model client, confidence and
  clarification questions; of the workflow, traces and snapshots.
* Apply's branch for an `IntegrityError` of a mapping: the claim excludes a
  second writer of the plan's mappings, so it cannot be reached.
* In the scheduler, reason codes, score components and warnings, which explain
  and do not decide, and accepted blocks, which only a demo and tests pass. In
  availability, resolving wall-clock times on the days the clock changes, and
  ends of intervals between two minutes.
* Of connections, calendar selections, scopes, error codes, and the credentials
  an apply request asks for in its loop. Two things that hold in no document
  and do not hold in the code are not stated either. With four requests a
  connection can be active without an access token: a refresh in a revoked row
  leaves a token, and a second disconnection that loaded this row clears only
  the token, after a reconnection. And a request that waits for the row while
  another one's refresh awaits Google stops the event loop for good
  (`service.py:225`); the model has these states (`waiting`), and `RequestsEnd`
  excepts them.
* The consistency checker and `deadline_after_external_move` run only in tests:
  the policy engine decides without them. The snapshots of busy sources and
  write targets are stored and shown but decide nothing. Routers, pages and
  migrations keep no state of their own.

Some hazards of the code are known and have no property, because nothing in the
repository says what ought to happen and the models show that it does not go
well, or because they lie outside the models:

* A revalidation's older complete answer may follow a newer conflict on a plan
  that is `revalidation_required` already: the conflict does not move
  `updated_at` (`schedule_plans/revalidation.py:446`).
* Two plans of one user may be confirmed for the same time: reserved intervals
  are read before the await, and confirmation does not look at them
  (`schedule_plans/revalidation.py:414`).
* A 409 is taken as success with the requested times, although the event may
  have been moved or deleted since (`schedule_plans/apply.py:202`).
* A slow answer that a newer one has overtaken is committed without comparing
  versions (`calendar_sync/pull.py:264`), and a deletion that is processed after
  the event came back marks the mapping `externally_deleted`
  (`calendar_sync/processing.py:324`); `SerialSyncConverges` excludes both.
* A recorded move that is processed after its session's mapping was marked
  missing moves the session, but not the deadline, which may then lie before
  its end: missing sessions are left out of the projected intervals
  (`domain/external_calendar_policy.py:180`).
* Two requests that process changes of one session may, each writing only the
  columns that differ from what it loaded, make a row whose interval and duration
  disagree; a check constraint makes the second fail (`schedule_plans/models.py:182`,
  `MoveFitsRow`).
* Filing an entry locks task then entry, other operations entry then task
  (`backlog/service.py:190`): PostgreSQL breaks the cycle by failing one of the
  transactions.
* A day view calls a mapped session `mapped_event_not_returned` when its event
  was moved to another day or its mapping was committed after the calendar had
  been listed.
* A step title of more than 255 characters, in the draft or the review, and a
  step description of more than 10,000 in the review, pass every validator and
  fail in `ConfirmedTaskStep`, where nobody turns the error into a refusal
  (`task_confirmation/service.py:236`; `StepEscapes`, the outcome `unhandled`).
  The request ends in a 500, although `docs/task-confirmation.md:71-73` and
  `docs/task-to-schedule-preview-workflow.md:284` promise 422 for an invalid
  confirmation. The `previews` run has these states; none of its properties
  calls them right.
* A calendar that two connected accounts share and that is selected in both is
  listed twice: the day view links a session's event in the connection its
  mapping names and shows it once more as a foreign event for the other
  (`calendar_day/service.py:316-319`, several accounts being allowed by
  `docs/google-calendar-readonly.md:85`). `EachSessionOnce` excepts it.
* A workflow request gives its task the id `workflow-task-1`; a pending task of
  the same id, which a client may send, collides with it.
* The planner page shows the answer that arrives last, not the one that was
  asked for last (`static/planner.js:29`).

## 6. Plan

1. Done: plans, revalidation, apply and their contract; pull, policy and
   processing; backlog and its contract; availability and scheduler. The order
   follows what the product would least survive: a lost or doubled plan, a
   calendar written twice or reported wrongly, a deletion nobody made, work
   booked twice.
2. Done: `CalendarConnection` and its proofs. Left there: selections, and the
   apply loop's credentials.
3. Done: the read models beside the plan subsystem; confirmation, mapping and
   the preview workflow on top of the scheduler. Left there: the planner's
   statements about the backlog and about external changes, which would need
   `Backlog` and `CalendarSyncSystem` composed with the plan subsystem.
4. Done: proofs of every safety invariant and action property the runs check,
   and of both refinements; the calculator's loops against what they cover.
5. Left: in `Availability`, the days on which the clock changes; in
   `CalendarPull`, mappings without a snapshot and versions of answers.
