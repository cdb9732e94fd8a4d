----------------------------- MODULE PreviewWorkflow -----------------------------
(***************************************************************************)
(* The requests that end in a schedule preview                             *)
(* (app/workflows/task_to_schedule_preview.py, app/services/scheduling.py). *)
(* A workflow request sends a text to the AI, applies the user's review to *)
(* the draft, maps the confirmed task to a scheduler's task and has it     *)
(* scheduled before or after the pending tasks it was sent with.  A stored *)
(* request schedules the user's own pending tasks around their             *)
(* reservations.  Nothing is written, so requests do not meet.             *)
(***************************************************************************)
EXTENDS Scheduler, TaskConfirmation

CONSTANTS
  Request,         (* workflow and stored requests                         *)
  WorkflowTask,    (* the id the workflow gives its task                   *)
  Hours,           (* the working windows of each day                      *)
  TimeWindow       (* a PreferredTimeOfDay's window: [words -> TimeOfDay]  *)

ASSUME WorkflowTaskAssumption == WorkflowTask \in Task

(* WallClockWindow: a working window begins and ends on one day.           *)
ASSUME HoursAssumption == IsWorkingHours(Hours)

ASSUME TimeWindowAssumption ==
  TimeWindow \in [{"any", "morning", "afternoon", "evening"} -> TimeOfDay]

VARIABLES
  request,    (* what was sent, and what the AI answered                   *)
  stage,      (* how far the request is                                    *)
  confirmed,  (* the confirmed task and its audit                          *)
  outcome     (* the code of the error the request ended with              *)

schedulerVars == <<task, preferences, free, placed, remaining, pending>>
workflowVars == <<request, stage, confirmed, outcome>>

NotConfirmed == [task |-> None, audit |-> None]

(* validate_task: every task a user stores or sends with a request.        *)
IsTask(t) ==
  /\ t.duration > 0 /\ t.minimum > 0 /\ t.maxPerDay > 0
  /\ t.earliest # NoTime /\ t.deadline # NoTime => t.earliest < t.deadline
  /\ t.splittable => t.minimum <= t.duration

(* A request: [kind, draft, review, window, busy, reserved, tasks,         *)
(* preferences].  Of a stored request draft and review are unused and      *)
(* tasks are the user's pending ones; of a workflow request reserved is.   *)
IsRequest(r) ==
  /\ r.kind \in {"workflow", "stored"}
  /\ r.kind = "workflow" => IsDraft(r.draft) /\ IsReview(r.review)
  /\ IsInterval(r.window)
  /\ \A i \in r.busy \cup r.reserved : IsInterval(i)
  /\ DOMAIN r.tasks \subseteq Task
  /\ \A t \in DOMAIN r.tasks : r.tasks[t] \in SchedulingTask /\ IsTask(r.tasks[t])
  /\ r.preferences \in SchedulerPreferences

ASSUME RequestAssumption == \A r \in Request : IsRequest(r)

-----------------------------------------------------------------------------
PreviewInit ==
  /\ request \in Request
  /\ stage = IF request.kind = "workflow" THEN "ai_intake" ELSE "loading"
  /\ confirmed = NotConfirmed
  /\ outcome = "none"
  /\ task = <<>>
  /\ preferences = request.preferences
  /\ free = {}
  /\ placed = {}
  /\ remaining = <<>>
  /\ pending = {}

Fail(code) ==
  /\ stage' = "failed"
  /\ outcome' = code
  /\ UNCHANGED <<request, confirmed>>
  /\ UNCHANGED schedulerVars

(* external: the provider answers with a draft that passes validation, or  *)
(* with anything else, or not at all.                                      *)
AIAnswers ==
  /\ stage = "ai_intake"
  /\ stage' = "confirmation"
  /\ UNCHANGED <<request, confirmed, outcome>>
  /\ UNCHANGED schedulerVars

AIFails ==
  /\ stage = "ai_intake"
  /\ Fail("ai_intake_failed")

Confirm ==
  /\ stage = "confirmation"
  /\ ConfirmationOutcome(request.draft, request.review) = "confirmed"
  /\ confirmed' = [task |-> ConfirmedTask(request.draft, request.review),
                   audit |-> ConfirmationAudit(request.draft, request.review)]
  /\ stage' = "scheduler_mapping"
  /\ UNCHANGED <<request, outcome>>
  /\ UNCHANGED schedulerVars

ConfirmFails ==
  /\ stage = "confirmation"
  /\ \/ /\ ConfirmationOutcome(request.draft, request.review) = "refused"
        /\ Fail("confirmation_failed")
     \/ /\ ConfirmationOutcome(request.draft, request.review) = "escaped"
        /\ Fail("unhandled")

-----------------------------------------------------------------------------
Field(name) == confirmed.task.fields[name]

PriorityRank == [urgent |-> 0, high |-> 1, medium |-> 2, low |-> 3]

(* _validate_window_constraints, then map_confirmed_task_to_scheduler_task. *)
DeadlineBeforeWindow_WholeWindow ==
  Field("deadline") # None /\ Field("deadline") < request.window[2]

DeadlineBeforeWindow ==
  Field("deadline") # None /\ Field("deadline") < request.window[1]

EarliestAfterWindow ==
  Field("earliest_start") # None /\ Field("earliest_start") > request.window[2]

UnsupportedPriority == Field("priority") \notin DOMAIN PriorityRank \cup {None}

UnsupportedPreferredTime ==
  Field("preferred_time_of_day") \notin DOMAIN TimeWindow \cup {None}

MappingError ==
  CASE DeadlineBeforeWindow  -> "deadline_before_preview_window"
    [] EarliestAfterWindow /\ ~ DeadlineBeforeWindow ->
         "earliest_start_after_preview_window"
    [] ~ DeadlineBeforeWindow /\ ~ EarliestAfterWindow ->
         IF Field("duration") = None THEN "missing_confirmed_duration"
         ELSE IF UnsupportedPriority THEN "invalid_confirmed_priority"
         ELSE IF UnsupportedPreferredTime
              THEN "invalid_confirmed_preferred_time"
         ELSE "none"

OrElse(value, default) == IF value = None THEN default ELSE value

MappedTask_KeepsDraftDates ==
  [duration   |-> Field("duration"),
   priority   |-> PriorityRank[OrElse(Field("priority"), "medium")],
   earliest   |-> OrElse(request.draft.fields["earliest_start"].value, NoTime),
   deadline   |-> OrElse(request.draft.fields["deadline"].value, NoTime),
   preferred  |-> TimeWindow[OrElse(Field("preferred_time_of_day"), "any")],
   splittable |-> Field("is_splittable"),
   minimum    |-> OrElse(Field("minimum_session_minutes"), preferences.minimum),
   maxPerDay  |-> OrElse(Field("maximum_sessions_per_day"), 1)]

MappedTask ==
  [duration   |-> Field("duration"),
   priority   |-> PriorityRank[OrElse(Field("priority"), "medium")],
   earliest   |-> OrElse(Field("earliest_start"), NoTime),
   deadline   |-> OrElse(Field("deadline"), NoTime),
   preferred  |-> TimeWindow[OrElse(Field("preferred_time_of_day"), "any")],
   splittable |-> Field("is_splittable"),
   minimum    |-> OrElse(Field("minimum_session_minutes"), preferences.minimum),
   maxPerDay  |-> OrElse(Field("maximum_sessions_per_day"), 1)]

(* generate_schedule_preview starts schedule_tasks.                        *)
StartScheduling(tasks, busy) ==
  /\ task' = tasks
  /\ free' = FreeIntervals(request.window, Hours, busy)
  /\ remaining' = [t \in DOMAIN tasks |-> tasks[t].duration]
  /\ pending' = {t \in DOMAIN tasks : Valid(t)'}
  /\ stage' = "scheduling_preview"
  /\ UNCHANGED <<request, confirmed, outcome, preferences, placed>>

MapTask ==
  /\ stage = "scheduler_mapping"
  /\ MappingError = "none"
  /\ StartScheduling([t \in {WorkflowTask} \cup DOMAIN request.tasks |->
                        IF t = WorkflowTask THEN MappedTask
                        ELSE request.tasks[t]],
                     request.busy)

MappingFails ==
  /\ stage = "scheduler_mapping"
  /\ MappingError # "none"
  /\ Fail(MappingError)

(* _load_preview_tasks and list_reserved_intervals: the pending tasks that *)
(* may have a place in the window, and the sessions of reserving plans.    *)
BelongsInWindow(t) ==
  /\ t.earliest = NoTime \/ t.earliest < request.window[2]
  /\ t.deadline = NoTime \/ t.deadline > request.window[1]

LoadTasks ==
  /\ stage = "loading"
  /\ StartScheduling([t \in {u \in DOMAIN request.tasks :
                               BelongsInWindow(request.tasks[u])} |->
                        request.tasks[t]],
                     request.busy \cup request.reserved)

Schedule ==
  /\ stage = "scheduling_preview"
  /\ \E t \in pending : Place(t) \/ GiveUp(t)
  /\ UNCHANGED workflowVars

Respond ==
  /\ stage = "scheduling_preview"
  /\ pending = {}
  /\ stage' = "done"
  /\ UNCHANGED <<request, confirmed, outcome>>
  /\ UNCHANGED schedulerVars

PreviewNext ==
  \/ AIAnswers \/ AIFails \/ Confirm \/ ConfirmFails \/ MapTask
  \/ MappingFails \/ LoadTasks \/ Schedule \/ Respond

(* The AI client's call ends, by an answer or by its timeout, and the rest *)
(* is a computation.                                                       *)
PreviewSpec ==
  /\ PreviewInit
  /\ [][PreviewNext]_<<workflowVars, schedulerVars>>
  /\ WF_<<workflowVars, schedulerVars>>(PreviewNext)
-----------------------------------------------------------------------------
(* A draft's value as if the AI had not made it up, unless it is reviewed. *)
Withheld(v, unreviewed) ==
  IF unreviewed /\ v.source \in {"estimated", "default"}
  THEN [v EXCEPT !.value = None] ELSE v

WithoutEstimates(draft, review) ==
  [fields |-> [name \in FIELD_NAMES |->
                 Withheld(draft.fields[name], review.fields[name] = NoReview)],
   steps |-> [i \in DOMAIN draft.steps |->
                [part \in STEP_PARTS |->
                   Withheld(draft.steps[i][part],
                            StepReview(review, i) = NoReview)]]]

(* A review in the mode reject_unreviewed_estimates comes out as if the AI *)
(* had never made the values up that the review does not speak of: the     *)
(* draft without them is confirmed, refused or escapes alike, and confirmed *)
(* it is the same task.  (The other modes promise nothing of the kind:     *)
(* accept_unreviewed takes every such value, and explicit those that do    *)
(* not ask for a confirmation.)                                            *)
EstimatesAreDropped ==
  LET draft  == request.draft
      review == request.review
      bare   == WithoutEstimates(draft, review)
  IN
  stage = "confirmation" /\ review.mode = "reject_unreviewed_estimates" =>
    /\ ConfirmationOutcome(draft, review) = ConfirmationOutcome(bare, review)
    /\ ConfirmationOutcome(draft, review) = "confirmed" =>
         ConfirmedTask(draft, review) = ConfirmedTask(bare, review)

(* The audit alone tells what became of the draft: its confirmed values    *)
(* are those of the task, every step of the draft is kept or rejected once *)
(* and found in the task at the place the audit gives, the kept steps      *)
(* stand in the order the user asked for, and what it calls accepted is    *)
(* what the AI proposed, but for the default of is_splittable and the      *)
(* description of a step that the mode removed.                            *)
AuditExplainsTask ==
  stage = "scheduler_mapping" =>
    LET fields == confirmed.audit.fields
        steps  == confirmed.audit.steps
        kept   == {i \in DOMAIN steps : steps[i].decision # "rejected"}
    IN
    /\ \A name \in FIELD_NAMES :
         /\ Field(name) = fields[name].confirmed
         /\ fields[name].decision = "accepted" =>
              \/ fields[name].confirmed = fields[name].original
              \/ name = "is_splittable" /\ fields[name].original = None
    /\ DOMAIN steps = DOMAIN request.draft.steps
    /\ {steps[i].order : i \in kept} = DOMAIN confirmed.task.steps
    /\ Cardinality(kept) = Len(confirmed.task.steps)
    /\ \A i \in kept :
         /\ confirmed.task.steps[steps[i].order] = steps[i].confirmed
         /\ steps[i].decision = "accepted" =>
              \A part \in {"title", "duration"} :
                steps[i].confirmed[part] = request.draft.steps[i][part].value
    /\ \A i, j \in kept :
         RequestedOrder(request.review, i) < RequestedOrder(request.review, j)
           => steps[i].order < steps[j].order

(* What the user has said of a field, by editing or accepting it.          *)
Stated(name) ==
  LET r == request.review.fields[name]
  IN IF r = NoReview \/ r.decision = "rejected" THEN None
     ELSE IF r.decision = "edited" THEN r.value
     ELSE request.draft.fields[name].value

(* From the draft through review, mapping and scheduler nothing is lost or *)
(* mixed up: the preview's blocks for the task respect the window and the  *)
(* dates the user stated, a task said to be whole has one block, and the   *)
(* minutes placed and left are the stated duration.                        *)
PreviewHonoursReview ==
  stage = "done" /\ request.kind = "workflow" =>
    LET blocks == {b.at : b \in {c \in placed : c.task = WorkflowTask}} IN
    /\ \A at \in blocks :
         /\ Within(at, request.window)
         /\ Stated("deadline") # None => at[2] <= Stated("deadline")
         /\ Stated("earliest_start") # None => Stated("earliest_start") <= at[1]
    /\ Stated("is_splittable") = FALSE => Cardinality(blocks) <= 1
    /\ Stated("duration") # None =>
         remaining[WorkflowTask] + MapThenSumSet(Minutes, blocks)
           = Stated("duration")

(* A block of any length that begins in the window and keeps to the dates. *)
HasPlace(earliest, deadline) ==
  \E start \in request.window[1] .. request.window[2] - 1 :
    /\ earliest \in {None, NoTime} \/ earliest <= start
    /\ deadline \in {None, NoTime} \/ start < deadline

(* A request or a task is turned away for its dates only if they leave it  *)
(* no place in the window.                                                 *)
RefusalsAreRight ==
  /\ outcome \in {"deadline_before_preview_window",
                  "earliest_start_after_preview_window"} =>
       ~ HasPlace(Field("earliest_start"), Field("deadline"))
  /\ stage = "done" =>
       \A t \in DOMAIN request.tasks \ DOMAIN task :
         ~ HasPlace(request.tasks[t].earliest, request.tasks[t].deadline)

(* Every request is answered, with a preview or with an error.             *)
PreviewEnds == <>(stage \in {"done", "failed"})
=============================================================================
