---------------------------- MODULE TaskConfirmation ----------------------------
(***************************************************************************)
(* apply_review (app/task_confirmation/service.py): what becomes of a task *)
(* draft the AI has proposed when a user's review is applied to it.  A     *)
(* pure function: a draft and a review give an error, or a confirmed task  *)
(* and its audit.                                                          *)
(*                                                                         *)
(* Texts are compared and measured, nothing else, and instants are         *)
(* numbers.  The position of a step in its draft is its order, as the      *)
(* draft's validator demands.                                              *)
(***************************************************************************)
EXTENDS Integers, FiniteSets, FiniteSetsExt, Sequences

CONSTANTS
  None,          (* Python's None                                          *)
  NoReview,      (* of a field or step the review leaves out               *)
  Text,          (* texts, and the words for priorities and times of day   *)
  BlankText,     (* texts that strip() leaves nothing of                   *)
  LongText,      (* texts of more than 255 characters                      *)
  HugeText,      (* texts of more than 10,000 characters                   *)
  StepAllowance  (* by how much steps may exceed a task: 60 minutes        *)

ASSUME StepAllowanceAssumption == StepAllowance \in Nat
ASSUME TextAssumption == HugeText \subseteq LongText /\ LongText \subseteq Text
ASSUME NoneAssumption == None \notin Int \cup BOOLEAN \cup Text

FIELD_NAMES ==
  {"title", "description", "duration", "priority", "earliest_start",
   "deadline", "preferred_time_of_day", "is_splittable",
   "minimum_session_minutes", "maximum_sessions_per_day"}

STRING_FIELDS == {"title", "description", "priority", "preferred_time_of_day"}

STEP_PARTS == {"title", "description", "duration"}

-----------------------------------------------------------------------------
(* The values a field of a draft, a review or a task may have.             *)
Values(name) ==
  CASE name \in {"duration", "minimum_session_minutes",
                 "maximum_sessions_per_day"}       -> Nat \ {0}
    [] name \in {"earliest_start", "deadline"}     -> Int
    [] name = "is_splittable"                      -> BOOLEAN
    [] name \in STRING_FIELDS                      -> Text

(* What arrives has passed the validators of the AI's contract and of the  *)
(* review's.                                                               *)
IsDraftValue(name, v) ==
  /\ v \in [value : Values(name) \cup {None},
            source : {None, "user", "inferred", "estimated", "default"},
            requires_confirmation : BOOLEAN]
  /\ v.value = None <=> v.source = None
  /\ name \in STRING_FIELDS => v.value \notin HugeText

(* The known durations of steps are not far beyond the task's.             *)
StepTotal(minutes) ==
  MapThenSumSet(LAMBDA i : IF minutes[i] = None THEN 0 ELSE minutes[i],
                DOMAIN minutes)

StepsFit(duration, minutes) ==
  LET total == StepTotal(minutes)
  IN 2 * total <= 3 * duration \/ total <= duration + StepAllowance

DatesInOrder(earliest, deadline) ==
  earliest # None /\ deadline # None => earliest <= deadline

(* TaskDraftV2: [fields : [FIELD_NAMES -> values],                         *)
(*               steps : Seq([STEP_PARTS -> values])], with at most 20 steps *)
IsDraft(draft) ==
  LET value(name) == draft.fields[name].value IN
  /\ \A name \in FIELD_NAMES : IsDraftValue(name, draft.fields[name])
  /\ \E n \in 0 .. 20 : DOMAIN draft.steps = 1 .. n
  /\ \A i \in DOMAIN draft.steps : \A part \in STEP_PARTS :
       IsDraftValue(part, draft.steps[i][part])
  /\ value("title") \notin {None} \cup BlankText
  /\ \A i \in DOMAIN draft.steps :
       draft.steps[i]["title"].value \notin {None} \cup BlankText
  /\ DatesInOrder(value("earliest_start"), value("deadline"))
  /\ value("duration") # None =>
       StepsFit(value("duration"),
                [i \in DOMAIN draft.steps |-> draft.steps[i]["duration"].value])

(* DraftReview: [fields : [FIELD_NAMES -> {NoReview} or field reviews],    *)
(*               steps : Seq(step reviews), mode : ReviewMode]             *)
ReviewMode == {"explicit", "accept_unreviewed", "reject_unreviewed_estimates"}

IsFieldReview(name, r) ==
  /\ r.decision \in {"accepted", "edited", "rejected"}
  /\ r.value \in Values(name) \cup {None}
  /\ r.decision = "edited" <=> r.value # None

IsStepReview(r) ==
  /\ r.decision \in {"accepted", "edited", "rejected"}
  /\ r.new_order \in (Nat \ {0}) \cup {None}
  /\ \A part \in STEP_PARTS : r.values[part] \in Values(part) \cup {None}
  /\ r.decision = "edited" <=> \/ r.new_order # None
                               \/ \E part \in STEP_PARTS : r.values[part] # None
  /\ r.values["title"] \notin BlankText

IsReview(review) ==
  /\ review.mode \in ReviewMode
  /\ \A name \in FIELD_NAMES :
       review.fields[name] # NoReview => IsFieldReview(name, review.fields[name])
  /\ \A j \in DOMAIN review.steps : IsStepReview(review.steps[j])

-----------------------------------------------------------------------------
IsEstimate_NotDefault(v) == v.source = "estimated"

IsEstimate(v) == v.source \in {"estimated", "default"}

(* _resolve_field                                                          *)
Resolved(draft, review, name) ==
  LET v == draft.fields[name]
      r == review.fields[name]
      accepted == [value |-> v.value, decision |-> "accepted"]
      rejected == [value |-> None, decision |-> "rejected"]
  IN
  CASE r = NoReview ->
         IF review.mode = "reject_unreviewed_estimates" /\ IsEstimate(v)
         THEN rejected ELSE accepted
    [] r # NoReview ->
         CASE r.decision = "accepted" -> accepted
           [] r.decision = "edited"   -> [value |-> r.value, decision |-> "edited"]
           [] r.decision = "rejected" -> rejected

(* The review of a step, found by its original_order.                      *)
StepReview(review, i) ==
  IF \E j \in DOMAIN review.steps : review.steps[j].original_order = i
  THEN review.steps[CHOOSE j \in DOMAIN review.steps :
                      review.steps[j].original_order = i]
  ELSE NoReview

StepRejected(review, i) ==
  StepReview(review, i) # NoReview /\ StepReview(review, i).decision = "rejected"

Surviving(draft, review) ==
  {i \in DOMAIN draft.steps : ~ StepRejected(review, i)}

(* The value a surviving step keeps of one of its parts.                   *)
StepValue(draft, review, i, part) ==
  LET v == draft.steps[i][part]
      r == StepReview(review, i)
  IN
  CASE r = NoReview ->
         IF review.mode = "reject_unreviewed_estimates" /\ IsEstimate(v)
         THEN None ELSE v.value
    [] r # NoReview ->
         IF r.values[part] # None THEN r.values[part] ELSE v.value

RequestedOrder(review, i) ==
  LET r == StepReview(review, i)
  IN IF r # NoReview /\ r.new_order # None THEN r.new_order ELSE i

(* Survivors are numbered from 1 in the order that was asked for.          *)
FinalOrder_AsProposed(draft, review, i) ==
  Cardinality({j \in Surviving(draft, review) : j <= i})

FinalOrder(draft, review, i) ==
  Cardinality({j \in Surviving(draft, review) :
                 RequestedOrder(review, j) <= RequestedOrder(review, i)})

StepValues(draft, review, i) ==
  [part \in STEP_PARTS |-> StepValue(draft, review, i, part)]

(* An unreviewed step from which the mode took something is edited, but    *)
(* only if that was its duration.                                          *)
StepDecision(draft, review, i) ==
  LET r == StepReview(review, i)
      minutes == draft.steps[i]["duration"].value
  IN
  CASE r # NoReview -> r.decision
    [] r = NoReview ->
         IF minutes # None /\ StepValue(draft, review, i, "duration") = None
         THEN "edited" ELSE "accepted"

-----------------------------------------------------------------------------
MissingConfirmation(draft, review) ==
  /\ review.mode = "explicit"
  /\ \/ \E name \in FIELD_NAMES :
          /\ review.fields[name] = NoReview
          /\ draft.fields[name].requires_confirmation
     \/ \E i \in DOMAIN draft.steps :
          /\ StepReview(review, i) = NoReview
          /\ \E part \in STEP_PARTS : draft.steps[i][part].requires_confirmation

(* A ConfirmationError before the steps are built.                         *)
IsRefused(draft, review) ==
  \/ MissingConfirmation(draft, review)
  \/ Resolved(draft, review, "title").value \in {None} \cup BlankText
  \/ \E j, k \in DOMAIN review.steps :
       /\ j # k
       /\ review.steps[j].original_order = review.steps[k].original_order
  \/ \E j \in DOMAIN review.steps :
       review.steps[j].original_order \notin DOMAIN draft.steps
  \/ \E i \in Surviving(draft, review) :
       StepValue(draft, review, i, "title") = None
  \/ \E i, j \in Surviving(draft, review) :
       i # j /\ RequestedOrder(review, i) = RequestedOrder(review, j)

(* ConfirmedTaskStep's own validation is not guarded: its ValidationError  *)
(* is no ConfirmationError and ends the request.                           *)
StepEscapes(draft, review) ==
  \E i \in Surviving(draft, review) :
    \/ StepValue(draft, review, i, "title") \in LongText
    \/ StepValue(draft, review, i, "description") \in HugeText

(* ConfirmedTask.                                                          *)
ConfirmedTask(draft, review) ==
  LET survivors == Surviving(draft, review)
      at(o) == CHOOSE i \in survivors : FinalOrder(draft, review, i) = o
  IN
  [fields |-> [name \in FIELD_NAMES |->
                 LET v == Resolved(draft, review, name).value
                 IN IF name = "is_splittable" /\ v = None THEN FALSE ELSE v],
   steps |-> [o \in 1 .. Cardinality(survivors) |->
                StepValues(draft, review, at(o))]]

(* ConfirmedTask's own validation, whose errors are refusals.              *)
IsConfirmable(task) ==
  /\ task.fields["title"] \notin LongText
  /\ task.fields["description"] \notin HugeText
  /\ DatesInOrder(task.fields["earliest_start"], task.fields["deadline"])
  /\ task.fields["is_splittable"] /\ task.fields["duration"] # None =>
       StepsFit(task.fields["duration"],
                [o \in DOMAIN task.steps |-> task.steps[o]["duration"]])

ConfirmationAudit(draft, review) ==
  [fields |-> [name \in FIELD_NAMES |->
                 [decision |-> Resolved(draft, review, name).decision,
                  original |-> draft.fields[name].value,
                  confirmed |-> ConfirmedTask(draft, review).fields[name]]],
   steps |-> [i \in DOMAIN draft.steps |->
                [decision |-> IF StepRejected(review, i) THEN "rejected"
                              ELSE StepDecision(draft, review, i),
                 order |-> IF StepRejected(review, i) THEN None
                           ELSE FinalOrder(draft, review, i),
                 confirmed |-> IF StepRejected(review, i) THEN None
                               ELSE StepValues(draft, review, i)]]]

ConfirmationOutcome(draft, review) ==
  CASE IsRefused(draft, review)   -> "refused"
    [] ~ IsRefused(draft, review) ->
         IF StepEscapes(draft, review) THEN "escaped"
         ELSE IF IsConfirmable(ConfirmedTask(draft, review)) THEN "confirmed"
         ELSE "refused"
=============================================================================
