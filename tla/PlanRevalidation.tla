--------------------------- MODULE PlanRevalidation ---------------------------
(***************************************************************************)
(* Revalidation of a confirmed plan against the calendar                   *)
(* (app/schedule_plans/revalidation.py).  A request reads the plan and the *)
(* reservations of the other plans without a lock, awaits the provider's   *)
(* FreeBusy answer, then locks the plan, checks that it has not changed    *)
(* meanwhile, and commits a status transition together with an audit row.  *)
(***************************************************************************)
EXTENDS SchedulePlans

CONSTANTS
  RevalidateRequest,  (* POST .../revalidate calls                         *)
  RequestId,          (* values of the optional request_id                 *)
  NoRequestId,        (* request_id = None                                 *)
  NoAudit             (* no schedule_plan_revalidations row                *)

ASSUME RequestIdAssumption == NoRequestId \notin RequestId

VARIABLES
  reval,   (* what each revalidation request holds in local variables      *)
  audit,   (* the audit row each request committed                         *)
  verdict  (* history: result of the plan's last committed decisive audit  *)

revalVars == <<reval, audit, verdict>>

-----------------------------------------------------------------------------

ELIGIBLE_REVALIDATION_STATUSES == {"confirmed", "revalidation_required"}

AuditResult == {"valid", "conflict", "provider_partial_failure",
                "provider_failure"}

Audit ==
  [result : AuditResult, before : PlanStatus, after : PlanStatus]

ASSUME AuditAssumption == NoAudit \notin Audit

Reval ==
  [pc : {"new", "querying", "answered", "done"},
   plan : Plan \cup {NoPlan}, id : RequestId \cup {NoRequestId},
   updates : Nat, before : PlanStatus, reserved : SUBSET Slot,
   answer : {"none", "complete", "partial", "failure"},
   provider : SUBSET Slot]

RevalTypeOK ==
  /\ reval \in [RevalidateRequest -> Reval]
  /\ audit \in [RevalidateRequest -> Audit \cup {NoAudit}]
  /\ verdict \in [Plan -> {"none", "valid", "conflict",
                           "provider_partial_failure"}]

Arrived ==
  [pc |-> "new", plan |-> NoPlan, id |-> NoRequestId,
   updates |-> 0, before |-> "confirmed", reserved |-> {},
   answer |-> "none", provider |-> {}]

RevalInit ==
  /\ reval = [r \in RevalidateRequest |-> Arrived]
  /\ audit = [r \in RevalidateRequest |-> NoAudit]
  /\ verdict = [p \in Plan |-> "none"]

(* The request returns: its local variables go with it, and only the       *)
(* schedule_plan_id and the request_id of its audit row, if any, are kept. *)
Returns(r, p, id) ==
  reval' = [reval EXCEPT ![r] =
             [Arrived EXCEPT !.pc = "done", !.plan = p, !.id = id]]

(* get_revalidation_by_request_id finds a row: an id is unique per plan,   *)
(* None never matches.                                                     *)
Audited(p, id) ==
  /\ id # NoRequestId
  /\ \E r \in RevalidateRequest :
       audit[r] # NoAudit /\ reval[r].plan = p /\ reval[r].id = id

-----------------------------------------------------------------------------
(* A retried request whose audit exists: the stored result is returned.    *)
RevalidateReplay(r, p, id) ==
  /\ reval[r].pc = "new"
  /\ Audited(p, id)
  /\ Returns(r, NoPlan, NoRequestId)
  /\ UNCHANGED <<audit, verdict>>
  /\ UNCHANGED planVars

(* Everything read before the await.                                       *)
RevalidateBegin(r, p, id, includeInternal) ==
  /\ reval[r].pc = "new"
  /\ ~ Audited(p, id)
  /\ status[p] \in ELIGIBLE_REVALIDATION_STATUSES
  /\ reval' = [reval EXCEPT ![r] =
                 [pc |-> "querying", plan |-> p, id |-> id,
                  updates |-> updates[p], before |-> status[p],
                  reserved |-> IF includeInternal THEN ReservedSlots(p)
                                                  ELSE {},
                  answer |-> "none", provider |-> {}]]
  /\ UNCHANGED <<audit, verdict>>
  /\ UNCHANGED planVars

(* The provider call ends: with the slots its calendars hold at that       *)
(* moment, which is anything, as people edit their calendars at any time;  *)
(* with errors for some calendars; or with an error for the whole call.    *)
ProviderAnswers(r) ==
  /\ reval[r].pc = "querying"
  /\ \E a \in {"complete", "partial", "failure"}, slots \in SUBSET Slot :
       /\ a # "complete" => slots = {}
       /\ reval' = [reval EXCEPT ![r] =
                     [@ EXCEPT !.pc = "answered", !.answer = a,
                               !.provider = slots]]
  /\ UNCHANGED <<audit, verdict>>
  /\ UNCHANGED planVars

(* The re-check under the row lock.  The content hash cannot differ: the   *)
(* sessions of an eligible plan never change.                              *)
PlanChanged_EligibilityOnly(r) ==
  status[reval[r].plan] \notin ELIGIBLE_REVALIDATION_STATUSES

PlanChanged_StatusOnly(r) == status[reval[r].plan] # reval[r].before

PlanChanged(r) ==
  LET p == reval[r].plan IN
    \/ status[p] \notin ELIGIBLE_REVALIDATION_STATUSES
    \/ updates[p] # reval[r].updates

Conflicts(r) ==
  SessionsOf(reval[r].plan) \cap (reval[r].provider \cup reval[r].reserved)
    # {}

Result(r) ==
  CASE reval[r].answer = "failure" -> "provider_failure"
    [] reval[r].answer = "partial" -> "provider_partial_failure"
    [] OTHER -> IF Conflicts(r) THEN "conflict" ELSE "valid"

StatusAfter_Result(s, result) ==
  IF result = "valid" THEN "confirmed" ELSE result

StatusAfter_KeepsOnPartial(s, result) ==
  CASE result = "conflict" -> "revalidation_required"
    [] result = "valid" -> "confirmed"
    [] OTHER -> s

StatusAfter(s, result) ==
  CASE result \in {"conflict", "provider_partial_failure"} ->
         "revalidation_required"
    [] result = "valid" -> "confirmed"
    [] result = "provider_failure" -> s

RevalidateRejected(r) ==
  /\ reval[r].pc = "answered"
  /\ PlanChanged(r)
  /\ Returns(r, NoPlan, NoRequestId)
  /\ UNCHANGED <<audit, verdict>>
  /\ UNCHANGED planVars

(* The transition and the audit row commit together; the plan row is       *)
(* written only if its status changes.                                     *)
RevalidateCommit(r) ==
  LET p      == reval[r].plan
      result == Result(r)
      after  == StatusAfter(status[p], result)
  IN
  /\ reval[r].pc = "answered"
  /\ ~ PlanChanged(r)
  /\ ~ Audited(p, reval[r].id)
  /\ IF after = status[p] THEN UNCHANGED <<status, session, updates>>
     ELSE UpdatePlan(p, after, session[p])
  /\ audit' = [audit EXCEPT ![r] =
                 [result |-> result, before |-> reval[r].before,
                  after |-> after]]
  /\ verdict' = IF result = "provider_failure" THEN verdict
                ELSE [verdict EXCEPT ![p] = result]
  /\ Returns(r, reval[r].plan, reval[r].id)
  /\ UNCHANGED <<key, creation>>

(* uq_schedule_plan_revalidations_plan_request: a request with the same id *)
(* committed first, so the transition is rolled back with the insert.      *)
RevalidateDuplicate(r) ==
  /\ reval[r].pc = "answered"
  /\ ~ PlanChanged(r)
  /\ Audited(reval[r].plan, reval[r].id)
  /\ Returns(r, NoPlan, NoRequestId)
  /\ UNCHANGED <<audit, verdict>>
  /\ UNCHANGED planVars

(* The process dies, or an error nobody catches ends the request.          *)
RevalidateAbort(r) ==
  /\ reval[r].pc \in {"querying", "answered"}
  /\ Returns(r, NoPlan, NoRequestId)
  /\ UNCHANGED <<audit, verdict>>
  /\ UNCHANGED planVars

RevalNext ==
  \/ \E r \in RevalidateRequest, p \in Plan, id \in RequestId :
       RevalidateReplay(r, p, id)
  \/ \E r \in RevalidateRequest, p \in Plan,
        id \in RequestId \cup {NoRequestId}, internal \in BOOLEAN :
       RevalidateBegin(r, p, id, internal)
  \/ \E r \in RevalidateRequest :
       \/ ProviderAnswers(r)
       \/ RevalidateRejected(r)
       \/ RevalidateCommit(r)
       \/ RevalidateDuplicate(r)
       \/ RevalidateAbort(r)

InFlight(r) == reval[r].pc \in {"querying", "answered"}

-----------------------------------------------------------------------------
(* The updated_at comparison is enough: as long as the row's timestamp is  *)
(* the one a request read before its await, so are status and sessions'    *)
(* eligibility; no sequence of transitions by other requests comes back    *)
(* unnoticed to a plan that merely looks the same.                         *)
TimestampCoversStatus ==
  \A r \in RevalidateRequest :
    InFlight(r) /\ updates[reval[r].plan] = reval[r].updates =>
      status[reval[r].plan] = reval[r].before

(* What an audit row says happened is what happened: its plan_status_before *)
(* was read before the await, yet it is the status the row had when the    *)
(* transition to plan_status_after was committed.                          *)
AuditsAreTruthful ==
  [][\A r \in RevalidateRequest :
       audit'[r] # audit[r] =>
         /\ status[reval[r].plan] = audit'[r].before
         /\ status'[reval[r].plan] = audit'[r].after]_<<status, audit, reval>>

(* The status of an eligible plan is the one its last decisive audit gave: *)
(* a plan with a conflict or an incomplete answer on record is not         *)
(* confirmed until a later complete check clears it, however confirmation, *)
(* overlapping revalidations, retries and crashes interleave.              *)
StatusAgreesWithAudits ==
  \A p \in Plan :
    /\ status[p] = "confirmed" => verdict[p] \in {"none", "valid"}
    /\ status[p] = "revalidation_required" =>
         verdict[p] \in {"conflict", "provider_partial_failure"}
=============================================================================
