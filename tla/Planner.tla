-------------------------------- MODULE Planner --------------------------------
(***************************************************************************)
(* The planner page's projection (app/planner/service.py).  It is built    *)
(* from several SELECTs in one transaction at READ COMMITTED: the sessions *)
(* come from one statement, the plans from a later one, and other requests *)
(* commit in between.  The objects of the first statement are not kept, so *)
(* nothing makes the second agree with it.                                 *)
(*                                                                         *)
(* The statements about backlog entries, consistency findings and external *)
(* changes read other tables and are left out, as are titles and order.    *)
(***************************************************************************)
EXTENDS SessionQuery

CONSTANT Horizon  (* the slots from today to the last day that is asked for *)

ASSUME HorizonAssumption == Horizon \subseteq Slot

VARIABLE planner  (* what the planner's request has read                   *)

-----------------------------------------------------------------------------

CONFIRMED_NOT_APPLIED_STATUSES ==
  {"confirmed", "revalidation_required", "applying", "partially_applied"}

ATTENTION_PLAN_STATUSES == {"revalidation_required", "partially_applied"}

PLANNER_PLAN_STATUSES ==
  {"proposed"} \cup CONFIRMED_NOT_APPLIED_STATUSES \cup ATTENTION_PLAN_STATUSES

PlannerPlanReadiness ==
  {"awaiting_confirmation", "ready_to_apply", "needs_revalidation",
   "apply_in_progress", "partially_applied"}

PlannerSession == [of : Session, plan_status : PlanStatus, mapped : BOOLEAN]

PlannerPlan ==
  [plan : Plan, status : PlanStatus, readiness : PlannerPlanReadiness,
   sessions : SUBSET Slot, mapped : SUBSET Slot]

PlannerResponse ==
  [pc : {"idle", "reading", "done"}, timeline : SUBSET PlannerSession,
   proposed : SUBSET PlannerPlan, confirmed : SUBSET PlannerPlan,
   attention : SUBSET (Plan \X {"revalidate_plan", "retry_apply"})]

NoPlanner ==
  [pc |-> "idle", timeline |-> {}, proposed |-> {}, confirmed |-> {},
   attention |-> {}]

PlannerInit == planner = NoPlanner

-----------------------------------------------------------------------------
(* today and upcoming                                                      *)
PlannerSessions ==
  /\ planner.pc = "idle"
  /\ planner' =
       [NoPlanner EXCEPT
          !.pc = "reading",
          !.timeline =
            {[of |-> s, plan_status |-> status[s[1]], mapped |-> IsMapped(s)] :
               s \in timeline_sessions_statement(Horizon,
                                                 RESERVING_PLAN_STATUSES)}]
  /\ UNCHANGED <<planVars, applyVars>>

(* Any other status is a KeyError.                                         *)
Readiness(s) ==
  CASE s = "proposed"              -> "awaiting_confirmation"
    [] s = "confirmed"             -> "ready_to_apply"
    [] s = "revalidation_required" -> "needs_revalidation"
    [] s = "applying"              -> "apply_in_progress"
    [] s = "partially_applied"     -> "partially_applied"
    [] OTHER                       -> "KeyError"

(* One statement joins a plan with its sessions and their mappings.        *)
PlanItem(p) ==
  [plan |-> p, status |-> status[p], readiness |-> Readiness(status[p]),
   sessions |-> SessionsOf(p), mapped |-> mapped[p]]

PlansIn(statuses) == {PlanItem(p) : p \in {q \in Plan : status[q] \in statuses}}

AttentionAction(s) ==
  IF s = "revalidation_required" THEN "revalidate_plan" ELSE "retry_apply"

NeedsAttention ==
  {<<p, AttentionAction(status[p])>> :
     p \in {q \in Plan : status[q] \in ATTENTION_PLAN_STATUSES}}

PlannerPlans ==
  /\ planner.pc = "reading"
  /\ planner' =
       [planner EXCEPT
          !.pc = "done",
          !.proposed = PlansIn(PLANNER_PLAN_STATUSES \cap {"proposed"}),
          !.confirmed = PlansIn(PLANNER_PLAN_STATUSES
                                  \cap CONFIRMED_NOT_APPLIED_STATUSES),
          !.attention = NeedsAttention]
  /\ UNCHANGED <<planVars, applyVars>>

PlannerReturn ==
  /\ planner.pc = "done"
  /\ planner' = NoPlanner
  /\ UNCHANGED <<planVars, applyVars>>

PlannerNext == PlannerSessions \/ PlannerPlans \/ PlannerReturn

-----------------------------------------------------------------------------
PlannerTypeOK == planner \in PlannerResponse

(* The two halves of a response, read at different moments, contradict     *)
(* each other in no way a plan could not have moved: a plan that awaits    *)
(* confirmation has no session on the timeline, an applied one is not      *)
(* offered again, one that was published is not back among the revisable,  *)
(* and a mapping the timeline shows is counted.                            *)
PlannerNeverGoesBack ==
  \A e \in planner.timeline, x \in planner.proposed \cup planner.confirmed :
    e.of[1] = x.plan =>
      /\ x.status # "proposed"
      /\ e.plan_status # "applied"
      /\ e.plan_status \in Published => x.status \in Published
      /\ e.mapped => e.of[2] \in x.mapped

(* The readiness of a plan and the mapped sessions counted beside it tell  *)
(* the same: nothing of a plan that is ready to apply or waits for         *)
(* revalidation is in the calendar, and of one that is to be retried       *)
(* something is and something is missing.                                  *)
ReadinessTellsMappings ==
  \A x \in planner.proposed \cup planner.confirmed :
    CASE x.readiness = "partially_applied" ->
           x.mapped # {} /\ x.mapped # x.sessions
      [] x.readiness = "apply_in_progress" -> x.mapped \subseteq x.sessions
      [] OTHER -> x.mapped = {}
=============================================================================
