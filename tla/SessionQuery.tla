------------------------------ MODULE SessionQuery ------------------------------
(***************************************************************************)
(* The query the planner and the day view share                            *)
(* (app/planner/session_query.py): the sessions of a user's plans, each    *)
(* with its plan and, if it has one, its mapping, read by one statement.   *)
(***************************************************************************)
EXTENDS PlanApply

Session == Plan \X Slot

(* A session that is joined with a mapping.                                *)
IsMapped(s) == s[2] \in mapped[s[1]]

timeline_sessions_statement(slots, plan_statuses) ==
  {s \in Plan \X slots :
     /\ status[s[1]] \in plan_statuses
     /\ s[2] \in SessionsOf(s[1])}
=============================================================================
