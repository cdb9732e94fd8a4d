------------------------ MODULE ExternalCalendarPolicy ------------------------
(***************************************************************************)
(* evaluate_external_calendar_policy (app/domain/external_calendar_        *)
(* policy.py): the pure function that turns one recorded change of a       *)
(* calendar event into decisions about the session, its task and the plan. *)
(*                                                                         *)
(* A placement is a pair <<start, end>> of minutes with start < end.  An   *)
(* aggregate is a record [changed, deadline, window, sessions] where       *)
(* sessions maps the order of each session of the plan to a record         *)
(* [mapped, missing, scheduled, observed].                                 *)
(***************************************************************************)
EXTENDS Naturals

CONSTANT NoDeadline  (* Task.deadline is None                              *)

NoPlacement == << >>

Decision(type, data) == [type |-> type, data |-> data]

-----------------------------------------------------------------------------
(* ExternalEventState has no time zone and no version: dataclass equality  *)
(* compares the rest.                                                      *)
SameEvent(a, b) ==
  a.exists = b.exists /\ a.cancelled = b.cancelled /\ a.at = b.at

IsMissing(event) == ~ event.exists \/ event.cancelled

EffectivePlacement(s) == IF s.observed # NoPlacement THEN s.observed
                                                     ELSE s.scheduled

(* The intervals the calendar would show once the change is accepted, as   *)
(* triples <<start, end, order>>.                                          *)
ProjectedIntervals(aggregate, current) ==
  {LET s == aggregate.sessions[i]
       at == IF i = aggregate.changed THEN current.at ELSE EffectivePlacement(s)
   IN <<at[1], at[2], i>> :
   i \in {j \in DOMAIN aggregate.sessions :
            aggregate.sessions[j].mapped /\ ~ aggregate.sessions[j].missing}}

(* The sort key (start, end, order).                                       *)
Before(x, y) ==
  \/ x[1] < y[1]
  \/ x[1] = y[1] /\ x[2] < y[2]
  \/ x[1] = y[1] /\ x[2] = y[2] /\ x[3] < y[3]

Adjacent(projected, x, y) ==
  /\ Before(x, y)
  /\ \A z \in projected : ~ (Before(x, z) /\ Before(z, y))

LatestEnd_Exclusive(projected) ==
  1 + CHOOSE e \in {x[2] : x \in projected} : \A x \in projected : x[2] <= e

LatestEnd(projected) ==
  CHOOSE e \in {x[2] : x \in projected} : \A x \in projected : x[2] <= e

(* max() over the projected intervals has a value.                         *)
Decidable(aggregate, current) == ProjectedIntervals(aggregate, current) # {}

ExceedsDeadline_Differs(end, deadline) == end # deadline

ExceedsDeadline(end, deadline) == deadline = NoDeadline \/ end > deadline

MoveConflicts(aggregate, current) ==
  LET projected == ProjectedIntervals(aggregate, current)
      outside == \/ current.at[1] < aggregate.window[1]
                 \/ current.at[2] > aggregate.window[2]
  IN
  (IF outside
   THEN {Decision("record_conflict",
                  <<"outside_planning_window", {aggregate.changed}>>)}
   ELSE {})
  \cup
  {Decision("record_conflict", <<"session_overlap", {p[1][3], p[2][3]}>>) :
     p \in {q \in projected \X projected :
              Adjacent(projected, q[1], q[2]) /\ q[2][1] < q[1][2]}}

(* The decisions for a change of the given type between two events.        *)
PolicyDecisions(aggregate, type, previous, current) ==
  LET latest == LatestEnd(ProjectedIntervals(aggregate, current)) IN
  CASE SameEvent(previous, current) -> {Decision("no_action", {})}
    [] ~ SameEvent(previous, current) /\ IsMissing(current) ->
         {Decision("mark_external_event_missing", {}),
          Decision("record_conflict",
                   <<"external_event_missing", {aggregate.changed}>>)}
    [] ~ SameEvent(previous, current) /\ ~ IsMissing(current) ->
         IF \/ type # "moved"
            \/ previous.at = NoPlacement
            \/ previous.at = current.at
         THEN {Decision("unsupported_external_change", {})}
         ELSE {Decision("update_scheduled_session_time",
                        <<previous.at, current.at>>)}
              \cup {Decision("extend_task_deadline", d) :
                      d \in {e \in {latest} :
                               ExceedsDeadline(e, aggregate.deadline)}}
              \cup MoveConflicts(aggregate, current)
=============================================================================
