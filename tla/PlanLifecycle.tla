---------------------------- MODULE PlanLifecycle ----------------------------
(***************************************************************************)
(* What the schedule-plan component promises its clients, without          *)
(* requests, locks, retries, revalidation or crashes: plans of a group are *)
(* drafted one after the other, each moves through the transition table of *)
(* app/schedule_plans/service.py, a group is never revised once a version  *)
(* of it is being published, sessions are published one at a time and only *)
(* by an applying plan, and "applied" means completely published.          *)
(***************************************************************************)
EXTENDS Naturals

CONSTANTS Group, MaxVersion, Slot

VARIABLES
  status,     (* the plan's status, "absent" before it is drafted          *)
  content,    (* the slots of the plan's sessions                          *)
  published   (* the sessions with a calendar event on record              *)

vars == <<status, content, published>>

Plan == Group \X (1 .. MaxVersion)

ALLOWED_PLAN_TRANSITIONS ==
  { <<"proposed", "confirmed">>, <<"proposed", "obsolete">>,
    <<"confirmed", "obsolete">>, <<"confirmed", "revalidation_required">>,
    <<"confirmed", "applying">>,
    <<"revalidation_required", "confirmed">>,
    <<"revalidation_required", "obsolete">>,
    <<"applying", "applied">>, <<"applying", "partially_applied">>,
    <<"applying", "failed">>,
    <<"partially_applied", "applying">>, <<"partially_applied", "failed">> }

Init ==
  /\ status = [p \in Plan |-> "absent"]
  /\ content = [p \in Plan |-> {}]
  /\ published = [p \in Plan |-> {}]

Revised(s) ==
  IF s \in {"proposed", "confirmed", "revalidation_required"}
  THEN "obsolete" ELSE s

(* The next version of the group appears and replaces the others.          *)
Draft(p, slots) ==
  /\ status[p] = "absent"
  /\ \A q \in Plan :
       /\ q[1] = p[1] /\ q[2] < p[2] =>
            status[q] \in {"proposed", "confirmed", "revalidation_required",
                           "obsolete", "failed"}
       /\ q[1] = p[1] /\ q[2] > p[2] => status[q] = "absent"
  /\ status' = [q \in Plan |->
                  IF q = p THEN "proposed"
                  ELSE IF q[1] = p[1] THEN Revised(status[q])
                  ELSE status[q]]
  /\ content' = [content EXCEPT ![p] = slots]
  /\ UNCHANGED published

(* A status that claims something about the calendar tells the truth.      *)
Truthful(p, s) ==
  /\ s = "applied" => published[p] = content[p]
  /\ s = "partially_applied" => published[p] \notin {{}, content[p]}
  /\ s \in {"failed", "obsolete", "revalidation_required"} =>
       published[p] = {}

Move(p, s) ==
  /\ <<status[p], s>> \in ALLOWED_PLAN_TRANSITIONS
  /\ Truthful(p, s)
  /\ status' = [status EXCEPT ![p] = s]
  /\ UNCHANGED <<content, published>>

Publish(p, k) ==
  /\ status[p] = "applying"
  /\ k \in content[p] \ published[p]
  /\ published' = [published EXCEPT ![p] = @ \cup {k}]
  /\ UNCHANGED <<status, content>>

Next ==
  \E p \in Plan :
    \/ \E slots \in (SUBSET Slot) \ {{}} : Draft(p, slots)
    \/ \E s \in {"confirmed", "obsolete", "revalidation_required",
                 "applying", "applied", "partially_applied", "failed"} :
         Move(p, s)
    \/ \E k \in Slot : Publish(p, k)

Spec == Init /\ [][Next]_vars
=============================================================================
