------------------------------ MODULE PlanApply ------------------------------
(***************************************************************************)
(* Writing a confirmed plan to Google Calendar                             *)
(* (app/schedule_plans/apply.py and create_event of                        *)
(* app/calendar_integration/google/client.py).  One request claims the     *)
(* plan, creates one event per unmapped session under the session's own    *)
(* id, commits one mapping per event, and settles the plan's status.       *)
(* Between any two awaits the process may die, and a provider call may     *)
(* reach Google although its answer is lost.                               *)
(***************************************************************************)
EXTENDS SchedulePlans

CONSTANTS
  MAX_ATTEMPTS,  (* tries of one HTTP call in GoogleCalendarClient._request *)
  MaxUpdates,    (* row updates per plan: bounds the retries of apply       *)
  MaxAborts      (* requests that end without settling their plan: a bound  *)

ASSUME AttemptsAssumption == MAX_ATTEMPTS \in Nat \ {0}
ASSUME BoundsAssumption == MaxUpdates \in Nat /\ MaxAborts \in Nat

VARIABLES
  mapped,  (* the sessions with a calendar_event_mappings row              *)
  event,   (* external: the sessions whose event Google ever accepted      *)
  run,     (* the apply request that works on the plan, if any             *)
  aborts   (* how many apply requests have died                            *)

applyVars == <<mapped, event, run, aborts>>

-----------------------------------------------------------------------------

Idle == [pc |-> "idle", todo |-> {}, attempts |-> 0]

Run == [pc : {"idle", "calling", "persisting"}, todo : SUBSET Slot,
        attempts : 0 .. MAX_ATTEMPTS]

ApplyTypeOK ==
  /\ mapped \in [Plan -> SUBSET Slot]
  /\ event \in [Plan -> SUBSET Slot]
  /\ run \in [Plan -> Run]
  /\ aborts \in 0 .. MaxAborts

ApplyInit ==
  /\ mapped = [p \in Plan |-> {}]
  /\ event = [p \in Plan |-> {}]
  /\ run = [p \in Plan |-> Idle]
  /\ aborts = 0

-----------------------------------------------------------------------------
(* Mapped sessions are applied already, the others are to be.              *)
ClaimedSessions_AllAgain(p) == AllSessions(session[p], "applying")

ClaimedSessions(p) ==
  [k \in Slot |-> CASE session[p][k] = "absent" -> "absent"
                     [] k \in mapped[p]          -> "applied"
                     [] OTHER                    -> "applying"]

(* The claim: under the row lock the plan becomes applying, and the lock   *)
(* is given up.                                                            *)
ApplyClaim_AppliedAgain(p) ==
  /\ status[p] \in {"confirmed", "partially_applied", "applied"}
  /\ updates[p] + 2 <= MaxUpdates
  /\ UpdatePlan(p, "applying", ClaimedSessions(p))
  /\ run' = [run EXCEPT ![p] = [pc |-> "calling",
                                todo |-> SessionsOf(p) \ mapped[p],
                                attempts |-> 0]]
  /\ UNCHANGED <<key, creation, mapped, event, aborts>>

ApplyClaim(p) ==
  /\ status[p] \in {"confirmed", "partially_applied"}
  /\ updates[p] + 2 <= MaxUpdates
  /\ UpdatePlan(p, "applying", ClaimedSessions(p))
  /\ run' = [run EXCEPT ![p] = [pc |-> "calling",
                                todo |-> SessionsOf(p) \ mapped[p],
                                attempts |-> 0]]
  /\ UNCHANGED <<key, creation, mapped, event, aborts>>

(* The session the loop is at: the earliest one not dealt with.            *)
AtSession(p, k, pc) ==
  /\ run[p].pc = pc
  /\ k \in run[p].todo
  /\ \A j \in run[p].todo : k <= j

(* Google has the event, new or from an earlier try (409), and says so.    *)
EventCreated_Assumed(p, k) ==
  /\ AtSession(p, k, "calling")
  /\ run[p].attempts < MAX_ATTEMPTS
  /\ run' = [run EXCEPT ![p] = [@ EXCEPT !.pc = "persisting"]]
  /\ UNCHANGED <<mapped, event, aborts>>
  /\ UNCHANGED planVars

EventCreated(p, k) ==
  /\ AtSession(p, k, "calling")
  /\ run[p].attempts < MAX_ATTEMPTS
  /\ event' = [event EXCEPT ![p] = @ \cup {k}]
  /\ run' = [run EXCEPT ![p] = [@ EXCEPT !.pc = "persisting"]]
  /\ UNCHANGED <<mapped, aborts>>
  /\ UNCHANGED planVars

(* A connection error, a timeout, 429 or 5xx: the client tries again, and  *)
(* the try that failed may have created the event.  A response that does   *)
(* not parse is a failed try after which SessionFails gives up at once.    *)
CallFails(p, k) ==
  /\ AtSession(p, k, "calling")
  /\ run[p].attempts < MAX_ATTEMPTS
  /\ \E reached \in BOOLEAN :
       event' = [event EXCEPT ![p] = IF reached THEN @ \cup {k} ELSE @]
  /\ run' = [run EXCEPT ![p].attempts = @ + 1]
  /\ UNCHANGED <<mapped, aborts>>
  /\ UNCHANGED planVars

Advance_SameSession(p, k) ==
  run' = [run EXCEPT ![p] = [pc |-> "calling", todo |-> @.todo,
                             attempts |-> 0]]

Advance(p, k) ==
  run' = [run EXCEPT ![p] = [pc |-> "calling", todo |-> @.todo \ {k},
                             attempts |-> 0]]

(* CalendarIntegrationError: every try failed, or the credentials or the   *)
(* request were refused.  Only the session row is committed.               *)
SessionFails(p, k) ==
  /\ AtSession(p, k, "calling")
  /\ session' = [session EXCEPT ![p][k] = "failed"]
  /\ Advance(p, k)
  /\ UNCHANGED <<status, key, updates, creation, mapped, event, aborts>>

MappingCommits(p, k) ==
  /\ AtSession(p, k, "persisting")
  /\ mapped' = [mapped EXCEPT ![p] = @ \cup {k}]
  /\ session' = [session EXCEPT ![p][k] = "applied"]
  /\ Advance(p, k)
  /\ UNCHANGED <<status, key, updates, creation, event, aborts>>

(* Under the row lock again: the mappings decide.                          *)
ResultingStatus_CountsEvents(p) ==
  CASE event[p] = SessionsOf(p) -> "applied"
    [] event[p] = {}            -> "failed"
    [] OTHER                    -> "partially_applied"

ResultingStatus(p) ==
  CASE mapped[p] = SessionsOf(p) -> "applied"
    [] mapped[p] = {}            -> "failed"
    [] OTHER                     -> "partially_applied"

ApplySettles(p) ==
  /\ run[p].pc = "calling"
  /\ run[p].todo = {}
  /\ UpdatePlan(p, ResultingStatus(p), session[p])
  /\ run' = [run EXCEPT ![p] = Idle]
  /\ UNCHANGED <<key, creation, mapped, event, aborts>>

(* The process dies or an exception that is not a CalendarIntegrationError *)
(* ends the request: what was committed stays.                             *)
ApplyAbort(p) ==
  /\ run[p].pc # "idle"
  /\ aborts < MaxAborts
  /\ aborts' = aborts + 1
  /\ run' = [run EXCEPT ![p] = Idle]
  /\ UNCHANGED <<mapped, event>>
  /\ UNCHANGED planVars

ApplyStep(p) ==
  \/ \E k \in Slot : \/ EventCreated(p, k)
                     \/ CallFails(p, k)
                     \/ SessionFails(p, k)
                     \/ MappingCommits(p, k)
  \/ ApplySettles(p)

ApplyNext == \E p \in Plan : ApplyClaim(p) \/ ApplyStep(p) \/ ApplyAbort(p)

-----------------------------------------------------------------------------
(* Every mapping names an event that Google has, and only a plan that is   *)
(* past its claim owns mappings or events: no proposed, confirmed or       *)
(* obsolete plan ever has anything in the calendar.                        *)
MappingsHaveEvents ==
  \A p \in Plan :
    /\ mapped[p] \subseteq event[p] \cap SessionsOf(p)
    /\ mapped[p] # {} => status[p] \in Published
    /\ event[p] # {} => status[p] \in Published \cup {"failed"}

(* The status the plan settles in tells exactly how much of it has a       *)
(* mapping, across retries, lost answers and crashes.                      *)
StatusTellsMappings ==
  \A p \in Plan :
    /\ status[p] = "applied" => mapped[p] = SessionsOf(p)
    /\ status[p] = "partially_applied" =>
         mapped[p] # {} /\ mapped[p] # SessionsOf(p)
    /\ status[p] = "failed" => mapped[p] = {}

(* The session rows agree with the plan row at every commit, although      *)
(* apply commits them one by one.                                          *)
SessionsFollowPlan ==
  \A p \in Plan : \A k \in SessionsOf(p) :
    /\ status[p] = "absent" => FALSE
    /\ status[p] \in {"proposed", "obsolete"} => session[p][k] = status[p]
    /\ status[p] \in {"confirmed", "revalidation_required"} => session[p][k] = "confirmed"
    /\ status[p] = "applying" =>
         /\ session[p][k] = "applied" <=> k \in mapped[p]
         /\ session[p][k] \in {"applying", "applied", "failed"}
    /\ status[p] \in {"applied", "partially_applied", "failed"} =>
         session[p][k] = IF k \in mapped[p] THEN "applied" ELSE "failed"
=============================================================================
