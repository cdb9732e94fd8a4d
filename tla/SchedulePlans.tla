---------------------------- MODULE SchedulePlans ----------------------------
(***************************************************************************)
(* The schedule_plans and scheduled_sessions tables and the requests that  *)
(* create, confirm and obsolete plans                                      *)
(* (app/schedule_plans/service.py, repository.py, models.py).              *)
(*                                                                         *)
(* A plan is identified by its plan_group_id and version, the pair that    *)
(* uq_schedule_plans_group_version makes unique.  Its content is a set of  *)
(* time slots: one ScheduledSession per slot, ordered by time, and two     *)
(* sessions overlap when they occupy the same slot.                        *)
(*                                                                         *)
(* Each request runs in one database transaction at READ COMMITTED.  The   *)
(* handlers that lock the plan row first and never await are one action;   *)
(* plan creation reads before it can lock, so it takes two.                *)
(***************************************************************************)
EXTENDS Naturals

CONSTANTS
  Group,          (* plan_group_id values                                  *)
  MaxVersion,     (* versions per group: bounds the model                  *)
  Slot,           (* time slots a session can occupy, ordered by time      *)
  Key,            (* idempotency keys                                      *)
  CreateRequest,  (* POST .../schedule-plans/from-preview calls            *)
  NoKey,          (* the idempotency key of a row that does not exist      *)
  NoGroup,        (* the group of a request that has not arrived           *)
  NoPlan          (* the answer of a request that returns no plan          *)

ASSUME MaxVersionAssumption == MaxVersion \in Nat \ {0}
ASSUME SlotAssumption == Slot \subseteq Nat
ASSUME KeyAssumption == NoKey \notin Key
ASSUME GroupAssumption == NoGroup \notin Group
ASSUME PlanAssumption == NoPlan \notin Group \X (1 .. MaxVersion)

VARIABLES
  status,    (* SchedulePlan.status, "absent" before the row is inserted   *)
  session,   (* ScheduledSession.status per slot, "absent" if no session   *)
  key,       (* SchedulePlan.idempotency_key                               *)
  updates,   (* SchedulePlan.updated_at, as the number of row updates: the *)
             (* code only compares it for equality                         *)
  creation   (* what each create request holds in local variables          *)

planRows == <<status, session, key, updates>>
planVars == <<status, session, key, updates, creation>>

-----------------------------------------------------------------------------

Plan == Group \X (1 .. MaxVersion)

PlanStatus ==
  {"proposed", "confirmed", "obsolete", "revalidation_required",
   "applying", "applied", "partially_applied", "failed"}

SessionStatus ==
  {"proposed", "confirmed", "applying", "applied", "failed", "obsolete"}

(* The statuses a plan can still be revised or withdrawn in.               *)
Revisable == {"proposed", "confirmed", "revalidation_required"}

(* The statuses in which calendar events may exist, so that no newer       *)
(* version may replace the plan.                                           *)
Published == {"applying", "applied", "partially_applied"}

RESERVING_PLAN_STATUSES ==
  {"confirmed", "revalidation_required",
   "applying", "applied", "partially_applied"}

Exists(p) == status[p] # "absent"

SessionsOf(p) == {k \in Slot : session[p][k] # "absent"}

(* list_reserved_intervals(exclude_plan_id = p): the plan's status alone   *)
(* decides, whatever the status of each session.                           *)
ReservedSlots(p) ==
  {k \in Slot : \E q \in Plan \ {p} :
                   /\ status[q] \in RESERVING_PLAN_STATUSES
                   /\ k \in SessionsOf(q)}

(* v is what latest_plan_in_group finds, 0 standing for None.              *)
IsLatest(g, v) ==
  /\ v # 0 => Exists(<<g, v>>)
  /\ \A w \in 1 .. MaxVersion : Exists(<<g, w>>) => w <= v

(* Every session of the row given the same status.                         *)
AllSessions(row, s) ==
  [k \in Slot |-> IF row[k] = "absent" THEN "absent" ELSE s]

NewSessions(slots) ==
  [k \in Slot |-> IF k \in slots THEN "proposed" ELSE "absent"]

Creation ==
  [pc : {"new", "checked", "read", "done"}, key : Key \cup {NoKey},
   group : Group \cup {NoGroup}, previous : 0 .. MaxVersion,
   result : Plan \cup {NoPlan}]

TypeOK ==
  /\ status \in [Plan -> PlanStatus \cup {"absent"}]
  /\ session \in [Plan -> [Slot -> SessionStatus \cup {"absent"}]]
  /\ key \in [Plan -> Key \cup {NoKey}]
  /\ updates \in [Plan -> Nat]
  /\ creation \in [CreateRequest -> Creation]

PlanInit ==
  /\ status = [p \in Plan |-> "absent"]
  /\ session = [p \in Plan |-> [k \in Slot |-> "absent"]]
  /\ key = [p \in Plan |-> NoKey]
  /\ updates = [p \in Plan |-> 0]
  /\ creation = [r \in CreateRequest |->
                   [pc |-> "new", key |-> NoKey, group |-> NoGroup,
                    previous |-> 0, result |-> NoPlan]]

-----------------------------------------------------------------------------
(* transition_schedule_plan together with the session updates and the      *)
(* commit that follow it: the row's onupdate clock moves.                  *)
UpdatePlan_NoClock(p, s, sessions) ==
  /\ status' = [status EXCEPT ![p] = s]
  /\ session' = [session EXCEPT ![p] = sessions]
  /\ UNCHANGED updates

UpdatePlan(p, s, sessions) ==
  /\ status' = [status EXCEPT ![p] = s]
  /\ session' = [session EXCEPT ![p] = sessions]
  /\ updates' = [updates EXCEPT ![p] = @ + 1]

Answer(r, result) ==
  creation' = [creation EXCEPT ![r] = [@ EXCEPT !.pc = "done",
                                                !.result = result]]

(* The key is already stored: its plan is the answer and nothing changes.  *)
CreateReplay(r, k) ==
  /\ creation[r].pc = "new"
  /\ \E p \in Plan :
       /\ key[p] = k
       /\ creation' = [creation EXCEPT ![r] =
                         [@ EXCEPT !.pc = "done", !.key = k, !.result = p]]
  /\ UNCHANGED planRows

(* The key is new.  Nothing is locked yet.                                 *)
CreateMiss(r, k, g) ==
  /\ creation[r].pc = "new"
  /\ \A p \in Plan : key[p] # k
  /\ creation' = [creation EXCEPT ![r] =
                    [@ EXCEPT !.pc = "checked", !.key = k, !.group = g]]
  /\ UNCHANGED planRows

(* The statement that selects the group's newest row FOR UPDATE picks      *)
(* version v.  If another transaction holds that row, the select waits and *)
(* then goes on with the same row, so v may be stale when CreateCommit     *)
(* runs.                                                                   *)
CreateRead(r) ==
  /\ creation[r].pc = "checked"
  /\ \E v \in 0 .. MaxVersion - 1 :
       /\ IsLatest(creation[r].group, v)
       /\ creation' = [creation EXCEPT ![r] =
                         [@ EXCEPT !.pc = "read", !.previous = v]]
  /\ UNCHANGED planRows

CanRevise_Anything(g, v) == TRUE

CanRevise(g, v) == v # 0 => status[<<g, v>>] \notin Published

Supersedes_DraftsOnly(g, v) == v # 0 /\ status[<<g, v>>] = "proposed"

Supersedes(g, v) == v # 0 /\ status[<<g, v>>] \in Revisable

Successor(g, v) == <<g, v + 1>>

(* The insert breaks one of the two unique constraints.                    *)
Collides_VersionOnly(k, p) == Exists(p)

Collides(k, p) == Exists(p) \/ \E q \in Plan : key[q] = k

CreateRefused(r) ==
  /\ creation[r].pc = "read"
  /\ ~ CanRevise(creation[r].group, creation[r].previous)
  /\ Answer(r, NoPlan)
  /\ UNCHANGED planRows

(* The previous version becomes obsolete in the transaction that inserts   *)
(* its successor.                                                          *)
CreateCommit(r) ==
  LET c   == creation[r]
      old == <<c.group, c.previous>>
      new == Successor(c.group, c.previous)
      superseded == Supersedes(c.group, c.previous)
  IN
  /\ c.pc = "read"
  /\ CanRevise(c.group, c.previous)
  /\ ~ Collides(c.key, new)
  /\ \E slots \in (SUBSET Slot) \ {{}} :
       /\ status' = [p \in Plan |->
                       CASE p = new -> "proposed"
                         [] p = old /\ superseded -> "obsolete"
                         [] OTHER -> status[p]]
       /\ session' = [p \in Plan |->
                        CASE p = new -> NewSessions(slots)
                          [] p = old /\ superseded ->
                               AllSessions(session[p], "obsolete")
                          [] OTHER -> session[p]]
  /\ updates' = [p \in Plan |-> IF p = old /\ superseded
                                THEN updates[p] + 1 ELSE updates[p]]
  /\ key' = [key EXCEPT ![new] = c.key]
  /\ Answer(r, new)

(* IntegrityError: everything is rolled back, the obsoleted predecessor    *)
(* too, and the plan that owns the key, if any, is the answer.             *)
KeyOwner(k, p) ==
  IF \E q \in Plan : key[q] = k THEN p \in Plan /\ key[p] = k ELSE p = NoPlan

CreateRollback_KeepsObsolete(r) ==
  LET c   == creation[r]
      old == <<c.group, c.previous>>
  IN
  /\ c.pc = "read"
  /\ CanRevise(c.group, c.previous)
  /\ Collides(c.key, Successor(c.group, c.previous))
  /\ \E p \in Plan \cup {NoPlan} : KeyOwner(c.key, p) /\ Answer(r, p)
  /\ IF Supersedes(c.group, c.previous)
     THEN UpdatePlan(old, "obsolete", AllSessions(session[old], "obsolete"))
     ELSE UNCHANGED <<status, session, updates>>
  /\ UNCHANGED key

CreateRollback(r) ==
  LET c == creation[r] IN
  /\ c.pc = "read"
  /\ CanRevise(c.group, c.previous)
  /\ Collides(c.key, Successor(c.group, c.previous))
  /\ \E p \in Plan \cup {NoPlan} : KeyOwner(c.key, p) /\ Answer(r, p)
  /\ UNCHANGED planRows

Confirm(p) ==
  /\ status[p] = "proposed"
  /\ UpdatePlan(p, "confirmed", AllSessions(session[p], "confirmed"))
  /\ UNCHANGED <<key, creation>>

Obsolete(p) ==
  /\ status[p] \in Revisable
  /\ UpdatePlan(p, "obsolete", AllSessions(session[p], "obsolete"))
  /\ UNCHANGED <<key, creation>>

PlanNext ==
  \/ \E r \in CreateRequest, k \in Key : CreateReplay(r, k)
  \/ \E r \in CreateRequest, k \in Key, g \in Group : CreateMiss(r, k, g)
  \/ \E r \in CreateRequest :
       CreateRead(r) \/ CreateRefused(r) \/ CreateCommit(r) \/ CreateRollback(r)
  \/ \E p \in Plan : Confirm(p) \/ Obsolete(p)

-----------------------------------------------------------------------------
(* A version that has a successor is out of the game: only the newest      *)
(* version of a group may be confirmed, revalidated or applied, however    *)
(* the requests that revise the group interleave.                          *)
OnlyLatestIsLive ==
  \A p, q \in Plan :
    /\ Exists(p) /\ Exists(q)
    /\ p[1] = q[1] /\ p[2] < q[2]
    => status[p] \in {"obsolete", "failed"}

(* Versions of a group are numbered without gaps.                          *)
NoVersionGaps ==
  \A p, q \in Plan :
    Exists(q) /\ p[1] = q[1] /\ p[2] < q[2] => Exists(p)

(* Two create requests with the same key, concurrent or repeated, never    *)
(* yield two plans, and whoever gets a plan gets the one with its key.     *)
CreateIsIdempotent ==
  /\ \A p, q \in Plan : Exists(p) /\ key[p] = key[q] => p = q
  /\ \A r \in CreateRequest :
       creation[r].result # NoPlan => key[creation[r].result] = creation[r].key

(* A create request either inserts its plan or leaves every plan as it     *)
(* was: no predecessor is obsoleted without its successor.                 *)
CreateIsAtomic ==
  [][\A r \in CreateRequest :
       creation[r].pc = "read" /\ creation[r]'.pc = "done" =>
         \/ UNCHANGED <<status, session>>
         \/ LET p == creation[r]'.result IN
            p \in Plan /\ ~ Exists(p) /\ status'[p] = "proposed"]_planVars
=============================================================================
