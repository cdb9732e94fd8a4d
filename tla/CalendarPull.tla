----------------------------- MODULE CalendarPull -----------------------------
(***************************************************************************)
(* Detecting what people did to the calendar events of an applied plan     *)
(* (app/calendar_sync/pull.py).  A pull of one mapping reads the mapping,  *)
(* awaits the provider's copy of the event, then locks the mapping row,    *)
(* compares the copy with the last synchronized snapshot, and commits the  *)
(* new snapshot together with one external_calendar_changes row.           *)
(*                                                                         *)
(* SELECT ... FOR UPDATE does not refresh an object the database session   *)
(* already holds, and rollback() without an open transaction expires       *)
(* nothing: after the await the comparison is made with the snapshot that  *)
(* was loaded before it, and a column is written only if its new value     *)
(* differs from the loaded one.                                            *)
(***************************************************************************)
EXTENDS Naturals, FiniteSets

CONSTANTS
  Session,      (* the plan's mapped sessions, by their order              *)
  Placement,    (* the <<start, end>> pairs an event can be moved to       *)
  Zone,         (* time zones the provider reports                         *)
  PullRequest,  (* POST .../calendar-event-mappings/{id}/sync calls        *)
  MaxEdits,     (* edits of one calendar event: bounds the model           *)
  NoSession     (* the mapping of a request that is not at work            *)

ASSUME SessionAssumption ==
  Session \subseteq Nat \ {0} /\ IsFiniteSet(Session) /\ NoSession \notin Session
ASSUME PlacementAssumption ==
  Placement # {} /\ \A p \in Placement : p \in Nat \X Nat /\ p[1] < p[2]
ASSUME ZoneAssumption == Zone # {}
ASSUME MaxEditsAssumption == MaxEdits \in Nat

VARIABLES
  calendar,  (* external: each event's state and how often it was edited   *)
  baseline,  (* CalendarEventMapping.last_synced_snapshot                  *)
  sync,      (* CalendarEventMapping.sync_status                           *)
  changes,   (* the external_calendar_changes rows, by (mapping, hash)     *)
  pull       (* what each pull request holds in memory                     *)

pullVars == <<calendar, baseline, sync, changes, pull>>

-----------------------------------------------------------------------------

NotFound == [exists |-> FALSE, cancelled |-> FALSE, at |-> << >>, zone |-> "none"]
Cancelled == [exists |-> TRUE, cancelled |-> TRUE, at |-> << >>, zone |-> "none"]

PresentAt(p, z) == [exists |-> TRUE, cancelled |-> FALSE, at |-> p, zone |-> z]

EventState == {PresentAt(p, z) : p \in Placement, z \in Zone}
              \cup {NotFound, Cancelled}

(* CalendarEventSnapshot: the event's state, and its etag and update time. *)
Snapshot == [state : EventState, version : 0 .. MaxEdits]

SyncStatus == {"synced", "failed", "externally_deleted"}

(* A change row is identified by its transition hash, over the state part  *)
(* of the old snapshot and the whole of the new one.                       *)
Change == [session : Session, old : EventState, new : Snapshot]

Pull == [pc : {"idle", "querying", "answered"},
         session : Session \cup {NoSession},
         heldBaseline : Snapshot, heldSync : SyncStatus, answer : Snapshot]

SyncTypeOK ==
  /\ calendar \in [Session -> Snapshot]
  /\ baseline \in [Session -> Snapshot]
  /\ sync \in [Session -> SyncStatus]
  /\ changes \subseteq Change
  /\ pull \in [PullRequest -> Pull]

Unseen == [state |-> NotFound, version |-> 0]

IdlePull == [pc |-> "idle", session |-> NoSession, heldBaseline |-> Unseen,
             heldSync |-> "synced", answer |-> Unseen]

(* Apply left events that follow each other in the plan's order, and each  *)
(* mapping's baseline is its event.                                        *)
PullInit ==
  /\ \E z \in Zone, at \in [Session -> Placement] :
       /\ \A s, t \in Session : s < t => at[s][2] <= at[t][1]
       /\ calendar = [s \in Session |->
                        [state |-> PresentAt(at[s], z), version |-> 0]]
  /\ baseline = calendar
  /\ sync = [s \in Session |-> "synced"]
  /\ changes = {}
  /\ pull = [r \in PullRequest |-> IdlePull]

-----------------------------------------------------------------------------
(* External: somebody moves, retitles, deletes or restores an event, or    *)
(* takes away or gives back access to it.                                  *)
EditEvent(s) ==
  /\ calendar[s].version < MaxEdits
  /\ \E state \in EventState :
       calendar' = [calendar EXCEPT ![s] =
                      [state |-> state, version |-> calendar[s].version + 1]]
  /\ UNCHANGED <<baseline, sync, changes, pull>>

(* What get_event returns, or the snapshot built for a 404, which has no   *)
(* etag.                                                                   *)
Answer404 == [state |-> NotFound, version |-> 0]

ProviderAnswer(s) ==
  IF calendar[s].state = NotFound THEN Answer404 ELSE calendar[s]

ChangeKind_NeverCreated(old, new) ==
  CASE old = new -> "none"
    [] old # new /\ old.exists /\ (~ new.exists \/ new.cancelled) -> "deleted"
    [] old # new /\ (~ old.exists \/ old.cancelled) -> "none"
    [] OTHER -> IF old.at # new.at THEN "moved" ELSE "updated"

ChangeKind(old, new) ==
  CASE old = new -> "none"
    [] old # new /\ old.exists /\ (~ new.exists \/ new.cancelled) -> "deleted"
    [] old # new /\ (~ old.exists \/ old.cancelled) /\ new.exists -> "created"
    [] OTHER -> IF old.at # new.at THEN "moved" ELSE "updated"

PullBegin(r, s) ==
  /\ pull[r].pc = "idle"
  /\ pull' = [pull EXCEPT ![r] =
                [pc |-> "querying", session |-> s, heldBaseline |-> baseline[s],
                 heldSync |-> sync[s], answer |-> Unseen]]
  /\ UNCHANGED <<calendar, baseline, sync, changes>>

(* Google makes its answer; the response may arrive much later.  After a   *)
(* 401 and a token refresh this is the answer to the second try.           *)
PullAnswered(r) ==
  /\ pull[r].pc = "querying"
  /\ pull' = [pull EXCEPT ![r] =
                [@ EXCEPT !.pc = "answered",
                          !.answer = ProviderAnswer(pull[r].session)]]
  /\ UNCHANGED <<calendar, baseline, sync, changes>>

Transition(r) ==
  [session |-> pull[r].session, old |-> pull[r].heldBaseline.state,
   new |-> pull[r].answer]

Kind(r) == ChangeKind(pull[r].heldBaseline.state, pull[r].answer.state)

SyncStatusOf(state) ==
  IF ~ state.exists \/ state.cancelled THEN "externally_deleted" ELSE "synced"

(* UPDATE writes the attributes whose value differs from the loaded one.   *)
Written(stored, loaded, new) == IF new = loaded THEN stored ELSE new

PullCommit(r) ==
  LET p == pull[r]
      s == p.session
  IN
  /\ p.pc = "answered"
  /\ Kind(r) # "none" => Transition(r) \notin changes
  /\ changes' = IF Kind(r) = "none" THEN changes
                                    ELSE changes \cup {Transition(r)}
  /\ baseline' = [baseline EXCEPT ![s] = Written(@, p.heldBaseline, p.answer)]
  /\ sync' = [sync EXCEPT ![s] = Written(@, p.heldSync, SyncStatusOf(p.answer.state))]
  /\ pull' = [pull EXCEPT ![r] = IdlePull]
  /\ UNCHANGED calendar

(* uq_external_calendar_changes_mapping_transition: the insert fails, the  *)
(* update of the mapping is rolled back with it, and the row that exists   *)
(* is the answer.                                                          *)
PullDuplicate(r) ==
  /\ pull[r].pc = "answered"
  /\ Kind(r) # "none"
  /\ Transition(r) \in changes
  /\ pull' = [pull EXCEPT ![r] = IdlePull]
  /\ UNCHANGED <<calendar, baseline, sync, changes>>

(* Any CalendarIntegrationError: only the status is written.  The rollback *)
(* reloads the mapping if the error left a transaction open.               *)
FailureStatus_Deleted == "externally_deleted"

FailureStatus == "failed"

PullFails(r) ==
  LET s == pull[r].session IN
  /\ pull[r].pc = "querying"
  /\ \E loaded \in {pull[r].heldSync, sync[s]} :
       sync' = [sync EXCEPT ![s] = Written(@, loaded, FailureStatus)]
  /\ pull' = [pull EXCEPT ![r] = IdlePull]
  /\ UNCHANGED <<calendar, baseline, changes>>

(* The process dies or the request is cancelled.                           *)
PullAbort(r) ==
  /\ pull[r].pc # "idle"
  /\ pull' = [pull EXCEPT ![r] = IdlePull]
  /\ UNCHANGED <<calendar, baseline, sync, changes>>

PullNext ==
  \/ \E s \in Session : EditEvent(s)
  \/ \E r \in PullRequest, s \in Session : PullBegin(r, s)
  \/ \E r \in PullRequest :
       \/ PullAnswered(r)
       \/ PullCommit(r)
       \/ PullDuplicate(r)
       \/ PullFails(r)
       \/ PullAbort(r)
=============================================================================
