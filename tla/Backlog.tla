------------------------------- MODULE Backlog -------------------------------
(***************************************************************************)
(* The backlog of one task (app/backlog/service.py, domain.py,             *)
(* repository.py) and the two places where schedule plans meet it: a plan  *)
(* drafted from a backlog preview, and its confirmation                    *)
(* (confirm_schedule_plan in app/schedule_plans/service.py).               *)
(*                                                                         *)
(* Durations are counted in sessions: a slot is one unit of work.  Every   *)
(* operation on an entry locks the entry row and then the task row before  *)
(* it reads anything else, so it is one action; filing an entry reads the  *)
(* task before it locks anything and takes two.  A confirmation holds the  *)
(* plan row and the entry row but reads the other plans unlocked; whatever *)
(* commits between those reads and its commit is as good as a later step,  *)
(* because no request but another holder of the entry reads what a         *)
(* confirmation writes and also writes what it has read.                   *)
(*                                                                         *)
(* Requests that are refused, and repeated ones that change nothing, are   *)
(* not actions.  Task.status is left out: it only makes Preview and        *)
(* DraftLinked refuse.                                                     *)
(***************************************************************************)
EXTENDS SchedulePlans, FiniteSets

CONSTANTS
  Entry,        (* backlog_entries rows, once they are inserted            *)
  FileRequest,  (* POST /internal/api/backlog calls in flight              *)
  MaxDuration,  (* longest duration a client gives the task: a bound       *)
  MaxAttempts,  (* previews per entry: bounds scheduling_attempt_count     *)
  NoEntry       (* the backlog_entry_id of a plan without one              *)

ASSUME EntryAssumption == NoEntry \notin Entry
ASSUME BacklogBounds == MaxDuration \in Nat \ {0} /\ MaxAttempts \in Nat
ASSUME FiniteAssumption == IsFiniteSet(Group) /\ IsFiniteSet(Slot)

VARIABLES
  duration,  (* Task.duration_minutes                                      *)
  entry,     (* the BacklogEntry rows                                      *)
  link,      (* SchedulePlan.backlog_entry_id                              *)
  filing     (* the remaining duration each filing request is about to     *)
             (* store, 0 for a request that is not at work                 *)

backlogVars == <<duration, entry, link, filing>>

-----------------------------------------------------------------------------

OPEN_BACKLOG_STATUSES == {"active", "deferred"}

BacklogStatus == OPEN_BACKLOG_STATUSES \cup {"resolved", "cancelled"}

BacklogReason == {"no_available_slot", "partially_scheduled"}

Duration == 1 .. MaxDuration

Absent == [status |-> "absent", remaining |-> 0, attempts |-> 0,
           reason |-> "no_available_slot"]

BacklogTypeOK ==
  /\ duration \in Duration
  /\ entry \in [Entry -> [status : BacklogStatus \cup {"absent"},
                          remaining : 0 .. MaxDuration,
                          attempts : 0 .. MaxAttempts,
                          reason : BacklogReason]]
  /\ link \in [Plan -> Entry \cup {NoEntry}]
  /\ filing \in [FileRequest -> 0 .. MaxDuration]
  /\ \A e \in Entry :
       entry[e].remaining > 0 <=> entry[e].status \in OPEN_BACKLOG_STATUSES

BacklogInit ==
  /\ duration \in Duration
  /\ entry = [e \in Entry |-> Absent]
  /\ link = [p \in Plan |-> NoEntry]
  /\ filing = [r \in FileRequest |-> 0]

-----------------------------------------------------------------------------

Open(e) == entry[e].status \in OPEN_BACKLOG_STATUSES

(* The sessions that hold time for the task: of a plan whose status        *)
(* reserves, and not failed or obsolete themselves.                        *)
Booked ==
  {b \in Plan \X Slot :
     /\ status[b[1]] \in RESERVING_PLAN_STATUSES
     /\ session[b[1]][b[2]] \notin {"absent", "failed", "obsolete"}}

Left(booked) ==
  IF Cardinality(booked) < duration THEN duration - Cardinality(booked) ELSE 0

(* calculate_remaining_unscheduled_duration                                *)
Unscheduled == Left(Booked)

-----------------------------------------------------------------------------
(* The router reads the task, and computes the remaining duration if the   *)
(* client gives none.  Nothing is locked.  The task object stays the one   *)
(* loaded here, so the values are in effect validated against the duration *)
(* of this moment: a request that will not pass does nothing.              *)
FileRead(r) ==
  /\ filing[r] = 0
  /\ \E m \in 1 .. duration :
       filing' = [filing EXCEPT ![r] = m]
  /\ UNCHANGED <<duration, entry, link>>

(* Under the task's lock: no entry is open, and a new one is inserted.     *)
FileInsert_SecondOpen(r) ==
  /\ filing[r] # 0
  /\ \E e \in Entry :
       /\ entry[e] = Absent
       /\ entry' = [entry EXCEPT ![e] = [Absent EXCEPT
                                           !.status = "active",
                                           !.remaining = filing[r]]]
  /\ filing' = [filing EXCEPT ![r] = 0]
  /\ UNCHANGED <<duration, link>>

FileInsert(r) ==
  /\ filing[r] # 0
  /\ \A e \in Entry : ~ Open(e)
  /\ \E e \in Entry :
       /\ entry[e] = Absent
       /\ entry' = [entry EXCEPT ![e] = [Absent EXCEPT
                                           !.status = "active",
                                           !.remaining = filing[r]]]
  /\ filing' = [filing EXCEPT ![r] = 0]
  /\ UNCHANGED <<duration, link>>

(* The task has an open entry: it is the answer if it is equivalent, and   *)
(* the request is refused otherwise.                                       *)
FileAnswer(r) ==
  /\ filing[r] # 0
  /\ \E e \in Entry : Open(e)
  /\ filing' = [filing EXCEPT ![r] = 0]
  /\ UNCHANGED <<duration, entry, link>>

-----------------------------------------------------------------------------
(* validate_backlog_values for an entry that stays or becomes open.        *)
Fits(e) == entry[e].remaining <= duration

Defer(e) ==
  /\ entry[e].status = "active"
  /\ Fits(e)
  /\ entry' = [entry EXCEPT ![e].status = "deferred"]
  /\ UNCHANGED <<duration, link, filing>>

Reactivate(e) ==
  /\ entry[e].status = "deferred"
  /\ Fits(e)
  /\ entry' = [entry EXCEPT ![e].status = "active"]
  /\ UNCHANGED <<duration, link, filing>>

(* resolve_backlog_entry and cancel_backlog_entry                          *)
Close(e, s) ==
  /\ Open(e)
  /\ entry' = [entry EXCEPT ![e] = [@ EXCEPT !.status = s, !.remaining = 0]]
  /\ UNCHANGED <<duration, link, filing>>

(* The scheduler is asked for the work that is not scheduled at present,   *)
(* but the entry is validated with the remainder it has stored.            *)
Preview(e) ==
  /\ Open(e)
  /\ Unscheduled > 0
  /\ Fits(e)
  /\ entry[e].attempts < MaxAttempts
  /\ entry' = [entry EXCEPT ![e].attempts = @ + 1]
  /\ UNCHANGED <<duration, link, filing>>

(* update_task: no lock, and no look at the backlog.                       *)
EditTask(d) ==
  /\ duration' = d
  /\ d # duration
  /\ UNCHANGED <<entry, link, filing>>

-----------------------------------------------------------------------------
(* The idempotency key of a plan drafted from a preview.                   *)
SelectionKey == Entry \X (1 .. MaxAttempts) \X (SUBSET Slot)

(* A new uuid.                                                             *)
Fresh(g) == \A v \in 1 .. MaxVersion : ~ Exists(<<g, v>>)

(* create_backlog_schedule_plan: the selection names the entry's latest    *)
(* preview, fits what is not scheduled, and was not drafted before.        *)
DraftLinked(e, g, slots) ==
  LET p == <<g, 1>>
      k == <<e, entry[e].attempts, slots>>
  IN
  /\ Open(e)
  /\ entry[e].attempts > 0
  /\ slots # {} /\ Cardinality(slots) <= Unscheduled
  /\ \A q \in Plan : key[q] # k
  /\ Fresh(g)
  /\ status' = [status EXCEPT ![p] = "proposed"]
  /\ session' = [session EXCEPT ![p] = NewSessions(slots)]
  /\ key' = [key EXCEPT ![p] = k]
  /\ link' = [link EXCEPT ![p] = e]
  /\ UNCHANGED <<updates, creation, duration, entry, filing>>

(* _update_backlog_after_confirmation, m being what is left to schedule    *)
(* once the confirmed plan reserves its time.                              *)
AfterConfirmation(row, m) ==
  IF m = 0
  THEN [row EXCEPT !.status = "resolved", !.remaining = 0]
  ELSE [row EXCEPT !.remaining = m, !.reason = "partially_scheduled"]

(* Believes what the entry has stored.                                     *)
ConfirmLinked_TrustsEntry(p) ==
  LET e == link[p] IN
  /\ e # NoEntry
  /\ status[p] = "proposed"
  /\ Open(e)
  /\ Cardinality(SessionsOf(p)) <= entry[e].remaining
  /\ UpdatePlan(p, "confirmed", AllSessions(session[p], "confirmed"))
  /\ entry' = [entry EXCEPT ![e] = AfterConfirmation(@, Left(Booked'))]
  /\ UNCHANGED <<key, creation, duration, link, filing>>

(* Takes the plan off what the entry has stored.                           *)
ConfirmLinked_Subtracts(p) ==
  LET e == link[p]
      n == Cardinality(SessionsOf(p))
  IN
  /\ e # NoEntry
  /\ status[p] = "proposed"
  /\ Open(e)
  /\ n <= Unscheduled
  /\ UpdatePlan(p, "confirmed", AllSessions(session[p], "confirmed"))
  /\ entry' = [entry EXCEPT ![e] = AfterConfirmation(@,
                  IF n < @.remaining THEN @.remaining - n ELSE 0)]
  /\ UNCHANGED <<key, creation, duration, link, filing>>

ConfirmLinked(p) ==
  LET e == link[p] IN
  /\ e # NoEntry
  /\ status[p] = "proposed"
  /\ Open(e)
  /\ Cardinality(SessionsOf(p)) <= Unscheduled
  /\ UpdatePlan(p, "confirmed", AllSessions(session[p], "confirmed"))
  /\ entry' = [entry EXCEPT ![e] =
                 AfterConfirmation(@, Left(Booked'))]
  /\ UNCHANGED <<key, creation, duration, link, filing>>

ConfirmUnlinked(p) ==
  /\ link[p] = NoEntry
  /\ Confirm(p)
  /\ UNCHANGED backlogVars

(* The operations that leave the plans alone.                              *)
EntryNext ==
  \/ \E r \in FileRequest : FileRead(r) \/ FileInsert(r) \/ FileAnswer(r)
  \/ \E e \in Entry :
       \/ Defer(e) \/ Reactivate(e) \/ Preview(e)
       \/ \E s \in {"resolved", "cancelled"} : Close(e, s)
  \/ \E d \in Duration : EditTask(d)

-----------------------------------------------------------------------------
(* Confirming a linked plan makes its entry say exactly what is left to    *)
(* schedule, whatever was obsoleted, failed or edited since the entry was  *)
(* written, and no other change of a plan touches the backlog.             *)
RemainderIsRecalculated ==
  [][/\ entry' # entry /\ status' # status =>
          \E p \in Plan : /\ status[p] = "proposed" /\ status'[p] = "confirmed"
                          /\ link[p] # NoEntry
     /\ \A p \in Plan :
          link[p] # NoEntry /\ status[p] = "proposed" /\ status'[p] = "confirmed" =>
            LET e == link[p] IN
            /\ entry[e].status \in OPEN_BACKLOG_STATUSES
            /\ entry'[e].remaining = Unscheduled'
            /\ entry'[e].status = IF Unscheduled' = 0 THEN "resolved"
                                  ELSE entry[e].status
    ]_<<planVars, backlogVars>>
=============================================================================
