--------------------------- MODULE ChangeProcessing ---------------------------
(***************************************************************************)
(* Accepting a recorded calendar change into the plan                      *)
(* (app/calendar_sync/processing.py) and the task edits that race with it. *)
(* A request locks the change row, reads session, task and mappings        *)
(* without a lock, lets the policy decide, and writes the decisions in the *)
(* transaction that marks the change processed.  Requests run in threads:  *)
(* other requests commit between the reads and the writes.                 *)
(*                                                                         *)
(* The plan has one task, and all of Session belongs to it.  A request     *)
(* whose policy call raises, whose decisions are stale, or whose change is *)
(* processed already, changes nothing and is not an action.                *)
(***************************************************************************)
EXTENDS CalendarPull, ExternalCalendarPolicy

CONSTANTS
  ProcessRequest,  (* POST .../external-calendar-changes/{id}/process      *)
  Deadline,        (* values a client gives the task's deadline            *)
  Window,          (* the plan's planning window, <<start, end>>           *)
  NoChange         (* the change of a request that is not at work          *)

ASSUME DeadlineAssumption == Deadline \subseteq Nat /\ NoDeadline \notin Nat
ASSUME ChangeAssumption == NoChange \notin Change
ASSUME WindowAssumption == Window \in Nat \X Nat /\ Window[1] < Window[2]

VARIABLES
  scheduled,   (* ScheduledSession.start and end                           *)
  deadline,    (* Task.deadline                                            *)
  processed,   (* the changes whose processing_status is processed         *)
  findings,    (* external_calendar_consistency_findings rows              *)
  extensions,  (* task_deadline_history rows                               *)
  process      (* what each processing request holds in memory             *)

processVars == <<scheduled, deadline, processed, findings, extensions, process>>

-----------------------------------------------------------------------------

EndTime == {p[2] : p \in Placement}

AnyDeadline == Deadline \cup EndTime \cup {NoDeadline}

FindingCode == {"outside_planning_window", "session_overlap",
                "external_event_missing"}

ProcessTypeOK ==
  /\ scheduled \in [Session -> Placement]
  /\ deadline \in AnyDeadline
  /\ processed \subseteq changes
  /\ findings \subseteq
       [change : changes, code : FindingCode, sessions : SUBSET Session]
  /\ extensions \subseteq
       [change : changes, previous : AnyDeadline, new : EndTime]
  /\ \A r \in ProcessRequest :
       process[r].change \in changes \cup {NoChange}

IdleProcess == [change |-> NoChange, decisions |-> {}, deadline |-> NoDeadline,
                sync |-> "synced"]

ProcessInit ==
  /\ scheduled = [s \in Session |-> baseline[s].state.at]
  /\ deadline \in Deadline \cup {NoDeadline}
  /\ processed = {}
  /\ findings = {}
  /\ extensions = {}
  /\ process = [r \in ProcessRequest |-> IdleProcess]

-----------------------------------------------------------------------------
(* The observed interval is the baseline's, if that event is there.        *)
ObservedInterval(s) ==
  IF IsMissing(baseline[s].state) THEN NoPlacement ELSE baseline[s].state.at

Aggregate(s) ==
  [changed |-> s, deadline |-> deadline, window |-> Window,
   sessions |-> [t \in Session |->
                   [mapped |-> TRUE,
                    missing |-> sync[t] = "externally_deleted",
                    scheduled |-> scheduled[t],
                    observed |-> ObservedInterval(t)]]]

(* The policy's verdict on change c, given what is in the database now.    *)
Decisions(c) ==
  PolicyDecisions(Aggregate(c.session), ChangeKind(c.old, c.new.state),
                  c.old, c.new.state)

(* Only a move looks for the latest projected end.                         *)
IsMove(c) == ChangeKind(c.old, c.new.state) = "moved"

PolicyRaises(c) ==
  IsMove(c) /\ ~ Decidable(Aggregate(c.session), c.new.state)

(* _validate_decisions: a move starts where the session is.                *)
DecisionIsStale_Never(c) == FALSE

DecisionIsStale(c) == IsMove(c) /\ c.old.at # scheduled[c.session]

(* SELECT ... FOR UPDATE on the change row.                                *)
Locked_ByNobody(c) == FALSE

Locked(c) == \E r \in ProcessRequest : process[r].change = c

ProcessRead(r, c) ==
  /\ process[r].change = NoChange
  /\ ~ Locked(c)
  /\ c \notin processed
  /\ ~ PolicyRaises(c)
  /\ ~ DecisionIsStale(c)
  /\ process' = [process EXCEPT ![r] =
                   [change |-> c, decisions |-> Decisions(c),
                    deadline |-> deadline, sync |-> sync[c.session]]]
  /\ UNCHANGED <<scheduled, deadline, processed, findings, extensions>>
  /\ UNCHANGED pullVars

Decided(r, type) == {d.data : d \in {e \in process[r].decisions : e.type = type}}

(* A move updates the columns that differ from the row as it was read,     *)
(* which was where the change's old snapshot is (DecisionIsStale); a check *)
(* constraint wants end - start = duration_minutes of the updated row.     *)
MoveFitsRow(c) ==
  LET row == scheduled[c.session]
      old == c.old.at
      new == c.new.state.at
      duration == Written(row[2] - row[1], old[2] - old[1], new[2] - new[1])
  IN  Written(row[2], old[2], new[2]) = Written(row[1], old[1], new[1]) + duration

ProcessCommit(r) ==
  LET c    == process[r].change
      s    == c.session
      move == Decided(r, "update_scheduled_session_time")
      extend == Decided(r, "extend_task_deadline")
      missing == Decided(r, "mark_external_event_missing")
      conflicts == Decided(r, "record_conflict")
  IN
  /\ c # NoChange
  /\ move # {} => MoveFitsRow(c)
  /\ scheduled' = IF move = {} THEN scheduled
                  ELSE [scheduled EXCEPT ![s] = c.new.state.at]
  /\ IF extend = {} THEN UNCHANGED <<deadline, extensions>>
     ELSE \E e \in extend :
            /\ deadline' = e
            /\ extensions' = extensions \cup
                 {[change |-> c, previous |-> process[r].deadline, new |-> e]}
  /\ sync' = IF missing = {} THEN sync
             ELSE [sync EXCEPT ![s] =
                     Written(@, process[r].sync, "externally_deleted")]
  /\ findings' = findings \cup
       {[change |-> c, code |-> f[1], sessions |-> f[2]] : f \in conflicts}
  /\ processed' = processed \cup {c}
  /\ process' = [process EXCEPT ![r] = IdleProcess]
  /\ UNCHANGED <<calendar, baseline, changes, pull>>

(* The process dies, or the flush fails: everything is rolled back.        *)
ProcessAbort(r) ==
  /\ process[r].change # NoChange
  /\ process' = [process EXCEPT ![r] = IdleProcess]
  /\ UNCHANGED <<scheduled, deadline, processed, findings, extensions>>
  /\ UNCHANGED pullVars

(* update_task: PATCH cannot set the deadline to None.                     *)
UpdateTaskDeadline(d) ==
  /\ deadline' = d
  /\ UNCHANGED <<scheduled, processed, findings, extensions, process>>
  /\ UNCHANGED pullVars

ProcessNext ==
  \/ \E r \in ProcessRequest : \E c \in changes : ProcessRead(r, c)
  \/ \E r \in ProcessRequest : ProcessCommit(r) \/ ProcessAbort(r)
  \/ \E d \in Deadline : UpdateTaskDeadline(d)
=============================================================================
