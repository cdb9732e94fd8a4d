-------------------------- MODULE CalendarSyncSystem --------------------------
(***************************************************************************)
(* Calendar edits, pulls, change processing and task edits, all at once on *)
(* the mappings of one applied plan.                                       *)
(***************************************************************************)
EXTENDS ChangeProcessing

VARIABLE
  raced  (* history: the sessions that two pulls, or two processing        *)
         (* requests, have been at work on at the same time                *)

vars == <<pullVars, processVars, raced>>

BothAtWork(s) ==
  \/ \E q, r \in PullRequest :
       q # r /\ pull[q].session = s /\ pull[r].session = s
  \/ \E q, r \in ProcessRequest :
       /\ q # r /\ process[q].change # NoChange /\ process[r].change # NoChange
       /\ process[q].change.session = s /\ process[r].change.session = s

Init == PullInit /\ ProcessInit /\ raced = {}

RecordRaces == raced' = raced \cup {s \in Session : BothAtWork(s)'}

Next ==
  \/ PullNext /\ UNCHANGED processVars /\ RecordRaces
  \/ ProcessNext /\ RecordRaces

Spec == Init /\ [][Next]_vars

-----------------------------------------------------------------------------
SyncSystemTypeOK == SyncTypeOK /\ ProcessTypeOK

(* A mapping is externally_deleted only if a recorded change shows its     *)
(* event missing: no refused, failed or aborted provider call is ever      *)
(* taken for a deletion, whichever requests wrote the status.              *)
DeletionsAreOnRecord ==
  \A s \in Session :
    sync[s] = "externally_deleted" =>
      \E c \in changes : c.session = s /\ IsMissing(c.new.state)

(* Whatever processing writes, it writes on behalf of one change that was  *)
(* pending until this very transaction, and only that change's session     *)
(* moves: no change acts twice, however requests, retries and rollbacks    *)
(* interleave.                                                             *)
ChangesActOnce ==
  [][scheduled' # scheduled \/ findings' # findings \/ extensions' # extensions =>
       \E c \in changes \ processed :
         /\ processed' = processed \cup {c}
         /\ \A s \in Session \ {c.session} : scheduled'[s] = scheduled[s]]_vars

(* If no two pulls and no two processing requests of a mapping overlap and *)
(* its event never went missing, then once all recorded changes are        *)
(* processed, in any order, the session is where the baseline says the     *)
(* event is.                                                               *)
SerialSyncConverges ==
  \A s \in Session \ raced :
    LET mine == {c \in changes : c.session = s} IN
    /\ mine \subseteq processed
    /\ \A c \in mine : ~ IsMissing(c.old) /\ ~ IsMissing(c.new.state)
    => scheduled[s] = baseline[s].state.at

(* Processing shortens a deadline only if it never saw that deadline: if   *)
(* the task still has the deadline its policy call was given, the accepted *)
(* change leaves it as late, and late enough for the session it moves; but *)
(* the policy leaves a session that it was told is missing out of account. *)
KnownDeadlinesHold ==
  [][\A r \in ProcessRequest :
       LET c == process[r].change IN
       /\ c \in processed' \ processed
       /\ deadline = process[r].deadline /\ deadline # NoDeadline
       => /\ deadline' # NoDeadline /\ deadline' >= deadline
          /\ /\ scheduled'[c.session] # scheduled[c.session]
             /\ process[r].sync # "externally_deleted"
             => deadline' >= scheduled'[c.session][2]]_vars

-----------------------------------------------------------------------------
(* docs/calendar-synchronization-domain.md: confirmed not-found or         *)
(* cancelled events become `deleted` changes and `externally_deleted`.     *)
MissingIsRecorded ==
  [][\A r \in PullRequest :
       /\ PullCommit(r) \/ PullDuplicate(r)
       /\ IsMissing(pull[r].answer.state)
       => sync'[pull[r].session] = "externally_deleted"]_vars

(* docs/external-calendar-policy-engine.md: changes outside the supported  *)
(* policy return UnsupportedExternalChange instead of raising an error.    *)
PolicyAlwaysDecides == \A c \in changes \ processed : ~ PolicyRaises(c)
=============================================================================
