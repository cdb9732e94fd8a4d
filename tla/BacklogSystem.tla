---------------------------- MODULE BacklogSystem ----------------------------
(***************************************************************************)
(* The backlog of a task together with its schedule plans and their        *)
(* application to the calendar: entries, plans drafted from them, plans    *)
(* drafted without them, and apply requests change the same rows.          *)
(***************************************************************************)
EXTENDS PlanApply, Backlog

vars == <<planVars, applyVars, backlogVars>>

Init == PlanInit /\ ApplyInit /\ BacklogInit

ClientKey == Key \ SelectionKey

(* create_schedule_plan_from_preview without a plan group or a backlog     *)
(* entry: the first version of a new group, under a key not used before.   *)
(* There is no row it could meet another request on.                       *)
DraftUnlinked(g, k, slots) ==
  LET p == <<g, 1>> IN
  /\ \A q \in Plan : key[q] # k
  /\ Fresh(g)
  /\ slots # {}
  /\ status' = [status EXCEPT ![p] = "proposed"]
  /\ session' = [session EXCEPT ![p] = NewSessions(slots)]
  /\ key' = [key EXCEPT ![p] = k]
  /\ UNCHANGED <<updates, creation, applyVars, backlogVars>>

Next ==
  \/ \E g \in Group, k \in ClientKey, slots \in SUBSET Slot :
       DraftUnlinked(g, k, slots)
  \/ \E p \in Plan : Obsolete(p) /\ UNCHANGED <<applyVars, backlogVars>>
  \/ ApplyNext /\ UNCHANGED backlogVars
  \/ EntryNext /\ UNCHANGED <<planVars, applyVars>>
  \/ \E p \in Plan :
       /\ ConfirmLinked(p) \/ ConfirmUnlinked(p)
       /\ UNCHANGED applyVars
  \/ \E e \in Entry, g \in Group, slots \in SUBSET Slot :
       DraftLinked(e, g, slots) /\ UNCHANGED applyVars

Spec == Init /\ [][Next]_vars

-----------------------------------------------------------------------------
(* Whatever plans, previews, edits and apply requests do, the entries of a *)
(* task behave like BacklogLifecycle.                                      *)
BacklogIs ==
  INSTANCE BacklogLifecycle WITH status <- [e \in Entry |-> entry[e].status]

ImplementsBacklogLifecycle == BacklogIs!Spec

Overbooked == Cardinality(Booked) > duration

Outgrown(e) == Open(e) /\ ~ Fits(e)

(* The backlog's own operations never promise more work than the task has, *)
(* however many drafts, entries and previews compete.  More is scheduled   *)
(* only by a plan the backlog does not know of, or by a second application *)
(* of a plan whose failed sessions the backlog has given away meanwhile;   *)
(* and an open entry asks for more only if the task is made shorter, then  *)
(* or between the reading of the task and the filing of the entry.         *)
OnlyOutsidersOverbook ==
  [][/\ Overbooked' /\ ~ (Booked' \subseteq Booked) =>
          \E p \in Plan :
            \/ status[p] = "proposed" /\ status'[p] = "confirmed" /\ link[p] = NoEntry
            \/ status[p] = "partially_applied" /\ status'[p] = "applying"
     /\ \A e \in Entry : Outgrown(e)' /\ ~ Outgrown(e) =>
          \/ duration' < duration
          \/ entry[e] = Absent /\ \E r \in FileRequest : filing[r] > duration
    ]_vars
=============================================================================
