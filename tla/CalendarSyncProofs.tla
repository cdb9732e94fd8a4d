--------------------------- MODULE CalendarSyncProofs ---------------------------
(***************************************************************************)
(* Proofs about CalendarSyncSystem for any number of sessions, requests,   *)
(* placements and edits.                                                   *)
(***************************************************************************)
EXTENDS CalendarSyncSystem, FiniteSetTheorems, WellFoundedInduction, TLAPS

(* One of these change rows shows the event of s missing.                  *)
OnRecord(rows, s) == \E c \in rows : c.session = s /\ IsMissing(c.new.state)

(* Snapshots in the database and in flight that show a missing event are   *)
(* on record.                                                              *)
AbsencesAreOnRecord ==
  /\ \A s \in Session : IsMissing(baseline[s].state) => OnRecord(changes, s)
  /\ \A r \in PullRequest :
       pull[r].pc # "idle" =>
         /\ pull[r].session \in Session
         /\ IsMissing(pull[r].heldBaseline.state) => OnRecord(changes, pull[r].session)

(* A processing request holds the lock of a pending change, alone, and     *)
(* wants to mark its mapping only if the change shows the event missing.   *)
LocksAreExclusive ==
  /\ processed \subseteq changes
  /\ \A r \in ProcessRequest :
       process[r].change # NoChange =>
         /\ process[r].change \in changes \ processed
         /\ Decided(r, "mark_external_event_missing") # {} =>
              IsMissing(process[r].change.new.state)
  /\ \A q, r \in ProcessRequest :
       process[q].change = process[r].change /\ process[q].change # NoChange
         => q = r

Shape ==
  /\ scheduled \in [Session -> Placement \cup {NoPlacement}]
  /\ DOMAIN process = ProcessRequest

Inv ==
  /\ SyncTypeOK
  /\ Shape
  /\ AbsencesAreOnRecord
  /\ LocksAreExclusive
  /\ DeletionsAreOnRecord

-----------------------------------------------------------------------------
(* The policy asks for a missing mark only when the event is missing.      *)
LEMMA MarksNeedAbsence ==
  ASSUME NEW aggregate, NEW type, NEW previous, NEW current,
         NEW d \in PolicyDecisions(aggregate, type, previous, current),
         d.type = "mark_external_event_missing",
         IsMissing(current) \in BOOLEAN,
         SameEvent(previous, current) \in BOOLEAN
  PROVE  IsMissing(current)
<1>1. ASSUME NEW x \in MoveConflicts(aggregate, current)
      PROVE  x.type = "record_conflict"
  <2> DEFINE overlaps == {Decision("record_conflict",
                                   <<"session_overlap", {p[1][3], p[2][3]}>>) :
                p \in {q \in ProjectedIntervals(aggregate, current)
                            \X ProjectedIntervals(aggregate, current) :
                         /\ Adjacent(ProjectedIntervals(aggregate, current),
                                     q[1], q[2])
                         /\ q[2][1] < q[1][2]}}
  <2>1. ASSUME x \in overlaps PROVE x.type = "record_conflict"
    BY <2>1 DEF Decision
  <2>2. x \in overlaps \/ x = Decision("record_conflict",
                  <<"outside_planning_window", {aggregate.changed}>>)
    BY <1>1, Zenon DEF MoveConflicts
  <2> QED
    BY <2>1, <2>2 DEF Decision
<1>2. SUFFICES ASSUME ~ IsMissing(current) PROVE FALSE
  OBVIOUS
<1>3. CASE SameEvent(previous, current)
  BY <1>3 DEF PolicyDecisions, Decision
<1>4. CASE ~ SameEvent(previous, current)
  <2>1. d.type \in {"unsupported_external_change",
                    "update_scheduled_session_time", "extend_task_deadline",
                    "record_conflict"}
    BY <1>1, <1>2, <1>4 DEF PolicyDecisions, Decision
  <2> QED
    BY <2>1
<1> QED
  BY <1>3, <1>4

(* Every answer that shows the event missing was recorded with an earlier  *)
(* answer or is a change that is recorded now.                             *)
LEMMA AbsenceIsAChange ==
  ASSUME NEW old \in EventState, NEW new \in EventState,
         IsMissing(new), ~ IsMissing(old) \/ old # new
  PROVE  ChangeKind(old, new) # "none"
BY DEF EventState, IsMissing, ChangeKind, NotFound, Cancelled, PresentAt

LEMMA PresentIsState ==
  ASSUME NEW at \in Placement, NEW z \in Zone
  PROVE  PresentAt(at, z) \in EventState
BY DEF EventState

LEMMA InitInv == Init => Inv
<1> SUFFICES ASSUME Init PROVE Inv
  OBVIOUS
<1> USE DEF Init, PullInit, ProcessInit
<1>1. PICK z \in Zone, at \in [Session -> Placement] :
        calendar = [s \in Session |-> [state |-> PresentAt(at[s], z), version |-> 0]]
  OBVIOUS
<1>2. \A s \in Session : /\ PresentAt(at[s], z) \in EventState
                         /\ ~ IsMissing(PresentAt(at[s], z))
  <2> TAKE s \in Session
  <2>1. at[s] \in Placement
    OBVIOUS
  <2>2. PresentAt(at[s], z) \in EventState
    BY <2>1, PresentIsState
  <2>3. ~ IsMissing(PresentAt(at[s], z))
    BY DEF PresentAt, IsMissing
  <2> QED
    BY <2>2, <2>3
<1>3. calendar \in [Session -> Snapshot] /\ baseline \in [Session -> Snapshot]
  BY <1>1, <1>2, MaxEditsAssumption DEF Snapshot
<1>4. IdlePull \in Pull
  BY MaxEditsAssumption
  DEF IdlePull, Pull, Unseen, Snapshot, EventState, SyncStatus
<1>5. SyncTypeOK
  BY <1>3, <1>4 DEF SyncTypeOK, SyncStatus
<1>6. Shape
  BY <1>1 DEF Shape, PresentAt
<1>7. AbsencesAreOnRecord
  BY <1>1, <1>2 DEF AbsencesAreOnRecord, IdlePull
<1>8. LocksAreExclusive
  BY DEF LocksAreExclusive, IdleProcess
<1>9. DeletionsAreOnRecord
  BY DEF DeletionsAreOnRecord
<1> QED
  BY <1>5, <1>6, <1>7, <1>8, <1>9 DEF Inv

(* Changes are never forgotten.                                            *)
LEMMA RecordsStay ==
  ASSUME changes \subseteq changes', NEW s
  PROVE  OnRecord(changes, s) => OnRecord(changes', s)
BY DEF OnRecord

(* What a pull reads has its type.                                         *)
LEMMA AnswersAreSnapshots ==
  ASSUME SyncTypeOK, NEW s \in Session
  PROVE  ProviderAnswer(s) \in Snapshot
BY MaxEditsAssumption
DEF SyncTypeOK, ProviderAnswer, Answer404, Snapshot, EventState

(* One pull request leaves another session's, or another request's, state  *)
(* alone: the steps that change only pull.                                 *)
LEMMA PullOnlyInv ==
  ASSUME Inv, NEW r \in PullRequest, NEW p \in Pull,
         pull' = [pull EXCEPT ![r] = p],
         p.pc # "idle" => /\ p.session \in Session
                          /\ IsMissing(p.heldBaseline.state) => OnRecord(changes, p.session),
         UNCHANGED <<calendar, baseline, sync, changes>>,
         UNCHANGED processVars
  PROVE  Inv'
<1> USE DEF Inv
<1>1. SyncTypeOK'
  BY DEF SyncTypeOK
<1>2. Shape'
  BY DEF Shape, processVars
<1>3. AbsencesAreOnRecord'
  BY DEF AbsencesAreOnRecord, OnRecord, SyncTypeOK, IsMissing
<1>4. LocksAreExclusive'
  BY DEF LocksAreExclusive, processVars, Decided
<1>5. DeletionsAreOnRecord'
  BY DEF DeletionsAreOnRecord, IsMissing
<1> QED
  BY <1>1, <1>2, <1>3, <1>4, <1>5
LEMMA IdlePullType == IdlePull \in Pull
BY MaxEditsAssumption
DEF IdlePull, Pull, Unseen, Snapshot, EventState, SyncStatus

LEMMA WrittenValue ==
  ASSUME NEW stored, NEW loaded, NEW new
  PROVE  Written(stored, loaded, new) \in {stored, new}
BY DEF Written

(* After the commit of an answer that shows the event missing, it is on    *)
(* record.                                                                 *)
LEMMA CommitRecords ==
  ASSUME Inv, NEW r \in PullRequest, PullCommit(r),
         IsMissing(pull[r].answer.state)
  PROVE  OnRecord(changes', pull[r].session)
<1> DEFINE old == pull[r].heldBaseline.state
           new == pull[r].answer.state
           s == pull[r].session
<1>1. pull[r].pc # "idle" /\ pull[r] \in Pull
  BY DEF PullCommit, Inv, SyncTypeOK
<1>2. old \in EventState /\ new \in EventState /\ pull[r].answer \in Snapshot
  BY <1>1 DEF Pull, Snapshot
<1>3. changes \subseteq changes'
  BY DEF PullCommit
<1>4. CASE IsMissing(old)
  BY <1>1, <1>3, <1>4, RecordsStay DEF Inv, AbsencesAreOnRecord
<1>5. CASE ~ IsMissing(old)
  <2>1. Kind(r) # "none"
    BY <1>2, <1>5, AbsenceIsAChange DEF Kind
  <2>2. Transition(r) \in changes'
    BY <2>1 DEF PullCommit
  <2> QED
    BY <2>2 DEF OnRecord, Transition
<1> QED
  BY <1>4, <1>5

LEMMA PullCommitInv ==
  ASSUME Inv, NEW r \in PullRequest, PullCommit(r), UNCHANGED processVars
  PROVE  Inv'
<1> DEFINE s == pull[r].session
           p == pull[r]
<1>1. p \in Pull /\ s \in Session /\ p.answer \in Snapshot
  BY DEF PullCommit, Inv, SyncTypeOK, AbsencesAreOnRecord, Pull
<1>2. changes \subseteq changes'
  BY DEF PullCommit
<1>3. /\ baseline' = [baseline EXCEPT ![s] = Written(baseline[s], p.heldBaseline, p.answer)]
      /\ sync' = [sync EXCEPT ![s] = Written(sync[s], p.heldSync, SyncStatusOf(p.answer.state))]
      /\ pull' = [pull EXCEPT ![r] = IdlePull]
      /\ UNCHANGED calendar
  BY DEF PullCommit
<1>4. SyncStatusOf(p.answer.state) \in SyncStatus
  BY DEF SyncStatusOf, SyncStatus
<1>5. /\ baseline'[s] \in {baseline[s], p.answer}
      /\ \A t \in Session \ {s} : baseline'[t] = baseline[t]
      /\ sync'[s] \in {sync[s], SyncStatusOf(p.answer.state)}
      /\ \A t \in Session \ {s} : sync'[t] = sync[t]
  BY <1>1, <1>3, WrittenValue DEF Inv, SyncTypeOK
<1>6. SyncTypeOK'
  <2>1. Kind(r) # "none" => Transition(r) \in Change
    BY <1>1 DEF Transition, Change, Pull, Snapshot
  <2>2. changes' \subseteq Change
    BY <2>1 DEF PullCommit, Inv, SyncTypeOK
  <2>3. baseline' \in [Session -> Snapshot] /\ sync' \in [Session -> SyncStatus]
    BY <1>1, <1>3, <1>4, <1>5 DEF Inv, SyncTypeOK
  <2>4. pull' \in [PullRequest -> Pull] /\ calendar' \in [Session -> Snapshot]
    BY <1>3, IdlePullType DEF Inv, SyncTypeOK
  <2> QED
    BY <2>2, <2>3, <2>4 DEF SyncTypeOK
<1>7. IsMissing(p.answer.state) => OnRecord(changes', s)
  BY CommitRecords
<1>8. \A t \in Session : OnRecord(changes, t) => OnRecord(changes', t)
  BY <1>2, RecordsStay
<1>9. AbsencesAreOnRecord'
  <2>1. \A t \in Session : IsMissing(baseline'[t].state) => OnRecord(changes', t)
    BY <1>5, <1>7, <1>8 DEF Inv, AbsencesAreOnRecord
  <2>2. \A q \in PullRequest : pull'[q].pc # "idle" => pull'[q] = pull[q]
    BY <1>3 DEF IdlePull, Inv, SyncTypeOK
  <2>3. ASSUME NEW q \in PullRequest, pull'[q].pc # "idle"
        PROVE  /\ pull'[q].session \in Session
               /\ IsMissing(pull'[q].heldBaseline.state)
                    => OnRecord(changes', pull[q].session)
    BY <2>2, <2>3, <1>8 DEF Inv, AbsencesAreOnRecord
  <2> QED
    BY <2>1, <2>2, <2>3 DEF AbsencesAreOnRecord, OnRecord, IsMissing
<1>10. LocksAreExclusive'
  BY <1>2 DEF Inv, LocksAreExclusive, processVars, Decided
<1>11. DeletionsAreOnRecord'
  <2>1. SyncStatusOf(p.answer.state) = "externally_deleted"
          => IsMissing(p.answer.state)
    BY DEF SyncStatusOf, IsMissing
  <2>2. \A t \in Session : sync'[t] = "externally_deleted" => OnRecord(changes', t)
    BY <1>5, <1>7, <1>8, <2>1 DEF Inv, DeletionsAreOnRecord, OnRecord
  <2> QED
    BY <2>2 DEF DeletionsAreOnRecord, OnRecord
<1>12. Shape'
  BY DEF Inv, Shape, processVars
<1> QED
  BY <1>6, <1>9, <1>10, <1>11, <1>12 DEF Inv

LEMMA PullRequestInv ==
  ASSUME Inv, NEW r \in PullRequest, UNCHANGED processVars,
         \/ \E s \in Session : PullBegin(r, s)
         \/ PullAnswered(r) \/ PullDuplicate(r) \/ PullAbort(r)
  PROVE  Inv'
<1>1. CASE \E s \in Session : PullBegin(r, s)
  <2>1. PICK s \in Session : PullBegin(r, s)
    BY <1>1
  <2> DEFINE p == [pc |-> "querying", session |-> s, heldBaseline |-> baseline[s],
                   heldSync |-> sync[s], answer |-> Unseen]
  <2>2. Unseen \in Snapshot
    BY MaxEditsAssumption DEF Unseen, Snapshot, EventState
  <2>3. p \in Pull
    BY <2>2 DEF Pull, Inv, SyncTypeOK
  <2>4. IsMissing(p.heldBaseline.state) => OnRecord(changes, p.session)
    BY DEF Inv, AbsencesAreOnRecord
  <2>5. /\ pull' = [pull EXCEPT ![r] = p]
        /\ UNCHANGED <<calendar, baseline, sync, changes>>
    BY <2>1 DEF PullBegin
  <2> HIDE DEF p
  <2>6. p.session \in Session
    BY DEF p
  <2> QED
    BY <2>3, <2>4, <2>5, <2>6, PullOnlyInv
<1>2. CASE PullAnswered(r)
  <2> DEFINE answer == ProviderAnswer(pull[r].session)
             p == [pull[r] EXCEPT !.pc = "answered", !.answer = answer]
  <2>1. /\ pull[r] \in Pull /\ pull[r].session \in Session
        /\ IsMissing(pull[r].heldBaseline.state) => OnRecord(changes, pull[r].session)
    BY <1>2 DEF PullAnswered, Inv, SyncTypeOK, AbsencesAreOnRecord
  <2>2. answer \in Snapshot
    BY <2>1, AnswersAreSnapshots DEF Inv
  <2>3. /\ p \in Pull
        /\ p.session = pull[r].session /\ p.heldBaseline = pull[r].heldBaseline
    BY <2>1, <2>2 DEF Pull
  <2>4. /\ pull' = [pull EXCEPT ![r] = p]
        /\ UNCHANGED <<calendar, baseline, sync, changes>>
    BY <1>2 DEF PullAnswered
  <2> HIDE DEF p
  <2> QED
    BY <2>1, <2>3, <2>4, PullOnlyInv
<1>3. CASE PullDuplicate(r) \/ PullAbort(r)
  <2>1. /\ pull' = [pull EXCEPT ![r] = IdlePull]
        /\ UNCHANGED <<calendar, baseline, sync, changes>>
    BY <1>3 DEF PullDuplicate, PullAbort
  <2> QED
    BY <2>1, IdlePullType, PullOnlyInv DEF IdlePull
<1> QED
  BY <1>1, <1>2, <1>3

LEMMA EditEventInv ==
  ASSUME Inv, NEW s \in Session, EditEvent(s), UNCHANGED processVars
  PROVE  Inv'
<1>1. PICK state \in EventState :
        calendar' = [calendar EXCEPT ![s] =
                       [state |-> state, version |-> calendar[s].version + 1]]
  BY DEF EditEvent
<1>2. calendar[s].version + 1 \in 0 .. MaxEdits
  BY MaxEditsAssumption DEF EditEvent, Inv, SyncTypeOK, Snapshot
<1>3. calendar' \in [Session -> Snapshot]
  BY <1>1, <1>2 DEF Inv, SyncTypeOK, Snapshot
<1>4. UNCHANGED <<baseline, sync, changes, pull>>
  BY DEF EditEvent
<1> QED
  BY <1>3, <1>4
  DEF Inv, SyncTypeOK, Shape, AbsencesAreOnRecord, LocksAreExclusive, Decided,
      DeletionsAreOnRecord, OnRecord, IsMissing, processVars

LEMMA PullFailsInv ==
  ASSUME Inv, NEW r \in PullRequest, PullFails(r), UNCHANGED processVars
  PROVE  Inv'
<1> DEFINE s == pull[r].session
<1>1. /\ s \in Session
      /\ pull' = [pull EXCEPT ![r] = IdlePull]
      /\ UNCHANGED <<calendar, baseline, changes>>
  BY DEF PullFails, Inv, AbsencesAreOnRecord
<1>2. PICK loaded : sync' = [sync EXCEPT ![s] = Written(sync[s], loaded, FailureStatus)]
  BY DEF PullFails
<1>3. \A t \in Session : sync'[t] \in {sync[t], "failed"}
  BY <1>1, <1>2, WrittenValue DEF Inv, SyncTypeOK, FailureStatus
<1>4. SyncTypeOK'
  BY <1>1, <1>2, <1>3, IdlePullType DEF Inv, SyncTypeOK, SyncStatus
<1>5. AbsencesAreOnRecord'
  BY <1>1 DEF Inv, SyncTypeOK, AbsencesAreOnRecord, OnRecord, IsMissing, IdlePull
<1>6. LocksAreExclusive' /\ Shape'
  BY <1>1 DEF Inv, LocksAreExclusive, Shape, processVars, Decided
<1>7. DeletionsAreOnRecord'
  BY <1>1, <1>3 DEF Inv, DeletionsAreOnRecord, IsMissing
<1> QED
  BY <1>4, <1>5, <1>6, <1>7 DEF Inv

(* The change a request gives up, or finishes, is nobody's any more; the   *)
(* others keep theirs.                                                     *)
LEMMA ReleaseInv ==
  ASSUME Inv, NEW r \in ProcessRequest, NEW rows,
         process' = [process EXCEPT ![r] = IdleProcess],
         changes' = changes,
         processed' = processed \cup rows, rows \subseteq {process[r].change},
         rows \subseteq changes
  PROVE  LocksAreExclusive'
<1>1. \A q \in ProcessRequest \ {r} : process'[q] = process[q]
  BY DEF Inv, Shape
<1>2. process'[r].change = NoChange
  BY DEF Inv, Shape, IdleProcess
<1>3. processed' \subseteq changes'
  BY DEF Inv, LocksAreExclusive
<1>4. ASSUME NEW q \in ProcessRequest, process'[q].change # NoChange
      PROVE  /\ q # r
             /\ process'[q].change \in changes' \ processed'
             /\ Decided(q, "mark_external_event_missing")' # {} =>
                  IsMissing(process'[q].change.new.state)
  <2>1. q # r /\ process'[q] = process[q]
    BY <1>1, <1>2, <1>4
  <2>2. process[q].change \in changes \ processed
    BY <1>4, <2>1 DEF Inv, LocksAreExclusive
  <2>3. process[q].change \notin rows
    BY <1>4, <2>1 DEF Inv, LocksAreExclusive
  <2>4. Decided(q, "mark_external_event_missing") # {} =>
          IsMissing(process[q].change.new.state)
    BY <1>4, <2>1 DEF Inv, LocksAreExclusive
  <2> QED
    BY <2>1, <2>2, <2>3, <2>4 DEF Decided
<1>5. \A p, q \in ProcessRequest :
        process'[p].change = process'[q].change /\ process'[p].change # NoChange
          => p = q
  BY <1>1, <1>2 DEF Inv, LocksAreExclusive
<1> QED
  BY <1>3, <1>4, <1>5 DEF LocksAreExclusive, IsMissing

LEMMA ProcessReadInv ==
  ASSUME Inv, NEW r \in ProcessRequest, NEW c \in changes, ProcessRead(r, c)
  PROVE  Inv'
<1> DEFINE p == [change |-> c, decisions |-> Decisions(c),
                 deadline |-> deadline, sync |-> sync[c.session]]
<1>1. /\ process' = [process EXCEPT ![r] = p]
      /\ UNCHANGED <<scheduled, deadline, processed, findings, extensions>>
      /\ UNCHANGED pullVars
      /\ ~ Locked(c) /\ c \notin processed
  BY DEF ProcessRead
<1>2. c \in Change /\ c \in changes \ processed /\ c # NoChange
  BY <1>1, ChangeAssumption DEF Inv, SyncTypeOK
<1>3. /\ process'[r] = p
      /\ \A q \in ProcessRequest \ {r} : process'[q] = process[q]
      /\ DOMAIN process' = ProcessRequest
  BY <1>1 DEF Inv, Shape
<1>4. ASSUME NEW d \in Decisions(c), d.type = "mark_external_event_missing"
      PROVE  IsMissing(c.new.state)
  <2>1. c.old \in EventState /\ c.new.state \in EventState
    BY <1>2 DEF Change, Snapshot
  <2>2. IsMissing(c.new.state) \in BOOLEAN
    BY <2>1 DEF IsMissing, EventState, NotFound, Cancelled, PresentAt
  <2>3. SameEvent(c.old, c.new.state) \in BOOLEAN
    BY <2>1 DEF SameEvent, EventState, NotFound, Cancelled, PresentAt
  <2> QED
    BY <1>4, <2>2, <2>3, MarksNeedAbsence DEF Decisions
<1>5. Decided(r, "mark_external_event_missing")' # {} => IsMissing(c.new.state)
  BY <1>3, <1>4 DEF Decided
<1> HIDE DEF p
<1>6. p.change = c
  BY DEF p
<1>7. LocksAreExclusive'
  <2>1. processed' \subseteq changes'
    BY <1>1 DEF Inv, LocksAreExclusive, pullVars
  <2>2. ASSUME NEW q \in ProcessRequest, process'[q].change # NoChange
        PROVE  /\ process'[q].change \in changes' \ processed'
               /\ Decided(q, "mark_external_event_missing")' # {} =>
                    IsMissing(process'[q].change.new.state)
    <3>1. CASE q = r
      BY <1>1, <1>2, <1>3, <1>5, <1>6, <3>1 DEF pullVars
    <3>2. CASE q # r
      BY <1>1, <1>3, <2>2, <3>2 DEF Inv, LocksAreExclusive, Decided, pullVars
    <3> QED
      BY <3>1, <3>2
  <2>3. \A q, t \in ProcessRequest :
          process'[q].change = process'[t].change /\ process'[q].change # NoChange
            => q = t
    BY <1>1, <1>3, <1>6 DEF Inv, LocksAreExclusive, Locked
  <2> QED
    BY <2>1, <2>2, <2>3 DEF LocksAreExclusive, IsMissing
<1>8. SyncTypeOK' /\ AbsencesAreOnRecord' /\ DeletionsAreOnRecord'
  BY <1>1 DEF Inv, pullVars, SyncTypeOK, AbsencesAreOnRecord, DeletionsAreOnRecord,
              OnRecord, IsMissing
<1>9. Shape'
  BY <1>1, <1>3 DEF Inv, Shape
<1> QED
  BY <1>7, <1>8, <1>9 DEF Inv

LEMMA ProcessCommitInv ==
  ASSUME Inv, NEW r \in ProcessRequest, ProcessCommit(r)
  PROVE  Inv'
<1> DEFINE c == process[r].change
           s == c.session
<1>1. c \in changes \ processed /\ c \in Change
  BY DEF ProcessCommit, Inv, LocksAreExclusive, SyncTypeOK
<1>2. /\ processed' = processed \cup {c}
      /\ process' = [process EXCEPT ![r] = IdleProcess]
      /\ UNCHANGED <<calendar, baseline, changes, pull>>
  BY DEF ProcessCommit
<1>3. /\ \/ sync' = sync
         \/ sync' = [sync EXCEPT ![s] = Written(sync[s], process[r].sync,
                                                "externally_deleted")]
      /\ sync' # sync => Decided(r, "mark_external_event_missing") # {}
  BY DEF ProcessCommit
<1>4. s \in Session /\ c.new.state.at \in Placement \cup {NoPlacement}
  BY <1>1 DEF Change, Snapshot, EventState, PresentAt, NotFound, Cancelled,
              NoPlacement
<1>5. sync' # sync => OnRecord(changes', s)
  BY <1>1, <1>2, <1>3 DEF ProcessCommit, Inv, LocksAreExclusive, OnRecord
<1>6. \A t \in Session : sync'[t] \in {sync[t], "externally_deleted"}
  BY <1>3, <1>4, WrittenValue DEF Inv, SyncTypeOK
<1>7. \A t \in Session : sync'[t] # sync[t] => t = s
  BY <1>3, <1>4 DEF Inv, SyncTypeOK
<1>8. SyncTypeOK'
  BY <1>2, <1>3, <1>4, <1>6 DEF Inv, SyncTypeOK, SyncStatus
<1>9. AbsencesAreOnRecord'
  BY <1>2 DEF Inv, AbsencesAreOnRecord, OnRecord, IsMissing
<1>10. DeletionsAreOnRecord'
  BY <1>2, <1>5, <1>6, <1>7 DEF Inv, DeletionsAreOnRecord, OnRecord, IsMissing
<1>11. LocksAreExclusive'
  BY <1>1, <1>2, ReleaseInv
<1>12. Shape'
  BY <1>2, <1>4 DEF Inv, Shape, ProcessCommit
<1> QED
  BY <1>8, <1>9, <1>10, <1>11, <1>12 DEF Inv

LEMMA NextInv == Inv /\ [Next]_vars => Inv'
<1> SUFFICES ASSUME Inv, [Next]_vars PROVE Inv'
  OBVIOUS
<1>1. CASE PullNext /\ UNCHANGED processVars
  BY <1>1, EditEventInv, PullRequestInv, PullCommitInv, PullFailsInv DEF PullNext
<1>2. CASE ProcessNext
  <2>1. ASSUME NEW r \in ProcessRequest, ProcessAbort(r) PROVE Inv'
    <3>1. LocksAreExclusive'
      <4> DEFINE rows == {}
      <4>1. /\ process' = [process EXCEPT ![r] = IdleProcess]
            /\ changes' = changes
            /\ processed' = processed \cup rows
            /\ rows \subseteq {process[r].change} /\ rows \subseteq changes
        BY <2>1 DEF ProcessAbort, pullVars
      <4> HIDE DEF rows
      <4> QED
        BY <4>1, ReleaseInv
    <3>2. Shape'
      BY <2>1 DEF Inv, Shape, ProcessAbort
    <3> QED
      BY <2>1, <3>1, <3>2
      DEF Inv, ProcessAbort, pullVars, SyncTypeOK, AbsencesAreOnRecord,
          DeletionsAreOnRecord, OnRecord, IsMissing
  <2>2. ASSUME NEW d \in Deadline, UpdateTaskDeadline(d) PROVE Inv'
    BY <2>2
    DEF Inv, UpdateTaskDeadline, pullVars, SyncTypeOK, Shape, AbsencesAreOnRecord,
        LocksAreExclusive, Decided, DeletionsAreOnRecord, OnRecord, IsMissing
  <2> QED
    BY <1>2, <2>1, <2>2, ProcessReadInv, ProcessCommitInv DEF ProcessNext
<1>3. CASE UNCHANGED vars
  BY <1>3
  DEF Inv, vars, pullVars, processVars, SyncTypeOK, Shape, AbsencesAreOnRecord,
      LocksAreExclusive, Decided, DeletionsAreOnRecord, OnRecord, IsMissing
<1> QED
  BY <1>1, <1>2, <1>3 DEF Next

THEOREM SpecInv == Spec => []Inv
BY InitInv, NextInv, PTL DEF Spec

-----------------------------------------------------------------------------
(* The tables pulls write, and what pulls hold, keep their types.          *)
THEOREM SyncTypeCorrect == Spec => []SyncTypeOK
<1>1. Inv => SyncTypeOK
  BY DEF Inv
<1> QED
  BY <1>1, SpecInv, PTL

(* However many pulls, failures and processing requests interleave, a      *)
(* mapping is marked externally_deleted only if a recorded change shows    *)
(* its event missing.                                                      *)
THEOREM DeletionsAreOnRecordTheorem == Spec => []DeletionsAreOnRecord
<1>1. Inv => DeletionsAreOnRecord
  BY DEF Inv
<1> QED
  BY <1>1, SpecInv, PTL

(* However many processing requests interleave, plan, findings and         *)
(* deadline history change only on behalf of a change that was pending     *)
(* until that very transaction.                                            *)
THEOREM ChangesActOnceTheorem == Spec => ChangesActOnce
<1> DEFINE Once(c) ==
      /\ processed' = processed \cup {c}
      /\ \A s \in Session \ {c.session} : scheduled'[s] = scheduled[s]
<1>1. ASSUME Inv, [Next]_vars,
             scheduled' # scheduled \/ findings' # findings
                \/ extensions' # extensions
      PROVE  \E c \in changes \ processed : Once(c)
  <2>1. PICK r \in ProcessRequest : ProcessCommit(r)
    BY <1>1
    DEF Next, vars, processVars, ProcessNext, ProcessRead, ProcessAbort,
        UpdateTaskDeadline
  <2>2. process[r].change \in changes \ processed
    BY <1>1, <2>1 DEF ProcessCommit, Inv, LocksAreExclusive
  <2>3. Once(process[r].change)
    BY <1>1, <2>1 DEF ProcessCommit, Inv, Shape
  <2> QED
    BY <2>2, <2>3
<1>2. Inv /\ [Next]_vars =>
        [scheduled' # scheduled \/ findings' # findings
            \/ extensions' # extensions =>
           \E c \in changes \ processed : Once(c)]_vars
  BY <1>1
<1> QED
  BY <1>2, SpecInv, PTL DEF Spec, ChangesActOnce

-----------------------------------------------------------------------------
(* Types of what processing writes, and deadlines.                         *)

(* A function from a finite set to numbers has a greatest value: the sets  *)
(* of arguments with greater values get strictly smaller, so one is empty. *)
LEMMA GreatestValue ==
  ASSUME NEW J, IsFiniteSet(J), J # {}, NEW f \in [J -> Nat]
  PROVE  \E i \in J : \A j \in J : f[j] <= f[i]
<1> DEFINE Above(i) == {j \in J : f[j] > f[i]}
           T == {Above(i) : i \in J}
           R == StrictSubsetOrdering(J)
<1>1. IsWellFoundedOn(R, SUBSET J)
  BY FS_StrictSubsetOrderingWellFounded, FS_FiniteSubsetsOfFinite
<1>2. T \subseteq SUBSET J /\ T # {}
  <2>1. PICK i \in J : TRUE
    OBVIOUS
  <2>2. Above(i) \in T
    BY <2>1
  <2> QED
    BY <2>2
<1> HIDE DEF T, R
<1>3. PICK x \in T : \A y \in T : ~ (<<y, x>> \in R)
  BY <1>1, <1>2, WFMin
<1>4. PICK i \in J : x = Above(i)
  BY <1>3 DEF T
<1>5. ASSUME NEW j \in J, f[j] > f[i] PROVE FALSE
  <2>1. Above(j) \subseteq Above(i) /\ j \in Above(i) /\ j \notin Above(j)
    BY <1>5
  <2>2. <<Above(j), Above(i)>> \in StrictSubsetOrdering(J)
    BY <2>1 DEF StrictSubsetOrdering
  <2>3. Above(j) \in T
    BY DEF T
  <2> QED
    BY <1>3, <1>4, <2>2, <2>3 DEF R
<1> QED
  BY <1>5

(* The latest projected end is one of the ends, and none is later.         *)
LEMMA LatestEndIsLatest ==
  ASSUME NEW aggregate, NEW current,
         IsFiniteSet(DOMAIN aggregate.sessions),
         NEW f \in [DOMAIN aggregate.sessions -> Nat],
         \A i \in DOMAIN aggregate.sessions :
            f[i] = (IF i = aggregate.changed THEN current.at
                    ELSE EffectivePlacement(aggregate.sessions[i]))[2],
         ProjectedIntervals(aggregate, current) # {}
  PROVE  LET P == ProjectedIntervals(aggregate, current) IN
         /\ LatestEnd(P) \in {x[2] : x \in P}
         /\ \A x \in P : x[2] <= LatestEnd(P)
<1> DEFINE P == ProjectedIntervals(aggregate, current)
           J == {j \in DOMAIN aggregate.sessions :
                   aggregate.sessions[j].mapped /\ ~ aggregate.sessions[j].missing}
           g == [j \in J |-> f[j]]
<1>1. IsFiniteSet(J) /\ J # {}
  BY FS_Subset DEF ProjectedIntervals
<1>2. g \in [J -> Nat]
  OBVIOUS
<1>3. PICK i \in J : \A j \in J : g[j] <= g[i]
  <2> HIDE DEF J, g
  <2> QED
    BY <1>1, <1>2, GreatestValue
<1>4. \A x \in P : \E j \in J : x[2] = g[j]
  BY DEF ProjectedIntervals
<1>5. \E x \in P : x[2] = g[i]
  <2> DEFINE at == IF i = aggregate.changed THEN current.at
                   ELSE EffectivePlacement(aggregate.sessions[i])
  <2>1. <<at[1], at[2], i>> \in P
    BY Zenon DEF ProjectedIntervals
  <2>2. <<at[1], at[2], i>>[2] = g[i]
    OBVIOUS
  <2> QED
    BY <2>1, <2>2, Zenon
<1>6. /\ g[i] \in {x[2] : x \in P}
      /\ \A x \in P : x[2] <= g[i]
  <2> HIDE DEF P, J, g
  <2> QED
    BY <1>3, <1>4, <1>5
<1>7. \E e \in {x[2] : x \in P} : \A x \in P : x[2] <= e
  BY <1>6
<1> QED
  BY <1>7 DEF LatestEnd

(* What the policy can decide, and when: a move updates and may extend,    *)
(* and every conflict has a code and names sessions of the plan.           *)
LEMMA MoveConflictsExplained ==
  ASSUME NEW aggregate, NEW current, NEW x \in MoveConflicts(aggregate, current)
  PROVE  /\ x.type = "record_conflict"
         /\ \/ x.data = <<"outside_planning_window", {aggregate.changed}>>
            \/ \E i, j \in DOMAIN aggregate.sessions :
                 x.data = <<"session_overlap", {i, j}>>
<1> DEFINE P == ProjectedIntervals(aggregate, current)
           overlaps == {Decision("record_conflict",
                                 <<"session_overlap", {p[1][3], p[2][3]}>>) :
              p \in {q \in P \X P : Adjacent(P, q[1], q[2]) /\ q[2][1] < q[1][2]}}
<1>1. \/ x \in overlaps
      \/ x = Decision("record_conflict",
                      <<"outside_planning_window", {aggregate.changed}>>)
  BY Zenon DEF MoveConflicts
<1>2. \A y \in P : y[3] \in DOMAIN aggregate.sessions
  BY DEF ProjectedIntervals
<1>3. CASE x \in overlaps
  <2> HIDE DEF P
  <2>1. PICK p \in P \X P :
          x = Decision("record_conflict", <<"session_overlap", {p[1][3], p[2][3]}>>)
    BY <1>3
  <2> QED
    BY <1>2, <2>1 DEF Decision
<1> QED
  BY <1>1, <1>3 DEF Decision

LEMMA DecisionsExplained ==
  ASSUME NEW aggregate, NEW type, NEW previous, NEW current,
         NEW d \in PolicyDecisions(aggregate, type, previous, current),
         IsMissing(current) \in BOOLEAN,
         SameEvent(previous, current) \in BOOLEAN
  PROVE  LET latest == LatestEnd(ProjectedIntervals(aggregate, current)) IN
         /\ d.type \in {"update_scheduled_session_time", "extend_task_deadline"} =>
              /\ type = "moved"
              /\ ~ IsMissing(current)
         /\ d.type = "extend_task_deadline" =>
              d.data = latest /\ ExceedsDeadline(latest, aggregate.deadline)
         /\ d.type = "record_conflict" =>
              \/ d.data = <<"external_event_missing", {aggregate.changed}>>
              \/ d \in MoveConflicts(aggregate, current)
<1> DEFINE latest == LatestEnd(ProjectedIntervals(aggregate, current))
<1>1. CASE SameEvent(previous, current)
  BY <1>1 DEF PolicyDecisions, Decision
<1>2. CASE ~ SameEvent(previous, current) /\ IsMissing(current)
  BY <1>2 DEF PolicyDecisions, Decision
<1>3. CASE ~ SameEvent(previous, current) /\ ~ IsMissing(current)
  <2>1. CASE \/ type # "moved"
             \/ previous.at = NoPlacement
             \/ previous.at = current.at
    BY <1>3, <2>1 DEF PolicyDecisions, Decision
  <2>2. CASE ~ (\/ type # "moved"
                \/ previous.at = NoPlacement
                \/ previous.at = current.at)
    <3> HIDE DEF latest
    <3>1. \/ d = Decision("update_scheduled_session_time",
                          <<previous.at, current.at>>)
          \/ /\ d = Decision("extend_task_deadline", latest)
             /\ ExceedsDeadline(latest, aggregate.deadline)
          \/ d \in MoveConflicts(aggregate, current)
      BY <1>3, <2>2 DEF PolicyDecisions, latest
    <3>2. d \in MoveConflicts(aggregate, current) => d.type = "record_conflict"
      BY MoveConflictsExplained
    <3> QED
      BY <1>3, <2>2, <3>1, <3>2 DEF Decision, latest
  <2> QED
    BY <2>1, <2>2
<1> QED
  BY <1>1, <1>2, <1>3

LEMMA MovesAreDecided ==
  ASSUME NEW aggregate, NEW previous, NEW current,
         ~ SameEvent(previous, current), ~ IsMissing(current),
         previous.at # NoPlacement, previous.at # current.at
  PROVE  LET latest == LatestEnd(ProjectedIntervals(aggregate, current))
             made == PolicyDecisions(aggregate, "moved", previous, current)
         IN  /\ Decision("update_scheduled_session_time",
                         <<previous.at, current.at>>) \in made
             /\ ExceedsDeadline(latest, aggregate.deadline) =>
                  Decision("extend_task_deadline", latest) \in made
<1> DEFINE latest == LatestEnd(ProjectedIntervals(aggregate, current))
<1> HIDE DEF latest
<1>1. PolicyDecisions(aggregate, "moved", previous, current)
        = {Decision("update_scheduled_session_time", <<previous.at, current.at>>)}
          \cup {Decision("extend_task_deadline", d) :
                  d \in {e \in {latest} : ExceedsDeadline(e, aggregate.deadline)}}
          \cup MoveConflicts(aggregate, current)
  BY DEF PolicyDecisions, latest
<1> QED
  BY <1>1 DEF latest

DecidedIn(held, type) == {d.data : d \in {e \in held.decisions : e.type = type}}

(* What a processing request holds: the deadline it read, an extension     *)
(* only past that deadline, and for a move of a session that is not        *)
(* missing a deadline, old or new, that covers the new placement.          *)
HeldOK(held) ==
  LET at == held.change.new.state.at
      move == DecidedIn(held, "update_scheduled_session_time")
      extend == DecidedIn(held, "extend_task_deadline")
  IN
  /\ held.deadline \in AnyDeadline
  /\ move # {} => at \in Placement
  /\ \A e \in extend : e \in EndTime /\ ExceedsDeadline(e, held.deadline)
  /\ move # {} /\ held.sync # "externally_deleted" =>
       /\ \A e \in extend : at[2] <= e
       /\ extend = {} => held.deadline # NoDeadline /\ at[2] <= held.deadline
  /\ \A f \in DecidedIn(held, "record_conflict") :
       f[1] \in FindingCode /\ f[2] \in SUBSET Session

HeldDecisions ==
  \A r \in ProcessRequest : process[r].change # NoChange => HeldOK(process[r])

TypedInv == Inv /\ ProcessTypeOK /\ HeldDecisions

(* Present events have a placement, absent ones have none.                 *)
LEMMA EventPlacement ==
  ASSUME NEW e \in EventState
  PROVE  /\ IsMissing(e) \in BOOLEAN
         /\ IsMissing(e) => e.at = NoPlacement
         /\ ~ IsMissing(e) => e.at \in Placement /\ e.exists /\ ~ e.cancelled
         /\ \A f \in EventState : SameEvent(e, f) \in BOOLEAN
BY DEF EventState, IsMissing, NotFound, Cancelled, PresentAt, NoPlacement, SameEvent

LEMMA EndTimes ==
  ASSUME NEW p \in Placement
  PROVE  p[2] \in EndTime /\ p[2] \in Nat /\ p # NoPlacement
BY PlacementAssumption DEF EndTime, NoPlacement

(* The latest projected end of a move the policy can decide.               *)
LEMMA LatestEndCovers ==
  ASSUME TypedInv, NEW c \in changes, ~ IsMissing(c.new.state),
         Decidable(Aggregate(c.session), c.new.state)
  PROVE  LET latest == LatestEnd(ProjectedIntervals(Aggregate(c.session),
                                                    c.new.state))
         IN  /\ latest \in EndTime /\ latest \in Nat
             /\ sync[c.session] # "externally_deleted" =>
                  c.new.state.at[2] <= latest
<1> DEFINE a == Aggregate(c.session)
           now == c.new.state
           At(t) == IF t = c.session THEN now.at ELSE EffectivePlacement(a.sessions[t])
           P == ProjectedIntervals(a, now)
           f == [t \in Session |-> At(t)[2]]
<1>1. c \in Change /\ c.session \in Session /\ now \in EventState
      /\ now.at \in Placement
  BY EventPlacement DEF TypedInv, Inv, SyncTypeOK, Change, Snapshot
<1>2. /\ DOMAIN a.sessions = Session /\ a.changed = c.session
      /\ \A t \in Session :
           /\ a.sessions[t].mapped
           /\ a.sessions[t].missing <=> sync[t] = "externally_deleted"
           /\ a.sessions[t].scheduled = scheduled[t]
           /\ a.sessions[t].observed = ObservedInterval(t)
  BY DEF Aggregate
<1>3. ASSUME NEW t \in Session PROVE At(t) \in Placement
  <2>1. scheduled[t] \in Placement
    BY DEF TypedInv, ProcessTypeOK
  <2>2. baseline[t].state \in EventState
    BY DEF TypedInv, Inv, SyncTypeOK, Snapshot
  <2>3. ObservedInterval(t) = NoPlacement \/ ObservedInterval(t) \in Placement
    BY <2>2, EventPlacement DEF ObservedInterval
  <2>4. EffectivePlacement(a.sessions[t]) \in Placement
    BY <1>2, <2>1, <2>3 DEF EffectivePlacement
  <2> QED
    BY <1>1, <2>4
<1>4. f \in [Session -> Nat] /\ \A t \in Session : f[t] \in EndTime
  BY <1>3, EndTimes
<1>5. IsFiniteSet(DOMAIN a.sessions)
  BY <1>2, SessionAssumption
<1>6. P # {}
  BY DEF Decidable
<1>7. \A i \in DOMAIN a.sessions :
        f[i] = (IF i = a.changed THEN now.at
                ELSE EffectivePlacement(a.sessions[i]))[2]
  BY <1>2
<1>8. /\ LatestEnd(P) \in {x[2] : x \in P}
      /\ \A x \in P : x[2] <= LatestEnd(P)
  <2> HIDE DEF f, a, now, At
  <2>1. f \in [DOMAIN a.sessions -> Nat]
    BY <1>2, <1>4
  <2> QED
    BY <1>5, <1>6, <1>7, <2>1, LatestEndIsLatest
<1>9. \A x \in P : x[2] \in EndTime /\ x[2] \in Nat
  <2>1. \A x \in P : \E i \in Session : x[2] = f[i]
    BY <1>2 DEF ProjectedIntervals
  <2> QED
    BY <1>4, <2>1
<1>10. sync[c.session] # "externally_deleted" =>
         \E x \in P : x[2] = now.at[2]
  <2> SUFFICES ASSUME sync[c.session] # "externally_deleted"
               PROVE  \E x \in P : x[2] = now.at[2]
    OBVIOUS
  <2>1. <<now.at[1], now.at[2], c.session>> \in P
    <3>1. c.session \in {j \in DOMAIN a.sessions :
                           a.sessions[j].mapped /\ ~ a.sessions[j].missing}
      BY <1>1, <1>2
    <3> HIDE DEF a, now
    <3> QED
      BY <1>2, <3>1, Zenon DEF ProjectedIntervals
  <2> QED
    BY <2>1
<1> QED
  BY <1>8, <1>9, <1>10

(* What a request reads and decides is consistent.                         *)
LEMMA ReadHolds ==
  ASSUME TypedInv, NEW c \in changes, ~ PolicyRaises(c)
  PROVE  HeldOK([change |-> c, decisions |-> Decisions(c),
                 deadline |-> deadline, sync |-> sync[c.session]])
<1> DEFINE held == [change |-> c, decisions |-> Decisions(c),
                    deadline |-> deadline, sync |-> sync[c.session]]
           a == Aggregate(c.session)
           now == c.new.state
           latest == LatestEnd(ProjectedIntervals(a, now))
<1>1. /\ c \in Change /\ c.session \in Session
      /\ c.old \in EventState /\ now \in EventState
  BY DEF TypedInv, Inv, SyncTypeOK, Change, Snapshot
<1>2. IsMissing(now) \in BOOLEAN /\ SameEvent(c.old, now) \in BOOLEAN
  BY <1>1, EventPlacement
<1>3. a.deadline = deadline /\ a.changed = c.session /\ DOMAIN a.sessions = Session
  BY DEF Aggregate
<1>4. deadline \in AnyDeadline
  BY DEF TypedInv, ProcessTypeOK
<1>5. ASSUME NEW d \in Decisions(c)
      PROVE  /\ d.type \in {"update_scheduled_session_time",
                            "extend_task_deadline"} =>
                  IsMove(c) /\ ~ IsMissing(now)
             /\ d.type = "extend_task_deadline" =>
                  d.data = latest /\ ExceedsDeadline(latest, deadline)
             /\ d.type = "record_conflict" =>
                  d.data[1] \in FindingCode /\ d.data[2] \in SUBSET Session
  <2> DEFINE type == ChangeKind(c.old, c.new.state)
  <2>1. d \in PolicyDecisions(a, type, c.old, now)
    BY <1>5 DEF Decisions
  <2> HIDE DEF a, type, now
  <2>2. /\ d.type \in {"update_scheduled_session_time", "extend_task_deadline"} =>
             type = "moved" /\ ~ IsMissing(now)
        /\ d.type = "extend_task_deadline" =>
             d.data = latest /\ ExceedsDeadline(latest, a.deadline)
        /\ d.type = "record_conflict" =>
             \/ d.data = <<"external_event_missing", {a.changed}>>
             \/ d \in MoveConflicts(a, now)
    BY <1>2, <2>1, DecisionsExplained
  <2>3. d \in MoveConflicts(a, now) =>
             \/ d.data = <<"outside_planning_window", {a.changed}>>
             \/ \E i, j \in Session : d.data = <<"session_overlap", {i, j}>>
    BY <1>3, MoveConflictsExplained
  <2> QED
    BY <1>1, <1>3, <2>2, <2>3 DEF FindingCode, IsMove, type
<1>6. IsMove(c) /\ ~ IsMissing(now) =>
        /\ latest \in EndTime /\ latest \in Nat
        /\ sync[c.session] # "externally_deleted" => now.at[2] <= latest
        /\ now.at \in Placement /\ now.at[2] \in Nat
  BY <1>1, LatestEndCovers, EventPlacement, EndTimes DEF PolicyRaises
<1> DEFINE move == DecidedIn(held, "update_scheduled_session_time")
           extend == DecidedIn(held, "extend_task_deadline")
<1>7. /\ move # {} => IsMove(c) /\ ~ IsMissing(now)
      /\ \A e \in extend : /\ IsMove(c) /\ ~ IsMissing(now)
                           /\ e = latest /\ ExceedsDeadline(latest, deadline)
      /\ \A f \in DecidedIn(held, "record_conflict") :
           f[1] \in FindingCode /\ f[2] \in SUBSET Session
  <2> HIDE DEF latest, now
  <2> QED
    BY <1>5 DEF DecidedIn
<1>8. ASSUME move # {}, extend = {} PROVE ~ ExceedsDeadline(latest, deadline)
  <2>1. PICK d \in Decisions(c) : d.type = "update_scheduled_session_time"
    BY <1>8 DEF DecidedIn
  <2>2. IsMove(c) /\ ~ IsMissing(now)
    BY <1>5, <2>1
  <2>3. c.old.at # now.at
    BY <2>2 DEF IsMove, ChangeKind
  <2>4. ~ SameEvent(c.old, now)
    BY <2>3 DEF SameEvent
  <2>5. ~ IsMissing(c.old)
    BY <1>1, <2>2, EventPlacement DEF IsMove, ChangeKind, IsMissing
  <2>6. c.old.at # NoPlacement
    BY <1>1, <2>5, EventPlacement, EndTimes
  <2>7. Decisions(c) = PolicyDecisions(a, "moved", c.old, now)
    BY <2>2 DEF Decisions, IsMove
  <2>8. ExceedsDeadline(latest, deadline) =>
          Decision("extend_task_deadline", latest) \in Decisions(c)
    <3> HIDE DEF a, now
    <3> QED
      BY <1>3, <2>2, <2>3, <2>4, <2>6, <2>7, MovesAreDecided
  <2>9. Decision("extend_task_deadline", latest) \in Decisions(c) =>
          latest \in extend
    <3> HIDE DEF latest
    <3> QED
      BY DEF DecidedIn, Decision
  <2> QED
    BY <1>8, <2>8, <2>9
<1>9. deadline # NoDeadline => deadline \in Nat
  BY <1>4, DeadlineAssumption, EndTimes DEF AnyDeadline, EndTime
<1>10. /\ held.change = c /\ held.deadline = deadline
       /\ held.sync = sync[c.session]
  OBVIOUS
<1>11. HeldOK(held)
  <2> HIDE DEF held, latest
  <2> QED
    BY <1>4, <1>6, <1>7, <1>8, <1>9, <1>10 DEF HeldOK, ExceedsDeadline
<1> QED
  BY <1>11

LEMMA TypedInit == Init => TypedInv
<1> SUFFICES ASSUME Init PROVE TypedInv
  OBVIOUS
<1>1. Inv
  BY InitInv
<1>2. PICK z \in Zone, at \in [Session -> Placement] :
        calendar = [s \in Session |-> [state |-> PresentAt(at[s], z), version |-> 0]]
  BY DEF Init, PullInit
<1>3. \A s \in Session : baseline[s].state.at = at[s]
  BY <1>2 DEF Init, PullInit, PresentAt
<1>4. scheduled \in [Session -> Placement]
  BY <1>2, <1>3 DEF Init, ProcessInit
<1>5. ProcessTypeOK /\ HeldDecisions
  BY <1>4 DEF Init, ProcessInit, ProcessTypeOK, HeldDecisions, IdleProcess, AnyDeadline
<1> QED
  BY <1>1, <1>5 DEF TypedInv

(* Pulls leave everything processing writes alone, and forget no change.   *)
LEMMA PullsAreTyped ==
  ASSUME TypedInv, PullNext, UNCHANGED processVars
  PROVE  ProcessTypeOK' /\ HeldDecisions' /\ changes \subseteq changes'
<1>1. changes \subseteq changes'
  BY DEF PullNext, EditEvent, PullBegin, PullAnswered, PullCommit, PullDuplicate,
         PullFails, PullAbort
<1>2. \A r \in ProcessRequest : process'[r] = process[r]
  BY DEF processVars
<1>3. HeldDecisions'
  BY <1>2 DEF TypedInv, HeldDecisions
<1>4. ProcessTypeOK'
  BY <1>1 DEF TypedInv, ProcessTypeOK, processVars
<1> QED
  BY <1>1, <1>3, <1>4

LEMMA ReadIsTyped ==
  ASSUME TypedInv, NEW r \in ProcessRequest, NEW c \in changes, ProcessRead(r, c)
  PROVE  ProcessTypeOK' /\ HeldDecisions'
<1> DEFINE held == [change |-> c, decisions |-> Decisions(c),
                    deadline |-> deadline, sync |-> sync[c.session]]
<1>1. HeldOK(held) /\ held.change = c
  BY ReadHolds DEF ProcessRead
<1>2. /\ process' = [process EXCEPT ![r] = held]
      /\ UNCHANGED <<scheduled, deadline, processed, findings, extensions, changes>>
  BY DEF ProcessRead, pullVars
<1> HIDE DEF held
<1>3. \A q \in ProcessRequest : process'[q] = IF q = r THEN held ELSE process[q]
  BY <1>2 DEF TypedInv, Inv, Shape
<1>4. HeldDecisions'
  BY <1>1, <1>3 DEF TypedInv, HeldDecisions
<1>5. ProcessTypeOK'
  BY <1>1, <1>2, <1>3 DEF TypedInv, ProcessTypeOK
<1> QED
  BY <1>4, <1>5

(* A request that ends leaves the others' decisions alone.                 *)
LEMMA EndingHolds ==
  ASSUME TypedInv, NEW r \in ProcessRequest,
         process' = [process EXCEPT ![r] = IdleProcess]
  PROVE  /\ HeldDecisions'
         /\ \A q \in ProcessRequest : process'[q] \in {process[q], IdleProcess}
<1>1. \A q \in ProcessRequest : process'[q] \in {process[q], IdleProcess}
  BY DEF TypedInv, Inv, Shape
<1>2. IdleProcess.change = NoChange
  BY DEF IdleProcess
<1> QED
  BY <1>1, <1>2 DEF TypedInv, HeldDecisions

LEMMA CommitIsTyped ==
  ASSUME TypedInv, NEW r \in ProcessRequest, ProcessCommit(r)
  PROVE  ProcessTypeOK' /\ HeldDecisions'
<1> DEFINE c == process[r].change
           s == c.session
           move == Decided(r, "update_scheduled_session_time")
           extend == Decided(r, "extend_task_deadline")
           conflicts == Decided(r, "record_conflict")
<1>1. /\ c # NoChange /\ c \in changes /\ c \in Change /\ s \in Session
      /\ HeldOK(process[r])
  BY DEF TypedInv, Inv, LocksAreExclusive, SyncTypeOK, HeldDecisions, ProcessCommit,
         Change
<1>2. /\ move # {} => c.new.state.at \in Placement
      /\ \A e \in extend : e \in EndTime
      /\ process[r].deadline \in AnyDeadline
      /\ \A f \in conflicts : f[1] \in FindingCode /\ f[2] \in SUBSET Session
  BY <1>1 DEF HeldOK, DecidedIn, Decided
<1>3. /\ process' = [process EXCEPT ![r] = IdleProcess]
      /\ changes' = changes
      /\ processed' = processed \cup {c}
  BY DEF ProcessCommit
<1>4. scheduled' \in [Session -> Placement]
  <2>1. scheduled \in [Session -> Placement]
    BY DEF TypedInv, ProcessTypeOK
  <2>2. scheduled' = IF move = {} THEN scheduled
                     ELSE [scheduled EXCEPT ![s] = c.new.state.at]
    BY DEF ProcessCommit
  <2> HIDE DEF move, c
  <2> QED
    BY <1>2, <2>1, <2>2
<1>5. /\ deadline' \in AnyDeadline
      /\ extensions' \subseteq
           [change : changes', previous : AnyDeadline, new : EndTime]
  <2>1. /\ deadline \in AnyDeadline
        /\ extensions \subseteq
             [change : changes, previous : AnyDeadline, new : EndTime]
    BY DEF TypedInv, ProcessTypeOK
  <2>2. CASE extend = {}
    BY <1>3, <2>1, <2>2 DEF ProcessCommit
  <2>3. CASE extend # {}
    <3>1. PICK e \in extend :
            /\ deadline' = e
            /\ extensions' = extensions \cup
                 {[change |-> c, previous |-> process[r].deadline, new |-> e]}
      BY <2>3 DEF ProcessCommit
    <3>2. [change |-> c, previous |-> process[r].deadline, new |-> e]
            \in [change : changes, previous : AnyDeadline, new : EndTime]
      BY <1>1, <1>2, <3>1
    <3> QED
      BY <1>2, <1>3, <2>1, <3>1, <3>2 DEF AnyDeadline
  <2> QED
    BY <2>2, <2>3
<1>6. findings' \subseteq
        [change : changes', code : FindingCode, sessions : SUBSET Session]
  <2>1. findings \subseteq
          [change : changes, code : FindingCode, sessions : SUBSET Session]
    BY DEF TypedInv, ProcessTypeOK
  <2>2. findings' = findings \cup
          {[change |-> c, code |-> f[1], sessions |-> f[2]] : f \in conflicts}
    BY DEF ProcessCommit
  <2>3. ASSUME NEW f \in conflicts
        PROVE  [change |-> c, code |-> f[1], sessions |-> f[2]]
                 \in [change : changes, code : FindingCode, sessions : SUBSET Session]
    BY <1>1, <1>2, <2>3
  <2> HIDE DEF conflicts
  <2> QED
    BY <1>3, <2>1, <2>2, <2>3
<1>7. \A q \in ProcessRequest : process'[q].change \in changes' \cup {NoChange}
  BY <1>3, EndingHolds DEF TypedInv, ProcessTypeOK, IdleProcess
<1>8. processed' \subseteq changes'
  BY <1>1, <1>3 DEF TypedInv, ProcessTypeOK
<1> QED
  BY <1>3, <1>4, <1>5, <1>6, <1>7, <1>8, EndingHolds DEF ProcessTypeOK

LEMMA TypedNext == TypedInv /\ [Next]_vars => TypedInv'
<1> SUFFICES ASSUME TypedInv, [Next]_vars PROVE TypedInv'
  OBVIOUS
<1>1. Inv'
  BY NextInv DEF TypedInv
<1>2. CASE PullNext /\ UNCHANGED processVars
  BY <1>1, <1>2, PullsAreTyped DEF TypedInv
<1>3. ASSUME NEW r \in ProcessRequest, NEW c \in changes, ProcessRead(r, c)
      PROVE  TypedInv'
  BY <1>1, <1>3, ReadIsTyped DEF TypedInv
<1>4. ASSUME NEW r \in ProcessRequest, ProcessCommit(r) PROVE TypedInv'
  BY <1>1, <1>4, CommitIsTyped DEF TypedInv
<1>5. ASSUME NEW r \in ProcessRequest, ProcessAbort(r) PROVE TypedInv'
  <2>1. /\ process' = [process EXCEPT ![r] = IdleProcess]
        /\ UNCHANGED <<scheduled, deadline, processed, findings, extensions, changes>>
    BY <1>5 DEF ProcessAbort, pullVars
  <2>2. ProcessTypeOK'
    BY <2>1, EndingHolds DEF TypedInv, ProcessTypeOK, IdleProcess
  <2> QED
    BY <1>1, <2>1, <2>2, EndingHolds DEF TypedInv
<1>6. ASSUME NEW d \in Deadline, UpdateTaskDeadline(d) PROVE TypedInv'
  <2>1. /\ deadline' \in AnyDeadline
        /\ UNCHANGED <<scheduled, processed, findings, extensions, process, changes>>
    BY <1>6 DEF UpdateTaskDeadline, pullVars, AnyDeadline
  <2> QED
    BY <1>1, <2>1 DEF TypedInv, ProcessTypeOK, HeldDecisions
<1>7. CASE UNCHANGED vars
  BY <1>1, <1>7 DEF vars, pullVars, processVars, TypedInv, ProcessTypeOK, HeldDecisions
<1> QED
  BY <1>2, <1>3, <1>4, <1>5, <1>6, <1>7 DEF Next, ProcessNext

(* The tables that pulls and processing write, and what both hold between  *)
(* their steps, keep their types: sessions stay at placements, deadlines   *)
(* are a client's or some placement's end, findings name mapped sessions.  *)
THEOREM SyncSystemTypeCorrect == Spec => []SyncSystemTypeOK
<1>1. TypedInv => SyncSystemTypeOK
  BY DEF TypedInv, Inv, SyncSystemTypeOK
<1> QED
  BY <1>1, TypedInit, TypedNext, PTL DEF Spec

(* Processing shortens a deadline only if it never saw it.                 *)
THEOREM KnownDeadlinesTheorem == Spec => KnownDeadlinesHold
<1> DEFINE Holds(r) ==
      LET c == process[r].change IN
       /\ c \in processed' \ processed
       /\ deadline = process[r].deadline /\ deadline # NoDeadline
       => /\ deadline' # NoDeadline /\ deadline' >= deadline
          /\ /\ scheduled'[c.session] # scheduled[c.session]
             /\ process[r].sync # "externally_deleted"
             => deadline' >= scheduled'[c.session][2]
<1>1. ASSUME TypedInv, [Next]_vars, NEW r \in ProcessRequest PROVE Holds(r)
  <2> DEFINE c == process[r].change
             s == c.session
             extend == Decided(r, "extend_task_deadline")
             move == Decided(r, "update_scheduled_session_time")
  <2> SUFFICES ASSUME c \in processed' \ processed,
                      deadline = process[r].deadline, deadline # NoDeadline
               PROVE  /\ deadline' # NoDeadline /\ deadline' >= deadline
                      /\ /\ scheduled'[s] # scheduled[s]
                         /\ process[r].sync # "externally_deleted"
                         => deadline' >= scheduled'[s][2]
    OBVIOUS
  <2>1. PICK q \in ProcessRequest : ProcessCommit(q)
    BY <1>1
    DEF Next, vars, processVars, ProcessNext, ProcessRead, ProcessAbort,
        UpdateTaskDeadline
  <2>2. process[q].change = c
    BY <2>1 DEF ProcessCommit
  <2>3. q = r
    BY <1>1, <2>1, <2>2 DEF ProcessCommit, TypedInv, Inv, LocksAreExclusive
  <2>4. c # NoChange /\ HeldOK(process[r]) /\ c \in Change /\ s \in Session
    BY <1>1, <2>1, <2>3
    DEF ProcessCommit, TypedInv, HeldDecisions, Inv, LocksAreExclusive, SyncTypeOK,
        Change
  <2>5. /\ deadline \in Nat
        /\ \A e \in extend : e \in Nat /\ e > deadline
        /\ move # {} => c.new.state.at \in Placement /\ c.new.state.at[2] \in Nat
        /\ move # {} /\ process[r].sync # "externally_deleted" =>
             /\ \A e \in extend : c.new.state.at[2] <= e
             /\ extend = {} => c.new.state.at[2] <= deadline
    BY <1>1, <2>4, DeadlineAssumption, EndTimes
    DEF HeldOK, DecidedIn, Decided, ExceedsDeadline, AnyDeadline, EndTime
  <2>6. \/ extend = {} /\ deadline' = deadline
        \/ \E e \in extend : deadline' = e
    BY <2>1, <2>3 DEF ProcessCommit
  <2>7. deadline' \in Nat /\ deadline' >= deadline
    BY <2>5, <2>6
  <2>8. ASSUME scheduled'[s] # scheduled[s], process[r].sync # "externally_deleted"
        PROVE  deadline' >= scheduled'[s][2]
    <3>1. scheduled' = IF move = {} THEN scheduled
                       ELSE [scheduled EXCEPT ![s] = c.new.state.at]
      BY <2>1, <2>3 DEF ProcessCommit
    <3>2. move # {} /\ scheduled'[s] = c.new.state.at
      BY <1>1, <2>4, <2>8, <3>1 DEF TypedInv, ProcessTypeOK
    <3> QED
      BY <2>5, <2>6, <2>8, <3>2
  <2> QED
    BY <2>7, <2>8, DeadlineAssumption
<1>2. TypedInv /\ [Next]_vars => [\A r \in ProcessRequest : Holds(r)]_vars
  BY <1>1
<1> QED
  BY <1>2, TypedInit, TypedNext, PTL DEF Spec, KnownDeadlinesHold

-----------------------------------------------------------------------------
(* Where sessions end up when requests of a kind do not overlap.           *)

(* No change of s shows its event missing.                                 *)
NeverMissing(s) ==
  \A c \in changes : c.session = s => ~ IsMissing(c.old) /\ ~ IsMissing(c.new.state)

Pending(s) == {c \in changes \ processed : c.session = s}

Leaving(rows, p) == Cardinality({c \in rows : c.old.at = p})

Arriving(rows, p) == Cardinality({c \in rows : c.new.state.at = p})

One(b) == IF b THEN 1 ELSE 0

(* The pending changes of s, each a step from its old to its new           *)
(* placement, make up a trail from the session to the baseline, and        *)
(* possibly closed trails: as many leave a placement as arrive at it, but  *)
(* for the two ends.                                                       *)
Balanced(s) ==
  \A p \in Placement :
    Leaving(Pending(s), p) + One(p = baseline[s].state.at)
      = Arriving(Pending(s), p) + One(p = scheduled[s])

(* A pull that works alone holds the current baseline.                     *)
LonePullsAreCurrent ==
  \A r \in PullRequest :
    pull[r].pc # "idle" /\ pull[r].session \notin raced =>
      pull[r].heldBaseline = baseline[pull[r].session]

(* A processing request that works alone moves a session from where it is. *)
LoneMovesAreCurrent ==
  \A r \in ProcessRequest :
    LET c == process[r].change
        move == Decided(r, "update_scheduled_session_time")
    IN  c # NoChange /\ c.session \notin raced /\ NeverMissing(c.session) =>
          IF c.old.at = c.new.state.at THEN move = {}
          ELSE move # {} /\ c.old.at = scheduled[c.session]

RacesAreOnRecord == \A s \in Session : BothAtWork(s) => s \in raced

TrailsConnect == \A s \in Session \ raced : NeverMissing(s) => Balanced(s)

SerialInv ==
  /\ TypedInv
  /\ IsFiniteSet(changes)
  /\ RacesAreOnRecord
  /\ LonePullsAreCurrent
  /\ LoneMovesAreCurrent
  /\ TrailsConnect

LEMMA CountOneMore ==
  ASSUME NEW rows, IsFiniteSet(rows), NEW c, c \notin rows, NEW p
  PROVE  /\ Leaving(rows \cup {c}, p) = Leaving(rows, p) + One(c.old.at = p)
         /\ Arriving(rows \cup {c}, p) = Arriving(rows, p) + One(c.new.state.at = p)
         /\ Leaving(rows, p) \in Nat /\ Arriving(rows, p) \in Nat
<1> DEFINE L == {d \in rows : d.old.at = p}
           A == {d \in rows : d.new.state.at = p}
<1>1. IsFiniteSet(L) /\ IsFiniteSet(A)
  BY FS_Subset
<1>2. /\ {d \in rows \cup {c} : d.old.at = p} = IF c.old.at = p THEN L \cup {c} ELSE L
      /\ {d \in rows \cup {c} : d.new.state.at = p}
           = IF c.new.state.at = p THEN A \cup {c} ELSE A
      /\ c \notin L /\ c \notin A
  OBVIOUS
<1> HIDE DEF L, A
<1>3. /\ Cardinality(L \cup {c}) = Cardinality(L) + 1
      /\ Cardinality(A \cup {c}) = Cardinality(A) + 1
      /\ Cardinality(L) \in Nat /\ Cardinality(A) \in Nat
  BY <1>1, <1>2, FS_AddElement, FS_CardinalityType
<1>4. Leaving(rows, p) = Cardinality(L) /\ Arriving(rows, p) = Cardinality(A)
  BY DEF Leaving, Arriving, L, A
<1>5. Leaving(rows \cup {c}, p) = Cardinality(L) + One(c.old.at = p)
  <2>1. Leaving(rows \cup {c}, p) = Cardinality(IF c.old.at = p THEN L \cup {c} ELSE L)
    BY <1>2 DEF Leaving
  <2>2. CASE c.old.at = p
    BY <1>3, <2>1, <2>2 DEF One
  <2>3. CASE c.old.at # p
    BY <1>3, <2>1, <2>3 DEF One
  <2> QED
    BY <2>2, <2>3
<1>6. Arriving(rows \cup {c}, p) = Cardinality(A) + One(c.new.state.at = p)
  <2>1. Arriving(rows \cup {c}, p) = Cardinality(IF c.new.state.at = p THEN A \cup {c} ELSE A)
    BY <1>2 DEF Arriving
  <2>2. CASE c.new.state.at = p
    BY <1>3, <2>1, <2>2 DEF One
  <2>3. CASE c.new.state.at # p
    BY <1>3, <2>1, <2>3 DEF One
  <2> QED
    BY <2>2, <2>3
<1> QED
  BY <1>3, <1>4, <1>5, <1>6

LEMMA PendingIsFinite ==
  ASSUME IsFiniteSet(changes), NEW s
  PROVE  IsFiniteSet(Pending(s))
BY FS_Subset DEF Pending

LEMMA SerialInit == Init => SerialInv
<1> SUFFICES ASSUME Init PROVE SerialInv
  OBVIOUS
<1>1. TypedInv
  BY TypedInit
<1>2. IsFiniteSet(changes)
  BY FS_EmptySet DEF Init, PullInit
<1>3. /\ \A r \in PullRequest : pull[r].session = NoSession /\ pull[r].pc = "idle"
      /\ \A r \in ProcessRequest : process[r].change = NoChange
  BY DEF Init, PullInit, ProcessInit, IdlePull, IdleProcess
<1>4. RacesAreOnRecord /\ LonePullsAreCurrent /\ LoneMovesAreCurrent
  BY <1>3, SessionAssumption
  DEF RacesAreOnRecord, BothAtWork, LonePullsAreCurrent, LoneMovesAreCurrent
<1>5. ASSUME NEW s \in Session PROVE Balanced(s)
  <2>1. scheduled[s] = baseline[s].state.at
    BY DEF Init, ProcessInit
  <2>2. Pending(s) = {}
    BY DEF Init, PullInit, Pending
  <2>3. \A p : Leaving({}, p) = 0 /\ Arriving({}, p) = 0
    BY FS_EmptySet DEF Leaving, Arriving
  <2> QED
    BY <2>1, <2>2, <2>3 DEF Balanced, One
<1> QED
  BY <1>1, <1>2, <1>4, <1>5 DEF SerialInv, TrailsConnect

(* Steps that move nothing and record nothing keep the trails.             *)
LEMMA TrailsStay ==
  ASSUME TrailsConnect, raced \subseteq raced',
         UNCHANGED <<changes, processed, scheduled>>,
         \A s \in Session : baseline'[s].state = baseline[s].state
  PROVE  TrailsConnect'
<1>1. \A s \in Session : Balanced(s) => Balanced(s)'
  BY DEF Balanced, Pending
<1>2. \A s : NeverMissing(s)' => NeverMissing(s)
  BY DEF NeverMissing, IsMissing
<1> QED
  BY <1>1, <1>2 DEF TrailsConnect

(* Held moves depend only on what is held and where sessions are.          *)
LEMMA LoneMovesStay ==
  ASSUME LoneMovesAreCurrent, raced \subseteq raced', changes \subseteq changes',
         scheduled' = scheduled,
         \A r \in ProcessRequest :
            process'[r] = process[r] \/ process'[r].change = NoChange
  PROVE  LoneMovesAreCurrent'
<1>1. \A s : NeverMissing(s)' => NeverMissing(s)
  BY DEF NeverMissing, IsMissing
<1>2. SUFFICES ASSUME NEW r \in ProcessRequest, NEW c, c = process'[r].change,
                      c # NoChange, c.session \notin raced', NeverMissing(c.session)'
               PROVE  LET move == Decided(r, "update_scheduled_session_time")'
                      IN  IF c.old.at = c.new.state.at THEN move = {}
                          ELSE move # {} /\ c.old.at = scheduled'[c.session]
  BY DEF LoneMovesAreCurrent, NeverMissing
<1>3. process'[r] = process[r]
  BY <1>2
<1>4. Decided(r, "update_scheduled_session_time")'
        = Decided(r, "update_scheduled_session_time")
  BY <1>3 DEF Decided
<1>5. NeverMissing(c.session) /\ c.session \notin raced
  BY <1>1, <1>2
<1> QED
  BY <1>2, <1>3, <1>4, <1>5 DEF LoneMovesAreCurrent

(* A pull that works alone and records a change extends the trail.         *)
LEMMA CommitExtendsTrail ==
  ASSUME SerialInv, NEW r \in PullRequest, PullCommit(r), UNCHANGED processVars,
         raced \subseteq raced'
  PROVE  TrailsConnect' /\ IsFiniteSet(changes')
<1> DEFINE s == pull[r].session
           held == pull[r].heldBaseline
           answer == pull[r].answer
           c == Transition(r)
<1>1. /\ s \in Session /\ held \in Snapshot /\ answer \in Snapshot
      /\ pull[r].pc # "idle"
  BY DEF PullCommit, SerialInv, TypedInv, Inv, SyncTypeOK, AbsencesAreOnRecord, Pull
<1>2. /\ changes' = IF Kind(r) = "none" THEN changes ELSE changes \cup {c}
      /\ Kind(r) # "none" => c \notin changes
      /\ baseline' = [baseline EXCEPT ![s] = Written(baseline[s], held, answer)]
      /\ UNCHANGED <<scheduled, processed>>
  BY DEF PullCommit, processVars
<1>3. IsFiniteSet(changes')
  BY <1>2, FS_AddElement DEF SerialInv
<1>4. /\ \A t \in Session \ {s} : baseline'[t] = baseline[t]
      /\ baseline'[s] = Written(baseline[s], held, answer)
  BY <1>1, <1>2 DEF SerialInv, TypedInv, Inv, SyncTypeOK
<1>5. s \notin raced => held = baseline[s]
  BY <1>1 DEF SerialInv, LonePullsAreCurrent
<1>6. s \notin raced => baseline'[s] = answer
  BY <1>4, <1>5 DEF Written
<1>7. /\ c.session = s /\ c.old = held.state /\ c.new = answer
  BY DEF Transition
<1>8. \A t : NeverMissing(t)' => NeverMissing(t)
  BY <1>2 DEF NeverMissing, IsMissing
<1> HIDE DEF c
<1>9. SUFFICES ASSUME NEW t \in Session \ raced', NeverMissing(t)'
               PROVE  Balanced(t)'
  BY <1>3 DEF TrailsConnect
<1>10. Balanced(t) /\ t \notin raced
  BY <1>8, <1>9 DEF SerialInv, TrailsConnect
<1>11. CASE t # s
  <2>1. Pending(t)' = Pending(t)
    BY <1>2, <1>7, <1>11 DEF Pending
  <2>2. baseline'[t] = baseline[t] /\ scheduled'[t] = scheduled[t]
    BY <1>2, <1>4, <1>9, <1>11
  <2> QED
    BY <1>10, <2>1, <2>2 DEF Balanced
<1>12. CASE t = s /\ Kind(r) = "none"
  <2>1. held.state = answer.state
    BY <1>12 DEF Kind, ChangeKind
  <2>2. Pending(t)' = Pending(t)
    BY <1>2, <1>12 DEF Pending
  <2>3. baseline'[t].state = baseline[t].state /\ scheduled'[t] = scheduled[t]
    BY <1>2, <1>5, <1>6, <1>10, <1>12, <2>1
  <2> QED
    BY <1>10, <2>2, <2>3 DEF Balanced
<1>13. CASE t = s /\ Kind(r) # "none"
  <2> DEFINE rows == Pending(t)
  <2>1. c \notin changes /\ processed \subseteq changes
    BY <1>2, <1>13 DEF SerialInv, TypedInv, Inv, LocksAreExclusive
  <2>2. Pending(t)' = rows \cup {c} /\ c \notin rows
    BY <1>2, <1>7, <1>13, <2>1 DEF Pending
  <2>3. IsFiniteSet(rows)
    BY PendingIsFinite DEF SerialInv
  <2>4. /\ baseline'[t].state.at = c.new.state.at
        /\ baseline[t].state.at = c.old.at
        /\ scheduled'[t] = scheduled[t]
    BY <1>2, <1>5, <1>6, <1>7, <1>10, <1>13
  <2> HIDE DEF rows
  <2>5. ASSUME NEW p \in Placement
        PROVE  Leaving(rows \cup {c}, p) + One(p = c.new.state.at)
                 = Arriving(rows \cup {c}, p) + One(p = scheduled[t])
    <3>1. Leaving(rows, p) + One(p = c.old.at)
            = Arriving(rows, p) + One(p = scheduled[t])
      BY <1>10, <2>4 DEF Balanced, rows
    <3>2. /\ Leaving(rows \cup {c}, p) = Leaving(rows, p) + One(c.old.at = p)
          /\ Arriving(rows \cup {c}, p) = Arriving(rows, p) + One(c.new.state.at = p)
          /\ Leaving(rows, p) \in Nat /\ Arriving(rows, p) \in Nat
      BY <2>2, <2>3, CountOneMore
    <3> QED
      BY <3>1, <3>2 DEF One
  <2> QED
    BY <2>2, <2>4, <2>5 DEF Balanced
<1> QED
  BY <1>11, <1>12, <1>13

LEMMA PullsKeepSerial ==
  ASSUME SerialInv, PullNext, UNCHANGED processVars, RecordRaces
  PROVE  SerialInv'
<1>1. TypedInv'
  BY TypedNext DEF SerialInv, Next
<1>2. raced \subseteq raced' /\ RacesAreOnRecord'
  BY DEF RecordRaces, RacesAreOnRecord
<1>3. changes \subseteq changes'
  BY PullsAreTyped DEF SerialInv
<1>4. LoneMovesAreCurrent'
  BY <1>2, <1>3, LoneMovesStay DEF SerialInv, processVars
<1>5. \A r \in PullRequest : \A s \in Session :
        s \notin raced => \A q \in PullRequest :
          pull[q].session = s /\ pull[r].session = s => q = r
  BY DEF SerialInv, RacesAreOnRecord, BothAtWork
<1>6. CASE \E r \in PullRequest : PullCommit(r)
  <2>1. PICK r \in PullRequest : PullCommit(r)
    BY <1>6
  <2>2. /\ pull[r].session \in Session
        /\ pull' = [pull EXCEPT ![r] = IdlePull]
        /\ \A t \in Session \ {pull[r].session} : baseline'[t] = baseline[t]
    BY <2>1 DEF PullCommit, SerialInv, TypedInv, Inv, SyncTypeOK, AbsencesAreOnRecord
  <2>3. LonePullsAreCurrent'
    <3> SUFFICES ASSUME NEW q \in PullRequest, pull'[q].pc # "idle",
                        pull'[q].session \notin raced'
                 PROVE  pull'[q].heldBaseline = baseline'[pull'[q].session]
      BY DEF LonePullsAreCurrent
    <3>1. q # r /\ pull'[q] = pull[q]
      BY <2>2 DEF IdlePull, SerialInv, TypedInv, Inv, SyncTypeOK
    <3>2. pull[q].session \in Session
      BY <3>1 DEF SerialInv, TypedInv, Inv, AbsencesAreOnRecord
    <3>3. pull[q].session # pull[r].session
      BY <1>2, <1>5, <3>1, <3>2
    <3> QED
      BY <1>2, <2>2, <3>1, <3>2, <3>3 DEF SerialInv, LonePullsAreCurrent
  <2> QED
    BY <1>1, <1>2, <1>4, <2>1, <2>3, CommitExtendsTrail DEF SerialInv
<1>7. CASE ~ \E r \in PullRequest : PullCommit(r)
  <2>1. UNCHANGED <<baseline, changes, processed, scheduled>>
    BY <1>7 DEF PullNext, EditEvent, PullBegin, PullAnswered, PullDuplicate,
                PullFails, PullAbort, processVars
  <2>2. TrailsConnect' /\ IsFiniteSet(changes')
    BY <1>2, <2>1, TrailsStay DEF SerialInv
  <2>3. ASSUME NEW q \in PullRequest
        PROVE  \/ pull'[q].pc = "idle"
               \/ pull'[q].heldBaseline = baseline[pull'[q].session]
               \/ /\ pull'[q].session = pull[q].session
                  /\ pull'[q].heldBaseline = pull[q].heldBaseline
                  /\ pull[q].pc # "idle"
    <3>1. pull \in [PullRequest -> Pull]
      BY DEF SerialInv, TypedInv, Inv, SyncTypeOK
    <3>2. CASE \E s \in Session : EditEvent(s)
      BY <3>2 DEF EditEvent
    <3>3. ASSUME NEW r \in PullRequest, NEW s \in Session, PullBegin(r, s)
          PROVE  \/ pull'[q] = pull[q]
                 \/ pull'[q].heldBaseline = baseline[pull'[q].session]
      BY <3>1, <3>3 DEF PullBegin
    <3>4. ASSUME NEW r \in PullRequest, PullAnswered(r)
          PROVE  \/ pull'[q] = pull[q]
                 \/ /\ pull'[q].session = pull[q].session
                    /\ pull'[q].heldBaseline = pull[q].heldBaseline
                    /\ pull[q].pc # "idle"
      <4> DEFINE p == [pull[r] EXCEPT !.pc = "answered",
                                      !.answer = ProviderAnswer(pull[r].session)]
      <4>1. /\ p.session = pull[r].session
            /\ p.heldBaseline = pull[r].heldBaseline
        BY <3>1 DEF Pull
      <4>2. pull' = [pull EXCEPT ![r] = p] /\ pull[r].pc # "idle"
        BY <3>4 DEF PullAnswered
      <4> HIDE DEF p
      <4> QED
        BY <3>1, <4>1, <4>2
    <3>5. ASSUME NEW r \in PullRequest,
                 PullDuplicate(r) \/ PullFails(r) \/ PullAbort(r)
          PROVE  pull'[q] \in {pull[q], IdlePull}
      BY <3>1, <3>5 DEF PullDuplicate, PullFails, PullAbort
    <3>6. IdlePull.pc = "idle"
      BY DEF IdlePull
    <3> QED
      BY <1>7, <3>2, <3>3, <3>4, <3>5, <3>6 DEF PullNext
  <2>4. LonePullsAreCurrent'
    BY <1>2, <2>1, <2>3 DEF SerialInv, LonePullsAreCurrent
  <2> QED
    BY <1>1, <1>2, <1>4, <2>2, <2>4 DEF SerialInv
<1> QED
  BY <1>6, <1>7

(* A lone request that accepts a change takes one step off the trail.      *)
LEMMA AcceptShortensTrail ==
  ASSUME SerialInv, NEW r \in ProcessRequest, ProcessCommit(r),
         raced \subseteq raced'
  PROVE  TrailsConnect'
<1> DEFINE c == process[r].change
           s == c.session
           move == Decided(r, "update_scheduled_session_time")
<1>1. /\ c \in changes \ processed /\ c # NoChange /\ s \in Session
  BY DEF SerialInv, TypedInv, Inv, LocksAreExclusive, SyncTypeOK, Change, ProcessCommit
<1>2. /\ scheduled' = IF move = {} THEN scheduled
                      ELSE [scheduled EXCEPT ![s] = c.new.state.at]
      /\ processed' = processed \cup {c}
      /\ UNCHANGED <<changes, baseline>>
  BY DEF ProcessCommit
<1>3. s \notin raced /\ NeverMissing(s) =>
        IF c.old.at = c.new.state.at THEN move = {}
        ELSE move # {} /\ c.old.at = scheduled[s]
  BY <1>1 DEF SerialInv, LoneMovesAreCurrent
<1> HIDE DEF c, move
<1>4. /\ \A t \in Session \ {s} : scheduled'[t] = scheduled[t]
      /\ scheduled'[s] = IF move = {} THEN scheduled[s] ELSE c.new.state.at
  BY <1>1, <1>2 DEF SerialInv, TypedInv, ProcessTypeOK
<1>5. \A t : NeverMissing(t)' => NeverMissing(t)
  BY <1>2 DEF NeverMissing, IsMissing
<1>6. SUFFICES ASSUME NEW t \in Session \ raced', NeverMissing(t)'
               PROVE  Balanced(t)'
  BY DEF TrailsConnect
<1>7. Balanced(t) /\ t \notin raced /\ NeverMissing(t)
  BY <1>5, <1>6 DEF SerialInv, TrailsConnect
<1>8. CASE t # s
  <2>1. Pending(t)' = Pending(t)
    BY <1>2, <1>8 DEF Pending
  <2> QED
    BY <1>2, <1>4, <1>7, <1>8, <2>1 DEF Balanced
<1>9. CASE t = s
  <2> DEFINE rows == Pending(t) \ {c}
  <2>1. Pending(t)' = rows /\ Pending(t) = rows \cup {c} /\ c \notin rows
    BY <1>1, <1>2, <1>9 DEF Pending
  <2>2. IsFiniteSet(rows)
    BY PendingIsFinite, FS_RemoveElement DEF SerialInv
  <2> HIDE DEF rows
  <2>3. \/ c.old.at = c.new.state.at /\ scheduled'[t] = scheduled[t]
        \/ c.old.at = scheduled[t] /\ c.new.state.at = scheduled'[t]
    BY <1>3, <1>4, <1>7, <1>9
  <2>4. ASSUME NEW p \in Placement
        PROVE  Leaving(rows, p) + One(p = baseline[t].state.at)
                 = Arriving(rows, p) + One(p = scheduled'[t])
    <3>1. /\ Leaving(rows \cup {c}, p) = Leaving(rows, p) + One(c.old.at = p)
          /\ Arriving(rows \cup {c}, p) = Arriving(rows, p) + One(c.new.state.at = p)
          /\ Leaving(rows, p) \in Nat /\ Arriving(rows, p) \in Nat
      <4>1. c \notin rows
        BY <2>1
      <4> QED
        BY <2>2, <4>1, CountOneMore
    <3>2. \/ /\ One(c.old.at = p) = One(c.new.state.at = p)
             /\ One(p = scheduled[t]) = One(p = scheduled'[t])
          \/ /\ One(c.old.at = p) = One(p = scheduled[t])
             /\ One(c.new.state.at = p) = One(p = scheduled'[t])
      <4>1. CASE c.old.at = c.new.state.at /\ scheduled'[t] = scheduled[t]
        BY <4>1
      <4>2. CASE c.old.at = scheduled[t] /\ c.new.state.at = scheduled'[t]
        BY <4>2 DEF One
      <4> QED
        BY <2>3, <4>1, <4>2
    <3>3. Leaving(rows \cup {c}, p) + One(p = baseline[t].state.at)
            = Arriving(rows \cup {c}, p) + One(p = scheduled[t])
      BY <1>7, <2>1 DEF Balanced
    <3> DEFINE old == One(c.old.at = p)
               new == One(c.new.state.at = p)
               end == One(p = baseline[t].state.at)
               start == One(p = scheduled[t])
               next == One(p = scheduled'[t])
    <3>4. /\ old \in {0, 1} /\ new \in {0, 1} /\ end \in {0, 1}
          /\ start \in {0, 1} /\ next \in {0, 1}
      BY DEF One
    <3>5. /\ (old = new /\ start = next) \/ (old = start /\ new = next)
          /\ Leaving(rows \cup {c}, p) + end = Arriving(rows \cup {c}, p) + start
          /\ Leaving(rows \cup {c}, p) = Leaving(rows, p) + old
          /\ Arriving(rows \cup {c}, p) = Arriving(rows, p) + new
      BY <3>1, <3>2, <3>3, Zenon
    <3> HIDE DEF old, new, end, start, next
    <3>6. Leaving(rows, p) + end = Arriving(rows, p) + next
      BY <3>1, <3>4, <3>5
    <3> QED
      BY <3>6 DEF end, next
  <2> QED
    BY <1>2, <2>1, <2>4 DEF Balanced
<1> QED
  BY <1>8, <1>9

(* What a lone request decides about a change between present events.      *)
LEMMA ReadIsCurrent ==
  ASSUME SerialInv, NEW r \in ProcessRequest, NEW c \in changes, ProcessRead(r, c),
         raced \subseteq raced'
  PROVE  LoneMovesAreCurrent'
<1> DEFINE held == [change |-> c, decisions |-> Decisions(c),
                    deadline |-> deadline, sync |-> sync[c.session]]
           move == DecidedIn(held, "update_scheduled_session_time")
<1>1. /\ process' = [process EXCEPT ![r] = held]
      /\ UNCHANGED <<scheduled, changes>>
      /\ ~ DecisionIsStale(c)
  BY DEF ProcessRead, pullVars
<1>2. c.old \in EventState /\ c.new.state \in EventState
  BY DEF SerialInv, TypedInv, Inv, SyncTypeOK, Change, Snapshot
<1>3. ASSUME ~ IsMissing(c.old), ~ IsMissing(c.new.state)
      PROVE  IF c.old.at = c.new.state.at THEN move = {}
             ELSE move # {} /\ c.old.at = scheduled[c.session]
  <2> DEFINE a == Aggregate(c.session)
             type == ChangeKind(c.old, c.new.state)
  <2>1. /\ c.old.exists /\ ~ c.old.cancelled /\ c.old.at \in Placement
        /\ c.new.state.exists /\ ~ c.new.state.cancelled
        /\ SameEvent(c.old, c.new.state) \in BOOLEAN
        /\ IsMissing(c.new.state) \in BOOLEAN
    BY <1>2, <1>3, EventPlacement
  <2>2. type = "moved" <=> c.old.at # c.new.state.at
    BY <2>1 DEF ChangeKind
  <2>3. CASE c.old.at = c.new.state.at
    <3>1. ASSUME NEW d \in Decisions(c)
          PROVE  d.type # "update_scheduled_session_time"
      <4>1. d \in PolicyDecisions(a, type, c.old, c.new.state)
        BY <3>1 DEF Decisions
      <4>2. d.type = "update_scheduled_session_time" => type = "moved"
        <5> HIDE DEF a, type
        <5> QED
          BY <2>1, <4>1, DecisionsExplained
      <4> QED
        BY <2>2, <2>3, <4>2
    <3> QED
      BY <2>3, <3>1 DEF DecidedIn
  <2>4. CASE c.old.at # c.new.state.at
    <3>1. Decisions(c) = PolicyDecisions(a, "moved", c.old, c.new.state)
      BY <2>2, <2>4 DEF Decisions
    <3>2. ~ SameEvent(c.old, c.new.state) /\ c.old.at # NoPlacement
      BY <2>1, <2>4, EndTimes DEF SameEvent
    <3>3. Decision("update_scheduled_session_time", <<c.old.at, c.new.state.at>>)
            \in Decisions(c)
      <4> HIDE DEF a
      <4> QED
        BY <1>3, <2>4, <3>1, <3>2, MovesAreDecided
    <3>4. <<c.old.at, c.new.state.at>> \in move
      BY <3>3 DEF DecidedIn, Decision
    <3>5. c.old.at = scheduled[c.session]
      BY <1>1, <2>2, <2>4 DEF DecisionIsStale, IsMove
    <3> QED
      BY <2>4, <3>4, <3>5
  <2> QED
    BY <2>3, <2>4
<1>4. held.change = c
  OBVIOUS
<1> HIDE DEF held
<1>5. SUFFICES ASSUME NEW q \in ProcessRequest, NEW d, d = process'[q].change,
                      d # NoChange, d.session \notin raced', NeverMissing(d.session)'
               PROVE  LET made == Decided(q, "update_scheduled_session_time")'
                      IN  IF d.old.at = d.new.state.at THEN made = {}
                          ELSE made # {} /\ d.old.at = scheduled'[d.session]
  BY DEF LoneMovesAreCurrent, NeverMissing
<1>6. NeverMissing(d.session) /\ d.session \notin raced
  BY <1>1, <1>5 DEF NeverMissing, IsMissing
<1>7. CASE q = r
  <2>1. process'[q] = held /\ d = c
    BY <1>1, <1>4, <1>5, <1>7 DEF SerialInv, TypedInv, Inv, Shape
  <2>2. Decided(q, "update_scheduled_session_time")' = move
    BY <2>1 DEF Decided, DecidedIn
  <2>3. ~ IsMissing(c.old) /\ ~ IsMissing(c.new.state)
    BY <1>6, <2>1 DEF NeverMissing
  <2> QED
    BY <1>1, <1>3, <2>1, <2>2, <2>3
<1>8. CASE q # r
  <2>1. process'[q] = process[q]
    BY <1>1, <1>8 DEF SerialInv, TypedInv, Inv, Shape
  <2>2. Decided(q, "update_scheduled_session_time")'
          = Decided(q, "update_scheduled_session_time")
    BY <2>1 DEF Decided
  <2> QED
    BY <1>1, <1>5, <1>6, <2>1, <2>2 DEF SerialInv, LoneMovesAreCurrent
<1> QED
  BY <1>7, <1>8

(* Accepting a change disturbs no other lone request's move.               *)
LEMMA AcceptKeepsMoves ==
  ASSUME SerialInv, NEW r \in ProcessRequest, ProcessCommit(r),
         raced \subseteq raced'
  PROVE  LoneMovesAreCurrent'
<1> DEFINE s == process[r].change.session
           move == Decided(r, "update_scheduled_session_time")
<1>1. /\ process' = [process EXCEPT ![r] = IdleProcess]
      /\ changes' = changes
      /\ scheduled' = IF move = {} THEN scheduled
                      ELSE [scheduled EXCEPT ![s] = process[r].change.new.state.at]
      /\ process[r].change # NoChange
  BY DEF ProcessCommit
<1> HIDE DEF move
<1>2. \A t \in Session \ {s} : scheduled'[t] = scheduled[t]
  BY <1>1 DEF SerialInv, TypedInv, ProcessTypeOK
<1>3. SUFFICES ASSUME NEW q \in ProcessRequest, NEW d, d = process'[q].change,
                      d # NoChange, d.session \notin raced', NeverMissing(d.session)'
               PROVE  LET made == Decided(q, "update_scheduled_session_time")'
                      IN  IF d.old.at = d.new.state.at THEN made = {}
                          ELSE made # {} /\ d.old.at = scheduled'[d.session]
  BY DEF LoneMovesAreCurrent, NeverMissing
<1>4. q # r /\ process'[q] = process[q]
  BY <1>1, <1>3 DEF SerialInv, TypedInv, Inv, Shape, IdleProcess
<1>5. NeverMissing(d.session) /\ d.session \notin raced
  BY <1>1, <1>3 DEF NeverMissing, IsMissing
<1>6. d.session \in Session
  BY <1>3, <1>4 DEF SerialInv, TypedInv, Inv, LocksAreExclusive, SyncTypeOK, Change
<1>7. d.session # s
  BY <1>1, <1>3, <1>4, <1>5, <1>6 DEF SerialInv, RacesAreOnRecord, BothAtWork
<1>8. Decided(q, "update_scheduled_session_time")'
        = Decided(q, "update_scheduled_session_time")
  BY <1>4 DEF Decided
<1> QED
  BY <1>2, <1>3, <1>4, <1>5, <1>6, <1>7, <1>8 DEF SerialInv, LoneMovesAreCurrent

LEMMA ProcessKeepsSerial ==
  ASSUME SerialInv, ProcessNext, RecordRaces
  PROVE  SerialInv'
<1>1. TypedInv'
  BY TypedNext DEF SerialInv, Next
<1>2. raced \subseteq raced' /\ RacesAreOnRecord'
  BY DEF RecordRaces, RacesAreOnRecord
<1>3. UNCHANGED <<changes, baseline, pull>>
  BY DEF ProcessNext, ProcessRead, ProcessCommit, ProcessAbort, UpdateTaskDeadline,
         pullVars
<1>4. IsFiniteSet(changes') /\ LonePullsAreCurrent'
  BY <1>2, <1>3 DEF SerialInv, LonePullsAreCurrent
<1>5. ASSUME NEW r \in ProcessRequest, NEW c \in changes, ProcessRead(r, c)
      PROVE  LoneMovesAreCurrent' /\ TrailsConnect'
  <2>1. UNCHANGED <<processed, scheduled>>
    BY <1>5 DEF ProcessRead
  <2> QED
    BY <1>2, <1>3, <1>5, <2>1, ReadIsCurrent, TrailsStay DEF SerialInv
<1>6. ASSUME NEW r \in ProcessRequest, ProcessCommit(r)
      PROVE  LoneMovesAreCurrent' /\ TrailsConnect'
  BY <1>2, <1>6, AcceptShortensTrail, AcceptKeepsMoves
<1>7. ASSUME \/ \E r \in ProcessRequest : ProcessAbort(r)
             \/ \E d \in Deadline : UpdateTaskDeadline(d)
      PROVE  LoneMovesAreCurrent' /\ TrailsConnect'
  <2>1. UNCHANGED <<processed, scheduled>>
    BY <1>7 DEF ProcessAbort, UpdateTaskDeadline
  <2>2. \A r \in ProcessRequest :
          process'[r] = process[r] \/ process'[r].change = NoChange
    BY <1>7
    DEF ProcessAbort, UpdateTaskDeadline, IdleProcess, SerialInv, TypedInv, Inv, Shape
  <2> QED
    BY <1>2, <1>3, <2>1, <2>2, LoneMovesStay, TrailsStay DEF SerialInv
<1> QED
  BY <1>1, <1>2, <1>4, <1>5, <1>6, <1>7 DEF SerialInv, ProcessNext

LEMMA SerialNext == SerialInv /\ [Next]_vars => SerialInv'
<1> SUFFICES ASSUME SerialInv, [Next]_vars PROVE SerialInv'
  OBVIOUS
<1>1. CASE UNCHANGED vars
  <2>1. TypedInv'
    BY TypedNext DEF SerialInv
  <2>2. /\ raced' = raced /\ process' = process /\ pull' = pull
        /\ UNCHANGED <<changes, processed, scheduled, baseline>>
    BY <1>1 DEF vars, pullVars, processVars
  <2>3. TrailsConnect' /\ LoneMovesAreCurrent'
    BY <2>2, TrailsStay, LoneMovesStay DEF SerialInv
  <2>4. RacesAreOnRecord' /\ LonePullsAreCurrent' /\ IsFiniteSet(changes')
    BY <2>2 DEF SerialInv, RacesAreOnRecord, BothAtWork, LonePullsAreCurrent
  <2> QED
    BY <2>1, <2>3, <2>4 DEF SerialInv
<1> QED
  BY <1>1, PullsKeepSerial, ProcessKeepsSerial DEF Next

(* If no two pulls and no two processing requests of a mapping overlap and *)
(* its event never went missing, then once all recorded changes are        *)
(* processed the session is where the baseline says the event is: the      *)
(* pending changes always make up a trail between the two.                 *)
THEOREM SerialSyncConvergesTheorem == Spec => []SerialSyncConverges
<1>1. ASSUME SerialInv PROVE SerialSyncConverges
  <2>1. ASSUME NEW s \in Session \ raced,
               {c \in changes : c.session = s} \subseteq processed,
               NeverMissing(s)
        PROVE  scheduled[s] = baseline[s].state.at
    <3>1. Pending(s) = {}
      BY <2>1 DEF Pending
    <3>2. Balanced(s) /\ scheduled[s] \in Placement
      BY <1>1, <2>1 DEF SerialInv, TrailsConnect, TypedInv, ProcessTypeOK
    <3>3. \A p : Leaving({}, p) = 0 /\ Arriving({}, p) = 0
      BY FS_EmptySet DEF Leaving, Arriving
    <3>4. One(scheduled[s] = baseline[s].state.at) = One(scheduled[s] = scheduled[s])
      BY <3>1, <3>2, <3>3 DEF Balanced, One
    <3> QED
      BY <3>4 DEF One
  <2> QED
    BY <2>1 DEF SerialSyncConverges, NeverMissing
<1> QED
  BY <1>1, SerialInit, SerialNext, PTL DEF Spec

=============================================================================
