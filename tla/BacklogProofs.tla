----------------------------- MODULE BacklogProofs -----------------------------
(***************************************************************************)
(* Proofs about BacklogSystem for any number of entries, plans, slots and  *)
(* filing requests.                                                        *)
(***************************************************************************)
EXTENDS BacklogSystem, FiniteSetTheorems, TLAPS

(* The types of the plan rows and apply requests, as far as the backlog    *)
(* depends on them.                                                        *)
RowTypes ==
  /\ status \in [Plan -> PlanStatus \cup {"absent"}]
  /\ session \in [Plan -> [Slot -> SessionStatus \cup {"absent"}]]
  /\ run \in [Plan -> Run]
  /\ mapped \in [Plan -> SUBSET Slot]

(* A confirmed plan has lost no session yet, the sessions that apply has   *)
(* still to deal with hold their time, and only sessions have mappings.    *)
RowAgrees(p) ==
  /\ mapped[p] \subseteq SessionsOf(p)
  /\ status[p] = "absent" => mapped[p] = {}
  /\ status[p] = "confirmed" =>
       \A k \in Slot : session[p][k] \in {"absent", "confirmed"}
  /\ run[p].pc # "idle" =>
       /\ status[p] = "applying"
       /\ \A k \in run[p].todo : session[p][k] = "applying"

Inv == RowTypes /\ BacklogTypeOK /\ \A p \in Plan : RowAgrees(p)

-----------------------------------------------------------------------------
(* Counting booked sessions.                                               *)

LEMMA BookedIsFinite == IsFiniteSet(Plan \X Slot)
  <1>1. IsFiniteSet(1 .. MaxVersion)
    BY FS_Interval, MaxVersionAssumption
  <1>2. IsFiniteSet(Plan)
    BY <1>1, FiniteAssumption, FS_Product DEF Plan
  <1>3. QED
    BY <1>2, FiniteAssumption, FS_Product

LEMMA CountIsNat ==
  ASSUME NEW B \in SUBSET (Plan \X Slot)
  PROVE  IsFiniteSet(B) /\ Cardinality(B) \in Nat
  BY BookedIsFinite, FS_Subset, FS_CardinalityType

LEMMA LeftIsBounded ==
  ASSUME duration \in Duration, NEW B \in SUBSET (Plan \X Slot)
  PROVE  Left(B) \in 0 .. duration
  BY CountIsNat, BacklogBounds DEF Left, Duration

LEMMA BookedType == Booked \subseteq Plan \X Slot
  BY DEF Booked

LEMMA BookedTypeAfter == Booked' \subseteq Plan \X Slot
  BY DEF Booked

-----------------------------------------------------------------------------
LEMMA InitInv == Init => Inv
  <1> SUFFICES ASSUME Init PROVE Inv
    OBVIOUS
  <1> USE DEF Init
  <1>1. RowTypes
    BY AttemptsAssumption DEF PlanInit, ApplyInit, RowTypes, Idle, Run
  <1>2. BacklogTypeOK
    BY BacklogBounds
    DEF BacklogInit, BacklogTypeOK, Absent, BacklogReason, OPEN_BACKLOG_STATUSES,
        Duration
  <1>3. \A p \in Plan : RowAgrees(p)
    BY DEF PlanInit, ApplyInit, RowAgrees, Idle, SessionsOf
  <1>4. QED
    BY <1>1, <1>2, <1>3 DEF Inv

-----------------------------------------------------------------------------
(* The rows of plans and apply requests.                                   *)

LEMMA SameRowAgrees ==
  ASSUME NEW p \in Plan, RowAgrees(p),
         status'[p] = status[p], session'[p] = session[p],
         mapped'[p] = mapped[p], run'[p] = run[p]
  PROVE  RowAgrees(p)'
  BY DEF RowAgrees, SessionsOf

LEMMA UpdatedRow ==
  ASSUME RowTypes, NEW p \in Plan, NEW s \in PlanStatus,
         NEW row \in [Slot -> SessionStatus \cup {"absent"}],
         UpdatePlan(p, s, row)
  PROVE  /\ status' \in [Plan -> PlanStatus \cup {"absent"}]
         /\ session' \in [Plan -> [Slot -> SessionStatus \cup {"absent"}]]
         /\ status'[p] = s /\ session'[p] = row
         /\ \A q \in Plan \ {p} :
              status'[q] = status[q] /\ session'[q] = session[q]
  BY DEF RowTypes, UpdatePlan

(* The first version of a new group, from a backlog preview or not.        *)
Drafted(p, slots) ==
  /\ status[p] = "absent"
  /\ status' = [status EXCEPT ![p] = "proposed"]
  /\ session' = [session EXCEPT ![p] = NewSessions(slots)]
  /\ UNCHANGED <<mapped, run>>

LEMMA DraftRows ==
  ASSUME Inv, NEW p \in Plan, NEW slots \in SUBSET Slot, Drafted(p, slots)
  PROVE  RowTypes' /\ \A q \in Plan : RowAgrees(q)'
  <1> USE DEF Inv
  <1>1. /\ RowTypes' /\ status'[p] = "proposed"
        /\ \A q \in Plan \ {p} :
             status'[q] = status[q] /\ session'[q] = session[q]
    BY DEF RowTypes, Drafted, NewSessions, SessionStatus, PlanStatus
  <1>2. RowAgrees(p)'
    BY <1>1 DEF Drafted, RowAgrees
  <1>3. \A q \in Plan \ {p} : RowAgrees(q)'
    BY <1>1, SameRowAgrees DEF Drafted
  <1>4. QED
    BY <1>1, <1>2, <1>3

LEMMA AllSessionsType ==
  ASSUME NEW row, NEW s \in SessionStatus
  PROVE  /\ AllSessions(row, s) \in [Slot -> SessionStatus \cup {"absent"}]
         /\ \A k \in Slot :
              /\ AllSessions(row, s)[k] \in {s, "absent"}
              /\ AllSessions(row, s)[k] = "absent" <=> row[k] = "absent"
  BY DEF AllSessions, SessionStatus

(* Confirmation and withdrawal.                                            *)
LEMMA MoveRows ==
  ASSUME Inv, NEW p \in Plan, NEW s \in {"confirmed", "obsolete"},
         status[p] \in Revisable, UpdatePlan(p, s, AllSessions(session[p], s)),
         UNCHANGED <<mapped, run>>
  PROVE  RowTypes' /\ \A q \in Plan : RowAgrees(q)'
  <1> USE DEF Inv
  <1> DEFINE row == AllSessions(session[p], s)
  <1>1. s \in PlanStatus /\ s \in SessionStatus
    BY DEF PlanStatus, SessionStatus
  <1>2. /\ row \in [Slot -> SessionStatus \cup {"absent"}]
        /\ \A k \in Slot : /\ row[k] \in {s, "absent"}
                           /\ row[k] = "absent" <=> session[p][k] = "absent"
    BY <1>1, AllSessionsType
  <1> HIDE DEF row
  <1>3. UpdatePlan(p, s, row)
    BY DEF row
  <1>4. /\ status' \in [Plan -> PlanStatus \cup {"absent"}]
        /\ session' \in [Plan -> [Slot -> SessionStatus \cup {"absent"}]]
        /\ status'[p] = s /\ session'[p] = row
        /\ \A q \in Plan \ {p} :
             status'[q] = status[q] /\ session'[q] = session[q]
    BY <1>1, <1>2, <1>3, UpdatedRow
  <1>5. RowTypes'
    BY <1>4 DEF RowTypes
  <1>6. RowAgrees(p)'
    <2>1. SessionsOf(p)' = SessionsOf(p)
      BY <1>2, <1>4 DEF SessionsOf
    <2>2. run'[p].pc = "idle"
      BY DEF RowAgrees, Revisable
    <2>3. mapped'[p] \subseteq SessionsOf(p)'
      BY <2>1 DEF RowAgrees
    <2>4. status'[p] # "absent"
      BY <1>4
    <2>4a. session'[p] = row
      BY <1>4
    <2>4b. \A k \in Slot : session'[p][k] \in {s, "absent"}
      BY <1>2, <2>4a
    <2>5. QED
      BY <1>4, <2>2, <2>3, <2>4, <2>4b DEF RowAgrees
  <1>7. \A q \in Plan \ {p} : RowAgrees(q)'
    BY <1>4, SameRowAgrees
  <1>8. QED
    BY <1>5, <1>6, <1>7

LEMMA RunTypes ==
  /\ Idle \in Run /\ Idle.pc = "idle"
  /\ \A todo \in SUBSET Slot :
       [pc |-> "calling", todo |-> todo, attempts |-> 0] \in Run
  BY AttemptsAssumption DEF Idle, Run

(* What apply does to the row it works on.                                 *)
LEMMA ClaimedRow ==
  ASSUME Inv, NEW p \in Plan
  PROVE  /\ ClaimedSessions(p) \in [Slot -> SessionStatus \cup {"absent"}]
         /\ \A k \in Slot :
              /\ ClaimedSessions(p)[k] = "absent" <=> session[p][k] = "absent"
              /\ session[p][k] # "absent" /\ k \notin mapped[p] =>
                   ClaimedSessions(p)[k] = "applying"
  <1>1. mapped[p] \subseteq SessionsOf(p)
    BY DEF Inv, RowAgrees
  <1>2. \A k \in Slot :
          ClaimedSessions(p)[k] = IF session[p][k] = "absent" THEN "absent"
                                  ELSE IF k \in mapped[p] THEN "applied"
                                                          ELSE "applying"
    BY <1>1 DEF ClaimedSessions, SessionsOf
  <1>3. ClaimedSessions(p) = [k \in Slot |-> ClaimedSessions(p)[k]]
    BY DEF ClaimedSessions
  <1>4. QED
    BY <1>2, <1>3 DEF SessionStatus

LEMMA ApplyRows ==
  ASSUME Inv, ApplyNext
  PROVE  RowTypes' /\ \A q \in Plan : RowAgrees(q)'
  <1> USE DEF Inv
  <1>1. ASSUME NEW p \in Plan, ApplyClaim(p)
        PROVE  RowTypes' /\ \A q \in Plan : RowAgrees(q)'
    <2>1. /\ status' \in [Plan -> PlanStatus \cup {"absent"}]
          /\ session' \in [Plan -> [Slot -> SessionStatus \cup {"absent"}]]
          /\ status'[p] = "applying" /\ session'[p] = ClaimedSessions(p)
          /\ \A q \in Plan \ {p} :
               status'[q] = status[q] /\ session'[q] = session[q]
      BY <1>1, UpdatedRow, ClaimedRow DEF ApplyClaim, PlanStatus
    <2>2. /\ run' \in [Plan -> Run] /\ run'[p].pc = "calling"
          /\ run'[p].todo = SessionsOf(p) \ mapped[p]
          /\ \A q \in Plan \ {p} : run'[q] = run[q]
          /\ mapped' = mapped
      <3>1. SessionsOf(p) \ mapped[p] \in SUBSET Slot
        BY DEF SessionsOf
      <3>2. QED
        BY <1>1, <3>1, RunTypes DEF ApplyClaim, RowTypes
    <2>3. RowAgrees(p)'
      BY <2>1, <2>2, ClaimedRow DEF RowAgrees, SessionsOf
    <2>4. \A q \in Plan \ {p} : RowAgrees(q)'
      BY <2>1, <2>2, SameRowAgrees
    <2>5. QED
      BY <2>1, <2>2, <2>3, <2>4 DEF RowTypes
  <1>2. ASSUME NEW p \in Plan, ApplySettles(p)
        PROVE  RowTypes' /\ \A q \in Plan : RowAgrees(q)'
    <2>1. ResultingStatus(p) \in {"applied", "partially_applied", "failed"}
      BY DEF ResultingStatus
    <2>2. /\ status' \in [Plan -> PlanStatus \cup {"absent"}]
          /\ session' \in [Plan -> [Slot -> SessionStatus \cup {"absent"}]]
          /\ status'[p] = ResultingStatus(p) /\ session'[p] = session[p]
          /\ \A q \in Plan \ {p} :
               status'[q] = status[q] /\ session'[q] = session[q]
      <3>1. ResultingStatus(p) \in PlanStatus
            /\ session[p] \in [Slot -> SessionStatus \cup {"absent"}]
        BY <2>1 DEF PlanStatus, RowTypes
      <3>2. UpdatePlan(p, ResultingStatus(p), session[p])
        BY <1>2 DEF ApplySettles
      <3>3. QED
        BY <3>1, <3>2, UpdatedRow
    <2>3. /\ run' \in [Plan -> Run] /\ run'[p].pc = "idle"
          /\ \A q \in Plan \ {p} : run'[q] = run[q]
          /\ mapped' = mapped
      BY <1>2, RunTypes DEF ApplySettles, RowTypes
    <2>4. RowAgrees(p)'
      BY <2>1, <2>2, <2>3 DEF RowAgrees, SessionsOf
    <2>5. \A q \in Plan \ {p} : RowAgrees(q)'
      BY <2>2, <2>3, SameRowAgrees
    <2>6. QED
      BY <2>2, <2>3, <2>4, <2>5 DEF RowTypes
  <1>3. ASSUME NEW p \in Plan, ApplyAbort(p)
        PROVE  RowTypes' /\ \A q \in Plan : RowAgrees(q)'
    <2>1. /\ run' \in [Plan -> Run] /\ run'[p].pc = "idle"
          /\ \A q \in Plan \ {p} : run'[q] = run[q]
          /\ UNCHANGED <<status, session, mapped>>
      BY <1>3, RunTypes DEF ApplyAbort, RowTypes, planVars
    <2>2. QED
      BY <2>1 DEF RowTypes, RowAgrees, SessionsOf
  <1>4. ASSUME NEW p \in Plan, NEW k \in Slot, EventCreated(p, k) \/ CallFails(p, k)
        PROVE  RowTypes' /\ \A q \in Plan : RowAgrees(q)'
    <2>1. /\ run' \in [Plan -> Run] /\ run'[p].pc # "idle" /\ run[p].pc # "idle"
          /\ run'[p].todo = run[p].todo
          /\ \A q \in Plan \ {p} : run'[q] = run[q]
      <3>1. CASE EventCreated(p, k)
        <4> DEFINE c == [run[p] EXCEPT !.pc = "persisting"]
        <4>1. run' = [run EXCEPT ![p] = c] /\ run[p].pc = "calling"
          BY <3>1 DEF EventCreated, AtSession
        <4>2. c \in Run /\ c.pc = "persisting" /\ c.todo = run[p].todo
          BY DEF RowTypes, Run
        <4> HIDE DEF c
        <4>3. QED
          BY <4>1, <4>2 DEF RowTypes
      <3>2. CASE CallFails(p, k)
        <4> DEFINE c == [run[p] EXCEPT !.attempts = run[p].attempts + 1]
        <4>1. /\ run' = [run EXCEPT ![p] = c] /\ run[p].pc = "calling"
              /\ run[p].attempts < MAX_ATTEMPTS
          BY <3>2 DEF CallFails, AtSession
        <4>2. run[p].attempts + 1 \in 0 .. MAX_ATTEMPTS
          BY <4>1, AttemptsAssumption DEF RowTypes, Run
        <4>3. c \in Run /\ c.pc = "calling" /\ c.todo = run[p].todo
          BY <4>1, <4>2 DEF RowTypes, Run
        <4> HIDE DEF c
        <4>4. QED
          BY <4>1, <4>3 DEF RowTypes
      <3>3. QED
        BY <1>4, <3>1, <3>2
    <2>2. UNCHANGED <<status, session, mapped>>
      BY <1>4 DEF EventCreated, CallFails, planVars
    <2>3. QED
      BY <2>1, <2>2 DEF RowTypes, RowAgrees, SessionsOf
  <1>5. ASSUME NEW p \in Plan, NEW k \in Slot,
               SessionFails(p, k) \/ MappingCommits(p, k)
        PROVE  RowTypes' /\ \A q \in Plan : RowAgrees(q)'
    <2>1. /\ k \in run[p].todo /\ run[p].pc # "idle" /\ status' = status
          /\ run[p].todo \in SUBSET Slot
      BY <1>5 DEF SessionFails, MappingCommits, AtSession, RowTypes, Run
    <2>2. /\ run' \in [Plan -> Run] /\ run'[p].todo = run[p].todo \ {k}
          /\ \A q \in Plan \ {p} : run'[q] = run[q]
      <3> DEFINE c == [pc |-> "calling", todo |-> run[p].todo \ {k}, attempts |-> 0]
      <3>1. run' = [run EXCEPT ![p] = c]
        BY <1>5 DEF SessionFails, MappingCommits, Advance
      <3>2. c \in Run /\ c.todo = run[p].todo \ {k}
        BY <2>1, RunTypes
      <3> HIDE DEF c
      <3>3. QED
        BY <3>1, <3>2 DEF RowTypes
    <2>3. PICK s \in {"failed", "applied"} : session' = [session EXCEPT ![p][k] = s]
      BY <1>5 DEF SessionFails, MappingCommits
    <2>4. mapped' \in [Plan -> SUBSET Slot] /\ mapped'[p] \subseteq mapped[p] \cup {k}
          /\ \A q \in Plan \ {p} : mapped'[q] = mapped[q]
      BY <1>5 DEF SessionFails, MappingCommits, RowTypes
    <2>5. /\ session' \in [Plan -> [Slot -> SessionStatus \cup {"absent"}]]
          /\ session'[p][k] # "absent"
          /\ \A j \in Slot \ {k} : session'[p][j] = session[p][j]
          /\ \A q \in Plan \ {p} : session'[q] = session[q]
      BY <2>3 DEF RowTypes, SessionStatus
    <2>6. RowAgrees(p)'
      <3>1. status'[p] = "applying" /\ \A j \in run[p].todo : session[p][j] = "applying"
        BY <2>1 DEF RowAgrees
      <3>2. SessionsOf(p)' = SessionsOf(p)
        BY <2>1, <2>5, <3>1 DEF SessionsOf
      <3>3. k \in SessionsOf(p) /\ mapped[p] \subseteq SessionsOf(p)
        BY <2>1, <3>1 DEF SessionsOf, RowAgrees
      <3>4. mapped'[p] \subseteq SessionsOf(p)'
        BY <2>4, <3>2, <3>3
      <3>5. \A j \in run'[p].todo : session'[p][j] = "applying"
        BY <2>1, <2>2, <2>5, <3>1
      <3>6. QED
        BY <3>1, <3>4, <3>5 DEF RowAgrees
    <2>7. \A q \in Plan \ {p} : RowAgrees(q)'
      BY <2>1, <2>2, <2>4, <2>5, SameRowAgrees
    <2>8. QED
      BY <2>1, <2>2, <2>4, <2>5, <2>6, <2>7 DEF RowTypes
  <1>6. QED
    BY <1>1, <1>2, <1>3, <1>4, <1>5 DEF ApplyNext, ApplyStep

-----------------------------------------------------------------------------
(* The backlog's own tables.                                               *)

Row == [status : BacklogStatus \cup {"absent"}, remaining : 0 .. MaxDuration,
        attempts : 0 .. MaxAttempts, reason : BacklogReason]

OpenMeansWork(row) == row.remaining > 0 <=> row.status \in OPEN_BACKLOG_STATUSES

LEMMA EntryRowStep ==
  ASSUME BacklogTypeOK, NEW e \in Entry, NEW row \in Row, OpenMeansWork(row),
         entry' = [entry EXCEPT ![e] = row],
         duration' \in Duration, link' \in [Plan -> Entry \cup {NoEntry}],
         filing' \in [FileRequest -> 0 .. MaxDuration]
  PROVE  BacklogTypeOK'
  BY DEF BacklogTypeOK, Row, OpenMeansWork

LEMMA EntryRowType ==
  ASSUME BacklogTypeOK, NEW e \in Entry
  PROVE  entry[e] \in Row /\ OpenMeansWork(entry[e])
  BY DEF BacklogTypeOK, Row, OpenMeansWork

(* A closed entry has nothing left to schedule.                            *)
LEMMA ClosedRow ==
  ASSUME NEW old \in Row, NEW s \in {"resolved", "cancelled"}
  PROVE  LET row == [old EXCEPT !.status = s, !.remaining = 0]
         IN  row \in Row /\ OpenMeansWork(row) /\ row.status = s
  <1> DEFINE row == [old EXCEPT !.status = s, !.remaining = 0]
             named == [old EXCEPT !.status = s]
  <1>1. s \in BacklogStatus \cup {"absent"} /\ 0 \in 0 .. MaxDuration
    BY BacklogBounds DEF BacklogStatus
  <1>2. named \in Row /\ named.status = s
    BY <1>1 DEF Row
  <1>3. row = [named EXCEPT !.remaining = 0]
    OBVIOUS
  <1> HIDE DEF named
  <1>4. row \in Row /\ row.status = s /\ row.remaining = 0
    BY <1>1, <1>2, <1>3 DEF Row
  <1> HIDE DEF row
  <1>5. OpenMeansWork(row)
    BY <1>4 DEF OpenMeansWork, OPEN_BACKLOG_STATUSES
  <1>6. QED
    BY <1>4, <1>5 DEF row

LEMMA FiledType ==
  ASSUME BacklogTypeOK, NEW r \in FileRequest, FileRead(r) \/ FileInsert(r) \/ FileAnswer(r)
  PROVE  BacklogTypeOK'
  <1>1. CASE FileRead(r)
    <2>1. PICK m \in 1 .. duration : filing' = [filing EXCEPT ![r] = m]
      BY <1>1 DEF FileRead
    <2>2. m \in 0 .. MaxDuration
      BY BacklogBounds DEF BacklogTypeOK, Duration
    <2>3. QED
      BY <1>1, <2>1, <2>2 DEF FileRead, BacklogTypeOK
  <1>2. CASE FileAnswer(r)
    BY <1>2, BacklogBounds DEF FileAnswer, BacklogTypeOK
  <1>3. CASE FileInsert(r)
    <2> DEFINE row == [Absent EXCEPT !.status = "active", !.remaining = filing[r]]
    <2>1. PICK e \in Entry : entry' = [entry EXCEPT ![e] = row]
      BY <1>3 DEF FileInsert
    <2>2. filing[r] \in 0 .. MaxDuration /\ filing[r] # 0
      BY <1>3 DEF FileInsert, BacklogTypeOK
    <2>3. Absent \in Row
      BY BacklogBounds DEF Absent, Row, BacklogReason
    <2>4. row \in Row
      BY <2>2, <2>3 DEF Row, BacklogStatus, OPEN_BACKLOG_STATUSES
    <2>4a. row.status = "active" /\ row.remaining = filing[r]
      BY <2>3 DEF Row
    <2>4b. OpenMeansWork(row)
      BY <2>2, <2>4a DEF OpenMeansWork, OPEN_BACKLOG_STATUSES
    <2>5. /\ duration' \in Duration /\ link' \in [Plan -> Entry \cup {NoEntry}]
          /\ filing' \in [FileRequest -> 0 .. MaxDuration]
      BY <1>3, BacklogBounds DEF FileInsert, BacklogTypeOK
    <2> HIDE DEF row
    <2>6. QED
      BY <2>1, <2>4, <2>4b, <2>5, EntryRowStep
  <1>4. QED
    BY <1>1, <1>2, <1>3

LEMMA EntryNextType ==
  ASSUME BacklogTypeOK, EntryNext
  PROVE  BacklogTypeOK'
  <1>1. ASSUME NEW e \in Entry, NEW row \in Row, OpenMeansWork(row),
               entry' = [entry EXCEPT ![e] = row], UNCHANGED <<duration, link, filing>>
        PROVE  BacklogTypeOK'
    BY <1>1, EntryRowStep DEF BacklogTypeOK
  <1>2. ASSUME NEW e \in Entry, NEW s \in OPEN_BACKLOG_STATUSES, Open(e),
               entry' = [entry EXCEPT ![e].status = s], UNCHANGED <<duration, link, filing>>
        PROVE  BacklogTypeOK'
    <2> DEFINE row == [entry[e] EXCEPT !.status = s]
    <2>1. row \in Row /\ OpenMeansWork(row)
      BY <1>2, EntryRowType DEF Row, OpenMeansWork, BacklogStatus, Open
    <2>2. entry' = [entry EXCEPT ![e] = row]
      BY <1>2
    <2> HIDE DEF row
    <2>3. QED
      BY <1>1, <1>2, <2>1, <2>2
  <1>3. ASSUME NEW e \in Entry, Defer(e) \/ Reactivate(e) PROVE BacklogTypeOK'
    BY <1>2, <1>3 DEF Defer, Reactivate, Open, OPEN_BACKLOG_STATUSES
  <1>4. ASSUME NEW e \in Entry, NEW s \in {"resolved", "cancelled"}, Close(e, s)
        PROVE  BacklogTypeOK'
    <2> DEFINE row == [entry[e] EXCEPT !.status = s, !.remaining = 0]
    <2>1. row \in Row /\ OpenMeansWork(row)
      BY EntryRowType, ClosedRow
    <2>2. entry' = [entry EXCEPT ![e] = row]
      BY <1>4 DEF Close
    <2> HIDE DEF row
    <2>3. QED
      BY <1>1, <1>4, <2>1, <2>2 DEF Close
  <1>5. ASSUME NEW e \in Entry, Preview(e) PROVE BacklogTypeOK'
    <2> DEFINE row == [entry[e] EXCEPT !.attempts = entry[e].attempts + 1]
    <2>1. row \in Row /\ OpenMeansWork(row)
      BY <1>5, EntryRowType, BacklogBounds DEF Preview, Row, OpenMeansWork
    <2>2. entry' = [entry EXCEPT ![e] = row]
      BY <1>5 DEF Preview
    <2> HIDE DEF row
    <2>3. QED
      BY <1>1, <1>5, <2>1, <2>2 DEF Preview
  <1>6. ASSUME NEW d \in Duration, EditTask(d) PROVE BacklogTypeOK'
    BY <1>6 DEF EditTask, BacklogTypeOK
  <1>7. QED
    BY <1>3, <1>4, <1>5, <1>6, FiledType DEF EntryNext

(* What a confirmation writes into the entry of its plan.                  *)
LEMMA ConfirmedEntry ==
  ASSUME BacklogTypeOK, NEW p \in Plan, ConfirmLinked(p)
  PROVE  LET e == link[p]
             m == Left(Booked)'
         IN  /\ e \in Entry /\ Open(e) /\ m \in 0 .. duration
             /\ entry' = [entry EXCEPT ![e] = AfterConfirmation(entry[e], m)]
  <1> DEFINE e == link[p]
             m == Left(Booked)'
  <1>1. e \in Entry /\ Open(e)
    BY DEF ConfirmLinked, BacklogTypeOK
  <1>2. duration' = duration
    BY DEF ConfirmLinked
  <1>3. Left(Booked') = m
    BY <1>2 DEF Left
  <1>4. m \in 0 .. duration
    <2> DEFINE B == Booked'
    <2>1. B \subseteq Plan \X Slot
      BY BookedTypeAfter
    <2>2. duration \in Duration
      BY DEF BacklogTypeOK
    <2> HIDE DEF B, m
    <2>3. Left(B) \in 0 .. duration
      BY <2>1, <2>2, LeftIsBounded
    <2>4. QED
      BY <1>3, <2>3 DEF B
  <1> HIDE DEF m
  <1>5. entry' = [entry EXCEPT ![e] = AfterConfirmation(entry[e], m)]
    BY <1>3 DEF ConfirmLinked
  <1>6. QED
    BY <1>1, <1>4, <1>5 DEF m

LEMMA ConfirmLinkedType ==
  ASSUME BacklogTypeOK, NEW p \in Plan, ConfirmLinked(p)
  PROVE  BacklogTypeOK'
  <1> DEFINE e   == link[p]
             m   == Left(Booked)'
             row == AfterConfirmation(entry[e], m)
  <1>1. /\ e \in Entry /\ Open(e) /\ m \in 0 .. duration
        /\ entry' = [entry EXCEPT ![e] = row]
    BY ConfirmedEntry
  <1> HIDE DEF m
  <1>2. row \in Row /\ OpenMeansWork(row)
    <2>1. entry[e] \in Row /\ m \in 0 .. MaxDuration /\ m \in Nat
      BY <1>1, EntryRowType, BacklogBounds DEF BacklogTypeOK, Duration
    <2>2. CASE m = 0
      <3>1. row = [entry[e] EXCEPT !.status = "resolved", !.remaining = 0]
        BY <2>2 DEF AfterConfirmation
      <3>2. QED
        BY <2>1, <3>1, ClosedRow
    <2>3. CASE m # 0
      <3>1. row = [entry[e] EXCEPT !.remaining = m, !.reason = "partially_scheduled"]
        BY <2>3 DEF AfterConfirmation
      <3>2. row \in Row
        BY <2>1, <3>1 DEF Row, BacklogReason
      <3>3. row.remaining = m /\ row.status = entry[e].status
        BY <2>1, <3>1 DEF Row
      <3>4. QED
        BY <1>1, <2>1, <2>3, <3>2, <3>3 DEF OpenMeansWork, Open
    <2>4. QED
      BY <2>2, <2>3
  <1> HIDE DEF row
  <1>3. QED
    BY <1>1, <1>2, EntryRowStep DEF ConfirmLinked, BacklogTypeOK

-----------------------------------------------------------------------------
LEMMA NewGroupRow ==
  ASSUME NEW g \in Group, Fresh(g)
  PROVE  <<g, 1>> \in Plan /\ status[<<g, 1>>] = "absent"
  BY MaxVersionAssumption DEF Fresh, Exists, Plan

LEMMA NextInv == Inv /\ [Next]_vars => Inv'
  <1> SUFFICES ASSUME Inv, [Next]_vars PROVE Inv'
    OBVIOUS
  <1> USE DEF Inv
  <1>1. ASSUME NEW g \in Group, NEW k \in ClientKey, NEW slots \in SUBSET Slot,
               DraftUnlinked(g, k, slots)
        PROVE  Inv'
    <2>1. Drafted(<<g, 1>>, slots)
      BY <1>1, NewGroupRow DEF DraftUnlinked, Drafted, applyVars
    <2>2. BacklogTypeOK'
      BY <1>1 DEF DraftUnlinked, backlogVars, BacklogTypeOK
    <2>3. QED
      BY <1>1, <2>1, <2>2, NewGroupRow, DraftRows DEF DraftUnlinked
  <1>2. ASSUME NEW e \in Entry, NEW g \in Group, NEW slots \in SUBSET Slot,
               DraftLinked(e, g, slots), UNCHANGED applyVars
        PROVE  Inv'
    <2>1. Drafted(<<g, 1>>, slots)
      BY <1>2, NewGroupRow DEF DraftLinked, Drafted, applyVars
    <2>2. BacklogTypeOK'
      BY <1>2 DEF DraftLinked, BacklogTypeOK
    <2>3. QED
      BY <1>2, <2>1, <2>2, NewGroupRow, DraftRows DEF DraftLinked
  <1>3. ASSUME NEW p \in Plan, Obsolete(p), UNCHANGED <<applyVars, backlogVars>>
        PROVE  Inv'
    BY <1>3, MoveRows DEF Obsolete, applyVars, backlogVars, BacklogTypeOK
  <1>4. CASE ApplyNext /\ UNCHANGED backlogVars
    BY <1>4, ApplyRows DEF backlogVars, BacklogTypeOK
  <1>5. CASE EntryNext /\ UNCHANGED <<planVars, applyVars>>
    BY <1>5, EntryNextType
    DEF planVars, applyVars, RowTypes, RowAgrees, SessionsOf
  <1>6. ASSUME NEW p \in Plan, ConfirmLinked(p), UNCHANGED applyVars
        PROVE  Inv'
    BY <1>6, MoveRows, ConfirmLinkedType DEF ConfirmLinked, applyVars, Revisable
  <1>7. ASSUME NEW p \in Plan, ConfirmUnlinked(p), UNCHANGED applyVars
        PROVE  Inv'
    BY <1>7, MoveRows
    DEF ConfirmUnlinked, Confirm, applyVars, backlogVars, Revisable, BacklogTypeOK
  <1>8. CASE UNCHANGED vars
    BY <1>8
    DEF vars, planVars, applyVars, backlogVars, RowTypes, RowAgrees, SessionsOf,
        BacklogTypeOK
  <1>9. QED
    BY <1>1, <1>2, <1>3, <1>4, <1>5, <1>6, <1>7, <1>8 DEF Next

LEMMA SpecInv == Spec => []Inv
  <1>1. QED
    BY InitInv, NextInv, PTL DEF Spec

(* A preview of the backlog, a decision about an entry or an edit of the   *)
(* task never has two entries open, closes no entry twice and brings none  *)
(* back, and neither do the plans: BacklogLifecycle is implemented.        *)
THEOREM ImplementsBacklogLifecycleTheorem == Spec => ImplementsBacklogLifecycle
  <1> DEFINE statuses == [e \in Entry |-> entry[e].status]
  <1>1. Init => BacklogIs!Init
    BY DEF Init, BacklogInit, Absent, BacklogIs!Init
  <1>2. ASSUME Inv, [Next]_vars
        PROVE  BacklogIs!Next \/ statuses' = statuses
    <2>1. \A e \in Entry : entry[e] \in Row
      BY <1>2, EntryRowType DEF Inv
    <2>2. ASSUME NEW e \in Entry, NEW row, entry' = [entry EXCEPT ![e] = row],
                 row.status = entry[e].status
          PROVE  statuses' = statuses
      BY <1>2, <2>2 DEF Inv, BacklogTypeOK
    <2>3. ASSUME NEW e \in Entry, Open(e),
                 NEW s \in {"active", "deferred", "resolved", "cancelled"},
                 statuses' = [statuses EXCEPT ![e] = s]
          PROVE  BacklogIs!Next
      <3>1. statuses[e] \in BacklogIs!OpenStatus
        BY <2>3 DEF Open, OPEN_BACKLOG_STATUSES, BacklogIs!OpenStatus
      <3>2. BacklogIs!Turn(e, s)
        BY <2>3, <3>1 DEF BacklogIs!Turn
      <3>3. QED
        BY <2>3, <3>2 DEF BacklogIs!Next
    <2>4. ASSUME NEW r \in FileRequest, FileInsert(r)
          PROVE  BacklogIs!Next
      <3> DEFINE row == [Absent EXCEPT !.status = "active", !.remaining = filing[r]]
      <3>1. PICK e \in Entry : entry[e] = Absent /\ entry' = [entry EXCEPT ![e] = row]
        BY <2>4 DEF FileInsert
      <3>2. row.status = "active"
        BY DEF Absent
      <3> HIDE DEF row
      <3>3. statuses' = [statuses EXCEPT ![e] = "active"]
        BY <1>2, <3>1, <3>2 DEF Inv, BacklogTypeOK
      <3>4. /\ \A f \in Entry : statuses[f] \notin BacklogIs!OpenStatus
            /\ statuses[e] = "absent"
        BY <2>4, <3>1
        DEF FileInsert, Open, OPEN_BACKLOG_STATUSES, BacklogIs!OpenStatus, Absent
      <3>5. BacklogIs!File(e)
        BY <3>3, <3>4 DEF BacklogIs!File
      <3>6. QED
        BY <3>5 DEF BacklogIs!Next
    <2>5. ASSUME NEW e \in Entry, Defer(e) \/ Reactivate(e)
          PROVE  BacklogIs!Next
      <3>1. PICK s \in {"active", "deferred"} : entry' = [entry EXCEPT ![e].status = s]
        BY <2>5 DEF Defer, Reactivate
      <3>2. statuses' = [statuses EXCEPT ![e] = s]
        BY <1>2, <2>1, <3>1 DEF Inv, BacklogTypeOK, Row
      <3>3. Open(e)
        BY <2>5 DEF Defer, Reactivate, Open, OPEN_BACKLOG_STATUSES
      <3> HIDE DEF statuses
      <3>4. QED
        BY <2>3, <3>2, <3>3
    <2>6. ASSUME NEW e \in Entry, NEW s \in {"resolved", "cancelled"}, Close(e, s)
          PROVE  BacklogIs!Next
      <3> DEFINE row == [entry[e] EXCEPT !.status = s, !.remaining = 0]
      <3>1. row.status = s
        BY <2>1, ClosedRow
      <3>2. entry' = [entry EXCEPT ![e] = row] /\ Open(e)
        BY <2>6 DEF Close
      <3> HIDE DEF row
      <3>3. statuses' = [statuses EXCEPT ![e] = s]
        BY <1>2, <3>1, <3>2 DEF Inv, BacklogTypeOK
      <3> HIDE DEF statuses
      <3>4. QED
        BY <2>3, <3>2, <3>3
    <2>7. ASSUME NEW e \in Entry, Preview(e)
          PROVE  statuses' = statuses
      <3> DEFINE row == [entry[e] EXCEPT !.attempts = entry[e].attempts + 1]
      <3>1. row.status = entry[e].status
        BY <2>1 DEF Row
      <3>2. entry' = [entry EXCEPT ![e] = row]
        BY <2>7 DEF Preview
      <3> HIDE DEF row
      <3>3. QED
        BY <2>2, <3>1, <3>2
    <2>8. ASSUME NEW p \in Plan, ConfirmLinked(p)
          PROVE  BacklogIs!Next
      <3> DEFINE e   == link[p]
                 m   == Left(Booked)'
                 row == AfterConfirmation(entry[e], m)
      <3>1. e \in Entry /\ Open(e) /\ entry' = [entry EXCEPT ![e] = row]
        BY <1>2, <2>8, ConfirmedEntry DEF Inv
      <3> HIDE DEF m
      <3>2. entry[e] \in Row
        BY <2>1, <3>1
      <3>3. CASE m = 0
        <4>1. row = [entry[e] EXCEPT !.status = "resolved", !.remaining = 0]
          BY <3>3 DEF AfterConfirmation
        <4>2. row.status = "resolved"
          BY <3>2, <4>1, ClosedRow
        <4> HIDE DEF row
        <4>3. statuses' = [statuses EXCEPT ![e] = "resolved"]
          BY <1>2, <3>1, <4>2 DEF Inv, BacklogTypeOK
        <4> HIDE DEF statuses
        <4>4. QED
          BY <2>3, <3>1, <4>3
      <3>4. CASE m # 0
        <4> DEFINE s == entry[e].status
        <4>1. row.status = s
          BY <3>2, <3>4 DEF AfterConfirmation, Row
        <4>2. s \in {"active", "deferred"}
          BY <3>1 DEF Open, OPEN_BACKLOG_STATUSES
        <4> HIDE DEF row, s
        <4>3. statuses' = [statuses EXCEPT ![e] = s]
          BY <1>2, <3>1, <4>1 DEF Inv, BacklogTypeOK
        <4> HIDE DEF statuses
        <4>4. QED
          BY <2>3, <3>1, <4>2, <4>3
      <3>5. QED
        BY <3>3, <3>4
    <2>9. ASSUME entry' = entry PROVE statuses' = statuses
      BY <2>9
    <2>10. QED
      BY <1>2, <2>4, <2>5, <2>6, <2>7, <2>8, <2>9
      DEF Next, DraftUnlinked, DraftLinked, EntryNext, FileRead, FileAnswer,
          EditTask, ConfirmUnlinked, vars, backlogVars
  <1>3. Inv /\ [Next]_vars => [BacklogIs!Next]_statuses
    BY <1>2
  <1>4. QED
    BY <1>1, <1>3, SpecInv, PTL DEF Spec, ImplementsBacklogLifecycle, BacklogIs!Spec

-----------------------------------------------------------------------------
(* confirm_schedule_plan leaves the entry of its plan with exactly what is *)
(* left to schedule, and no other step changes a plan and an entry.        *)
THEOREM RemainderIsRecalculatedTheorem == Spec => RemainderIsRecalculated
  <1> DEFINE Confirmed(p) ==
               link[p] # NoEntry /\ status[p] = "proposed" /\ status'[p] = "confirmed"
             Recalculated(p) ==
               LET e == link[p] IN
               /\ entry[e].status \in OPEN_BACKLOG_STATUSES
               /\ entry'[e].remaining = Unscheduled'
               /\ entry'[e].status = IF Unscheduled' = 0 THEN "resolved"
                                     ELSE entry[e].status
  <1>1. ASSUME Inv, NEW p \in Plan, ConfirmLinked(p)
        PROVE  Confirmed(p) /\ Recalculated(p)
               /\ \A q \in Plan \ {p} : status'[q] = status[q]
    <2> DEFINE e   == link[p]
               m   == Left(Booked)'
               row == AfterConfirmation(entry[e], m)
    <2>1. e \in Entry /\ Open(e) /\ entry' = [entry EXCEPT ![e] = row]
      BY <1>1, ConfirmedEntry DEF Inv
    <2>2. Unscheduled' = m
      BY DEF Unscheduled
    <2> HIDE DEF m
    <2>3. entry[e] \in Row
      BY <1>1, <2>1, EntryRowType DEF Inv
    <2>4. /\ row.remaining = m
          /\ row.status = IF m = 0 THEN "resolved" ELSE entry[e].status
      BY <2>3 DEF AfterConfirmation, Row
    <2> HIDE DEF row
    <2>5. entry'[e] = row
      BY <1>1, <2>1 DEF Inv, BacklogTypeOK
    <2>6. Recalculated(p)
      BY <2>1, <2>2, <2>4, <2>5 DEF Open
    <2>7. Confirmed(p) /\ \A q \in Plan \ {p} : status'[q] = status[q]
      BY <1>1 DEF ConfirmLinked, UpdatePlan, Inv, RowTypes
    <2>8. QED
      BY <2>6, <2>7
  <1>2. ASSUME Inv, Next, NEW p \in Plan, Confirmed(p)
        PROVE  Recalculated(p)
    <2>1. ASSUME NEW q \in Plan, ConfirmLinked(q) PROVE Recalculated(p)
      BY <1>1, <1>2, <2>1
    <2>2. ASSUME NEW q \in Plan, ConfirmUnlinked(q) \/ Obsolete(q) PROVE FALSE
      BY <1>2, <2>2
      DEF ConfirmUnlinked, Confirm, Obsolete, UpdatePlan, Inv, RowTypes
    <2>3. ASSUME NEW g \in Group,
                 status' = [status EXCEPT ![<<g, 1>>] = "proposed"]
          PROVE  FALSE
      BY <1>2, <2>3 DEF Inv, RowTypes
    <2>4. ASSUME ApplyNext PROVE FALSE
      <3>1. ASSUME NEW q \in Plan, ApplyClaim(q) PROVE FALSE
        BY <1>2, <3>1 DEF ApplyClaim, UpdatePlan, Inv, RowTypes
      <3>2. ASSUME NEW q \in Plan, ApplySettles(q) PROVE FALSE
        BY <1>2, <3>2
        DEF ApplySettles, UpdatePlan, ResultingStatus, Inv, RowTypes
      <3>3. QED
        BY <1>2, <2>4, <3>1, <3>2
        DEF ApplyNext, ApplyStep, EventCreated, CallFails, SessionFails,
            MappingCommits, ApplyAbort, planVars
    <2>5. QED
      BY <1>2, <2>1, <2>2, <2>3, <2>4
      DEF Next, DraftUnlinked, DraftLinked, planVars
  <1>3. ASSUME Inv, Next, entry' # entry, status' # status
        PROVE  \E p \in Plan :
                 /\ status[p] = "proposed" /\ status'[p] = "confirmed"
                 /\ link[p] # NoEntry
    <2>1. PICK p \in Plan : ConfirmLinked(p)
      BY <1>3
      DEF Next, DraftUnlinked, DraftLinked, ConfirmUnlinked, planVars, backlogVars
    <2>2. QED
      BY <1>1, <1>3, <2>1
  <1>4. ASSUME Inv, UNCHANGED vars
        PROVE  UNCHANGED <<planVars, backlogVars>>
    BY <1>4 DEF vars
  <1>5. Inv /\ [Next]_vars =>
          [/\ entry' # entry /\ status' # status =>
                \E p \in Plan :
                  /\ status[p] = "proposed" /\ status'[p] = "confirmed"
                  /\ link[p] # NoEntry
           /\ \A p \in Plan :
                link[p] # NoEntry /\ status[p] = "proposed"
                  /\ status'[p] = "confirmed" =>
                  LET e == link[p] IN
                  /\ entry[e].status \in OPEN_BACKLOG_STATUSES
                  /\ entry'[e].remaining = Unscheduled'
                  /\ entry'[e].status = IF Unscheduled' = 0 THEN "resolved"
                                        ELSE entry[e].status
          ]_<<planVars, backlogVars>>
    BY <1>2, <1>3, <1>4
  <1>6. QED
    BY <1>5, SpecInv, PTL DEF Spec, RemainderIsRecalculated

-----------------------------------------------------------------------------
(* How the time that plans hold for the task changes.                      *)

Holds(p, k) ==
  /\ status[p] \in RESERVING_PLAN_STATUSES
  /\ session[p][k] \notin {"absent", "failed", "obsolete"}

LEMMA OneRowHolds ==
  ASSUME NEW p \in Plan, NEW K \in SUBSET Slot,
         \A q \in Plan \ {p} : status'[q] = status[q] /\ session'[q] = session[q],
         \A k \in Slot \ K : Holds(p, k)' => Holds(p, k)
  PROVE  Booked' \subseteq Booked \cup ({p} \X K)
  <1> SUFFICES ASSUME NEW q \in Plan, NEW k \in Slot, Holds(q, k)',
                      <<q, k>> \notin {p} \X K
               PROVE  Holds(q, k)
    BY DEF Booked, Holds
  <1>1. CASE q = p
    BY <1>1
  <1>2. CASE q # p
    BY <1>2 DEF Holds
  <1>3. QED
    BY <1>1, <1>2

LEMMA RowShrinks ==
  ASSUME NEW p \in Plan,
         \A q \in Plan \ {p} : status'[q] = status[q] /\ session'[q] = session[q],
         \A k \in Slot : Holds(p, k)' => Holds(p, k)
  PROVE  Booked' \subseteq Booked
  <1>1. Booked' \subseteq Booked \cup ({p} \X {})
    BY OneRowHolds
  <1>2. QED
    BY <1>1

(* Apply holds time it did not hold before only by claiming a plan again.  *)
LEMMA ApplyHoldsNoMore ==
  ASSUME Inv, ApplyNext,
         \A p \in Plan : ~ (status[p] = "partially_applied" /\ status'[p] = "applying")
  PROVE  Booked' \subseteq Booked
  <1> USE DEF Inv
  <1>1. ASSUME NEW p \in Plan, ApplyClaim(p) PROVE Booked' \subseteq Booked
    <2>1. /\ status'[p] = "applying"
          /\ \A q \in Plan \ {p} : status'[q] = status[q] /\ session'[q] = session[q]
          /\ session'[p] = ClaimedSessions(p)
      BY <1>1, UpdatedRow, ClaimedRow DEF ApplyClaim, PlanStatus
    <2>2. status[p] = "confirmed"
      BY <1>1, <2>1 DEF ApplyClaim
    <2>3. \A k \in Slot : session[p][k] \in {"absent", "confirmed"}
      BY <2>2 DEF RowAgrees
    <2>4. \A k \in Slot : Holds(p, k)' => Holds(p, k)
      BY <2>1, <2>2, <2>3, ClaimedRow DEF Holds, RESERVING_PLAN_STATUSES
    <2>5. QED
      BY <2>1, <2>4, RowShrinks
  <1>2. ASSUME NEW p \in Plan, ApplySettles(p) PROVE Booked' \subseteq Booked
    <2>1. status[p] = "applying"
      BY <1>2 DEF ApplySettles, RowAgrees
    <2>2. /\ \A q \in Plan \ {p} : status'[q] = status[q] /\ session'[q] = session[q]
          /\ session'[p] = session[p]
      BY <1>2 DEF ApplySettles, UpdatePlan, RowTypes
    <2>3. \A k \in Slot : Holds(p, k)' => Holds(p, k)
      BY <2>1, <2>2 DEF Holds, RESERVING_PLAN_STATUSES
    <2>4. QED
      BY <2>2, <2>3, RowShrinks
  <1>3. ASSUME NEW p \in Plan, NEW k \in Slot,
               SessionFails(p, k) \/ MappingCommits(p, k)
        PROVE  Booked' \subseteq Booked
    <2>1. status[p] = "applying" /\ session[p][k] = "applying" /\ status' = status
      BY <1>3 DEF SessionFails, MappingCommits, AtSession, RowAgrees
    <2>2. /\ \A q \in Plan \ {p} : session'[q] = session[q]
          /\ \A j \in Slot \ {k} : session'[p][j] = session[p][j]
      BY <1>3 DEF SessionFails, MappingCommits, RowTypes
    <2>3. \A j \in Slot : Holds(p, j)' => Holds(p, j)
      BY <2>1, <2>2 DEF Holds, RESERVING_PLAN_STATUSES
    <2>4. QED
      BY <2>1, <2>2, <2>3, RowShrinks
  <1>4. ASSUME UNCHANGED planVars PROVE Booked' \subseteq Booked
    BY <1>4 DEF Booked, planVars
  <1>5. QED
    BY <1>1, <1>2, <1>3, <1>4
    DEF ApplyNext, ApplyStep, EventCreated, CallFails, ApplyAbort

LEMMA DraftHoldsNothing ==
  ASSUME RowTypes, NEW p \in Plan, NEW slots \in SUBSET Slot, Drafted(p, slots)
  PROVE  Booked' \subseteq Booked
  <1>1. /\ \A q \in Plan \ {p} : status'[q] = status[q] /\ session'[q] = session[q]
        /\ status'[p] = "proposed"
    BY DEF Drafted, RowTypes
  <1>2. \A k \in Slot : ~ Holds(p, k)'
    BY <1>1 DEF Holds, RESERVING_PLAN_STATUSES
  <1>3. QED
    BY <1>1, <1>2, RowShrinks

LEMMA ObsoleteHoldsNothing ==
  ASSUME RowTypes, NEW p \in Plan, Obsolete(p)
  PROVE  Booked' \subseteq Booked
  <1>1. /\ \A q \in Plan \ {p} : status'[q] = status[q] /\ session'[q] = session[q]
        /\ status'[p] = "obsolete"
    BY DEF Obsolete, UpdatePlan, RowTypes
  <1>2. \A k \in Slot : ~ Holds(p, k)'
    BY <1>1 DEF Holds, RESERVING_PLAN_STATUSES
  <1>3. QED
    BY <1>1, <1>2, RowShrinks

(* A plan of the backlog is confirmed only if its sessions fit.            *)
LEMMA ConfirmLinkedFits ==
  ASSUME Inv, NEW p \in Plan, ConfirmLinked(p)
  PROVE  ~ Overbooked' \/ Booked' \subseteq Booked
  <1> DEFINE K == SessionsOf(p)
             S == {p} \X K
             B == Booked
             C == Booked'
  <1>1. K \in SUBSET Slot /\ Cardinality(K) <= Unscheduled
    BY DEF ConfirmLinked, SessionsOf
  <1>2. C \subseteq B \cup S
    <2>1. /\ \A q \in Plan \ {p} : status'[q] = status[q] /\ session'[q] = session[q]
          /\ session'[p] = AllSessions(session[p], "confirmed")
      BY DEF ConfirmLinked, UpdatePlan, Inv, RowTypes
    <2>2. \A k \in Slot \ K : session'[p][k] = "absent"
      BY <2>1 DEF AllSessions, SessionsOf
    <2>3. \A k \in Slot \ K : Holds(p, k)' => Holds(p, k)
      BY <2>2 DEF Holds
    <2> HIDE DEF K
    <2>4. QED
      BY <1>1, <2>1, <2>3, OneRowHolds
  <1>3. B \subseteq Plan \X Slot
    BY BookedType
  <1>4. duration \in Nat /\ duration' = duration
    BY BacklogBounds DEF Inv, BacklogTypeOK, Duration, ConfirmLinked
  <1>5. Unscheduled = Left(B) /\ (Overbooked' <=> Cardinality(C) > duration)
    BY <1>4 DEF Unscheduled, Overbooked
  <1> HIDE DEF K, B, C
  <1>6. IsFiniteSet(K) /\ Cardinality(K) \in Nat
    BY <1>1, FiniteAssumption, FS_Subset, FS_CardinalityType
  <1>7. IsFiniteSet({p}) /\ Cardinality({p}) = 1
    BY FS_Singleton
  <1>8. IsFiniteSet(S) /\ Cardinality(S) = Cardinality(K)
    BY <1>6, <1>7, FS_Product
  <1> HIDE DEF S
  <1>9. IsFiniteSet(B) /\ Cardinality(B) \in Nat
    BY <1>3, CountIsNat
  <1>10. /\ IsFiniteSet(B \cup S) /\ Cardinality(B \cap S) \in Nat
         /\ Cardinality(B \cup S) = Cardinality(B) + Cardinality(S) - Cardinality(B \cap S)
    <2>1. IsFiniteSet(B \cap S)
      BY <1>9, FS_Subset
    <2>2. QED
      BY <1>8, <1>9, <2>1, FS_Union, FS_CardinalityType
  <1>11. Cardinality(C) <= Cardinality(B \cup S) /\ Cardinality(C) \in Nat
    BY <1>2, <1>10, FS_Subset, FS_CardinalityType
  <1>12. Cardinality(C) <= Cardinality(B) + Cardinality(K)
    <2>1. Cardinality(B \cup S) <= Cardinality(B) + Cardinality(K)
      BY <1>6, <1>8, <1>9, <1>10
    <2>2. Cardinality(B \cup S) \in Int
      BY <1>6, <1>8, <1>9, <1>10
    <2>3. QED
      BY <1>6, <1>9, <1>11, <2>1, <2>2
  <1>13. CASE Cardinality(B) < duration
    <2>1. Cardinality(K) <= duration - Cardinality(B)
      BY <1>1, <1>5, <1>13 DEF Left
    <2>2. Cardinality(C) <= duration
      BY <1>4, <1>6, <1>9, <1>11, <1>12, <2>1
    <2>3. QED
      BY <1>4, <1>5, <1>11, <2>2
  <1>14. CASE ~ (Cardinality(B) < duration)
    <2>1. Cardinality(K) = 0
      BY <1>1, <1>5, <1>6, <1>14 DEF Left
    <2>2. S = {}
      BY <1>8, <2>1, FS_EmptySet
    <2>3. QED
      BY <1>2, <2>2 DEF B, C
  <1>15. QED
    BY <1>13, <1>14

-----------------------------------------------------------------------------
Outsider ==
  \E p \in Plan :
    \/ status[p] = "proposed" /\ status'[p] = "confirmed" /\ link[p] = NoEntry
    \/ status[p] = "partially_applied" /\ status'[p] = "applying"

LEMMA WhoOverbooks ==
  ASSUME Inv, Next, Overbooked', ~ (Booked' \subseteq Booked)
  PROVE  Outsider
  <1> USE DEF Inv
  <1>1. ASSUME NEW p \in Plan, NEW slots \in SUBSET Slot, Drafted(p, slots)
        PROVE  FALSE
    BY <1>1, DraftHoldsNothing
  <1>2. ASSUME NEW g \in Group, NEW k \in ClientKey, NEW slots \in SUBSET Slot,
               DraftUnlinked(g, k, slots)
        PROVE  FALSE
    BY <1>1, <1>2, NewGroupRow DEF DraftUnlinked, Drafted, applyVars
  <1>3. ASSUME NEW e \in Entry, NEW g \in Group, NEW slots \in SUBSET Slot,
               DraftLinked(e, g, slots), UNCHANGED applyVars
        PROVE  FALSE
    BY <1>1, <1>3, NewGroupRow DEF DraftLinked, Drafted, applyVars
  <1>4. ASSUME NEW p \in Plan, Obsolete(p) PROVE FALSE
    BY <1>4, ObsoleteHoldsNothing
  <1>5. CASE ApplyNext
    BY <1>5, ApplyHoldsNoMore DEF Outsider
  <1>6. ASSUME UNCHANGED planVars PROVE FALSE
    BY <1>6 DEF planVars, Booked
  <1>7. ASSUME NEW p \in Plan, ConfirmLinked(p) PROVE FALSE
    BY <1>7, ConfirmLinkedFits
  <1>8. ASSUME NEW p \in Plan, ConfirmUnlinked(p) PROVE Outsider
    <2>1. status[p] = "proposed" /\ status'[p] = "confirmed" /\ link[p] = NoEntry
      BY <1>8 DEF ConfirmUnlinked, Confirm, UpdatePlan, RowTypes
    <2>2. QED
      BY <2>1 DEF Outsider
  <1>9. QED
    BY <1>2, <1>3, <1>4, <1>5, <1>6, <1>7, <1>8 DEF Next

Outgrows(e) == Outgrown(e)' /\ ~ Outgrown(e)

Shortened(e) ==
  \/ duration' < duration
  \/ entry[e] = Absent /\ \E r \in FileRequest : filing[r] > duration

LEMMA WhoOutgrows ==
  ASSUME Inv, Next, NEW e \in Entry, Outgrows(e)
  PROVE  Shortened(e)
  <1> USE DEF Inv
  <1>1. entry[e] \in Row /\ duration \in Nat /\ duration' \in Nat
    BY NextInv, EntryRowType, BacklogBounds DEF BacklogTypeOK, Duration
  <1>2. ASSUME entry'[e] = entry[e], duration' = duration PROVE FALSE
    BY <1>2 DEF Outgrows, Outgrown, Open, Fits
  <1>3. ASSUME NEW f \in Entry, NEW row, entry' = [entry EXCEPT ![f] = row],
               duration' = duration
        PROVE  f = e /\ entry'[e] = row
    <2>1. CASE f = e
      BY <1>3, <2>1 DEF BacklogTypeOK
    <2>2. CASE f # e
      BY <1>2, <1>3, <2>2 DEF BacklogTypeOK
    <2>3. QED
      BY <2>1, <2>2
  <1>4. ASSUME NEW f \in Entry, NEW row \in Row, entry' = [entry EXCEPT ![f] = row],
               duration' = duration, row.remaining <= duration
        PROVE  FALSE
    BY <1>3, <1>4 DEF Outgrows, Outgrown, Fits
  <1>5. ASSUME NEW d \in Duration, EditTask(d) PROVE Shortened(e)
    <2>1. d \in Nat /\ d # duration /\ duration' = d /\ entry' = entry
      BY <1>1, <1>5 DEF EditTask
    <2>2. ~ (duration < d)
      BY <1>1, <2>1 DEF Outgrows, Outgrown, Open, Fits, Row
    <2>3. QED
      BY <1>1, <2>1, <2>2 DEF Shortened
  <1>6. ASSUME NEW r \in FileRequest, FileInsert(r) PROVE Shortened(e)
    <2> DEFINE row == [Absent EXCEPT !.status = "active", !.remaining = filing[r]]
    <2>1. PICK f \in Entry : entry[f] = Absent /\ entry' = [entry EXCEPT ![f] = row]
      BY <1>6 DEF FileInsert
    <2>2. row.remaining = filing[r] /\ duration' = duration
      BY <1>6 DEF Absent, FileInsert
    <2> HIDE DEF row
    <2>3. f = e /\ entry'[e] = row
      BY <1>3, <2>1, <2>2
    <2>4. filing[r] > duration
      BY <1>1, <2>2, <2>3 DEF Outgrows, Outgrown, Fits, BacklogTypeOK
    <2>5. QED
      BY <2>1, <2>3, <2>4 DEF Shortened
  <1>7. ASSUME NEW f \in Entry, Defer(f) \/ Reactivate(f) PROVE FALSE
    <2>1. PICK s \in {"active", "deferred"} : entry' = [entry EXCEPT ![f].status = s]
      BY <1>7 DEF Defer, Reactivate
    <2>2. entry'[f].remaining = entry[f].remaining
      BY <2>1, EntryRowType DEF BacklogTypeOK
    <2>3. Fits(f) /\ duration' = duration
      BY <1>7 DEF Defer, Reactivate
    <2>4. \A g \in Entry \ {f} : entry'[g] = entry[g]
      BY <2>1 DEF BacklogTypeOK
    <2>5. QED
      BY <1>2, <2>2, <2>3, <2>4 DEF Outgrows, Outgrown, Fits
  <1>8. ASSUME NEW f \in Entry, Preview(f) PROVE FALSE
    <2>1. /\ entry' = [entry EXCEPT ![f].attempts = entry[f].attempts + 1]
          /\ Fits(f) /\ duration' = duration
      BY <1>8 DEF Preview
    <2>2. entry'[f].remaining = entry[f].remaining
      BY <2>1, EntryRowType DEF BacklogTypeOK
    <2>3. \A g \in Entry \ {f} : entry'[g] = entry[g]
      BY <2>1 DEF BacklogTypeOK
    <2>4. QED
      BY <1>2, <2>1, <2>2, <2>3 DEF Outgrows, Outgrown, Fits
  <1>9. ASSUME NEW f \in Entry, NEW s \in {"resolved", "cancelled"}, Close(f, s)
        PROVE  FALSE
    <2> DEFINE row == [entry[f] EXCEPT !.status = s, !.remaining = 0]
    <2>1. row.status = s
      BY EntryRowType, ClosedRow
    <2>2. entry' = [entry EXCEPT ![f] = row] /\ duration' = duration
      BY <1>9 DEF Close
    <2> HIDE DEF row
    <2>3. f = e /\ entry'[e] = row
      BY <1>3, <2>2
    <2>4. QED
      BY <2>1, <2>3 DEF Outgrows, Outgrown, Open, OPEN_BACKLOG_STATUSES
  <1>10. ASSUME NEW p \in Plan, ConfirmLinked(p) PROVE FALSE
    <2> DEFINE f   == link[p]
               m   == Left(Booked)'
               row == AfterConfirmation(entry[f], m)
    <2>1. /\ f \in Entry /\ Open(f) /\ m \in 0 .. duration
          /\ entry' = [entry EXCEPT ![f] = row]
      BY <1>10, ConfirmedEntry
    <2>2. duration' = duration
      BY <1>10 DEF ConfirmLinked
    <2> HIDE DEF m
    <2>3. entry[f] \in Row
      BY <2>1, EntryRowType
    <2>4. row.remaining = m
      BY <2>3 DEF AfterConfirmation, Row
    <2> HIDE DEF row
    <2>5. f = e /\ entry'[e] = row
      BY <1>3, <2>1, <2>2
    <2>6. QED
      BY <1>1, <2>1, <2>2, <2>4, <2>5 DEF Outgrows, Outgrown, Fits
  <1>11. QED
    BY <1>2, <1>5, <1>6, <1>7, <1>8, <1>9, <1>10
    DEF Next, DraftUnlinked, DraftLinked, EntryNext, FileRead, FileAnswer,
        ConfirmUnlinked, backlogVars

(* Drafts, previews and confirmations of the backlog never promise more    *)
(* work than the task has, and an open entry outgrows its task only when   *)
(* the task is made shorter, then or while the entry is being filed.       *)
THEOREM OnlyOutsidersOverbookTheorem == Spec => OnlyOutsidersOverbook
  <1>1. Inv /\ [Next]_vars =>
          [/\ Overbooked' /\ ~ (Booked' \subseteq Booked) =>
                \E p \in Plan :
                  \/ status[p] = "proposed" /\ status'[p] = "confirmed" /\ link[p] = NoEntry
                  \/ status[p] = "partially_applied" /\ status'[p] = "applying"
           /\ \A e \in Entry : Outgrown(e)' /\ ~ Outgrown(e) =>
                \/ duration' < duration
                \/ entry[e] = Absent /\ \E r \in FileRequest : filing[r] > duration
          ]_vars
    BY WhoOverbooks, WhoOutgrows DEF Outsider, Outgrows, Shortened
  <1>2. QED
    BY <1>1, SpecInv, PTL DEF Spec, OnlyOutsidersOverbook

(* The tables keep their types, an entry has work left exactly as long as  *)
(* it is open.                                                             *)
THEOREM BacklogTypeCorrect == Spec => []BacklogTypeOK
  <1>1. Inv => BacklogTypeOK
    BY DEF Inv
  <1>2. QED
    BY <1>1, SpecInv, PTL
=============================================================================
