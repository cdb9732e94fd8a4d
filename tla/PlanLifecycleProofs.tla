-------------------------- MODULE PlanLifecycleProofs --------------------------
(***************************************************************************)
(* Proofs about what revalidation may rely on when it locks a plan again   *)
(* after the await, about the audit rows it leaves, and that the plan      *)
(* subsystem implements PlanLifecycle, for every value of the constants.   *)
(***************************************************************************)
EXTENDS SchedulePlanSystemProofs

USE DEF Successor, Supersedes

(* What a request in flight read: the clock never goes back, and while it  *)
(* has not moved the status is the one that was read.                      *)
SnapshotHolds(r) ==
  InFlight(r) =>
    LET p == reval[r].plan IN
      /\ reval[r].updates <= updates[p]
      /\ reval[r].updates = updates[p] => status[p] = reval[r].before

(* StatusAgreesWithAudits, and that a plan nobody could revalidate has no  *)
(* verdict: confirmation relies on it.                                     *)
VerdictAgrees(p) ==
  /\ status[p] \in {"absent", "proposed"} => verdict[p] = "none"
  /\ status[p] = "confirmed" => verdict[p] \in {"none", "valid"}
  /\ status[p] = "revalidation_required" =>
       verdict[p] \in {"conflict", "provider_partial_failure"}

RevalInv == /\ Inv
            /\ \A r \in RevalidateRequest : SnapshotHolds(r)
            /\ \A p \in Plan : VerdictAgrees(p)

LEMMA RowTypes ==
  ASSUME Inv
  PROVE  /\ status \in [Plan -> PlanStatus \cup {"absent"}]
         /\ updates \in [Plan -> Nat]
         /\ reval \in [RevalidateRequest -> Reval]
         /\ audit \in [RevalidateRequest -> Audit \cup {NoAudit}]
         /\ verdict \in [Plan -> {"none", "valid", "conflict",
                                  "provider_partial_failure"}]
  BY DEF Inv, PlanInv, TypeOK, RevalTypeOK

-----------------------------------------------------------------------------
(* How one row moves.  CASE's arms are disjoint because the new version    *)
(* is not the version it supersedes.                                       *)

(* The row is as it was, or its clock has ticked, or it was inserted.      *)
RowTicks(p) ==
  \/ status'[p] = status[p] /\ updates'[p] \in {updates[p], updates[p] + 1}
  \/ updates'[p] = updates[p] + 1
  \/ updates'[p] = updates[p] /\ ~ Exists(p)

(* What others than revalidation make of a status.                         *)
PlainMove(p) ==
  \/ status'[p] = status[p]
  \/ status[p] = "absent" /\ status'[p] = "proposed"
  \/ status[p] = "proposed" /\ status'[p] = "confirmed"
  \/ status'[p] \in {"obsolete", "applying", "applied", "partially_applied",
                     "failed"}

LEMMA UpdatedRow ==
  ASSUME Inv, NEW p \in Plan, NEW q \in Plan, NEW s, NEW sessions,
         UpdatePlan(q, s, sessions)
  PROVE  /\ p = q => status'[p] = s /\ updates'[p] = updates[p] + 1
         /\ p # q => status'[p] = status[p] /\ updates'[p] = updates[p]
  BY RowTypes DEF UpdatePlan

LEMMA PlanNextRow ==
  ASSUME Inv, PlanNext, NEW p \in Plan
  PROVE  RowTicks(p) /\ PlainMove(p)
  <1>1. ASSUME NEW r \in CreateRequest, CreateCommit(r)
        PROVE  RowTicks(p) /\ PlainMove(p)
    <2> DEFINE c          == creation[r]
               old        == <<c.group, c.previous>>
               new        == <<c.group, c.previous + 1>>
               superseded == Supersedes(c.group, c.previous)
    <2>1. /\ status'[p] = CASE p = new -> "proposed"
                            [] p = old /\ superseded -> "obsolete"
                            [] OTHER -> status[p]
          /\ updates'[p] = IF p = old /\ superseded THEN updates[p] + 1
                           ELSE updates[p]
      BY <1>1 DEF CreateCommit
    <2>2. new # old /\ status[new] = "absent"
      BY <1>1 DEF CreateCommit, Collides, Exists, Inv, PlanInv, TypeOK, Creation
    <2>3. CASE p = new
      <3>1. status'[p] = "proposed" /\ updates'[p] = updates[p] /\ status[p] = "absent"
        BY <2>1, <2>2, <2>3
      <3>2. QED
        BY <3>1 DEF RowTicks, PlainMove, Exists
    <2>4. CASE p # new /\ p = old /\ superseded
      <3>1. status'[p] = "obsolete" /\ updates'[p] = updates[p] + 1
        BY <2>1, <2>4
      <3>2. QED
        BY <3>1 DEF RowTicks, PlainMove
    <2>5. CASE p # new /\ ~ (p = old /\ superseded)
      <3>1. status'[p] = status[p] /\ updates'[p] = updates[p]
        BY <2>1, <2>5
      <3>2. QED
        BY <3>1 DEF RowTicks, PlainMove
    <2>6. QED
      BY <2>3, <2>4, <2>5
  <1>2. ASSUME NEW q \in Plan, Confirm(q) \/ Obsolete(q)
        PROVE  RowTicks(p) /\ PlainMove(p)
    <2>1. CASE Confirm(q)
      <3>1. /\ p = q => status'[p] = "confirmed" /\ updates'[p] = updates[p] + 1
            /\ p # q => status'[p] = status[p] /\ updates'[p] = updates[p]
        BY <2>1, UpdatedRow DEF Confirm
      <3>2. QED
        BY <2>1, <3>1 DEF Confirm, RowTicks, PlainMove
    <2>2. CASE Obsolete(q)
      <3>1. /\ p = q => status'[p] = "obsolete" /\ updates'[p] = updates[p] + 1
            /\ p # q => status'[p] = status[p] /\ updates'[p] = updates[p]
        BY <2>2, UpdatedRow DEF Obsolete
      <3>2. QED
        BY <3>1 DEF RowTicks, PlainMove
    <2>3. QED
      BY <1>2, <2>1, <2>2
  <1>3. ASSUME UNCHANGED planRows
        PROVE  RowTicks(p) /\ PlainMove(p)
    BY <1>3 DEF planRows, RowTicks, PlainMove
  <1>4. QED
    BY <1>1, <1>2, <1>3
    DEF PlanNext, CreateReplay, CreateMiss, CreateRead, CreateRefused,
        CreateRollback

LEMMA ApplyNextRow ==
  ASSUME Inv, ApplyNext, NEW p \in Plan
  PROVE  RowTicks(p) /\ PlainMove(p)
  <1>1. ASSUME NEW q \in Plan, ApplyClaim(q)
        PROVE  RowTicks(p) /\ PlainMove(p)
    <2>1. /\ p = q => status'[p] = "applying" /\ updates'[p] = updates[p] + 1
          /\ p # q => status'[p] = status[p] /\ updates'[p] = updates[p]
      BY <1>1, UpdatedRow DEF ApplyClaim
    <2>2. QED
      BY <2>1 DEF RowTicks, PlainMove
  <1>2. ASSUME NEW q \in Plan, ApplySettles(q)
        PROVE  RowTicks(p) /\ PlainMove(p)
    <2>1. /\ p = q => status'[p] = ResultingStatus(q)
                      /\ updates'[p] = updates[p] + 1
          /\ p # q => status'[p] = status[p] /\ updates'[p] = updates[p]
      BY <1>2, UpdatedRow DEF ApplySettles
    <2>2. QED
      BY <2>1 DEF RowTicks, PlainMove, ResultingStatus
  <1>3. ASSUME UNCHANGED <<status, updates>>
        PROVE  RowTicks(p) /\ PlainMove(p)
    BY <1>3 DEF RowTicks, PlainMove
  <1>4. QED
    BY <1>1, <1>2, <1>3
    DEF ApplyNext, ApplyStep, EventCreated, CallFails, SessionFails,
        MappingCommits, ApplyAbort, planVars

(* What a commit does, in terms of the plan q it is about.                 *)
LEMMA CommitRow ==
  ASSUME Inv, NEW r \in RevalidateRequest, RevalidateCommit(r)
  PROVE  LET q     == reval[r].plan
             after == StatusAfter(status[q], Result(r))
         IN  /\ q \in Plan /\ InFlight(r)
             /\ status[q] \in ELIGIBLE_REVALIDATION_STATUSES
             /\ updates[q] = reval[r].updates
             /\ status'[q] = after
             /\ updates'[q] = IF after = status[q] THEN updates[q]
                              ELSE updates[q] + 1
             /\ \A p \in Plan \ {q} :
                  status'[p] = status[p] /\ updates'[p] = updates[p]
  <1> DEFINE q     == reval[r].plan
             after == StatusAfter(status[q], Result(r))
  <1>1. q \in Plan /\ InFlight(r)
    BY DEF RevalidateCommit, Inv, RevalsHavePlans, InFlight
  <1>2. /\ status[q] \in ELIGIBLE_REVALIDATION_STATUSES
        /\ updates[q] = reval[r].updates
        /\ IF after = status[q] THEN UNCHANGED <<status, session, updates>>
           ELSE UpdatePlan(q, after, session[q])
    BY DEF RevalidateCommit, PlanChanged
  <1> HIDE DEF after
  <1>3. \A p \in Plan :
          /\ p = q => /\ status'[p] = after
                      /\ updates'[p] = IF after = status[q] THEN updates[q]
                                       ELSE updates[q] + 1
          /\ p # q => status'[p] = status[p] /\ updates'[p] = updates[p]
    <2>1. CASE after = status[q]
      BY <1>2, <2>1
    <2>2. CASE after # status[q]
      BY <1>1, <1>2, <2>2, UpdatedRow
    <2>3. QED
      BY <2>1, <2>2
  <1>4. QED
    BY <1>1, <1>2, <1>3 DEF after

LEMMA RevalNextRow ==
  ASSUME Inv, RevalNext, NEW p \in Plan
  PROVE  RowTicks(p)
  <1>1. ASSUME NEW r \in RevalidateRequest, RevalidateCommit(r)
        PROVE  RowTicks(p)
    BY <1>1, CommitRow DEF RowTicks
  <1>2. ASSUME UNCHANGED planVars
        PROVE  RowTicks(p)
    BY <1>2 DEF planVars, RowTicks
  <1>3. QED
    BY <1>1, <1>2
    DEF RevalNext, RevalidateReplay, RevalidateBegin, ProviderAnswers,
        RevalidateRejected, RevalidateDuplicate, RevalidateAbort

-----------------------------------------------------------------------------
(* A snapshot whose request does not move survives any step of a row.      *)
LEMMA SnapshotSurvives ==
  ASSUME Inv, NEW r \in RevalidateRequest, SnapshotHolds(r),
         InFlight(r)' => /\ InFlight(r)
                         /\ reval'[r].plan = reval[r].plan
                         /\ reval'[r].updates = reval[r].updates
                         /\ reval'[r].before = reval[r].before,
         \A p \in Plan : RowTicks(p)
  PROVE  SnapshotHolds(r)'
  <1> SUFFICES ASSUME InFlight(r)' PROVE SnapshotHolds(r)'
    BY DEF SnapshotHolds
  <1> DEFINE p == reval[r].plan
  <1>1. p \in Plan /\ reval[r].updates \in Nat /\ reval[r].before \in PlanStatus
    BY RowTypes DEF Inv, RevalsHavePlans, Reval
  <1>2. /\ reval[r].updates <= updates[p]
        /\ reval[r].updates = updates[p] => status[p] = reval[r].before
    BY DEF SnapshotHolds
  <1>3. RowTicks(p) /\ updates[p] \in Nat
    BY <1>1, RowTypes
  <1>4. /\ reval[r].updates <= updates'[p]
        /\ reval[r].updates = updates'[p] => status'[p] = reval[r].before
    BY <1>1, <1>2, <1>3 DEF RowTicks, Exists, PlanStatus
  <1>5. QED
    BY <1>4 DEF SnapshotHolds

LEMMA RevalNextSnapshots ==
  ASSUME RevalInv, RevalNext, NEW r \in RevalidateRequest
  PROVE  SnapshotHolds(r)'
  <1> USE DEF RevalInv
  <1>1. \A p \in Plan : RowTicks(p)
    BY RevalNextRow
  <1>2. ASSUME NEW p \in Plan, NEW id \in RequestId \cup {NoRequestId},
               NEW internal \in BOOLEAN, RevalidateBegin(r, p, id, internal)
        PROVE  SnapshotHolds(r)'
    <2>1. /\ reval'[r].plan = p /\ reval'[r].updates = updates[p]
          /\ reval'[r].before = status[p]
      BY <1>2, RowTypes DEF RevalidateBegin
    <2>2. updates'[p] = updates[p] /\ status'[p] = status[p] /\ updates[p] \in Nat
      BY <1>2, RowTypes DEF RevalidateBegin, planVars
    <2>3. QED
      BY <2>1, <2>2 DEF SnapshotHolds
  <1>3. CASE InFlight(r)' => /\ InFlight(r)
                             /\ reval'[r].plan = reval[r].plan
                             /\ reval'[r].updates = reval[r].updates
                             /\ reval'[r].before = reval[r].before
    BY <1>1, <1>3, SnapshotSurvives
  <1>4. ASSUME NEW s \in RevalidateRequest, NEW p \in Plan,
               NEW id \in RequestId \cup {NoRequestId}, NEW internal \in BOOLEAN,
               RevalidateBegin(s, p, id, internal)
        PROVE  SnapshotHolds(r)'
    <2>1. CASE r = s
      BY <1>2, <1>4, <2>1
    <2>2. CASE r # s
      <3>1. reval'[r] = reval[r]
        BY <1>4, <2>2, RowTypes DEF RevalidateBegin
      <3>2. QED
        BY <1>3, <3>1 DEF InFlight
    <2>3. QED
      BY <2>1, <2>2
  <1>5. ASSUME NEW s \in RevalidateRequest,
               \/ \E p \in Plan, id \in RequestId : RevalidateReplay(s, p, id)
               \/ ProviderAnswers(s) \/ RevalidateRejected(s)
               \/ RevalidateCommit(s) \/ RevalidateDuplicate(s)
               \/ RevalidateAbort(s)
        PROVE  SnapshotHolds(r)'
    <2>1. CASE ProviderAnswers(s)
      <3>1. InFlight(r)' => /\ InFlight(r)
                            /\ reval'[r].plan = reval[r].plan
                            /\ reval'[r].updates = reval[r].updates
                            /\ reval'[r].before = reval[r].before
        BY <2>1, RowTypes DEF ProviderAnswers, InFlight, Reval
      <3>2. QED
        BY <1>3, <3>1
    <2>2. CASE ~ ProviderAnswers(s)
      <3>1. PICK p, id : Returns(s, p, id)
        BY <1>5, <2>2
        DEF RevalidateReplay, RevalidateRejected, RevalidateCommit,
            RevalidateDuplicate, RevalidateAbort
      <3>2. /\ \A t \in RevalidateRequest \ {s} : reval'[t] = reval[t]
            /\ reval'[s].pc = "done"
        BY <3>1, RowTypes DEF Returns, Arrived
      <3>3. QED
        BY <1>3, <3>2 DEF InFlight
    <2>3. QED
      BY <2>1, <2>2
  <1>6. QED
    BY <1>4, <1>5 DEF RevalNext

-----------------------------------------------------------------------------
LEMMA PlainVerdicts ==
  ASSUME RevalInv, UNCHANGED verdict, NEW p \in Plan, PlainMove(p)
  PROVE  VerdictAgrees(p)'
  BY DEF RevalInv, VerdictAgrees, PlainMove

LEMMA RevalNextVerdicts ==
  ASSUME RevalInv, RevalNext, NEW p \in Plan
  PROVE  VerdictAgrees(p)'
  <1> USE DEF RevalInv
  <1>1. ASSUME NEW r \in RevalidateRequest, RevalidateCommit(r)
        PROVE  VerdictAgrees(p)'
    <2> DEFINE q      == reval[r].plan
               result == Result(r)
    <2>1. /\ q \in Plan
          /\ status[q] \in ELIGIBLE_REVALIDATION_STATUSES
          /\ status'[q] = StatusAfter(status[q], result)
          /\ p # q => status'[p] = status[p]
      BY <1>1, CommitRow
    <2>2. result \in AuditResult
      BY ResultType
    <2>3. verdict' = IF result = "provider_failure" THEN verdict
                     ELSE [verdict EXCEPT ![q] = result]
      BY <1>1 DEF RevalidateCommit
    <2> HIDE DEF q, result
    <2>4. CASE p # q
      <3>1. verdict'[p] = verdict[p]
        BY <2>3, <2>4, RowTypes
      <3>2. QED
        BY <2>1, <2>4, <3>1 DEF VerdictAgrees
    <2>5. CASE p = q
      <3>1. verdict'[q] = IF result = "provider_failure" THEN verdict[q] ELSE result
        BY <2>1, <2>3, RowTypes
      <3>2. QED
        BY <2>1, <2>2, <2>5, <3>1
        DEF VerdictAgrees, StatusAfter, AuditResult,
            ELIGIBLE_REVALIDATION_STATUSES
    <2>6. QED
      BY <2>4, <2>5
  <1>2. ASSUME UNCHANGED planVars, UNCHANGED verdict
        PROVE  VerdictAgrees(p)'
    BY <1>2 DEF planVars, VerdictAgrees
  <1>3. QED
    BY <1>1, <1>2
    DEF RevalNext, RevalidateReplay, RevalidateBegin, ProviderAnswers,
        RevalidateRejected, RevalidateDuplicate, RevalidateAbort

-----------------------------------------------------------------------------
LEMMA InitRevalInv == Init => RevalInv
  <1> SUFFICES ASSUME Init PROVE RevalInv
    OBVIOUS
  <1>1. \A r \in RevalidateRequest : reval[r].pc = "new"
    BY DEF Init, RevalInit, Arrived
  <1>2. \A p \in Plan : verdict[p] = "none" /\ status[p] = "absent"
    BY DEF Init, RevalInit, PlanInit
  <1>3. QED
    BY <1>1, <1>2, InitInv
    DEF RevalInv, SnapshotHolds, InFlight, VerdictAgrees

LEMMA NextRevalInv == RevalInv /\ [Next]_vars => RevalInv'
  <1> SUFFICES ASSUME RevalInv, [Next]_vars PROVE RevalInv'
    OBVIOUS
  <1> USE DEF RevalInv
  <1>1. Inv'
    BY NextInv
  <1>2. ASSUME UNCHANGED revalVars,
               \A p \in Plan : RowTicks(p) /\ PlainMove(p)
        PROVE  RevalInv'
    <2>1. ASSUME NEW r \in RevalidateRequest PROVE SnapshotHolds(r)'
      BY <1>2, SnapshotSurvives DEF revalVars, InFlight
    <2>2. ASSUME NEW p \in Plan PROVE VerdictAgrees(p)'
      BY <1>2, PlainVerdicts DEF revalVars
    <2>3. QED
      BY <1>1, <2>1, <2>2
  <1>3. CASE PlanNext /\ UNCHANGED <<revalVars, applyVars>>
    BY <1>2, <1>3, PlanNextRow
  <1>4. CASE RevalNext /\ UNCHANGED applyVars
    BY <1>1, <1>4, RevalNextSnapshots, RevalNextVerdicts
  <1>5. CASE ApplyNext /\ UNCHANGED revalVars
    BY <1>2, <1>5, ApplyNextRow
  <1>6. CASE UNCHANGED vars
    BY <1>2, <1>6 DEF vars, planVars, RowTicks, PlainMove
  <1>7. QED
    BY <1>3, <1>4, <1>5, <1>6 DEF Next

LEMMA SpecRevalInv == Spec => []RevalInv
  <1>1. QED
    BY InitRevalInv, NextRevalInv, PTL DEF Spec

(* The updated_at that revalidate_plan compares under the row lock covers  *)
(* the status it read before the await.                                    *)
THEOREM TimestampCoversStatusTheorem == Spec => []TimestampCoversStatus
  <1>1. RevalInv => TimestampCoversStatus
    BY DEF RevalInv, SnapshotHolds, TimestampCoversStatus
  <1>2. QED
    BY <1>1, SpecRevalInv, PTL

(* The status of an eligible plan is the one its last decisive audit gave. *)
THEOREM StatusAgreesWithAuditsTheorem == Spec => []StatusAgreesWithAudits
  <1>1. RevalInv => StatusAgreesWithAudits
    BY DEF RevalInv, VerdictAgrees, StatusAgreesWithAudits
  <1>2. QED
    BY <1>1, SpecRevalInv, PTL

(* Only a commit writes an audit row, its own.                             *)
LEMMA AuditStep ==
  ASSUME Inv, [Next]_vars, NEW r \in RevalidateRequest, audit'[r] # audit[r]
  PROVE  RevalidateCommit(r) /\ UNCHANGED applyVars
  <1>1. PICK s \in RevalidateRequest : RevalidateCommit(s) /\ UNCHANGED applyVars
    BY DEF Next, vars, revalVars, RevalNext, RevalidateReplay, RevalidateBegin,
           ProviderAnswers, RevalidateRejected, RevalidateDuplicate,
           RevalidateAbort
  <1>2. r = s
    BY <1>1, RowTypes DEF RevalidateCommit
  <1>3. QED
    BY <1>1, <1>2

(* revalidate_plan stores the status it read before the await as           *)
(* plan_status_before: it is the status the row has when the row is        *)
(* locked, whatever others committed meanwhile.                            *)
THEOREM AuditsAreTruthfulTheorem == Spec => AuditsAreTruthful
  <1>1. ASSUME RevalInv, [Next]_vars, NEW r \in RevalidateRequest,
               audit'[r] # audit[r]
        PROVE  /\ status[reval[r].plan] = audit'[r].before
               /\ status'[reval[r].plan] = audit'[r].after
    <2>1. RevalidateCommit(r)
      BY <1>1, AuditStep DEF RevalInv
    <2>2. /\ audit'[r].before = reval[r].before
          /\ audit'[r].after =
               StatusAfter(status[reval[r].plan], Result(r))
      BY <1>1, <2>1, RowTypes DEF RevalidateCommit, RevalInv
    <2>3. /\ InFlight(r) /\ updates[reval[r].plan] = reval[r].updates
          /\ status'[reval[r].plan] =
               StatusAfter(status[reval[r].plan], Result(r))
      BY <1>1, <2>1, CommitRow DEF RevalInv
    <2>4. status[reval[r].plan] = reval[r].before
      BY <1>1, <2>3 DEF RevalInv, SnapshotHolds
    <2>5. QED
      BY <2>2, <2>3, <2>4
  <1>2. RevalInv /\ [Next]_vars =>
          [\A r \in RevalidateRequest :
             audit'[r] # audit[r] =>
               /\ status[reval[r].plan] = audit'[r].before
               /\ status'[reval[r].plan] = audit'[r].after]_<<status, audit, reval>>
    BY <1>1
  <1>3. QED
    BY <1>2, SpecRevalInv, PTL DEF Spec, AuditsAreTruthful

-----------------------------------------------------------------------------
(* The plan of a request that was overtaken has a younger timestamp than   *)
(* the one the request read.                                               *)
OvertakenIsOutdated(r) ==
  /\ r \in RevalidateRequest
  /\ InFlight(r)
  /\ reval[r].updates < updates[reval[r].plan]

HistoryInv == RevalInv /\ \A r \in overtaken : OvertakenIsOutdated(r)

LEMMA NextRow ==
  ASSUME Inv, [Next]_vars, NEW p \in Plan
  PROVE  RowTicks(p)
  <1>1. CASE PlanNext /\ UNCHANGED <<revalVars, applyVars>>
    BY <1>1, PlanNextRow
  <1>2. CASE RevalNext /\ UNCHANGED applyVars
    BY <1>2, RevalNextRow
  <1>3. CASE ApplyNext /\ UNCHANGED revalVars
    BY <1>3, ApplyNextRow
  <1>4. CASE UNCHANGED vars
    BY <1>4 DEF vars, planVars, RowTicks
  <1>5. QED
    BY <1>1, <1>2, <1>3, <1>4 DEF Next

(* A request that stays in flight keeps what it read.                      *)
LEMMA StaysInFlight ==
  ASSUME Inv, [Next]_vars, NEW r \in RevalidateRequest,
         InFlight(r), InFlight(r)'
  PROVE  /\ reval'[r].plan = reval[r].plan
         /\ reval'[r].updates = reval[r].updates
  <1>1. CASE reval' = reval
    BY <1>1
  <1>2. ASSUME NEW s \in RevalidateRequest, NEW p, NEW id, Returns(s, p, id)
        PROVE  reval'[r] = reval[r]
    BY <1>2, RowTypes DEF Returns, Arrived, InFlight
  <1>3. ASSUME NEW s \in RevalidateRequest, NEW p, NEW id, NEW internal,
               RevalidateBegin(s, p, id, internal)
        PROVE  reval'[r] = reval[r]
    BY <1>3, RowTypes DEF RevalidateBegin, InFlight
  <1>4. ASSUME NEW s \in RevalidateRequest, ProviderAnswers(s)
        PROVE  /\ reval'[r].plan = reval[r].plan
               /\ reval'[r].updates = reval[r].updates
    BY <1>4, RowTypes DEF ProviderAnswers, Reval
  <1>5. QED
    BY <1>1, <1>2, <1>3, <1>4
    DEF Next, vars, revalVars, RevalNext, RevalidateReplay, RevalidateRejected,
        RevalidateCommit, RevalidateDuplicate, RevalidateAbort

LEMMA NextHistoryInv == HistoryInv /\ [Next]_vars => HistoryInv'
  <1> SUFFICES ASSUME HistoryInv, [Next]_vars PROVE HistoryInv'
    OBVIOUS
  <1>1. RevalInv /\ Inv /\ [Next]_vars
    BY DEF HistoryInv, RevalInv
  <1>2. RevalInv'
    BY <1>1, NextRevalInv
  <1>3. ASSUME NEW r \in overtaken' PROVE OvertakenIsOutdated(r)'
    <2>1. CASE UNCHANGED vars
      BY <2>1, <1>3
      DEF HistoryInv, vars, revalVars, planVars,
          OvertakenIsOutdated, InFlight
    <2>2. CASE Next
      <3>1. r \in RevalidateRequest /\ Overtaken(r) /\ InFlight(r)'
        BY <1>3, <2>2 DEF Next, Overtakes
      <3>2. InFlight(r)
        BY <3>1 DEF Overtaken, HistoryInv, OvertakenIsOutdated
      <3>3. /\ reval'[r].plan = reval[r].plan
            /\ reval'[r].updates = reval[r].updates
        BY <1>1, <3>1, <3>2, StaysInFlight
      <3> DEFINE p == reval[r].plan
                 u == reval[r].updates
      <3>4. p \in Plan /\ u \in Nat /\ updates[p] \in Nat
        BY <1>1, <3>1, <3>2, RowTypes DEF Inv, RevalsHavePlans, Reval
      <3>5. RowTicks(p) /\ updates'[p] \in Nat
        <4>1. RowTicks(p)
          BY <1>1, <3>4, NextRow
        <4>2. QED
          BY <3>4, <4>1 DEF RowTicks
      <3>6. u <= updates[p] /\ (u = updates[p] => status[p] # "absent")
        <4>1. u <= updates[p] /\ (u = updates[p] => status[p] = reval[r].before)
          BY <1>1, <3>1, <3>2 DEF RevalInv, SnapshotHolds
        <4>2. reval[r].before \in PlanStatus
          BY <1>1, <3>1, RowTypes DEF Reval
        <4>3. QED
          BY <4>1, <4>2 DEF PlanStatus
      <3>7. r \in overtaken => u < updates[p]
        BY DEF HistoryInv, OvertakenIsOutdated
      <3>8. r \notin overtaken => status'[p] # status[p]
        BY <3>1 DEF Overtaken
      <3> HIDE DEF p, u
      <3>9. u < updates'[p]
        BY <3>4, <3>5, <3>6, <3>7, <3>8 DEF RowTicks, Exists
      <3>10. QED
        BY <3>1, <3>3, <3>9 DEF OvertakenIsOutdated, p, u
    <2>3. QED
      BY <2>1, <2>2
  <1>4. QED
    BY <1>2, <1>3 DEF HistoryInv

LEMMA SpecHistoryInv == Spec => []HistoryInv
  <1>1. Init => HistoryInv
    BY InitRevalInv DEF Init, HistoryInv
  <1>2. QED
    BY <1>1, NextHistoryInv, PTL DEF Spec

(* Whoever changes the status of a plan while a revalidation of it awaits  *)
(* the provider, and whatever the plan goes through afterwards, the result *)
(* is dropped: revalidate_plan changes no plan, no session and writes no   *)
(* audit row any more.                                                     *)
THEOREM StaleResultsAreDroppedTheorem == Spec => StaleResultsAreDropped
  <1>1. ASSUME HistoryInv, [Next]_vars, NEW r \in overtaken,
               reval'[r] # reval[r]
        PROVE  UNCHANGED <<planRows, audit>>
    <2>1. /\ RevalInv /\ Inv /\ [Next]_vars
          /\ r \in RevalidateRequest /\ InFlight(r)
          /\ reval[r].updates < updates[reval[r].plan]
      BY <1>1 DEF HistoryInv, RevalInv, OvertakenIsOutdated
    <2>2. reval[r].plan \in Plan /\ reval[r].updates \in Nat
          /\ updates[reval[r].plan] \in Nat
      BY <2>1, RowTypes DEF Inv, RevalsHavePlans, Reval
    <2>3. RevalNext
      BY <1>1, <2>1 DEF Next, vars, revalVars
    <2>4. ASSUME NEW s \in RevalidateRequest, RevalidateCommit(s)
          PROVE  FALSE
      <3>1. s = r
        BY <1>1, <2>1, <2>4, RowTypes DEF RevalidateCommit, Returns
      <3>2. updates[reval[r].plan] = reval[r].updates
        BY <2>1, <2>4, <3>1, CommitRow
      <3>3. QED
        BY <2>1, <2>2, <3>2
    <2>5. QED
      BY <2>3, <2>4
      DEF RevalNext, RevalidateReplay, RevalidateBegin, ProviderAnswers,
          RevalidateRejected, RevalidateDuplicate, RevalidateAbort, planVars,
          planRows
  <1>2. HistoryInv /\ [Next]_vars =>
          [\A r \in overtaken :
             reval'[r] # reval[r] => UNCHANGED <<planRows, audit>>]_vars
    BY <1>1
  <1>3. QED
    BY <1>2, SpecHistoryInv, PTL DEF Spec, StaleResultsAreDropped

-----------------------------------------------------------------------------
(* Every step of every request is a step of the life cycle or leaves it    *)
(* alone.                                                                  *)

SameSessions == \A p \in Plan : SessionsOf(p)' = SessionsOf(p)

MovedStatus == {"confirmed", "obsolete", "revalidation_required", "applying",
                "applied", "partially_applied", "failed"}

(* A row that moves as the life cycle allows.                              *)
LEMMA MoveIsAllowed ==
  ASSUME ApplyInv, NEW p \in Plan, NEW s \in MovedStatus,
         <<status[p], s>> \in Lifecycle!ALLOWED_PLAN_TRANSITIONS,
         s = "applied" => mapped[p] = SessionsOf(p),
         s = "partially_applied" => mapped[p] \notin {{}, SessionsOf(p)},
         s \in {"failed", "obsolete", "revalidation_required"} => mapped[p] = {},
         status' = [status EXCEPT ![p] = s], SameSessions, mapped' = mapped
  PROVE  Lifecycle!Next
  <1> DEFINE content == [q \in Plan |-> SessionsOf(q)]
  <1>1. content' = content
    BY DEF SameSessions
  <1>2. Lifecycle!Truthful(p, s)
    BY DEF Lifecycle!Truthful
  <1>3. Lifecycle!Move(p, s)
    BY <1>1, <1>2 DEF Lifecycle!Move
  <1>4. QED
    BY <1>3 DEF Lifecycle!Next, Lifecycle!Plan, Plan, MovedStatus

LEMMA Unmoved ==
  ASSUME status' = status, SameSessions, mapped' = mapped
  PROVE  UNCHANGED Lifecycle!vars
  BY DEF Lifecycle!vars, SameSessions

(* Giving every session of a row, or one of them, another status neither   *)
(* adds sessions nor takes any away.                                       *)
LEMMA UpdateKeepsSessions ==
  ASSUME Inv, NEW p \in Plan, NEW s, NEW sessions, UpdatePlan(p, s, sessions),
         \A k \in Slot : sessions[k] = "absent" <=> session[p][k] = "absent"
  PROVE  SameSessions
  <1>1. session \in [Plan -> [Slot -> SessionStatus \cup {"absent"}]]
    BY DEF Inv, PlanInv, TypeOK
  <1>2. session' = [session EXCEPT ![p] = sessions]
    BY DEF UpdatePlan
  <1>3. QED
    BY <1>1, <1>2 DEF SameSessions, SessionsOf

-----------------------------------------------------------------------------
LEMMA CommitIsDraft ==
  ASSUME ApplyInv, NEW r \in CreateRequest, CreateCommit(r), mapped' = mapped
  PROVE  Lifecycle!Next
  <1> DEFINE c          == creation[r]
             old        == <<c.group, c.previous>>
             new        == <<c.group, c.previous + 1>>
             superseded == Supersedes(c.group, c.previous)
             content    == [q \in Plan |-> SessionsOf(q)]
  <1>1. PICK slots \in (SUBSET Slot) \ {{}} :
          /\ status' = [q \in Plan |->
                          CASE q = new -> "proposed"
                            [] q = old /\ superseded -> "obsolete"
                            [] OTHER -> status[q]]
          /\ session' = [q \in Plan |->
                           CASE q = new -> NewSessions(slots)
                             [] q = old /\ superseded ->
                                  AllSessions(session[q], "obsolete")
                             [] OTHER -> session[q]]
    BY DEF CreateCommit
  <1>2. /\ status \in [Plan -> PlanStatus \cup {"absent"}]
        /\ session \in [Plan -> [Slot -> SessionStatus \cup {"absent"}]]
        /\ creation[r] \in Creation
    BY DEF ApplyInv, Inv, PlanInv, TypeOK
  <1>3. /\ new \in Plan /\ new # old /\ c.group \in Group
        /\ c.previous \in Nat
        /\ c.previous # 0 => old \in Plan /\ Exists(old)
    BY <1>2, MaxVersionAssumption
    DEF CreateCommit, ApplyInv, Inv, PlanInv, PendingCreates, Plan, Creation
  <1>4. status[new] = "absent" /\ (c.previous # 0 => status[old] \notin Published)
    BY DEF CreateCommit, Collides, CanRevise, Exists
  <1>5. ASSUME NEW q \in Plan, q[1] = new[1], q[2] > new[2]
        PROVE  status[q] = "absent"
    BY <1>3, <1>4, <1>5 DEF ApplyInv, Inv, PlanInv, NoVersionGaps, Exists
  <1>6. ASSUME NEW q \in Plan, q[1] = new[1], q[2] < new[2], q # old
        PROVE  status[q] \in {"obsolete", "failed"}
    <2>1. q[2] < c.previous /\ c.previous # 0 /\ q = <<q[1], q[2]>>
          /\ q[2] \in Nat
      BY <1>3, <1>6 DEF Plan
    <2>2. Exists(q)
      BY <1>3, <1>6, <2>1 DEF ApplyInv, Inv, PlanInv, NoVersionGaps
    <2>3. QED
      BY <1>3, <1>6, <2>1, <2>2 DEF ApplyInv, Inv, PlanInv, OnlyLatestIsLive
  <1>7. ASSUME c.previous # 0
        PROVE  \/ superseded /\ status[old] \in Revisable
               \/ ~ superseded /\ status[old] \in {"obsolete", "failed"}
    BY <1>2, <1>3, <1>4, <1>7
    DEF Revisable, Published, Exists, PlanStatus
  <1>8. ASSUME NEW q \in Plan
        PROVE  status'[q] = IF q = new THEN "proposed"
                            ELSE IF q[1] = new[1]
                                 THEN Lifecycle!Revised(status[q])
                                 ELSE status[q]
    <2>1. CASE q = new
      BY <1>1, <1>3, <2>1
    <2>2. CASE q # new /\ q = old /\ superseded
      <3>1. status'[q] = "obsolete"
        BY <1>1, <2>2
      <3>2. q[1] = new[1] /\ Lifecycle!Revised(status[q]) = "obsolete"
        BY <2>2 DEF Lifecycle!Revised, Revisable
      <3>3. QED
        BY <2>2, <3>1, <3>2
    <2>3. CASE q # new /\ ~ (q = old /\ superseded)
      <3>1. status'[q] = status[q]
        BY <1>1, <2>3
      <3>2. CASE q[1] # new[1]
        BY <2>3, <3>1, <3>2
      <3>3. CASE q[1] = new[1]
        <4>1. status[q] \in {"absent", "obsolete", "failed"}
          <5>1. CASE q = old
            <6>1. c.previous # 0
              BY <1>3, <5>1 DEF Plan
            <6>2. QED
              BY <1>7, <2>3, <5>1, <6>1
          <5>2. CASE q # old /\ q[2] < new[2]
            BY <1>6, <3>3, <5>2
          <5>3. CASE q[2] > new[2]
            BY <1>5, <3>3, <5>3
          <5>4. CASE q[2] = new[2]
            BY <2>3, <3>3, <5>4, <1>3 DEF Plan
          <5>5. QED
            BY <1>3, <5>1, <5>2, <5>3, <5>4 DEF Plan
        <4>2. Lifecycle!Revised(status[q]) = status[q]
          BY <4>1 DEF Lifecycle!Revised
        <4>3. QED
          BY <2>3, <3>1, <3>3, <4>2
      <3>4. QED
        BY <3>2, <3>3
    <2>4. QED
      BY <2>1, <2>2, <2>3
  <1>9. ASSUME NEW q \in Plan
        PROVE  SessionsOf(q)' = IF q = new THEN slots ELSE SessionsOf(q)
    <2>1. CASE q = new
      <3>1. session'[q] = NewSessions(slots)
        BY <1>1, <1>3, <2>1
      <3>2. QED
        BY <2>1, <3>1 DEF SessionsOf, NewSessions
    <2>2. CASE q # new /\ q = old /\ superseded
      <3>1. session'[q] = AllSessions(session[q], "obsolete")
        BY <1>1, <2>2
      <3>2. QED
        BY <2>2, <3>1 DEF SessionsOf, AllSessions
    <2>3. CASE q # new /\ ~ (q = old /\ superseded)
      <3>1. session'[q] = session[q]
        BY <1>1, <2>3
      <3>2. QED
        BY <2>3, <3>1 DEF SessionsOf
    <2>4. QED
      BY <2>1, <2>2, <2>3
  <1>10. content' = [content EXCEPT ![new] = slots]
    BY <1>3, <1>9
  <1>11. status' = [q \in Plan |->
                      IF q = new THEN "proposed"
                      ELSE IF q[1] = new[1] THEN Lifecycle!Revised(status[q])
                      ELSE status[q]]
    <2>1. status' = [q \in Plan |-> status'[q]]
      BY <1>1
    <2>2. QED
      BY <1>8, <2>1
  <1>12. \A q \in Plan :
           /\ q[1] = new[1] /\ q[2] < new[2] =>
                status[q] \in {"proposed", "confirmed", "revalidation_required",
                               "obsolete", "failed"}
           /\ q[1] = new[1] /\ q[2] > new[2] => status[q] = "absent"
    <2> TAKE q \in Plan
    <2>1. q = old => c.previous # 0
      BY <1>3 DEF Plan
    <2>2. QED
      BY <1>5, <1>6, <1>7, <2>1 DEF Revisable
  <1> HIDE DEF new, content
  <1>13. Lifecycle!Draft(new, slots)
    BY <1>4, <1>10, <1>11, <1>12 DEF Lifecycle!Draft, Lifecycle!Plan, Plan, content
  <1>14. QED
    BY <1>3, <1>13 DEF Lifecycle!Next, Lifecycle!Plan, Plan

LEMMA PlanStepImplements ==
  ASSUME ApplyInv, PlanNext, UNCHANGED applyVars
  PROVE  Lifecycle!Next \/ UNCHANGED Lifecycle!vars
  <1>1. mapped' = mapped
    BY DEF applyVars
  <1>2. ASSUME NEW p \in Plan, NEW s \in {"confirmed", "obsolete"},
               status[p] \in Revisable, s = "confirmed" => status[p] = "proposed",
               UpdatePlan(p, s, AllSessions(session[p], s))
        PROVE  Lifecycle!Next
    <2>1. \A k \in Slot :
            AllSessions(session[p], s)[k] = "absent" <=> session[p][k] = "absent"
      BY DEF AllSessions
    <2>2. SameSessions
      BY <1>2, <2>1, UpdateKeepsSessions DEF ApplyInv
    <2>3. mapped[p] = {}
      BY <1>2, UnpublishedRow
    <2>4. <<status[p], s>> \in Lifecycle!ALLOWED_PLAN_TRANSITIONS
      BY <1>2 DEF Lifecycle!ALLOWED_PLAN_TRANSITIONS, Revisable
    <2>5. status' = [status EXCEPT ![p] = s] /\ s \in MovedStatus
      BY <1>2 DEF UpdatePlan, MovedStatus
    <2>6. QED
      BY <1>1, <2>2, <2>3, <2>4, <2>5, MoveIsAllowed
  <1>3. ASSUME NEW p \in Plan, Confirm(p) PROVE Lifecycle!Next
    BY <1>2, <1>3 DEF Confirm, Revisable
  <1>4. ASSUME NEW p \in Plan, Obsolete(p) PROVE Lifecycle!Next
    BY <1>2, <1>4 DEF Obsolete
  <1>5. ASSUME UNCHANGED planRows PROVE UNCHANGED Lifecycle!vars
    BY <1>1, <1>5, Unmoved DEF planRows, SameSessions, SessionsOf
  <1>6. QED
    BY <1>1, <1>3, <1>4, <1>5, CommitIsDraft
    DEF PlanNext, CreateReplay, CreateMiss, CreateRead, CreateRefused,
        CreateRollback

LEMMA RevalStepImplements ==
  ASSUME ApplyInv, RevalNext, UNCHANGED applyVars
  PROVE  Lifecycle!Next \/ UNCHANGED Lifecycle!vars
  <1>1. mapped' = mapped
    BY DEF applyVars
  <1>2. ASSUME NEW r \in RevalidateRequest, RevalidateCommit(r)
        PROVE  Lifecycle!Next \/ UNCHANGED Lifecycle!vars
    <2> DEFINE p     == reval[r].plan
               after == StatusAfter(status[p], Result(r))
    <2>1. /\ p \in Plan
          /\ status[p] \in ELIGIBLE_REVALIDATION_STATUSES
          /\ IF after = status[p] THEN UNCHANGED <<status, session, updates>>
             ELSE UpdatePlan(p, after, session[p])
      BY <1>2, CommitRow DEF ApplyInv, RevalidateCommit
    <2>2. after \in ELIGIBLE_REVALIDATION_STATUSES
      BY <2>1, ResultType
      DEF StatusAfter, AuditResult, ELIGIBLE_REVALIDATION_STATUSES
    <2> HIDE DEF p, after
    <2>3. CASE after = status[p]
      BY <1>1, <2>1, <2>3, Unmoved DEF SameSessions, SessionsOf
    <2>4. CASE after # status[p]
      <3>1. UpdatePlan(p, after, session[p])
        BY <2>1, <2>4
      <3>2. SameSessions
        BY <2>1, <3>1, UpdateKeepsSessions DEF ApplyInv
      <3>3. mapped[p] = {}
        BY <2>1, UnpublishedRow DEF ELIGIBLE_REVALIDATION_STATUSES, Revisable
      <3>4. <<status[p], after>> \in Lifecycle!ALLOWED_PLAN_TRANSITIONS
        BY <2>1, <2>2, <2>4
        DEF ELIGIBLE_REVALIDATION_STATUSES, Lifecycle!ALLOWED_PLAN_TRANSITIONS
      <3>5. /\ status' = [status EXCEPT ![p] = after]
            /\ after \in MovedStatus
            /\ after \notin {"applied", "partially_applied"}
        BY <2>2, <3>1 DEF UpdatePlan, MovedStatus, ELIGIBLE_REVALIDATION_STATUSES
      <3>6. QED
        BY <1>1, <2>1, <3>2, <3>3, <3>4, <3>5, MoveIsAllowed
    <2>5. QED
      BY <2>3, <2>4
  <1>3. ASSUME UNCHANGED planVars PROVE UNCHANGED Lifecycle!vars
    BY <1>1, <1>3, Unmoved DEF planVars, SameSessions, SessionsOf
  <1>4. QED
    BY <1>2, <1>3
    DEF RevalNext, RevalidateReplay, RevalidateBegin, ProviderAnswers,
        RevalidateRejected, RevalidateDuplicate, RevalidateAbort

LEMMA ApplyStepImplements ==
  ASSUME ApplyInv, ApplyNext
  PROVE  Lifecycle!Next \/ UNCHANGED Lifecycle!vars
  <1>1. /\ session \in [Plan -> [Slot -> SessionStatus \cup {"absent"}]]
        /\ run \in [Plan -> Run] /\ mapped \in [Plan -> SUBSET Slot]
    BY DEF ApplyInv, Inv, PlanInv, TypeOK, ApplyTypeOK
  <1>2. ASSUME NEW p \in Plan, ApplyClaim(p)
        PROVE  Lifecycle!Next
    <2>1. UpdatePlan(p, "applying", ClaimedSessions(p))
          /\ status[p] \in {"confirmed", "partially_applied"} /\ mapped' = mapped
      BY <1>2 DEF ApplyClaim
    <2>2. mapped[p] \subseteq SessionsOf(p)
      BY DEF ApplyInv, RowAgrees, MappingsAgree
    <2>3. \A k \in Slot :
            ClaimedSessions(p)[k] = "absent" <=> session[p][k] = "absent"
      BY <2>2 DEF ClaimedSessions, SessionsOf
    <2>4. SameSessions
      BY <2>1, <2>3, UpdateKeepsSessions DEF ApplyInv
    <2>5. <<status[p], "applying">> \in Lifecycle!ALLOWED_PLAN_TRANSITIONS
      BY <2>1 DEF Lifecycle!ALLOWED_PLAN_TRANSITIONS
    <2>6. status' = [status EXCEPT ![p] = "applying"]
      BY <2>1 DEF UpdatePlan
    <2>7. QED
      BY <2>1, <2>4, <2>5, <2>6, MoveIsAllowed DEF MovedStatus
  <1>3. ASSUME NEW p \in Plan, ApplySettles(p)
        PROVE  Lifecycle!Next
    <2> DEFINE s == ResultingStatus(p)
    <2>1. UpdatePlan(p, s, session[p]) /\ mapped' = mapped /\ status[p] = "applying"
      BY <1>3 DEF ApplySettles, ApplyInv, Inv, RunsHoldTheClaim
    <2>2. SameSessions
      BY <2>1, UpdateKeepsSessions DEF ApplyInv
    <2>3. /\ s \in {"applied", "partially_applied", "failed"}
          /\ s = "applied" => mapped[p] = SessionsOf(p)
          /\ s = "partially_applied" => mapped[p] \notin {{}, SessionsOf(p)}
          /\ s = "failed" => mapped[p] = {}
      BY DEF ResultingStatus
    <2> HIDE DEF s
    <2>4. <<status[p], s>> \in Lifecycle!ALLOWED_PLAN_TRANSITIONS
      BY <2>1, <2>3 DEF Lifecycle!ALLOWED_PLAN_TRANSITIONS
    <2>5. status' = [status EXCEPT ![p] = s] /\ s \in MovedStatus
      BY <2>1, <2>3 DEF UpdatePlan, MovedStatus
    <2>6. QED
      BY <2>1, <2>2, <2>3, <2>4, <2>5, MoveIsAllowed
  <1>4. ASSUME NEW p \in Plan, NEW k \in Slot, MappingCommits(p, k)
        PROVE  Lifecycle!Next
    <2>1. k \in SessionsOf(p) /\ k \notin mapped[p] /\ status[p] = "applying"
      BY <1>4
      DEF MappingCommits, AtSession, ApplyInv, RowAgrees, LoopAgrees, Inv,
          RunsHoldTheClaim
    <2>2. SameSessions
      BY <1>1, <1>4, <2>1 DEF MappingCommits, SameSessions, SessionsOf
    <2>3. mapped' = [mapped EXCEPT ![p] = mapped[p] \cup {k}] /\ status' = status
      BY <1>4 DEF MappingCommits
    <2>4. Lifecycle!Publish(p, k)
      BY <2>1, <2>2, <2>3 DEF Lifecycle!Publish, SameSessions
    <2>5. QED
      BY <2>4 DEF Lifecycle!Next, Lifecycle!Plan, Plan
  <1>5. ASSUME NEW p \in Plan, NEW k \in Slot, SessionFails(p, k)
        PROVE  UNCHANGED Lifecycle!vars
    <2>1. k \in SessionsOf(p)
      BY <1>5 DEF SessionFails, AtSession, ApplyInv, RowAgrees, LoopAgrees
    <2>2. SameSessions
      BY <1>1, <1>5, <2>1 DEF SessionFails, SameSessions, SessionsOf
    <2>3. QED
      BY <1>5, <2>2, Unmoved DEF SessionFails
  <1>6. ASSUME UNCHANGED planVars, mapped' = mapped
        PROVE  UNCHANGED Lifecycle!vars
    BY <1>6, Unmoved DEF planVars, SameSessions, SessionsOf
  <1>7. QED
    BY <1>2, <1>3, <1>4, <1>5, <1>6
    DEF ApplyNext, ApplyStep, EventCreated, CallFails, ApplyAbort

-----------------------------------------------------------------------------
LEMMA InitImplements == Init => Lifecycle!Init
  BY DEF Init, PlanInit, ApplyInit, Lifecycle!Init, Lifecycle!Plan, Plan, SessionsOf

LEMMA NextImplements ==
  ApplyInv /\ [Next]_vars => [Lifecycle!Next]_(Lifecycle!vars)
  <1> SUFFICES ASSUME ApplyInv, [Next]_vars
               PROVE  Lifecycle!Next \/ UNCHANGED Lifecycle!vars
    OBVIOUS
  <1>1. CASE UNCHANGED vars
    BY <1>1, Unmoved DEF vars, planVars, applyVars, SameSessions, SessionsOf
  <1>2. CASE Next
    BY <1>2, PlanStepImplements, RevalStepImplements, ApplyStepImplements DEF Next
  <1>3. QED
    BY <1>1, <1>2

(* Create, confirm, revalidate, obsolete and apply requests, with their    *)
(* retries, rollbacks, lost answers and deaths, together behave like the   *)
(* life cycle that docs/architecture/state-models.md gives a plan.         *)
THEOREM ImplementsLifecycleTheorem == Spec => ImplementsLifecycle
  <1>1. QED
    BY InitImplements, NextImplements, SpecApplyInv, PTL
    DEF Spec, ImplementsLifecycle, Lifecycle!Spec
=============================================================================
