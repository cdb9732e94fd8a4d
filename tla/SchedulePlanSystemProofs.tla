----------------------- MODULE SchedulePlanSystemProofs -----------------------
(***************************************************************************)
(* Proofs about the rows of SchedulePlanSystem: their types, versions and  *)
(* keys, and what apply leaves in the tables and in the calendar, for      *)
(* every value of the constants.                                           *)
(***************************************************************************)
EXTENDS SchedulePlanSystem, TLAPS

USE DEF Successor, Supersedes

(* What a create request between its steps relies on: the version it read  *)
(* exists and has room for a successor.                                    *)
PendingCreates ==
  \A r \in CreateRequest :
    /\ creation[r].pc \in {"checked", "read"} =>
         /\ creation[r].key \in Key
         /\ creation[r].group \in Group
    /\ creation[r].pc = "read" =>
         /\ creation[r].previous < MaxVersion
         /\ creation[r].previous # 0 =>
              Exists(<<creation[r].group, creation[r].previous>>)

(* A plan that was given as an answer is a row.                            *)
AnswersExist ==
  \A r \in CreateRequest :
    creation[r].result # NoPlan => Exists(creation[r].result)

(* A request that is not done has no answer yet.                           *)
NewHaveNoAnswer ==
  \A r \in CreateRequest :
    creation[r].pc # "done" => creation[r].result = NoPlan

(* Exactly the inserted rows carry a key.                                  *)
RowsHaveKeys == \A p \in Plan : Exists(p) <=> key[p] # NoKey

PlanInv == /\ TypeOK
           /\ PendingCreates
           /\ AnswersExist
           /\ NewHaveNoAnswer
           /\ RowsHaveKeys
           /\ NoVersionGaps
           /\ OnlyLatestIsLive
           /\ CreateIsIdempotent

LEMMA InitTypeOK == Init => SystemTypeOK
  <1> SUFFICES ASSUME Init PROVE SystemTypeOK
    OBVIOUS
  <1>1. TypeOK
    BY MaxVersionAssumption
    DEF Init, PlanInit, TypeOK, Creation, PlanStatus
  <1>2. RevalTypeOK
    BY DEF Init, RevalInit, Arrived, RevalTypeOK, Reval, PlanStatus
  <1>3. ApplyTypeOK
    BY AttemptsAssumption, BoundsAssumption
    DEF Init, ApplyInit, ApplyTypeOK, Run, Idle
  <1>4. QED
    BY <1>1, <1>2, <1>3 DEF Init, SystemTypeOK

LEMMA UpdatePlanType ==
  ASSUME TypeOK, NEW p \in Plan, NEW s \in PlanStatus,
         NEW sessions \in [Slot -> SessionStatus \cup {"absent"}],
         UpdatePlan(p, s, sessions)
  PROVE  /\ status' \in [Plan -> PlanStatus \cup {"absent"}]
         /\ session' \in [Plan -> [Slot -> SessionStatus \cup {"absent"}]]
         /\ updates' \in [Plan -> Nat]
  BY DEF TypeOK, UpdatePlan

LEMMA AllSessionsType ==
  ASSUME NEW row, NEW s \in SessionStatus
  PROVE  AllSessions(row, s) \in [Slot -> SessionStatus \cup {"absent"}]
  BY DEF AllSessions

LEMMA AnswerType ==
  ASSUME TypeOK, NEW r \in CreateRequest, NEW p \in Plan \cup {NoPlan},
         Answer(r, p)
  PROVE  creation' \in [CreateRequest -> Creation]
  <1>1. creation[r] \in Creation
    BY DEF TypeOK
  <1>2. [creation[r] EXCEPT !.pc = "done", !.result = p] \in Creation
    BY <1>1 DEF Creation
  <1>3. QED
    BY <1>2 DEF TypeOK, Answer

LEMMA CreationType ==
  ASSUME TypeOK, NEW r \in CreateRequest, NEW c \in Creation,
         creation' = [creation EXCEPT ![r] = c]
  PROVE  creation' \in [CreateRequest -> Creation]
  BY DEF TypeOK

LEMMA SameRowsType ==
  ASSUME TypeOK, UNCHANGED planRows,
         creation' \in [CreateRequest -> Creation]
  PROVE  TypeOK'
  BY DEF TypeOK, planRows

LEMMA PlanNextType ==
  ASSUME TypeOK, PendingCreates, PlanNext PROVE TypeOK'
  <1>1. ASSUME NEW r \in CreateRequest, NEW k \in Key, CreateReplay(r, k)
        PROVE TypeOK'
    <2>1. PICK p \in Plan :
            creation' = [creation EXCEPT ![r] =
                          [@ EXCEPT !.pc = "done", !.key = k, !.result = p]]
      BY <1>1 DEF CreateReplay
    <2>2. [creation[r] EXCEPT !.pc = "done", !.key = k, !.result = p]
            \in Creation
      BY DEF TypeOK, Creation
    <2>3. QED
      BY <1>1, <2>1, <2>2, CreationType, SameRowsType DEF CreateReplay
  <1>2. ASSUME NEW r \in CreateRequest, NEW k \in Key, NEW g \in Group,
               CreateMiss(r, k, g)
        PROVE TypeOK'
    <2>1. [creation[r] EXCEPT !.pc = "checked", !.key = k, !.group = g]
            \in Creation
      BY DEF TypeOK, Creation
    <2>2. QED
      BY <1>2, <2>1, CreationType, SameRowsType DEF CreateMiss
  <1>2a. ASSUME NEW r \in CreateRequest, CreateRead(r)
        PROVE TypeOK'
    <2>1. PICK v \in 0 .. MaxVersion - 1 :
            creation' = [creation EXCEPT ![r] =
                          [@ EXCEPT !.pc = "read", !.previous = v]]
      BY <1>2a DEF CreateRead
    <2>2. v \in 0 .. MaxVersion
      BY MaxVersionAssumption
    <2>3. [creation[r] EXCEPT !.pc = "read", !.previous = v] \in Creation
      BY <2>2 DEF TypeOK, Creation
    <2>4. QED
      BY <1>2a, <2>1, <2>3, CreationType, SameRowsType DEF CreateRead
  <1>3. ASSUME NEW r \in CreateRequest, CreateRefused(r)
        PROVE TypeOK'
    BY <1>3, AnswerType, SameRowsType DEF CreateRefused
  <1>4. ASSUME NEW r \in CreateRequest, CreateCommit(r)
        PROVE TypeOK'
    <2> DEFINE c   == creation[r]
               old == <<c.group, c.previous>>
               new == <<c.group, c.previous + 1>>
               superseded == c.previous # 0 /\ status[old] \in Revisable
    <2>1. new \in Plan
      BY <1>4, MaxVersionAssumption
      DEF CreateCommit, PendingCreates, TypeOK, Creation, Plan
    <2>2. status' \in [Plan -> PlanStatus \cup {"absent"}]
      BY <1>4 DEF CreateCommit, TypeOK, PlanStatus
    <2>3. session' \in [Plan -> [Slot -> SessionStatus \cup {"absent"}]]
      BY <1>4 DEF CreateCommit, TypeOK, NewSessions, AllSessions,
                  SessionStatus
    <2>4. updates' \in [Plan -> Nat]
      BY <1>4 DEF CreateCommit, TypeOK
    <2>5. key' \in [Plan -> Key \cup {NoKey}]
      BY <1>4 DEF CreateCommit, TypeOK, Creation
    <2>6. creation' \in [CreateRequest -> Creation]
      BY <1>4, <2>1, AnswerType DEF CreateCommit
    <2>7. QED
      BY <2>2, <2>3, <2>4, <2>5, <2>6 DEF TypeOK
  <1>5. ASSUME NEW r \in CreateRequest, CreateRollback(r)
        PROVE TypeOK'
    <2>1. PICK p \in Plan \cup {NoPlan} : Answer(r, p)
      BY <1>5 DEF CreateRollback
    <2>2. QED
      BY <1>5, <2>1, AnswerType, SameRowsType DEF CreateRollback
  <1>6. ASSUME NEW p \in Plan, Confirm(p)
        PROVE TypeOK'
    BY <1>6, AllSessionsType, UpdatePlanType
    DEF Confirm, TypeOK, PlanStatus, SessionStatus
  <1>7. ASSUME NEW p \in Plan, Obsolete(p)
        PROVE TypeOK'
    BY <1>7, AllSessionsType, UpdatePlanType
    DEF Obsolete, TypeOK, PlanStatus, SessionStatus
  <1>8. QED
    BY <1>1, <1>2, <1>3, <1>4, <1>5, <1>6, <1>7, <1>2a DEF PlanNext

-----------------------------------------------------------------------------
(* Revalidation and apply keep the plan tables well typed.                 *)

LEMMA ResultType ==
  ASSUME NEW r PROVE Result(r) \in AuditResult
  BY DEF Result, AuditResult

LEMMA StatusAfterType ==
  ASSUME NEW s \in PlanStatus, NEW result \in AuditResult
  PROVE  StatusAfter(s, result) \in PlanStatus
  BY DEF StatusAfter, AuditResult, PlanStatus

(* An answered request has a plan, and it is the one it began with.        *)
RevalsHavePlans ==
  \A r \in RevalidateRequest :
    InFlight(r) => reval[r].plan \in Plan

(* A request that returns leaves the others alone.                         *)
LEMMA ReturnsType ==
  ASSUME RevalTypeOK, RevalsHavePlans, NEW r \in RevalidateRequest,
         NEW p \in Plan \cup {NoPlan}, NEW id \in RequestId \cup {NoRequestId},
         Returns(r, p, id)
  PROVE  reval' \in [RevalidateRequest -> Reval] /\ RevalsHavePlans'
  <1> DEFINE ended == [Arrived EXCEPT !.pc = "done", !.plan = p, !.id = id]
  <1>1. ended \in Reval /\ ended.pc = "done"
    BY DEF Arrived, Reval, PlanStatus
  <1>2. reval' = [reval EXCEPT ![r] = ended]
    BY DEF Returns
  <1> HIDE DEF ended
  <1>3. QED
    BY <1>1, <1>2 DEF RevalTypeOK, RevalsHavePlans, InFlight

LEMMA RevalNextType ==
  ASSUME SystemTypeOK, RevalsHavePlans, RevalNext
  PROVE  TypeOK' /\ RevalTypeOK' /\ RevalsHavePlans'
  <1> USE DEF SystemTypeOK
  <1>1. ASSUME NEW r \in RevalidateRequest, NEW p \in Plan,
               NEW id \in RequestId, RevalidateReplay(r, p, id)
        PROVE  TypeOK' /\ RevalTypeOK' /\ RevalsHavePlans'
    <2>1. TypeOK'
      BY <1>1 DEF RevalidateReplay, planVars, TypeOK
    <2>2. Returns(r, NoPlan, NoRequestId) /\ UNCHANGED <<audit, verdict>>
      BY <1>1 DEF RevalidateReplay
    <2>3. QED
      BY <2>1, <2>2, ReturnsType DEF RevalTypeOK
  <1>2. ASSUME NEW r \in RevalidateRequest, NEW p \in Plan,
               NEW id \in RequestId \cup {NoRequestId},
               NEW internal \in BOOLEAN, RevalidateBegin(r, p, id, internal)
        PROVE  TypeOK' /\ RevalTypeOK' /\ RevalsHavePlans'
    <2> DEFINE new == [pc |-> "querying", plan |-> p, id |-> id,
                       updates |-> updates[p], before |-> status[p],
                       reserved |-> IF internal THEN ReservedSlots(p)
                                                ELSE {},
                       answer |-> "none", provider |-> {}]
    <2>1. new \in Reval
      BY <1>2 DEF RevalidateBegin, TypeOK, Reval, ReservedSlots, PlanStatus,
                  ELIGIBLE_REVALIDATION_STATUSES
    <2>2. TypeOK'
      BY <1>2 DEF RevalidateBegin, planVars, TypeOK
    <2>3. RevalTypeOK'
      BY <1>2, <2>1 DEF RevalidateBegin, RevalTypeOK
    <2>4. RevalsHavePlans'
      BY <1>2 DEF RevalidateBegin, RevalTypeOK, RevalsHavePlans, InFlight
    <2>5. QED
      BY <2>2, <2>3, <2>4
  <1>3. ASSUME NEW r \in RevalidateRequest, ProviderAnswers(r)
        PROVE  TypeOK' /\ RevalTypeOK' /\ RevalsHavePlans'
    <2>1. PICK a \in {"complete", "partial", "failure"},
               slots \in SUBSET Slot :
            reval' = [reval EXCEPT ![r] =
                       [@ EXCEPT !.pc = "answered", !.answer = a,
                                 !.provider = slots]]
      BY <1>3 DEF ProviderAnswers
    <2>2. [reval[r] EXCEPT !.pc = "answered", !.answer = a,
                           !.provider = slots] \in Reval
      <3>1. reval[r] \in Reval
        BY DEF RevalTypeOK
      <3>2. QED
        BY <3>1 DEF Reval
    <2>3. TypeOK'
      BY <1>3 DEF ProviderAnswers, planVars, TypeOK
    <2>4. RevalTypeOK'
      BY <1>3, <2>1, <2>2 DEF ProviderAnswers, RevalTypeOK
    <2>5. RevalsHavePlans'
      BY <1>3, <2>1 DEF ProviderAnswers, RevalTypeOK, Reval,
                        RevalsHavePlans, InFlight
    <2>6. QED
      BY <2>3, <2>4, <2>5
  <1>4. ASSUME NEW r \in RevalidateRequest,
               \/ RevalidateRejected(r)
               \/ RevalidateDuplicate(r)
               \/ RevalidateAbort(r)
        PROVE  TypeOK' /\ RevalTypeOK' /\ RevalsHavePlans'
    <2>1. /\ Returns(r, NoPlan, NoRequestId)
          /\ UNCHANGED <<audit, verdict>>
          /\ UNCHANGED planVars
      BY <1>4 DEF RevalidateRejected, RevalidateDuplicate, RevalidateAbort
    <2>2. TypeOK'
      BY <2>1 DEF planVars, TypeOK
    <2>3. QED
      BY <2>1, <2>2, ReturnsType DEF RevalTypeOK
  <1>5. ASSUME NEW r \in RevalidateRequest, RevalidateCommit(r)
        PROVE  TypeOK' /\ RevalTypeOK' /\ RevalsHavePlans'
    <2> DEFINE p      == reval[r].plan
               result == Result(r)
               after  == StatusAfter(status[p], result)
               row    == [result |-> result, before |-> reval[r].before,
                          after |-> after]
    <2>1. p \in Plan
      BY <1>5 DEF RevalidateCommit, RevalsHavePlans, InFlight
    <2>2. status[p] \in ELIGIBLE_REVALIDATION_STATUSES
      BY <1>5 DEF RevalidateCommit, PlanChanged
    <2>3. status[p] \in PlanStatus
      BY <2>2 DEF ELIGIBLE_REVALIDATION_STATUSES, PlanStatus
    <2>4. result \in AuditResult /\ after \in PlanStatus
      BY <2>3, ResultType, StatusAfterType
    <2>5. TypeOK'
      <3>1. CASE after = status[p]
        BY <1>5, <3>1 DEF RevalidateCommit, TypeOK
      <3>2. CASE after # status[p]
        <4>1. UpdatePlan(p, after, session[p])
          BY <1>5, <3>2 DEF RevalidateCommit
        <4>2. session[p] \in [Slot -> SessionStatus \cup {"absent"}]
          BY <2>1 DEF TypeOK
        <4>3. /\ status' \in [Plan -> PlanStatus \cup {"absent"}]
              /\ session' \in [Plan -> [Slot -> SessionStatus \cup {"absent"}]]
              /\ updates' \in [Plan -> Nat]
          BY <2>1, <2>4, <4>1, <4>2, UpdatePlanType
        <4>4. UNCHANGED <<key, creation>>
          BY <1>5 DEF RevalidateCommit
        <4>5. QED
          BY <4>3, <4>4 DEF TypeOK
      <3>3. QED
        BY <3>1, <3>2
    <2>6. reval' \in [RevalidateRequest -> Reval] /\ RevalsHavePlans'
      <3>1. /\ reval[r].plan \in Plan \cup {NoPlan}
            /\ reval[r].id \in RequestId \cup {NoRequestId}
        BY DEF RevalTypeOK, Reval
      <3>2. Returns(r, reval[r].plan, reval[r].id)
        BY <1>5 DEF RevalidateCommit
      <3>3. QED
        BY <3>1, <3>2, ReturnsType
    <2>7. row \in Audit
      <3>1. reval[r].before \in PlanStatus
        BY DEF RevalTypeOK, Reval
      <3>2. QED
        BY <2>4, <3>1 DEF Audit
    <2>8. verdict' \in [Plan -> {"none", "valid", "conflict",
                                 "provider_partial_failure"}]
      <3>1. CASE result = "provider_failure"
        BY <1>5, <3>1 DEF RevalidateCommit, RevalTypeOK
      <3>2. CASE result # "provider_failure"
        BY <1>5, <2>1, <2>4, <3>2
        DEF RevalidateCommit, RevalTypeOK, AuditResult
      <3>3. QED
        BY <3>1, <3>2
    <2>9. RevalTypeOK'
      BY <1>5, <2>6, <2>7, <2>8 DEF RevalidateCommit, RevalTypeOK
    <2>10. QED
      BY <2>5, <2>6, <2>9
  <1>6. QED
    BY <1>1, <1>2, <1>3, <1>4, <1>5 DEF RevalNext

LEMMA AdvanceType ==
  ASSUME ApplyTypeOK, NEW p \in Plan, NEW k \in Slot, Advance(p, k)
  PROVE  run' \in [Plan -> Run]
  <1>1. [pc |-> "calling", todo |-> run[p].todo \ {k}, attempts |-> 0] \in Run
    BY AttemptsAssumption DEF ApplyTypeOK, Run
  <1>2. QED
    BY <1>1 DEF ApplyTypeOK, Advance

LEMMA ApplyNextType ==
  ASSUME SystemTypeOK, ApplyNext
  PROVE  TypeOK' /\ ApplyTypeOK'
  <1> USE DEF SystemTypeOK
  <1>1. ASSUME NEW p \in Plan, ApplyClaim(p)
        PROVE  TypeOK' /\ ApplyTypeOK'
    <2> DEFINE row == ClaimedSessions(p)
               new == [pc |-> "calling", todo |-> SessionsOf(p) \ mapped[p],
                       attempts |-> 0]
    <2>1. row \in [Slot -> SessionStatus \cup {"absent"}]
      BY DEF ClaimedSessions, SessionStatus
    <2>2. UpdatePlan(p, "applying", row)
      BY <1>1 DEF ApplyClaim
    <2>3. TypeOK'
      BY <1>1, <2>1, <2>2, UpdatePlanType DEF ApplyClaim, TypeOK, PlanStatus
    <2>4. new \in Run
      BY AttemptsAssumption DEF Run, SessionsOf
    <2>5. ApplyTypeOK'
      BY <1>1, <2>4 DEF ApplyClaim, ApplyTypeOK
    <2>6. QED
      BY <2>3, <2>5
  <1>2. ASSUME NEW p \in Plan, NEW k \in Slot, EventCreated(p, k)
        PROVE  TypeOK' /\ ApplyTypeOK'
    <2>1. [run[p] EXCEPT !.pc = "persisting"] \in Run
      BY DEF ApplyTypeOK, Run
    <2>2. QED
      BY <1>2, <2>1 DEF EventCreated, planVars, TypeOK, ApplyTypeOK
  <1>3. ASSUME NEW p \in Plan, NEW k \in Slot, CallFails(p, k)
        PROVE  TypeOK' /\ ApplyTypeOK'
    <2>1. [run[p] EXCEPT !.attempts = @ + 1] \in Run
      <3>1. run[p] \in Run
        BY DEF ApplyTypeOK
      <3>2. run[p].attempts + 1 \in 0 .. MAX_ATTEMPTS
        BY <1>3, <3>1, AttemptsAssumption DEF CallFails, Run
      <3>3. QED
        BY <3>1, <3>2 DEF Run
    <2>2. event' \in [Plan -> SUBSET Slot]
      <3>1. PICK reached \in BOOLEAN :
              event' = [event EXCEPT ![p] = IF reached THEN @ \cup {k} ELSE @]
        BY <1>3 DEF CallFails
      <3>2. CASE reached
        BY <3>1, <3>2 DEF ApplyTypeOK
      <3>3. CASE ~ reached
        BY <3>1, <3>3 DEF ApplyTypeOK
      <3>4. QED
        BY <3>2, <3>3
    <2>3. run' \in [Plan -> Run]
      <3>1. run' = [run EXCEPT ![p] = [run[p] EXCEPT !.attempts = @ + 1]]
        BY <1>3 DEF CallFails
      <3>2. QED
        BY <2>1, <3>1 DEF ApplyTypeOK
    <2>4. TypeOK'
      BY <1>3 DEF CallFails, planVars, TypeOK
    <2>5. UNCHANGED <<mapped, aborts>>
      BY <1>3 DEF CallFails
    <2>6. QED
      BY <2>2, <2>3, <2>4, <2>5 DEF ApplyTypeOK
  <1>4. ASSUME NEW p \in Plan, NEW k \in Slot, SessionFails(p, k)
        PROVE  TypeOK' /\ ApplyTypeOK'
    BY <1>4, AdvanceType
    DEF SessionFails, TypeOK, ApplyTypeOK, SessionStatus
  <1>5. ASSUME NEW p \in Plan, NEW k \in Slot, MappingCommits(p, k)
        PROVE  TypeOK' /\ ApplyTypeOK'
    BY <1>5, AdvanceType
    DEF MappingCommits, TypeOK, ApplyTypeOK, SessionStatus
  <1>6. ASSUME NEW p \in Plan, ApplySettles(p)
        PROVE  TypeOK' /\ ApplyTypeOK'
    <2>1. ResultingStatus(p) \in PlanStatus
      BY DEF ResultingStatus, PlanStatus
    <2>2. session[p] \in [Slot -> SessionStatus \cup {"absent"}]
      BY DEF TypeOK
    <2>3. TypeOK'
      BY <1>6, <2>1, <2>2, UpdatePlanType DEF ApplySettles, TypeOK
    <2>4. Idle \in Run
      BY AttemptsAssumption DEF Idle, Run
    <2>5. QED
      BY <1>6, <2>3, <2>4 DEF ApplySettles, ApplyTypeOK
  <1>7. ASSUME NEW p \in Plan, ApplyAbort(p)
        PROVE  TypeOK' /\ ApplyTypeOK'
    <2>1. Idle \in Run
      BY AttemptsAssumption DEF Idle, Run
    <2>2. QED
      BY <1>7, <2>1, BoundsAssumption
      DEF ApplyAbort, planVars, TypeOK, ApplyTypeOK
  <1>8. QED
    BY <1>1, <1>2, <1>3, <1>4, <1>5, <1>6, <1>7 DEF ApplyNext, ApplyStep

-----------------------------------------------------------------------------
(* What one step does to the plan tables: nothing, the insertion of one    *)
(* plan, or one plan's move out of a status that is not final.  The lemmas *)
(* about the rows of a group need no more than this.                       *)

RowsStay == UNCHANGED <<status, key>>

FinalStatus == {"absent", "obsolete", "failed", "applied"}

RowMoves ==
  \E p \in Plan, s \in PlanStatus :
    /\ status[p] \notin FinalStatus
    /\ status' = [status EXCEPT ![p] = s]
    /\ UNCHANGED <<key, creation>>

LEMMA RevalStep ==
  ASSUME SystemTypeOK, RevalsHavePlans, RevalNext
  PROVE  RowMoves \/ UNCHANGED <<status, key, creation>>
  <1>1. ASSUME NEW r \in RevalidateRequest, RevalidateCommit(r)
        PROVE  RowMoves \/ UNCHANGED <<status, key, creation>>
    <2> DEFINE p     == reval[r].plan
               after == StatusAfter(status[p], Result(r))
    <2>1. /\ p \in Plan
          /\ status[p] \in ELIGIBLE_REVALIDATION_STATUSES
      BY <1>1 DEF RevalidateCommit, PlanChanged, RevalsHavePlans, InFlight
    <2>2. after \in PlanStatus
      BY <2>1, ResultType, StatusAfterType
      DEF ELIGIBLE_REVALIDATION_STATUSES, PlanStatus
    <2>3. CASE after = status[p]
      BY <1>1, <2>3 DEF RevalidateCommit
    <2>4. CASE after # status[p]
      BY <1>1, <2>1, <2>2, <2>4
      DEF RevalidateCommit, UpdatePlan, RowMoves, FinalStatus,
          ELIGIBLE_REVALIDATION_STATUSES
    <2>5. QED
      BY <2>3, <2>4
  <1>2. QED
    BY <1>1 DEF RevalNext, RevalidateReplay, RevalidateBegin, ProviderAnswers,
                RevalidateRejected, RevalidateDuplicate, RevalidateAbort,
                planVars

(* A plan an apply request works on is applying.                           *)
RunsHoldTheClaim ==
  \A p \in Plan : run[p].pc # "idle" => status[p] = "applying"

LEMMA ApplyRowStep ==
  ASSUME SystemTypeOK, RunsHoldTheClaim, ApplyNext
  PROVE  RowMoves \/ UNCHANGED <<status, key, creation>>
  <1>1. ASSUME NEW p \in Plan, ApplyClaim(p)
        PROVE  RowMoves
    BY <1>1 DEF ApplyClaim, UpdatePlan, RowMoves, FinalStatus, PlanStatus
  <1>2. ASSUME NEW p \in Plan, ApplySettles(p)
        PROVE  RowMoves
    <2>1. ResultingStatus(p) \in PlanStatus
      BY DEF ResultingStatus, PlanStatus
    <2>2. status[p] = "applying"
      BY <1>2 DEF ApplySettles, RunsHoldTheClaim
    <2>3. QED
      BY <1>2, <2>1, <2>2 DEF ApplySettles, UpdatePlan, RowMoves, FinalStatus
  <1>3. QED
    BY <1>1, <1>2 DEF ApplyNext, ApplyStep, EventCreated, CallFails,
                      SessionFails, MappingCommits, ApplyAbort, planVars

-----------------------------------------------------------------------------
(* The invariant of the plan tables.                                       *)

LEMMA InitPlanInv == Init => PlanInv
  <1> SUFFICES ASSUME Init PROVE PlanInv
    OBVIOUS
  <1>1. \A p \in Plan : ~ Exists(p) /\ key[p] = NoKey
    BY DEF Init, PlanInit, Exists
  <1>2. \A r \in CreateRequest :
          creation[r].pc = "new" /\ creation[r].result = NoPlan
    BY DEF Init, PlanInit
  <1>3. QED
    BY <1>1, <1>2, InitTypeOK
    DEF PlanInv, SystemTypeOK, PendingCreates, AnswersExist, NewHaveNoAnswer,
        RowsHaveKeys, NoVersionGaps,
        OnlyLatestIsLive, CreateIsIdempotent

LEMMA RowMovesPlanInv ==
  ASSUME PlanInv, TypeOK', RowMoves
  PROVE  PlanInv'
  <1> USE DEF PlanInv
  <1>1. PICK p \in Plan, s \in PlanStatus :
          /\ status[p] \notin FinalStatus
          /\ status' = [status EXCEPT ![p] = s]
          /\ UNCHANGED <<key, creation>>
    BY DEF RowMoves
  <1>2. \A q \in Plan : Exists(q) <=> Exists(q)'
    BY <1>1 DEF Exists, FinalStatus, TypeOK, PlanStatus
  <1>3. PendingCreates'
    BY <1>1, <1>2, MaxVersionAssumption
    DEF PendingCreates, TypeOK, Creation, Plan
  <1>4. RowsHaveKeys' /\ NoVersionGaps' /\ CreateIsIdempotent' /\ AnswersExist'
    <2>1. AnswersExist'
      BY <1>1, <1>2 DEF AnswersExist, TypeOK, Creation
    <2>2. QED
      BY <1>1, <1>2, <2>1 DEF RowsHaveKeys, NoVersionGaps, CreateIsIdempotent
  <1>5. OnlyLatestIsLive'
    <2> SUFFICES ASSUME NEW q \in Plan, NEW u \in Plan,
                        Exists(q)', Exists(u)', q[1] = u[1], q[2] < u[2]
                 PROVE  status'[q] \in {"obsolete", "failed"}
      BY DEF OnlyLatestIsLive
    <2>1. status[q] \in {"obsolete", "failed"}
      BY <1>2 DEF OnlyLatestIsLive
    <2>2. q # p
      BY <1>1, <2>1 DEF FinalStatus
    <2>3. QED
      BY <1>1, <2>1, <2>2 DEF TypeOK
  <1>6. NewHaveNoAnswer'
    BY <1>1 DEF NewHaveNoAnswer
  <1>7. QED
    BY <1>3, <1>4, <1>5, <1>6

LEMMA CommitPlanInv ==
  ASSUME PlanInv, TypeOK', NEW r \in CreateRequest, CreateCommit(r)
  PROVE  PlanInv'
  <1> DEFINE c   == creation[r]
             old == <<c.group, c.previous>>
             new == <<c.group, c.previous + 1>>
             superseded == c.previous # 0 /\ status[old] \in Revisable
  <1> USE DEF PlanInv
  <1>1. /\ c.pc = "read" /\ c.key \in Key /\ c.group \in Group
        /\ c.previous \in 0 .. MaxVersion - 1
        /\ c.previous # 0 => Exists(old)
    BY MaxVersionAssumption
    DEF CreateCommit, PendingCreates, TypeOK, Creation
  <1>2. new \in Plan /\ (c.previous # 0 => old \in Plan) /\ old # new
    BY <1>1, MaxVersionAssumption DEF Plan
  <1>3. ~ Exists(new) /\ \A q \in Plan : key[q] # c.key
    BY DEF CreateCommit, Collides
  <1>4. c.previous # 0 => status[old] \notin Published
    BY DEF CreateCommit, CanRevise
  <1>5. /\ status'[new] = "proposed"
        /\ \A q \in Plan \ {new} :
             status'[q] = IF q = old /\ superseded THEN "obsolete"
                          ELSE status[q]
    BY <1>2 DEF CreateCommit
  <1>6. /\ key' = [key EXCEPT ![new] = c.key]
        /\ creation' = [creation EXCEPT ![r] = [@ EXCEPT !.pc = "done",
                                                         !.result = new]]
    BY DEF CreateCommit, Answer
  <1>7. \A q \in Plan : Exists(q)' <=> q = new \/ Exists(q)
    BY <1>5 DEF Exists, Revisable
  <1>8. PendingCreates'
    <2> SUFFICES ASSUME NEW s \in CreateRequest,
                        creation'[s].pc \in {"checked", "read"}
                 PROVE  /\ creation'[s].key \in Key
                        /\ creation'[s].group \in Group
                        /\ creation'[s].pc = "read" =>
                             /\ creation'[s].previous < MaxVersion
                             /\ creation'[s].previous # 0 =>
                                  status'[<<creation'[s].group,
                                            creation'[s].previous>>]
                                    # "absent"
      BY DEF PendingCreates, Exists
    <2>1. s # r /\ creation'[s] = creation[s]
      BY <1>6 DEF TypeOK, Creation
    <2>2. creation[s].previous \in 0 .. MaxVersion
      BY DEF TypeOK, Creation
    <2>3. /\ creation[s].key \in Key
          /\ creation[s].group \in Group
          /\ creation[s].pc = "read" =>
               /\ creation[s].previous < MaxVersion
               /\ creation[s].previous # 0 =>
                    Exists(<<creation[s].group, creation[s].previous>>)
      BY <2>1 DEF PendingCreates
    <2>4. ASSUME creation[s].pc = "read", creation[s].previous # 0
          PROVE  status'[<<creation[s].group, creation[s].previous>>]
                   # "absent"
      <3>1. <<creation[s].group, creation[s].previous>> \in Plan
        BY <2>2, <2>3, <2>4, MaxVersionAssumption DEF Plan
      <3>2. QED
        BY <1>7, <2>3, <2>4, <3>1 DEF Exists
    <2>5. QED
      BY <2>1, <2>3, <2>4
  <1>9. RowsHaveKeys'
    BY <1>1, <1>2, <1>6, <1>7, KeyAssumption DEF RowsHaveKeys, TypeOK
  <1>10. \A q \in Plan : Exists(q) /\ q[1] = c.group => q[2] < c.previous + 1
    <2> SUFFICES ASSUME NEW q \in Plan, Exists(q), q[1] = c.group,
                        ~ (q[2] < c.previous + 1)
                 PROVE  FALSE
      OBVIOUS
    <2>1. q[2] \in Nat /\ q = <<q[1], q[2]>>
      BY DEF Plan
    <2>2. q[2] > c.previous + 1
      BY <1>1, <1>3, <2>1
    <2>3. Exists(new)
      BY <1>2, <2>2 DEF NoVersionGaps
    <2>4. QED
      BY <1>3, <2>3
  <1>11. NoVersionGaps'
    <2> SUFFICES ASSUME NEW p \in Plan, NEW q \in Plan, Exists(q)',
                        p[1] = q[1], p[2] < q[2]
                 PROVE  Exists(p)'
      BY DEF NoVersionGaps
    <2>1. CASE Exists(q)
      BY <1>7, <2>1 DEF NoVersionGaps
    <2>2. CASE q = new
      <3>1. p[1] = c.group /\ p[2] \in 1 .. MaxVersion /\ p[2] < c.previous + 1
        BY <2>2 DEF Plan
      <3>2. p[2] <= c.previous /\ c.previous # 0
        BY <1>1, <3>1
      <3>3. CASE p[2] = c.previous
        <4>1. p = old
          BY <3>1, <3>3 DEF Plan
        <4>2. QED
          BY <1>1, <1>7, <3>2, <4>1
      <3>4. CASE p[2] < c.previous
        BY <1>1, <1>2, <1>7, <3>1, <3>2, <3>4 DEF NoVersionGaps
      <3>5. QED
        BY <1>1, <3>1, <3>2, <3>3, <3>4
    <2>3. QED
      BY <1>7, <2>1, <2>2
  <1>12. OnlyLatestIsLive'
    <2> SUFFICES ASSUME NEW p \in Plan, NEW q \in Plan, Exists(p)', Exists(q)',
                        p[1] = q[1], p[2] < q[2]
                 PROVE  status'[p] \in {"obsolete", "failed"}
      BY DEF OnlyLatestIsLive
    <2>1. p # new
      <3> SUFFICES ASSUME p = new PROVE FALSE
        OBVIOUS
      <3>1. q[1] = c.group /\ q[2] > c.previous + 1 /\ Exists(q)
        BY <1>1, <1>7
      <3>2. QED
        BY <1>1, <1>10, <3>1 DEF Plan
    <2>2. Exists(p)
      BY <1>7, <2>1
    <2>3. CASE q # new
      <3>1. status[p] \in {"obsolete", "failed"}
        BY <1>7, <2>2, <2>3 DEF OnlyLatestIsLive
      <3>2. QED
        BY <1>5, <2>1, <3>1
    <2>4. CASE q = new
      <3>1. p[1] = c.group /\ p[2] \in 1 .. MaxVersion /\ p[2] <= c.previous
        BY <1>1, <2>4 DEF Plan
      <3>2. CASE p = old
        <4>1. status[p] \in Revisable \/ status[p] \in {"obsolete", "failed"}
          BY <1>1, <1>4, <2>2, <3>1, <3>2
          DEF Published, Revisable, TypeOK, PlanStatus, Exists
        <4>2. QED
          BY <1>1, <1>5, <2>1, <3>1, <3>2, <4>1
      <3>3. CASE p # old
        <4>1. p[2] < c.previous /\ c.previous # 0
          BY <1>1, <3>1, <3>3 DEF Plan
        <4>2. status[p] \in {"obsolete", "failed"}
          BY <1>1, <1>2, <2>2, <3>1, <4>1 DEF OnlyLatestIsLive
        <4>3. QED
          BY <1>5, <2>1, <3>3, <4>2
      <3>4. QED
        BY <3>2, <3>3
    <2>5. QED
      BY <2>3, <2>4
  <1>13. CreateIsIdempotent'
    <2>1. \A p, q \in Plan : Exists(p)' /\ key'[p] = key'[q] => p = q
      BY <1>2, <1>3, <1>6, <1>7 DEF CreateIsIdempotent, TypeOK
    <2>2. \A s \in CreateRequest :
            creation'[s].result # NoPlan =>
              key'[creation'[s].result] = creation'[s].key
      <3> SUFFICES ASSUME NEW s \in CreateRequest,
                          creation'[s].result # NoPlan
                   PROVE  key'[creation'[s].result] = creation'[s].key
        OBVIOUS
      <3>1. CASE s = r
        BY <1>2, <1>6, <3>1 DEF TypeOK, Creation
      <3>2. CASE s # r
        <4>1. creation'[s] = creation[s]
          BY <1>6, <3>2 DEF TypeOK
        <4>2. creation[s].result \in Plan
              /\ key[creation[s].result] = creation[s].key
          BY <4>1 DEF CreateIsIdempotent, TypeOK, Creation
        <4>3. creation[s].result # new
          BY <1>3, <4>1 DEF AnswersExist
        <4>4. QED
          BY <1>6, <4>1, <4>2, <4>3 DEF TypeOK
      <3>3. QED
        BY <3>1, <3>2
    <2>3. QED
      BY <2>1, <2>2 DEF CreateIsIdempotent
  <1>14. AnswersExist'
    <2> SUFFICES ASSUME NEW s \in CreateRequest, creation'[s].result # NoPlan
                 PROVE  status'[creation'[s].result] # "absent"
      BY DEF AnswersExist, Exists
    <2>1. CASE s = r
      BY <1>5, <1>6, <2>1 DEF TypeOK, Creation
    <2>2. CASE s # r
      <3>1. creation'[s] = creation[s]
        BY <1>6, <2>2 DEF TypeOK
      <3>2. creation[s].result \in Plan /\ Exists(creation[s].result)
        BY <3>1 DEF AnswersExist, TypeOK, Creation
      <3>3. QED
        BY <1>7, <3>1, <3>2 DEF Exists
    <2>3. QED
      BY <2>1, <2>2
  <1>15. NewHaveNoAnswer'
    BY <1>6 DEF NewHaveNoAnswer, TypeOK, Creation
  <1>16. QED
    BY <1>8, <1>9, <1>11, <1>12, <1>13, <1>14, <1>15

(* A step that leaves the rows alone and moves at most one create request. *)
LEMMA SameRowsPlanInv ==
  ASSUME PlanInv, TypeOK', UNCHANGED <<status, key>>,
         NEW r \in CreateRequest, NEW c \in Creation,
         creation' = [creation EXCEPT ![r] = c],
         c.pc # "done" => c.key \in Key /\ c.group \in Group,
         c.pc = "read" => /\ c.previous < MaxVersion
                          /\ c.previous # 0 => Exists(<<c.group, c.previous>>),
         c.pc # "done" => c.result = NoPlan,
         c.result # NoPlan => Exists(c.result) /\ key[c.result] = c.key
  PROVE  PlanInv'
  <1> USE DEF PlanInv
  <1>1. \A s \in CreateRequest :
          creation'[s] = IF s = r THEN c ELSE creation[s]
    BY DEF TypeOK
  <1>2. PendingCreates'
    BY <1>1 DEF PendingCreates, Exists
  <1>3. AnswersExist'
    BY <1>1 DEF AnswersExist, Exists
  <1>4. RowsHaveKeys' /\ NoVersionGaps' /\ OnlyLatestIsLive'
    BY DEF RowsHaveKeys, NoVersionGaps, OnlyLatestIsLive, Exists
  <1>5. CreateIsIdempotent'
    BY <1>1 DEF CreateIsIdempotent, Exists
  <1>6. NewHaveNoAnswer'
    BY <1>1 DEF NewHaveNoAnswer, Creation
  <1>7. QED
    BY <1>2, <1>3, <1>4, <1>5, <1>6

LEMMA UnchangedPlanInv ==
  ASSUME PlanInv, TypeOK', UNCHANGED <<status, key, creation>>
  PROVE  PlanInv'
  BY DEF PlanInv, PendingCreates, AnswersExist, NewHaveNoAnswer,
        RowsHaveKeys, NoVersionGaps,
         OnlyLatestIsLive, CreateIsIdempotent, Exists

LEMMA PlanNextPlanInv ==
  ASSUME PlanInv, PlanNext
  PROVE  PlanInv'
  <1> USE DEF PlanInv
  <1>1. TypeOK'
    BY PlanNextType
  <1>2. ASSUME NEW r \in CreateRequest, NEW k \in Key, CreateReplay(r, k)
        PROVE  PlanInv'
    <2>1. PICK p \in Plan :
            /\ key[p] = k
            /\ creation' = [creation EXCEPT ![r] =
                              [creation[r] EXCEPT !.pc = "done", !.key = k,
                                                  !.result = p]]
      BY <1>2 DEF CreateReplay
    <2> DEFINE c == [creation[r] EXCEPT !.pc = "done", !.key = k,
                                        !.result = p]
    <2>2. c \in Creation /\ c.pc = "done" /\ c.result = p /\ c.key = k
      BY DEF TypeOK, Creation
    <2>3. Exists(p)
      BY <2>1, KeyAssumption DEF RowsHaveKeys
    <2>4. UNCHANGED <<status, key>>
      BY <1>2 DEF CreateReplay, planRows
    <2> HIDE DEF c
    <2>5. QED
      BY <1>1, <2>1, <2>2, <2>3, <2>4, SameRowsPlanInv DEF c
  <1>2a. ASSUME NEW r \in CreateRequest, NEW k \in Key, NEW g \in Group,
               CreateMiss(r, k, g)
        PROVE  PlanInv'
    <2> DEFINE c == [creation[r] EXCEPT !.pc = "checked", !.key = k,
                                        !.group = g]
    <2>1. /\ c \in Creation /\ c.pc = "checked"
          /\ c.key = k /\ c.group = g
          /\ c.result = creation[r].result
      BY DEF TypeOK, Creation
    <2>2. c.result = NoPlan
      BY <1>2a, <2>1 DEF CreateMiss, NewHaveNoAnswer
    <2>3. UNCHANGED <<status, key>> /\ creation' = [creation EXCEPT ![r] = c]
      BY <1>2a DEF CreateMiss, planRows
    <2> HIDE DEF c
    <2>4. QED
      BY <1>1, <2>1, <2>2, <2>3, SameRowsPlanInv
  <1>3. ASSUME NEW r \in CreateRequest, CreateRead(r)
        PROVE  PlanInv'
    <2> DEFINE k == creation[r].key
               g == creation[r].group
    <2>1. PICK v \in 0 .. MaxVersion - 1 :
            /\ IsLatest(g, v)
            /\ creation' = [creation EXCEPT ![r] =
                              [creation[r] EXCEPT !.pc = "read",
                                                  !.previous = v]]
      BY <1>3 DEF CreateRead
    <2> DEFINE c == [creation[r] EXCEPT !.pc = "read", !.previous = v]
    <2>7. k \in Key /\ g \in Group
      BY <1>3 DEF CreateRead, PendingCreates
    <2>2. /\ c \in Creation
          /\ c.key = k /\ c.group = g /\ c.previous = v
          /\ c.result = creation[r].result
      <3>1. v \in 0 .. MaxVersion
        BY MaxVersionAssumption
      <3>2. creation[r] \in Creation
        BY DEF TypeOK
      <3>3. QED
        BY <3>1, <3>2 DEF Creation
    <2>3. c.result = NoPlan
      BY <1>3, <2>2 DEF CreateRead, NewHaveNoAnswer
    <2>4. v < MaxVersion /\ (v # 0 => Exists(<<g, v>>))
      BY <2>1, MaxVersionAssumption DEF IsLatest
    <2>5. UNCHANGED <<status, key>>
      BY <1>3 DEF CreateRead, planRows
    <2> HIDE DEF c
    <2>6. QED
      BY <1>1, <2>1, <2>2, <2>3, <2>4, <2>5, <2>7, SameRowsPlanInv DEF c
  <1>4. ASSUME NEW r \in CreateRequest, CreateRefused(r) \/ CreateRollback(r)
        PROVE  PlanInv'
    <2>1. PICK p \in Plan \cup {NoPlan} :
            /\ Answer(r, p)
            /\ p # NoPlan => key[p] = creation[r].key
      BY <1>4 DEF CreateRefused, CreateRollback, KeyOwner
    <2> DEFINE c == [creation[r] EXCEPT !.pc = "done", !.result = p]
    <2>2. /\ c \in Creation /\ c.pc = "done" /\ c.result = p
          /\ c.key = creation[r].key
      BY DEF TypeOK, Creation
    <2>3. p # NoPlan => Exists(p)
      <3>1. creation[r].key \in Key
        BY <1>4 DEF CreateRefused, CreateRollback, PendingCreates
      <3>2. QED
        BY <2>1, <3>1, KeyAssumption DEF RowsHaveKeys
    <2>4. UNCHANGED <<status, key>>
      BY <1>4 DEF CreateRefused, CreateRollback, planRows
    <2>5. creation' = [creation EXCEPT ![r] = c]
      BY <2>1 DEF Answer
    <2> HIDE DEF c
    <2>6. QED
      BY <1>1, <2>1, <2>2, <2>3, <2>4, <2>5, SameRowsPlanInv
  <1>5. ASSUME NEW r \in CreateRequest, CreateCommit(r)
        PROVE  PlanInv'
    BY <1>1, <1>5, CommitPlanInv
  <1>6. ASSUME NEW p \in Plan, Confirm(p) \/ Obsolete(p)
        PROVE  PlanInv'
    <2>1. RowMoves
      BY <1>6 DEF Confirm, Obsolete, UpdatePlan, RowMoves, FinalStatus,
                  Revisable, PlanStatus
    <2>2. QED
      BY <1>1, <2>1, RowMovesPlanInv
  <1>7. QED
    BY <1>2, <1>3, <1>4, <1>5, <1>6, <1>2a DEF PlanNext

-----------------------------------------------------------------------------
(* The claim on a plan: while an apply request works on it nobody else     *)
(* moves it, because no other request accepts an applying plan.            *)

LEMMA OthersLeaveApplying ==
  ASSUME SystemTypeOK, PendingCreates, RevalsHavePlans, PlanNext \/ RevalNext,
         NEW p \in Plan, status[p] = "applying"
  PROVE  status'[p] = "applying"
  <1> USE DEF SystemTypeOK
  <1>1. ASSUME NEW r \in CreateRequest, CreateCommit(r)
        PROVE  status'[p] = "applying"
    BY <1>1 DEF CreateCommit, Collides, Exists, Revisable
  <1>2. ASSUME NEW q \in Plan, Confirm(q) \/ Obsolete(q)
        PROVE  status'[p] = "applying"
    BY <1>2 DEF Confirm, Obsolete, UpdatePlan, Revisable, TypeOK
  <1>3. ASSUME NEW r \in RevalidateRequest, RevalidateCommit(r)
        PROVE  status'[p] = "applying"
    <2>1. reval[r].plan # p
      BY <1>3 DEF RevalidateCommit, PlanChanged,
                  ELIGIBLE_REVALIDATION_STATUSES
    <2>2. QED
      BY <1>3, <2>1 DEF RevalidateCommit, UpdatePlan, TypeOK
  <1>4. QED
    BY <1>1, <1>2, <1>3
    DEF PlanNext, CreateReplay, CreateMiss, CreateRead, CreateRefused, CreateRollback,
        planRows, RevalNext, RevalidateReplay, RevalidateBegin,
        ProviderAnswers, RevalidateRejected, RevalidateDuplicate,
        RevalidateAbort, planVars

LEMMA ApplyNextClaim ==
  ASSUME SystemTypeOK, RunsHoldTheClaim, ApplyNext
  PROVE  RunsHoldTheClaim'
  <1> USE DEF SystemTypeOK
  <1>1. ASSUME NEW p \in Plan, ApplyClaim(p)
        PROVE  RunsHoldTheClaim'
    BY <1>1 DEF ApplyClaim, UpdatePlan, RunsHoldTheClaim, TypeOK, ApplyTypeOK
  <1>2. ASSUME NEW p \in Plan, ApplySettles(p) \/ ApplyAbort(p)
        PROVE  RunsHoldTheClaim'
    <2>1. /\ run'[p].pc = "idle"
          /\ \A q \in Plan \ {p} : run'[q] = run[q]
      BY <1>2 DEF ApplySettles, ApplyAbort, Idle, ApplyTypeOK
    <2>2. \A q \in Plan \ {p} : status'[q] = status[q]
      BY <1>2 DEF ApplySettles, ApplyAbort, UpdatePlan, planVars, TypeOK
    <2>3. QED
      BY <2>1, <2>2 DEF RunsHoldTheClaim
  <1>3. ASSUME NEW p \in Plan, NEW k \in Slot,
               \/ EventCreated(p, k)
               \/ CallFails(p, k)
               \/ SessionFails(p, k)
               \/ MappingCommits(p, k)
        PROVE  RunsHoldTheClaim'
    <2>1. status' = status /\ run[p].pc # "idle"
      BY <1>3 DEF EventCreated, CallFails, SessionFails, MappingCommits,
                  AtSession, planVars
    <2>2. \A q \in Plan \ {p} : run'[q] = run[q]
      BY <1>3 DEF EventCreated, CallFails, SessionFails, MappingCommits,
                  Advance, ApplyTypeOK
    <2>3. QED
      BY <2>1, <2>2 DEF RunsHoldTheClaim
  <1>4. QED
    BY <1>1, <1>2, <1>3 DEF ApplyNext, ApplyStep

-----------------------------------------------------------------------------
(* The inductive invariant of the system.  TypeOK alone is not inductive:  *)
(* that a request writes only rows of plans needs what the request read.   *)

Inv == /\ PlanInv
       /\ RevalTypeOK
       /\ RevalsHavePlans
       /\ ApplyTypeOK
       /\ RunsHoldTheClaim
       /\ overtaken \subseteq RevalidateRequest

LEMMA InitInv == Init => Inv
  <1> SUFFICES ASSUME Init PROVE Inv
    OBVIOUS
  <1>1. PlanInv /\ RevalTypeOK /\ ApplyTypeOK
    BY InitTypeOK, InitPlanInv DEF SystemTypeOK
  <1>2. RevalsHavePlans
    BY DEF Init, RevalInit, Arrived, RevalsHavePlans, InFlight
  <1>3. RunsHoldTheClaim
    BY DEF Init, ApplyInit, RunsHoldTheClaim, Idle
  <1>4. overtaken \subseteq RevalidateRequest
    BY DEF Init
  <1>5. QED
    BY <1>1, <1>2, <1>3, <1>4 DEF Inv

LEMMA NextInv == Inv /\ [Next]_vars => Inv'
  <1> SUFFICES ASSUME Inv, [Next]_vars PROVE Inv'
    OBVIOUS
  <1>1. SystemTypeOK /\ PendingCreates
    BY DEF Inv, PlanInv, SystemTypeOK
  <1>2. overtaken' \subseteq RevalidateRequest
    BY DEF Inv, Next, Overtakes, vars
  <1>3. CASE PlanNext /\ UNCHANGED <<revalVars, applyVars>>
    <2>1. PlanInv'
      BY <1>3, PlanNextPlanInv DEF Inv
    <2>2. RevalTypeOK' /\ RevalsHavePlans' /\ ApplyTypeOK'
      BY <1>3 DEF Inv, revalVars, applyVars, RevalTypeOK, RevalsHavePlans,
                  InFlight, ApplyTypeOK
    <2>3. RunsHoldTheClaim'
      BY <1>1, <1>3, OthersLeaveApplying
      DEF Inv, applyVars, RunsHoldTheClaim
    <2>4. QED
      BY <1>2, <2>1, <2>2, <2>3 DEF Inv
  <1>4. CASE RevalNext /\ UNCHANGED applyVars
    <2>1. TypeOK' /\ RevalTypeOK' /\ RevalsHavePlans'
      BY <1>1, <1>4, RevalNextType DEF Inv
    <2>2. PlanInv'
      BY <1>1, <1>4, <2>1, RevalStep, RowMovesPlanInv, UnchangedPlanInv
      DEF Inv
    <2>3. ApplyTypeOK'
      BY <1>4 DEF Inv, applyVars, ApplyTypeOK
    <2>4. RunsHoldTheClaim'
      BY <1>1, <1>4, OthersLeaveApplying
      DEF Inv, applyVars, RunsHoldTheClaim
    <2>5. QED
      BY <1>2, <2>1, <2>2, <2>3, <2>4 DEF Inv
  <1>5. CASE ApplyNext /\ UNCHANGED revalVars
    <2>1. TypeOK' /\ ApplyTypeOK'
      BY <1>1, <1>5, ApplyNextType
    <2>2. PlanInv'
      BY <1>1, <1>5, <2>1, ApplyRowStep, RowMovesPlanInv, UnchangedPlanInv
      DEF Inv
    <2>3. RevalTypeOK' /\ RevalsHavePlans'
      BY <1>5 DEF Inv, revalVars, RevalTypeOK, RevalsHavePlans, InFlight
    <2>4. RunsHoldTheClaim'
      BY <1>1, <1>5, ApplyNextClaim DEF Inv
    <2>5. QED
      BY <1>2, <2>1, <2>2, <2>3, <2>4 DEF Inv
  <1>6. CASE UNCHANGED vars
    <2>1. UNCHANGED planVars /\ UNCHANGED revalVars /\ UNCHANGED applyVars
      BY <1>6 DEF vars
    <2>2. PlanInv'
      BY <2>1, UnchangedPlanInv DEF Inv, PlanInv, planVars, TypeOK
    <2>3. RevalTypeOK' /\ RevalsHavePlans'
      BY <2>1 DEF Inv, revalVars, RevalTypeOK, RevalsHavePlans, InFlight
    <2>4. ApplyTypeOK' /\ RunsHoldTheClaim'
      BY <2>1 DEF Inv, planVars, applyVars, ApplyTypeOK, RunsHoldTheClaim
    <2>5. QED
      BY <1>2, <2>2, <2>3, <2>4 DEF Inv
  <1>7. QED
    BY <1>3, <1>4, <1>5, <1>6 DEF Next

THEOREM SpecInv == Spec => []Inv
  <1>1. QED
    BY InitInv, NextInv, PTL DEF Spec

(* The tables and the requests' local variables always hold values of      *)
(* their types.                                                            *)
THEOREM TypeCorrect == Spec => []SystemTypeOK
  <1>1. Inv => SystemTypeOK
    BY DEF Inv, PlanInv, SystemTypeOK
  <1>2. QED
    BY <1>1, SpecInv, PTL

(* create_schedule_plan_from_preview never leaves an older version of a    *)
(* group in a live status, whatever confirms, revalidates or applies       *)
(* plans meanwhile.                                                        *)
THEOREM OnlyLatestIsLiveTheorem == Spec => []OnlyLatestIsLive
  <1>1. Inv => OnlyLatestIsLive
    BY DEF Inv, PlanInv
  <1>2. QED
    BY <1>1, SpecInv, PTL

(* An idempotency key names at most one plan, the one every request with   *)
(* that key is answered with.                                              *)
THEOREM CreateIsIdempotentTheorem == Spec => []CreateIsIdempotent
  <1>1. Inv => CreateIsIdempotent
    BY DEF Inv, PlanInv
  <1>2. QED
    BY <1>1, SpecInv, PTL

-----------------------------------------------------------------------------
(* What apply leaves in the tables and in the calendar, and the atomicity  *)
(* of plan creation.                                                       *)

(* The sessions apply's loop has left behind are settled, those ahead of   *)
(* it are not mapped, and a mapping is written for an event that exists.   *)
LoopAgrees(p) ==
  run[p].pc # "idle" =>
    /\ run[p].todo \subseteq SessionsOf(p)
    /\ run[p].todo \cap mapped[p] = {}
    /\ \A k \in SessionsOf(p) \ run[p].todo : session[p][k] \in {"applied", "failed"}
    /\ \A k \in Slot : AtSession(p, k, "persisting") => k \in event[p]

MappingsAgree(p) ==
  /\ mapped[p] \subseteq event[p] \cap SessionsOf(p)
  /\ mapped[p] # {} => status[p] \in Published
  /\ event[p] # {} => status[p] \in Published \cup {"failed"}
  /\ status[p] = "applied" => mapped[p] = SessionsOf(p)
  /\ status[p] = "partially_applied" =>
       mapped[p] # {} /\ mapped[p] # SessionsOf(p)
  /\ status[p] = "failed" => mapped[p] = {}

SessionsAgree(p) ==
  \A k \in SessionsOf(p) :
    /\ status[p] # "absent"
    /\ status[p] \in {"proposed", "obsolete"} => session[p][k] = status[p]
    /\ status[p] \in {"confirmed", "revalidation_required"} =>
         session[p][k] = "confirmed"
    /\ status[p] = "applying" =>
         /\ session[p][k] = "applied" <=> k \in mapped[p]
         /\ session[p][k] \in {"applying", "applied", "failed"}
    /\ status[p] \in {"applied", "partially_applied", "failed"} =>
         session[p][k] = IF k \in mapped[p] THEN "applied" ELSE "failed"

RowAgrees(p) == MappingsAgree(p) /\ SessionsAgree(p) /\ LoopAgrees(p)

(* The invariant of SpecInv, and that every plan's row, session rows,      *)
(* mappings, events and apply request agree.                               *)
ApplyInv == Inv /\ \A p \in Plan : RowAgrees(p)

-----------------------------------------------------------------------------
(* Rows nobody touched, and rows apply has nothing to do with.             *)

SameRow(p) ==
  /\ status'[p] = status[p] /\ session'[p] = session[p]
  /\ mapped'[p] = mapped[p] /\ event'[p] = event[p] /\ run'[p] = run[p]

LEMMA SameRowAgrees ==
  ASSUME NEW p \in Plan, RowAgrees(p), SameRow(p)
  PROVE  RowAgrees(p)'
  <1>1. SessionsOf(p)' = SessionsOf(p)
    BY DEF SameRow, SessionsOf
  <1>2. MappingsAgree(p)'
    BY <1>1 DEF SameRow, RowAgrees, MappingsAgree
  <1>3. SessionsAgree(p)'
    BY <1>1 DEF SameRow, RowAgrees, SessionsAgree
  <1>4. LoopAgrees(p)'
    BY <1>1 DEF SameRow, RowAgrees, LoopAgrees, AtSession
  <1>5. QED
    BY <1>2, <1>3, <1>4 DEF RowAgrees

LEMMA UnpublishedRow ==
  ASSUME ApplyInv, NEW p \in Plan, status[p] \in Revisable \cup {"absent"}
  PROVE  mapped[p] = {} /\ event[p] = {} /\ run[p].pc = "idle"
  BY DEF ApplyInv, Inv, RunsHoldTheClaim, RowAgrees, MappingsAgree, Revisable,
         Published

LEMMA EarlyRowAgrees ==
  ASSUME NEW p \in Plan, mapped'[p] = {}, event'[p] = {}, run'[p].pc = "idle",
         status'[p] \in Revisable \cup {"obsolete"},
         \A k \in SessionsOf(p)' :
           session'[p][k] = IF status'[p] = "revalidation_required"
                            THEN "confirmed" ELSE status'[p]
  PROVE  RowAgrees(p)'
  <1>1. MappingsAgree(p)'
    BY DEF MappingsAgree, Revisable
  <1>2. SessionsAgree(p)'
    BY DEF SessionsAgree, Revisable
  <1>3. LoopAgrees(p)'
    BY DEF LoopAgrees
  <1>4. QED
    BY <1>1, <1>2, <1>3 DEF RowAgrees

LEMMA AllSessionsAre ==
  ASSUME NEW row, NEW s \in SessionStatus, NEW k \in Slot
  PROVE  /\ AllSessions(row, s)[k] # "absent" <=> row[k] # "absent"
         /\ AllSessions(row, s)[k] \in {s, "absent"}
  BY DEF AllSessions, SessionStatus

(* Confirmation, withdrawal and supersession.                              *)
LEMMA MovedRowAgrees ==
  ASSUME ApplyInv, NEW p \in Plan, status[p] \in Revisable,
         NEW s \in {"confirmed", "obsolete"}, status'[p] = s,
         session'[p] = AllSessions(session[p], s),
         mapped'[p] = mapped[p], event'[p] = event[p], run'[p] = run[p]
  PROVE  RowAgrees(p)'
  <1>1. mapped'[p] = {} /\ event'[p] = {} /\ run'[p].pc = "idle"
    BY UnpublishedRow
  <1>2. \A k \in SessionsOf(p)' : session'[p][k] = s
    BY AllSessionsAre DEF SessionsOf, SessionStatus
  <1>3. QED
    BY <1>1, <1>2, EarlyRowAgrees DEF Revisable

-----------------------------------------------------------------------------
LEMMA PlanNextRows ==
  ASSUME ApplyInv, PlanNext, UNCHANGED applyVars, NEW p \in Plan
  PROVE  RowAgrees(p)'
  <1>1. RowAgrees(p)
    BY DEF ApplyInv
  <1>2. UNCHANGED <<mapped, event, run>>
    BY DEF applyVars
  <1>3. ASSUME NEW r \in CreateRequest, CreateCommit(r)
        PROVE  RowAgrees(p)'
    <2> DEFINE c          == creation[r]
               old        == <<c.group, c.previous>>
               new        == <<c.group, c.previous + 1>>
               superseded == Supersedes(c.group, c.previous)
    <2>1. PICK slots \in (SUBSET Slot) \ {{}} :
            /\ status' = [q \in Plan |->
                            CASE q = new -> "proposed"
                              [] q = old /\ superseded -> "obsolete"
                              [] OTHER -> status[q]]
            /\ session' = [q \in Plan |->
                             CASE q = new -> NewSessions(slots)
                               [] q = old /\ superseded ->
                                    AllSessions(session[q], "obsolete")
                               [] OTHER -> session[q]]
      BY <1>3 DEF CreateCommit
    <2>2. ~ Exists(new)
      BY <1>3 DEF CreateCommit, Collides
    <2>2a. new # old
      BY DEF ApplyInv, Inv, PlanInv, TypeOK, Creation
    <2>3. CASE p = new
      <3>1. mapped'[p] = {} /\ event'[p] = {} /\ run'[p].pc = "idle"
        <4>1. status[p] = "absent"
          BY <2>2, <2>3 DEF Exists
        <4>2. QED
          BY <1>2, <4>1, UnpublishedRow
      <3>2. status'[p] = "proposed" /\ session'[p] = NewSessions(slots)
        <4>1. status'[p] = "proposed"
          BY <2>1, <2>2a, <2>3
        <4>2. session'[p] = NewSessions(slots)
          BY <2>1, <2>2a, <2>3
        <4>3. QED
          BY <4>1, <4>2
      <3>3. \A k \in SessionsOf(p)' : session'[p][k] = "proposed"
        BY <3>2 DEF SessionsOf, NewSessions
      <3>4. QED
        BY <3>1, <3>2, <3>3, EarlyRowAgrees DEF Revisable
    <2>4. CASE p # new /\ p = old /\ superseded
      <3>1. status[p] \in Revisable
        BY <2>4
      <3>2. status'[p] = "obsolete" /\ session'[p] = AllSessions(session[p], "obsolete")
        BY <2>1, <2>4
      <3>3. QED
        BY <1>2, <3>1, <3>2, MovedRowAgrees
    <2>5. CASE p # new /\ ~ (p = old /\ superseded)
      BY <1>1, <1>2, <2>1, <2>5, SameRowAgrees DEF SameRow
    <2>6. QED
      BY <2>3, <2>4, <2>5
  <1>4. ASSUME NEW q \in Plan, NEW s \in {"confirmed", "obsolete"},
               status[q] \in Revisable,
               UpdatePlan(q, s, AllSessions(session[q], s))
        PROVE  RowAgrees(p)'
    <2>1. CASE p = q
      <3>1. status'[p] = s /\ session'[p] = AllSessions(session[p], s)
        BY <1>4, <2>1 DEF UpdatePlan, ApplyInv, Inv, PlanInv, TypeOK
      <3>2. QED
        BY <1>2, <1>4, <2>1, <3>1, MovedRowAgrees
    <2>2. CASE p # q
      BY <1>1, <1>2, <1>4, <2>2, SameRowAgrees
      DEF SameRow, UpdatePlan, ApplyInv, Inv, PlanInv, TypeOK
    <2>3. QED
      BY <2>1, <2>2
  <1>5. ASSUME NEW q \in Plan, Confirm(q) \/ Obsolete(q)
        PROVE  RowAgrees(p)'
    <2>1. CASE Confirm(q)
      BY <2>1, <1>4 DEF Confirm, Revisable
    <2>2. CASE Obsolete(q)
      BY <2>2, <1>4 DEF Obsolete
    <2>3. QED
      BY <1>5, <2>1, <2>2
  <1>6. ASSUME UNCHANGED planRows
        PROVE  RowAgrees(p)'
    BY <1>1, <1>2, <1>6, SameRowAgrees DEF SameRow, planRows
  <1>7. QED
    BY <1>3, <1>5, <1>6
    DEF PlanNext, CreateReplay, CreateMiss, CreateRead, CreateRefused,
        CreateRollback

LEMMA RevalNextRows ==
  ASSUME ApplyInv, RevalNext, UNCHANGED applyVars, NEW p \in Plan
  PROVE  RowAgrees(p)'
  <1>1. RowAgrees(p)
    BY DEF ApplyInv
  <1>2. UNCHANGED <<mapped, event, run>>
    BY DEF applyVars
  <1>3. ASSUME NEW r \in RevalidateRequest, RevalidateCommit(r)
        PROVE  RowAgrees(p)'
    <2> DEFINE q     == reval[r].plan
               after == StatusAfter(status[q], Result(r))
    <2>1. q \in Plan
      BY <1>3 DEF RevalidateCommit, ApplyInv, Inv, RevalsHavePlans, InFlight
    <2>2. /\ status[q] \in ELIGIBLE_REVALIDATION_STATUSES
          /\ after # status[q] => UpdatePlan(q, after, session[q])
          /\ after = status[q] => UNCHANGED <<status, session>>
      BY <1>3 DEF RevalidateCommit, PlanChanged
    <2>3. after \in ELIGIBLE_REVALIDATION_STATUSES
      BY <2>2, ResultType DEF StatusAfter, AuditResult, ELIGIBLE_REVALIDATION_STATUSES
    <2>4. status \in [Plan -> PlanStatus \cup {"absent"}]
          /\ session \in [Plan -> [Slot -> SessionStatus \cup {"absent"}]]
      BY DEF ApplyInv, Inv, PlanInv, TypeOK
    <2> HIDE DEF after, q
    <2>5. CASE after # status[q] /\ p = q
      <3>1. status'[p] = after /\ session'[p] = session[p]
        BY <2>2, <2>4, <2>5 DEF UpdatePlan
      <3>2. mapped'[p] = {} /\ event'[p] = {} /\ run'[p].pc = "idle"
        BY <1>2, <2>2, <2>5, UnpublishedRow
        DEF ELIGIBLE_REVALIDATION_STATUSES, Revisable
      <3>3. \A k \in SessionsOf(p)' : session'[p][k] = "confirmed"
        BY <1>1, <2>2, <2>5, <3>1
        DEF RowAgrees, SessionsAgree, SessionsOf, ELIGIBLE_REVALIDATION_STATUSES
      <3>4. QED
        BY <2>3, <3>1, <3>2, <3>3, EarlyRowAgrees
        DEF ELIGIBLE_REVALIDATION_STATUSES, Revisable
    <2>6. CASE after = status[q] \/ p # q
      <3>1. status'[p] = status[p] /\ session'[p] = session[p]
        BY <2>1, <2>2, <2>4, <2>6 DEF UpdatePlan
      <3>2. QED
        BY <1>1, <1>2, <3>1, SameRowAgrees DEF SameRow
    <2>7. QED
      BY <2>5, <2>6
  <1>4. ASSUME UNCHANGED planVars
        PROVE  RowAgrees(p)'
    BY <1>1, <1>2, <1>4, SameRowAgrees DEF SameRow, planVars
  <1>5. QED
    BY <1>3, <1>4
    DEF RevalNext, RevalidateReplay, RevalidateBegin, ProviderAnswers,
        RevalidateRejected, RevalidateDuplicate, RevalidateAbort

-----------------------------------------------------------------------------
(* Apply itself: the row it works on, step by step.                        *)

LEMMA ClaimRow ==
  ASSUME ApplyInv, NEW p \in Plan, ApplyClaim(p)
  PROVE  RowAgrees(p)'
  <1> USE DEF ApplyInv, RowAgrees
  <1>1. /\ status \in [Plan -> PlanStatus \cup {"absent"}]
        /\ session \in [Plan -> [Slot -> SessionStatus \cup {"absent"}]]
        /\ run \in [Plan -> Run] /\ mapped \in [Plan -> SUBSET Slot]
    BY DEF Inv, PlanInv, TypeOK, ApplyTypeOK
  <1>2. /\ status[p] \in {"confirmed", "partially_applied"}
        /\ status'[p] = "applying" /\ session'[p] = ClaimedSessions(p)
        /\ run'[p] = [pc |-> "calling", todo |-> SessionsOf(p) \ mapped[p],
                      attempts |-> 0]
        /\ UNCHANGED <<mapped, event>>
    BY <1>1 DEF ApplyClaim, UpdatePlan
  <1>3. \A k \in Slot :
          session'[p][k] = IF session[p][k] = "absent" THEN "absent"
                           ELSE IF k \in mapped[p] THEN "applied" ELSE "applying"
    BY <1>2 DEF ClaimedSessions, MappingsAgree, SessionsOf
  <1>4. SessionsOf(p)' = SessionsOf(p)
    BY <1>3 DEF SessionsOf
  <1>5. MappingsAgree(p)'
    BY <1>2, <1>4 DEF MappingsAgree, Published
  <1>6. SessionsAgree(p)'
    BY <1>2, <1>3, <1>4 DEF SessionsAgree, SessionsOf
  <1>7. LoopAgrees(p)'
    BY <1>2, <1>3, <1>4 DEF LoopAgrees, AtSession, SessionsOf
  <1>8. QED
    BY <1>5, <1>6, <1>7

LEMMA CallRow ==
  ASSUME ApplyInv, NEW p \in Plan, NEW k \in Slot,
         EventCreated(p, k) \/ CallFails(p, k)
  PROVE  RowAgrees(p)'
  <1> USE DEF ApplyInv, RowAgrees
  <1>1. /\ run \in [Plan -> Run] /\ event \in [Plan -> SUBSET Slot]
    BY DEF Inv, ApplyTypeOK
  <1>2. AtSession(p, k, "calling") /\ status[p] = "applying"
    BY DEF Inv, RunsHoldTheClaim, EventCreated, CallFails, AtSession
  <1>3. UNCHANGED <<status, session, mapped>>
    BY DEF EventCreated, CallFails, planVars
  <1>4. SessionsOf(p)' = SessionsOf(p)
    BY <1>3 DEF SessionsOf
  <1>5. /\ event[p] \subseteq event'[p]
        /\ run'[p].todo = run[p].todo /\ run'[p].pc # "idle"
        /\ run'[p].pc = "persisting" => k \in event'[p]
    <2>1. CASE EventCreated(p, k)
      BY <1>1, <2>1 DEF EventCreated, Run
    <2>2. CASE CallFails(p, k)
      BY <1>1, <1>2, <2>2 DEF CallFails, Run, AtSession
    <2>3. QED
      BY <2>1, <2>2
  <1>6. MappingsAgree(p)'
    BY <1>2, <1>3, <1>4, <1>5 DEF MappingsAgree, Published
  <1>7. SessionsAgree(p)'
    BY <1>3, <1>4 DEF SessionsAgree
  <1>8. \A j \in Slot : AtSession(p, j, "persisting")' => j = k
    BY <1>2, <1>5, SlotAssumption DEF AtSession
  <1>9. LoopAgrees(p)'
    BY <1>2, <1>3, <1>4, <1>5, <1>8 DEF LoopAgrees, AtSession
  <1>10. QED
    BY <1>6, <1>7, <1>9

(* Session k of the loop is settled with status s.                         *)
LEMMA SettledRow ==
  ASSUME ApplyInv, NEW p \in Plan, NEW k \in Slot,
         SessionFails(p, k) \/ MappingCommits(p, k)
  PROVE  RowAgrees(p)'
  <1> USE DEF ApplyInv, RowAgrees
  <1>1. /\ session \in [Plan -> [Slot -> SessionStatus \cup {"absent"}]]
        /\ run \in [Plan -> Run] /\ mapped \in [Plan -> SUBSET Slot]
    BY DEF Inv, PlanInv, TypeOK, ApplyTypeOK
  <1>2. /\ k \in run[p].todo /\ run[p].pc # "idle" /\ status[p] = "applying"
        /\ UNCHANGED <<status, event>>
    BY DEF Inv, RunsHoldTheClaim, SessionFails, MappingCommits, AtSession
  <1>3. k \in SessionsOf(p) /\ k \notin mapped[p]
    BY <1>2 DEF LoopAgrees
  <1>4. run'[p].todo = run[p].todo \ {k} /\ run'[p].pc = "calling"
    BY <1>1 DEF SessionFails, MappingCommits, Advance
  <1>5. /\ \A j \in Slot \ {k} : session'[p][j] = session[p][j]
        /\ \/ mapped'[p] = mapped[p] /\ session'[p][k] = "failed"
           \/ /\ mapped'[p] = mapped[p] \cup {k} /\ session'[p][k] = "applied"
              /\ k \in event[p]
    <2>1. CASE SessionFails(p, k)
      BY <1>1, <2>1 DEF SessionFails
    <2>2. CASE MappingCommits(p, k)
      BY <1>1, <1>2, <2>2 DEF MappingCommits, LoopAgrees
    <2>3. QED
      BY <2>1, <2>2
  <1>6. SessionsOf(p)' = SessionsOf(p)
    BY <1>3, <1>5 DEF SessionsOf
  <1>7. MappingsAgree(p)'
    BY <1>2, <1>3, <1>5, <1>6 DEF MappingsAgree, Published
  <1>8. SessionsAgree(p)'
    BY <1>2, <1>3, <1>5, <1>6 DEF SessionsAgree, SessionsOf
  <1>9. LoopAgrees(p)'
    BY <1>2, <1>3, <1>4, <1>5, <1>6 DEF LoopAgrees, AtSession, SessionsOf
  <1>10. QED
    BY <1>7, <1>8, <1>9

LEMMA EndedRow ==
  ASSUME ApplyInv, NEW p \in Plan, ApplySettles(p) \/ ApplyAbort(p)
  PROVE  RowAgrees(p)'
  <1> USE DEF ApplyInv, RowAgrees
  <1>1. /\ status \in [Plan -> PlanStatus \cup {"absent"}]
        /\ session \in [Plan -> [Slot -> SessionStatus \cup {"absent"}]]
        /\ run \in [Plan -> Run]
    BY DEF Inv, PlanInv, TypeOK, ApplyTypeOK
  <1>2. /\ run'[p].pc = "idle" /\ session'[p] = session[p]
        /\ mapped'[p] = mapped[p] /\ event'[p] = event[p]
        /\ run[p].pc # "idle" /\ status[p] = "applying"
    BY <1>1
    DEF ApplySettles, ApplyAbort, UpdatePlan, planVars, Idle, Inv,
        RunsHoldTheClaim
  <1>3. SessionsOf(p)' = SessionsOf(p)
    BY <1>2 DEF SessionsOf
  <1>4. LoopAgrees(p)'
    BY <1>2 DEF LoopAgrees
  <1>5. CASE ApplySettles(p)
    <2>1. status'[p] = ResultingStatus(p) /\ run[p].todo = {}
      BY <1>1, <1>5 DEF ApplySettles, UpdatePlan
    <2>2. MappingsAgree(p)'
      BY <1>2, <1>3, <2>1 DEF MappingsAgree, ResultingStatus, Published
    <2>3. \A j \in SessionsOf(p) :
            session[p][j] = IF j \in mapped[p] THEN "applied" ELSE "failed"
      BY <1>2, <2>1 DEF LoopAgrees, SessionsAgree
    <2>4. SessionsAgree(p)'
      BY <1>2, <1>3, <2>1, <2>3 DEF SessionsAgree, ResultingStatus
    <2>5. QED
      BY <1>4, <2>2, <2>4
  <1>6. CASE ApplyAbort(p)
    <2>1. status'[p] = status[p]
      BY <1>6 DEF ApplyAbort, planVars
    <2>2. MappingsAgree(p)' /\ SessionsAgree(p)'
      BY <1>2, <1>3, <2>1 DEF MappingsAgree, SessionsAgree
    <2>3. QED
      BY <1>4, <2>2
  <1>7. QED
    BY <1>5, <1>6

LEMMA ApplyLeavesOtherRows ==
  ASSUME ApplyInv, NEW p \in Plan, NEW q \in Plan \ {p},
         ApplyClaim(p) \/ ApplyStep(p) \/ ApplyAbort(p)
  PROVE  SameRow(q)
  <1> USE DEF SameRow
  <1>1. /\ status \in [Plan -> PlanStatus \cup {"absent"}]
        /\ session \in [Plan -> [Slot -> SessionStatus \cup {"absent"}]]
        /\ run \in [Plan -> Run] /\ mapped \in [Plan -> SUBSET Slot]
        /\ event \in [Plan -> SUBSET Slot]
    BY DEF ApplyInv, Inv, PlanInv, TypeOK, ApplyTypeOK
  <1>2. CASE ApplyClaim(p) \/ ApplySettles(p) \/ ApplyAbort(p)
    BY <1>1, <1>2 DEF ApplyClaim, ApplySettles, ApplyAbort, UpdatePlan, planVars
  <1>3. ASSUME NEW k \in Slot, EventCreated(p, k) \/ CallFails(p, k)
        PROVE  SameRow(q)
    BY <1>1, <1>3 DEF EventCreated, CallFails, planVars
  <1>4. ASSUME NEW k \in Slot, SessionFails(p, k) \/ MappingCommits(p, k)
        PROVE  SameRow(q)
    BY <1>1, <1>4 DEF SessionFails, MappingCommits, Advance
  <1>5. QED
    BY <1>2, <1>3, <1>4 DEF ApplyStep

LEMMA ApplyNextRows ==
  ASSUME ApplyInv, ApplyNext, NEW p \in Plan
  PROVE  RowAgrees(p)'
  <1>1. PICK q \in Plan : ApplyClaim(q) \/ ApplyStep(q) \/ ApplyAbort(q)
    BY DEF ApplyNext
  <1>2. CASE p = q
    BY <1>1, <1>2, ClaimRow, CallRow, SettledRow, EndedRow DEF ApplyStep
  <1>3. CASE p # q
    <2>1. SameRow(p)
      BY <1>1, <1>3, ApplyLeavesOtherRows
    <2>2. QED
      BY <2>1, SameRowAgrees DEF ApplyInv
  <1>4. QED
    BY <1>2, <1>3

-----------------------------------------------------------------------------
LEMMA InitApplyInv == Init => ApplyInv
  <1> SUFFICES ASSUME Init, NEW p \in Plan PROVE RowAgrees(p)
    BY InitInv DEF ApplyInv
  <1>1. SessionsOf(p) = {}
    BY DEF Init, PlanInit, SessionsOf
  <1>2. /\ status[p] = "absent" /\ mapped[p] = {} /\ event[p] = {}
        /\ run[p].pc = "idle"
    BY DEF Init, PlanInit, ApplyInit, Idle
  <1>3. QED
    BY <1>1, <1>2 DEF RowAgrees, MappingsAgree, SessionsAgree, LoopAgrees

LEMMA NextApplyInv == ApplyInv /\ [Next]_vars => ApplyInv'
  <1> SUFFICES ASSUME ApplyInv, [Next]_vars, NEW p \in Plan
               PROVE  RowAgrees(p)'
    BY NextInv DEF ApplyInv
  <1>1. CASE UNCHANGED vars
    BY <1>1, SameRowAgrees DEF ApplyInv, SameRow, vars, planVars, applyVars
  <1>2. CASE Next
    BY <1>2, PlanNextRows, RevalNextRows, ApplyNextRows DEF Next
  <1>3. QED
    BY <1>1, <1>2

LEMMA SpecApplyInv == Spec => []ApplyInv
  <1>1. QED
    BY InitApplyInv, NextApplyInv, PTL DEF Spec

(* apply writes a mapping only for an event Google has accepted, and a plan *)
(* that was not claimed has nothing in the calendar.                       *)
THEOREM MappingsHaveEventsTheorem == Spec => []MappingsHaveEvents
  <1>1. ApplyInv => MappingsHaveEvents
    BY DEF ApplyInv, RowAgrees, MappingsAgree, MappingsHaveEvents
  <1>2. QED
    BY <1>1, SpecApplyInv, PTL

(* The status apply settles a plan in says how many of its sessions have a *)
(* mapping, for any number of sessions, retries and deaths of requests.    *)
THEOREM StatusTellsMappingsTheorem == Spec => []StatusTellsMappings
  <1>1. ApplyInv => StatusTellsMappings
    BY DEF ApplyInv, RowAgrees, MappingsAgree, StatusTellsMappings
  <1>2. QED
    BY <1>1, SpecApplyInv, PTL

(* The session rows follow their plan's row at every commit.               *)
THEOREM SessionsFollowPlanTheorem == Spec => []SessionsFollowPlan
  <1>1. ApplyInv => SessionsFollowPlan
    BY DEF ApplyInv, RowAgrees, SessionsAgree, SessionsFollowPlan
  <1>2. QED
    BY <1>1, SpecApplyInv, PTL

(* create_schedule_plan_from_preview either inserts its plan or leaves     *)
(* every plan row as it was, whatever other requests do meanwhile.         *)
THEOREM CreateIsAtomicTheorem == Spec => CreateIsAtomic
  <1>1. ASSUME Inv, [Next]_vars, NEW r \in CreateRequest,
               creation[r].pc = "read", creation[r]'.pc = "done"
        PROVE  \/ UNCHANGED <<status, session>>
               \/ LET p == creation[r]'.result IN
                  p \in Plan /\ ~ Exists(p) /\ status'[p] = "proposed"
    <2>1. creation \in [CreateRequest -> Creation]
      BY <1>1 DEF Inv, PlanInv, TypeOK
    <2>2. creation' # creation
      BY <1>1
    <2>3. PlanNext
      BY <1>1, <2>2
      DEF Next, vars, planVars, RevalNext, RevalidateReplay, RevalidateBegin,
          ProviderAnswers, RevalidateRejected, RevalidateCommit,
          RevalidateDuplicate, RevalidateAbort, UpdatePlan, ApplyNext,
          ApplyStep, ApplyClaim, EventCreated, CallFails, SessionFails,
          MappingCommits, ApplySettles, ApplyAbort
    <2>4. ASSUME NEW s \in CreateRequest, CreateCommit(s)
          PROVE  LET p == creation[r]'.result IN
                 p \in Plan /\ ~ Exists(p) /\ status'[p] = "proposed"
      <3> DEFINE c   == creation[s]
                 old == <<c.group, c.previous>>
                 new == <<c.group, c.previous + 1>>
      <3>1. r = s
        BY <1>1, <2>1, <2>4 DEF CreateCommit, Answer
      <3>2. creation'[r].result = new
        BY <2>1, <2>4, <3>1 DEF CreateCommit, Answer
      <3>3. new \in Plan /\ new # old
        BY <1>1, <2>1, <2>4, MaxVersionAssumption
        DEF CreateCommit, Inv, PlanInv, PendingCreates, Plan, Creation
      <3>4. status'[new] = CASE new = new -> "proposed"
                             [] new = old /\ Supersedes(c.group, c.previous)
                                  -> "obsolete"
                             [] OTHER -> status[new]
        BY <2>4, <3>3 DEF CreateCommit
      <3>5. status'[new] = "proposed"
        BY <3>3, <3>4
      <3>6. ~ Exists(new)
        BY <2>4 DEF CreateCommit, Collides
      <3>7. QED
        BY <3>2, <3>3, <3>5, <3>6
    <2>5. QED
      BY <2>2, <2>3, <2>4
      DEF PlanNext, CreateReplay, CreateMiss, CreateRead, CreateRefused,
          CreateRollback, Confirm, Obsolete, planRows
  <1>2. Inv /\ [Next]_vars =>
          [\A r \in CreateRequest :
             creation[r].pc = "read" /\ creation[r]'.pc = "done" =>
               \/ UNCHANGED <<status, session>>
               \/ LET p == creation[r]'.result IN
                  p \in Plan /\ ~ Exists(p) /\ status'[p] = "proposed"]_planVars
    BY <1>1
  <1>3. QED
    BY <1>2, SpecInv, PTL DEF Spec, CreateIsAtomic
=============================================================================
