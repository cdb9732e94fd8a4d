-------------------------- MODULE SchedulePlanSystem --------------------------
(***************************************************************************)
(* The schedule-plan subsystem: plan requests, revalidations and apply     *)
(* requests run concurrently on the same rows.  Each component's actions   *)
(* leave the other components' own variables alone.                        *)
(***************************************************************************)
EXTENDS PlanRevalidation, PlanApply

VARIABLE
  overtaken  (* history: the revalidations in flight whose plan has        *)
             (* changed its status since they read it, whoever changed it  *)
             (* and whatever the status is now                             *)

vars == <<planVars, revalVars, applyVars, overtaken>>

Init == PlanInit /\ RevalInit /\ ApplyInit /\ overtaken = {}

Overtaken(r) ==
  \/ r \in overtaken
  \/ InFlight(r) /\ status'[reval[r].plan] # status[reval[r].plan]

Overtakes ==
  overtaken' = {r \in RevalidateRequest : Overtaken(r) /\ InFlight(r)'}

Next ==
  \/ PlanNext  /\ UNCHANGED <<revalVars, applyVars>> /\ Overtakes
  \/ RevalNext /\ UNCHANGED applyVars /\ Overtakes
  \/ ApplyNext /\ UNCHANGED revalVars /\ Overtakes

Spec == Init /\ [][Next]_vars

(* The event loop keeps running a claimed plan's loop and every HTTP call  *)
(* ends, by an answer or by the client's timeout.                          *)
ApplyProgress ==
  \A p \in Plan : WF_vars(ApplyStep(p) /\ UNCHANGED revalVars /\ Overtakes)

(* A client that keeps asking: every plan apply accepts is applied again.  *)
ClientsRetry ==
  \A p \in Plan : WF_vars(ApplyClaim(p) /\ UNCHANGED revalVars /\ Overtakes)

FairSpec == Spec /\ ApplyProgress /\ ClientsRetry

-----------------------------------------------------------------------------
(* Every column and every request's memory holds what it may hold.         *)
SystemTypeOK ==
  /\ TypeOK /\ RevalTypeOK /\ ApplyTypeOK
  /\ overtaken \subseteq RevalidateRequest

(* A stale result is dropped: once the plan's status has changed under a   *)
(* revalidation that awaits the provider, by a claim, a confirmation       *)
(* another revalidation took back or gave, an obsoletion, and even if the  *)
(* plan has since come back to the status that was read, every step of     *)
(* that revalidation leaves plans, sessions and audit rows as they are     *)
(* (docs/schedule-plan-revalidation.md:117-120).                           *)
StaleResultsAreDropped ==
  [][\A r \in overtaken :
       reval'[r] # reval[r] => UNCHANGED <<planRows, audit>>]_vars

(* The plan API's view: statuses, contents and mappings behave like        *)
(* PlanLifecycle, whatever requests, retries and crashes are behind it.    *)
Lifecycle ==
  INSTANCE PlanLifecycle WITH
    content <- [p \in Plan |-> SessionsOf(p)],
    published <- mapped

ImplementsLifecycle == Lifecycle!Spec

(* A claimed plan leaves applying, whatever Google answers and however     *)
(* often calls are retried, unless an apply request dies.                  *)
ApplySettlesEventually ==
  \A p \in Plan :
    status[p] = "applying" ~> status[p] # "applying" \/ aborts > 0

(* docs/schedule-plans.md: a crash after Google accepts an event but before *)
(* its mapping commits can be recovered by retrying.                       *)
CrashIsRecovered ==
  \A p \in Plan :
    (status[p] = "applying" /\ run[p].pc = "idle" /\ event[p] # mapped[p])
      ~> status[p] # "applying"
=============================================================================
