------------------------- MODULE MCSchedulePlanSystem -------------------------
(* Small instances of SchedulePlanSystem for TLC; the .cfg files say which  *)
(* kinds of request each run has, and whether InFlightBound is a bound.     *)
EXTENDS SchedulePlanSystem, FiniteSets, TLC

Symmetry ==
  Permutations(Group) \cup Permutations(Key) \cup Permutations(CreateRequest)
  \cup Permutations(RevalidateRequest) \cup Permutations(RequestId)

MaxInFlight == 2

InFlightBound ==
  Cardinality({r \in RevalidateRequest : InFlight(r)}) <= MaxInFlight
=============================================================================
