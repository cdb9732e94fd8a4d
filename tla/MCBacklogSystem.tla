--------------------------- MODULE MCBacklogSystem ---------------------------
(***************************************************************************)
(* BacklogSystem on small instances.                                       *)
(***************************************************************************)
EXTENDS BacklogSystem, TLC

CONSTANTS Client1

(* The keys clients choose and the keys the backlog derives.               *)
ClientAndSelectionKeys == {Client1} \cup SelectionKey

Symmetry == Permutations(Entry) \cup Permutations(Group)
=============================================================================
