------------------------- MODULE MCCalendarSyncSystem -------------------------
(***************************************************************************)
(* CalendarSyncSystem on small instances.                                  *)
(***************************************************************************)
EXTENDS CalendarSyncSystem, TLC

(* Two adjacent hours, and one that overlaps both.                         *)
TwoPlacements == {<<1, 2>>, <<2, 3>>}
ThreePlacements == {<<1, 2>>, <<2, 3>>, <<1, 3>>}

MorningWindow == <<1, 2>>

RequestSymmetry == Permutations(PullRequest) \cup Permutations(ProcessRequest)
=============================================================================
