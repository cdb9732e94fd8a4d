-------------------------- MODULE AvailabilityLoops --------------------------
(***************************************************************************)
(* The loops of app/availability/calculator.py and of _subtract_intervals  *)
(* in app/scheduling/scheduler.py over sorted sequences of intervals.      *)
(* They compute the sets that Availability defines.                        *)
(***************************************************************************)
EXTENDS Availability, SequencesExt

(* Dataclass order: by start, then by end.                                 *)
SortsBefore(i, j) == i[1] < j[1] \/ (i[1] = j[1] /\ i[2] < j[2])

(* The n-th of the sorted intervals is the one with n - 1 before it.       *)
Sorted(intervals) ==
  [n \in 1 .. Cardinality(intervals) |->
     CHOOSE i \in intervals :
       Cardinality({j \in intervals : SortsBefore(j, i)}) = n - 1]

MergeOne_TouchingApart(merged, interval) ==
  IF merged = << >> \/ Last(merged)[2] <= interval[1]
  THEN Append(merged, interval)
  ELSE [merged EXCEPT ![Len(merged)] =
          <<Last(merged)[1], Later(Last(merged)[2], interval[2])>>]

MergeOne(merged, interval) ==
  IF merged = << >> \/ Last(merged)[2] < interval[1]
  THEN Append(merged, interval)
  ELSE [merged EXCEPT ![Len(merged)] =
          <<Last(merged)[1], Later(Last(merged)[2], interval[2])>>]

MergeLoop(intervals) == FoldLeft(MergeOne, << >>, Sorted(intervals))

(* One round of the inner loop of _subtract_busy.  The code leaves the     *)
(* loop when the rest of the busy intervals cannot matter.                 *)
SubtractBusyOne(working, scan, busy) ==
  IF busy[2] <= scan.cursor \/ busy[1] >= working[2] THEN scan
  ELSE [free |-> IF busy[1] > scan.cursor
                 THEN Append(scan.free,
                             <<scan.cursor, Earlier(busy[1], working[2])>>)
                 ELSE scan.free,
        cursor |-> Later(scan.cursor, busy[2])]

SubtractBusyLoop(working, busy) ==
  LET scan == FoldLeft(LAMBDA s, b : SubtractBusyOne(working, s, b),
                       [free |-> << >>, cursor |-> working[1]], busy)
  IN IF scan.cursor < working[2]
     THEN Append(scan.free, <<scan.cursor, working[2]>>)
     ELSE scan.free

(* One round of the outer loop of _subtract_intervals.                     *)
SubtractOne(sources, reservation) ==
  UNION {IF ~ Overlap(reservation, s) THEN {s}
         ELSE {p \in {<<s[1], reservation[1]>>, <<reservation[2], s[2]>>} :
                 p[1] < p[2]} : s \in sources}

SubtractLoop(sources, reservations) ==
  FoldLeft(SubtractOne, sources, Sorted(reservations))

FreeLoop(planning, hours, busy) ==
  LET working == MergeLoop(Clipped(WorkingWindows(hours), planning))
      occupied == MergeLoop(Clipped(busy, planning))
  IN UNION {ToSet(SubtractBusyLoop(w, occupied)) : w \in ToSet(working)}
=============================================================================
