----------------------------- MODULE Availability -----------------------------
(***************************************************************************)
(* Half-open time intervals <<start, end>> and the free time they leave    *)
(* (calculate_free_intervals in app/availability/calculator.py), stated by *)
(* what the intervals cover.  AvailabilityLoops has the loops of the code. *)
(*                                                                         *)
(* Time is counted in minutes from the midnight that begins day 0 in the   *)
(* user's time zone; how wall-clock times become instants on the days the  *)
(* clock changes is left out.                                              *)
(***************************************************************************)
EXTENDS Integers

CONSTANT DayLength  (* minutes in a day                                    *)

ASSUME DayLengthAssumption == DayLength \in Nat \ {0}

-----------------------------------------------------------------------------

Earlier(x, y) == IF x <= y THEN x ELSE y
Later(x, y) == IF x <= y THEN y ELSE x

IsInterval(i) == i \in Int \X Int /\ i[1] < i[2]

Minutes(i) == i[2] - i[1]

Overlap(i, j) == i[1] < j[2] /\ j[1] < i[2]

Within(i, j) == j[1] <= i[1] /\ i[2] <= j[2]

Day(t) == t \div DayLength

(* The instant of a wall-clock time on the day of t.                       *)
OnDayOf(t, clock) == Day(t) * DayLength + clock

Clipped(intervals, window) ==
  {<<Later(i[1], window[1]), Earlier(i[2], window[2])>> :
     i \in {j \in intervals : Overlap(j, window)}}

(* The maximal intervals that a set of intervals covers: those that        *)
(* overlap or touch become one.                                            *)
Merged(intervals) ==
  {m \in {i[1] : i \in intervals} \X {i[2] : i \in intervals} :
     /\ m[1] < m[2]
     /\ \A i \in intervals :
          /\ ~ (i[1] < m[1] /\ m[1] <= i[2])
          /\ ~ (i[1] <= m[2] /\ m[2] < i[2])
          /\ m[1] <= i[2] /\ i[2] < m[2] =>
               \E j \in intervals : j[1] <= i[2] /\ i[2] < j[2]}

(* The maximal parts of an interval that nothing reserved overlaps.        *)
Gaps(interval, reserved) ==
  {g \in ({interval[1]} \cup {r[2] : r \in reserved})
         \X ({interval[2]} \cup {r[1] : r \in reserved}) :
     /\ g[1] < g[2]
     /\ Within(g, interval)
     /\ \A r \in reserved : ~ Overlap(g, r)}

(* hours maps each day to its working windows, in wall-clock minutes.      *)
WorkingWindows(hours) ==
  UNION {{<<d * DayLength + w[1], d * DayLength + w[2]>> : w \in hours[d]} :
           d \in DOMAIN hours}

WorkingIntervals(planning, hours) ==
  Merged(Clipped(WorkingWindows(hours), planning))

FreeIntervals(planning, hours, busy) ==
  UNION {Gaps(w, Clipped(busy, planning)) :
           w \in WorkingIntervals(planning, hours)}
=============================================================================
