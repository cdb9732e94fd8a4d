---------------------------- MODULE SchedulerLoops ----------------------------
(***************************************************************************)
(* The loops of the code on what scheduling leads to: the reservations of  *)
(* the blocks placed so far, cut from the constrained intervals of a task, *)
(* and taken for the busy intervals of a planning window.                  *)
(***************************************************************************)
EXTENDS Scheduler, AvailabilityLoops

CONSTANTS
  PlanningWindow,  (* the windows that are asked for                       *)
  WorkingHours     (* each day's working windows, in wall-clock minutes    *)

ASSUME PlanningAssumption ==
  /\ \A window \in PlanningWindow : IsInterval(window)
  /\ IsWorkingHours(WorkingHours)

(* The loops of the code compute the sets the model is written with, for   *)
(* every reservation that scheduling leads to.                             *)
LoopsComputeAvailability ==
  /\ \A t \in pending :
       SubtractLoop(Constrained(t), Reservations) = Available(t)
  /\ \A window \in PlanningWindow :
       FreeLoop(window, WorkingHours, Reservations)
         = FreeIntervals(window, WorkingHours, Reservations)
=============================================================================
