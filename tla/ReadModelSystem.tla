---------------------------- MODULE ReadModelSystem ----------------------------
(***************************************************************************)
(* The read models beside the plan subsystem: a planner or a day-view      *)
(* request reads, in its several steps, the rows that plan requests,       *)
(* revalidations and apply requests commit.  Readers write nothing, so one *)
(* reader at a time shows all that any number of them can see.             *)
(***************************************************************************)
EXTENDS SchedulePlanSystem, CalendarDay, Planner

readVars == <<day, planner>>

ReadModelInit == Init /\ DayInit /\ PlannerInit

ReadModelNext ==
  \/ Next /\ UNCHANGED readVars
  \/ /\ planner = NoPlanner
     /\ DayNext
     /\ UNCHANGED <<revalVars, overtaken, planner>>
  \/ /\ day = NoDayView
     /\ PlannerNext
     /\ UNCHANGED <<revalVars, overtaken, day>>

ReadModelSpec == ReadModelInit /\ [][ReadModelNext]_<<vars, readVars>>

-----------------------------------------------------------------------------
ReadModelTypeOK == DayTypeOK /\ PlannerTypeOK
=============================================================================
