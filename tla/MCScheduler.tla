----------------------------- MODULE MCScheduler -----------------------------
(***************************************************************************)
(* Scheduler over two short days: the tasks, preferences and free time of  *)
(* small previews.                                                         *)
(***************************************************************************)
EXTENDS SchedulerLoops

(* The first day's windows touch.                                          *)
Hours == [d \in {0, 1} |-> IF d = 0 THEN {<<1, 3>>, <<3, 7>>} ELSE {<<0, 4>>}]

WholeWindow == <<0, 2 * DayLength>>
PartWindow == <<2, DayLength + 3>>

PlanningWindows == {WholeWindow, PartWindow}

FreeTimes ==
  {FreeIntervals(WholeWindow, Hours, {}),
   FreeIntervals(PartWindow, Hours, {<<0, 2>>, <<4, 5>>, <<5, 5 + DayLength>>}),
   FreeIntervals(WholeWindow, Hours, {<<3, 4>>})}

WholeTasks ==
  [duration : {2, 3}, priority : {1, 2}, earliest : {NoTime, 2},
   deadline : {NoTime, DayLength + 2}, preferred : {<<4, 7>>}, splittable : {FALSE},
   minimum : {1}, maxPerDay : {1}]

SplitTasks ==
  [duration : {4, 5, 7}, priority : {1}, earliest : {NoTime},
   deadline : {NoTime, DayLength + 2}, preferred : {NoPreference},
   splittable : {TRUE}, minimum : {1, 2, 5}, maxPerDay : {1, 2}]

TaskInputs == WholeTasks \cup SplitTasks

PreferencesInputs ==
  {[break |-> 0, cutoff |-> NoTime, minimum |-> 1, preferred |-> NoPreference],
   [break |-> 1, cutoff |-> 6, minimum |-> 1, preferred |-> <<2, 5>>],
   [break |-> 1, cutoff |-> NoTime, minimum |-> 2, preferred |-> NoPreference],
   [break |-> 0, cutoff |-> 5, minimum |-> 2, preferred |-> <<0, 3>>]}
=============================================================================
