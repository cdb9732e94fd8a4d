------------------------------- MODULE Scheduler -------------------------------
(***************************************************************************)
(* The scheduler behind every preview (schedule_tasks in                   *)
(* app/scheduling/scheduler.py): a greedy algorithm that takes the tasks   *)
(* in order of urgency and places one block per step in the best gap left. *)
(* Its input is what generate_schedule_preview passes: tasks, the free     *)
(* time, and preferences, without accepted blocks, which only a demo has.  *)
(*                                                                         *)
(* Reason codes, score components and warnings are left out: they explain  *)
(* the placement and do not influence it.                                  *)
(***************************************************************************)
EXTENDS Availability, FiniteSets

CONSTANTS
  Task,         (* task ids, in their order                                *)
  TaskInput,    (* SchedulingTask values: see SchedulingTask               *)
  Preferences,  (* SchedulerPreferences values                             *)
  FreeTime,     (* the sets of free intervals to plan in                   *)
  NoTime,       (* no deadline, no earliest start, no cutoff               *)
  NoPreference  (* no preferred time of day                                *)

(* A window ends at the latest in the last minute of its day: the evening  *)
(* ends at time.max, which a block that ends at midnight overruns.         *)
TimeOfDay ==
  {NoPreference} \cup
  {w \in (0 .. DayLength - 1) \X (0 .. DayLength - 1) : w[1] < w[2]}

SchedulingTask ==
  [duration : Nat \ {0}, priority : Nat, earliest : Int \cup {NoTime},
   deadline : Int \cup {NoTime}, preferred : TimeOfDay, splittable : BOOLEAN,
   minimum : Nat \ {0}, maxPerDay : Nat \ {0}]

SchedulerPreferences ==
  [break : Nat, cutoff : Nat \cup {NoTime}, minimum : Nat \ {0},
   preferred : TimeOfDay]

(* What calculate_free_intervals returns: intervals that do not overlap,   *)
(* each within one day, because a working window ends before midnight.     *)
IsFreeTime(intervals) ==
  /\ \A f \in intervals : IsInterval(f) /\ Day(f[1]) = Day(f[2])
  /\ \A f, g \in intervals : Overlap(f, g) => f = g

(* Finitely many working windows on finitely many days, in minutes of the  *)
(* day.                                                                    *)
IsWorkingHours(hours) ==
  /\ IsFiniteSet(DOMAIN hours) /\ DOMAIN hours \subseteq Int
  /\ \A d \in DOMAIN hours :
       /\ IsFiniteSet(hours[d])
       /\ \A w \in hours[d] :
            /\ w \in (0 .. DayLength - 1) \X (0 .. DayLength - 1)
            /\ w[1] < w[2]

ASSUME TaskAssumption == Task \subseteq Nat /\ IsFiniteSet(Task)
ASSUME NoTimeAssumption == NoTime \notin Int
ASSUME PreferenceAssumption == NoPreference \notin Int \X Int
ASSUME InputAssumption ==
  /\ TaskInput \subseteq SchedulingTask
  /\ Preferences \subseteq SchedulerPreferences
  /\ \A intervals \in FreeTime : IsFreeTime(intervals)

VARIABLES
  task,         (* the tasks                                               *)
  preferences,  (* the preferences                                         *)
  free,         (* the free intervals                                      *)
  placed,       (* the blocks placed so far, [task, at]                    *)
  remaining,    (* the minutes of each task that are not placed            *)
  pending       (* the tasks the outer loop has still to deal with         *)

vars == <<task, preferences, free, placed, remaining, pending>>

-----------------------------------------------------------------------------
(* _task_validation_error finds nothing.                                   *)
Valid(t) ==
  /\ task[t].earliest # NoTime /\ task[t].deadline # NoTime =>
       task[t].earliest < task[t].deadline
  /\ task[t].splittable => task[t].minimum <= task[t].duration

(* _task_sort_key                                                          *)
Precedes(t, u) ==
  LET a == task[t]
      b == task[u]
      sooner == /\ a.deadline # NoTime
                /\ b.deadline # NoTime => a.deadline < b.deadline
  IN \/ a.priority < b.priority
     \/ a.priority = b.priority /\ sooner
     \/ a.priority = b.priority /\ a.deadline = b.deadline /\ t < u

IsCurrent(t) ==
  /\ t \in pending
  /\ \A u \in pending \ {t} : Precedes(t, u)

EffectiveMinimum(t) == Later(task[t].minimum, preferences.minimum)

-----------------------------------------------------------------------------
(* The part of a free interval between the task's earliest start and its   *)
(* deadline, and before the cutoff of the day it begins on.                *)
Allowed(t, f) ==
  LET start == IF task[t].earliest = NoTime THEN f[1]
               ELSE Later(f[1], task[t].earliest)
      end   == IF task[t].deadline = NoTime THEN f[2]
               ELSE Earlier(f[2], task[t].deadline)
  IN <<start, IF preferences.cutoff = NoTime THEN end
              ELSE Earlier(end, OnDayOf(start, preferences.cutoff))>>

Constrained(t) == {i \in {Allowed(t, f) : f \in free} : i[1] < i[2]}

(* Every block placed so far, with its breaks.                             *)
Reservations_BreakAfterOnly ==
  {<<b.at[1], b.at[2] + preferences.break>> : b \in placed}

Reservations ==
  {<<b.at[1] - preferences.break, b.at[2] + preferences.break>> : b \in placed}

(* _available_for_task                                                     *)
Available(t) == UNION {Gaps(i, Reservations) : i \in Constrained(t)}

(* _splittable_session_minutes                                             *)
SessionMinutes_FillsGap(left, available, minimum) ==
  IF available < minimum \/ left < minimum THEN 0 ELSE Earlier(left, available)

SessionMinutes(left, available, minimum) ==
  LET shorter == IF left - available < minimum THEN left - minimum ELSE available
  IN
  CASE available < minimum \/ left < minimum -> 0
    [] minimum <= left /\ left <= available -> left
    [] minimum <= available /\ available < left ->
         IF shorter >= minimum THEN shorter ELSE 0

BlockMinutes_TooStrict(t, gap) ==
  IF task[t].splittable
  THEN SessionMinutes(remaining[t], Minutes(gap), EffectiveMinimum(t))
  ELSE IF Minutes(gap) > remaining[t] THEN remaining[t] ELSE 0

BlockMinutes(t, gap) ==
  IF task[t].splittable
  THEN SessionMinutes(remaining[t], Minutes(gap), EffectiveMinimum(t))
  ELSE IF Minutes(gap) >= remaining[t] THEN remaining[t] ELSE 0

SessionsOn(t, day) == Cardinality({b \in placed : b.task = t /\ Day(b.at[1]) = day})

Preferred(t) ==
  IF task[t].preferred # NoPreference THEN task[t].preferred ELSE preferences.preferred

(* _preferred_start: the block goes into the preferred window of the day   *)
(* if it fits there, and to the beginning of the gap otherwise.            *)
PreferredStart(t, gap) ==
  Later(gap[1], OnDayOf(gap[1], Preferred(t)[1]))

MatchesPreference(t, gap, minutes) ==
  /\ Preferred(t) # NoPreference
  /\ PreferredStart(t, gap) + minutes
       <= Earlier(gap[2], OnDayOf(gap[1], Preferred(t)[2]))

Candidate(t, gap) ==
  LET minutes == BlockMinutes(t, gap)
      match   == MatchesPreference(t, gap, minutes)
      start   == IF match THEN PreferredStart(t, gap) ELSE gap[1]
  IN [at |-> <<start, start + minutes>>, gap |-> gap, match |-> match]

(* _build_candidates                                                       *)
Candidates(t) ==
  {Candidate(t, g) :
     g \in {h \in Available(t) :
              /\ SessionsOn(t, Day(h[1])) < task[t].maxPerDay
              /\ BlockMinutes(t, h) > 0}}

Score(t, c) ==
  LET spare  == Minutes(c.gap) - Minutes(c.at)
      buffer == IF task[t].deadline = NoTime THEN 0
                ELSE Later(task[t].deadline - c.at[2], 0)
  IN (IF c.match THEN 1000000 ELSE 0)
     + Minutes(c.at) * 100
     + Earlier(buffer, 10080)
     - (IF 0 < spare /\ spare < EffectiveMinimum(t) THEN spare ELSE 0)

Better_ByScoreOnly(t, c, d) == Score(t, c) > Score(t, d)

Better(t, c, d) ==
  \/ Score(t, c) > Score(t, d)
  \/ Score(t, c) = Score(t, d) /\ c.at[1] < d.at[1]
  \/ Score(t, c) = Score(t, d) /\ c.at[1] = d.at[1] /\ c.at[2] < d.at[2]

IsSelected(t, c) ==
  /\ c \in Candidates(t)
  /\ \A d \in Candidates(t) : ~ Better(t, d, c)

-----------------------------------------------------------------------------
(* Invalid tasks are reported unscheduled and never pending.               *)
Init ==
  /\ task \in [Task -> TaskInput]
  /\ preferences \in Preferences
  /\ free \in FreeTime
  /\ placed = {}
  /\ remaining = [t \in Task |-> task[t].duration]
  /\ pending = {t \in Task : Valid(t)}

(* One round of _place_task's loop that finds a candidate.                 *)
Place(t) ==
  /\ IsCurrent(t)
  /\ \E c \in Candidates(t) :
       /\ IsSelected(t, c)
       /\ placed' = placed \cup {[task |-> t, at |-> c.at]}
       /\ remaining' = [remaining EXCEPT ![t] = @ - Minutes(c.at)]
  /\ pending' = IF remaining'[t] = 0 THEN pending \ {t} ELSE pending
  /\ UNCHANGED <<task, preferences, free>>

(* A round that finds none: what is left of the task is unscheduled.       *)
GiveUp_TriesAgain(t) ==
  /\ IsCurrent(t)
  /\ Candidates(t) = {}
  /\ UNCHANGED vars

GiveUp(t) ==
  /\ IsCurrent(t)
  /\ Candidates(t) = {}
  /\ pending' = pending \ {t}
  /\ UNCHANGED <<task, preferences, free, placed, remaining>>

Next == \E t \in Task : Place(t) \/ GiveUp(t)

Spec == Init /\ [][Next]_vars

-----------------------------------------------------------------------------
SchedulerTypeOK ==
  /\ task \in [Task -> TaskInput]
  /\ preferences \in Preferences
  /\ free \in FreeTime
  /\ IsFiniteSet(placed)
  /\ \A b \in placed : b.task \in Task /\ IsInterval(b.at)
  /\ remaining \in [Task -> Nat]
  /\ pending \subseteq Task

(* The limits a block of a task must respect on its own, said without the  *)
(* clipping of intervals that the code does.                               *)
Admissible(t, at) ==
  /\ \E f \in free : Within(at, f)
  /\ task[t].earliest # NoTime => task[t].earliest <= at[1]
  /\ task[t].deadline # NoTime => at[2] <= task[t].deadline
  /\ preferences.cutoff # NoTime => at[2] <= OnDayOf(at[1], preferences.cutoff)

Apart(x, y) ==
  x[2] + preferences.break <= y[1] \/ y[2] + preferences.break <= x[1]

(* Every block of a preview lies in free time, within its task's dates and *)
(* before the cutoff, any two blocks keep the break, whichever tasks they  *)
(* belong to and in whatever order they were placed, and no task has more  *)
(* sessions on a day than it allows.                                       *)
BlocksAreFeasible ==
  /\ \A b \in placed : Admissible(b.task, b.at)
  /\ \A b \in placed :
       SessionsOn(b.task, Day(b.at[1])) <= task[b.task].maxPerDay
  /\ \A b, c \in placed : b # c => Apart(b.at, c.at)

(* Splitting a task never leaves a rest that is too short for a session,   *)
(* and no session is shorter than the minimum.                             *)
NothingIsStranded ==
  \A t \in Task :
    task[t].splittable =>
      /\ remaining[t] \in {0, task[t].duration}
         \/ remaining[t] >= EffectiveMinimum(t)
      /\ \A b \in placed : b.task = t => Minutes(b.at) >= EffectiveMinimum(t)

(* The lengths a block of the task may have.                               *)
Lengths(t) ==
  IF ~ task[t].splittable THEN {remaining[t]}
  ELSE {m \in EffectiveMinimum(t) .. remaining[t] :
          remaining[t] - m = 0 \/ remaining[t] - m >= EffectiveMinimum(t)}

(* When a valid task is reported with minutes left, no block of it could   *)
(* be added to the finished preview, although later tasks were placed      *)
(* after it was given up.                                                  *)
UnscheduledMeansNoRoom ==
  pending = {} =>
    \A t \in Task : Valid(t) /\ remaining[t] > 0 =>
      \A f \in free : \A start \in f[1] .. f[2] : \A m \in Lengths(t) :
        ~ /\ Admissible(t, <<start, start + m>>)
          /\ \A b \in placed : Apart(b.at, <<start, start + m>>)
          /\ SessionsOn(t, Day(start)) < task[t].maxPerDay

(* README.md: availability and scheduling are deterministic.  No tie is    *)
(* left to the order in which candidates or tasks come.                    *)
SelectionIsUnique ==
  /\ pending # {} => \E t \in pending : IsCurrent(t)
  /\ \A t \in pending : IsCurrent(t) =>
       /\ \A u \in pending : IsCurrent(u) => t = u
       /\ \A c, d \in Candidates(t) :
            IsSelected(t, c) /\ IsSelected(t, d) => c = d
=============================================================================
