---------------------------- MODULE SchedulerProofs ----------------------------
(***************************************************************************)
(* Proofs about Scheduler for any tasks, preferences and free time.  What  *)
(* one candidate is like is in lemmas; the invariants follow because every *)
(* step adds one candidate to the blocks placed before.  The last part is  *)
(* about the loops that compute free time and gaps.                        *)
(***************************************************************************)
EXTENDS SchedulerLoops, FiniteSetTheorems, TLAPS

(* The clock is monotone: later instants have later cutoffs.               *)
LEMMA DayMonotone ==
  ASSUME NEW a \in Int, NEW b \in Int, a <= b
  PROVE  /\ Day(a) \in Int /\ Day(b) \in Int
         /\ Day(a) <= Day(b)
<1>1. DayLength \in Nat /\ DayLength > 0
  BY DayLengthAssumption
<1>2. Day(a) \in Int /\ Day(b) \in Int
  BY <1>1 DEF Day
<1>3. Day(a) <= Day(b)
  BY <1>1, Z3 DEF Day
<1> QED BY <1>2, <1>3

LEMMA OnDayMonotone ==
  ASSUME NEW a \in Int, NEW b \in Int, a <= b, NEW clock \in Nat
  PROVE  /\ OnDayOf(a, clock) \in Int /\ OnDayOf(b, clock) \in Int
         /\ OnDayOf(a, clock) <= OnDayOf(b, clock)
<1>1. DayLength \in Nat /\ DayLength > 0
  BY DayLengthAssumption
<1> DEFINE x == Day(a)
           y == Day(b)
<1>2. x \in Int /\ y \in Int /\ x <= y
  BY DayMonotone
<1> HIDE DEF x, y
<1>3. x * DayLength \in Int /\ y * DayLength \in Int
      /\ x * DayLength <= y * DayLength
  BY <1>1, <1>2
<1> QED BY <1>3 DEF OnDayOf, x, y

LEMMA OnDayType ==
  ASSUME NEW a \in Int, NEW clock \in Nat
  PROVE  OnDayOf(a, clock) \in Int
<1>1. a <= a
  OBVIOUS
<1> QED BY <1>1, OnDayMonotone

(* Quotients are unique, so a wall-clock time is on the day it is taken on. *)
LEMMA DivUnique ==
  ASSUME NEW L \in Nat, L > 0, NEW d \in Int, NEW c \in Nat, c < L
  PROVE  (d * L + c) \div L = d
<1> DEFINE p == d * L + c
           q == p \div L
<1>1. p \in Int /\ q \in Int
  OBVIOUS
<1>2. L * q <= p /\ p < L * q + L
  BY Z3
<1> HIDE DEF q, p
<1>3. q * L <= d * L + c /\ d * L + c < q * L + L
  BY <1>2, <1>1 DEF p
<1>4. q <= d
  <2>1. CASE q >= d + 1
    <3>1. (q - (d + 1)) * L >= 0
      BY <1>1, <2>1, Z3
    <3>2. q * L >= (d + 1) * L
      BY <3>1, <1>1, Z3
    <3> QED BY <3>2, <1>1, <1>3, Z3
  <2> QED BY <2>1, <1>1
<1>5. d <= q
  <2>1. CASE d >= q + 1
    <3>1. (d - (q + 1)) * L >= 0
      BY <1>1, <2>1, Z3
    <3>2. d * L >= (q + 1) * L
      BY <3>1, <1>1, Z3
    <3> QED BY <3>2, <1>1, <1>3, Z3
  <2> QED BY <2>1, <1>1
<1> QED BY <1>1, <1>4, <1>5 DEF q, p

LEMMA SameDay ==
  ASSUME NEW a \in Int, NEW clock \in Nat, clock < DayLength
  PROVE  Day(OnDayOf(a, clock)) = Day(a)
<1>1. DayLength \in Nat /\ DayLength > 0
  BY DayLengthAssumption
<1> DEFINE d == Day(a)
<1>2. d \in Int
  BY <1>1 DEF Day
<1> HIDE DEF d
<1>3. (d * DayLength + clock) \div DayLength = d
  BY <1>1, <1>2, DivUnique
<1> QED BY <1>3 DEF d, Day, OnDayOf

(* A session is never longer than the gap or what is left; it keeps the    *)
(* minimum and leaves a rest that can still be placed.                     *)
LEMMA SessionMinutesFits ==
  ASSUME NEW left \in Nat, NEW available \in Nat, NEW minimum \in Nat \ {0}
  PROVE  LET m == SessionMinutes(left, available, minimum) IN
         /\ m \in Nat
         /\ m <= left /\ m <= available
         /\ m > 0 => /\ m >= minimum
                     /\ left - m = 0 \/ left - m >= minimum
BY DEF SessionMinutes

-----------------------------------------------------------------------------
(* What a round relies on, whichever tasks there are: Scheduler's variables *)
(* when its own run or a preview's request has set them.                   *)
RoundTypeOK ==
  /\ DOMAIN task \subseteq Task
  /\ task \in [DOMAIN task -> SchedulingTask]
  /\ preferences \in SchedulerPreferences
  /\ IsFreeTime(free)
  /\ IsFiniteSet(placed)
  /\ \A b \in placed : b.task \in DOMAIN task /\ IsInterval(b.at)
  /\ remaining \in [DOMAIN task -> Nat]
  /\ pending \subseteq DOMAIN task

Round == \E t \in DOMAIN task : Place(t) \/ GiveUp(t)

LEMMA SchedulerRound ==
  ASSUME SchedulerTypeOK
  PROVE  /\ RoundTypeOK
         /\ DOMAIN task = Task
         /\ [Next]_vars => [Round]_vars
<1>1. DOMAIN task = Task
  BY DEF SchedulerTypeOK
<1>2. task \in [Task -> SchedulingTask]
  BY InputAssumption DEF SchedulerTypeOK
<1>3. preferences \in SchedulerPreferences /\ IsFreeTime(free)
  BY InputAssumption DEF SchedulerTypeOK
<1> QED BY <1>1, <1>2, <1>3 DEF SchedulerTypeOK, RoundTypeOK, Next, Round

(* What the inputs are, as the prover needs it.                            *)
LEMMA InputTypes ==
  ASSUME RoundTypeOK, NEW t \in DOMAIN task
  PROVE  /\ task[t] \in SchedulingTask
         /\ preferences \in SchedulerPreferences
         /\ \A f \in free : f \in Int \X Int /\ f[1] < f[2]
         /\ remaining[t] \in Nat
         /\ EffectiveMinimum(t) \in Nat \ {0}
<1>1. task[t] \in SchedulingTask /\ preferences \in SchedulerPreferences
  BY DEF RoundTypeOK
<1>2. \A f \in free : f \in Int \X Int /\ f[1] < f[2]
  BY DEF RoundTypeOK, IsFreeTime, IsInterval
<1>3. EffectiveMinimum(t) \in Nat \ {0}
  BY <1>1 DEF EffectiveMinimum, Later, SchedulingTask, SchedulerPreferences
<1> QED BY <1>1, <1>2, <1>3 DEF RoundTypeOK

(* An allowed interval is the part of a free one that respects the task's  *)
(* dates and the cutoff of its first day.                                  *)
LEMMA AllowedFacts ==
  ASSUME RoundTypeOK, NEW t \in DOMAIN task, NEW f \in free
  PROVE  LET i == Allowed(t, f) IN
         /\ i \in Int \X Int
         /\ Within(i, f)
         /\ task[t].earliest # NoTime => task[t].earliest <= i[1]
         /\ task[t].deadline # NoTime => i[2] <= task[t].deadline
         /\ preferences.cutoff # NoTime =>
              i[2] <= OnDayOf(i[1], preferences.cutoff)
<1> DEFINE start == IF task[t].earliest = NoTime THEN f[1]
                    ELSE Later(f[1], task[t].earliest)
           end   == IF task[t].deadline = NoTime THEN f[2]
                    ELSE Earlier(f[2], task[t].deadline)
           last  == IF preferences.cutoff = NoTime THEN end
                    ELSE Earlier(end, OnDayOf(start, preferences.cutoff))
<1>1. /\ f[1] \in Int /\ f[2] \in Int
      /\ task[t].earliest \in Int \cup {NoTime}
      /\ task[t].deadline \in Int \cup {NoTime}
      /\ preferences.cutoff \in Nat \cup {NoTime}
  BY InputTypes DEF SchedulingTask, SchedulerPreferences
<1>2. /\ start \in Int /\ f[1] <= start
      /\ task[t].earliest # NoTime => task[t].earliest <= start
  BY <1>1 DEF Later
<1>3. /\ end \in Int /\ end <= f[2]
      /\ task[t].deadline # NoTime => end <= task[t].deadline
  BY <1>1 DEF Earlier
<1> HIDE DEF start, end
<1>4. preferences.cutoff # NoTime => OnDayOf(start, preferences.cutoff) \in Int
  <2> SUFFICES ASSUME preferences.cutoff # NoTime
               PROVE  OnDayOf(start, preferences.cutoff) \in Int
    OBVIOUS
  <2>1. preferences.cutoff \in Nat
    BY <1>1
  <2> QED BY <2>1, <1>2, OnDayType
<1>5. /\ last \in Int /\ last <= end
      /\ preferences.cutoff # NoTime =>
           last <= OnDayOf(start, preferences.cutoff)
  BY <1>3, <1>4 DEF Earlier
<1>6. Allowed(t, f) = <<start, last>>
  BY DEF Allowed, start, end
<1> HIDE DEF last
<1> QED BY <1>1, <1>2, <1>3, <1>5, <1>6 DEF Within

(* A gap lies in an allowed interval and clear of every placed block.      *)
LEMMA GapFacts ==
  ASSUME RoundTypeOK, NEW t \in DOMAIN task, NEW g \in Available(t)
  PROVE  \E f \in free :
           /\ g \in Int \X Int /\ g[1] < g[2]
           /\ Within(g, Allowed(t, f))
           /\ \A b \in placed : Apart(b.at, g)
<1>1. PICK f \in free : g \in Gaps(Allowed(t, f), Reservations)
  BY DEF Available, Constrained
<1> DEFINE i == Allowed(t, f)
<1>2. i \in Int \X Int
  BY AllowedFacts
<1>3. preferences.break \in Nat
  BY InputTypes DEF SchedulerPreferences
<1>4. \A b \in placed : b.at \in Int \X Int /\ b.at[1] < b.at[2]
  BY DEF RoundTypeOK, IsInterval
<1> HIDE DEF i
<1>5. \A r \in Reservations : r[1] \in Int /\ r[2] \in Int
  BY <1>3, <1>4 DEF Reservations
<1>6. /\ g \in Int \X Int /\ g[1] < g[2]
      /\ Within(g, i)
      /\ \A r \in Reservations : ~ Overlap(g, r)
  BY <1>1, <1>2, <1>5 DEF Gaps, i
<1>7. ASSUME NEW b \in placed PROVE Apart(b.at, g)
  <2>1. ~ Overlap(g, <<b.at[1] - preferences.break, b.at[2] + preferences.break>>)
    BY <1>6 DEF Reservations
  <2>2. /\ b.at[1] \in Int /\ b.at[2] \in Int
        /\ g[1] \in Int /\ g[2] \in Int
    BY <1>4, <1>6
  <2> QED BY <2>1, <2>2, <1>3 DEF Overlap, Apart
<1> QED BY <1>6, <1>7 DEF i

(* Wherever in its gap it starts, a candidate's block stays in the gap and *)
(* takes a length that BlockMinutes allows.                                *)
LEMMA CandidateInGap ==
  ASSUME RoundTypeOK, NEW t \in DOMAIN task, NEW g \in Available(t),
         BlockMinutes(t, g) > 0
  PROVE  LET c == Candidate(t, g) IN
         /\ c.at \in Int \X Int /\ c.at[1] < c.at[2]
         /\ Within(c.at, g)
         /\ Minutes(c.at) = BlockMinutes(t, g)
         /\ Minutes(c.at) \in Nat /\ Minutes(c.at) <= remaining[t]
         /\ task[t].splittable =>
              /\ Minutes(c.at) >= EffectiveMinimum(t)
              /\ \/ remaining[t] - Minutes(c.at) = 0
                 \/ remaining[t] - Minutes(c.at) >= EffectiveMinimum(t)
         /\ ~ task[t].splittable => Minutes(c.at) = remaining[t]
         /\ Day(c.at[1]) = Day(g[1])
<1> DEFINE m     == BlockMinutes(t, g)
           match == MatchesPreference(t, g, m)
           start == IF match THEN PreferredStart(t, g) ELSE g[1]
<1>1. g \in Int \X Int /\ g[1] < g[2]
  BY GapFacts
<1>2. /\ task[t] \in SchedulingTask /\ preferences \in SchedulerPreferences
      /\ remaining[t] \in Nat
      /\ EffectiveMinimum(t) \in Nat \ {0}
  BY InputTypes
<1>3. /\ m \in Nat /\ m > 0 /\ m <= remaining[t] /\ m <= Minutes(g)
      /\ task[t].splittable =>
           /\ m >= EffectiveMinimum(t)
           /\ remaining[t] - m = 0 \/ remaining[t] - m >= EffectiveMinimum(t)
      /\ ~ task[t].splittable => m = remaining[t]
  <2>1. Minutes(g) \in Nat
    BY <1>1 DEF Minutes
  <2>2. CASE task[t].splittable
    <3>1. m = SessionMinutes(remaining[t], Minutes(g), EffectiveMinimum(t))
      BY <2>2 DEF BlockMinutes
    <3> HIDE DEF m
    <3>2. m > 0
      BY DEF m
    <3> QED BY <2>1, <2>2, <1>2, <3>1, <3>2, SessionMinutesFits
  <2>3. CASE ~ task[t].splittable
    BY <1>2, <2>1, <2>3 DEF BlockMinutes
  <2> QED BY <2>2, <2>3
<1> HIDE DEF m
<1>4. /\ start \in Int
      /\ g[1] <= start /\ start + m <= g[2]
      /\ Day(start) = Day(g[1])
  <2>1. CASE match
    <3>1. Preferred(t) # NoPreference /\ Preferred(t) \in TimeOfDay
      BY <2>1, <1>2 DEF MatchesPreference, Preferred, SchedulingTask,
                        SchedulerPreferences
    <3>2. /\ Preferred(t)[1] \in Nat /\ Preferred(t)[2] \in Nat
          /\ Preferred(t)[1] < DayLength
      BY <3>1, DayLengthAssumption DEF TimeOfDay
    <3> DEFINE a == OnDayOf(g[1], Preferred(t)[1])
               b == OnDayOf(g[1], Preferred(t)[2])
    <3>3. a \in Int /\ b \in Int /\ Day(a) = Day(g[1])
      <4>1. g[1] \in Int
        BY <1>1
      <4> QED BY <4>1, <3>2, OnDayType, SameDay
    <3>4. start = Later(g[1], a) /\ start + m <= Earlier(g[2], b)
      BY <2>1 DEF MatchesPreference, PreferredStart
    <3> HIDE DEF a, b, start
    <3>5. start = a \/ start = g[1]
      BY <3>4 DEF Later
    <3>6. Day(start) = Day(g[1])
      BY <3>3, <3>5
    <3> QED BY <3>6, <1>1, <1>3, <3>3, <3>4 DEF Later, Earlier
  <2>2. CASE ~ match
    BY <2>2, <1>1, <1>3 DEF Minutes
  <2> QED BY <2>1, <2>2
<1>5. Candidate(t, g).at = <<start, start + m>>
  BY DEF Candidate, m
<1> HIDE DEF start
<1>6. Minutes(Candidate(t, g).at) = m
  BY <1>3, <1>4, <1>5 DEF Minutes
<1> QED BY <1>1, <1>3, <1>4, <1>5, <1>6 DEF Within, m

(* A candidate may be added to the preview.                                *)
LEMMA CandidateIsFeasible ==
  ASSUME RoundTypeOK, NEW t \in DOMAIN task, NEW c \in Candidates(t)
  PROVE  /\ IsInterval(c.at)
         /\ Admissible(t, c.at)
         /\ \A b \in placed : Apart(b.at, c.at) /\ Apart(c.at, b.at)
         /\ Minutes(c.at) \in Nat /\ Minutes(c.at) <= remaining[t]
         /\ task[t].splittable =>
              /\ Minutes(c.at) >= EffectiveMinimum(t)
              /\ \/ remaining[t] - Minutes(c.at) = 0
                 \/ remaining[t] - Minutes(c.at) >= EffectiveMinimum(t)
         /\ ~ task[t].splittable => Minutes(c.at) = remaining[t]
         /\ SessionsOn(t, Day(c.at[1])) < task[t].maxPerDay
<1>1. PICK g \in Available(t) :
        /\ c = Candidate(t, g) /\ BlockMinutes(t, g) > 0
        /\ SessionsOn(t, Day(g[1])) < task[t].maxPerDay
  BY DEF Candidates
<1> DEFINE x == c.at
<1>2. /\ x \in Int \X Int /\ x[1] < x[2]
      /\ Within(x, g)
      /\ Minutes(x) \in Nat /\ Minutes(x) <= remaining[t]
      /\ task[t].splittable =>
           /\ Minutes(x) >= EffectiveMinimum(t)
           /\ \/ remaining[t] - Minutes(x) = 0
              \/ remaining[t] - Minutes(x) >= EffectiveMinimum(t)
      /\ ~ task[t].splittable => Minutes(x) = remaining[t]
      /\ Day(x[1]) = Day(g[1])
  BY <1>1, CandidateInGap
<1>3. PICK f \in free :
        /\ g \in Int \X Int /\ g[1] < g[2]
        /\ Within(g, Allowed(t, f))
        /\ \A b \in placed : Apart(b.at, g)
  BY GapFacts
<1> DEFINE i == Allowed(t, f)
<1>4. /\ i \in Int \X Int
      /\ Within(i, f)
      /\ task[t].earliest # NoTime => task[t].earliest <= i[1]
      /\ task[t].deadline # NoTime => i[2] <= task[t].deadline
      /\ preferences.cutoff # NoTime =>
           i[2] <= OnDayOf(i[1], preferences.cutoff)
  BY AllowedFacts
<1>5. /\ f \in Int \X Int
      /\ task[t].earliest \in Int \cup {NoTime}
      /\ task[t].deadline \in Int \cup {NoTime}
      /\ preferences.cutoff \in Nat \cup {NoTime}
      /\ preferences.break \in Nat
  BY InputTypes DEF SchedulingTask, SchedulerPreferences
<1> HIDE DEF x, i
<1>6. i[1] <= x[1] /\ x[2] <= i[2]
  BY <1>2, <1>3, <1>4 DEF Within, i
<1>7. Within(x, f)
  BY <1>2, <1>4, <1>5, <1>6 DEF Within
<1>8. preferences.cutoff # NoTime => x[2] <= OnDayOf(x[1], preferences.cutoff)
  <2> SUFFICES ASSUME preferences.cutoff # NoTime
               PROVE  x[2] <= OnDayOf(x[1], preferences.cutoff)
    OBVIOUS
  <2>1. preferences.cutoff \in Nat
    BY <1>5
  <2> DEFINE p == OnDayOf(i[1], preferences.cutoff)
             q == OnDayOf(x[1], preferences.cutoff)
  <2>2. p \in Int /\ q \in Int /\ p <= q
    BY <2>1, <1>2, <1>4, <1>6, OnDayMonotone
  <2>3. i[2] <= p
    BY <1>4
  <2> HIDE DEF p, q
  <2>4. x[2] <= q
    BY <2>2, <2>3, <1>2, <1>4, <1>6
  <2> QED BY <2>4 DEF q
<1>9. Admissible(t, x)
  <2>1. task[t].earliest # NoTime => task[t].earliest <= x[1]
    BY <1>2, <1>4, <1>5, <1>6
  <2>2. task[t].deadline # NoTime => x[2] <= task[t].deadline
    BY <1>2, <1>4, <1>5, <1>6
  <2> QED BY <1>7, <1>8, <2>1, <2>2 DEF Admissible
<1>10. ASSUME NEW b \in placed PROVE Apart(b.at, x) /\ Apart(x, b.at)
  <2>1. Apart(b.at, g) /\ b.at[1] \in Int /\ b.at[2] \in Int
    BY <1>3 DEF RoundTypeOK, IsInterval
  <2> QED BY <2>1, <1>2, <1>3, <1>5 DEF Apart, Within
<1>11. SessionsOn(t, Day(x[1])) < task[t].maxPerDay
  BY <1>1, <1>2
<1> QED BY <1>2, <1>9, <1>10, <1>11 DEF IsInterval, x

-----------------------------------------------------------------------------
(* What a round that places a block changes.                               *)
LEMMA PlaceFacts ==
  ASSUME RoundTypeOK, NEW t \in DOMAIN task, Place(t)
  PROVE  /\ UNCHANGED <<task, preferences, free>>
         /\ \E c \in Candidates(t) :
              /\ placed' = placed \cup {[task |-> t, at |-> c.at]}
              /\ remaining' =
                   [remaining EXCEPT ![t] = remaining[t] - Minutes(c.at)]
         /\ pending' \subseteq pending
BY DEF Place

(* A round keeps every variable in its type: a block is never longer than  *)
(* what is left of its task.                                               *)
LEMMA TypeStep ==
  ASSUME RoundTypeOK, [Round]_vars
  PROVE  RoundTypeOK'
<1>1. ASSUME NEW t \in DOMAIN task, Place(t) PROVE RoundTypeOK'
  <2>1. PICK c \in Candidates(t) :
          /\ placed' = placed \cup {[task |-> t, at |-> c.at]}
          /\ remaining' = [remaining EXCEPT ![t] = remaining[t] - Minutes(c.at)]
    BY <1>1, PlaceFacts
  <2>2. UNCHANGED <<task, preferences, free>> /\ pending' \subseteq pending
    BY <1>1, PlaceFacts
  <2> DEFINE x == c.at
             r == remaining[t] - Minutes(x)
  <2>3. IsInterval(x) /\ Minutes(x) \in Nat /\ Minutes(x) <= remaining[t]
    BY CandidateIsFeasible
  <2>4. remaining[t] \in Nat
    BY DEF RoundTypeOK
  <2>5. r \in Nat
    BY <2>3, <2>4
  <2> HIDE DEF x, r
  <2>6. remaining' = [remaining EXCEPT ![t] = r]
    BY <2>1 DEF x, r
  <2>7. placed' = placed \cup {[task |-> t, at |-> x]}
    BY <2>1 DEF x
  <2>8. remaining' \in [DOMAIN task -> Nat]
    BY <2>5, <2>6 DEF RoundTypeOK
  <2>9. \A b \in placed' : b.task \in DOMAIN task /\ IsInterval(b.at)
    BY <2>3, <2>7 DEF RoundTypeOK
  <2>10. IsFiniteSet(placed')
    BY <2>7, FS_AddElement DEF RoundTypeOK
  <2> QED BY <2>2, <2>8, <2>9, <2>10 DEF RoundTypeOK
<1>2. ASSUME NEW t \in DOMAIN task, GiveUp(t) PROVE RoundTypeOK'
  BY <1>2 DEF GiveUp, RoundTypeOK
<1>3. CASE UNCHANGED vars
  BY <1>3 DEF vars, RoundTypeOK
<1> QED BY <1>1, <1>2, <1>3 DEF Round

(* Whatever the input, what is left of a task is never negative and every  *)
(* block is a proper interval of a known task.                             *)
THEOREM SchedulerTypeCorrect == Spec => []SchedulerTypeOK
<1>1. Init => SchedulerTypeOK
  <2> SUFFICES ASSUME Init PROVE SchedulerTypeOK
    OBVIOUS
  <2>1. \A t \in Task : task[t].duration \in Nat
    BY InputAssumption DEF Init, SchedulingTask
  <2> QED BY <2>1, FS_EmptySet DEF Init, SchedulerTypeOK
<1>2. SchedulerTypeOK /\ [Next]_vars => SchedulerTypeOK'
  <2> SUFFICES ASSUME SchedulerTypeOK, [Next]_vars PROVE SchedulerTypeOK'
    OBVIOUS
  <2>1. RoundTypeOK /\ [Round]_vars /\ DOMAIN task = Task
    BY SchedulerRound
  <2>2. RoundTypeOK'
    BY <2>1, TypeStep
  <2>3. UNCHANGED <<task, preferences, free>>
    BY DEF Next, Place, GiveUp, vars
  <2> QED BY <2>1, <2>2, <2>3 DEF RoundTypeOK, SchedulerTypeOK
<1> QED BY <1>1, <1>2, PTL DEF Spec

-----------------------------------------------------------------------------
(* How many sessions a task has on a day after a block is added.           *)
LEMMA SessionsOnStep ==
  ASSUME IsFiniteSet(placed), NEW new, new \notin placed,
         placed' = placed \cup {new}, NEW t, NEW d
  PROVE  /\ SessionsOn(t, d) \in Nat
         /\ SessionsOn(t, d)' = SessionsOn(t, d)
              + (IF new.task = t /\ Day(new.at[1]) = d THEN 1 ELSE 0)
<1> DEFINE S == {b \in placed : b.task = t /\ Day(b.at[1]) = d}
           T == {b \in placed' : b.task = t /\ Day(b.at[1]) = d}
<1>1. IsFiniteSet(S) /\ Cardinality(S) \in Nat
  BY FS_Subset, FS_CardinalityType
<1>2. SessionsOn(t, d) = Cardinality(S) /\ SessionsOn(t, d)' = Cardinality(T)
  BY DEF SessionsOn, Day
<1>3. CASE new.task = t /\ Day(new.at[1]) = d
  <2>1. T = S \cup {new} /\ new \notin S
    BY <1>3
  <2> HIDE DEF S, T
  <2>2. Cardinality(S \cup {new}) = Cardinality(S) + 1
    BY <1>1, <2>1, FS_AddElement
  <2> QED BY <1>1, <1>2, <1>3, <2>1, <2>2
<1>4. CASE ~ (new.task = t /\ Day(new.at[1]) = d)
  <2>1. T = S
    BY <1>4
  <2> HIDE DEF S, T
  <2> QED BY <1>1, <1>2, <1>4, <2>1
<1> QED BY <1>3, <1>4

(* A new block is feasible by itself and keeps the break to every earlier  *)
(* one; the earlier ones stay as they are.                                 *)
LEMMA FeasibleStep ==
  ASSUME RoundTypeOK, BlocksAreFeasible, [Round]_vars
  PROVE  BlocksAreFeasible'
<1>1. ASSUME NEW t \in DOMAIN task, Place(t) PROVE BlocksAreFeasible'
  <2>1. PICK c \in Candidates(t) : placed' = placed \cup {[task |-> t, at |-> c.at]}
    BY <1>1, PlaceFacts
  <2>2. UNCHANGED <<task, preferences, free>>
    BY <1>1, PlaceFacts
  <2> DEFINE x == c.at
             new == [task |-> t, at |-> x]
  <2>3. /\ Admissible(t, x)
        /\ \A b \in placed : Apart(b.at, x) /\ Apart(x, b.at)
        /\ SessionsOn(t, Day(x[1])) < task[t].maxPerDay
        /\ IsInterval(x)
    BY CandidateIsFeasible
  <2> HIDE DEF x
  <2>4. new.task = t /\ new.at = x
    OBVIOUS
  <2>5. placed' = placed \cup {new}
    BY <2>1 DEF x
  <2> HIDE DEF new
  <2>10. new \notin placed
    <3>1. preferences.break \in Nat
      BY InputTypes DEF SchedulerPreferences
    <3>2. ~ Apart(x, x)
      BY <2>3, <3>1 DEF Apart, IsInterval
    <3> QED BY <2>3, <2>4, <3>2
  <2>8. ASSUME NEW b \in placed'
        PROVE  SessionsOn(b.task, Day(b.at[1]))' <= task'[b.task].maxPerDay
    <3> DEFINE u == b.task
               d == Day(b.at[1])
    <3>1. u \in DOMAIN task
      BY <2>4, <2>5 DEF RoundTypeOK
    <3>2. task[u].maxPerDay \in Nat
      BY <3>1, InputTypes DEF SchedulingTask
    <3>3. b \in placed => SessionsOn(u, d) <= task[u].maxPerDay
      BY DEF BlocksAreFeasible
    <3>4. b = new => u = t /\ SessionsOn(u, d) < task[u].maxPerDay
      BY <2>3, <2>4
    <3>5. Day(b.at[1])' = d
      BY DEF Day
    <3> HIDE DEF u, d
    <3>6. /\ SessionsOn(u, d) \in Nat
          /\ SessionsOn(u, d)' = SessionsOn(u, d)
               + (IF new.task = u /\ Day(new.at[1]) = d THEN 1 ELSE 0)
      BY <2>5, <2>10, SessionsOnStep DEF RoundTypeOK
    <3>7. new.task = u /\ Day(new.at[1]) = d =>
            SessionsOn(u, d) < task[u].maxPerDay
      BY <2>3, <2>4
    <3>8. SessionsOn(u, d)' <= task[u].maxPerDay
      BY <2>5, <3>2, <3>3, <3>4, <3>6, <3>7
    <3> QED BY <2>2, <3>8 DEF u, d, SessionsOn, Day
  <2>6. ASSUME NEW b \in placed' PROVE Admissible(b.task, b.at)'
    <3>1. Admissible(b.task, b.at)
      BY <2>3, <2>4, <2>5 DEF BlocksAreFeasible
    <3> QED BY <3>1, <2>2 DEF Admissible
  <2>7. ASSUME NEW b \in placed', NEW d \in placed', b # d
        PROVE  Apart(b.at, d.at)'
    <3>1. Apart(b.at, d.at)
      BY <2>3, <2>4, <2>5, <2>7 DEF BlocksAreFeasible
    <3> QED BY <3>1, <2>2 DEF Apart
  <2> QED BY <2>6, <2>7, <2>8 DEF BlocksAreFeasible
<1>2. ASSUME NEW t \in DOMAIN task, GiveUp(t) PROVE BlocksAreFeasible'
  BY <1>2 DEF GiveUp, BlocksAreFeasible, Admissible, Apart, SessionsOn
<1>3. CASE UNCHANGED vars
  BY <1>3 DEF vars, BlocksAreFeasible, Admissible, Apart, SessionsOn
<1> QED BY <1>1, <1>2, <1>3 DEF Round

(* For any tasks, preferences and free time, every block a preview places  *)
(* is inside free time, its task's dates and the cutoff, any two blocks    *)
(* keep the break, and the daily limit holds.                              *)
THEOREM PreviewsAreFeasible == Spec => []BlocksAreFeasible
<1>1. Init => BlocksAreFeasible
  BY DEF Init, BlocksAreFeasible
<1>2. SchedulerTypeOK /\ BlocksAreFeasible /\ [Next]_vars => BlocksAreFeasible'
  BY FeasibleStep, SchedulerRound
<1> QED BY <1>1, <1>2, SchedulerTypeCorrect, PTL DEF Spec

-----------------------------------------------------------------------------
(* NothingIsStranded for the tasks a round has.                            *)
NoTaskIsStranded ==
  \A t \in DOMAIN task :
    task[t].splittable =>
      /\ remaining[t] \in {0, task[t].duration}
         \/ remaining[t] >= EffectiveMinimum(t)
      /\ \A b \in placed : b.task = t => Minutes(b.at) >= EffectiveMinimum(t)

(* A session of a splittable task leaves nothing or a placeable rest.      *)
LEMMA StrandedStep ==
  ASSUME RoundTypeOK, NoTaskIsStranded, [Round]_vars
  PROVE  NoTaskIsStranded'
<1>1. ASSUME NEW t \in DOMAIN task, Place(t) PROVE NoTaskIsStranded'
  <2>1. PICK c \in Candidates(t) :
          /\ placed' = placed \cup {[task |-> t, at |-> c.at]}
          /\ remaining' = [remaining EXCEPT ![t] = remaining[t] - Minutes(c.at)]
    BY <1>1, PlaceFacts
  <2>2. UNCHANGED <<task, preferences, free>>
    BY <1>1, PlaceFacts
  <2> DEFINE x == c.at
             r == remaining[t] - Minutes(x)
             new == [task |-> t, at |-> x]
  <2>3. task[t].splittable =>
          /\ Minutes(x) >= EffectiveMinimum(t)
          /\ r = 0 \/ r >= EffectiveMinimum(t)
    BY CandidateIsFeasible
  <2> HIDE DEF x, r
  <2>4. new.task = t /\ new.at = x
    OBVIOUS
  <2>5. /\ placed' = placed \cup {new}
        /\ remaining' = [remaining EXCEPT ![t] = r]
    BY <2>1 DEF x, r
  <2> HIDE DEF new
  <2>6. \A u \in DOMAIN task : EffectiveMinimum(u)' = EffectiveMinimum(u)
    BY <2>2 DEF EffectiveMinimum
  <2>7. ASSUME NEW u \in DOMAIN task, task[u].splittable
        PROVE  /\ \/ remaining'[u] \in {0, task[u].duration}
                  \/ remaining'[u] >= EffectiveMinimum(u)
               /\ \A b \in placed' :
                    b.task = u => Minutes(b.at) >= EffectiveMinimum(u)
    <3>1. \/ remaining'[u] \in {0, task[u].duration}
          \/ remaining'[u] >= EffectiveMinimum(u)
      BY <2>3, <2>5, <2>7 DEF NoTaskIsStranded, RoundTypeOK
    <3>2. \A b \in placed' : b.task = u => Minutes(b.at) >= EffectiveMinimum(u)
      BY <2>3, <2>4, <2>5, <2>7 DEF NoTaskIsStranded
    <3> QED BY <3>1, <3>2
  <2> QED BY <2>2, <2>6, <2>7 DEF NoTaskIsStranded
<1>2. ASSUME NEW t \in DOMAIN task, GiveUp(t) PROVE NoTaskIsStranded'
  BY <1>2 DEF GiveUp, NoTaskIsStranded, EffectiveMinimum
<1>3. CASE UNCHANGED vars
  BY <1>3 DEF vars, NoTaskIsStranded, EffectiveMinimum
<1> QED BY <1>1, <1>2, <1>3 DEF Round

(* For any durations, gaps and minimums, splitting a task never strands a  *)
(* rest below the minimum session and never makes a session below it.      *)
THEOREM SplittingStrandsNothing == Spec => []NothingIsStranded
<1>1. Init => NothingIsStranded
  BY DEF Init, NothingIsStranded
<1>2. SchedulerTypeOK /\ NothingIsStranded /\ [Next]_vars => NothingIsStranded'
  <2> SUFFICES ASSUME SchedulerTypeOK, NothingIsStranded, [Next]_vars
               PROVE  NothingIsStranded'
    OBVIOUS
  <2>1. RoundTypeOK /\ [Round]_vars /\ DOMAIN task = Task
    BY SchedulerRound
  <2>2. NoTaskIsStranded'
    BY <2>1, StrandedStep DEF NothingIsStranded, NoTaskIsStranded
  <2>3. DOMAIN task' = Task
    BY <2>1 DEF Next, Place, GiveUp, vars
  <2> QED BY <2>2, <2>3 DEF NothingIsStranded, NoTaskIsStranded
<1> QED BY <1>1, <1>2, SchedulerTypeCorrect, PTL DEF Spec

-----------------------------------------------------------------------------
(* A finite set of instants has a last and a first one.                    *)
LEMMA HasLatest ==
  ASSUME NEW S, IsFiniteSet(S), S # {}, S \subseteq Int
  PROVE  \E x \in S : \A y \in S : y <= x
<1> DEFINE Above(x) == {y \in S : y > x}
           T == {Above(x) : x \in S}
           R == StrictSubsetOrdering(S)
<1>1. IsWellFoundedOn(R, SUBSET S)
  BY FS_StrictSubsetOrderingWellFounded, FS_FiniteSubsetsOfFinite
<1>2. T \subseteq SUBSET S /\ T # {}
  <2>1. PICK x \in S : TRUE
    OBVIOUS
  <2>2. Above(x) \in T
    BY <2>1
  <2> QED BY <2>2
<1> HIDE DEF T, R
<1>3. PICK A \in T : \A B \in T : ~ (<<B, A>> \in R)
  BY <1>1, <1>2, WFMin
<1>4. PICK x \in S : A = Above(x)
  BY <1>3 DEF T
<1>5. ASSUME NEW y \in S, y > x PROVE FALSE
  <2>1. \A z \in S : z \in Int
    OBVIOUS
  <2>2. \A z \in Above(y) : z \in Above(x)
    BY <1>5, <2>1
  <2>3. y \in Above(x) /\ y \notin Above(y)
    BY <1>5, <2>1
  <2>4. <<Above(y), Above(x)>> \in StrictSubsetOrdering(S)
    BY <2>2, <2>3 DEF StrictSubsetOrdering
  <2>5. Above(y) \in T
    BY DEF T
  <2> QED BY <1>3, <1>4, <2>4, <2>5 DEF R
<1>6. \A y \in S : y \in Int
  OBVIOUS
<1> QED BY <1>5, <1>6

LEMMA HasEarliest ==
  ASSUME NEW S, IsFiniteSet(S), S # {}, S \subseteq Int
  PROVE  \E x \in S : \A y \in S : x <= y
<1> DEFINE f == [x \in S |-> -x]
           T == {f[x] : x \in S}
<1>1. IsFiniteSet(T) /\ T # {} /\ T \subseteq Int
  <2>1. f \in Surjection(S, T)
    BY DEF Surjection
  <2>2. PICK x \in S : TRUE
    OBVIOUS
  <2>3. f[x] \in T
    OBVIOUS
  <2>4. \A m \in T : m \in Int
    OBVIOUS
  <2> HIDE DEF f, T
  <2> QED BY <2>1, <2>3, <2>4, FS_Surjection
<1>2. PICK m \in T : \A n \in T : n <= m
  <2> HIDE DEF T
  <2> QED BY <1>1, HasLatest
<1>3. PICK x \in S : m = -x
  BY <1>2
<1>4. ASSUME NEW y \in S PROVE x <= y
  <2>1. -y \in T
    OBVIOUS
  <2> HIDE DEF T
  <2> QED BY <1>2, <1>3, <2>1
<1> QED BY <1>4

(* Two gaps of an interval that overlap are the same one.                  *)
LEMMA GapsAreApart ==
  ASSUME NEW i \in Int \X Int,
         NEW reserved, \A r \in reserved : IsInterval(r),
         NEW g \in Gaps(i, reserved), NEW h \in Gaps(i, reserved),
         Overlap(g, h)
  PROVE  g = h
<1>1. /\ g \in Int \X Int /\ h \in Int \X Int
      /\ g[1] < g[2] /\ h[1] < h[2]
      /\ Within(g, i) /\ Within(h, i)
      /\ \A r \in reserved : ~ Overlap(g, r) /\ ~ Overlap(h, r)
  BY DEF Gaps, IsInterval
<1>2. /\ g[1] \in {i[1]} \cup {r[2] : r \in reserved}
      /\ h[1] \in {i[1]} \cup {r[2] : r \in reserved}
      /\ g[2] \in {i[2]} \cup {r[1] : r \in reserved}
      /\ h[2] \in {i[2]} \cup {r[1] : r \in reserved}
  BY DEF Gaps
<1>3. ASSUME NEW x \in Int \X Int, NEW y \in Int \X Int,
             x[1] < x[2], y[1] < y[2], Within(x, i), Within(y, i),
             \A r \in reserved : ~ Overlap(x, r) /\ ~ Overlap(y, r),
             Overlap(x, y),
             y[1] \in {i[1]} \cup {r[2] : r \in reserved},
             y[2] \in {i[2]} \cup {r[1] : r \in reserved}
      PROVE  y[1] <= x[1] /\ x[2] <= y[2]
  <2>1. CASE x[1] < y[1]
    <3>1. PICK r \in reserved : y[1] = r[2]
      BY <1>3, <2>1 DEF Within
    <3>2. r[1] \in Int /\ r[2] \in Int /\ r[1] < r[2] /\ ~ Overlap(x, r)
      BY <1>3 DEF IsInterval
    <3> QED BY <3>1, <3>2, <1>3, <2>1 DEF Overlap
  <2>2. CASE y[2] < x[2]
    <3>1. PICK r \in reserved : y[2] = r[1]
      BY <1>3, <2>2 DEF Within
    <3>2. r[1] \in Int /\ r[2] \in Int /\ r[1] < r[2] /\ ~ Overlap(x, r)
      BY <1>3 DEF IsInterval
    <3> QED BY <3>1, <3>2, <1>3, <2>2 DEF Overlap
  <2> QED BY <2>1, <2>2
<1>4. h[1] <= g[1] /\ g[2] <= h[2]
  BY <1>1, <1>2, <1>3
<1>5. Overlap(h, g)
  BY DEF Overlap
<1>6. g[1] <= h[1] /\ h[2] <= g[2]
  BY <1>1, <1>2, <1>3, <1>5
<1> QED BY <1>1, <1>4, <1>6

-----------------------------------------------------------------------------
(* The working windows of a day, and free time, are as IsFreeTime says.    *)
LEMMA ClippedIsProper ==
  ASSUME NEW intervals, \A i \in intervals : IsInterval(i),
         NEW window, IsInterval(window),
         NEW c \in Clipped(intervals, window)
  PROVE  IsInterval(c) /\ \E i \in intervals : Within(c, i)
<1>1. PICK i \in intervals :
        /\ Overlap(i, window)
        /\ c = <<Later(i[1], window[1]), Earlier(i[2], window[2])>>
  BY DEF Clipped
<1>2. /\ i[1] \in Int /\ i[2] \in Int /\ i[1] < i[2]
      /\ window[1] \in Int /\ window[2] \in Int /\ window[1] < window[2]
  BY DEF IsInterval
<1>3. IsInterval(c) /\ Within(c, i)
  BY <1>1, <1>2 DEF IsInterval, Within, Overlap, Earlier, Later
<1> QED BY <1>3

(* Intervals that all end inside a merged interval do not cover it alone:  *)
(* a set of them that has one at its beginning, and with each the ones     *)
(* that overlap or touch its end and go on, cannot exist.                  *)
LEMMA MergedIsConnected ==
  ASSUME NEW intervals, IsFiniteSet(intervals),
         \A i \in intervals : IsInterval(i),
         NEW m \in Merged(intervals),
         NEW Q \in SUBSET intervals,
         \E i \in Q : i[1] = m[1],
         \A i \in Q : i[2] < m[2],
         \A i \in Q : \A j \in intervals :
           m[1] <= i[2] /\ j[1] <= i[2] /\ i[2] < j[2] => j \in Q
  PROVE  FALSE
<1> DEFINE E == {i \in Q : m[1] <= i[2]}
           T == {i[2] : i \in E}
<1>1. /\ \A i \in intervals : i[1] \in Int /\ i[2] \in Int /\ i[1] < i[2]
      /\ m[1] \in Int /\ m[2] \in Int
  BY DEF IsInterval, Merged
<1>2. PICK i0 \in Q : i0[1] = m[1]
  OBVIOUS
<1>3. i0 \in E
  BY <1>1, <1>2
<1>4. PICK e \in T : \A y \in T : y <= e
  <2> DEFINE f == [i \in E |-> i[2]]
  <2>1. f \in Surjection(E, T)
    BY DEF Surjection
  <2>2. IsFiniteSet(E)
    BY FS_Subset
  <2>3. i0[2] \in T
    BY <1>3
  <2>4. \A y \in T : y \in Int
    BY <1>1
  <2> HIDE DEF f, T, E
  <2> QED BY <2>1, <2>2, <2>3, <2>4, FS_Surjection, HasLatest
<1>5. PICK i \in E : e = i[2]
  BY <1>4
<1>6. i \in intervals /\ m[1] <= i[2] /\ i[2] < m[2]
  BY <1>5
<1>7. PICK j \in intervals : j[1] <= i[2] /\ i[2] < j[2]
  BY <1>6 DEF Merged
<1>8. j \in Q
  BY <1>5, <1>6, <1>7
<1>9. j \in E
  BY <1>1, <1>6, <1>7, <1>8
<1>10. j[2] \in T
  BY <1>9
<1>11. j[2] <= e
  BY <1>4, <1>10
<1> QED BY <1>1, <1>5, <1>6, <1>7, <1>11

(* Merged intervals that overlap are the same one.                         *)
LEMMA MergedAreApart ==
  ASSUME NEW intervals, IsFiniteSet(intervals),
         \A i \in intervals : IsInterval(i),
         NEW m \in Merged(intervals), NEW n \in Merged(intervals),
         Overlap(m, n)
  PROVE  m = n
<1>1. /\ \A i \in intervals : i[1] \in Int /\ i[2] \in Int /\ i[1] < i[2]
      /\ m \in Int \X Int /\ n \in Int \X Int
      /\ m[1] < m[2] /\ n[1] < n[2]
  BY DEF IsInterval, Merged
<1>2. ASSUME NEW a \in Merged(intervals), NEW b \in Merged(intervals),
             Overlap(a, b), a[1] < b[1]
      PROVE  FALSE
  <2>1. /\ a[1] \in Int /\ a[2] \in Int /\ b[1] \in Int /\ b[2] \in Int
        /\ a[1] < a[2] /\ b[1] < b[2] /\ b[1] < a[2]
    BY <1>1, <1>2 DEF Merged, Overlap
  <2> DEFINE Q == {i \in intervals : i[1] < b[1]}
  <2>2. \A i \in Q : i[2] < b[1]
    BY <1>1, <2>1 DEF Merged
  <2>3. PICK i0 \in intervals : i0[1] = a[1]
    BY DEF Merged
  <2>4. i0 \in Q
    BY <1>2, <2>3
  <2>5. \A i \in Q : i[2] < a[2]
    BY <1>1, <2>1, <2>2
  <2>6. \A i \in Q : \A j \in intervals :
          a[1] <= i[2] /\ j[1] <= i[2] /\ i[2] < j[2] => j \in Q
    BY <1>1, <2>1, <2>2
  <2>7. Q \in SUBSET intervals
    OBVIOUS
  <2> HIDE DEF Q
  <2> QED BY <2>3, <2>4, <2>5, <2>6, <2>7, MergedIsConnected
<1>3. Overlap(n, m)
  BY DEF Overlap
<1>4. m[1] = n[1]
  BY <1>1, <1>2, <1>3
<1>5. ASSUME NEW a \in Merged(intervals), NEW b \in Merged(intervals),
             a[1] = b[1], a[2] < b[2]
      PROVE  FALSE
  <2>1. /\ a[1] \in Int /\ a[2] \in Int /\ b[1] \in Int /\ b[2] \in Int
        /\ a[1] < a[2]
    BY <1>1 DEF Merged
  <2>2. PICK i \in intervals : a[2] = i[2]
    BY DEF Merged
  <2>3. PICK j \in intervals : j[1] <= i[2] /\ i[2] < j[2]
    BY <1>5, <2>1, <2>2 DEF Merged
  <2> QED BY <2>2, <2>3 DEF Merged
<1>6. m[2] = n[2]
  BY <1>1, <1>4, <1>5
<1> QED BY <1>1, <1>4, <1>6

(* Merging never joins the windows of two days: the last ends before       *)
(* midnight.                                                               *)
LEMMA MergedKeepsDay ==
  ASSUME NEW intervals, IsFiniteSet(intervals),
         \A i \in intervals : IsInterval(i) /\ Day(i[1]) = Day(i[2]),
         NEW m \in Merged(intervals)
  PROVE  IsInterval(m) /\ Day(m[1]) = Day(m[2])
<1>1. /\ \A i \in intervals : i[1] \in Int /\ i[2] \in Int /\ i[1] < i[2]
      /\ m[1] \in Int /\ m[2] \in Int /\ m[1] < m[2]
      /\ IsInterval(m)
  BY DEF IsInterval, Merged
<1>2. Day(m[1]) \in Int /\ Day(m[2]) \in Int /\ Day(m[1]) <= Day(m[2])
  BY <1>1, DayMonotone
<1>3. \A i \in intervals : Day(i[1]) \in Int /\ Day(i[2]) = Day(i[1])
  BY <1>1, DayMonotone
<1>4. ASSUME Day(m[1]) < Day(m[2]) PROVE FALSE
  <2> DEFINE Q == {i \in intervals : Day(i[1]) <= Day(m[1])}
  <2>1. PICK i0 \in intervals : i0[1] = m[1]
    BY DEF Merged
  <2>2. i0 \in Q
    BY <1>2, <2>1
  <2>3. ASSUME NEW i \in Q PROVE i[2] < m[2]
    <3> DEFINE p == i[2]
               q == m[2]
    <3>1. p \in Int /\ q \in Int /\ Day(p) < Day(q)
      BY <1>1, <1>2, <1>3, <1>4
    <3> HIDE DEF p, q
    <3>2. q <= p => Day(q) <= Day(p) /\ Day(p) \in Int /\ Day(q) \in Int
      BY <3>1, DayMonotone
    <3>3. p < q
      BY <3>1, <3>2
    <3> QED BY <3>3 DEF p, q
  <2>4. ASSUME NEW i \in Q, NEW j \in intervals, j[1] <= i[2] PROVE j \in Q
    <3> DEFINE p == j[1]
               q == i[2]
    <3>1. p \in Int /\ q \in Int /\ p <= q
      BY <1>1, <2>4
    <3>2. Day(q) <= Day(m[1]) /\ Day(q) \in Int
      BY <1>3
    <3> HIDE DEF p, q
    <3>3. Day(p) \in Int /\ Day(p) <= Day(q)
      BY <3>1, DayMonotone
    <3>4. Day(p) <= Day(m[1])
      BY <1>2, <3>2, <3>3
    <3> QED BY <3>4 DEF p
  <2>5. Q \in SUBSET intervals
    OBVIOUS
  <2>6. \A i \in intervals : IsInterval(i)
    OBVIOUS
  <2> HIDE DEF Q
  <2> QED BY <2>1, <2>2, <2>3, <2>4, <2>5, <2>6, MergedIsConnected
<1> QED BY <1>1, <1>2, <1>4

(* Clipping a finite set of intervals leaves a finite set.                 *)
LEMMA ClippedIsFinite ==
  ASSUME NEW intervals, IsFiniteSet(intervals), NEW window
  PROVE  IsFiniteSet(Clipped(intervals, window))
<1> DEFINE S == {j \in intervals : Overlap(j, window)}
           clipped == Clipped(intervals, window)
           f == [i \in S |-> <<Later(i[1], window[1]), Earlier(i[2], window[2])>>]
<1>1. f \in Surjection(S, clipped)
  BY DEF Surjection, Clipped
<1>2. IsFiniteSet(S)
  BY FS_Subset
<1> HIDE DEF f, S, clipped
<1>3. IsFiniteSet(clipped)
  BY <1>1, <1>2, FS_Surjection
<1> QED BY <1>3 DEF clipped

(* The parts of the working windows that lie in a planning window: finitely *)
(* many, each within one day.                                              *)
LEMMA ClippedWindows ==
  ASSUME NEW planning, IsInterval(planning), NEW hours, IsWorkingHours(hours)
  PROVE  /\ IsFiniteSet(Clipped(WorkingWindows(hours), planning))
         /\ \A c \in Clipped(WorkingWindows(hours), planning) :
              IsInterval(c) /\ Day(c[1]) = Day(c[2])
<1>1. DayLength \in Nat /\ DayLength > 0
  BY DayLengthAssumption
<1>0. /\ IsFiniteSet(DOMAIN hours) /\ DOMAIN hours \subseteq Int
      /\ \A d \in DOMAIN hours :
           /\ IsFiniteSet(hours[d])
           /\ \A w \in hours[d] :
                /\ w \in (0 .. DayLength - 1) \X (0 .. DayLength - 1)
                /\ w[1] < w[2]
  BY DEF IsWorkingHours
<1> DEFINE On(d) == {<<d * DayLength + w[1], d * DayLength + w[2]>> : w \in hours[d]}
           windows == WorkingWindows(hours)
           clipped == Clipped(windows, planning)
<1>2. IsFiniteSet(windows)
  <2>1. ASSUME NEW d \in DOMAIN hours PROVE IsFiniteSet(On(d))
    <3> DEFINE f == [w \in hours[d] |->
                       <<d * DayLength + w[1], d * DayLength + w[2]>>]
    <3>1. f \in Surjection(hours[d], On(d))
      BY DEF Surjection
    <3> HIDE DEF f, On
    <3> QED BY <1>0, <3>1, FS_Surjection
  <2> DEFINE D == {On(d) : d \in DOMAIN hours}
             h == [d \in DOMAIN hours |-> On(d)]
  <2>2. h \in Surjection(DOMAIN hours, D)
    BY DEF Surjection
  <2>3. \A T \in D : IsFiniteSet(T)
    BY <2>1
  <2> HIDE DEF h, D
  <2>4. IsFiniteSet(D)
    BY <1>0, <2>2, FS_Surjection
  <2>5. IsFiniteSet(UNION D)
    BY <2>3, <2>4, FS_UNION
  <2> QED BY <2>5 DEF D, WorkingWindows
<1>3. ASSUME NEW i \in windows PROVE IsInterval(i) /\ Day(i[1]) = Day(i[2])
  <2>1. PICK d \in DOMAIN hours : i \in On(d)
    BY <1>3 DEF WorkingWindows
  <2>2. PICK w \in hours[d] : i = <<d * DayLength + w[1], d * DayLength + w[2]>>
    BY <2>1
  <2>3. /\ d \in Int
        /\ w[1] \in Nat /\ w[2] \in Nat
        /\ w[1] < DayLength /\ w[2] < DayLength /\ w[1] < w[2]
    BY <1>0, <1>1
  <2> DEFINE a == w[1]
             b == w[2]
  <2> HIDE DEF a, b
  <2>4. (d * DayLength + a) \div DayLength = d
    BY <1>1, <2>3, DivUnique DEF a
  <2>5. (d * DayLength + b) \div DayLength = d
    BY <1>1, <2>3, DivUnique DEF b
  <2>6. d * DayLength \in Int
    BY <1>1, <2>3
  <2>7. i[1] = d * DayLength + a /\ i[2] = d * DayLength + b
    BY <2>2 DEF a, b
  <2>8. Day(i[1]) = Day(i[2])
    BY <2>4, <2>5, <2>7 DEF Day
  <2>9. IsInterval(i)
    <3> DEFINE x == d * DayLength
    <3>1. x \in Int /\ i = <<x + a, x + b>>
      BY <2>2, <2>6 DEF a, b
    <3> HIDE DEF x
    <3> QED BY <3>1, <2>3 DEF IsInterval, a, b
  <2> QED BY <2>8, <2>9
<1> HIDE DEF windows
<1>4. IsFiniteSet(clipped)
  BY <1>2, ClippedIsFinite
<1>5. ASSUME NEW c \in clipped PROVE IsInterval(c) /\ Day(c[1]) = Day(c[2])
  <2>1. PICK i \in windows : IsInterval(c) /\ Within(c, i)
    BY <1>3, <1>5, ClippedIsProper
  <2>2. IsInterval(i) /\ Day(i[1]) = Day(i[2])
    BY <1>3
  <2> DEFINE p == c[1]
             q == c[2]
             r == i[1]
             s == i[2]
  <2>3. /\ p \in Int /\ q \in Int /\ r \in Int /\ s \in Int
        /\ r <= p /\ p <= q /\ q <= s
    BY <2>1, <2>2 DEF IsInterval, Within
  <2>4. Day(r) = Day(s)
    BY <2>2
  <2> HIDE DEF p, q, r, s
  <2>5. /\ Day(p) \in Int /\ Day(q) \in Int /\ Day(r) \in Int /\ Day(s) \in Int
        /\ Day(r) <= Day(p) /\ Day(p) <= Day(q) /\ Day(q) <= Day(s)
    BY <2>3, DayMonotone
  <2>6. Day(p) = Day(q)
    BY <2>4, <2>5
  <2> QED BY <2>1, <2>6 DEF p, q
<1> QED BY <1>4, <1>5 DEF windows

(* For any planning window, working hours and busy intervals: what         *)
(* calculate_free_intervals returns are intervals that do not overlap,     *)
(* each within one day, as InputAssumption says of the scheduler's input.  *)
THEOREM FreeIntervalsAreFreeTime ==
  ASSUME NEW planning, IsInterval(planning),
         NEW hours, IsWorkingHours(hours),
         NEW busy, \A b \in busy : IsInterval(b)
  PROVE  IsFreeTime(FreeIntervals(planning, hours, busy))
<1> DEFINE clipped == Clipped(WorkingWindows(hours), planning)
           working == Merged(clipped)
           occupied == Clipped(busy, planning)
<1>4. IsFiniteSet(clipped)
  BY ClippedWindows
<1>5. \A c \in clipped : IsInterval(c) /\ Day(c[1]) = Day(c[2])
  BY ClippedWindows
<1> HIDE DEF clipped
<1>6. \A m \in working : IsInterval(m) /\ Day(m[1]) = Day(m[2])
  BY <1>4, <1>5, MergedKeepsDay
<1>7. \A m, n \in working : Overlap(m, n) => m = n
  BY <1>4, <1>5, MergedAreApart
<1>8. \A r \in occupied : IsInterval(r)
  BY ClippedIsProper
<1>9. FreeIntervals(planning, hours, busy) = UNION {Gaps(w, occupied) : w \in working}
  BY DEF FreeIntervals, WorkingIntervals, clipped
<1> HIDE DEF working, occupied
<1>10. ASSUME NEW f \in FreeIntervals(planning, hours, busy)
       PROVE  \E w \in working : f \in Gaps(w, occupied)
  BY <1>9, <1>10
<1>11. ASSUME NEW w \in working, NEW g \in Gaps(w, occupied)
       PROVE  /\ IsInterval(g) /\ Within(g, w)
              /\ Day(g[1]) = Day(g[2])
  <2>1. IsInterval(w) /\ Day(w[1]) = Day(w[2])
    BY <1>6
  <2>2. IsInterval(g) /\ Within(g, w)
    BY <1>8, <1>11, <2>1 DEF Gaps, IsInterval
  <2> DEFINE p == g[1]
             q == g[2]
             r == w[1]
             s == w[2]
  <2>3. /\ p \in Int /\ q \in Int /\ r \in Int /\ s \in Int
        /\ r <= p /\ p <= q /\ q <= s
    BY <2>1, <2>2 DEF IsInterval, Within
  <2>4. Day(r) = Day(s)
    BY <2>1
  <2> HIDE DEF p, q, r, s
  <2>5. /\ Day(p) \in Int /\ Day(q) \in Int /\ Day(r) \in Int /\ Day(s) \in Int
        /\ Day(r) <= Day(p) /\ Day(p) <= Day(q) /\ Day(q) <= Day(s)
    BY <2>3, DayMonotone
  <2>6. Day(p) = Day(q)
    BY <2>4, <2>5
  <2> QED BY <2>2, <2>6 DEF p, q
<1>12. ASSUME NEW f \in FreeIntervals(planning, hours, busy),
              NEW g \in FreeIntervals(planning, hours, busy), Overlap(f, g)
       PROVE  f = g
  <2>1. PICK w \in working : f \in Gaps(w, occupied)
    BY <1>10
  <2>2. PICK v \in working : g \in Gaps(v, occupied)
    BY <1>10
  <2>3. /\ IsInterval(f) /\ Within(f, w) /\ IsInterval(g) /\ Within(g, v)
        /\ IsInterval(w) /\ IsInterval(v)
    BY <2>1, <2>2, <1>6, <1>11
  <2>4. Overlap(w, v)
    BY <1>12, <2>3 DEF Overlap, Within, IsInterval
  <2>5. w = v
    BY <2>4, <1>7
  <2>6. w \in Int \X Int
    BY <2>3 DEF IsInterval
  <2> QED BY <1>8, <1>12, <2>1, <2>2, <2>5, <2>6, GapsAreApart
<1> QED BY <1>10, <1>11, <1>12 DEF IsFreeTime

-----------------------------------------------------------------------------
(* Reservations are the placed blocks with their breaks: finitely many     *)
(* proper intervals, clear of whatever keeps the break.                    *)
LEMMA ReservationFacts ==
  ASSUME RoundTypeOK
  PROVE  /\ \A r \in Reservations : IsInterval(r)
         /\ IsFiniteSet(Reservations)
         /\ \A x \in Int \X Int :
              (\A b \in placed : Apart(b.at, x)) =>
                \A r \in Reservations : ~ Overlap(x, r)
<1>1. preferences.break \in Nat
  BY DEF RoundTypeOK, SchedulerPreferences
<1>2. \A b \in placed : b.at \in Int \X Int /\ b.at[1] < b.at[2]
  BY DEF RoundTypeOK, IsInterval
<1>3. \A r \in Reservations : IsInterval(r)
  BY <1>1, <1>2 DEF Reservations, IsInterval
<1>4. IsFiniteSet(Reservations)
  <2> DEFINE f == [b \in placed |->
                     <<b.at[1] - preferences.break, b.at[2] + preferences.break>>]
  <2>1. f \in Surjection(placed, Reservations)
    BY DEF Surjection, Reservations
  <2> HIDE DEF f
  <2> QED BY <2>1, FS_Surjection DEF RoundTypeOK
<1>5. ASSUME NEW x \in Int \X Int, \A b \in placed : Apart(b.at, x),
             NEW r \in Reservations
      PROVE  ~ Overlap(x, r)
  <2>1. PICK b \in placed :
          r = <<b.at[1] - preferences.break, b.at[2] + preferences.break>>
    BY DEF Reservations
  <2> QED BY <1>1, <1>2, <1>5, <2>1 DEF Overlap, Apart
<1> QED BY <1>3, <1>4, <1>5

(* A block lies in at most one gap that is available for a task.           *)
LEMMA OneGap ==
  ASSUME RoundTypeOK, NEW t \in DOMAIN task,
         NEW g \in Available(t), NEW h \in Available(t),
         Overlap(g, h)
  PROVE  g = h
<1>1. PICK f \in free : g \in Gaps(Allowed(t, f), Reservations)
  BY DEF Available, Constrained
<1>2. PICK e \in free : h \in Gaps(Allowed(t, e), Reservations)
  BY DEF Available, Constrained
<1> DEFINE i == Allowed(t, f)
           j == Allowed(t, e)
<1>3. /\ i \in Int \X Int /\ Within(i, f)
      /\ j \in Int \X Int /\ Within(j, e)
  BY AllowedFacts
<1>4. \A r \in Reservations : IsInterval(r)
  BY ReservationFacts
<1>5. f = e
  <2>1. f \in Int \X Int /\ e \in Int \X Int
    BY InputTypes
  <2>2. g \in Int \X Int /\ h \in Int \X Int /\ Within(g, i) /\ Within(h, j)
    <3> HIDE DEF i, j
    <3>1. g \in Gaps(i, Reservations) /\ h \in Gaps(j, Reservations)
      BY <1>1, <1>2 DEF i, j
    <3> QED BY <3>1, <1>3, <1>4 DEF Gaps, IsInterval
  <2> HIDE DEF i, j
  <2>3. Overlap(f, e)
    BY <2>1, <2>2, <1>3 DEF Overlap, Within
  <2> QED BY <2>3 DEF RoundTypeOK, IsFreeTime
<1>6. h \in Gaps(i, Reservations) /\ g \in Gaps(i, Reservations)
  BY <1>1, <1>2, <1>5
<1> HIDE DEF i
<1> QED BY <1>3, <1>4, <1>6, GapsAreApart

-----------------------------------------------------------------------------
(* Urgency is a strict total order: of two tasks one comes first, whatever *)
(* their priorities and deadlines are.                                     *)
LEMMA UrgencyIsAnOrder ==
  ASSUME RoundTypeOK,
         NEW t \in DOMAIN task, NEW u \in DOMAIN task, NEW v \in DOMAIN task
  PROVE  /\ ~ (Precedes(t, u) /\ Precedes(u, t))
         /\ Precedes(t, u) /\ Precedes(u, v) => Precedes(t, v)
         /\ t # u => Precedes(t, u) \/ Precedes(u, t)
<1>1. \A w \in {t, u, v} : /\ task[w].priority \in Nat
                           /\ task[w].deadline \in Int \cup {NoTime}
                           /\ w \in Nat
  BY InputTypes, TaskAssumption DEF SchedulingTask, RoundTypeOK
<1> QED BY <1>1, NoTimeAssumption, SMTT(60) DEF Precedes

(* As long as tasks are pending, one of them is the most urgent.           *)
LEMMA MostUrgentExists ==
  ASSUME RoundTypeOK, pending # {}
  PROVE  \E t \in pending : IsCurrent(t)
<1> DEFINE Before(t) == {u \in pending : Precedes(u, t)}
           T == {Before(t) : t \in pending}
           R == StrictSubsetOrdering(pending)
<1>1. IsFiniteSet(pending) /\ pending \subseteq DOMAIN task
  BY TaskAssumption, FS_Subset DEF RoundTypeOK
<1>2. IsWellFoundedOn(R, SUBSET pending)
  BY <1>1, FS_StrictSubsetOrderingWellFounded, FS_FiniteSubsetsOfFinite
<1>3. T \subseteq SUBSET pending /\ T # {}
  <2>1. PICK t \in pending : TRUE
    OBVIOUS
  <2>2. Before(t) \in T
    BY <2>1
  <2> QED BY <2>2
<1> HIDE DEF T, R
<1>4. PICK A \in T : \A B \in T : ~ (<<B, A>> \in R)
  BY <1>2, <1>3, WFMin
<1>5. PICK t \in pending : A = Before(t)
  BY <1>4 DEF T
<1>6. ASSUME NEW u \in pending, Precedes(u, t) PROVE FALSE
  <2>1. \A v \in Before(u) : v \in Before(t)
    BY <1>1, <1>6, UrgencyIsAnOrder
  <2>2. u \in Before(t) /\ u \notin Before(u)
    BY <1>1, <1>6, UrgencyIsAnOrder
  <2>3. <<Before(u), Before(t)>> \in StrictSubsetOrdering(pending)
    BY <2>1, <2>2 DEF StrictSubsetOrdering
  <2>4. Before(u) \in T
    BY DEF T
  <2> QED BY <1>4, <1>5, <2>3, <2>4 DEF R
<1>7. \A u \in pending \ {t} : Precedes(t, u)
  BY <1>1, <1>6, UrgencyIsAnOrder
<1> QED BY <1>7 DEF IsCurrent

(* Two candidates none of which is better are the same one.                *)
LEMMA TiesAreBroken ==
  ASSUME RoundTypeOK, NEW t \in DOMAIN task,
         NEW c \in Candidates(t), NEW d \in Candidates(t),
         ~ Better(t, c, d), ~ Better(t, d, c)
  PROVE  c = d
<1>1. PICK g \in Available(t) : c = Candidate(t, g) /\ BlockMinutes(t, g) > 0
  BY DEF Candidates
<1>2. PICK h \in Available(t) : d = Candidate(t, h) /\ BlockMinutes(t, h) > 0
  BY DEF Candidates
<1>3. c.gap = g /\ d.gap = h
  BY <1>1, <1>2 DEF Candidate
<1>4. /\ c.at \in Int \X Int /\ c.at[1] < c.at[2] /\ Within(c.at, g)
      /\ d.at \in Int \X Int /\ d.at[1] < d.at[2] /\ Within(d.at, h)
  BY <1>1, <1>2, CandidateInGap
<1>5. g \in Int \X Int /\ h \in Int \X Int
  BY GapFacts
<1>6. Score(t, c) \in Int /\ Score(t, d) \in Int
  <2>1. task[t].deadline \in Int \cup {NoTime} /\ EffectiveMinimum(t) \in Nat
    BY InputTypes DEF SchedulingTask
  <2>2. ASSUME NEW x, x.at \in Int \X Int, x.gap \in Int \X Int
        PROVE  Score(t, x) \in Int
    <3>1. /\ Minutes(x.gap) \in Int /\ Minutes(x.at) \in Int
          /\ x.at[2] \in Int
      BY <2>2 DEF Minutes
    <3> QED BY <3>1, <2>1, NoTimeAssumption DEF Score, Later, Earlier
  <2> QED BY <2>2, <1>3, <1>4, <1>5
<1>7. c.at = d.at
  BY <1>4, <1>6 DEF Better
<1>8. Overlap(g, h)
  BY <1>4, <1>5, <1>7 DEF Overlap, Within
<1>9. g = h
  BY <1>8, OneGap
<1> QED BY <1>1, <1>2, <1>9

(* At every round there is one task to place and at most one block for it. *)
LEMMA OneChoice ==
  ASSUME RoundTypeOK
  PROVE  SelectionIsUnique
<1>1. ASSUME NEW t \in pending, IsCurrent(t),
             NEW u \in pending, IsCurrent(u)
      PROVE  t = u
  <2>1. t \in DOMAIN task /\ u \in DOMAIN task
    BY DEF RoundTypeOK
  <2>2. t # u => Precedes(t, u) /\ Precedes(u, t)
    BY <1>1 DEF IsCurrent
  <2> QED BY <2>1, <2>2, UrgencyIsAnOrder
<1>2. ASSUME NEW t \in pending,
             NEW c \in Candidates(t), NEW d \in Candidates(t),
             IsSelected(t, c), IsSelected(t, d)
      PROVE  c = d
  <2>1. t \in DOMAIN task
    BY DEF RoundTypeOK
  <2>2. ~ Better(t, c, d) /\ ~ Better(t, d, c)
    BY <1>2 DEF IsSelected
  <2> QED BY <2>1, <2>2, TiesAreBroken
<1> QED BY <1>1, <1>2, MostUrgentExists DEF SelectionIsUnique

(* For any tasks, preferences and free time, a preview is a function of    *)
(* its input: at every round there is one most urgent task and at most one *)
(* candidate that none is better than, whatever ties there are in          *)
(* priorities, deadlines and scores.                                       *)
THEOREM SchedulingIsDeterministic == Spec => []SelectionIsUnique
<1>1. SchedulerTypeOK => SelectionIsUnique
  BY SchedulerRound, OneChoice
<1> QED BY <1>1, SchedulerTypeCorrect, PTL

-----------------------------------------------------------------------------
(* A block of this length at this time could be added for the task.        *)
HasRoom(t, start, m) ==
  /\ Admissible(t, <<start, start + m>>)
  /\ \A b \in placed : Apart(b.at, <<start, start + m>>)
  /\ SessionsOn(t, Day(start)) < task[t].maxPerDay

NoRoom(t) ==
  \A f \in free : \A start \in f[1] .. f[2] : \A m \in Lengths(t) :
    ~ HasRoom(t, start, m)

(* An admissible block lies in an allowed interval: the cutoff of the day  *)
(* the interval begins on is that of the day the block begins on.          *)
LEMMA AdmissibleIsAllowed ==
  ASSUME RoundTypeOK, NEW t \in DOMAIN task,
         NEW x \in Int \X Int, x[1] < x[2], Admissible(t, x)
  PROVE  \E f \in free :
           LET i == Allowed(t, f) IN
           /\ i \in Int \X Int /\ i[1] < i[2]
           /\ Within(x, i)
           /\ Day(i[1]) = Day(x[1])
           /\ \A g \in Int \X Int :
                i[1] <= g[1] /\ g[1] <= x[1] => Day(g[1]) = Day(x[1])
<1>1. PICK f \in free : Within(x, f)
  BY DEF Admissible
<1>2. /\ f \in Int \X Int /\ f[1] < f[2] /\ Day(f[1]) = Day(f[2])
      /\ task[t].earliest \in Int \cup {NoTime}
      /\ task[t].deadline \in Int \cup {NoTime}
      /\ preferences.cutoff \in Nat \cup {NoTime}
  BY InputTypes
     DEF RoundTypeOK, IsFreeTime, SchedulingTask, SchedulerPreferences
<1> DEFINE start == IF task[t].earliest = NoTime THEN f[1]
                    ELSE Later(f[1], task[t].earliest)
           end   == IF task[t].deadline = NoTime THEN f[2]
                    ELSE Earlier(f[2], task[t].deadline)
           last  == IF preferences.cutoff = NoTime THEN end
                    ELSE Earlier(end, OnDayOf(start, preferences.cutoff))
<1>3. /\ start \in Int /\ f[1] <= start /\ start <= x[1]
      /\ end \in Int /\ x[2] <= end
  BY <1>1, <1>2 DEF Admissible, Within, Later, Earlier
<1>4. Allowed(t, f) = <<start, last>>
  BY DEF Allowed
<1> HIDE DEF start, end
<1>5. ASSUME NEW p \in Int, f[1] <= p, p <= x[1] PROVE Day(p) = Day(x[1])
  <2> DEFINE a == f[1]
             b == x[1]
             c == f[2]
  <2>1. /\ a \in Int /\ b \in Int /\ c \in Int
        /\ a <= p /\ p <= b /\ b <= c
    BY <1>1, <1>2, <1>5 DEF Within
  <2>2. Day(a) = Day(c)
    BY <1>2
  <2> HIDE DEF a, b, c
  <2>3. /\ Day(a) \in Int /\ Day(p) \in Int /\ Day(b) \in Int /\ Day(c) \in Int
        /\ Day(a) <= Day(p) /\ Day(p) <= Day(b) /\ Day(b) <= Day(c)
    BY <2>1, DayMonotone
  <2> QED BY <2>2, <2>3 DEF b
<1>6. last \in Int /\ x[2] <= last
  <2>1. CASE preferences.cutoff = NoTime
    BY <2>1, <1>3
  <2>2. CASE preferences.cutoff # NoTime
    <3>1. preferences.cutoff \in Nat
      BY <2>2, <1>2
    <3>2. Day(start) = Day(x[1])
      BY <1>3, <1>5
    <3>3. OnDayOf(start, preferences.cutoff) = OnDayOf(x[1], preferences.cutoff)
      BY <3>2 DEF OnDayOf
    <3>4. x[2] <= OnDayOf(start, preferences.cutoff)
      BY <2>2, <3>3 DEF Admissible
    <3>5. OnDayOf(start, preferences.cutoff) \in Int
      BY <3>1, <1>3, OnDayType
    <3> QED BY <2>2, <3>4, <3>5, <1>3 DEF Earlier
  <2> QED BY <2>1, <2>2
<1> HIDE DEF last
<1>7. \A g \in Int \X Int :
        start <= g[1] /\ g[1] <= x[1] => Day(g[1]) = Day(x[1])
  <2> TAKE g \in Int \X Int
  <2> HAVE start <= g[1] /\ g[1] <= x[1]
  <2>1. g[1] \in Int /\ f[1] \in Int /\ f[1] <= g[1]
    BY <1>2, <1>3
  <2> QED BY <2>1, <1>5
<1>8. Day(start) = Day(x[1])
  BY <1>3, <1>5
<1>9. <<start, last>> \in Int \X Int /\ start < last /\ Within(x, <<start, last>>)
  BY <1>3, <1>6 DEF Within
<1> QED BY <1>4, <1>7, <1>8, <1>9

(* Around what overlaps no reservation there is a gap.                     *)
LEMMA GapAround ==
  ASSUME NEW i \in Int \X Int, NEW x \in Int \X Int, x[1] < x[2], Within(x, i),
         NEW reserved, IsFiniteSet(reserved),
         \A r \in reserved : IsInterval(r) /\ ~ Overlap(x, r)
  PROVE  \E g \in Gaps(i, reserved) : Within(x, g)
<1> DEFINE before == {r \in reserved : r[2] <= x[1]}
           after  == {r \in reserved : ~ r[2] <= x[1]}
           starts == {i[1]} \cup {r[2] : r \in before}
           ends   == {i[2]} \cup {r[1] : r \in after}
<1>1. \A r \in reserved : r[1] \in Int /\ r[2] \in Int /\ r[1] < r[2]
  BY DEF IsInterval
<1>2. \A r \in after : x[2] <= r[1]
  BY <1>1 DEF Overlap
<1>3. IsFiniteSet(starts)
  <2> DEFINE f == [r \in before |-> r[2]]
             T == {r[2] : r \in before}
  <2>1. f \in Surjection(before, T)
    BY DEF Surjection
  <2>2. IsFiniteSet(before)
    BY FS_Subset
  <2> HIDE DEF f, T, before
  <2>3. IsFiniteSet(T)
    BY <2>1, <2>2, FS_Surjection
  <2>4. IsFiniteSet(T \cup {i[1]})
    BY <2>3, FS_AddElement
  <2>5. starts = T \cup {i[1]}
    BY DEF T
  <2> QED BY <2>4, <2>5
<1>4. IsFiniteSet(ends)
  <2> DEFINE f == [r \in after |-> r[1]]
             T == {r[1] : r \in after}
  <2>1. f \in Surjection(after, T)
    BY DEF Surjection
  <2>2. IsFiniteSet(after)
    BY FS_Subset
  <2> HIDE DEF f, T, after
  <2>3. IsFiniteSet(T)
    BY <2>1, <2>2, FS_Surjection
  <2>4. IsFiniteSet(T \cup {i[2]})
    BY <2>3, FS_AddElement
  <2>5. ends = T \cup {i[2]}
    BY DEF T
  <2> QED BY <2>4, <2>5
<1>5. /\ \A p \in starts : p \in Int /\ p <= x[1]
      /\ \A p \in ends : p \in Int /\ x[2] <= p
  BY <1>1, <1>2 DEF Within
<1>6. i[1] \in starts /\ i[2] \in ends
  OBVIOUS
<1>7. /\ \A r \in before : r[2] \in starts
      /\ \A r \in after : r[1] \in ends
  OBVIOUS
<1>8. /\ starts \subseteq {i[1]} \cup {r[2] : r \in reserved}
      /\ ends \subseteq {i[2]} \cup {r[1] : r \in reserved}
  OBVIOUS
<1>9. \A r \in reserved : r \in before \/ r \in after
  OBVIOUS
<1> HIDE DEF starts, ends, before, after
<1>10. PICK a \in starts : \A p \in starts : p <= a
  BY <1>3, <1>5, <1>6, HasLatest
<1>11. PICK b \in ends : \A p \in ends : b <= p
  BY <1>4, <1>5, <1>6, HasEarliest
<1>12. /\ a \in Int /\ b \in Int /\ a <= x[1] /\ x[2] <= b
       /\ i[1] <= a /\ b <= i[2]
  BY <1>5, <1>6, <1>10, <1>11
<1> DEFINE g == <<a, b>>
<1>13. \A r \in reserved : ~ Overlap(g, r)
  <2> TAKE r \in reserved
  <2>1. CASE r \in before
    <3>1. r[2] <= a
      BY <2>1, <1>7, <1>10
    <3> QED BY <3>1, <1>1, <1>12 DEF Overlap
  <2>2. CASE r \in after
    <3>1. b <= r[1]
      BY <2>2, <1>7, <1>11
    <3> QED BY <3>1, <1>1, <1>12 DEF Overlap
  <2> QED BY <2>1, <2>2, <1>9
<1>14. g \in Gaps(i, reserved)
  <2>1. g[1] < g[2] /\ Within(g, i)
    BY <1>12 DEF Within
  <2>2. g \in ({i[1]} \cup {r[2] : r \in reserved})
              \X ({i[2]} \cup {r[1] : r \in reserved})
    BY <1>8, <1>10, <1>11
  <2> HIDE DEF g
  <2> QED BY <2>1, <2>2, <1>13 DEF Gaps
<1>15. Within(x, g)
  BY <1>12 DEF Within
<1> QED BY <1>14, <1>15

(* A gap that is long enough for an allowed length is given a block.       *)
LEMMA LongGapIsUsed ==
  ASSUME RoundTypeOK, NEW t \in DOMAIN task, remaining[t] > 0,
         NEW m \in Lengths(t), NEW g, Minutes(g) \in Int, m <= Minutes(g)
  PROVE  BlockMinutes(t, g) > 0
<1>1. remaining[t] \in Nat /\ EffectiveMinimum(t) \in Nat \ {0}
  BY InputTypes
<1> DEFINE left == remaining[t]
           minimum == EffectiveMinimum(t)
           available == Minutes(g)
<1>2. CASE ~ task[t].splittable
  <2>1. m = left
    BY <1>2 DEF Lengths
  <2> QED BY <2>1, <1>1, <1>2 DEF BlockMinutes
<1>3. CASE task[t].splittable
  <2>1. /\ m \in Int /\ minimum <= m /\ m <= left
        /\ left - m = 0 \/ left - m >= minimum
    BY <1>1, <1>3 DEF Lengths
  <2>2. BlockMinutes(t, g) = SessionMinutes(left, available, minimum)
    BY <1>3 DEF BlockMinutes
  <2>3. left \in Nat /\ minimum \in Nat \ {0} /\ available \in Int /\ m <= available
    BY <1>1
  <2> HIDE DEF left, minimum, available
  <2>4. SessionMinutes(left, available, minimum) > 0
    <3>1. CASE left <= available
      BY <3>1, <2>1, <2>3 DEF SessionMinutes
    <3>2. CASE ~ left <= available
      BY <3>2, <2>1, <2>3 DEF SessionMinutes
    <3> QED BY <3>1, <3>2
  <2> QED BY <2>2, <2>4
<1> QED BY <1>2, <1>3

(* Where there is room there is a candidate, so a task is given up only    *)
(* when there is no room for it.                                           *)
LEMMA RoomGivesCandidate ==
  ASSUME RoundTypeOK, NEW t \in DOMAIN task, remaining[t] > 0,
         NEW start \in Int, NEW m \in Lengths(t), HasRoom(t, start, m)
  PROVE  Candidates(t) # {}
<1> DEFINE x == <<start, start + m>>
<1>1. m \in Int /\ m > 0
  <2>1. remaining[t] \in Nat /\ EffectiveMinimum(t) \in Nat \ {0}
    BY InputTypes
  <2> QED BY <2>1 DEF Lengths
<1>2. /\ x \in Int \X Int /\ x[1] < x[2] /\ x[1] = start /\ x[2] = start + m
      /\ Admissible(t, x)
      /\ \A b \in placed : Apart(b.at, x)
      /\ SessionsOn(t, Day(x[1])) < task[t].maxPerDay
  BY <1>1 DEF HasRoom
<1> HIDE DEF x
<1>3. PICK f \in free :
        LET i == Allowed(t, f) IN
        /\ i \in Int \X Int /\ i[1] < i[2]
        /\ Within(x, i)
        /\ Day(i[1]) = Day(x[1])
        /\ \A g \in Int \X Int :
             i[1] <= g[1] /\ g[1] <= x[1] => Day(g[1]) = Day(x[1])
  BY <1>2, AdmissibleIsAllowed
<1> DEFINE i == Allowed(t, f)
<1>4. i \in Constrained(t)
  BY <1>3 DEF Constrained
<1>5. /\ i \in Int \X Int /\ Within(x, i)
      /\ \A g \in Int \X Int :
           i[1] <= g[1] /\ g[1] <= x[1] => Day(g[1]) = Day(x[1])
  BY <1>3
<1> HIDE DEF i
<1>6. /\ IsFiniteSet(Reservations)
      /\ \A r \in Reservations : IsInterval(r) /\ ~ Overlap(x, r)
  BY <1>2, ReservationFacts
<1>7. PICK g \in Gaps(i, Reservations) : Within(x, g)
  BY <1>2, <1>5, <1>6, GapAround
<1>8. g \in Available(t)
  BY <1>4 DEF Available
<1>9. /\ g \in Int \X Int /\ g[1] < g[2] /\ Within(g, i)
  BY <1>5, <1>6 DEF Gaps, IsInterval
<1>10. Day(g[1]) = Day(x[1])
  BY <1>2, <1>5, <1>7, <1>9 DEF Within
<1>11. Minutes(g) \in Int /\ m <= Minutes(g)
  BY <1>1, <1>2, <1>7, <1>9 DEF Minutes, Within
<1>12. BlockMinutes(t, g) > 0
  BY <1>11, LongGapIsUsed
<1>13. SessionsOn(t, Day(g[1])) < task[t].maxPerDay
  BY <1>2, <1>10
<1>14. Candidate(t, g) \in Candidates(t)
  BY <1>8, <1>12, <1>13 DEF Candidates
<1> QED BY <1>14

(* Placing another block takes room away and gives none.                   *)
LEMMA RoomShrinks ==
  ASSUME RoundTypeOK, UNCHANGED <<task, preferences, free>>,
         placed \subseteq placed', IsFiniteSet(placed'),
         NEW t \in DOMAIN task, remaining'[t] = remaining[t], NoRoom(t)
  PROVE  NoRoom(t)'
<1>1. Lengths(t)' = Lengths(t)
  BY DEF Lengths, EffectiveMinimum
<1>2. ASSUME NEW start, NEW m, HasRoom(t, start, m)' PROVE HasRoom(t, start, m)
  <2>1. Admissible(t, <<start, start + m>>)
    BY <1>2 DEF HasRoom, Admissible
  <2>2. \A b \in placed : Apart(b.at, <<start, start + m>>)
    BY <1>2 DEF HasRoom, Apart
  <2>3. SessionsOn(t, Day(start)) < task[t].maxPerDay
    <3> DEFINE S == {b \in placed : b.task = t /\ Day(b.at[1]) = Day(start)}
               T == {b \in placed' : b.task = t /\ Day(b.at[1]) = Day(start)}
    <3>1. IsFiniteSet(T) /\ S \subseteq T
      BY FS_Subset
    <3>2. Cardinality(T) < task[t].maxPerDay
      BY <1>2 DEF HasRoom, SessionsOn, Day
    <3>3. SessionsOn(t, Day(start)) = Cardinality(S)
      BY DEF SessionsOn
    <3>4. task[t].maxPerDay \in Nat
      BY InputTypes DEF SchedulingTask
    <3> HIDE DEF S, T
    <3>5. /\ Cardinality(S) <= Cardinality(T)
          /\ Cardinality(S) \in Nat /\ Cardinality(T) \in Nat
      BY <3>1, FS_Subset, FS_CardinalityType
    <3> QED BY <3>2, <3>3, <3>4, <3>5
  <2> QED BY <2>1, <2>2, <2>3 DEF HasRoom
<1> SUFFICES ASSUME NEW f \in free, NEW start \in f[1] .. f[2], NEW m \in Lengths(t),
                    HasRoom(t, start, m)'
             PROVE  FALSE
  BY <1>1 DEF NoRoom
<1> QED BY <1>2 DEF NoRoom

(* What the scheduler has given up has no room, then and later.            *)
GivenUpHaveNoRoom ==
  \A t \in DOMAIN task :
    t \notin pending /\ Valid(t) /\ remaining[t] > 0 => NoRoom(t)

LEMMA RoomStep ==
  ASSUME RoundTypeOK, GivenUpHaveNoRoom, [Round]_vars
  PROVE  GivenUpHaveNoRoom'
<1>1. ASSUME NEW u \in DOMAIN task, Place(u) PROVE GivenUpHaveNoRoom'
  <2>1. UNCHANGED <<task, preferences, free>>
    BY <1>1, PlaceFacts
  <2>2. PICK c \in Candidates(u) :
          /\ placed' = placed \cup {[task |-> u, at |-> c.at]}
          /\ remaining' = [remaining EXCEPT ![u] = remaining[u] - Minutes(c.at)]
    BY <1>1, PlaceFacts
  <2>3. pending' = IF remaining'[u] = 0 THEN pending \ {u} ELSE pending
    BY <1>1 DEF Place
  <2>4. u \in pending
    BY <1>1 DEF Place, IsCurrent
  <2>5. placed \subseteq placed' /\ IsFiniteSet(placed')
    BY <2>2, FS_AddElement DEF RoundTypeOK
  <2>6. ASSUME NEW t \in DOMAIN task, t \notin pending',
               Valid(t)', remaining'[t] > 0
        PROVE  NoRoom(t)'
    <3>1. t # u
      BY <2>3, <2>4, <2>6
    <3>2. t \notin pending
      BY <2>3, <2>6, <3>1
    <3>3. remaining'[t] = remaining[t]
      BY <2>2, <3>1 DEF RoundTypeOK
    <3>4. Valid(t)
      BY <2>1, <2>6 DEF Valid
    <3>5. NoRoom(t)
      BY <2>6, <3>2, <3>3, <3>4 DEF GivenUpHaveNoRoom
    <3> QED BY <2>1, <2>5, <2>6, <3>3, <3>5, RoomShrinks
  <2> QED BY <2>1, <2>6 DEF GivenUpHaveNoRoom
<1>2. ASSUME NEW u \in DOMAIN task, GiveUp(u) PROVE GivenUpHaveNoRoom'
  <2>1. /\ UNCHANGED <<task, preferences, free, placed, remaining>>
        /\ pending' = pending \ {u}
        /\ Candidates(u) = {}
    BY <1>2 DEF GiveUp
  <2>2. remaining[u] > 0 => NoRoom(u)
    <3> SUFFICES ASSUME remaining[u] > 0,
                        NEW f \in free, NEW start \in f[1] .. f[2],
                        NEW m \in Lengths(u), HasRoom(u, start, m)
                 PROVE  FALSE
      BY DEF NoRoom
    <3>1. start \in Int
      BY InputTypes
    <3> QED BY <2>1, <3>1, RoomGivesCandidate
  <2>3. ASSUME NEW t \in DOMAIN task, t \notin pending',
               Valid(t)', remaining'[t] > 0
        PROVE  NoRoom(t)'
    <3>1. Valid(t) /\ remaining[t] > 0
      BY <2>1, <2>3 DEF Valid
    <3>2. t = u \/ t \notin pending
      BY <2>1, <2>3
    <3>3. NoRoom(t)
      BY <2>2, <2>3, <3>1, <3>2 DEF GivenUpHaveNoRoom
    <3>4. placed \subseteq placed' /\ IsFiniteSet(placed')
      BY <2>1 DEF RoundTypeOK
    <3> QED BY <2>1, <2>3, <3>3, <3>4, RoomShrinks
  <2> QED BY <2>1, <2>3 DEF GivenUpHaveNoRoom
<1>3. CASE UNCHANGED vars
  <2>1. ASSUME NEW t \in DOMAIN task, t \notin pending',
               Valid(t)', remaining'[t] > 0
        PROVE  NoRoom(t)'
    <3>1. Valid(t) /\ remaining[t] > 0 /\ t \notin pending
      BY <1>3, <2>1 DEF Valid, vars
    <3>2. NoRoom(t)
      BY <2>1, <3>1 DEF GivenUpHaveNoRoom
    <3>3. placed \subseteq placed' /\ IsFiniteSet(placed')
      BY <1>3 DEF RoundTypeOK, vars
    <3> QED BY <1>3, <2>1, <3>2, <3>3, RoomShrinks DEF vars
  <2> QED BY <1>3, <2>1 DEF GivenUpHaveNoRoom, vars
<1> QED BY <1>1, <1>2, <1>3 DEF Round

(* For any tasks, preferences and free time, a valid task is reported with *)
(* minutes left only if no block it may have fits anywhere in the finished *)
(* preview: the greedy choices for other tasks never leave usable room for *)
(* it behind.                                                              *)
THEOREM UnscheduledMeansFull == Spec => []UnscheduledMeansNoRoom
<1>1. Init => GivenUpHaveNoRoom
  BY DEF Init, GivenUpHaveNoRoom
<1>2. SchedulerTypeOK /\ GivenUpHaveNoRoom /\ [Next]_vars => GivenUpHaveNoRoom'
  BY RoomStep, SchedulerRound
<1>3. SchedulerTypeOK /\ GivenUpHaveNoRoom => UnscheduledMeansNoRoom
  BY SchedulerRound
     DEF GivenUpHaveNoRoom, UnscheduledMeansNoRoom, NoRoom, HasRoom
<1> QED BY <1>1, <1>2, <1>3, SchedulerTypeCorrect, PTL DEF Spec

-----------------------------------------------------------------------------
(* The loops are folds, and a fold is a CHOOSE of a function on the sets   *)
(* of positions.  Each is shown to be a sequence of rounds g[0] .. g[n],   *)
(* and an invariant of its rounds climbs from g[0] to g[n].                *)

(* What holds of 0 and goes on from each number to the next holds up to n. *)
LEMMA Climb ==
  ASSUME NEW n \in Nat, NEW G \in SUBSET (0 .. n), 0 \in G,
         \A k \in 1 .. n : k - 1 \in G => k \in G
  PROVE  n \in G
<1>1. IsFiniteSet(G)
  <2>1. IsFiniteSet(0 .. n)
    BY FS_Interval
  <2> QED BY <2>1, FS_Subset
<1>4. G \subseteq Int
  OBVIOUS
<1>2. PICK m \in G : \A k \in G : k <= m
  BY <1>1, <1>4, HasLatest
<1>3. CASE m < n
  <2>1. m + 1 \in 1 .. n /\ m + 1 - 1 = m
    BY <1>3
  <2> QED BY <1>2, <2>1
<1> QED BY <1>2, <1>3

LEMMA MaxOfNumbers ==
  ASSUME NEW n \in Nat, NEW s \in SUBSET (1 .. n), s # {}
  PROVE  Max(s) \in s /\ \A y \in s : y <= Max(s)
<1>1. IsFiniteSet(s)
  <2>1. IsFiniteSet(1 .. n)
    BY FS_Interval
  <2> QED BY <2>1, FS_Subset
<1>5. \A k \in s : k \in Int
  OBVIOUS
<1>2. PICK m \in s : \A k \in s : k <= m
  <2>1. s \subseteq Int
    BY <1>5
  <2> QED BY <1>1, <2>1, HasLatest
<1>3. \E x \in s : \A y \in s : x >= y
  BY <1>5, <1>2
<1>4. Max(s) \in s /\ \A y \in s : Max(s) >= y
  BY <1>3 DEF Max
<1> QED BY <1>5, <1>4

LEMMA MaxOfPrefix ==
  ASSUME NEW n \in Nat, NEW k \in 1 .. n
  PROVE  Max(1 .. k) = k /\ (1 .. k) \ {k} = 1 .. (k - 1)
         /\ 1 .. k \in SUBSET (1 .. n) /\ 1 .. k # {}
<1>1. 1 .. k \in SUBSET (1 .. n) /\ k \in 1 .. k
  OBVIOUS
<1>2. Max(1 .. k) \in 1 .. k /\ \A y \in 1 .. k : y <= Max(1 .. k)
  BY <1>1, MaxOfNumbers
<1> QED BY <1>1, <1>2

(* Every fold of the loops is a function on the sets of positions: the     *)
(* last position of a set is what the loop adds to the rest.               *)
IsFold(f, n, base, step, seq) ==
  \A s \in SUBSET (1 .. n) :
    f[s] = IF s = {} THEN base
           ELSE step[<<f[s \ {Max(s)}], seq[Max(s)]>>]

LEMMA FoldExists ==
  ASSUME NEW V, NEW E, NEW base \in V, NEW step \in [V \X E -> V],
         NEW n \in Nat, NEW seq \in [1 .. n -> E]
  PROVE  \E f \in [SUBSET (1 .. n) -> V] : IsFold(f, n, base, step, seq)
<1> DEFINE Folds(f, m) == IsFold(f, m, base, step, seq)
           Exists(m) == \E f \in [SUBSET (1 .. m) -> V] : Folds(f, m)
           G == {m \in 0 .. n : Exists(m)}
<1>1. 0 \in G
  <2> DEFINE f == [s \in SUBSET (1 .. 0) |-> base]
  <2>1. \A s \in SUBSET (1 .. 0) : s = {}
    OBVIOUS
  <2>2. f \in [SUBSET (1 .. 0) -> V] /\ Folds(f, 0)
    BY <2>1 DEF IsFold
  <2> HIDE DEF f, Folds
  <2>3. Exists(0)
    BY <2>2
  <2> HIDE DEF Exists
  <2> QED BY <2>3
<1>2. ASSUME NEW k \in 1 .. n, k - 1 \in G PROVE k \in G
  <2>1. PICK h \in [SUBSET (1 .. (k - 1)) -> V] : Folds(h, k - 1)
    BY <1>2
  <2> DEFINE f == [s \in SUBSET (1 .. k) |->
                     IF k \in s THEN step[<<h[s \ {k}], seq[k]>>] ELSE h[s]]
  <2>2. \A s \in SUBSET (1 .. k) : s \ {k} \in SUBSET (1 .. (k - 1))
    OBVIOUS
  <2>3. \A s \in SUBSET (1 .. k) : k \notin s => s \in SUBSET (1 .. (k - 1))
    OBVIOUS
  <2>4. f \in [SUBSET (1 .. k) -> V]
    BY <2>2, <2>3
  <2>5. ASSUME NEW s \in SUBSET (1 .. k)
        PROVE  f[s] = IF s = {} THEN base
                      ELSE step[<<f[s \ {Max(s)}], seq[Max(s)]>>]
    <3>1. CASE k \in s
      <4>1. Max(s) = k
        <5>1. k \in Nat /\ s # {}
          BY <3>1
        <5>2. Max(s) \in s /\ k <= Max(s)
          BY <3>1, <5>1, MaxOfNumbers
        <5>3. Max(s) \in 1 .. k
          BY <5>2
        <5> QED BY <5>1, <5>2, <5>3
      <4>2. f[s \ {k}] = h[s \ {k}]
        <5>1. s \ {k} \in SUBSET (1 .. k) /\ k \notin s \ {k}
          OBVIOUS
        <5> QED BY <5>1
      <4>3. f[s] = step[<<h[s \ {k}], seq[k]>>]
        BY <3>1
      <4> QED BY <3>1, <4>1, <4>2, <4>3
    <3>2. CASE k \notin s
      <4>1. s \in SUBSET (1 .. (k - 1)) /\ k - 1 \in Nat
        BY <2>3, <3>2
      <4>2. h[s] = IF s = {} THEN base
                   ELSE step[<<h[s \ {Max(s)}], seq[Max(s)]>>]
        BY <2>1, <4>1 DEF IsFold
      <4>3. s # {} => f[s \ {Max(s)}] = h[s \ {Max(s)}]
        BY <3>2
      <4> QED BY <3>2, <4>2, <4>3
    <3> QED BY <3>1, <3>2
  <2>6. Folds(f, k)
    BY <2>5 DEF IsFold
  <2> HIDE DEF f, Folds
  <2>7. Exists(k)
    BY <2>4, <2>6
  <2> HIDE DEF Exists
  <2> QED BY <2>7
<1> HIDE DEF Folds
<1>3. n \in G
  <2>1. G \in SUBSET (0 .. n)
    OBVIOUS
  <2> HIDE DEF G
  <2> QED BY <1>1, <1>2, <2>1, Climb
<1> QED BY <1>3 DEF Folds

(* Dataclass order is a strict total order on intervals,                   *)
LEMMA SortingIsAnOrder ==
  ASSUME NEW i \in Int \X Int, NEW j \in Int \X Int, NEW k \in Int \X Int
  PROVE  /\ ~ SortsBefore(i, i)
         /\ SortsBefore(i, j) /\ SortsBefore(j, k) => SortsBefore(i, k)
         /\ ~ SortsBefore(i, j) /\ ~ SortsBefore(j, i) => i = j
<1>1. /\ i[1] \in Int /\ i[2] \in Int /\ j[1] \in Int /\ j[2] \in Int
      /\ k[1] \in Int /\ k[2] \in Int
      /\ i = <<i[1], i[2]>> /\ j = <<j[1], j[2]>>
  OBVIOUS
<1> QED BY <1>1 DEF SortsBefore

(* so that as many intervals are before one as there are positions before  *)
(* its own.                                                                *)
Position(S) == [i \in S |-> Cardinality({j \in S : SortsBefore(j, i)}) + 1]

LEMMA SortedPositions ==
  ASSUME NEW S, IsFiniteSet(S), S \subseteq Int \X Int
  PROVE  /\ Cardinality(S) \in Nat
         /\ Position(S) \in [S -> 1 .. Cardinality(S)]
         /\ \A i, j \in S : SortsBefore(i, j) => Position(S)[i] < Position(S)[j]
         /\ \A i, j \in S : Position(S)[i] = Position(S)[j] => i = j
         /\ \A n \in 1 .. Cardinality(S) : \E i \in S : Position(S)[i] = n
<1> DEFINE Those(i) == {j \in S : SortsBefore(j, i)}
           n == Cardinality(S)
           rank == [i \in S |-> Cardinality(Those(i)) + 1]
<1>1. n \in Nat
  BY FS_CardinalityType
<1>2. ASSUME NEW i \in S
      PROVE  /\ IsFiniteSet(Those(i)) /\ Cardinality(Those(i)) \in Nat
             /\ rank[i] = Cardinality(Those(i)) + 1
             /\ rank[i] \in 1 .. n
  <2> DEFINE A == Those(i)
  <2>1. A \in SUBSET S /\ i \in S /\ i \notin A
    BY SortingIsAnOrder
  <2>2. rank[i] = Cardinality(A) + 1
    OBVIOUS
  <2> HIDE DEF A, rank
  <2>3. /\ IsFiniteSet(A) /\ Cardinality(A) \in Nat /\ Cardinality(A) <= n
        /\ Cardinality(A) # n
    BY <2>1, FS_Subset, FS_CardinalityType
  <2> HIDE DEF n
  <2>4. rank[i] \in 1 .. n
    BY <1>1, <2>2, <2>3
  <2> QED BY <2>2, <2>3, <2>4 DEF A
<1>3. ASSUME NEW i \in S, NEW j \in S, SortsBefore(i, j) PROVE rank[i] < rank[j]
  <2> DEFINE A == Those(i)
             B == Those(j)
  <2>1. A \subseteq B
    <3> SUFFICES ASSUME NEW k \in S, SortsBefore(k, i) PROVE SortsBefore(k, j)
      OBVIOUS
    <3> QED BY <1>3, SortingIsAnOrder
  <2>2. i \in B /\ i \notin A
    BY <1>3, SortingIsAnOrder
  <2>3. /\ IsFiniteSet(A) /\ Cardinality(A) \in Nat /\ rank[i] = Cardinality(A) + 1
        /\ IsFiniteSet(B) /\ Cardinality(B) \in Nat /\ rank[j] = Cardinality(B) + 1
    BY <1>2
  <2> HIDE DEF A, B, rank
  <2>4. Cardinality(A) <= Cardinality(B) /\ Cardinality(A) # Cardinality(B)
    BY <2>1, <2>2, <2>3, FS_Subset
  <2> QED BY <2>3, <2>4
<1>4. ASSUME NEW i \in S, NEW j \in S, rank[i] = rank[j] PROVE i = j
  <2>1. rank[i] \in 1 .. n /\ rank[j] \in 1 .. n
    BY <1>2
  <2> HIDE DEF rank, n
  <2>2. ~ SortsBefore(i, j) /\ ~ SortsBefore(j, i)
    BY <1>1, <1>3, <1>4, <2>1
  <2> QED BY <2>2, SortingIsAnOrder
<1>5. \A m \in 1 .. n : \E i \in S : rank[i] = m
  <2> DEFINE T == 1 .. n
  <2>1. IsFiniteSet(T) /\ Cardinality(T) = n
    BY <1>1, FS_Interval
  <2>2. rank \in Injection(S, T)
    <3>1. rank \in [S -> T]
      BY <1>2
    <3> QED BY <3>1, <1>4 DEF Injection, IsInjective
  <2> HIDE DEF T, rank, n
  <2>3. rank \in Surjection(S, T)
    BY <2>1, <2>2, FS_Injection DEF n
  <2> QED BY <2>3 DEF Surjection, T
<1>6. rank \in [S -> 1 .. n]
  BY <1>2
<1> QED BY <1>1, <1>3, <1>4, <1>5, <1>6 DEF Position

(* sorted() gives every interval a position, in that order.                *)
LEMMA SortedFacts ==
  ASSUME NEW S, IsFiniteSet(S), S \subseteq Int \X Int
  PROVE  /\ Cardinality(S) \in Nat
         /\ Sorted(S) \in [1 .. Cardinality(S) -> S]
         /\ \A i \in S : \E a \in 1 .. Cardinality(S) : Sorted(S)[a] = i
         /\ \A a, b \in 1 .. Cardinality(S) :
              a < b => SortsBefore(Sorted(S)[a], Sorted(S)[b])
<1> DEFINE n == Cardinality(S)
           rank == Position(S)
           s == Sorted(S)
<1>1. /\ n \in Nat
      /\ rank \in [S -> 1 .. n]
      /\ \A i, j \in S : SortsBefore(i, j) => rank[i] < rank[j]
      /\ \A i, j \in S : rank[i] = rank[j] => i = j
      /\ \A m \in 1 .. n : \E i \in S : rank[i] = m
  BY SortedPositions
<1>2. s = [m \in 1 .. n |-> CHOOSE i \in S : rank[i] - 1 = m - 1]
  <2>1. \A i \in S : Cardinality({j \in S : SortsBefore(j, i)}) \in Nat
    <3> TAKE i \in S
    <3>1. IsFiniteSet({j \in S : SortsBefore(j, i)})
      BY FS_Subset
    <3> QED BY <3>1, FS_CardinalityType
  <2>2. \A i \in S : rank[i] - 1 = Cardinality({j \in S : SortsBefore(j, i)})
    BY <2>1 DEF Position
  <2>3. \A m \in 1 .. n :
          (CHOOSE i \in S : rank[i] - 1 = m - 1)
            = (CHOOSE i \in S : Cardinality({j \in S : SortsBefore(j, i)}) = m - 1)
    BY <2>2
  <2> QED BY <2>3 DEF Sorted
<1> HIDE DEF rank, s, n
<1>3. ASSUME NEW m \in 1 .. n PROVE s[m] \in S /\ rank[s[m]] = m
  <2>1. \E i \in S : rank[i] - 1 = m - 1
    BY <1>1
  <2>2. s[m] \in S /\ rank[s[m]] - 1 = m - 1
    BY <1>2, <2>1
  <2>3. rank[s[m]] \in 1 .. n
    BY <1>1, <2>2
  <2> QED BY <1>1, <2>2, <2>3
<1>4. s \in [1 .. n -> S]
  BY <1>2, <1>3
<1>5. ASSUME NEW i \in S PROVE \E a \in 1 .. n : s[a] = i
  BY <1>1, <1>3
<1>6. ASSUME NEW a \in 1 .. n, NEW b \in 1 .. n, a < b PROVE SortsBefore(s[a], s[b])
  <2>1. /\ s[a] \in S /\ s[b] \in S /\ rank[s[a]] = a /\ rank[s[b]] = b
        /\ a \in Int /\ b \in Int
    BY <1>1, <1>3
  <2>2. ~ SortsBefore(s[b], s[a]) /\ s[a] # s[b]
    BY <1>1, <1>6, <2>1
  <2> QED BY <2>1, <2>2, SortingIsAnOrder
<1> QED BY <1>1, <1>4, <1>5, <1>6 DEF s, n

(* The outer loop of _subtract_intervals, round by round.                  *)
Subtracts(f, sources, seq) ==
  f = [s \in SUBSET DOMAIN seq |->
         IF s = {} THEN sources
         ELSE SubtractOne(f[s \ {Max(s)}], seq[Max(s)])]

LEMMA SubtractIsFold ==
  ASSUME NEW sources, NEW seq
  PROVE  FoldLeft(SubtractOne, sources, seq)
           = (CHOOSE f : Subtracts(f, sources, seq))[DOMAIN seq]
BY DEF FoldLeft, MapThenFoldSet, Subtracts

SubtractionRounds(g, n, sources, seq) ==
  /\ g[0] = sources
  /\ \A k \in 1 .. n : g[k] = SubtractOne(g[k - 1], seq[k])
  /\ FoldLeft(SubtractOne, sources, seq) = g[n]

LEMMA SubtractRounds ==
  ASSUME NEW sources \in SUBSET (Int \X Int),
         NEW n \in Nat, NEW seq \in [1 .. n -> Int \X Int]
  PROVE  \E g : SubtractionRounds(g, n, sources, seq)
<1> DEFINE V == SUBSET (Int \X Int)
           E == Int \X Int
           step == [p \in V \X E |-> SubtractOne(p[1], p[2])]
           f == CHOOSE h : Subtracts(h, sources, seq)
           g == [k \in 0 .. n |-> f[1 .. k]]
<1>1. step \in [V \X E -> V]
  <2> SUFFICES ASSUME NEW S \in V, NEW r \in E PROVE SubtractOne(S, r) \in V
    OBVIOUS
  <2> SUFFICES ASSUME NEW x \in SubtractOne(S, r) PROVE x \in Int \X Int
    OBVIOUS
  <2>1. PICK s \in S : x \in IF ~ Overlap(r, s) THEN {s}
                             ELSE {p \in {<<s[1], r[1]>>, <<r[2], s[2]>>} :
                                     p[1] < p[2]}
    BY DEF SubtractOne
  <2>2. s \in Int \X Int
    OBVIOUS
  <2> QED BY <2>1, <2>2
<1>2. \E h : Subtracts(h, sources, seq)
  <2>1. PICK h \in [SUBSET (1 .. n) -> V] : IsFold(h, n, sources, step, seq)
    <3> HIDE DEF V, E, step
    <3>1. sources \in V /\ seq \in [1 .. n -> E]
      BY DEF V, E
    <3> QED BY <1>1, <3>1, FoldExists
  <2>2. ASSUME NEW s \in SUBSET (1 .. n), s # {}
        PROVE  step[<<h[s \ {Max(s)}], seq[Max(s)]>>]
                 = SubtractOne(h[s \ {Max(s)}], seq[Max(s)])
    <3>1. Max(s) \in 1 .. n
      BY <2>2, MaxOfNumbers
    <3>2. h[s \ {Max(s)}] \in V /\ seq[Max(s)] \in E
      BY <3>1
    <3> HIDE DEF V, E
    <3> QED BY <3>2
  <2> HIDE DEF step
  <2>3. h = [s \in SUBSET (1 .. n) |->
               IF s = {} THEN sources
               ELSE SubtractOne(h[s \ {Max(s)}], seq[Max(s)])]
    BY <2>1, <2>2 DEF IsFold
  <2>4. DOMAIN seq = 1 .. n
    OBVIOUS
  <2> QED BY <2>3, <2>4 DEF Subtracts
<1>3. Subtracts(f, sources, seq)
  BY <1>2
<1>4. \A s \in SUBSET (1 .. n) :
        f[s] = IF s = {} THEN sources
               ELSE SubtractOne(f[s \ {Max(s)}], seq[Max(s)])
  <2> HIDE DEF f
  <2>1. DOMAIN seq = 1 .. n
    OBVIOUS
  <2> QED BY <1>3, <2>1 DEF Subtracts
<1>5. FoldLeft(SubtractOne, sources, seq) = f[1 .. n]
  BY SubtractIsFold
<1> HIDE DEF f
<1>6. g[0] = sources
  <2>1. 1 .. 0 = {}
    OBVIOUS
  <2>2. f[{}] = sources
    BY <1>4
  <2> QED BY <2>1, <2>2
<1>7. ASSUME NEW k \in 1 .. n PROVE g[k] = SubtractOne(g[k - 1], seq[k])
  <2>1. /\ Max(1 .. k) = k /\ (1 .. k) \ {k} = 1 .. (k - 1)
        /\ 1 .. k \in SUBSET (1 .. n) /\ 1 .. k # {}
    BY MaxOfPrefix
  <2>2. f[1 .. k] = SubtractOne(f[1 .. (k - 1)], seq[k])
    BY <1>4, <2>1
  <2> QED BY <2>2
<1>8. g[n] = FoldLeft(SubtractOne, sources, seq)
  BY <1>5
<1>9. SubtractionRounds(g, n, sources, seq)
  BY <1>6, <1>7, <1>8 DEF SubtractionRounds
<1> QED BY <1>9

(* What one reservation leaves of the gaps between others are the gaps     *)
(* between all of them.                                                    *)
LEMMA SubtractOneGap ==
  ASSUME NEW i \in Int \X Int, i[1] < i[2],
         NEW P, IsFiniteSet(P), \A p \in P : IsInterval(p),
         NEW r, IsInterval(r)
  PROVE  SubtractOne(Gaps(i, P), r) = Gaps(i, P \cup {r})
<1> DEFINE Q == P \cup {r}
           Part(g) == IF ~ Overlap(r, g) THEN {g}
                      ELSE {p \in {<<g[1], r[1]>>, <<r[2], g[2]>>} : p[1] < p[2]}
<1>1. /\ \A p \in Q : p \in Int \X Int /\ p[1] \in Int /\ p[2] \in Int /\ p[1] < p[2]
      /\ i[1] \in Int /\ i[2] \in Int
      /\ r \in Int \X Int /\ r[1] \in Int /\ r[2] \in Int /\ r[1] < r[2]
  BY DEF IsInterval
<1>2. ASSUME NEW g \in Gaps(i, P)
      PROVE  /\ g \in Int \X Int /\ g[1] \in Int /\ g[2] \in Int /\ g[1] < g[2]
             /\ g = <<g[1], g[2]>>
             /\ Within(g, i)
             /\ \A p \in P : ~ Overlap(g, p)
             /\ g[1] = i[1] \/ \E p \in P : g[1] = p[2]
             /\ g[2] = i[2] \/ \E p \in P : g[2] = p[1]
  BY <1>1 DEF Gaps
<1>3. ASSUME NEW g \in Gaps(i, P), NEW x \in Part(g)
      PROVE  x \in Gaps(i, Q)
  <2>1. /\ x[1] \in Int /\ x[2] \in Int /\ x[1] < x[2] /\ x = <<x[1], x[2]>>
        /\ x \in Int \X Int
        /\ Within(x, g) /\ ~ Overlap(x, r)
        /\ x[1] = g[1] \/ x[1] = r[2]
        /\ x[2] = g[2] \/ x[2] = r[1]
    <3>1. CASE ~ Overlap(r, g)
      BY <1>1, <1>2, <1>3, <3>1 DEF Overlap, Within
    <3>2. CASE Overlap(r, g)
      BY <1>1, <1>2, <1>3, <3>2 DEF Overlap, Within
    <3> QED BY <3>1, <3>2
  <2>2. Within(x, i)
    BY <1>1, <1>2, <2>1 DEF Within
  <2>3. ASSUME NEW p \in P PROVE ~ Overlap(x, p)
    BY <1>1, <1>2, <2>1 DEF Within, Overlap
  <2>4. \A p \in Q : ~ Overlap(x, p)
    BY <2>1, <2>3
  <2>5. x[1] \in {i[1]} \cup {p[2] : p \in Q}
    BY <1>2, <2>1
  <2>6. x[2] \in {i[2]} \cup {p[1] : p \in Q}
    BY <1>2, <2>1
  <2> HIDE DEF Q
  <2> QED BY <2>1, <2>2, <2>4, <2>5, <2>6 DEF Gaps
<1>4. ASSUME NEW x \in Gaps(i, Q) PROVE \E g \in Gaps(i, P) : x \in Part(g)
  <2>1. /\ x[1] \in Int /\ x[2] \in Int /\ x[1] < x[2] /\ x = <<x[1], x[2]>>
        /\ x \in Int \X Int
        /\ Within(x, i)
        /\ \A p \in P : ~ Overlap(x, p)
        /\ ~ Overlap(x, r)
        /\ x[1] = i[1] \/ x[1] = r[2] \/ \E p \in P : x[1] = p[2]
        /\ x[2] = i[2] \/ x[2] = r[1] \/ \E p \in P : x[2] = p[1]
    BY <1>1 DEF Gaps
  <2>2. PICK g \in Gaps(i, P) : Within(x, g)
    BY <2>1, GapAround
  <2>3. /\ g[1] \in Int /\ g[2] \in Int /\ g[1] < g[2] /\ Within(g, i)
        /\ \A p \in P : ~ Overlap(g, p)
        /\ g = <<g[1], g[2]>>
    BY <1>2
  <2>4. x[1] = g[1] \/ x[1] = r[2]
    <3>1. CASE x[1] = i[1]
      BY <1>1, <2>1, <2>2, <2>3, <3>1 DEF Within
    <3>2. ASSUME NEW p \in P, x[1] = p[2] PROVE x[1] = g[1]
      BY <1>1, <2>1, <2>2, <2>3, <3>2 DEF Within, Overlap
    <3> QED BY <2>1, <3>1, <3>2
  <2>5. x[2] = g[2] \/ x[2] = r[1]
    <3>1. CASE x[2] = i[2]
      BY <1>1, <2>1, <2>2, <2>3, <3>1 DEF Within
    <3>2. ASSUME NEW p \in P, x[2] = p[1] PROVE x[2] = g[2]
      BY <1>1, <2>1, <2>2, <2>3, <3>2 DEF Within, Overlap
    <3> QED BY <2>1, <3>1, <3>2
  <2>6. CASE ~ Overlap(r, g)
    <3>1. x[1] = g[1] /\ x[2] = g[2]
      BY <1>1, <2>1, <2>2, <2>3, <2>4, <2>5, <2>6 DEF Within, Overlap
    <3> QED BY <2>1, <2>3, <2>6, <3>1
  <2>7. CASE Overlap(r, g)
    <3>1. \/ x[1] = g[1] /\ x[2] = r[1]
          \/ x[1] = r[2] /\ x[2] = g[2]
      BY <1>1, <2>1, <2>2, <2>3, <2>4, <2>5, <2>7 DEF Within, Overlap
    <3> QED BY <2>1, <2>7, <3>1
  <2> QED BY <2>6, <2>7
<1> QED BY <1>3, <1>4 DEF SubtractOne

(* The loop of _subtract_intervals leaves the gaps between all reservations *)
(* in every source.                                                        *)
LEMMA SubtractLoopGaps ==
  ASSUME NEW sources, \A s \in sources : s \in Int \X Int /\ s[1] < s[2],
         NEW R, IsFiniteSet(R), \A r \in R : IsInterval(r)
  PROVE  SubtractLoop(sources, R) = UNION {Gaps(s, R) : s \in sources}
<1> DEFINE n == Cardinality(R)
           seq == Sorted(R)
           Upto(k) == {seq[a] : a \in 1 .. k}
           Left(k) == UNION {Gaps(s, Upto(k)) : s \in sources}
<1>1. /\ n \in Nat /\ seq \in [1 .. n -> R]
      /\ \A i \in R : \E a \in 1 .. n : seq[a] = i
  <2>1. R \subseteq Int \X Int
    BY DEF IsInterval
  <2> QED BY <2>1, SortedFacts
<1> HIDE DEF n, seq
<1>7. PICK g : SubtractionRounds(g, n, sources, seq)
  <2>1. sources \in SUBSET (Int \X Int) /\ seq \in [1 .. n -> Int \X Int]
    BY <1>1 DEF IsInterval
  <2> QED BY <1>1, <2>1, SubtractRounds
<1>2. /\ g[0] = sources
      /\ \A k \in 1 .. n : g[k] = SubtractOne(g[k - 1], seq[k])
      /\ FoldLeft(SubtractOne, sources, seq) = g[n]
  BY <1>7 DEF SubtractionRounds
<1>3. g[0] = Left(0)
  <2>1. Upto(0) = {}
    OBVIOUS
  <2>2. ASSUME NEW s \in sources PROVE Gaps(s, {}) = {s}
    BY DEF Gaps, Within
  <2> HIDE DEF Upto
  <2> QED BY <1>2, <2>1, <2>2
<1>4. ASSUME NEW k \in 1 .. n, g[k - 1] = Left(k - 1) PROVE g[k] = Left(k)
  <2> DEFINE P == Upto(k - 1)
             r == seq[k]
  <2>1. /\ IsFiniteSet(P) /\ \A p \in P : IsInterval(p)
        /\ IsInterval(r) /\ Upto(k) = P \cup {r}
    <3>1. P \subseteq R /\ r \in R
      BY <1>1
    <3>2. 1 .. k = (1 .. (k - 1)) \cup {k}
      BY <1>1
    <3>3. Upto(k) = P \cup {r}
      BY <3>2
    <3> HIDE DEF P, r
    <3> QED BY <3>1, <3>3, FS_Subset
  <2> HIDE DEF P, r, Upto
  <2>2. ASSUME NEW s \in sources
        PROVE  SubtractOne(Gaps(s, P), r) = Gaps(s, Upto(k))
    BY <2>1, SubtractOneGap
  <2>3. g[k - 1] = UNION {Gaps(s, P) : s \in sources}
    BY <1>4 DEF P
  <2>4. SubtractOne(UNION {Gaps(s, P) : s \in sources}, r)
          = UNION {SubtractOne(Gaps(s, P), r) : s \in sources}
    BY DEF SubtractOne
  <2>5. g[k] = SubtractOne(g[k - 1], r)
    BY <1>2 DEF r
  <2> QED BY <2>2, <2>3, <2>4, <2>5
<1>5. g[n] = Left(n)
  <2> HIDE DEF Left
  <2> DEFINE G == {k \in 0 .. n : g[k] = Left(k)}
  <2>1. 0 \in G
    BY <1>1, <1>3
  <2>2. \A k \in 1 .. n : k - 1 \in G => k \in G
    BY <1>1, <1>4
  <2>3. G \in SUBSET (0 .. n)
    OBVIOUS
  <2>4. n \in G
    <3> HIDE DEF G
    <3> QED BY <1>1, <2>1, <2>2, <2>3, Climb
  <2> QED BY <2>4
<1>6. Upto(n) = R
  BY <1>1
<1> HIDE DEF Upto
<1> QED BY <1>2, <1>5, <1>6 DEF SubtractLoop, seq

(* One more interval that begins after all others end stays for itself.    *)
LEMMA MergedApart ==
  ASSUME NEW P, IsFiniteSet(P), \A p \in P : IsInterval(p),
         NEW i, IsInterval(i), \A p \in P : p[2] < i[1]
  PROVE  Merged(P \cup {i}) = Merged(P) \cup {i}
<1> DEFINE Q == P \cup {i}
<1>1. /\ \A q \in Q : /\ q \in Int \X Int /\ q = <<q[1], q[2]>>
                      /\ q[1] \in Int /\ q[2] \in Int /\ q[1] < q[2]
      /\ i[1] \in Int /\ i[2] \in Int /\ i[1] < i[2] /\ i = <<i[1], i[2]>>
  BY DEF IsInterval
<1>2. IsFiniteSet(Q) /\ \A q \in Q : IsInterval(q)
  BY FS_AddElement
<1>3. ASSUME NEW m \in Merged(Q), m # i PROVE m \in Merged(P)
  <2>1. /\ m = <<m[1], m[2]>> /\ m[1] < m[2]
        /\ \E q \in Q : m[1] = q[1]
        /\ \E q \in Q : m[2] = q[2]
        /\ \A q \in Q : /\ ~ (q[1] < m[1] /\ m[1] <= q[2])
                        /\ ~ (q[1] <= m[2] /\ m[2] < q[2])
                        /\ m[1] <= q[2] /\ q[2] < m[2] =>
                             \E j \in Q : j[1] <= q[2] /\ q[2] < j[2]
    BY DEF Merged
  <2>2. m[1] \in Int /\ m[2] \in Int
    BY <1>1, <2>1
  <2>3. m[1] # i[1]
    <3> SUFFICES ASSUME m[1] = i[1] PROVE FALSE
      OBVIOUS
    <3>1. m[2] = i[2]
      BY <1>1, <2>1, <2>2
    <3> QED BY <1>1, <1>3, <2>1, <3>1
  <2>4. PICK p0 \in P : m[1] = p0[1]
    BY <2>1, <2>3
  <2>5. m[2] # i[2]
    <3> SUFFICES ASSUME m[2] = i[2] PROVE FALSE
      OBVIOUS
    <3>1. \A p \in P : p[2] < m[2]
      BY <1>1
    <3>2. \A p \in P : \A j \in Q :
            m[1] <= p[2] /\ j[1] <= p[2] /\ p[2] < j[2] => j \in P
      BY <1>1
    <3>3. P \in SUBSET Q /\ \E p \in P : p[1] = m[1]
      BY <2>4
    <3> HIDE DEF Q
    <3> QED BY <1>2, <3>1, <3>2, <3>3, MergedIsConnected
  <2>6. PICK p1 \in P : m[2] = p1[2]
    BY <2>1, <2>5
  <2>7. ASSUME NEW p \in P, m[1] <= p[2], p[2] < m[2]
        PROVE  \E j \in P : j[1] <= p[2] /\ p[2] < j[2]
    BY <1>1, <2>1, <2>7
  <2> QED BY <2>1, <2>4, <2>6, <2>7 DEF Merged
<1>4. i \in Merged(Q)
  <2>1. ASSUME NEW q \in Q
        PROVE  /\ ~ (q[1] < i[1] /\ i[1] <= q[2])
               /\ ~ (q[1] <= i[2] /\ i[2] < q[2])
               /\ ~ (i[1] <= q[2] /\ q[2] < i[2])
    BY <1>1
  <2> QED BY <1>1, <2>1 DEF Merged
<1>5. ASSUME NEW m \in Merged(P) PROVE m \in Merged(Q)
  <2>1. /\ m = <<m[1], m[2]>> /\ m[1] < m[2]
        /\ \E q \in P : m[1] = q[1]
        /\ \E q \in P : m[2] = q[2]
        /\ \A q \in P : /\ ~ (q[1] < m[1] /\ m[1] <= q[2])
                        /\ ~ (q[1] <= m[2] /\ m[2] < q[2])
                        /\ m[1] <= q[2] /\ q[2] < m[2] =>
                             \E j \in P : j[1] <= q[2] /\ q[2] < j[2]
    BY DEF Merged
  <2>2. m[1] \in Int /\ m[2] \in Int /\ m[1] < i[1] /\ m[2] < i[1]
    BY <1>1, <2>1
  <2>3. /\ ~ (i[1] < m[1] /\ m[1] <= i[2])
        /\ ~ (i[1] <= m[2] /\ m[2] < i[2])
        /\ ~ (m[1] <= i[2] /\ i[2] < m[2])
    BY <1>1, <2>2
  <2>4. \A q \in Q : /\ ~ (q[1] < m[1] /\ m[1] <= q[2])
                     /\ ~ (q[1] <= m[2] /\ m[2] < q[2])
                     /\ m[1] <= q[2] /\ q[2] < m[2] =>
                             \E j \in Q : j[1] <= q[2] /\ q[2] < j[2]
    BY <2>1, <2>3
  <2>5. m[1] \in {q[1] : q \in Q} /\ m[2] \in {q[2] : q \in Q}
    BY <2>1
  <2> HIDE DEF Q
  <2> QED BY <2>1, <2>4, <2>5 DEF Merged
<1> QED BY <1>3, <1>4, <1>5

(* One more interval that begins neither before any other nor after the    *)
(* last end is taken into the merged interval that ends last.              *)
LEMMA MergedJoin ==
  ASSUME NEW P, IsFiniteSet(P), \A p \in P : IsInterval(p),
         NEW last \in Merged(P), \A p \in P : p[2] <= last[2],
         NEW i, IsInterval(i), \A p \in P : p[1] <= i[1], i[1] <= last[2]
  PROVE  Merged(P \cup {i})
           = (Merged(P) \ {last}) \cup {<<last[1], Later(last[2], i[2])>>}
<1> DEFINE Q == P \cup {i}
           end == Later(last[2], i[2])
           joined == <<last[1], end>>
<1>1. /\ \A q \in Q : /\ q \in Int \X Int /\ q = <<q[1], q[2]>>
                      /\ q[1] \in Int /\ q[2] \in Int /\ q[1] < q[2]
      /\ i[1] \in Int /\ i[2] \in Int /\ i[1] < i[2] /\ i = <<i[1], i[2]>>
  BY DEF IsInterval
<1>2. IsFiniteSet(Q) /\ \A q \in Q : IsInterval(q)
  BY FS_AddElement
<1>3. /\ last = <<last[1], last[2]>> /\ last[1] < last[2]
      /\ \E q \in P : last[1] = q[1]
      /\ \E q \in P : last[2] = q[2]
      /\ \A q \in P : /\ ~ (q[1] < last[1] /\ last[1] <= q[2])
                      /\ last[1] <= q[2] /\ q[2] < last[2] =>
                           \E j \in P : j[1] <= q[2] /\ q[2] < j[2]
  BY DEF Merged
<1>4. PICK e \in P : e[2] = last[2]
  BY <1>3
<1>5. /\ last[1] \in Int /\ last[2] \in Int /\ last[1] <= i[1]
      /\ end \in Int /\ last[2] <= end /\ i[2] <= end
      /\ end = last[2] \/ end = i[2]
      /\ e[1] <= i[1] /\ e \in Q /\ i \in Q
  BY <1>1, <1>3, <1>4 DEF Later
<1> HIDE DEF end
<1>6. joined \in Merged(Q)
  <2>1. ASSUME NEW q \in Q
        PROVE  /\ ~ (q[1] < last[1] /\ last[1] <= q[2])
               /\ ~ (q[1] <= end /\ end < q[2])
    BY <1>1, <1>3, <1>5
  <2>2. ASSUME NEW q \in Q, last[1] <= q[2], q[2] < end
        PROVE  \E j \in Q : j[1] <= q[2] /\ q[2] < j[2]
    <3>1. CASE q[2] < last[2]
      BY <1>1, <1>3, <1>4, <1>5, <2>2, <3>1
    <3>2. CASE ~ q[2] < last[2]
      <4>1. i[1] <= q[2] /\ q[2] < i[2]
        BY <1>1, <1>5, <2>2, <3>2
      <4> QED BY <4>1
    <3> QED BY <3>1, <3>2
  <2>3. joined[1] \in {q[1] : q \in Q} /\ joined[2] \in {q[2] : q \in Q}
    BY <1>3, <1>4, <1>5
  <2>4. last[1] < end
    BY <1>3, <1>5
  <2> HIDE DEF Q
  <2> QED BY <2>1, <2>2, <2>3, <2>4 DEF Merged
<1>7. ASSUME NEW m \in Merged(P), m # last PROVE m \in Merged(Q)
  <2>1. /\ m = <<m[1], m[2]>> /\ m[1] < m[2]
        /\ \E q \in P : m[1] = q[1]
        /\ \E q \in P : m[2] = q[2]
        /\ \A q \in P : /\ ~ (q[1] < m[1] /\ m[1] <= q[2])
                        /\ ~ (q[1] <= m[2] /\ m[2] < q[2])
                        /\ m[1] <= q[2] /\ q[2] < m[2] =>
                             \E j \in P : j[1] <= q[2] /\ q[2] < j[2]
    BY DEF Merged
  <2>2. m[1] \in Int /\ m[2] \in Int /\ m[1] <= i[1] /\ m[2] <= last[2]
    BY <1>1, <1>5, <2>1
  <2>3. m[2] < i[1]
    <3> SUFFICES ASSUME i[1] <= m[2] PROVE FALSE
      BY <1>1, <2>2
    <3>1. m[2] = last[2]
      BY <1>1, <1>4, <1>5, <2>1, <2>2
    <3>2. Overlap(m, last)
      BY <1>3, <1>5, <2>1, <2>2, <3>1 DEF Overlap
    <3> QED BY <1>7, <3>2, MergedAreApart
  <2>4. /\ ~ (i[1] < m[1] /\ m[1] <= i[2])
        /\ ~ (i[1] <= m[2] /\ m[2] < i[2])
        /\ ~ (m[1] <= i[2] /\ i[2] < m[2])
    BY <1>1, <2>2, <2>3
  <2>5. \A q \in Q : /\ ~ (q[1] < m[1] /\ m[1] <= q[2])
                     /\ ~ (q[1] <= m[2] /\ m[2] < q[2])
                     /\ m[1] <= q[2] /\ q[2] < m[2] =>
                             \E j \in Q : j[1] <= q[2] /\ q[2] < j[2]
    BY <2>1, <2>4
  <2>6. m[1] \in {q[1] : q \in Q} /\ m[2] \in {q[2] : q \in Q}
    BY <2>1
  <2> HIDE DEF Q
  <2> QED BY <2>1, <2>5, <2>6 DEF Merged
<1>8. ASSUME NEW m \in Merged(Q) PROVE m = joined \/ m \in Merged(P) \ {last}
  <2>1. /\ m = <<m[1], m[2]>> /\ m[1] < m[2]
        /\ \E q \in Q : m[1] = q[1]
        /\ \E q \in Q : m[2] = q[2]
        /\ \A q \in Q : /\ ~ (q[1] < m[1] /\ m[1] <= q[2])
                        /\ ~ (q[1] <= m[2] /\ m[2] < q[2])
                        /\ m[1] <= q[2] /\ q[2] < m[2] =>
                             \E j \in Q : j[1] <= q[2] /\ q[2] < j[2]
    BY DEF Merged
  <2>2. m[1] \in Int /\ m[2] \in Int /\ m[1] <= i[1] /\ m[2] <= end
    BY <1>1, <1>5, <2>1
  <2>3. CASE m[2] = end
    <3>1. ASSUME m[1] < last[1] PROVE FALSE
      <4> DEFINE R == {q \in Q : q[1] < last[1]}
      <4>1. R \in SUBSET Q /\ \E q \in R : q[1] = m[1]
        BY <2>1, <3>1
      <4>2. \A q \in R : q \in P /\ q[2] < last[1]
        BY <1>1, <1>3, <1>5
      <4>3. \A q \in R : q[2] < m[2]
        BY <1>1, <1>3, <1>5, <2>2, <2>3, <4>2
      <4>4. \A q \in R : \A j \in Q :
              m[1] <= q[2] /\ j[1] <= q[2] /\ q[2] < j[2] => j \in R
        BY <1>1, <1>5, <4>2
      <4> HIDE DEF Q, R
      <4> QED BY <1>2, <4>1, <4>3, <4>4, MergedIsConnected
    <3>2. ASSUME last[1] < m[1] PROVE FALSE
      <4> DEFINE R == {p \in P : p[1] < m[1]}
      <4>1. R \in SUBSET P /\ \E p \in R : p[1] = last[1]
        BY <1>3, <3>2
      <4>2. \A p \in R : p[2] < m[1]
        BY <1>1, <2>1, <2>2
      <4>3. \A p \in R : p[2] < last[2]
        BY <1>1, <1>5, <2>2, <4>2
      <4>4. \A p \in R : \A j \in P :
              last[1] <= p[2] /\ j[1] <= p[2] /\ p[2] < j[2] => j \in R
        BY <1>1, <2>2, <4>2
      <4> HIDE DEF R
      <4> QED BY <4>1, <4>3, <4>4, MergedIsConnected
    <3> QED BY <1>5, <2>1, <2>2, <2>3, <3>1, <3>2
  <2>4. CASE m[2] # end
    <3>1. m[2] < last[2]
      BY <1>1, <1>4, <1>5, <2>1, <2>2, <2>4
    <3>2. ~ (i[1] <= m[2])
      BY <1>1, <1>4, <1>5, <2>1, <2>2, <3>1
    <3>3. /\ \E q \in P : m[1] = q[1]
          /\ \E q \in P : m[2] = q[2]
      BY <1>1, <2>1, <2>2, <3>2
    <3>4. ASSUME NEW p \in P, m[1] <= p[2], p[2] < m[2]
          PROVE  \E j \in P : j[1] <= p[2] /\ p[2] < j[2]
      <4>1. PICK j \in Q : j[1] <= p[2] /\ p[2] < j[2]
        BY <2>1, <3>4
      <4>2. j # i
        BY <1>1, <2>2, <3>2, <3>4, <4>1
      <4> QED BY <4>1, <4>2
    <3>5. m \in Merged(P)
      BY <2>1, <3>3, <3>4 DEF Merged
    <3> QED BY <1>5, <2>2, <3>1, <3>5
  <2> QED BY <2>3, <2>4
<1> QED BY <1>6, <1>7, <1>8 DEF end

(* The inner loop of _merge_intervals, round by round.                     *)
Merges(f, seq) ==
  f = [s \in SUBSET DOMAIN seq |->
         IF s = {} THEN << >> ELSE MergeOne(f[s \ {Max(s)}], seq[Max(s)])]

LEMMA MergeIsFold ==
  ASSUME NEW seq
  PROVE  FoldLeft(MergeOne, << >>, seq)
           = (CHOOSE f : Merges(f, seq))[DOMAIN seq]
BY DEF FoldLeft, MapThenFoldSet, Merges

MergeRounds(g, n, seq) ==
  /\ g[0] = << >>
  /\ \A k \in 1 .. n : g[k] = MergeOne(g[k - 1], seq[k])
  /\ FoldLeft(MergeOne, << >>, seq) = g[n]

LEMMA LastReplaced ==
  ASSUME NEW s \in Seq(Int \X Int), s # << >>, NEW x \in Int \X Int
  PROVE  LET t == [s EXCEPT ![Len(s)] = x] IN
         /\ Last(s) = s[Len(s)] /\ Last(s) \in Int \X Int
         /\ Len(s) \in Nat \ {0}
         /\ t \in Seq(Int \X Int)
         /\ Len(t) = Len(s) /\ t[Len(s)] = x
         /\ \A a \in 1 .. (Len(s) - 1) : t[a] = s[a]
<1>1. Len(s) \in Nat \ {0}
  OBVIOUS
<1>2. Last(s) = s[Len(s)] /\ Last(s) \in Int \X Int
  BY <1>1 DEF Last
<1> QED BY <1>1, <1>2

LEMMA MergeOneType ==
  ASSUME NEW s \in Seq(Int \X Int), NEW i \in Int \X Int
  PROVE  MergeOne(s, i) \in Seq(Int \X Int)
<1>1. CASE s = << >> \/ Last(s)[2] < i[1]
  BY <1>1 DEF MergeOne
<1>2. CASE ~ (s = << >> \/ Last(s)[2] < i[1])
  <2> DEFINE x == <<Last(s)[1], Later(Last(s)[2], i[2])>>
  <2>1. Last(s) \in Int \X Int
    BY <1>2, LastReplaced
  <2>2. x \in Int \X Int
    BY <2>1 DEF Later
  <2> HIDE DEF x
  <2>3. [s EXCEPT ![Len(s)] = x] \in Seq(Int \X Int)
    BY <1>2, <2>2, LastReplaced
  <2> QED BY <1>2, <2>3 DEF MergeOne, x
<1> QED BY <1>1, <1>2

LEMMA MergeRoundsExist ==
  ASSUME NEW n \in Nat, NEW seq \in [1 .. n -> Int \X Int]
  PROVE  \E g : MergeRounds(g, n, seq)
<1> DEFINE V == Seq(Int \X Int)
           E == Int \X Int
           step == [p \in V \X E |-> MergeOne(p[1], p[2])]
           f == CHOOSE h : Merges(h, seq)
           g == [k \in 0 .. n |-> f[1 .. k]]
<1>1. step \in [V \X E -> V] /\ << >> \in V
  BY MergeOneType
<1>2. \E h : Merges(h, seq)
  <2>1. PICK h \in [SUBSET (1 .. n) -> V] : IsFold(h, n, << >>, step, seq)
    <3> HIDE DEF V, E, step
    <3>1. seq \in [1 .. n -> E]
      BY DEF E
    <3> QED BY <1>1, <3>1, FoldExists
  <2>2. ASSUME NEW s \in SUBSET (1 .. n), s # {}
        PROVE  step[<<h[s \ {Max(s)}], seq[Max(s)]>>]
                 = MergeOne(h[s \ {Max(s)}], seq[Max(s)])
    <3>1. Max(s) \in 1 .. n
      BY <2>2, MaxOfNumbers
    <3>2. h[s \ {Max(s)}] \in V /\ seq[Max(s)] \in E
      BY <3>1
    <3> HIDE DEF V, E
    <3> QED BY <3>2
  <2> HIDE DEF step
  <2>3. h = [s \in SUBSET (1 .. n) |->
               IF s = {} THEN << >>
               ELSE MergeOne(h[s \ {Max(s)}], seq[Max(s)])]
    BY <2>1, <2>2 DEF IsFold
  <2>4. DOMAIN seq = 1 .. n
    OBVIOUS
  <2> QED BY <2>3, <2>4 DEF Merges
<1>3. Merges(f, seq)
  BY <1>2
<1>4. \A s \in SUBSET (1 .. n) :
        f[s] = IF s = {} THEN << >>
               ELSE MergeOne(f[s \ {Max(s)}], seq[Max(s)])
  <2> HIDE DEF f
  <2>1. DOMAIN seq = 1 .. n
    OBVIOUS
  <2> QED BY <1>3, <2>1 DEF Merges
<1>5. FoldLeft(MergeOne, << >>, seq) = f[1 .. n]
  BY MergeIsFold
<1> HIDE DEF f
<1>6. g[0] = << >>
  <2>1. 1 .. 0 = {}
    OBVIOUS
  <2>2. f[{}] = << >>
    BY <1>4
  <2> QED BY <2>1, <2>2
<1>7. ASSUME NEW k \in 1 .. n PROVE g[k] = MergeOne(g[k - 1], seq[k])
  <2>1. /\ Max(1 .. k) = k /\ (1 .. k) \ {k} = 1 .. (k - 1)
        /\ 1 .. k \in SUBSET (1 .. n) /\ 1 .. k # {}
    BY MaxOfPrefix
  <2>2. f[1 .. k] = MergeOne(f[1 .. (k - 1)], seq[k])
    BY <1>4, <2>1
  <2> QED BY <2>2
<1>8. g[n] = FoldLeft(MergeOne, << >>, seq)
  BY <1>5
<1>9. MergeRounds(g, n, seq)
  BY <1>6, <1>7, <1>8 DEF MergeRounds
<1> QED BY <1>9

(* What the loop has made of the intervals P so far.                       *)
IsMergedSeq(s, P) ==
  /\ s \in Seq(Int \X Int)
  /\ {s[a] : a \in 1 .. Len(s)} = Merged(P)
  /\ \A a, b \in 1 .. Len(s) : a < b => s[a][2] < s[b][1]
  /\ s = << >> <=> P = {}
  /\ \A p \in P : p[2] <= s[Len(s)][2]
  /\ \A p \in P : \E m \in Merged(P) : Within(p, m)

LEMMA MergeRound ==
  ASSUME NEW P, IsFiniteSet(P), \A p \in P : IsInterval(p),
         NEW i, IsInterval(i), \A p \in P : p[1] <= i[1],
         NEW s, IsMergedSeq(s, P)
  PROVE  IsMergedSeq(MergeOne(s, i), P \cup {i})
<1> DEFINE Q == P \cup {i}
           n == Len(s)
<1>0. s \in Seq(Int \X Int) /\ n \in Nat
  BY DEF IsMergedSeq
<1>5. \A a \in 1 .. n : s[a] \in Int \X Int /\ s[a][1] \in Int /\ s[a][2] \in Int
  BY <1>0
<1>6. \A m \in Merged(P) : m[1] < m[2]
  BY DEF Merged
<1>7. /\ i \in Int \X Int /\ i[1] \in Int /\ i[2] \in Int /\ i[1] < i[2]
      /\ \A p \in P : p[1] \in Int /\ p[2] \in Int /\ p[1] < p[2]
  BY DEF IsInterval
<1>8. \A a, b \in 1 .. n : a < b => s[a][2] < s[b][1]
  BY DEF IsMergedSeq
<1>1. /\ i \in Int \X Int /\ i[1] \in Int /\ i[2] \in Int /\ i[1] < i[2]
      /\ \A p \in P : p[1] \in Int /\ p[2] \in Int /\ p[1] < p[2]
      /\ s \in Seq(Int \X Int) /\ n \in Nat
      /\ \A a \in 1 .. n : s[a] \in Int \X Int /\ s[a][1] \in Int /\ s[a][2] \in Int
      /\ \A a, b \in 1 .. n : a < b => s[a][2] < s[b][1]
      /\ \A m \in Merged(P) : m[1] < m[2]
  BY <1>0, <1>5, <1>6, <1>7, <1>8
<1>2. {s[a] : a \in 1 .. n} = Merged(P)
  BY DEF IsMergedSeq
<1>3. CASE s = << >> \/ Last(s)[2] < i[1]
  <2> DEFINE t == Append(s, i)
  <2>1. MergeOne(s, i) = t
    BY <1>3 DEF MergeOne
  <2>2. /\ t \in Seq(Int \X Int) /\ Len(t) = n + 1 /\ t[n + 1] = i
        /\ \A a \in 1 .. n : t[a] = s[a]
        /\ t # << >>
    BY <1>1
  <2> HIDE DEF t
  <2>3. \A p \in P : p[2] < i[1]
    BY <1>1, <1>3 DEF IsMergedSeq, Last
  <2>4. Merged(Q) = Merged(P) \cup {i}
    BY <2>3, MergedApart
  <2>5. {t[a] : a \in 1 .. (n + 1)} = Merged(P) \cup {i}
    <3>1. 1 .. (n + 1) = (1 .. n) \cup {n + 1}
      BY <1>1
    <3>2. {t[a] : a \in 1 .. (n + 1)} = {t[a] : a \in 1 .. n} \cup {t[n + 1]}
      BY <3>1
    <3>3. {t[a] : a \in 1 .. n} = {s[a] : a \in 1 .. n}
      BY <2>2
    <3> QED BY <1>2, <2>2, <3>2, <3>3
  <2>6. ASSUME NEW a \in 1 .. n PROVE s[a][2] < i[1]
    <3>1. s # << >> /\ n \in 1 .. n
      BY <1>1
    <3>2. a = n \/ s[a][2] < s[n][1]
      BY <1>1, <3>1
    <3>3. s[n][1] < s[n][2]
      BY <1>1, <1>2, <3>1
    <3>4. s[n][2] < i[1]
      BY <1>3, <3>1 DEF Last
    <3> QED BY <1>1, <3>1, <3>2, <3>3, <3>4
  <2>7. ASSUME NEW a \in 1 .. (n + 1), NEW b \in 1 .. (n + 1), a < b
        PROVE  t[a][2] < t[b][1]
    <3>0. n \in Nat
      BY <1>1
    <3> HIDE DEF n
    <3>1. a \in 1 .. n
      BY <2>7, <3>0
    <3>4. t[a] = s[a]
      BY <2>2, <3>1
    <3>2. CASE b = n + 1
      BY <2>2, <2>6, <3>1, <3>2, <3>4
    <3>3. CASE b # n + 1
      <4>1. b \in 1 .. n
        BY <3>0, <3>3
      <4>2. t[b] = s[b]
        BY <2>2, <4>1
      <4> QED BY <1>1, <2>7, <3>1, <3>4, <4>1, <4>2
    <3> QED BY <3>2, <3>3
  <2>8. \A p \in Q : p[2] <= t[n + 1][2]
    BY <1>1, <2>2, <2>3
  <2>11. Q # {}
    OBVIOUS
  <2>9. ASSUME NEW p \in Q PROVE \E m \in Merged(Q) : Within(p, m)
    <3>1. CASE p = i
      <4>1. Within(i, i)
        BY <1>1 DEF Within
      <4>2. i \in Merged(Q)
        BY <2>4
      <4> QED BY <3>1, <4>1, <4>2
    <3>2. CASE p # i
      <4>1. PICK m \in Merged(P) : Within(p, m)
        BY <3>2 DEF IsMergedSeq
      <4> QED BY <2>4, <4>1
    <3> QED BY <3>1, <3>2
  <2>10. IsMergedSeq(t, Q)
    <3> HIDE DEF Q, n
    <3> QED BY <2>2, <2>4, <2>5, <2>7, <2>8, <2>9, <2>11 DEF IsMergedSeq
  <2> QED BY <2>1, <2>10
<1>4. CASE ~ (s = << >> \/ Last(s)[2] < i[1])
  <2> DEFINE last == s[n]
             x == <<last[1], Later(last[2], i[2])>>
             t == [s EXCEPT ![Len(s)] = x]
  <2>1. n \in Nat \ {0} /\ Last(s) = last /\ last \in Int \X Int
    BY <1>1, <1>4, LastReplaced
  <2>2. /\ x \in Int \X Int /\ x[1] = last[1]
        /\ x[2] \in Int /\ last[2] <= x[2] /\ i[2] <= x[2]
    BY <1>1, <2>1 DEF Later
  <2>3. MergeOne(s, i) = t
    BY <1>4, <2>1 DEF MergeOne
  <2>4. last \in Merged(P)
    BY <1>2, <2>1
  <2>5. \A p \in P : p[2] <= last[2]
    BY DEF IsMergedSeq
  <2>6. i[1] <= last[2]
    BY <1>1, <1>4, <2>1
  <2> HIDE DEF last
  <2>7. Merged(Q) = (Merged(P) \ {last}) \cup {x}
    BY <2>4, <2>5, <2>6, MergedJoin
  <2> HIDE DEF x
  <2>8. /\ t \in Seq(Int \X Int) /\ Len(t) = n /\ t[n] = x
        /\ \A a \in 1 .. (n - 1) : t[a] = s[a]
        /\ t # << >>
    BY <1>1, <1>4, <2>1, <2>2, LastReplaced
  <2> HIDE DEF t
  <2>9. {s[a] : a \in 1 .. (n - 1)} = Merged(P) \ {last}
    <3>1. 1 .. n = (1 .. (n - 1)) \cup {n}
      BY <2>1
    <3>2. \A a \in 1 .. (n - 1) : s[a] # last /\ s[a] \in Merged(P)
      <4> TAKE a \in 1 .. (n - 1)
      <4>1. a \in 1 .. n /\ n \in 1 .. n /\ a < n
        BY <2>1
      <4>2. s[a][2] < s[n][1] /\ s[n][1] < s[n][2] /\ s[a] \in Merged(P)
        BY <1>1, <1>2, <4>1
      <4>5. s[a][2] \in Int /\ s[n][1] \in Int /\ s[n][2] \in Int
        BY <1>5, <4>1
      <4>3. s[a][2] # s[n][2]
        BY <4>2, <4>5
      <4> QED BY <4>2, <4>3 DEF last
    <3>3. \A m \in Merged(P) : m = last \/ \E a \in 1 .. (n - 1) : m = s[a]
      BY <1>2, <3>1 DEF last
    <3> QED BY <3>2, <3>3
  <2>10. {t[a] : a \in 1 .. n} = Merged(Q)
    <3>1. 1 .. n = (1 .. (n - 1)) \cup {n}
      BY <2>1
    <3>2. {t[a] : a \in 1 .. n} = {t[a] : a \in 1 .. (n - 1)} \cup {t[n]}
      BY <3>1
    <3>3. {t[a] : a \in 1 .. (n - 1)} = {s[a] : a \in 1 .. (n - 1)}
      BY <2>8
    <3> QED BY <2>7, <2>8, <2>9, <3>2, <3>3
  <2>11. ASSUME NEW a \in 1 .. n, NEW b \in 1 .. n, a < b
         PROVE  t[a][2] < t[b][1]
    <3>1. s[a][2] < s[b][1]
      BY <1>1, <2>11
    <3>2. t[a] = s[a] /\ (b # n => t[b] = s[b])
      <4>0. n \in Nat
        BY <1>1
      <4> HIDE DEF n
      <4>1. a \in 1 .. (n - 1)
        BY <2>11, <4>0
      <4>2. b # n => b \in 1 .. (n - 1)
        BY <4>0
      <4> QED BY <2>8, <4>1, <4>2
    <3>3. t[b][1] = s[b][1]
      BY <2>2, <2>8, <3>2 DEF last
    <3> QED BY <3>1, <3>2, <3>3
  <2>12. \A p \in Q : p[2] <= t[n][2]
    <3>1. t[n] = x /\ last[2] \in Int /\ i[2] <= x[2]
      BY <2>1, <2>2, <2>8
    <3>2. \A p \in P : p[2] <= x[2]
      BY <1>7, <2>2, <2>5, <3>1
    <3> QED BY <3>1, <3>2
  <2>13. ASSUME NEW p \in Q PROVE \E m \in Merged(Q) : Within(p, m)
    <3>1. CASE p = i
      <4>1. last[1] <= i[1]
        <5>1. \E q \in P : q[1] = last[1]
          BY <2>4 DEF Merged
        <5> QED BY <5>1
      <4>2. Within(p, x)
        BY <2>2, <3>1, <4>1 DEF Within
      <4> QED BY <2>7, <4>2
    <3>2. CASE p # i
      <4>1. PICK m \in Merged(P) : Within(p, m)
        BY <3>2 DEF IsMergedSeq
      <4>2. CASE m = last
        <5>1. Within(p, x)
          BY <1>1, <2>1, <2>2, <3>2, <4>1, <4>2 DEF Within
        <5> QED BY <2>7, <5>1
      <4>3. CASE m # last
        BY <2>7, <4>1, <4>3
      <4> QED BY <4>2, <4>3
    <3> QED BY <3>1, <3>2
  <2> QED BY <2>3, <2>8, <2>10, <2>11, <2>12, <2>13 DEF IsMergedSeq
<1> QED BY <1>3, <1>4

(* The merging loop gives the maximal intervals that its input covers, in  *)
(* their order.                                                            *)
LEMMA MergeLoopMerges ==
  ASSUME NEW S, IsFiniteSet(S), \A i \in S : IsInterval(i)
  PROVE  IsMergedSeq(MergeLoop(S), S)
<1> DEFINE n == Cardinality(S)
           seq == Sorted(S)
           Upto(k) == {seq[a] : a \in 1 .. k}
<1>0. S \subseteq Int \X Int
  BY DEF IsInterval
<1>1. /\ n \in Nat /\ seq \in [1 .. n -> S]
      /\ \A i \in S : \E a \in 1 .. n : seq[a] = i
      /\ \A a, b \in 1 .. n : a < b => SortsBefore(seq[a], seq[b])
  BY <1>0, SortedFacts
<1> HIDE DEF n, seq
<1>2. PICK g : MergeRounds(g, n, seq)
  <2>1. seq \in [1 .. n -> Int \X Int]
    BY <1>0, <1>1
  <2> QED BY <1>1, <2>1, MergeRoundsExist
<1>3. /\ g[0] = << >>
      /\ \A k \in 1 .. n : g[k] = MergeOne(g[k - 1], seq[k])
      /\ MergeLoop(S) = g[n]
  BY <1>2 DEF MergeRounds, MergeLoop, seq
<1>4. IsMergedSeq(g[0], Upto(0))
  <2>1. Upto(0) = {}
    OBVIOUS
  <2>2. IsMergedSeq(<< >>, {})
    BY DEF IsMergedSeq, Merged
  <2> QED BY <1>3, <2>1, <2>2
<1>5. ASSUME NEW k \in 1 .. n, IsMergedSeq(g[k - 1], Upto(k - 1))
      PROVE  IsMergedSeq(g[k], Upto(k))
  <2> DEFINE P == Upto(k - 1)
             i == seq[k]
  <2>1. P \subseteq S /\ i \in S
    BY <1>1
  <2>2. Upto(k) = P \cup {i}
    <3>1. 1 .. k = (1 .. (k - 1)) \cup {k}
      BY <1>1
    <3> QED BY <3>1
  <2>3. \A p \in P : p[1] <= i[1]
    <3>1. ASSUME NEW a \in 1 .. (k - 1) PROVE seq[a][1] <= i[1]
      <4>1. a \in 1 .. n /\ a < k
        BY <1>1
      <4>2. seq[a] \in S /\ SortsBefore(seq[a], seq[k])
        BY <1>1, <4>1
      <4>3. seq[a][1] \in Int /\ i[1] \in Int
        BY <1>0, <2>1, <4>2
      <4> QED BY <4>2, <4>3 DEF SortsBefore
    <3> QED BY <3>1
  <2> HIDE DEF P, i
  <2>4. IsFiniteSet(P)
    BY <2>1, FS_Subset
  <2>5. IsMergedSeq(g[k - 1], P)
    BY <1>5 DEF P
  <2>6. IsMergedSeq(MergeOne(g[k - 1], i), P \cup {i})
    BY <2>1, <2>3, <2>4, <2>5, MergeRound
  <2>7. g[k] = MergeOne(g[k - 1], i)
    BY <1>3 DEF i
  <2> HIDE DEF Upto
  <2> QED BY <2>2, <2>6, <2>7
<1>6. Upto(n) = S
  BY <1>1
<1> HIDE DEF Upto
<1>7. IsMergedSeq(g[n], Upto(n))
  <2> DEFINE G == {k \in 0 .. n : IsMergedSeq(g[k], Upto(k))}
  <2>1. 0 \in G
    BY <1>1, <1>4
  <2>2. \A k \in 1 .. n : k - 1 \in G => k \in G
    BY <1>1, <1>5
  <2>3. G \in SUBSET (0 .. n)
    OBVIOUS
  <2>4. n \in G
    <3> HIDE DEF G
    <3> QED BY <1>1, <2>1, <2>2, <2>3, Climb
  <2> QED BY <2>4
<1> QED BY <1>3, <1>6, <1>7

(* What _subtract_busy has left of a working interval when it has come to  *)
(* the cursor: the free parts F, and all from the cursor on.               *)
LeftOver(F, cursor, working) ==
  F \cup (IF cursor < working[2] THEN {<<cursor, working[2]>>} ELSE {})

(* A busy interval takes nothing from what ends before it begins.          *)
LEMMA BusyRound ==
  ASSUME NEW working, IsInterval(working), NEW busy, IsInterval(busy),
         NEW F, \A f \in F : f \in Int \X Int /\ f[2] <= busy[1],
         NEW cursor \in Int
  PROVE  SubtractOne(LeftOver(F, cursor, working), busy)
           = IF busy[2] <= cursor \/ busy[1] >= working[2]
             THEN LeftOver(F, cursor, working)
             ELSE LeftOver(F \cup (IF busy[1] > cursor
                                   THEN {<<cursor, Earlier(busy[1], working[2])>>}
                                   ELSE {}),
                           Later(cursor, busy[2]), working)
<1> DEFINE rest == IF cursor < working[2] THEN {<<cursor, working[2]>>} ELSE {}
<1>1. /\ working[1] \in Int /\ working[2] \in Int
      /\ busy[1] \in Int /\ busy[2] \in Int /\ busy[1] < busy[2]
  BY DEF IsInterval
<1>2. \A f \in F : ~ Overlap(busy, f)
  <2> SUFFICES ASSUME NEW f \in F, Overlap(busy, f) PROVE FALSE
    OBVIOUS
  <2>1. f[2] \in Int /\ f[2] <= busy[1] /\ busy[1] < f[2]
    BY DEF Overlap
  <2> QED BY <1>1, <2>1
<1>3. SubtractOne(F, busy) = F
  BY <1>2 DEF SubtractOne
<1>4. SubtractOne(F \cup rest, busy) = F \cup SubtractOne(rest, busy)
  <2>1. SubtractOne(F \cup rest, busy)
          = SubtractOne(F, busy) \cup SubtractOne(rest, busy)
    BY DEF SubtractOne
  <2> QED BY <1>3, <2>1
<1>5. CASE busy[2] <= cursor \/ busy[1] >= working[2]
  <2>1. SubtractOne(rest, busy) = rest
    BY <1>1, <1>5 DEF SubtractOne, Overlap
  <2> QED BY <1>4, <1>5, <2>1 DEF LeftOver
<1>6. CASE ~ (busy[2] <= cursor \/ busy[1] >= working[2])
  <2>1. CASE cursor < working[2]
    <3>1. Overlap(busy, <<cursor, working[2]>>)
      BY <1>1, <1>6 DEF Overlap
    <3>2. SubtractOne(rest, busy)
            = {p \in {<<cursor, busy[1]>>, <<busy[2], working[2]>>} : p[1] < p[2]}
      BY <2>1, <3>1 DEF SubtractOne
    <3>3. Earlier(busy[1], working[2]) = busy[1] /\ Later(cursor, busy[2]) = busy[2]
      BY <1>1, <1>6 DEF Earlier, Later
    <3>4. {p \in {<<cursor, busy[1]>>, <<busy[2], working[2]>>} : p[1] < p[2]}
            = (IF busy[1] > cursor THEN {<<cursor, busy[1]>>} ELSE {})
                \cup (IF busy[2] < working[2] THEN {<<busy[2], working[2]>>} ELSE {})
      BY <1>1
    <3> QED BY <1>4, <1>6, <3>2, <3>3, <3>4 DEF LeftOver
  <2>2. CASE ~ cursor < working[2]
    <3>1. SubtractOne(rest, busy) = {}
      BY <2>2 DEF SubtractOne
    <3>2. /\ ~ (busy[1] > cursor) /\ ~ (Later(cursor, busy[2]) < working[2])
      BY <1>1, <1>6, <2>2 DEF Later
    <3> QED BY <1>4, <1>6, <2>2, <3>1, <3>2 DEF LeftOver
  <2> QED BY <2>1, <2>2
<1> QED BY <1>5, <1>6

Scan == [free : Seq(Int \X Int), cursor : Int]

(* The inner loop of _subtract_busy, round by round.                       *)
Scans(f, working, seq) ==
  f = [s \in SUBSET DOMAIN seq |->
         IF s = {} THEN [free |-> << >>, cursor |-> working[1]]
         ELSE SubtractBusyOne(working, f[s \ {Max(s)}], seq[Max(s)])]

Scanned(working, seq) == (CHOOSE f : Scans(f, working, seq))[DOMAIN seq]

LEMMA ScanIsFold ==
  ASSUME NEW working, NEW seq
  PROVE  SubtractBusyLoop(working, seq)
           = LET scan == Scanned(working, seq) IN
             IF scan.cursor < working[2]
             THEN Append(scan.free, <<scan.cursor, working[2]>>)
             ELSE scan.free
BY DEF SubtractBusyLoop, FoldLeft, MapThenFoldSet, Scans, Scanned

ScanRounds(g, n, working, seq) ==
  /\ g[0] = [free |-> << >>, cursor |-> working[1]]
  /\ \A k \in 1 .. n : g[k] = SubtractBusyOne(working, g[k - 1], seq[k])
  /\ Scanned(working, seq) = g[n]

LEMMA ScanType ==
  ASSUME NEW working \in Int \X Int, NEW scan \in Scan, NEW busy \in Int \X Int
  PROVE  SubtractBusyOne(working, scan, busy) \in Scan
<1>1. /\ working[2] \in Int /\ scan.cursor \in Int /\ scan.free \in Seq(Int \X Int)
      /\ busy[1] \in Int /\ busy[2] \in Int
  BY DEF Scan
<1>2. <<scan.cursor, Earlier(busy[1], working[2])>> \in Int \X Int
  BY <1>1 DEF Earlier
<1>3. Append(scan.free, <<scan.cursor, Earlier(busy[1], working[2])>>)
        \in Seq(Int \X Int)
  BY <1>1, <1>2
<1>4. Later(scan.cursor, busy[2]) \in Int
  BY <1>1 DEF Later
<1> QED BY <1>1, <1>3, <1>4 DEF SubtractBusyOne, Scan

LEMMA ScanRoundsExist ==
  ASSUME NEW working \in Int \X Int,
         NEW n \in Nat, NEW seq \in [1 .. n -> Int \X Int]
  PROVE  \E g : ScanRounds(g, n, working, seq)
<1> DEFINE E == Int \X Int
           base == [free |-> << >>, cursor |-> working[1]]
           step == [p \in Scan \X E |-> SubtractBusyOne(working, p[1], p[2])]
           f == CHOOSE h : Scans(h, working, seq)
           g == [k \in 0 .. n |-> f[1 .. k]]
<1>1. step \in [Scan \X E -> Scan] /\ base \in Scan
  <2>1. step \in [Scan \X E -> Scan]
    BY ScanType
  <2>2. base \in Scan
    BY DEF Scan
  <2> QED BY <2>1, <2>2
<1>2. \E h : Scans(h, working, seq)
  <2>1. PICK h \in [SUBSET (1 .. n) -> Scan] : IsFold(h, n, base, step, seq)
    <3> HIDE DEF E, step, base
    <3>1. seq \in [1 .. n -> E]
      BY DEF E
    <3> QED BY <1>1, <3>1, FoldExists
  <2>2. ASSUME NEW s \in SUBSET (1 .. n), s # {}
        PROVE  step[<<h[s \ {Max(s)}], seq[Max(s)]>>]
                 = SubtractBusyOne(working, h[s \ {Max(s)}], seq[Max(s)])
    <3>1. Max(s) \in 1 .. n
      BY <2>2, MaxOfNumbers
    <3>2. h[s \ {Max(s)}] \in Scan /\ seq[Max(s)] \in E
      BY <3>1
    <3> HIDE DEF E
    <3> QED BY <3>2
  <2> HIDE DEF step
  <2>3. h = [s \in SUBSET (1 .. n) |->
               IF s = {} THEN base
               ELSE SubtractBusyOne(working, h[s \ {Max(s)}], seq[Max(s)])]
    BY <2>1, <2>2 DEF IsFold
  <2>4. DOMAIN seq = 1 .. n
    OBVIOUS
  <2> QED BY <2>3, <2>4 DEF Scans
<1>3. Scans(f, working, seq)
  BY <1>2
<1>4. \A s \in SUBSET (1 .. n) :
        f[s] = IF s = {} THEN base
               ELSE SubtractBusyOne(working, f[s \ {Max(s)}], seq[Max(s)])
  <2> HIDE DEF f
  <2>1. DOMAIN seq = 1 .. n
    OBVIOUS
  <2> QED BY <1>3, <2>1 DEF Scans
<1>5. Scanned(working, seq) = f[1 .. n]
  BY DEF Scanned
<1> HIDE DEF f
<1>6. g[0] = base
  <2>1. 1 .. 0 = {}
    OBVIOUS
  <2>2. f[{}] = base
    BY <1>4
  <2> HIDE DEF base
  <2> QED BY <2>1, <2>2
<1>7. ASSUME NEW k \in 1 .. n
      PROVE  g[k] = SubtractBusyOne(working, g[k - 1], seq[k])
  <2>1. /\ Max(1 .. k) = k /\ (1 .. k) \ {k} = 1 .. (k - 1)
        /\ 1 .. k \in SUBSET (1 .. n) /\ 1 .. k # {}
    BY MaxOfPrefix
  <2>2. f[1 .. k] = SubtractBusyOne(working, f[1 .. (k - 1)], seq[k])
    BY <1>4, <2>1
  <2> QED BY <2>2
<1>8. g[n] = Scanned(working, seq)
  BY <1>5
<1> HIDE DEF g
<1>9. ScanRounds(g, n, working, seq)
  BY <1>6, <1>7, <1>8 DEF ScanRounds
<1> QED BY <1>9

FreeParts(scan) == {scan.free[a] : a \in 1 .. Len(scan.free)}

LEMMA AppendAdds ==
  ASSUME NEW s \in Seq(Int \X Int), NEW x \in Int \X Int
  PROVE  {Append(s, x)[a] : a \in 1 .. Len(Append(s, x))}
           = {s[a] : a \in 1 .. Len(s)} \cup {x}
<1> DEFINE t == Append(s, x)
           n == Len(s)
<1>1. /\ n \in Nat /\ Len(t) = n + 1 /\ t[n + 1] = x
      /\ \A a \in 1 .. n : t[a] = s[a]
  OBVIOUS
<1> HIDE DEF t, n
<1>2. 1 .. (n + 1) = (1 .. n) \cup {n + 1}
  BY <1>1
<1>3. {t[a] : a \in 1 .. (n + 1)} = {s[a] : a \in 1 .. n} \cup {x}
  BY <1>1, <1>2
<1> QED BY <1>1, <1>3 DEF t, n

(* What one round does to the parts that are left.                         *)
LEMMA ScanRound ==
  ASSUME NEW working \in Int \X Int, NEW busy \in Int \X Int, NEW scan \in Scan
  PROVE  LET next == SubtractBusyOne(working, scan, busy) IN
         IF busy[2] <= scan.cursor \/ busy[1] >= working[2]
         THEN next = scan
         ELSE /\ FreeParts(next)
                   = FreeParts(scan)
                       \cup (IF busy[1] > scan.cursor
                             THEN {<<scan.cursor, Earlier(busy[1], working[2])>>}
                             ELSE {})
              /\ next.cursor = Later(scan.cursor, busy[2])
<1> DEFINE x == <<scan.cursor, Earlier(busy[1], working[2])>>
           next == SubtractBusyOne(working, scan, busy)
<1>1. x \in Int \X Int /\ scan.free \in Seq(Int \X Int)
  BY DEF Scan, Earlier
<1> HIDE DEF x
<1>2. CASE busy[2] <= scan.cursor \/ busy[1] >= working[2]
  BY <1>2 DEF SubtractBusyOne
<1>3. CASE ~ (busy[2] <= scan.cursor \/ busy[1] >= working[2])
  <2>1. /\ next.free = IF busy[1] > scan.cursor THEN Append(scan.free, x)
                       ELSE scan.free
        /\ next.cursor = Later(scan.cursor, busy[2])
    <3>1. next = [free |-> IF busy[1] > scan.cursor
                           THEN Append(scan.free, x) ELSE scan.free,
                  cursor |-> Later(scan.cursor, busy[2])]
      BY <1>3 DEF SubtractBusyOne, x
    <3> QED BY <3>1
  <2> HIDE DEF next
  <2>2. FreeParts(next) = FreeParts(scan)
                            \cup (IF busy[1] > scan.cursor THEN {x} ELSE {})
    <3>1. CASE busy[1] > scan.cursor
      <4>1. next.free = Append(scan.free, x)
        BY <2>1, <3>1
      <4>2. FreeParts(next) = {Append(scan.free, x)[a] :
                                 a \in 1 .. Len(Append(scan.free, x))}
        BY <4>1 DEF FreeParts
      <4>3. FreeParts(next) = FreeParts(scan) \cup {x}
        BY <1>1, <4>2, AppendAdds DEF FreeParts
      <4> QED BY <3>1, <4>3
    <3>2. CASE ~ (busy[1] > scan.cursor)
      BY <2>1, <3>2 DEF FreeParts
    <3> QED BY <3>1, <3>2
  <2> QED BY <1>3, <2>1, <2>2 DEF x, next
<1> QED BY <1>2, <1>3

(* Where _subtract_busy stands after the busy intervals P: what it has     *)
(* left are the gaps between them, and its free parts end before the last  *)
(* of them begins.                                                         *)
IsScanned(scan, working, P) ==
  /\ scan \in Scan
  /\ LeftOver(FreeParts(scan), scan.cursor, working) = Gaps(working, P)
  /\ \A f \in FreeParts(scan) : \E p \in P : f[2] <= p[1]

LEMMA BusyScanned ==
  ASSUME NEW working, IsInterval(working),
         NEW P, IsFiniteSet(P), \A p \in P : IsInterval(p),
         NEW busy, IsInterval(busy), \A p \in P : p[1] <= busy[1],
         NEW scan, IsScanned(scan, working, P)
  PROVE  IsScanned(SubtractBusyOne(working, scan, busy), working, P \cup {busy})
<1> DEFINE next == SubtractBusyOne(working, scan, busy)
           part == IF busy[1] > scan.cursor
                   THEN {<<scan.cursor, Earlier(busy[1], working[2])>>}
                   ELSE {}
           over == busy[2] <= scan.cursor \/ busy[1] >= working[2]
<1>1. /\ working \in Int \X Int /\ working[1] \in Int /\ working[2] \in Int
      /\ working[1] < working[2]
      /\ busy \in Int \X Int /\ busy[1] \in Int /\ busy[2] \in Int
      /\ \A p \in P : p[1] \in Int
  BY DEF IsInterval
<1>2. scan \in Scan /\ scan.cursor \in Int /\ next \in Scan
  <2>1. scan \in Scan
    BY DEF IsScanned
  <2>2. next \in Scan
    BY <1>1, <2>1, ScanType
  <2> QED BY <2>1, <2>2 DEF Scan
<1>3. \A f \in FreeParts(scan) : f \in Int \X Int
  BY <1>2 DEF FreeParts, Scan
<1>4. ASSUME NEW f \in FreeParts(scan) PROVE f[2] <= busy[1]
  <2>1. PICK p \in P : f[2] <= p[1]
    BY DEF IsScanned
  <2>2. p[1] <= busy[1] /\ f[2] \in Int
    BY <1>3
  <2> QED BY <1>1, <2>1, <2>2
<1>5. SubtractOne(Gaps(working, P), busy) = Gaps(working, P \cup {busy})
  BY <1>1, SubtractOneGap
<1>6. LeftOver(FreeParts(scan), scan.cursor, working) = Gaps(working, P)
  BY DEF IsScanned
<1>7. SubtractOne(LeftOver(FreeParts(scan), scan.cursor, working), busy)
        = IF over THEN LeftOver(FreeParts(scan), scan.cursor, working)
          ELSE LeftOver(FreeParts(scan) \cup part,
                        Later(scan.cursor, busy[2]), working)
  BY <1>2, <1>3, <1>4, BusyRound
<1>8. IF over THEN next = scan
      ELSE /\ FreeParts(next) = FreeParts(scan) \cup part
           /\ next.cursor = Later(scan.cursor, busy[2])
  BY <1>1, <1>2, ScanRound
<1>9. ASSUME NEW f \in part PROVE f[2] <= busy[1]
  BY <1>1, <1>9 DEF Earlier
<1> HIDE DEF next, part, over
<1>10. LeftOver(FreeParts(next), next.cursor, working) = Gaps(working, P \cup {busy})
  BY <1>5, <1>6, <1>7, <1>8
<1>11. \A f \in FreeParts(next) : f[2] <= busy[1]
  BY <1>4, <1>8, <1>9
<1> QED BY <1>2, <1>10, <1>11 DEF IsScanned, next

(* _subtract_busy leaves the gaps between the busy intervals.              *)
LEMMA SubtractBusyGaps ==
  ASSUME NEW working, IsInterval(working),
         NEW n \in Nat, NEW seq \in [1 .. n -> Int \X Int],
         \A a \in 1 .. n : IsInterval(seq[a]),
         \A a, b \in 1 .. n : a < b => seq[a][1] <= seq[b][1]
  PROVE  ToSet(SubtractBusyLoop(working, seq))
           = Gaps(working, {seq[a] : a \in 1 .. n})
<1> DEFINE Upto(k) == {seq[a] : a \in 1 .. k}
<1>1. working \in Int \X Int /\ working[1] \in Int /\ working[2] \in Int
      /\ working[1] < working[2]
  BY DEF IsInterval
<1>2. PICK g : ScanRounds(g, n, working, seq)
  BY <1>1, ScanRoundsExist
<1>3. /\ g[0] = [free |-> << >>, cursor |-> working[1]]
      /\ \A k \in 1 .. n : g[k] = SubtractBusyOne(working, g[k - 1], seq[k])
      /\ Scanned(working, seq) = g[n]
  BY <1>2 DEF ScanRounds
<1>4. IsScanned(g[0], working, Upto(0))
  <2>1. Upto(0) = {}
    OBVIOUS
  <2>2. g[0] \in Scan /\ FreeParts(g[0]) = {} /\ g[0].cursor = working[1]
    BY <1>1, <1>3 DEF Scan, FreeParts
  <2>3. working = <<working[1], working[2]>>
    BY <1>1
  <2>4. Gaps(working, {}) = {working}
    BY <1>1, <2>3 DEF Gaps, Within
  <2>5. LeftOver({}, working[1], working) = {working}
    BY <1>1, <2>3 DEF LeftOver
  <2> QED BY <2>1, <2>2, <2>4, <2>5 DEF IsScanned
<1>5. ASSUME NEW k \in 1 .. n, IsScanned(g[k - 1], working, Upto(k - 1))
      PROVE  IsScanned(g[k], working, Upto(k))
  <2> DEFINE P == Upto(k - 1)
             busy == seq[k]
  <2>1. Upto(k) = P \cup {busy}
    <3>1. 1 .. k = (1 .. (k - 1)) \cup {k}
      OBVIOUS
    <3> QED BY <3>1
  <2>2. /\ \A p \in P : IsInterval(p) /\ p[1] <= busy[1]
        /\ IsInterval(busy)
    <3>1. ASSUME NEW a \in 1 .. (k - 1)
          PROVE  IsInterval(seq[a]) /\ seq[a][1] <= busy[1]
      <4>1. a \in 1 .. n /\ a < k
        OBVIOUS
      <4> QED BY <4>1
    <3> QED BY <3>1
  <2>3. IsFiniteSet(P)
    <3> DEFINE f == [a \in 1 .. (k - 1) |-> seq[a]]
    <3>1. IsFiniteSet(1 .. (k - 1))
      BY FS_Interval
    <3>2. f \in Surjection(1 .. (k - 1), P)
      BY DEF Surjection
    <3> HIDE DEF f, P
    <3> QED BY <3>1, <3>2, FS_Surjection
  <2>4. IsScanned(g[k - 1], working, P) /\ g[k] = SubtractBusyOne(working, g[k - 1], busy)
    BY <1>3, <1>5
  <2> HIDE DEF P, busy, Upto
  <2>5. IsScanned(SubtractBusyOne(working, g[k - 1], busy), working, P \cup {busy})
    BY <2>2, <2>3, <2>4, BusyScanned
  <2> QED BY <2>1, <2>4, <2>5
<1>6. IsScanned(g[n], working, Upto(n))
  <2> HIDE DEF Upto
  <2> DEFINE G == {k \in 0 .. n : IsScanned(g[k], working, Upto(k))}
  <2>1. 0 \in G
    BY <1>4
  <2>2. \A k \in 1 .. n : k - 1 \in G => k \in G
    BY <1>5
  <2>3. G \in SUBSET (0 .. n)
    OBVIOUS
  <2>4. n \in G
    <3> HIDE DEF G
    <3> QED BY <2>1, <2>2, <2>3, Climb
  <2> QED BY <2>4
<1> DEFINE scan == g[n]
<1> HIDE DEF Upto, scan
<1>7. /\ scan \in Scan /\ scan.free \in Seq(Int \X Int) /\ scan.cursor \in Int
      /\ LeftOver(FreeParts(scan), scan.cursor, working) = Gaps(working, Upto(n))
  BY <1>6 DEF IsScanned, Scan, scan
<1>8. SubtractBusyLoop(working, seq)
        = IF scan.cursor < working[2]
          THEN Append(scan.free, <<scan.cursor, working[2]>>)
          ELSE scan.free
  BY <1>3, ScanIsFold DEF scan
<1>9. \A s \in Seq(Int \X Int) : ToSet(s) = {s[a] : a \in 1 .. Len(s)}
  BY DEF ToSet
<1>10. CASE scan.cursor < working[2]
  <2> DEFINE x == <<scan.cursor, working[2]>>
  <2>1. x \in Int \X Int
    BY <1>1, <1>7
  <2> HIDE DEF x
  <2>2. Append(scan.free, x) \in Seq(Int \X Int)
    BY <1>7, <2>1
  <2>3. ToSet(Append(scan.free, x)) = FreeParts(scan) \cup {x}
    BY <1>7, <1>9, <2>1, <2>2, AppendAdds DEF FreeParts
  <2>4. LeftOver(FreeParts(scan), scan.cursor, working) = FreeParts(scan) \cup {x}
    BY <1>10 DEF LeftOver, x
  <2> QED BY <1>7, <1>8, <1>10, <2>3, <2>4 DEF x, Upto
<1>11. CASE ~ scan.cursor < working[2]
  <2>1. ToSet(scan.free) = FreeParts(scan)
    BY <1>7, <1>9 DEF FreeParts
  <2>2. LeftOver(FreeParts(scan), scan.cursor, working) = FreeParts(scan)
    BY <1>11 DEF LeftOver
  <2> QED BY <1>7, <1>8, <1>11, <2>1, <2>2 DEF Upto
<1> QED BY <1>10, <1>11

(* Merging what is busy does not change the gaps between it.               *)
LEMMA GapsOfMerged ==
  ASSUME NEW C, IsFiniteSet(C), \A c \in C : IsInterval(c),
         \A c \in C : \E m \in Merged(C) : Within(c, m),
         NEW w, IsInterval(w)
  PROVE  Gaps(w, Merged(C)) = Gaps(w, C)
<1> DEFINE M == Merged(C)
<1>1. /\ \A c \in C : c[1] \in Int /\ c[2] \in Int /\ c[1] < c[2]
      /\ w[1] \in Int /\ w[2] \in Int
  BY DEF IsInterval
<1>2. ASSUME NEW m \in M
      PROVE  /\ m[1] \in Int /\ m[2] \in Int /\ m[1] < m[2]
             /\ \E c \in C : m[1] = c[1]
             /\ \E c \in C : m[2] = c[2]
  BY <1>1 DEF Merged
<1>3. \A c \in C : \E m \in M : Within(c, m)
  OBVIOUS
<1>4. ASSUME NEW g \in Gaps(w, C), NEW m \in M PROVE ~ Overlap(g, m)
  <2> SUFFICES ASSUME Overlap(g, m) PROVE FALSE
    OBVIOUS
  <2> DEFINE Q == {c \in C : c[1] < g[2]}
  <2>1. /\ g[1] \in Int /\ g[2] \in Int /\ g[1] < g[2]
        /\ \A c \in C : ~ Overlap(g, c)
    BY <1>1 DEF Gaps
  <2>2. g[1] < m[2] /\ m[1] < g[2]
    BY DEF Overlap
  <2>3. \A c \in Q : c[2] <= g[1]
    BY <1>1, <2>1 DEF Overlap
  <2>4. \E c \in Q : c[1] = m[1]
    BY <1>2, <2>2
  <2>5. \A c \in Q : c[2] < m[2]
    BY <1>1, <1>2, <2>1, <2>2, <2>3
  <2>6. \A c \in Q : \A j \in C :
          m[1] <= c[2] /\ j[1] <= c[2] /\ c[2] < j[2] => j \in Q
    BY <1>1, <2>1, <2>3
  <2>7. Q \in SUBSET C
    OBVIOUS
  <2> HIDE DEF Q
  <2> QED BY <2>4, <2>5, <2>6, <2>7, MergedIsConnected
<1> HIDE DEF M
<1>5. ASSUME NEW g \in Gaps(w, M) PROVE g \in Gaps(w, C)
  <2>1. /\ g \in Int \X Int /\ g[1] \in Int /\ g[2] \in Int /\ g[1] < g[2]
        /\ g = <<g[1], g[2]>> /\ Within(g, w)
        /\ \A m \in M : ~ Overlap(g, m)
        /\ g[1] = w[1] \/ \E m \in M : g[1] = m[2]
        /\ g[2] = w[2] \/ \E m \in M : g[2] = m[1]
    BY <1>1, <1>2 DEF Gaps
  <2>2. g[1] = w[1] \/ \E c \in C : g[1] = c[2]
    BY <1>2, <2>1
  <2>3. g[2] = w[2] \/ \E c \in C : g[2] = c[1]
    BY <1>2, <2>1
  <2>4. ASSUME NEW c \in C PROVE ~ Overlap(g, c)
    <3>1. PICK m \in M : Within(c, m)
      BY <1>3
    <3> QED BY <1>1, <1>2, <2>1, <3>1 DEF Within, Overlap
  <2> QED BY <2>1, <2>2, <2>3, <2>4 DEF Gaps
<1>6. ASSUME NEW g \in Gaps(w, C) PROVE g \in Gaps(w, M)
  <2>1. /\ g \in Int \X Int /\ g[1] \in Int /\ g[2] \in Int /\ g[1] < g[2]
        /\ g = <<g[1], g[2]>> /\ Within(g, w)
        /\ g[1] = w[1] \/ \E c \in C : g[1] = c[2]
        /\ g[2] = w[2] \/ \E c \in C : g[2] = c[1]
    BY <1>1 DEF Gaps
  <2>2. ASSUME NEW c \in C, g[1] = c[2] PROVE \E m \in M : g[1] = m[2]
    <3>1. PICK m \in M : Within(c, m)
      BY <1>3
    <3>2. ~ Overlap(g, m)
      BY <1>4
    <3>3. g[1] = m[2]
      BY <1>1, <1>2, <2>1, <2>2, <3>1, <3>2 DEF Within, Overlap
    <3> QED BY <3>3
  <2>3. ASSUME NEW c \in C, g[2] = c[1] PROVE \E m \in M : g[2] = m[1]
    <3>1. PICK m \in M : Within(c, m)
      BY <1>3
    <3>2. ~ Overlap(g, m)
      BY <1>4
    <3>3. g[2] = m[1]
      BY <1>1, <1>2, <2>1, <2>3, <3>1, <3>2 DEF Within, Overlap
    <3> QED BY <3>3
  <2> QED BY <1>4, <2>1, <2>2, <2>3 DEF Gaps
<1> QED BY <1>5, <1>6 DEF M

(* For any planning window, working hours and finitely many busy           *)
(* intervals: the loops of calculate_free_intervals compute the maximal    *)
(* parts of the merged working windows that nothing busy overlaps.         *)
THEOREM LoopsComputeFreeTime ==
  ASSUME NEW planning, IsInterval(planning),
         NEW hours, IsWorkingHours(hours),
         NEW busy, IsFiniteSet(busy), \A b \in busy : IsInterval(b)
  PROVE  FreeLoop(planning, hours, busy) = FreeIntervals(planning, hours, busy)
<1> DEFINE windows == Clipped(WorkingWindows(hours), planning)
           taken == Clipped(busy, planning)
           working == MergeLoop(windows)
           occupied == MergeLoop(taken)
           n == Len(occupied)
<1>1. IsFiniteSet(windows) /\ \A c \in windows : IsInterval(c)
  BY ClippedWindows
<1>2. IsFiniteSet(taken) /\ \A c \in taken : IsInterval(c)
  BY ClippedIsFinite, ClippedIsProper
<1> HIDE DEF windows, taken
<1>3. IsMergedSeq(working, windows) /\ IsMergedSeq(occupied, taken)
  BY <1>1, <1>2, MergeLoopMerges
<1> HIDE DEF working, occupied
<1>4. ToSet(working) = Merged(windows)
  <2>1. /\ working \in Seq(Int \X Int)
        /\ {working[a] : a \in 1 .. Len(working)} = Merged(windows)
    BY <1>3 DEF IsMergedSeq
  <2>2. DOMAIN working = 1 .. Len(working)
    BY <2>1
  <2> QED BY <2>1, <2>2 DEF ToSet
<1>5. ASSUME NEW C, \A c \in C : IsInterval(c), NEW m \in Merged(C)
      PROVE  IsInterval(m)
  BY <1>5 DEF Merged, IsInterval
<1>6. /\ occupied \in Seq(Int \X Int)
      /\ {occupied[a] : a \in 1 .. n} = Merged(taken)
      /\ \A a, b \in 1 .. n : a < b => occupied[a][2] < occupied[b][1]
  BY <1>3 DEF IsMergedSeq
<1>7. n \in Nat /\ occupied \in [1 .. n -> Int \X Int]
  BY <1>6
<1>8. \A a \in 1 .. n : IsInterval(occupied[a])
  BY <1>2, <1>5, <1>6
<1>9. \A a, b \in 1 .. n : a < b => occupied[a][1] <= occupied[b][1]
  <2> SUFFICES ASSUME NEW a \in 1 .. n, NEW b \in 1 .. n, a < b
               PROVE  occupied[a][1] <= occupied[b][1]
    OBVIOUS
  <2>1. /\ occupied[a][1] \in Int /\ occupied[a][2] \in Int
        /\ occupied[a][1] < occupied[a][2] /\ occupied[b][1] \in Int
    BY <1>8 DEF IsInterval
  <2> QED BY <1>6, <2>1
<1>10. ASSUME NEW w \in Merged(windows)
       PROVE  ToSet(SubtractBusyLoop(w, occupied)) = Gaps(w, taken)
  <2>1. IsInterval(w)
    BY <1>1, <1>5
  <2> HIDE DEF n
  <2>2. ToSet(SubtractBusyLoop(w, occupied))
          = Gaps(w, {occupied[a] : a \in 1 .. n})
    BY <1>7, <1>8, <1>9, <2>1, SubtractBusyGaps
  <2>3. Gaps(w, Merged(taken)) = Gaps(w, taken)
    <3>1. \A c \in taken : \E m \in Merged(taken) : Within(c, m)
      BY <1>3 DEF IsMergedSeq
    <3> QED BY <1>2, <2>1, <3>1, GapsOfMerged
  <2> QED BY <1>6, <2>2, <2>3
<1>11. FreeLoop(planning, hours, busy)
         = UNION {ToSet(SubtractBusyLoop(w, occupied)) : w \in ToSet(working)}
  BY DEF FreeLoop, working, occupied, windows, taken
<1>12. FreeIntervals(planning, hours, busy)
         = UNION {Gaps(w, taken) : w \in Merged(windows)}
  BY DEF FreeIntervals, WorkingIntervals, windows, taken
<1> QED BY <1>4, <1>10, <1>11, <1>12

(* For any tasks, preferences, free time and planning windows: on every    *)
(* state that scheduling leads to, the loops of _subtract_intervals and    *)
(* calculate_free_intervals compute what the model says they do.           *)
THEOREM LoopsTheorem == Spec => []LoopsComputeAvailability
<1>1. SchedulerTypeOK => LoopsComputeAvailability
  <2> SUFFICES ASSUME SchedulerTypeOK PROVE LoopsComputeAvailability
    OBVIOUS
  <2>1. RoundTypeOK /\ DOMAIN task = Task
    BY SchedulerRound
  <2>2. IsFiniteSet(Reservations) /\ \A r \in Reservations : IsInterval(r)
    BY <2>1, ReservationFacts
  <2>3. ASSUME NEW t \in pending
        PROVE  SubtractLoop(Constrained(t), Reservations) = Available(t)
    <3>1. \A s \in Constrained(t) : s \in Int \X Int /\ s[1] < s[2]
      <4>1. t \in DOMAIN task
        BY <2>1 DEF RoundTypeOK
      <4>2. \A f \in free : Allowed(t, f) \in Int \X Int
        BY <2>1, <4>1, AllowedFacts
      <4> QED BY <4>2 DEF Constrained
    <3>2. SubtractLoop(Constrained(t), Reservations)
            = UNION {Gaps(s, Reservations) : s \in Constrained(t)}
      BY <2>2, <3>1, SubtractLoopGaps
    <3> QED BY <3>2 DEF Available
  <2>4. ASSUME NEW window \in PlanningWindow
        PROVE  FreeLoop(window, WorkingHours, Reservations)
                 = FreeIntervals(window, WorkingHours, Reservations)
    BY <2>2, PlanningAssumption, LoopsComputeFreeTime
  <2> QED BY <2>3, <2>4 DEF LoopsComputeAvailability
<1> QED BY <1>1, SchedulerTypeCorrect, PTL
=============================================================================
