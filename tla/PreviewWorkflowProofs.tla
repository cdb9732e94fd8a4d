------------------------- MODULE PreviewWorkflowProofs -------------------------
(***************************************************************************)
(* Proofs about PreviewWorkflow for any requests, drafts, reviews and      *)
(* stored tasks: first what apply_review makes of a draft, then what is    *)
(* known of a request at each stage, and the properties of the responses.  *)
(* A preview is a run of Scheduler's rounds, so SchedulerProofs' lemmas     *)
(* about rounds hold in it.                                                *)
(***************************************************************************)
EXTENDS PreviewWorkflow, SchedulerProofs, WellFoundedInduction

(* How many members of a set have a key that is not above that of each.    *)
Rank(S, key) == [i \in S |-> Cardinality({j \in S : key[j] <= key[i]})]

(* A numbering from 1 that follows the keys and leaves no number out.      *)
IsNumbering(S, key, rank) ==
  /\ Cardinality(S) \in Nat
  /\ \A i \in S : rank[i] \in 1 .. Cardinality(S)
  /\ \A i, j \in S : key[i] < key[j] => rank[i] < rank[j]
  /\ \A i, j \in S : rank[i] = rank[j] => i = j
  /\ \A n \in 1 .. Cardinality(S) : \E i \in S : rank[i] = n

(* Counting how many of a finite set are not above each of its members     *)
(* numbers them from 1, in their order, leaving no number out.             *)
LEMMA RanksNumber ==
  ASSUME NEW S, IsFiniteSet(S), NEW key \in [S -> Int],
         \A i, j \in S : key[i] = key[j] => i = j
  PROVE  IsNumbering(S, key, Rank(S, key))
<1> DEFINE Upto(i) == {j \in S : key[j] <= key[i]}
           n == Cardinality(S)
           rank == Rank(S, key)
<1>1. n \in Nat
  BY FS_CardinalityType
<1>2. ASSUME NEW i \in S
      PROVE  /\ rank[i] = Cardinality(Upto(i))
             /\ IsFiniteSet(Upto(i))
             /\ rank[i] \in 1 .. n
  <2>1. Upto(i) \subseteq S /\ i \in Upto(i)
    OBVIOUS
  <2>2. rank[i] = Cardinality(Upto(i))
    BY DEF Rank
  <2> HIDE DEF Upto, rank
  <2>3. /\ IsFiniteSet(Upto(i)) /\ Cardinality(Upto(i)) <= n
        /\ Cardinality(Upto(i)) \in Nat
    BY <2>1, FS_Subset, FS_CardinalityType
  <2>4. Cardinality(Upto(i)) # 0
    BY <2>1, <2>3, FS_EmptySet
  <2> HIDE DEF n
  <2> QED BY <1>1, <2>2, <2>3, <2>4
<1> HIDE DEF rank
<1>3. ASSUME NEW i \in S, NEW j \in S, key[i] < key[j]
      PROVE  rank[i] < rank[j]
  <2> DEFINE A == Upto(i)
             B == Upto(j)
  <2>1. key[i] \in Int /\ \A k \in S : key[k] \in Int
    OBVIOUS
  <2>2. A \subseteq B /\ j \in B /\ j \notin A
    BY <1>3, <2>1
  <2>3. /\ rank[i] = Cardinality(A) /\ rank[j] = Cardinality(B)
        /\ rank[i] \in Nat /\ rank[j] \in Nat /\ IsFiniteSet(B)
    BY <1>2
  <2> HIDE DEF A, B
  <2>4. Cardinality(A) <= Cardinality(B) /\ Cardinality(A) # Cardinality(B)
    BY <2>2, <2>3, FS_Subset
  <2> QED BY <2>3, <2>4
<1>4. ASSUME NEW i \in S, NEW j \in S, rank[i] = rank[j] PROVE i = j
  <2> HIDE DEF n, Upto
  <2>1. rank[i] \in 1 .. n /\ rank[j] \in 1 .. n
    BY <1>2
  <2>2. ~ key[i] < key[j] /\ ~ key[j] < key[i]
    BY <1>1, <1>3, <1>4, <2>1
  <2>3. key[i] \in Int /\ key[j] \in Int
    OBVIOUS
  <2> QED BY <2>2, <2>3
<1>5. \A m \in 1 .. n : \E i \in S : rank[i] = m
  <2> DEFINE T == 1 .. n
  <2>1. IsFiniteSet(T) /\ Cardinality(T) = n
    BY <1>1, FS_Interval
  <2>2. rank \in Injection(S, T)
    <3>1. rank \in [S -> T]
      BY <1>2 DEF rank, Rank
    <3> QED BY <3>1, <1>4 DEF Injection, IsInjective
  <2> HIDE DEF T
  <2>3. rank \in Surjection(S, T)
    BY <2>1, <2>2, FS_Injection
  <2> QED BY <2>3 DEF Surjection, T
<1>6. IsNumbering(S, key, rank)
  <2> HIDE DEF Upto
  <2> QED BY <1>1, <1>2, <1>3, <1>4, <1>5 DEF IsNumbering
<1> QED BY <1>6 DEF rank

-----------------------------------------------------------------------------
(* The steps of a draft that a review lets pass are numbered from 1 in the *)
(* order the review asks for.                                              *)
LEMMA StepsAreNumbered ==
  ASSUME NEW draft, NEW review, IsDraft(draft), IsReview(review),
         ~ IsRefused(draft, review)
  PROVE  LET S == Surviving(draft, review) IN
         /\ Cardinality(S) \in Nat
         /\ \A i \in S : FinalOrder(draft, review, i) \in 1 .. Cardinality(S)
         /\ \A i, j \in S :
              RequestedOrder(review, i) < RequestedOrder(review, j) =>
                FinalOrder(draft, review, i) < FinalOrder(draft, review, j)
         /\ \A i, j \in S :
              FinalOrder(draft, review, i) = FinalOrder(draft, review, j) => i = j
         /\ \A n \in 1 .. Cardinality(S) :
              \E i \in S : FinalOrder(draft, review, i) = n
<1> DEFINE S == Surviving(draft, review)
           key == [i \in S |-> RequestedOrder(review, i)]
           rank == Rank(S, key)
<1>1. PICK n \in 0 .. 20 : DOMAIN draft.steps = 1 .. n
  BY DEF IsDraft
<1>2. IsFiniteSet(S) /\ S \subseteq Int
  <2>1. IsFiniteSet(DOMAIN draft.steps)
    BY <1>1, FS_Interval
  <2> QED BY <1>1, <2>1, FS_Subset DEF Surviving
<1>3. \A i \in S : RequestedOrder(review, i) \in Int
  <2> TAKE i \in S
  <2>1. i \in Int
    BY <1>2
  <2>2. ASSUME StepReview(review, i) # NoReview
        PROVE  StepReview(review, i).new_order \in (Nat \ {0}) \cup {None}
    <3>1. PICK j \in DOMAIN review.steps : StepReview(review, i) = review.steps[j]
      BY <2>2 DEF StepReview
    <3> QED BY <3>1 DEF IsReview, IsStepReview
  <2> QED BY <2>1, <2>2 DEF RequestedOrder
<1>4. \A i, j \in S : key[i] = key[j] => i = j
  BY DEF IsRefused
<1>5. key \in [S -> Int]
  BY <1>3
<1>6. \A i \in S : rank[i] = FinalOrder(draft, review, i)
  <2> TAKE i \in S
  <2>1. {j \in S : key[j] <= key[i]}
          = {j \in S : RequestedOrder(review, j) <= RequestedOrder(review, i)}
    OBVIOUS
  <2> QED BY <2>1 DEF FinalOrder, Rank
<1>7. \A i \in S : key[i] = RequestedOrder(review, i)
  OBVIOUS
<1> HIDE DEF key, S, rank
<1>8. rank = Rank(S, key)
  BY DEF rank
<1>9. IsNumbering(S, key, rank)
  BY <1>2, <1>4, <1>5, <1>8, RanksNumber
<1> QED BY <1>6, <1>7, <1>9 DEF S, IsNumbering

-----------------------------------------------------------------------------
(* What a review leaves of a field is a value of that field, or none.      *)
LEMMA ResolvedFacts ==
  ASSUME NEW draft, NEW review, IsDraft(draft), IsReview(review),
         NEW name \in FIELD_NAMES
  PROVE  LET v == draft.fields[name]
             r == review.fields[name]
             d == Resolved(draft, review, name)
         IN /\ d.value \in Values(name) \cup {None}
            /\ d.decision = "accepted" => d.value = v.value
            /\ r # NoReview =>
                 /\ r.decision = "accepted" => d.value = v.value
                 /\ r.decision = "edited" => d.value = r.value
                 /\ r.decision = "rejected" => d.value = None
<1> DEFINE v == draft.fields[name]
           r == review.fields[name]
<1>1. v.value \in Values(name) \cup {None}
  <2>1. IsDraftValue(name, v)
    BY DEF IsDraft
  <2> QED BY <2>1 DEF IsDraftValue
<1>2. r # NoReview => /\ r.decision \in {"accepted", "edited", "rejected"}
                      /\ r.value \in Values(name) \cup {None}
  BY DEF IsReview, IsFieldReview
<1> HIDE DEF v, r
<1>3. CASE r = NoReview
  BY <1>1, <1>3 DEF Resolved, v, r
<1>4. CASE r # NoReview /\ r.decision = "accepted"
  BY <1>1, <1>4 DEF Resolved, v, r
<1>5. CASE r # NoReview /\ r.decision = "edited"
  BY <1>2, <1>5 DEF Resolved, v, r
<1>6. CASE r # NoReview /\ r.decision = "rejected"
  BY <1>6 DEF Resolved, v, r
<1> QED BY <1>2, <1>3, <1>4, <1>5, <1>6 DEF v, r

(* Every surviving step has a place in the confirmed task, and every place *)
(* of the confirmed task is that of one surviving step.                    *)
LEMMA ConfirmedSteps ==
  ASSUME NEW draft, NEW review, IsDraft(draft), IsReview(review),
         ~ IsRefused(draft, review)
  PROVE  LET steps == ConfirmedTask(draft, review).steps
             survivors == Surviving(draft, review)
         IN /\ Cardinality(survivors) \in Nat
            /\ DOMAIN steps = 1 .. Cardinality(survivors)
            /\ Len(steps) = Cardinality(survivors)
            /\ \A i \in survivors :
                 /\ FinalOrder(draft, review, i) \in DOMAIN steps
                 /\ steps[FinalOrder(draft, review, i)]
                      = StepValues(draft, review, i)
            /\ \A o \in DOMAIN steps :
                 \E i \in survivors : FinalOrder(draft, review, i) = o
<1> DEFINE survivors == Surviving(draft, review)
           n == Cardinality(survivors)
           order(i) == FinalOrder(draft, review, i)
           at(o) == CHOOSE i \in survivors : order(i) = o
           steps == [o \in 1 .. n |-> StepValues(draft, review, at(o))]
<1>1. /\ n \in Nat
      /\ \A i \in survivors : order(i) \in 1 .. n
      /\ \A i, j \in survivors : order(i) = order(j) => i = j
      /\ \A o \in 1 .. n : \E i \in survivors : order(i) = o
  BY StepsAreNumbered
<1>2. ConfirmedTask(draft, review).steps = steps
  BY DEF ConfirmedTask
<1>3. ASSUME NEW i \in survivors PROVE at(order(i)) = i
  <2> HIDE DEF survivors, order
  <2>1. at(order(i)) \in survivors /\ order(at(order(i))) = order(i)
    OBVIOUS
  <2> QED BY <1>1, <2>1
<1>4. /\ DOMAIN steps = 1 .. n
      /\ \A o \in 1 .. n : steps[o] = StepValues(draft, review, at(o))
  OBVIOUS
<1>5. Len(steps) = n
  <2> HIDE DEF n, at
  <2> QED BY <1>1
<1> HIDE DEF survivors, n, order, at, steps
<1>6. /\ n \in Nat
      /\ DOMAIN steps = 1 .. n
      /\ Len(steps) = n
      /\ \A i \in survivors : /\ order(i) \in DOMAIN steps
                              /\ steps[order(i)] = StepValues(draft, review, i)
      /\ \A o \in DOMAIN steps : \E i \in survivors : order(i) = o
  BY <1>1, <1>3, <1>4, <1>5
<1> QED BY <1>2, <1>6 DEF survivors, n, order

-----------------------------------------------------------------------------
(* An estimate that is not reviewed decides nothing in this mode.          *)
LEMMA WithheldFacts ==
  ASSUME NEW name, NEW v, IsDraftValue(name, v), NEW unreviewed \in BOOLEAN
  PROVE  LET w == Withheld(v, unreviewed) IN
         /\ w.source = v.source
         /\ IF unreviewed /\ IsEstimate(v) THEN w.value = None ELSE w = v
<1>1. v \in [value : Values(name) \cup {None},
             source : {None, "user", "inferred", "estimated", "default"},
             requires_confirmation : BOOLEAN]
  BY DEF IsDraftValue
<1>2. /\ [v EXCEPT !.value = None].source = v.source
      /\ [v EXCEPT !.value = None].value = None
  BY <1>1
<1> QED BY <1>2 DEF Withheld, IsEstimate

(* The same review of a draft without its unreviewed estimates gives the   *)
(* same fields,                                                            *)
LEMMA WithheldFields ==
  ASSUME NEW draft, NEW review, IsDraft(draft), IsReview(review),
         review.mode = "reject_unreviewed_estimates", NEW name \in FIELD_NAMES
  PROVE  Resolved(WithoutEstimates(draft, review), review, name).value
           = Resolved(draft, review, name).value
<1> DEFINE v == draft.fields[name]
           r == review.fields[name]
           w == Withheld(v, r = NoReview)
<1>1. WithoutEstimates(draft, review).fields[name] = w
  BY DEF WithoutEstimates
<1>2. IsDraftValue(name, v)
  BY DEF IsDraft
<1>3. /\ w.source = v.source
      /\ IF r = NoReview /\ IsEstimate(v) THEN w.value = None ELSE w = v
  BY <1>2, WithheldFacts
<1>4. IsEstimate(w) <=> IsEstimate(v)
  BY <1>3 DEF IsEstimate
<1>5. r # NoReview => r.decision \in {"accepted", "edited", "rejected"}
  BY DEF IsReview, IsFieldReview
<1> HIDE DEF v, r, w
<1>6. CASE r = NoReview
  BY <1>1, <1>3, <1>4, <1>6 DEF Resolved, v, r
<1>7. CASE r # NoReview
  BY <1>1, <1>3, <1>5, <1>7 DEF Resolved, v, r
<1> QED BY <1>6, <1>7

(* and the same steps.                                                     *)
LEMMA WithheldSteps ==
  ASSUME NEW draft, NEW review, IsDraft(draft), IsReview(review),
         review.mode = "reject_unreviewed_estimates",
         NEW i \in DOMAIN draft.steps, NEW part \in STEP_PARTS
  PROVE  StepValue(WithoutEstimates(draft, review), review, i, part)
           = StepValue(draft, review, i, part)
<1> DEFINE bare == WithoutEstimates(draft, review)
           r == StepReview(review, i)
           v == draft.steps[i][part]
           w == Withheld(v, r = NoReview)
<1>1. bare.steps[i][part] = w
  BY DEF WithoutEstimates
<1>2. IsDraftValue(part, v)
  BY DEF IsDraft
<1>3. /\ w.source = v.source
      /\ IF r = NoReview /\ IsEstimate(v) THEN w.value = None ELSE w = v
  BY <1>2, WithheldFacts
<1>4. IsEstimate(w) <=> IsEstimate(v)
  BY <1>3 DEF IsEstimate
<1> HIDE DEF v, w, bare, r
<1>5. CASE r = NoReview
  BY <1>1, <1>3, <1>4, <1>5 DEF StepValue, v, r, bare
<1>6. CASE r # NoReview
  BY <1>1, <1>3, <1>6 DEF StepValue, v, r, bare
<1> QED BY <1>5, <1>6

(* So the confirmed task is the same.                                      *)
LEMMA WithheldTask ==
  ASSUME NEW draft, NEW review, IsDraft(draft), IsReview(review),
         review.mode = "reject_unreviewed_estimates",
         ~ IsRefused(draft, review)
  PROVE  ConfirmedTask(draft, review)
           = ConfirmedTask(WithoutEstimates(draft, review), review)
<1> DEFINE bare == WithoutEstimates(draft, review)
           survivors == Surviving(draft, review)
           n == Cardinality(survivors)
           order(i) == FinalOrder(draft, review, i)
           at(o) == CHOOSE i \in survivors : order(i) = o
           field(d, name) == LET v == Resolved(d, review, name).value
                             IN IF name = "is_splittable" /\ v = None
                                THEN FALSE ELSE v
<1>1. Surviving(bare, review) = survivors
  BY DEF Surviving, WithoutEstimates
<1>2. \A i : FinalOrder(bare, review, i) = order(i)
  BY <1>1 DEF FinalOrder
<1>3. \A name \in FIELD_NAMES : field(bare, name) = field(draft, name)
  BY WithheldFields
<1>4. ASSUME NEW o \in 1 .. n
      PROVE  StepValues(bare, review, at(o)) = StepValues(draft, review, at(o))
  <2>1. \E i \in survivors : order(i) = o
    BY StepsAreNumbered
  <2>2. at(o) \in survivors
    <3> HIDE DEF survivors, order
    <3> QED BY <2>1
  <2>3. at(o) \in DOMAIN draft.steps
    BY <2>2 DEF Surviving
  <2> HIDE DEF at
  <2>4. \A part \in STEP_PARTS :
          StepValue(bare, review, at(o), part)
            = StepValue(draft, review, at(o), part)
    BY <2>3, WithheldSteps
  <2> HIDE DEF bare
  <2> QED BY <2>4 DEF StepValues
<1>5. ConfirmedTask(draft, review)
        = [fields |-> [name \in FIELD_NAMES |-> field(draft, name)],
           steps |-> [o \in 1 .. n |-> StepValues(draft, review, at(o))]]
  BY DEF ConfirmedTask
<1>6. ConfirmedTask(bare, review)
        = [fields |-> [name \in FIELD_NAMES |-> field(bare, name)],
           steps |-> [o \in 1 .. n |-> StepValues(bare, review, at(o))]]
  <2> DEFINE kept == Surviving(bare, review)
             place(o) == CHOOSE i \in kept : FinalOrder(bare, review, i) = o
  <2>1. ConfirmedTask(bare, review)
          = [fields |-> [name \in FIELD_NAMES |-> field(bare, name)],
             steps |-> [o \in 1 .. Cardinality(kept) |->
                          StepValues(bare, review, place(o))]]
    BY DEF ConfirmedTask
  <2>2. \A o : place(o) = at(o)
    <3> HIDE DEF bare, survivors, order, kept
    <3>1. kept = survivors
      BY <1>1 DEF kept
    <3> QED BY <1>2, <3>1
  <2>3. kept = survivors
    BY <1>1
  <2> HIDE DEF place, at, kept, survivors, bare, field
  <2> QED BY <2>1, <2>2, <2>3
<1> HIDE DEF bare, field, at, n
<1>7. /\ [name \in FIELD_NAMES |-> field(draft, name)]
           = [name \in FIELD_NAMES |-> field(bare, name)]
      /\ [o \in 1 .. n |-> StepValues(draft, review, at(o))]
           = [o \in 1 .. n |-> StepValues(bare, review, at(o))]
  BY <1>3, <1>4
<1> QED BY <1>5, <1>6, <1>7 DEF bare

(* and so is what becomes of the review.                                   *)
LEMMA WithheldOutcome ==
  ASSUME NEW draft, NEW review, IsDraft(draft), IsReview(review),
         review.mode = "reject_unreviewed_estimates"
  PROVE  ConfirmationOutcome(draft, review)
           = ConfirmationOutcome(WithoutEstimates(draft, review), review)
<1> DEFINE bare == WithoutEstimates(draft, review)
<1>1. /\ DOMAIN bare.steps = DOMAIN draft.steps
      /\ Surviving(bare, review) = Surviving(draft, review)
  BY DEF Surviving, WithoutEstimates
<1>2. Resolved(bare, review, "title").value
        = Resolved(draft, review, "title").value
  BY WithheldFields DEF FIELD_NAMES
<1>3. \A i \in Surviving(draft, review) : \A part \in STEP_PARTS :
        StepValue(bare, review, i, part) = StepValue(draft, review, i, part)
  BY WithheldSteps DEF Surviving
<1> HIDE DEF bare
<1>4. /\ ~ MissingConfirmation(draft, review)
      /\ ~ MissingConfirmation(bare, review)
  BY DEF MissingConfirmation
<1>5. IsRefused(bare, review) <=> IsRefused(draft, review)
  BY <1>1, <1>2, <1>3, <1>4 DEF IsRefused, STEP_PARTS
<1>6. StepEscapes(bare, review) <=> StepEscapes(draft, review)
  BY <1>1, <1>3 DEF StepEscapes, STEP_PARTS
<1>7. CASE IsRefused(draft, review)
  BY <1>5, <1>7 DEF ConfirmationOutcome, bare
<1>8. CASE ~ IsRefused(draft, review)
  <2>1. ConfirmedTask(draft, review) = ConfirmedTask(bare, review)
    BY <1>8, WithheldTask DEF bare
  <2> QED BY <1>5, <1>6, <1>8, <2>1 DEF ConfirmationOutcome, bare
<1> QED BY <1>7, <1>8

-----------------------------------------------------------------------------
(* What intervals add up to.  The fold is a function on the sets of         *)
(* intervals that the choice of their members defines; what is shown of it *)
(* by induction is shown by a smallest counterexample.                     *)
AMember(s) == CHOOSE x \in s : TRUE

AddsUp(f, S) ==
  f = [s \in SUBSET S |->
         IF s = {} THEN 0
         ELSE Minutes(AMember(s)) + f[s \ {AMember(s)}]]

Total(S) == MapThenSumSet(Minutes, S)

Sums(S) == CHOOSE f : AddsUp(f, S)

LEMMA SumIsIter == ASSUME NEW S PROVE Total(S) = Sums(S)[S]
BY DEF Total, MapThenSumSet, MapThenFoldSet, Sums, AddsUp, AMember

(* A set of finite sets has one that no other is a part of.                *)
LEMMA SmallestExists ==
  ASSUME NEW S, IsFiniteSet(S), NEW T, T \subseteq SUBSET S, T # {}
  PROVE  \E s \in T : \A u \in SUBSET s : u # s => u \notin T
<1> DEFINE R == StrictSubsetOrdering(S)
<1>1. IsWellFoundedOn(R, SUBSET S)
  BY FS_StrictSubsetOrderingWellFounded, FS_FiniteSubsetsOfFinite
<1> HIDE DEF R
<1>2. PICK s \in T : \A u \in T : ~ (<<u, s>> \in R)
  BY <1>1, WFMin
<1>3. ASSUME NEW u \in SUBSET s, u # s, u \in T PROVE FALSE
  <2>1. u \in SUBSET S /\ s \in SUBSET S
    OBVIOUS
  <2>2. <<u, s>> \in R
    BY <1>3, <2>1 DEF R, StrictSubsetOrdering
  <2> QED BY <1>2, <1>3, <2>2
<1> QED BY <1>3

LEMMA AddsUpFacts ==
  ASSUME NEW f, NEW S, AddsUp(f, S), NEW s \in SUBSET S
  PROVE  /\ s = {} => f[s] = 0
         /\ s # {} => /\ AMember(s) \in s
                      /\ f[s] = Minutes(AMember(s)) + f[s \ {AMember(s)}]
<1>1. s # {} => AMember(s) \in s
  BY DEF AMember
<1>2. f[s] = IF s = {} THEN 0 ELSE Minutes(AMember(s)) + f[s \ {AMember(s)}]
  BY DEF AddsUp
<1> QED BY <1>1, <1>2

(* There is one such function on the subsets of a set at most,             *)
LEMMA SumsAgree ==
  ASSUME NEW S, IsFiniteSet(S), NEW T \in SUBSET S,
         NEW f, NEW g, AddsUp(f, S), AddsUp(g, T)
  PROVE  \A s \in SUBSET T : f[s] = g[s]
<1> DEFINE Bad == {s \in SUBSET T : f[s] # g[s]}
<1> SUFFICES ASSUME Bad # {} PROVE FALSE
  OBVIOUS
<1>1. IsFiniteSet(T) /\ Bad \subseteq SUBSET T
  BY FS_Subset
<1>2. PICK s \in Bad : \A u \in SUBSET s : u # s => u \notin Bad
  <2> HIDE DEF Bad
  <2> QED BY <1>1, SmallestExists
<1>3. s \in SUBSET T /\ s \in SUBSET S /\ f[s] # g[s]
  OBVIOUS
<1>4. CASE s = {}
  BY <1>3, <1>4, AddsUpFacts
<1>5. CASE s # {}
  <2> DEFINE x == AMember(s)
             u == s \ {x}
  <2>1. x \in s /\ f[s] = Minutes(x) + f[u] /\ g[s] = Minutes(x) + g[u]
    BY <1>3, <1>5, AddsUpFacts
  <2>2. u \in SUBSET s /\ u # s /\ u \in SUBSET T
    BY <1>3, <2>1
  <2>3. f[u] = g[u]
    BY <1>2, <2>2
  <2> QED BY <1>3, <2>1, <2>3
<1> QED BY <1>4, <1>5

(* and there is one.                                                       *)
LEMMA SumsExist ==
  ASSUME NEW S, IsFiniteSet(S)
  PROVE  AddsUp(Sums(S), S)
<1> DEFINE Bad == {T \in SUBSET S : ~ \E f : AddsUp(f, T)}
<1>1. ASSUME Bad # {} PROVE FALSE
  <2>1. PICK T \in Bad : \A u \in SUBSET T : u # T => u \notin Bad
    <3>1. Bad \subseteq SUBSET S
      OBVIOUS
    <3> HIDE DEF Bad
    <3> QED BY <1>1, <3>1, SmallestExists
  <2>2. T \in SUBSET S /\ IsFiniteSet(T) /\ ~ \E f : AddsUp(f, T)
    BY FS_Subset
  <2>3. ASSUME NEW s \in SUBSET T, s # T PROVE AddsUp(Sums(s), s)
    <3>1. s \in SUBSET S
      BY <2>2
    <3>2. \E f : AddsUp(f, s)
      BY <2>1, <2>3, <3>1
    <3> QED BY <3>2 DEF Sums
  <2> DEFINE x == AMember(T)
             g == [s \in SUBSET T |->
                     IF s = T
                     THEN IF T = {} THEN 0 ELSE Minutes(x) + Sums(T \ {x})[T \ {x}]
                     ELSE Sums(s)[s]]
  <2>4. T # {} => x \in T
    BY DEF AMember
  <2> HIDE DEF Bad, x
  <2>5. ASSUME NEW s \in SUBSET T
        PROVE  g[s] = IF s = {} THEN 0
                      ELSE Minutes(AMember(s)) + g[s \ {AMember(s)}]
    <3>1. CASE s = {} /\ s = T
      BY <3>1
    <3>2. CASE s = {} /\ s # T
      BY <2>3, <3>2, AddsUpFacts
    <3>3. CASE s # {} /\ s = T
      <4>1. T \ {x} \in SUBSET T /\ T \ {x} # T
        BY <2>4, <3>3
      <4>2. g[T \ {x}] = Sums(T \ {x})[T \ {x}]
        BY <4>1
      <4>3. g[T] = Minutes(x) + Sums(T \ {x})[T \ {x}]
        BY <3>3
      <4> HIDE DEF g
      <4> QED BY <3>3, <4>2, <4>3 DEF x
    <3>4. CASE s # {} /\ s # T
      <4> DEFINE y == AMember(s)
                 u == s \ {y}
      <4>1. AddsUp(Sums(s), s) /\ IsFiniteSet(s)
        BY <2>2, <2>3, <3>4, FS_Subset
      <4>2. y \in s /\ Sums(s)[s] = Minutes(y) + Sums(s)[u]
        BY <3>4, <4>1, AddsUpFacts
      <4>3. u \in SUBSET s /\ u \in SUBSET T /\ u # T
        BY <3>4, <4>2
      <4>4. AddsUp(Sums(u), u)
        BY <2>3, <4>3
      <4>5. Sums(s)[u] = Sums(u)[u]
        BY <4>1, <4>3, <4>4, SumsAgree
      <4>6. g[s] = Sums(s)[s] /\ g[u] = Sums(u)[u]
        BY <3>4, <4>3
      <4> HIDE DEF g
      <4> QED BY <3>4, <4>2, <4>5, <4>6
    <3> QED BY <3>1, <3>2, <3>3, <3>4
  <2>6. g = [s \in SUBSET T |-> g[s]]
    OBVIOUS
  <2> HIDE DEF g
  <2>7. AddsUp(g, T)
    BY <2>5, <2>6 DEF AddsUp
  <2> QED BY <2>2, <2>7
<1>2. \E f : AddsUp(f, S)
  BY <1>1
<1> QED BY <1>2 DEF Sums

(* So a total is that of the chosen member and the rest,                   *)
LEMMA TotalFacts ==
  ASSUME NEW S, IsFiniteSet(S)
  PROVE  /\ S = {} => Total(S) = 0
         /\ S # {} =>
              /\ AMember(S) \in S
              /\ Total(S) = Minutes(AMember(S)) + Total(S \ {AMember(S)})
<1> DEFINE x == AMember(S)
           u == S \ {x}
<1>1. AddsUp(Sums(S), S) /\ AddsUp(Sums(u), u) /\ u \in SUBSET S
  BY FS_Subset, SumsExist
<1>2. Sums(S)[u] = Sums(u)[u]
  BY <1>1, SumsAgree
<1>3. Total(S) = Sums(S)[S] /\ Total(u) = Sums(u)[u]
  BY SumIsIter
<1> QED BY <1>1, <1>2, <1>3, AddsUpFacts

LEMMA TotalType ==
  ASSUME NEW S, IsFiniteSet(S), \A i \in S : Minutes(i) \in Int
  PROVE  Total(S) \in Int
<1> DEFINE Bad == {s \in SUBSET S : Total(s) \notin Int}
<1> SUFFICES ASSUME Bad # {} PROVE FALSE
  OBVIOUS
<1>1. Bad \subseteq SUBSET S
  OBVIOUS
<1>2. PICK s \in Bad : \A u \in SUBSET s : u # s => u \notin Bad
  <2> HIDE DEF Bad
  <2> QED BY <1>1, SmallestExists
<1> DEFINE x == AMember(s)
           u == s \ {x}
<1>3. /\ s = {} => Total(s) = 0
      /\ s # {} => x \in s /\ Total(s) = Minutes(x) + Total(u)
  BY FS_Subset, TotalFacts
<1>4. s # {} => u \in SUBSET s /\ u # s /\ u \in SUBSET S
  BY <1>3
<1>5. s # {} => Total(u) \in Int
  BY <1>2, <1>4
<1> QED BY <1>3, <1>5

(* and of any member and the rest, whichever is chosen first.              *)
LEMMA TotalOfOneMore ==
  ASSUME NEW S, IsFiniteSet(S), \A i \in S : Minutes(i) \in Int, NEW y \in S
  PROVE  Total(S) = Minutes(y) + Total(S \ {y})
<1> DEFINE Bad == {s \in SUBSET S :
                     \E z \in s : Total(s) # Minutes(z) + Total(s \ {z})}
<1> SUFFICES ASSUME Bad # {} PROVE FALSE
  OBVIOUS
<1>1. Bad \subseteq SUBSET S
  OBVIOUS
<1>2. PICK s \in Bad : \A u \in SUBSET s : u # s => u \notin Bad
  <2> HIDE DEF Bad
  <2> QED BY <1>1, SmallestExists
<1>3. PICK z \in s : Total(s) # Minutes(z) + Total(s \ {z})
  OBVIOUS
<1> DEFINE x == AMember(s)
           w == (s \ {x}) \ {z}
<1>4. s \in SUBSET S
  OBVIOUS
<1>5. x \in s /\ Total(s) = Minutes(x) + Total(s \ {x})
  BY <1>4, FS_Subset, TotalFacts
<1>6. x # z
  BY <1>3, <1>5
<1>7. /\ s \ {x} \notin Bad /\ s \ {x} \in SUBSET S /\ z \in s \ {x}
      /\ s \ {z} \notin Bad /\ s \ {z} \in SUBSET S /\ x \in s \ {z}
  <2> HIDE DEF x
  <2> QED BY <1>2, <1>4, <1>5, <1>6
<1>8. /\ Total(s \ {x}) = Minutes(z) + Total(w)
      /\ Total(s \ {z}) = Minutes(x) + Total((s \ {z}) \ {x})
  <2> HIDE DEF x
  <2> QED BY <1>7
<1>9. (s \ {z}) \ {x} = w
  OBVIOUS
<1>10. /\ Minutes(x) \in Int /\ Minutes(z) \in Int
       /\ w \in SUBSET S /\ Total(w) \in Int
  <2>1. w \in SUBSET S /\ IsFiniteSet(w)
    BY <1>4, FS_Subset
  <2> HIDE DEF w, x
  <2> QED BY <1>4, <1>5, <2>1, TotalType
<1> HIDE DEF x, w
<1> QED BY <1>3, <1>5, <1>8, <1>9, <1>10

-----------------------------------------------------------------------------
BlocksOf(t) == {b.at : b \in {c \in placed : c.task = t}}

(* The minutes placed and left are a task's duration, and a task that is   *)
(* not to be split has no block or one.                                    *)
AccountedFor ==
  \A t \in DOMAIN task :
    /\ remaining[t] + Total(BlocksOf(t)) = task[t].duration
    /\ ~ task[t].splittable =>
         \/ BlocksOf(t) = {}
         \/ remaining[t] = 0 /\ \E at \in BlocksOf(t) : BlocksOf(t) = {at}

LEMMA BlocksFacts ==
  ASSUME RoundTypeOK, NEW t
  PROVE  /\ IsFiniteSet(BlocksOf(t))
         /\ \A i \in BlocksOf(t) : Minutes(i) \in Int
<1> DEFINE S == {c \in placed : c.task = t}
           at == [b \in S |-> b.at]
<1>1. IsFiniteSet(S)
  BY FS_Subset DEF RoundTypeOK
<1>2. BlocksOf(t) = {at[b] : b \in S}
  BY DEF BlocksOf
<1> HIDE DEF S
<1>3. IsFiniteSet({at[b] : b \in S})
  <2> DEFINE T == {at[b] : b \in S}
  <2>1. at \in Surjection(S, T)
    BY DEF Surjection
  <2> HIDE DEF T, at
  <2>2. IsFiniteSet(T)
    BY <1>1, <2>1, FS_Surjection
  <2> QED BY <2>2 DEF T
<1>4. \A i \in BlocksOf(t) : Minutes(i) \in Int
  BY DEF BlocksOf, RoundTypeOK, IsInterval, Minutes
<1> QED BY <1>2, <1>3, <1>4

(* A round adds to the blocks of its task what it takes from its rest.     *)
LEMMA AccountStep ==
  ASSUME RoundTypeOK, AccountedFor, [Round]_vars
  PROVE  AccountedFor'
<1>1. ASSUME NEW u \in DOMAIN task, Place(u) PROVE AccountedFor'
  <2>1. PICK c \in Candidates(u) :
          /\ placed' = placed \cup {[task |-> u, at |-> c.at]}
          /\ remaining' = [remaining EXCEPT ![u] = remaining[u] - Minutes(c.at)]
    BY <1>1, PlaceFacts
  <2>2. task' = task
    BY <1>1, PlaceFacts
  <2> DEFINE x == c.at
             new == [task |-> u, at |-> x]
  <2>3. /\ IsInterval(x) /\ Minutes(x) \in Nat
        /\ \A b \in placed : Apart(b.at, x)
        /\ ~ task[u].splittable => Minutes(x) = remaining[u]
    BY CandidateIsFeasible
  <2>4. Minutes(x) > 0 /\ preferences.break \in Nat /\ remaining[u] \in Nat
    BY <2>3, InputTypes DEF IsInterval, Minutes, SchedulerPreferences, RoundTypeOK
  <2>5. ASSUME NEW t \in DOMAIN task, t # u
        PROVE  BlocksOf(t)' = BlocksOf(t) /\ remaining'[t] = remaining[t]
    <3>1. {c2 \in placed' : c2.task = t} = {c2 \in placed : c2.task = t}
      BY <2>1, <2>5
    <3>2. BlocksOf(t)' = BlocksOf(t)
      BY <3>1 DEF BlocksOf
    <3>3. remaining'[t] = remaining[t]
      BY <2>1, <2>5 DEF RoundTypeOK
    <3> QED BY <3>2, <3>3
  <2>6. BlocksOf(u)' = BlocksOf(u) \cup {x}
    <3> HIDE DEF x
    <3>1. placed' = placed \cup {new} /\ new.task = u /\ new.at = x
      BY <2>1 DEF x
    <3> HIDE DEF new
    <3>2. {c2 \in placed' : c2.task = u} = {c2 \in placed : c2.task = u} \cup {new}
      BY <3>1
    <3>3. BlocksOf(u)' = {b.at : b \in {c2 \in placed' : c2.task = u}}
      BY DEF BlocksOf
    <3> QED BY <3>1, <3>2, <3>3 DEF BlocksOf
  <2>7. x \notin BlocksOf(u)
    BY <2>3, <2>4 DEF BlocksOf, Apart, IsInterval
  <2>8. remaining'[u] = remaining[u] - Minutes(x)
    BY <2>1 DEF RoundTypeOK
  <2> HIDE DEF x, new
  <2>9. Total(BlocksOf(u) \cup {x}) = Minutes(x) + Total(BlocksOf(u))
    <3> DEFINE S == BlocksOf(u)
               T == S \cup {x}
    <3>1. IsFiniteSet(S) /\ \A i \in S : Minutes(i) \in Int
      BY BlocksFacts
    <3> HIDE DEF S
    <3>2. /\ IsFiniteSet(T) /\ x \in T
          /\ \A i \in T : Minutes(i) \in Int
      BY <2>3, <3>1, FS_AddElement
    <3>3. T \ {x} = S
      BY <2>7 DEF S
    <3> HIDE DEF T
    <3>4. Total(T) = Minutes(x) + Total(T \ {x})
      BY <3>2, TotalOfOneMore
    <3> QED BY <3>3, <3>4 DEF S, T
  <2>10. Total(BlocksOf(u)) \in Int
    <3> DEFINE S == BlocksOf(u)
    <3>1. IsFiniteSet(S) /\ \A i \in S : Minutes(i) \in Int
      BY BlocksFacts
    <3> HIDE DEF S
    <3> QED BY <3>1, TotalType DEF S
  <2>11. ~ task[u].splittable => BlocksOf(u) = {} /\ remaining[u] = Minutes(x)
    <3>1. ~ task[u].splittable => remaining[u] # 0
      BY <2>3, <2>4
    <3> QED BY <2>3, <3>1 DEF AccountedFor
  <2>12. ASSUME NEW t \in DOMAIN task
         PROVE  /\ remaining'[t] + Total(BlocksOf(t)') = task[t].duration
                /\ ~ task[t].splittable =>
                     \/ BlocksOf(t)' = {}
                     \/ remaining'[t] = 0 /\ \E at \in BlocksOf(t)' : BlocksOf(t)' = {at}
    <3>1. CASE t = u
      <4>1. remaining[u] + Total(BlocksOf(u)) = task[u].duration
        BY DEF AccountedFor
      <4>2. task[u].duration \in Int
        BY InputTypes DEF SchedulingTask
      <4>3. remaining'[u] + Total(BlocksOf(u)') = task[u].duration
        <5> DEFINE before == Total(BlocksOf(u))
                   after  == Total(BlocksOf(u)')
                   m == Minutes(x)
        <5>1. after = m + before
          BY <2>6, <2>9
        <5>2. before \in Int /\ m \in Int /\ remaining[u] \in Int
          BY <2>3, <2>4, <2>10
        <5>3. remaining'[u] = remaining[u] - m
          BY <2>8
        <5>4. remaining[u] + before = task[u].duration
          BY <4>1
        <5> HIDE DEF before, after, m
        <5> QED BY <5>1, <5>2, <5>3, <5>4 DEF after
      <4>4. ~ task[u].splittable => remaining'[u] = 0 /\ BlocksOf(u)' = {x}
        BY <2>3, <2>4, <2>6, <2>8, <2>11
      <4> QED BY <3>1, <4>3, <4>4
    <3>2. CASE t # u
      BY <2>5, <3>2 DEF AccountedFor
    <3> QED BY <3>1, <3>2
  <2>13. \A t : Total(BlocksOf(t))' = Total(BlocksOf(t)')
    BY DEF Total, MapThenSumSet, MapThenFoldSet
  <2> QED BY <2>2, <2>12, <2>13 DEF AccountedFor
<1>2. ASSUME NEW u \in DOMAIN task, GiveUp(u) PROVE AccountedFor'
  BY <1>2 DEF GiveUp, AccountedFor, BlocksOf, Total
<1>3. CASE UNCHANGED vars
  BY <1>3 DEF vars, AccountedFor, BlocksOf, Total
<1> QED BY <1>1, <1>2, <1>3 DEF Round

-----------------------------------------------------------------------------
(* Free time lies in the planning window.                                  *)
LEMMA FreeIntervalsWithin ==
  ASSUME NEW planning, IsInterval(planning),
         NEW hours, IsWorkingHours(hours),
         NEW busy, \A b \in busy : IsInterval(b),
         NEW f \in FreeIntervals(planning, hours, busy)
  PROVE  Within(f, planning)
<1> DEFINE windows == WorkingWindows(hours)
           occupied == Clipped(busy, planning)
<1>1. planning[1] \in Int /\ planning[2] \in Int
  BY DEF IsInterval
<1>2. ASSUME NEW intervals, \A i \in intervals : i[1] \in Int /\ i[2] \in Int,
             NEW c \in Clipped(intervals, planning)
      PROVE  /\ c[1] \in Int /\ c[2] \in Int
             /\ planning[1] <= c[1] /\ c[2] <= planning[2]
  <2>1. PICK i \in intervals :
          c = <<Later(i[1], planning[1]), Earlier(i[2], planning[2])>>
    BY DEF Clipped
  <2> QED BY <1>1, <1>2, <2>1 DEF Later, Earlier
<1>3. \A i \in windows : i[1] \in Int /\ i[2] \in Int
  <2> SUFFICES ASSUME NEW d \in DOMAIN hours, NEW w \in hours[d]
               PROVE  d * DayLength + w[1] \in Int /\ d * DayLength + w[2] \in Int
    BY DEF WorkingWindows
  <2>1. d \in Int /\ w[1] \in Int /\ w[2] \in Int /\ DayLength \in Int
    BY DayLengthAssumption DEF IsWorkingHours
  <2> QED BY <2>1
<1> HIDE DEF windows
<1>4. PICK w \in Merged(Clipped(windows, planning)) : f \in Gaps(w, occupied)
  BY DEF FreeIntervals, WorkingIntervals, windows
<1>5. /\ w[1] \in Int /\ w[2] \in Int
      /\ planning[1] <= w[1] /\ w[2] <= planning[2]
  <2>1. \E i, j \in Clipped(windows, planning) : w[1] = i[1] /\ w[2] = j[2]
    BY DEF Merged
  <2> QED BY <1>2, <1>3, <2>1
<1>6. /\ f[1] \in Int /\ f[2] \in Int
      /\ Within(f, w)
  <2>1. \A r \in occupied : r[1] \in Int /\ r[2] \in Int
    <3>1. \A b \in busy : b[1] \in Int /\ b[2] \in Int
      BY DEF IsInterval
    <3> QED BY <1>2, <3>1
  <2> HIDE DEF occupied
  <2> QED BY <1>4, <1>5, <2>1 DEF Gaps
<1> QED BY <1>1, <1>5, <1>6 DEF Within

(* A task that is mapped without an error is one the scheduler can take.   *)
LEMMA MappedTaskType ==
  ASSUME IsRequest(request), request.kind = "workflow",
         NEW audit,
         confirmed = [task |-> ConfirmedTask(request.draft, request.review),
                      audit |-> audit],
         preferences = request.preferences,
         MappingError = "none"
  PROVE  MappedTask \in SchedulingTask
<1>1. \A name \in FIELD_NAMES \ {"is_splittable"} :
        Field(name) \in Values(name) \cup {None}
  <2> SUFFICES ASSUME NEW name \in FIELD_NAMES \ {"is_splittable"}
               PROVE  Field(name) \in Values(name) \cup {None}
    OBVIOUS
  <2>1. Field(name) = Resolved(request.draft, request.review, name).value
    BY DEF Field, ConfirmedTask
  <2>2. name \in FIELD_NAMES
    OBVIOUS
  <2> QED BY <2>1, <2>2, ResolvedFacts DEF IsRequest
<1>2. Field("is_splittable") \in BOOLEAN
  <2> DEFINE v == Resolved(request.draft, request.review, "is_splittable").value
  <2>1. Field("is_splittable") = IF v = None THEN FALSE ELSE v
    BY DEF Field, ConfirmedTask, FIELD_NAMES
  <2>2. v \in Values("is_splittable") \cup {None}
    BY ResolvedFacts DEF IsRequest, FIELD_NAMES
  <2>3. Values("is_splittable") = BOOLEAN
    BY DEF Values, STRING_FIELDS
  <2> QED BY <2>1, <2>2, <2>3
<1>3. /\ Field("duration") \in Nat \ {0}
      /\ ~ UnsupportedPriority /\ ~ UnsupportedPreferredTime
  <2>1. /\ ~ DeadlineBeforeWindow /\ ~ EarliestAfterWindow
        /\ Field("duration") # None
        /\ ~ UnsupportedPriority /\ ~ UnsupportedPreferredTime
    BY DEF MappingError
  <2>2. Field("duration") \in Values("duration") \cup {None}
    BY <1>1 DEF FIELD_NAMES
  <2> QED BY <2>1, <2>2 DEF Values, STRING_FIELDS
<1>4. PriorityRank[OrElse(Field("priority"), "medium")] \in Nat
  BY <1>3 DEF UnsupportedPriority, PriorityRank, OrElse
<1>5. TimeWindow[OrElse(Field("preferred_time_of_day"), "any")] \in TimeOfDay
  <2>1. OrElse(Field("preferred_time_of_day"), "any") \in DOMAIN TimeWindow
    BY <1>3, TimeWindowAssumption DEF UnsupportedPreferredTime, OrElse
  <2> QED BY <2>1, TimeWindowAssumption
<1>6. /\ OrElse(Field("earliest_start"), NoTime) \in Int \cup {NoTime}
      /\ OrElse(Field("deadline"), NoTime) \in Int \cup {NoTime}
  BY <1>1 DEF FIELD_NAMES, Values, STRING_FIELDS, OrElse
<1>7. /\ OrElse(Field("minimum_session_minutes"), preferences.minimum) \in Nat \ {0}
      /\ OrElse(Field("maximum_sessions_per_day"), 1) \in Nat \ {0}
  <2>1. preferences.minimum \in Nat \ {0}
    BY DEF IsRequest, SchedulerPreferences
  <2>2. /\ Field("minimum_session_minutes") \in (Nat \ {0}) \cup {None}
        /\ Field("maximum_sessions_per_day") \in (Nat \ {0}) \cup {None}
    BY <1>1 DEF FIELD_NAMES, Values, STRING_FIELDS
  <2> QED BY <2>1, <2>2 DEF OrElse
<1> QED BY <1>2, <1>3, <1>4, <1>5, <1>6, <1>7 DEF MappedTask, SchedulingTask

-----------------------------------------------------------------------------
previewVars == <<workflowVars, schedulerVars>>

Stages == {"ai_intake", "confirmation", "scheduler_mapping", "loading",
           "scheduling_preview", "done", "failed"}

DateErrors ==
  {"deadline_before_preview_window", "earliest_start_after_preview_window"}

(* What confirmation has made of a workflow's draft.                       *)
IsConfirmed ==
  /\ request.kind = "workflow"
  /\ ConfirmationOutcome(request.draft, request.review) = "confirmed"
  /\ confirmed = [task |-> ConfirmedTask(request.draft, request.review),
                  audit |-> ConfirmationAudit(request.draft, request.review)]

(* What is known of a request at each stage, and of one that has failed.   *)
ProgressInv ==
  /\ request \in Request
  /\ stage \in Stages
  /\ preferences = request.preferences
  /\ stage = "loading" => request.kind = "stored"
  /\ stage \in {"ai_intake", "confirmation"} => request.kind = "workflow"
  /\ stage = "scheduler_mapping" => IsConfirmed
  /\ stage # "failed" => outcome = "none"
  /\ stage \notin {"scheduling_preview", "done"} => placed = {}
  /\ outcome = "unhandled" =>
       /\ request.kind = "workflow"
       /\ ConfirmationOutcome(request.draft, request.review) = "escaped"
  /\ outcome \in DateErrors => IsConfirmed /\ MappingError = outcome

(* The tasks that are scheduled for a request.                             *)
ScheduledTasks ==
  IF request.kind = "workflow"
  THEN [t \in {WorkflowTask} \cup DOMAIN request.tasks |->
          IF t = WorkflowTask THEN MappedTask ELSE request.tasks[t]]
  ELSE [t \in {u \in DOMAIN request.tasks : BelongsInWindow(request.tasks[u])} |->
          request.tasks[t]]

(* What the scheduler's rounds keep.                                       *)
RoundsInv ==
  /\ RoundTypeOK
  /\ BlocksAreFeasible
  /\ NoTaskIsStranded
  /\ GivenUpHaveNoRoom
  /\ AccountedFor

(* A preview is a run of the scheduler on the request's tasks and free     *)
(* time.                                                                   *)
ScheduleInv ==
  stage \in {"scheduling_preview", "done"} =>
    /\ request.kind = "workflow" => IsConfirmed /\ MappingError = "none"
    /\ task = ScheduledTasks
    /\ \A f \in free : Within(f, request.window)
    /\ RoundsInv
    /\ stage = "done" => pending = {}

PreviewInv == ProgressInv /\ ScheduleInv

(* However it begins, scheduling begins with no block and every task whole. *)
LEMMA SchedulingBegins ==
  ASSUME IsRequest(request), preferences = request.preferences, placed = {},
         NEW tasks, DOMAIN tasks \subseteq Task,
         tasks \in [DOMAIN tasks -> SchedulingTask],
         NEW busy, \A b \in busy : IsInterval(b),
         StartScheduling(tasks, busy)
  PROVE  RoundsInv' /\ \A f \in free' : Within(f, request.window)
<1>1. /\ task' = tasks
      /\ free' = FreeIntervals(request.window, Hours, busy)
      /\ remaining' = [t \in DOMAIN tasks |-> tasks[t].duration]
      /\ pending' = {t \in DOMAIN tasks : Valid(t)'}
      /\ preferences' = preferences /\ placed' = {}
  BY DEF StartScheduling
<1>2. IsInterval(request.window) /\ preferences \in SchedulerPreferences
  BY DEF IsRequest
<1>3. IsFreeTime(free')
  BY <1>1, <1>2, HoursAssumption, FreeIntervalsAreFreeTime
<1>4. \A f \in free' : Within(f, request.window)
  BY <1>1, <1>2, HoursAssumption, FreeIntervalsWithin
<1>5. \A t \in DOMAIN tasks : tasks[t].duration \in Nat
  BY DEF SchedulingTask
<1>6. RoundTypeOK'
  <2>1. remaining' \in [DOMAIN tasks -> Nat]
    BY <1>1, <1>5
  <2>2. IsFiniteSet({})
    BY FS_EmptySet
  <2> QED BY <1>1, <1>2, <1>3, <2>1, <2>2 DEF RoundTypeOK, IsFreeTime
<1>7. BlocksAreFeasible'
  BY <1>1 DEF BlocksAreFeasible
<1>8. NoTaskIsStranded'
  BY <1>1 DEF NoTaskIsStranded
<1>9. GivenUpHaveNoRoom'
  BY <1>1 DEF GivenUpHaveNoRoom
<1>10. AccountedFor'
  <2>1. \A t : BlocksOf(t)' = {}
    BY <1>1 DEF BlocksOf
  <2>2. Total({}) = 0
    BY FS_EmptySet, TotalFacts
  <2>3. \A t \in DOMAIN tasks : remaining'[t] + 0 = tasks[t].duration
    BY <1>1, <1>5
  <2>4. \A t : Total(BlocksOf(t))' = Total(BlocksOf(t)')
    BY DEF Total, MapThenSumSet, MapThenFoldSet
  <2> QED BY <1>1, <2>1, <2>2, <2>3, <2>4 DEF AccountedFor
<1> QED BY <1>4, <1>6, <1>7, <1>8, <1>9, <1>10 DEF RoundsInv

LEMMA RoundKeeps ==
  ASSUME RoundsInv, [Round]_vars
  PROVE  RoundsInv'
BY TypeStep, FeasibleStep, StrandedStep, RoomStep, AccountStep DEF RoundsInv

(* apply_review is a function of the draft and the review.                 *)
LEMMA ConfirmationIsPure ==
  ASSUME NEW d, NEW r
  PROVE  /\ ConfirmationOutcome(d, r)' = ConfirmationOutcome(d, r)
         /\ ConfirmedTask(d, r)' = ConfirmedTask(d, r)
         /\ ConfirmationAudit(d, r)' = ConfirmationAudit(d, r)
<1> USE DEF Resolved, StepReview, StepRejected, Surviving, StepValue,
            StepValues, RequestedOrder, FinalOrder, IsEstimate, FIELD_NAMES,
            STEP_PARTS, ConfirmedTask
<1>1. ConfirmedTask(d, r)' = ConfirmedTask(d, r)
  OBVIOUS
<1>2. ConfirmationAudit(d, r)' = ConfirmationAudit(d, r)
  BY DEF ConfirmationAudit, StepDecision
<1>3. IsRefused(d, r)' = IsRefused(d, r)
  BY DEF IsRefused, MissingConfirmation
<1>4. StepEscapes(d, r)' = StepEscapes(d, r)
  BY DEF StepEscapes
<1>5. IsConfirmable(ConfirmedTask(d, r))' = IsConfirmable(ConfirmedTask(d, r))
  BY DEF IsConfirmable, DatesInOrder, StepsFit, StepTotal, MapThenSumSet,
         MapThenFoldSet
<1> QED BY <1>1, <1>2, <1>3, <1>4, <1>5 DEF ConfirmationOutcome
(* What is derived from a request stays as it is while its parts do.       *)
LEMMA DerivedStay ==
  ASSUME UNCHANGED <<request, confirmed, preferences>>
  PROVE  /\ IsConfirmed' <=> IsConfirmed
         /\ MappingError' = MappingError
         /\ ScheduledTasks' = ScheduledTasks
<1>1. \A d, r : /\ ConfirmationOutcome(d, r)' = ConfirmationOutcome(d, r)
                /\ ConfirmedTask(d, r)' = ConfirmedTask(d, r)
                /\ ConfirmationAudit(d, r)' = ConfirmationAudit(d, r)
  BY ConfirmationIsPure
<1>2. IsConfirmed' <=> IsConfirmed
  BY <1>1 DEF IsConfirmed
<1>3. \A name : Field(name)' = Field(name)
  BY DEF Field
<1>4. MappingError' = MappingError
  BY <1>3 DEF MappingError, DeadlineBeforeWindow, EarliestAfterWindow,
              UnsupportedPriority, UnsupportedPreferredTime, PriorityRank
<1>5. MappedTask' = MappedTask
  BY <1>3 DEF MappedTask, PriorityRank, OrElse
<1>6. \A t : BelongsInWindow(t)' <=> BelongsInWindow(t)
  BY DEF BelongsInWindow
<1>7. ScheduledTasks' = ScheduledTasks
  BY <1>5, <1>6 DEF ScheduledTasks
<1> QED BY <1>2, <1>4, <1>7

LEMMA PreviewBegins == PreviewInit => PreviewInv
<1> SUFFICES ASSUME PreviewInit PROVE PreviewInv
  OBVIOUS
<1>1. request \in Request /\ IsRequest(request)
  BY RequestAssumption DEF PreviewInit
<1>2. stage \in {"ai_intake", "loading"} /\ outcome = "none" /\ placed = {}
  BY DEF PreviewInit
<1>3. stage = "loading" => request.kind = "stored"
  BY <1>1 DEF PreviewInit, IsRequest
<1>4. stage = "ai_intake" => request.kind = "workflow"
  BY DEF PreviewInit
<1> QED BY <1>1, <1>2, <1>3, <1>4
     DEF PreviewInit, PreviewInv, ProgressInv, ScheduleInv, Stages, DateErrors

(* No step of a request leaves the invariant.                              *)
LEMMA PreviewStep ==
  ASSUME PreviewInv, [PreviewNext]_<<workflowVars, schedulerVars>>
  PROVE  PreviewInv'
<1>1. IsRequest(request)
  BY RequestAssumption DEF PreviewInv, ProgressInv
<1>2. request' = request /\ preferences' = preferences
  BY DEF PreviewNext, AIAnswers, AIFails, Confirm, ConfirmFails, MapTask,
         MappingFails, LoadTasks, Schedule, Respond, Fail, StartScheduling,
         Place, GiveUp, workflowVars, schedulerVars
<1>3. CASE AIAnswers
  BY <1>2, <1>3 DEF AIAnswers, PreviewInv, ProgressInv, ScheduleInv, Stages,
                    DateErrors, schedulerVars
<1>4. CASE AIFails
  BY <1>2, <1>4 DEF AIFails, Fail, PreviewInv, ProgressInv, ScheduleInv, Stages,
                    DateErrors, schedulerVars
<1>5. CASE Confirm
  <2>1. IsConfirmed'
    BY <1>2, <1>5, ConfirmationIsPure
       DEF Confirm, IsConfirmed, PreviewInv, ProgressInv
  <2> QED BY <1>2, <1>5, <2>1
          DEF Confirm, PreviewInv, ProgressInv, ScheduleInv, Stages, DateErrors,
              schedulerVars
<1>6. CASE ConfirmFails
  <2>1. /\ stage' = "failed" /\ outcome' \in {"confirmation_failed", "unhandled"}
        /\ placed' = placed /\ stage = "confirmation"
    BY <1>6 DEF ConfirmFails, Fail, schedulerVars
  <2>2. outcome' = "unhandled" =>
          (ConfirmationOutcome(request.draft, request.review) = "escaped")'
    BY <1>2, <1>6, ConfirmationIsPure DEF ConfirmFails, Fail
  <2> QED BY <1>2, <2>1, <2>2
          DEF PreviewInv, ProgressInv, ScheduleInv, Stages, DateErrors
<1>7. CASE MapTask
  <2> DEFINE tasks == [t \in {WorkflowTask} \cup DOMAIN request.tasks |->
                         IF t = WorkflowTask THEN MappedTask
                         ELSE request.tasks[t]]
  <2>1. /\ stage = "scheduler_mapping" /\ MappingError = "none"
        /\ StartScheduling(tasks, request.busy)
    BY <1>7 DEF MapTask
  <2>2. IsConfirmed /\ placed = {} /\ preferences = request.preferences
    BY <2>1 DEF PreviewInv, ProgressInv
  <2>3. MappedTask \in SchedulingTask
    BY <1>1, <2>1, <2>2, MappedTaskType DEF IsConfirmed
  <2>4. /\ DOMAIN tasks \subseteq Task
        /\ tasks \in [DOMAIN tasks -> SchedulingTask]
    BY <1>1, <2>3, WorkflowTaskAssumption DEF IsRequest
  <2>5. \A b \in request.busy : IsInterval(b)
    BY <1>1 DEF IsRequest
  <2>6. tasks = ScheduledTasks
    BY <2>2 DEF ScheduledTasks, IsConfirmed
  <2> HIDE DEF tasks
  <2>7. RoundsInv' /\ \A f \in free' : Within(f, request.window)
    BY <1>1, <2>1, <2>2, <2>4, <2>5, SchedulingBegins
  <2>8. /\ task' = tasks /\ stage' = "scheduling_preview"
        /\ UNCHANGED <<confirmed, outcome, placed>>
    BY <2>1 DEF StartScheduling
  <2>9. IsConfirmed' /\ MappingError' = "none" /\ task' = ScheduledTasks'
    BY <1>2, <2>1, <2>2, <2>6, <2>8, DerivedStay
  <2>10. ScheduleInv'
    BY <1>2, <2>7, <2>8, <2>9 DEF ScheduleInv, Within
  <2>11. ProgressInv'
    BY <1>2, <2>1, <2>8 DEF PreviewInv, ProgressInv, Stages, DateErrors
  <2> QED BY <2>10, <2>11 DEF PreviewInv
<1>8. CASE MappingFails
  <2>1. /\ stage = "scheduler_mapping" /\ stage' = "failed"
        /\ outcome' = MappingError
        /\ UNCHANGED <<confirmed, placed>>
    BY <1>8 DEF MappingFails, Fail, schedulerVars
  <2>2. IsConfirmed' /\ MappingError' = MappingError
    BY <1>2, <2>1, DerivedStay DEF PreviewInv, ProgressInv
  <2>3. MappingError # "unhandled"
    BY DEF MappingError
  <2> QED BY <1>2, <2>1, <2>2, <2>3
          DEF PreviewInv, ProgressInv, ScheduleInv, Stages
<1>9. CASE LoadTasks
  <2> DEFINE tasks == [t \in {u \in DOMAIN request.tasks :
                                BelongsInWindow(request.tasks[u])} |->
                         request.tasks[t]]
             busy == request.busy \cup request.reserved
  <2>1. /\ stage = "loading"
        /\ StartScheduling(tasks, busy)
    BY <1>9 DEF LoadTasks
  <2>2. /\ request.kind = "stored" /\ placed = {}
        /\ preferences = request.preferences
    BY <2>1 DEF PreviewInv, ProgressInv
  <2>3. /\ DOMAIN tasks \subseteq Task
        /\ tasks \in [DOMAIN tasks -> SchedulingTask]
    BY <1>1 DEF IsRequest
  <2>4. \A b \in busy : IsInterval(b)
    BY <1>1 DEF IsRequest
  <2>5. tasks = ScheduledTasks
    BY <2>2 DEF ScheduledTasks
  <2> HIDE DEF tasks, busy
  <2>6. RoundsInv' /\ \A f \in free' : Within(f, request.window)
    BY <1>1, <2>1, <2>2, <2>3, <2>4, SchedulingBegins
  <2>7. /\ task' = tasks /\ stage' = "scheduling_preview"
        /\ UNCHANGED <<confirmed, outcome, placed>>
    BY <2>1 DEF StartScheduling
  <2>8. task' = ScheduledTasks'
    BY <1>2, <2>5, <2>7, DerivedStay
  <2>9. ScheduleInv'
    BY <1>2, <2>2, <2>6, <2>7, <2>8 DEF ScheduleInv, Within
  <2>10. ProgressInv'
    BY <1>2, <2>1, <2>7 DEF PreviewInv, ProgressInv, Stages, DateErrors
  <2> QED BY <2>9, <2>10 DEF PreviewInv
<1>10. CASE Schedule
  <2>1. /\ stage = "scheduling_preview" /\ stage' = stage
        /\ UNCHANGED <<confirmed, outcome>>
    BY <1>10 DEF Schedule, workflowVars
  <2>2. RoundsInv
    BY <2>1 DEF PreviewInv, ScheduleInv
  <2>3. Round
    BY <1>10, <2>2 DEF Schedule, Round, RoundsInv, RoundTypeOK
  <2>4. RoundsInv'
    BY <2>2, <2>3, RoundKeeps
  <2>5. UNCHANGED <<task, free>>
    BY <1>10 DEF Schedule, Place, GiveUp
  <2>6. ScheduleInv'
    BY <1>2, <2>1, <2>4, <2>5, DerivedStay
       DEF PreviewInv, ScheduleInv, Within
  <2>7. ProgressInv'
    BY <1>2, <2>1 DEF PreviewInv, ProgressInv, Stages, DateErrors
  <2> QED BY <2>6, <2>7 DEF PreviewInv
<1>11. CASE Respond \/ UNCHANGED <<workflowVars, schedulerVars>>
  <2>1. /\ UNCHANGED <<confirmed, outcome>> /\ UNCHANGED vars
        /\ \/ stage' = stage
           \/ stage = "scheduling_preview" /\ stage' = "done" /\ pending = {}
    BY <1>11 DEF Respond, workflowVars, schedulerVars, vars
  <2>2. RoundsInv => RoundsInv'
    BY <2>1, RoundKeeps
  <2>3. ScheduleInv'
    BY <1>2, <2>1, <2>2, DerivedStay
       DEF PreviewInv, ScheduleInv, Within, vars
  <2>4. ProgressInv'
    BY <1>2, <2>1, DerivedStay DEF PreviewInv, ProgressInv, Stages, DateErrors, vars
  <2> QED BY <2>3, <2>4 DEF PreviewInv
<1> QED BY <1>3, <1>4, <1>5, <1>6, <1>7, <1>8, <1>9, <1>10, <1>11
        DEF PreviewNext

LEMMA PreviewInvariant == PreviewSpec => []PreviewInv
BY PreviewBegins, PreviewStep, PTL DEF PreviewSpec

-----------------------------------------------------------------------------
LEMMA ConfirmedIsNotRefused ==
  ASSUME NEW draft, NEW review, ConfirmationOutcome(draft, review) = "confirmed"
  PROVE  ~ IsRefused(draft, review)
BY DEF ConfirmationOutcome

(* For any draft and review: in the mode reject_unreviewed_estimates the   *)
(* estimates that the review does not speak of decide neither what becomes *)
(* of the draft nor any part of the confirmed task.                        *)
THEOREM UnreviewedEstimatesDontCount == PreviewSpec => []EstimatesAreDropped
<1>1. PreviewInv => EstimatesAreDropped
  <2> SUFFICES ASSUME PreviewInv, stage = "confirmation",
                      request.review.mode = "reject_unreviewed_estimates"
               PROVE  EstimatesAreDropped
    BY DEF EstimatesAreDropped
  <2>1. IsDraft(request.draft) /\ IsReview(request.review)
    BY RequestAssumption DEF PreviewInv, ProgressInv, IsRequest
  <2>2. ConfirmationOutcome(request.draft, request.review)
          = ConfirmationOutcome(WithoutEstimates(request.draft, request.review),
                                request.review)
    BY <2>1, WithheldOutcome
  <2>3. ConfirmationOutcome(request.draft, request.review) = "confirmed" =>
          ConfirmedTask(request.draft, request.review)
            = ConfirmedTask(WithoutEstimates(request.draft, request.review),
                            request.review)
    BY <2>1, ConfirmedIsNotRefused, WithheldTask
  <2> QED BY <2>2, <2>3 DEF EstimatesAreDropped
<1> QED BY <1>1, PreviewInvariant, PTL

(* What the audit says of a step.                                          *)
LEMMA AuditedSteps ==
  ASSUME NEW draft, NEW review, IsDraft(draft), IsReview(review),
         ~ IsRefused(draft, review), NEW i \in DOMAIN draft.steps
  PROVE  LET a == ConfirmationAudit(draft, review).steps[i] IN
         /\ a.decision # "rejected" <=> i \in Surviving(draft, review)
         /\ i \in Surviving(draft, review) =>
              /\ a.order = FinalOrder(draft, review, i)
              /\ a.confirmed = StepValues(draft, review, i)
              /\ a.decision = "accepted" =>
                   \A part \in {"title", "duration"} :
                     a.confirmed[part] = draft.steps[i][part].value
<1> DEFINE a == ConfirmationAudit(draft, review).steps[i]
           r == StepReview(review, i)
           kept == i \in Surviving(draft, review)
<1>1. /\ a.decision = IF StepRejected(review, i) THEN "rejected"
                      ELSE StepDecision(draft, review, i)
      /\ a.order = IF StepRejected(review, i) THEN None
                   ELSE FinalOrder(draft, review, i)
      /\ a.confirmed = IF StepRejected(review, i) THEN None
                       ELSE StepValues(draft, review, i)
  BY DEF ConfirmationAudit
<1>2. kept <=> ~ StepRejected(review, i)
  BY DEF Surviving
<1>3. r # NoReview => IsStepReview(r)
  <2> SUFFICES ASSUME r # NoReview PROVE IsStepReview(r)
    OBVIOUS
  <2>1. PICK j \in DOMAIN review.steps : r = review.steps[j]
    BY DEF StepReview
  <2> QED BY <2>1 DEF IsReview
<1>4. ~ StepRejected(review, i) => StepDecision(draft, review, i) # "rejected"
  <2>1. CASE r = NoReview
    BY <2>1 DEF StepDecision
  <2>2. CASE r # NoReview
    BY <2>2 DEF StepDecision, StepRejected
  <2> QED BY <2>1, <2>2
<1>5. ASSUME kept, StepDecision(draft, review, i) = "accepted",
             NEW part \in {"title", "duration"}
      PROVE  StepValue(draft, review, i, part) = draft.steps[i][part].value
  <2>1. CASE r # NoReview
    <3>1. r.decision = "accepted"
      BY <1>5, <2>1 DEF StepDecision
    <3>2. r.values[part] = None
      BY <1>3, <2>1, <3>1 DEF IsStepReview, STEP_PARTS
    <3> QED BY <2>1, <3>2 DEF StepValue
  <2>2. CASE r = NoReview /\ part = "title"
    <3>1. StepValue(draft, review, i, "title") # None
      BY <1>5 DEF IsRefused
    <3> QED BY <2>2, <3>1 DEF StepValue
  <2>3. CASE r = NoReview /\ part = "duration"
    <3> DEFINE v == draft.steps[i]["duration"]
    <3>1. v.value = None \/ StepValue(draft, review, i, "duration") # None
      BY <1>5, <2>3 DEF StepDecision
    <3>2. StepValue(draft, review, i, "duration") \in {None, v.value}
      BY <2>3 DEF StepValue
    <3> QED BY <2>3, <3>1, <3>2
  <2> QED BY <2>1, <2>2, <2>3
<1>6. kept => \A part \in STEP_PARTS :
                StepValues(draft, review, i)[part] = StepValue(draft, review, i, part)
  BY DEF StepValues
<1> HIDE DEF a
<1>7. kept /\ a.decision = "accepted" =>
        \A part \in {"title", "duration"} :
          a.confirmed[part] = draft.steps[i][part].value
  BY <1>1, <1>2, <1>5, <1>6 DEF STEP_PARTS
<1> QED BY <1>1, <1>2, <1>4, <1>7 DEF a

(* For any draft and review: the audit alone tells what became of the      *)
(* draft, field by field and step by step.                                 *)
THEOREM AuditTellsAll == PreviewSpec => []AuditExplainsTask
<1>1. PreviewInv => AuditExplainsTask
  <2> SUFFICES ASSUME PreviewInv, stage = "scheduler_mapping"
               PROVE  AuditExplainsTask
    BY DEF AuditExplainsTask
  <2> DEFINE draft == request.draft
             review == request.review
             fields == confirmed.audit.fields
             steps == confirmed.audit.steps
             kept == {i \in DOMAIN steps : steps[i].decision # "rejected"}
             survivors == Surviving(draft, review)
             order(i) == FinalOrder(draft, review, i)
  <2>1. IsConfirmed
    BY DEF PreviewInv, ProgressInv
  <2>2. IsDraft(draft) /\ IsReview(review) /\ ~ IsRefused(draft, review)
    BY <2>1, RequestAssumption, ConfirmedIsNotRefused
       DEF IsConfirmed, PreviewInv, ProgressInv, IsRequest
  <2>3. /\ confirmed.task = ConfirmedTask(draft, review)
        /\ fields = ConfirmationAudit(draft, review).fields
        /\ steps = ConfirmationAudit(draft, review).steps
    BY <2>1 DEF IsConfirmed
  <2>4. ASSUME NEW name \in FIELD_NAMES
        PROVE  /\ Field(name) = fields[name].confirmed
               /\ fields[name].decision = "accepted" =>
                    \/ fields[name].confirmed = fields[name].original
                    \/ name = "is_splittable" /\ fields[name].original = None
    <3> DEFINE v == Resolved(draft, review, name)
    <3>1. /\ fields[name].decision = v.decision
          /\ fields[name].original = draft.fields[name].value
          /\ fields[name].confirmed = ConfirmedTask(draft, review).fields[name]
      BY <2>3 DEF ConfirmationAudit
    <3>2. ConfirmedTask(draft, review).fields[name]
            = IF name = "is_splittable" /\ v.value = None THEN FALSE ELSE v.value
      BY DEF ConfirmedTask
    <3>3. v.decision = "accepted" => v.value = draft.fields[name].value
      BY <2>2, ResolvedFacts
    <3> HIDE DEF v
    <3> QED BY <2>3, <3>1, <3>2, <3>3 DEF Field
  <2>5. DOMAIN steps = DOMAIN draft.steps
    BY <2>3 DEF ConfirmationAudit
  <2>6. ASSUME NEW i \in DOMAIN draft.steps
        PROVE  /\ steps[i].decision # "rejected" <=> i \in survivors
               /\ i \in survivors =>
                    /\ steps[i].order = order(i)
                    /\ steps[i].confirmed = StepValues(draft, review, i)
                    /\ steps[i].decision = "accepted" =>
                         \A part \in {"title", "duration"} :
                           steps[i].confirmed[part] = draft.steps[i][part].value
    BY <2>2, <2>3, AuditedSteps
  <2>7. kept = survivors
    <3>1. survivors \subseteq DOMAIN draft.steps
      BY DEF Surviving
    <3> HIDE DEF survivors, steps, order
    <3> QED BY <2>5, <2>6, <3>1
  <2>8. /\ Cardinality(survivors) \in Nat
        /\ Len(confirmed.task.steps) = Cardinality(survivors)
        /\ \A i \in survivors :
             /\ order(i) \in DOMAIN confirmed.task.steps
             /\ confirmed.task.steps[order(i)] = StepValues(draft, review, i)
        /\ \A o \in DOMAIN confirmed.task.steps : \E i \in survivors : order(i) = o
    BY <2>2, <2>3, ConfirmedSteps
  <2>9. \A i, j \in survivors :
          RequestedOrder(review, i) < RequestedOrder(review, j)
            => order(i) < order(j)
    BY <2>2, StepsAreNumbered
  <2> HIDE DEF survivors, order, steps, fields
  <2>10. \A i \in kept :
           /\ i \in survivors
           /\ steps[i].order = order(i)
           /\ steps[i].confirmed = StepValues(draft, review, i)
           /\ steps[i].decision = "accepted" =>
                \A part \in {"title", "duration"} :
                  steps[i].confirmed[part] = draft.steps[i][part].value
    BY <2>5, <2>6, <2>7
  <2>11. {steps[i].order : i \in kept} = DOMAIN confirmed.task.steps
    <3> HIDE DEF kept
    <3>1. ASSUME NEW o \in DOMAIN confirmed.task.steps
          PROVE  \E i \in kept : steps[i].order = o
      BY <2>7, <2>8, <2>10
    <3>2. \A i \in kept : steps[i].order \in DOMAIN confirmed.task.steps
      BY <2>7, <2>8, <2>10
    <3> QED BY <3>1, <3>2
  <2>12. Cardinality(kept) = Len(confirmed.task.steps)
    BY <2>7, <2>8
  <2>13. \A i \in kept :
           /\ confirmed.task.steps[steps[i].order] = steps[i].confirmed
           /\ steps[i].decision = "accepted" =>
                \A part \in {"title", "duration"} :
                  steps[i].confirmed[part] = request.draft.steps[i][part].value
    <3> HIDE DEF kept
    <3> QED BY <2>8, <2>10
  <2>14. \A i, j \in kept :
           RequestedOrder(request.review, i) < RequestedOrder(request.review, j)
             => steps[i].order < steps[j].order
    <3> HIDE DEF kept
    <3> QED BY <2>9, <2>10
  <2>15. DOMAIN steps = DOMAIN request.draft.steps
    BY <2>5
  <2> QED BY <2>4, <2>11, <2>12, <2>13, <2>14, <2>15
          DEF AuditExplainsTask, fields, steps
<1> QED BY <1>1, PreviewInvariant, PTL

-----------------------------------------------------------------------------
(* What a confirmed field says, and what the user has said of it.          *)
LEMMA ConfirmedField ==
  ASSUME IsRequest(request), IsConfirmed, NEW name \in FIELD_NAMES
  PROVE  /\ name # "is_splittable" => Field(name) \in Values(name) \cup {None}
         /\ Stated(name) # None =>
              Field(name) = Stated(name) /\ Stated(name) \in Values(name)
<1> DEFINE d == Resolved(request.draft, request.review, name)
           r == request.review.fields[name]
<1>1. IsDraft(request.draft) /\ IsReview(request.review)
  BY DEF IsRequest, IsConfirmed
<1>2. Field(name) = IF name = "is_splittable" /\ d.value = None
                    THEN FALSE ELSE d.value
  BY DEF Field, IsConfirmed, ConfirmedTask
<1>3. /\ d.value \in Values(name) \cup {None}
      /\ r # NoReview =>
           /\ r.decision = "accepted" => d.value = request.draft.fields[name].value
           /\ r.decision = "edited" => d.value = r.value
  BY <1>1, ResolvedFacts
<1>4. r # NoReview => r.decision \in {"accepted", "edited", "rejected"}
  BY <1>1 DEF IsReview, IsFieldReview
<1>5. Stated(name) # None => Stated(name) = d.value
  BY <1>3, <1>4 DEF Stated
<1> HIDE DEF d
<1> QED BY <1>2, <1>3, <1>5

(* For any requests: a date is refused, and a stored task left out, only   *)
(* if it leaves no place in the window.                                    *)
THEOREM RefusalsAreJustified == PreviewSpec => []RefusalsAreRight
<1>1. PreviewInv => RefusalsAreRight
  <2> SUFFICES ASSUME PreviewInv PROVE RefusalsAreRight
    OBVIOUS
  <2>1. IsRequest(request)
    BY RequestAssumption DEF PreviewInv, ProgressInv
  <2>2. request.window[1] \in Int /\ request.window[2] \in Int
    BY <2>1 DEF IsRequest, IsInterval
  <2>3. NoTime \notin Int /\ None \notin Int
    BY NoTimeAssumption, NoneAssumption
  <2>4. ASSUME outcome \in DateErrors
        PROVE  ~ HasPlace(Field("earliest_start"), Field("deadline"))
    <3>1. IsConfirmed /\ MappingError = outcome
      BY <2>4 DEF PreviewInv, ProgressInv
    <3>2. DeadlineBeforeWindow \/ EarliestAfterWindow
      BY <2>4, <3>1 DEF MappingError, DateErrors
    <3>3. /\ Field("earliest_start") \in Int \cup {None}
          /\ Field("deadline") \in Int \cup {None}
      BY <2>1, <3>1, ConfirmedField DEF FIELD_NAMES, Values, STRING_FIELDS
    <3>4. CASE DeadlineBeforeWindow
      <4>1. Field("deadline") \in Int /\ Field("deadline") < request.window[1]
        BY <3>3, <3>4 DEF DeadlineBeforeWindow
      <4> QED BY <2>2, <2>3, <4>1 DEF HasPlace
    <3>5. CASE EarliestAfterWindow
      <4>1. /\ Field("earliest_start") \in Int
            /\ Field("earliest_start") > request.window[2]
        BY <3>3, <3>5 DEF EarliestAfterWindow
      <4> QED BY <2>2, <2>3, <4>1 DEF HasPlace
    <3> QED BY <3>2, <3>4, <3>5
  <2>5. ASSUME stage = "done", NEW t \in DOMAIN request.tasks \ DOMAIN task
        PROVE  ~ HasPlace(request.tasks[t].earliest, request.tasks[t].deadline)
    <3> DEFINE e == request.tasks[t].earliest
               d == request.tasks[t].deadline
    <3>1. task = ScheduledTasks
      BY <2>5 DEF PreviewInv, ScheduleInv
    <3>2. ~ BelongsInWindow(request.tasks[t])
      BY <3>1 DEF ScheduledTasks
    <3>3. e \in Int \cup {NoTime} /\ d \in Int \cup {NoTime}
      BY <2>1 DEF IsRequest, SchedulingTask
    <3>4. \/ e \in Int /\ e >= request.window[2]
          \/ d \in Int /\ d <= request.window[1]
      BY <2>2, <3>2, <3>3 DEF BelongsInWindow
    <3> HIDE DEF e, d
    <3>5. ~ HasPlace(e, d)
      BY <2>2, <2>3, <3>3, <3>4 DEF HasPlace
    <3> QED BY <3>5 DEF e, d
  <2> QED BY <2>4, <2>5 DEF RefusalsAreRight, DateErrors
<1> QED BY <1>1, PreviewInvariant, PTL

(* For any requests: from the draft through review, mapping and scheduler  *)
(* nothing is lost or mixed up.                                            *)
THEOREM PreviewsHonourReviews == PreviewSpec => []PreviewHonoursReview
<1>1. PreviewInv => PreviewHonoursReview
  <2> SUFFICES ASSUME PreviewInv, stage = "done", request.kind = "workflow"
               PROVE  PreviewHonoursReview
    BY DEF PreviewHonoursReview
  <2> DEFINE blocks == BlocksOf(WorkflowTask)
             t == task[WorkflowTask]
  <2>1. IsRequest(request)
    BY RequestAssumption DEF PreviewInv, ProgressInv
  <2>2. /\ IsConfirmed /\ task = ScheduledTasks
        /\ \A f \in free : Within(f, request.window)
        /\ RoundsInv
    BY DEF PreviewInv, ScheduleInv
  <2>3. WorkflowTask \in DOMAIN task /\ t = MappedTask
    BY <2>2 DEF ScheduledTasks
  <2>4. \A name \in FIELD_NAMES : Stated(name) # None =>
          Field(name) = Stated(name) /\ Stated(name) \in Values(name)
    BY <2>1, <2>2, ConfirmedField
  <2>5. /\ request.window[1] \in Int /\ request.window[2] \in Int
        /\ None \notin Int /\ NoTime \notin Int /\ FALSE # None
    BY <2>1, NoneAssumption, NoTimeAssumption DEF IsRequest, IsInterval
  <2>6. ASSUME NEW at \in blocks
        PROVE  /\ Within(at, request.window)
               /\ Stated("deadline") # None => at[2] <= Stated("deadline")
               /\ Stated("earliest_start") # None => Stated("earliest_start") <= at[1]
    <3>1. PICK b \in placed : b.task = WorkflowTask /\ b.at = at
      BY DEF BlocksOf
    <3>2. Admissible(WorkflowTask, at) /\ IsInterval(at)
      BY <2>2, <3>1 DEF RoundsInv, BlocksAreFeasible, RoundTypeOK
    <3>3. PICK f \in free : Within(at, f)
      BY <3>2 DEF Admissible
    <3>4. IsInterval(f) /\ Within(f, request.window)
      BY <2>2 DEF RoundsInv, RoundTypeOK, IsFreeTime
    <3>5. Within(at, request.window)
      BY <2>5, <3>2, <3>3, <3>4 DEF Within, IsInterval
    <3>6. ASSUME Stated("deadline") # None PROVE at[2] <= Stated("deadline")
      <4>1. Field("deadline") = Stated("deadline") /\ Field("deadline") \in Int
        BY <2>4, <3>6 DEF FIELD_NAMES, Values, STRING_FIELDS
      <4>2. t.deadline = Field("deadline")
        BY <2>3, <2>5, <4>1 DEF MappedTask, OrElse
      <4> QED BY <2>5, <3>2, <4>1, <4>2 DEF Admissible
    <3>7. ASSUME Stated("earliest_start") # None
          PROVE  Stated("earliest_start") <= at[1]
      <4>1. /\ Field("earliest_start") = Stated("earliest_start")
            /\ Field("earliest_start") \in Int
        BY <2>4, <3>7 DEF FIELD_NAMES, Values, STRING_FIELDS
      <4>2. t.earliest = Field("earliest_start")
        BY <2>3, <2>5, <4>1 DEF MappedTask, OrElse
      <4> QED BY <2>5, <3>2, <4>1, <4>2 DEF Admissible
    <3> QED BY <3>5, <3>6, <3>7
  <2>7. ASSUME Stated("is_splittable") = FALSE
        PROVE  Cardinality(blocks) <= 1
    <3>1. ~ t.splittable
      <4>1. Stated("is_splittable") # None /\ "is_splittable" \in FIELD_NAMES
        BY <2>5, <2>7 DEF FIELD_NAMES
      <4>2. Field("is_splittable") = FALSE
        BY <2>4, <2>7, <4>1
      <4>3. t.splittable = Field("is_splittable")
        BY <2>3 DEF MappedTask
      <4> QED BY <4>2, <4>3
    <3>2. blocks = {} \/ \E at : blocks = {at}
      BY <2>2, <2>3, <3>1 DEF RoundsInv, AccountedFor
    <3> HIDE DEF blocks
    <3>3. Cardinality(blocks) \in {0, 1}
      BY <3>2, FS_EmptySet, FS_Singleton
    <3> QED BY <3>3
  <2>8. ASSUME Stated("duration") # None
        PROVE  remaining[WorkflowTask] + MapThenSumSet(Minutes, blocks)
                 = Stated("duration")
    <3>1. t.duration = Stated("duration")
      BY <2>3, <2>4, <2>8 DEF MappedTask, FIELD_NAMES
    <3>2. remaining[WorkflowTask] + Total(blocks) = t.duration
      BY <2>2, <2>3 DEF RoundsInv, AccountedFor
    <3> QED BY <3>1, <3>2 DEF Total
  <2> QED BY <2>6, <2>7, <2>8 DEF PreviewHonoursReview, BlocksOf
<1> QED BY <1>1, PreviewInvariant, PTL

(* The scheduler's promises hold of every preview, whatever its request:   *)
(* its blocks are feasible, and a valid task has minutes left only if no   *)
(* block it may have fits anywhere.                                        *)
THEOREM ResponsesAreSchedules ==
  PreviewSpec => [](stage = "done" =>
                      /\ BlocksAreFeasible
                      /\ \A t \in DOMAIN task :
                           Valid(t) /\ remaining[t] > 0 => NoRoom(t))
<1>1. PreviewInv => (stage = "done" =>
                       /\ BlocksAreFeasible
                       /\ \A t \in DOMAIN task :
                            Valid(t) /\ remaining[t] > 0 => NoRoom(t))
  BY DEF PreviewInv, ScheduleInv, RoundsInv, GivenUpHaveNoRoom
<1> QED BY <1>1, PreviewInvariant, PTL
=============================================================================
