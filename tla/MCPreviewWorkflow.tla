---------------------------- MODULE MCPreviewWorkflow ----------------------------
(***************************************************************************)
(* Small previews: drafts, reviews and stored tasks over two short days.   *)
(***************************************************************************)
EXTENDS PreviewWorkflow

Texts ==
  {"title", "long", "huge", "blank", "new", "note", "a", "b", "c", "urgent",
   "afternoon", "unsupported"}

TimeWindows ==
  [any |-> NoPreference, morning |-> <<1, 4>>, afternoon |-> <<4, 6>>,
   evening |-> <<6, 7>>]

TwoDays == [d \in {0, 1} |-> IF d = 0 THEN {<<1, 3>>, <<4, 7>>} ELSE {<<0, 4>>}]

Nothing == [value |-> None, source |-> None, requires_confirmation |-> FALSE]
User(v) == [value |-> v, source |-> "user", requires_confirmation |-> FALSE]
Guess(v, source) == [value |-> v, source |-> source, requires_confirmation |-> TRUE]
Sure(v, source) == [value |-> v, source |-> source, requires_confirmation |-> FALSE]

Accepted == [decision |-> "accepted", value |-> None]
Rejected == [decision |-> "rejected", value |-> None]
Edited(v) == [decision |-> "edited", value |-> v]

FieldsOf(f) ==
  [name \in FIELD_NAMES |->
     IF name \in DOMAIN f THEN f[name]
     ELSE IF name = "title" THEN User("title") ELSE Nothing]

ReviewsOf(f) ==
  [name \in FIELD_NAMES |-> IF name \in DOMAIN f THEN f[name] ELSE NoReview]

-----------------------------------------------------------------------------
(* Drafts without steps: what the AI and the user say of dates, duration   *)
(* and splitting.                                                          *)
FieldDrafts ==
  [fields : {FieldsOf(f) :
     f \in [duration : {User(2), Guess(3, "estimated"), Nothing},
            earliest_start : {Nothing, User(9)},
            deadline : {Nothing, Guess(6, "inferred"), Sure(10, "default")},
            is_splittable : {Nothing, Sure(TRUE, "estimated")}]},
   steps : {<<>>}]

FieldReviews ==
  [fields : {ReviewsOf(f) :
     f \in [duration : {NoReview, Accepted, Edited(4)},
            earliest_start : {NoReview, Rejected, Edited(3)},
            deadline : {NoReview, Accepted, Rejected, Edited(2)},
            is_splittable : {NoReview, Edited(FALSE)}]},
   steps : {<<>>}, mode : ReviewMode]

(* Drafts and reviews of the other fields.                                 *)
OtherDrafts ==
  [fields : {FieldsOf(f) :
     f \in [duration : {User(2)}, title : {User("title"), User("long")},
            priority : {Nothing, Sure("urgent", "default")},
            minimum_session_minutes : {Nothing, Guess(1, "default")}]},
   steps : {<<>>}]

OtherReviews ==
  [fields : {ReviewsOf(f) :
     f \in [title : {NoReview, Rejected, Edited("blank"), Edited("new")},
            priority : {NoReview, Rejected, Edited("unsupported")},
            preferred_time_of_day : {NoReview, Edited("unsupported"),
                                     Edited("afternoon")},
            description : {NoReview, Edited("huge")}]},
   steps : {<<>>}, mode : ReviewMode]

(* Drafts with steps, and reviews that edit, reject, move and confuse them. *)
Step(title, description, duration) ==
  [part \in STEP_PARTS |-> CASE part = "title"       -> title
                             [] part = "description" -> description
                             [] part = "duration"    -> duration]

Steps ==
  {Step(User("a"), Guess("note", "estimated"), Sure(1, "estimated")),
   Step(User("b"), Nothing, Sure(2, "user")),
   Step(Sure("c", "estimated"), Nothing, Nothing)}

ThreeSteps == {s \in [1 .. 3 -> Steps] : Cardinality({s[1], s[2], s[3]}) = 3}

LongStep == <<Step(User("long"), Nothing, Nothing)>>

EditsOf(f) == [part \in STEP_PARTS |-> IF part \in DOMAIN f THEN f[part] ELSE None]

PlainReviews ==
  [original_order : {1, 2}, decision : {"accepted", "rejected"},
   values : {EditsOf(<<>>)}, new_order : {None}]

EditReviews ==
  [original_order : {1, 3}, decision : {"edited"},
   values : {EditsOf(<<>>), EditsOf([duration |-> 5]),
             EditsOf([title |-> "long"]), EditsOf([description |-> "huge"])},
   new_order : {None, 2, 4}]

StepDrafts ==
  [fields : {FieldsOf([duration |-> User(2), is_splittable |-> User(s)]) :
               s \in BOOLEAN},
   steps : [1 .. 2 -> Steps] \cup ThreeSteps \cup {LongStep}]

StepsReviews ==
  [fields : {ReviewsOf(<<>>)},
   steps : {<<>>} \cup {<<r>> : r \in PlainReviews \cup EditReviews}
           \cup {<<r, q>> : r \in EditReviews, q \in PlainReviews}
           \cup {<<r, r>> : r \in EditReviews},
   mode : ReviewMode]

-----------------------------------------------------------------------------
PendingTask(priority, earliest, deadline, splittable) ==
  [duration |-> 2, priority |-> priority, earliest |-> earliest,
   deadline |-> deadline, preferred |-> NoPreference, splittable |-> splittable,
   minimum |-> 1, maxPerDay |-> 1]

PendingTasks ==
  {<<>>, [t \in {2} |-> PendingTask(1, NoTime, 7, FALSE)]}

Pref ==
  [break |-> 1, cutoff |-> NoTime, minimum |-> 1, preferred |-> NoPreference]

Workflows(drafts, reviews, windows, tasks) ==
  [kind : {"workflow"}, draft : {d \in drafts : IsDraft(d)},
   review : {r \in reviews : IsReview(r)}, window : windows,
   busy : {{<<4, 5>>}}, reserved : {{}}, tasks : tasks, preferences : {Pref}]

Stored ==
  [kind : {"stored"}, draft : {None}, review : {None},
   window : {<<0, 16>>, <<2, 9>>}, busy : {{}, {<<4, 5>>}},
   reserved : {{}, {<<1, 2>>, <<8, 9>>}},
   tasks : [{1, 2} -> {t \in {PendingTask(p, e, d, s) :
                                p \in {1, 2}, e \in {NoTime, 8, 9},
                                d \in {NoTime, 2, 10}, s \in BOOLEAN} : IsTask(t)}],
   preferences : {Pref}]

Requests ==
  Workflows(FieldDrafts, FieldReviews, {<<0, 16>>, <<3, 8>>}, PendingTasks)
  \cup Workflows(OtherDrafts, OtherReviews, {<<0, 16>>}, {<<>>})
  \cup Workflows(StepDrafts, StepsReviews, {<<0, 16>>}, {<<>>})
  \cup Stored

NoTasks == {}
=============================================================================
