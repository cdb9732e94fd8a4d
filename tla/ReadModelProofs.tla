---------------------------- MODULE ReadModelProofs ----------------------------
(***************************************************************************)
(* Proofs about what the planner page and the day view show, for every     *)
(* value of the constants.  A reader relies on the plan subsystem for two  *)
(* things only: that rows agree whenever they are read (ApplyInv), and     *)
(* that they move on between two reads as PlanLifecycle says (RowsMoveOn). *)
(***************************************************************************)
EXTENDS ReadModelSystem, PlanLifecycleProofs

(* No row goes back: not to a draft, not from what apply made of it, and   *)
(* what is in the calendar or mapped is so for good.                       *)
RowMovesOn(p) ==
  /\ mapped[p] \subseteq mapped'[p]
  /\ event[p] \subseteq event'[p]
  /\ status[p] \notin {"absent", "proposed"} => status'[p] \notin {"absent", "proposed"}
  /\ status[p] \in Published \cup {"failed"} => status'[p] \in Published \cup {"failed"}
  /\ status[p] = "applied" => status'[p] = "applied"

RowsMoveOn == \A p \in Plan : RowMovesOn(p)

LEMMA LifecycleMovesOn ==
  ASSUME ApplyInv, Lifecycle!Next \/ UNCHANGED Lifecycle!vars, NEW p \in Plan
  PROVE  /\ mapped[p] \subseteq mapped'[p]
         /\ status[p] \notin {"absent", "proposed"} => status'[p] \notin {"absent", "proposed"}
         /\ status[p] \in Published \cup {"failed"} => status'[p] \in Published \cup {"failed"}
         /\ status[p] = "applied" => status'[p] = "applied"
  <1> USE DEF Lifecycle!Plan, Plan, Published
  <1>1. /\ status \in [Plan -> PlanStatus \cup {"absent"}]
        /\ mapped \in [Plan -> SUBSET Slot]
    BY DEF ApplyInv, Inv, PlanInv, TypeOK, ApplyTypeOK
  <1>2. ASSUME NEW q \in Plan, NEW slots, Lifecycle!Draft(q, slots)
        PROVE  /\ mapped'[p] = mapped[p]
               /\ status'[p] = IF p = q THEN "proposed"
                               ELSE IF p[1] = q[1] THEN Lifecycle!Revised(status[p])
                               ELSE status[p]
               /\ p = q => status[p] = "absent"
    BY <1>2 DEF Lifecycle!Draft
  <1>3. ASSUME NEW q \in Plan, NEW s, Lifecycle!Move(q, s)
        PROVE  /\ mapped'[p] = mapped[p]
               /\ status'[p] = IF p = q THEN s ELSE status[p]
               /\ <<status[q], s>> \in Lifecycle!ALLOWED_PLAN_TRANSITIONS
    BY <1>1, <1>3 DEF Lifecycle!Move
  <1>4. ASSUME NEW q \in Plan, NEW k, Lifecycle!Publish(q, k)
        PROVE  mapped[p] \subseteq mapped'[p] /\ status' = status
    BY <1>1, <1>4 DEF Lifecycle!Publish
  <1>5. CASE UNCHANGED Lifecycle!vars
    BY <1>5 DEF Lifecycle!vars
  <1>6. CASE Lifecycle!Next
    <2>1. PICK q \in Plan :
            \/ \E slots \in (SUBSET Slot) \ {{}} : Lifecycle!Draft(q, slots)
            \/ \E s \in MovedStatus : Lifecycle!Move(q, s)
            \/ \E k \in Slot : Lifecycle!Publish(q, k)
      BY <1>6 DEF Lifecycle!Next, MovedStatus
    <2>2. CASE \E slots \in (SUBSET Slot) \ {{}} : Lifecycle!Draft(q, slots)
      BY <1>2, <2>2 DEF Lifecycle!Revised
    <2>3. CASE \E s \in MovedStatus : Lifecycle!Move(q, s)
      BY <1>3, <2>3 DEF Lifecycle!ALLOWED_PLAN_TRANSITIONS
    <2>4. CASE \E k \in Slot : Lifecycle!Publish(q, k)
      BY <1>4, <2>4
    <2>5. QED
      BY <2>1, <2>2, <2>3, <2>4
  <1>7. QED
    BY <1>5, <1>6

LEMMA EventsStay ==
  ASSUME ApplyInv, [Next]_vars, NEW p \in Plan
  PROVE  event[p] \subseteq event'[p]
  <1>1. event \in [Plan -> SUBSET Slot]
    BY DEF ApplyInv, Inv, ApplyTypeOK
  <1>2. CASE ~ ApplyNext
    BY <1>2 DEF Next, vars, applyVars
  <1>3. ASSUME NEW q \in Plan, ApplyClaim(q) \/ ApplyStep(q) \/ ApplyAbort(q)
        PROVE  event[p] \subseteq event'[p]
    BY <1>1, <1>3
    DEF ApplyClaim, ApplyStep, EventCreated, CallFails, SessionFails,
        MappingCommits, ApplySettles, ApplyAbort
  <1>4. QED
    BY <1>2, <1>3 DEF ApplyNext

LEMMA NextMovesOn == ApplyInv /\ [Next]_vars => RowsMoveOn
  <1> SUFFICES ASSUME ApplyInv, [Next]_vars, NEW p \in Plan PROVE RowMovesOn(p)
    BY DEF RowsMoveOn
  <1>1. Lifecycle!Next \/ UNCHANGED Lifecycle!vars
    BY NextImplements
  <1>2. QED
    BY <1>1, LifecycleMovesOn, EventsStay DEF RowMovesOn

-----------------------------------------------------------------------------
(* What the row of an entry on the timeline has become until the planner   *)
(* reads the plans.                                                        *)
StillAhead(e) ==
  LET p == e.of[1] IN
    /\ status[p] \notin {"absent", "proposed"}
    /\ e.plan_status \in Published => status[p] \in Published \cup {"failed"}
    /\ e.plan_status = "applied" => status[p] = "applied"
    /\ e.mapped => IsMapped(e.of)

PlannerInv ==
  /\ PlannerTypeOK
  /\ planner.pc # "done" => planner.proposed = {} /\ planner.confirmed = {}
  /\ planner.pc = "reading" => \A e \in planner.timeline : StillAhead(e)
  /\ PlannerNeverGoesBack
  /\ ReadinessTellsMappings

(* The loops of the day view: what is selected is listed, to be listed, of *)
(* a connection whose turn has not come, or has failed; a calendar is      *)
(* listed once, and events come only from listed calendars.                *)
ListingAgrees ==
  /\ day.selected # {} => day.active
  /\ day.loaded \cup day.todo \subseteq day.selected
  /\ \A x \in day.selected :
       \/ x \in day.loaded \cup day.todo \/ x[1] \in day.connections
       \/ day.errors # {}
  /\ \A x \in day.loaded : x \notin day.todo /\ x[1] \notin day.connections
  /\ \A x \in day.todo : x[1] \notin day.connections
  /\ \A e \in day.shown \cup day.cancelled : e[1] \in day.loaded
  /\ day.shown \cap day.cancelled = {}

DayInv ==
  /\ DayTypeOK
  /\ day.pc = "listing" => ListingAgrees /\ day.items = {}
  /\ \A e \in day.shown \cup day.cancelled : e[2][2] \in event[e[2][1]]
  /\ EachSessionOnce
  /\ FreshMeansVerified

ReadInv == ApplyInv /\ PlannerInv /\ DayInv

-----------------------------------------------------------------------------
LEMMA ReadTypes ==
  ASSUME ApplyInv
  PROVE  /\ status \in [Plan -> PlanStatus \cup {"absent"}]
         /\ session \in [Plan -> [Slot -> SessionStatus \cup {"absent"}]]
         /\ mapped \in [Plan -> SUBSET Slot]
         /\ event \in [Plan -> SUBSET Slot]
  BY DEF ApplyInv, Inv, PlanInv, TypeOK, ApplyTypeOK

LEMMA PlannerSessionsInv ==
  ASSUME ApplyInv, PlannerSessions
  PROVE  PlannerInv'
  <1> DEFINE rows    == timeline_sessions_statement(Horizon, RESERVING_PLAN_STATUSES)
             entries == {[of |-> s, plan_status |-> status[s[1]], mapped |-> IsMapped(s)] :
                           s \in rows}
  <1>1. planner' = [pc |-> "reading", timeline |-> entries, proposed |-> {},
                    confirmed |-> {}, attention |-> {}]
    BY DEF PlannerSessions, NoPlanner
  <1>2. UNCHANGED <<status, mapped>>
    BY DEF PlannerSessions, planVars, applyVars
  <1>3. \A e \in entries :
          /\ e \in PlannerSession
          /\ e.plan_status = status[e.of[1]] /\ e.mapped = IsMapped(e.of)
          /\ status[e.of[1]] \in RESERVING_PLAN_STATUSES
    <2>1. \A s \in rows : /\ s \in Session /\ status[s[1]] \in RESERVING_PLAN_STATUSES
                          /\ IsMapped(s) \in BOOLEAN
      BY HorizonAssumption DEF timeline_sessions_statement, Session, IsMapped
    <2>2. RESERVING_PLAN_STATUSES \subseteq PlanStatus
      BY DEF RESERVING_PLAN_STATUSES, PlanStatus
    <2>3. QED
      BY <2>1, <2>2 DEF PlannerSession
  <1>4. PlannerTypeOK'
    BY <1>1, <1>3 DEF PlannerTypeOK, PlannerResponse
  <1>5. \A e \in planner'.timeline : StillAhead(e)'
    BY <1>1, <1>2, <1>3 DEF StillAhead, IsMapped, RESERVING_PLAN_STATUSES
  <1>6. PlannerNeverGoesBack' /\ ReadinessTellsMappings'
    BY <1>1 DEF PlannerNeverGoesBack, ReadinessTellsMappings
  <1>7. QED
    BY <1>1, <1>4, <1>5, <1>6 DEF PlannerInv

(* What one statement reads of a plan.                                     *)
LEMMA PlanItemTells ==
  ASSUME ApplyInv, NEW p \in Plan, status[p] \in PLANNER_PLAN_STATUSES
  PROVE  /\ PlanItem(p) \in PlannerPlan
         /\ CASE PlanItem(p).readiness = "partially_applied" ->
                   mapped[p] # {} /\ mapped[p] # SessionsOf(p)
              [] PlanItem(p).readiness = "apply_in_progress" ->
                   mapped[p] \subseteq SessionsOf(p)
              [] OTHER -> mapped[p] = {}
  <1> USE DEF PLANNER_PLAN_STATUSES, CONFIRMED_NOT_APPLIED_STATUSES,
              ATTENTION_PLAN_STATUSES
  <1>1. MappingsAgree(p)
    BY DEF ApplyInv, RowAgrees
  <1>2. /\ status[p] \in PlanStatus
        /\ SessionsOf(p) \subseteq Slot /\ mapped[p] \subseteq Slot
    BY ReadTypes DEF PlanStatus, SessionsOf
  <1>3. Readiness(status[p]) \in PlannerPlanReadiness
    BY DEF Readiness, PlannerPlanReadiness
  <1>4. PlanItem(p) \in PlannerPlan
    BY <1>2, <1>3 DEF PlanItem, PlannerPlan
  <1>5. PlanItem(p).readiness = Readiness(status[p])
    BY DEF PlanItem
  <1>6. CASE status[p] = "partially_applied"
    BY <1>1, <1>4, <1>5, <1>6 DEF Readiness, MappingsAgree
  <1>7. CASE status[p] = "applying"
    BY <1>1, <1>4, <1>5, <1>7 DEF Readiness, MappingsAgree
  <1>8. CASE status[p] \in {"proposed", "confirmed", "revalidation_required"}
    <2>1. mapped[p] = {}
      BY <1>1, <1>8 DEF MappingsAgree, Published
    <2>2. Readiness(status[p]) \notin {"partially_applied", "apply_in_progress"}
      BY <1>8 DEF Readiness
    <2>3. QED
      BY <1>4, <1>5, <2>1, <2>2
  <1>9. QED
    BY <1>6, <1>7, <1>8

LEMMA PlannerPlansInv ==
  ASSUME ApplyInv, PlannerInv, PlannerPlans
  PROVE  PlannerInv'
  <1> DEFINE proposed  == PlansIn(PLANNER_PLAN_STATUSES \cap {"proposed"})
             confirmed == PlansIn(PLANNER_PLAN_STATUSES
                                    \cap CONFIRMED_NOT_APPLIED_STATUSES)
  <1>1. /\ planner \in PlannerResponse
        /\ planner.pc = "reading"
        /\ \A e \in planner.timeline : StillAhead(e) /\ e \in PlannerSession
    BY DEF PlannerPlans, PlannerInv, PlannerTypeOK, PlannerResponse
  <1>2. planner' = [pc |-> "done", timeline |-> planner.timeline,
                    proposed |-> proposed, confirmed |-> confirmed,
                    attention |-> NeedsAttention]
    BY <1>1 DEF PlannerPlans, PlannerResponse
  <1>3. \A x \in proposed \cup confirmed :
          \E p \in Plan : status[p] \in PLANNER_PLAN_STATUSES /\ x = PlanItem(p)
    BY DEF PlansIn
  <1>4. PlannerTypeOK'
    <2>1. proposed \subseteq PlannerPlan /\ confirmed \subseteq PlannerPlan
      BY <1>3, PlanItemTells
    <2>2. NeedsAttention \subseteq Plan \X {"revalidate_plan", "retry_apply"}
      BY DEF NeedsAttention, AttentionAction
    <2> HIDE DEF proposed, confirmed
    <2>3. QED
      BY <1>1, <1>2, <2>1, <2>2 DEF PlannerTypeOK, PlannerResponse
  <1>5. ASSUME NEW e \in planner.timeline, NEW x \in proposed \cup confirmed,
               e.of[1] = x.plan
        PROVE  /\ x.status # "proposed"
               /\ e.plan_status # "applied"
               /\ e.plan_status \in Published => x.status \in Published
               /\ e.mapped => e.of[2] \in x.mapped
    <2>1. PICK p \in Plan : status[p] \in PLANNER_PLAN_STATUSES /\ x = PlanItem(p)
      BY <1>3
    <2>2. x.plan = p /\ x.status = status[p] /\ x.mapped = mapped[p]
      BY <2>1 DEF PlanItem
    <2>3. StillAhead(e) /\ e.of[1] = p
      BY <1>1, <1>5, <2>2
    <2>4. QED
      BY <2>1, <2>2, <2>3
      DEF StillAhead, IsMapped, PLANNER_PLAN_STATUSES, Published,
          CONFIRMED_NOT_APPLIED_STATUSES, ATTENTION_PLAN_STATUSES
  <1>6. ASSUME NEW x \in proposed \cup confirmed
        PROVE  CASE x.readiness = "partially_applied" ->
                      x.mapped # {} /\ x.mapped # x.sessions
                 [] x.readiness = "apply_in_progress" -> x.mapped \subseteq x.sessions
                 [] OTHER -> x.mapped = {}
    <2>1. PICK p \in Plan : status[p] \in PLANNER_PLAN_STATUSES /\ x = PlanItem(p)
      BY <1>3
    <2>2. x.sessions = SessionsOf(p) /\ x.mapped = mapped[p]
      BY <2>1 DEF PlanItem
    <2>3. QED
      BY <2>1, <2>2, PlanItemTells
  <1> HIDE DEF proposed, confirmed
  <1>7. PlannerNeverGoesBack'
    BY <1>2, <1>5 DEF PlannerNeverGoesBack
  <1>8. ReadinessTellsMappings'
    BY <1>2, <1>6 DEF ReadinessTellsMappings
  <1>9. QED
    BY <1>2, <1>4, <1>7, <1>8 DEF PlannerInv

LEMMA NoPlannerInv ==
  ASSUME planner' = NoPlanner
  PROVE  PlannerInv'
  BY DEF PlannerInv, PlannerTypeOK, PlannerResponse, NoPlanner,
         PlannerNeverGoesBack, ReadinessTellsMappings

LEMMA OthersPlannerInv ==
  ASSUME ApplyInv, PlannerInv, [Next]_vars, planner' = planner
  PROVE  PlannerInv'
  <1>1. \A e \in planner.timeline : StillAhead(e) => StillAhead(e)'
    <2>1. \A e \in planner.timeline : e.of[1] \in Plan
      BY DEF PlannerInv, PlannerTypeOK, PlannerResponse, PlannerSession, Session
    <2>2. QED
      BY <2>1, NextMovesOn DEF RowsMoveOn, RowMovesOn, StillAhead, IsMapped
  <1>2. PlannerTypeOK' /\ PlannerNeverGoesBack' /\ ReadinessTellsMappings'
    BY DEF PlannerInv, PlannerTypeOK, PlannerNeverGoesBack, ReadinessTellsMappings
  <1>3. QED
    BY <1>1, <1>2 DEF PlannerInv

-----------------------------------------------------------------------------
LEMMA NoDayViewInv ==
  ASSUME day' = NoDayView
  PROVE  DayInv'
  BY DEF DayInv, DayTypeOK, DayView, NoDayView, CalendarDaySyncStatus,
         EachSessionOnce, FreshMeansVerified

LEMMA DayBeginInv ==
  ASSUME DayInv, DayBegin
  PROVE  DayInv'
  <1>1. PICK selected \in SUBSET Calendar, active \in BOOLEAN :
          /\ selected # {} => active
          /\ day' = [pc |-> "listing", active |-> active, selected |-> selected,
                     connections |-> {x[1] : x \in selected}, todo |-> {},
                     loaded |-> {}, errors |-> {}, shown |-> {}, cancelled |-> {},
                     items |-> {}, sync |-> "not_connected"]
    BY DEF DayBegin, NoDayView
  <1>2. {x[1] : x \in selected} \subseteq {x[1] : x \in Calendar}
    OBVIOUS
  <1>3. DayTypeOK'
    BY <1>1, <1>2 DEF DayTypeOK, DayView, CalendarDaySyncStatus
  <1>4. ListingAgrees'
    BY <1>1 DEF ListingAgrees
  <1>5. EachSessionOnce' /\ FreshMeansVerified'
    BY <1>1 DEF EachSessionOnce, FreshMeansVerified
  <1>6. QED
    BY <1>1, <1>3, <1>4, <1>5 DEF DayInv

(* A step of the loops leaves items, sync and pc alone.                    *)
LEMMA ListingStep ==
  ASSUME DayInv, UNCHANGED event, day.pc = "listing", DayTypeOK', ListingAgrees',
         day'.pc = day.pc, day'.items = day.items,
         \A e \in day'.shown \cup day'.cancelled : e[2][2] \in event[e[2][1]]
  PROVE  DayInv'
  BY DEF DayInv, EachSessionOnce, FreshMeansVerified

LEMMA DayConnectInv ==
  ASSUME DayInv, NEW c, DayConnect(c)
  PROVE  DayInv'
  <1>1. day \in DayView /\ day.pc = "listing" /\ ListingAgrees /\ day.todo = {}
        /\ c \in day.connections
    BY DEF DayInv, DayTypeOK, DayConnect
  <1>2. UNCHANGED event
    BY DEF DayConnect, applyVars
  <1>3. CASE day' = [day EXCEPT !.connections = @ \ {c},
                                !.todo = {x \in day.selected : x[1] = c}]
    <2>1. DayTypeOK'
      BY <1>1, <1>3 DEF DayTypeOK, DayView
    <2>2. /\ day'.connections = day.connections \ {c}
          /\ day'.todo = {x \in day.selected : x[1] = c}
          /\ day'.pc = day.pc /\ day'.items = day.items
          /\ day'.active = day.active /\ day'.selected = day.selected
          /\ day'.loaded = day.loaded /\ day'.errors = day.errors
          /\ day'.shown = day.shown /\ day'.cancelled = day.cancelled
      BY <1>1, <1>3 DEF DayView
    <2>3. ListingAgrees'
      BY <1>1, <2>2 DEF ListingAgrees
    <2>4. QED
      BY <1>1, <1>2, <2>1, <2>2, <2>3, ListingStep DEF DayInv
  <1>4. ASSUME NEW e \in ErrorCode,
               day' = [day EXCEPT !.connections = @ \ {c}, !.errors = @ \cup {e}]
        PROVE  DayInv'
    <2>1. DayTypeOK'
      BY <1>1, <1>4 DEF DayTypeOK, DayView
    <2>2. /\ day'.connections = day.connections \ {c}
          /\ day'.errors = day.errors \cup {e} /\ day'.todo = day.todo
          /\ day'.pc = day.pc /\ day'.items = day.items
          /\ day'.active = day.active /\ day'.selected = day.selected
          /\ day'.loaded = day.loaded
          /\ day'.shown = day.shown /\ day'.cancelled = day.cancelled
      BY <1>1, <1>4 DEF DayView
    <2>3. ListingAgrees'
      BY <1>1, <2>2 DEF ListingAgrees
    <2>4. QED
      BY <1>1, <1>2, <2>1, <2>2, <2>3, ListingStep DEF DayInv
  <1>5. \/ day' = [day EXCEPT !.connections = @ \ {c},
                               !.todo = {x \in day.selected : x[1] = c}]
        \/ \E e \in ErrorCode :
             day' = [day EXCEPT !.connections = @ \ {c}, !.errors = @ \cup {e}]
    <2> DEFINE asks     == [day EXCEPT !.connections = @ \ {c},
                                        !.todo = {x \in day.selected : x[1] = c}]
               fails(e) == [day EXCEPT !.connections = @ \ {c},
                                       !.errors = @ \cup {e}]
    <2>1. day' \in {asks} \cup {fails(e) : e \in ErrorCode}
      BY DEF DayConnect
    <2>2. day' = asks \/ \E e \in ErrorCode : day' = fails(e)
      <3> HIDE DEF asks, fails
      <3>1. QED
        BY <2>1
    <2>3. QED
      BY <2>2
  <1>6. QED
    BY <1>3, <1>4, <1>5

(* A calendar that is listed had no events in the lists before.            *)
LEMMA DayListedInv ==
  ASSUME DayInv, NEW x \in Calendar, DayListed(x)
  PROVE  DayInv'
  <1>1. day \in DayView /\ day.pc = "listing" /\ ListingAgrees /\ x \in day.todo
    BY DEF DayInv, DayTypeOK, DayListed
  <1>2. UNCHANGED event
    BY DEF DayListed, applyVars
  <1>3. PICK shown \in SUBSET EventsIn(x), cancelled \in SUBSET EventsIn(x) :
          /\ shown \cap cancelled = {}
          /\ day' = [day EXCEPT !.todo = @ \ {x}, !.loaded = @ \cup {x},
                                !.shown = @ \cup ({x} \X shown),
                                !.cancelled = @ \cup ({x} \X cancelled)]
    <2>1. PICK shown \in SUBSET EventsIn(x) :
            \E cancelled \in SUBSET (EventsIn(x) \ shown) :
              day' = [day EXCEPT !.todo = @ \ {x}, !.loaded = @ \cup {x},
                                 !.shown = @ \cup ({x} \X shown),
                                 !.cancelled = @ \cup ({x} \X cancelled)]
      BY Zenon DEF DayListed
    <2>2. \A c \in SUBSET (EventsIn(x) \ shown) :
            c \in SUBSET EventsIn(x) /\ shown \cap c = {}
      OBVIOUS
    <2>3. QED
      BY <2>1, <2>2, Zenon
  <1>4. /\ EventsIn(x) \subseteq Session
        /\ \A s \in EventsIn(x) : s[2] \in event[s[1]]
    BY DEF EventsIn
  <1>5. DayTypeOK'
    <2>1. {x} \X shown \subseteq Event /\ {x} \X cancelled \subseteq Event
      BY <1>3, <1>4 DEF Event
    <2>2. QED
      BY <1>1, <1>3, <2>1 DEF DayTypeOK, DayView
  <1>6. /\ day'.todo = day.todo \ {x} /\ day'.loaded = day.loaded \cup {x}
        /\ day'.shown = day.shown \cup ({x} \X shown)
        /\ day'.cancelled = day.cancelled \cup ({x} \X cancelled)
        /\ day'.pc = day.pc /\ day'.items = day.items
        /\ day'.active = day.active /\ day'.selected = day.selected
        /\ day'.connections = day.connections /\ day'.errors = day.errors
    BY <1>1, <1>3 DEF DayView
  <1>7. ListingAgrees'
    <2>1. \A e \in day.shown \cup day.cancelled : e[1] \in day.loaded /\ e[1] # x
      BY <1>1 DEF ListingAgrees
    <2>2. /\ day'.shown \cap day'.cancelled = {}
          /\ \A e \in day'.shown \cup day'.cancelled : e[1] \in day'.loaded
      BY <1>1, <1>3, <1>6, <2>1 DEF ListingAgrees
    <2>3. /\ day'.loaded \cup day'.todo \subseteq day'.selected
          /\ \A y \in day'.loaded : y \notin day'.todo /\ y[1] \notin day'.connections
          /\ \A y \in day'.todo : y[1] \notin day'.connections
      BY <1>1, <1>6 DEF ListingAgrees
    <2>5. day'.selected # {} => day'.active
      BY <1>1, <1>6 DEF ListingAgrees
    <2>4. \A y \in day'.selected :
            \/ y \in day'.loaded \cup day'.todo \/ y[1] \in day'.connections
            \/ day'.errors # {}
      BY <1>1, <1>6 DEF ListingAgrees
    <2>6. QED
      BY <2>2, <2>3, <2>4, <2>5 DEF ListingAgrees
  <1>8. \A e \in day'.shown \cup day'.cancelled : e[2][2] \in event[e[2][1]]
    BY <1>3, <1>4, <1>6 DEF DayInv
  <1>9. QED
    BY <1>1, <1>2, <1>5, <1>6, <1>7, <1>8, ListingStep

LEMMA DayListFailsInv ==
  ASSUME DayInv, NEW x \in Calendar, DayListFails(x)
  PROVE  DayInv'
  <1>1. day \in DayView /\ day.pc = "listing" /\ ListingAgrees /\ x \in day.todo
    BY DEF DayInv, DayTypeOK, DayListFails
  <1>2. UNCHANGED event
    BY DEF DayListFails, applyVars
  <1>3. PICK e \in ErrorCode :
          day' = [day EXCEPT !.todo = @ \ {x}, !.errors = @ \cup {e}]
    BY DEF DayListFails
  <1>4. DayTypeOK'
    BY <1>1, <1>3 DEF DayTypeOK, DayView
  <1>5. /\ day'.todo = day.todo \ {x} /\ day'.errors = day.errors \cup {e}
        /\ day'.pc = day.pc /\ day'.items = day.items
        /\ day'.active = day.active /\ day'.selected = day.selected
        /\ day'.connections = day.connections /\ day'.loaded = day.loaded
        /\ day'.shown = day.shown /\ day'.cancelled = day.cancelled
    BY <1>1, <1>3 DEF DayView
  <1>6. ListingAgrees'
    BY <1>1, <1>5 DEF ListingAgrees
  <1>7. QED
    BY <1>1, <1>2, <1>4, <1>5, <1>6, ListingStep DEF DayInv

-----------------------------------------------------------------------------
(* A session whose event is in the calendar and whose row the day shows    *)
(* has its mapping: until then its row says that apply has claimed it.     *)
LEMMA ShownIsMapped ==
  ASSUME ApplyInv, NEW s \in VisibleSessions, s[2] \in event[s[1]]
  PROVE  IsMapped(s)
  <1>1. /\ s[1] \in Plan /\ s[2] \in SessionsOf(s[1])
        /\ session[s[1]][s[2]] \in DAY_VIEW_SESSION_STATUSES
    BY DEF VisibleSessions, timeline_sessions_statement
  <1>2. /\ status[s[1]] \in DAY_VIEW_PLAN_STATUSES
        /\ status[s[1]] \in Published \cup {"failed"}
        /\ SessionsAgree(s[1])
    BY <1>1
    DEF VisibleSessions, timeline_sessions_statement, ApplyInv, RowAgrees,
        MappingsAgree
  <1>3. status[s[1]] \in Published
    BY <1>2 DEF DAY_VIEW_PLAN_STATUSES, Published
  <1>4. QED
    BY <1>1, <1>2, <1>3
    DEF SessionsAgree, DAY_VIEW_SESSION_STATUSES, Published, IsMapped

LEMMA DayMergeInv ==
  ASSUME ApplyInv, DayInv, DayMerge
  PROVE  DayInv'
  <1>1. day \in DayView /\ day.pc = "listing" /\ ListingAgrees
        /\ day.connections = {} /\ day.todo = {}
    BY DEF DayInv, DayTypeOK, DayMerge
  <1>2. PICK deleted \in SUBSET Linked :
          day' = [NoDayView EXCEPT
                    !.pc = "done", !.sync = SyncStatus,
                    !.items = EventItems \cup CancelledItems
                              \cup SessionItems(deleted)]
    BY DEF DayMerge
  <1> DEFINE items == EventItems \cup CancelledItems \cup SessionItems(deleted)
             rest  == VisibleSessions \ LinkedTo(day.shown \cup day.cancelled)
  <1>3. /\ day'.pc = "done" /\ day'.sync = SyncStatus /\ day'.items = items
        /\ day'.shown = {} /\ day'.cancelled = {}
    BY <1>2 DEF NoDayView
  <1>4. VisibleSessions \subseteq Session /\ Linked \subseteq VisibleSessions
    BY DayAssumption
    DEF VisibleSessions, timeline_sessions_statement, Session, Linked
  <1>5. day.shown \subseteq Event
    BY <1>1 DEF DayView
  <1>6. \A i \in EventItems :
          /\ i \in Item /\ <<i.calendar, i.of>> \in day.shown
          /\ i.source = "google_calendar" /\ i.calendar # NoCalendar
          /\ i.status = IF i.calendar = Destination /\ i.of \in Linked
                        THEN "linked" ELSE "unlinked"
    <2>1. ASSUME NEW e \in day.shown
          PROVE  /\ e = <<e[1], e[2]>> /\ e[1] \in Calendar /\ e[2] \in Session
                 /\ e[2] \in LinkedTo({e}) <=> e[1] = Destination /\ e[2] \in Linked
      BY <1>5 DEF Event, LinkedTo
    <2>2. ASSUME NEW i \in EventItems
          PROVE  \E e \in day.shown :
                   i = [of |-> e[2], calendar |-> e[1], source |-> "google_calendar",
                        status |-> IF e[2] \in LinkedTo({e})
                                   THEN "linked" ELSE "unlinked"]
      BY DEF EventItems
    <2>3. ASSUME NEW i \in EventItems
          PROVE  /\ i \in Item /\ <<i.calendar, i.of>> \in day.shown
                 /\ i.source = "google_calendar" /\ i.calendar # NoCalendar
                 /\ i.status = IF i.calendar = Destination /\ i.of \in Linked
                               THEN "linked" ELSE "unlinked"
      <3>1. PICK e \in day.shown :
              i = [of |-> e[2], calendar |-> e[1], source |-> "google_calendar",
                   status |-> IF e[2] \in LinkedTo({e})
                              THEN "linked" ELSE "unlinked"]
        BY <2>2
      <3>2. i.calendar = e[1] /\ i.of = e[2] /\ i.source = "google_calendar"
        BY <3>1
      <3>3. i.status = IF i.calendar = Destination /\ i.of \in Linked
                       THEN "linked" ELSE "unlinked"
        BY <2>1, <3>1, <3>2
      <3>4. i \in Item
        BY <2>1, <3>1 DEF Item
      <3>5. QED
        BY <2>1, <3>2, <3>3, <3>4, NoCalendarAssumption
    <2>4. QED
      BY <2>3
  <1>7. \A i \in CancelledItems :
          /\ i \in Item /\ i.calendar = NoCalendar
          /\ i.of \in Linked /\ <<Destination, i.of>> \in day.cancelled
          /\ i.source = "ai_calendar" /\ i.status = "external_event_cancelled"
    <2>1. \A s \in LinkedTo(day.cancelled) :
            s \in Session /\ s \in Linked /\ <<Destination, s>> \in day.cancelled
      BY <1>4 DEF LinkedTo
    <2>2. QED
      BY <2>1 DEF CancelledItems, Item
  <1>8. \A i \in SessionItems(deleted) :
          /\ i \in Item /\ i.of \in rest
          /\ i.source = "ai_calendar" /\ i.calendar = NoCalendar
          /\ i.status = SessionItemStatus(i.of, deleted)
    <2>1. \A s : SessionItemStatus(s, deleted) \in
                  {"scheduled", "externally_deleted", "mapped_event_not_returned",
                   "unverified"}
      BY DEF SessionItemStatus
    <2>2. QED
      BY <1>4, <2>1 DEF SessionItems, Item
  <1>9. DayTypeOK'
    <2>1. items \subseteq Item
      BY <1>6, <1>7, <1>8
    <2>2. SyncStatus \in CalendarDaySyncStatus
      BY <1>1 DEF ListingAgrees, SyncStatus, CalendarDaySyncStatus
    <2>3. day' = [pc |-> "done", active |-> FALSE, selected |-> {},
                  connections |-> {}, todo |-> {}, loaded |-> {}, errors |-> {},
                  shown |-> {}, cancelled |-> {}, items |-> items,
                  sync |-> SyncStatus]
      BY <1>2 DEF NoDayView
    <2> HIDE DEF items
    <2>4. QED
      BY <2>1, <2>2, <2>3 DEF DayTypeOK, DayView
  <1>10. \A s \in rest : /\ <<Destination, s>> \notin day.shown
                          /\ <<Destination, s>> \notin day.cancelled
    <2>1. ASSUME NEW s \in VisibleSessions,
                 <<Destination, s>> \in day.shown \cup day.cancelled
          PROVE  s \in LinkedTo(day.shown \cup day.cancelled)
      <3>1. s[2] \in event[s[1]]
        BY <2>1 DEF DayInv
      <3>2. QED
        BY <2>1, <3>1, ShownIsMapped DEF Linked, LinkedTo
    <2>2. QED
      BY <2>1
  <1>11. ASSUME NEW i \in items, NEW j \in items, i.of = j.of, i # j
         PROVE  i.calendar # j.calendar /\ (IsCopy(i) \/ IsCopy(j))
    <2>1. i \in Item /\ j \in Item
      BY <1>6, <1>7, <1>8
    <2>2. ~ (i.calendar = j.calendar /\ i.source = j.source /\ i.status = j.status)
      BY <1>11, <2>1 DEF Item
    <2>3. day.shown \cap day.cancelled = {}
      BY <1>1 DEF ListingAgrees
    <2>4. \A k \in EventItems : IsCopy(k) \/ k.calendar = Destination
      BY <1>6 DEF IsCopy
    <2> DEFINE attention == CancelledItems \cup SessionItems(deleted)
    <2>5. \A k, l \in attention : k.of = l.of =>
            k.calendar = l.calendar /\ k.source = l.source /\ k.status = l.status
      <3>1. \A k \in CancelledItems, l \in SessionItems(deleted) : k.of # l.of
        BY <1>7, <1>8, <1>10
      <3>2. QED
        BY <1>7, <1>8, <3>1
    <2>6. \A k \in EventItems, l \in attention :
            k.of = l.of => k.calendar # l.calendar /\ IsCopy(k)
      <3>1. \A k \in EventItems, l \in attention :
              k.of = l.of => k.calendar # Destination
        BY <1>6, <1>7, <1>8, <1>10, <2>3
      <3>2. QED
        BY <1>6, <1>7, <1>8, <2>4, <3>1
    <2>7. \A k, l \in EventItems : k.of = l.of =>
            \/ k.calendar = l.calendar /\ k.source = l.source /\ k.status = l.status
            \/ k.calendar # l.calendar /\ (IsCopy(k) \/ IsCopy(l))
      BY <1>6, <2>4
    <2> HIDE DEF attention
    <2>8. (i \in EventItems \/ i \in attention) /\ (j \in EventItems \/ j \in attention)
      BY DEF attention
    <2>9. QED
      BY <1>11, <2>2, <2>5, <2>6, <2>7, <2>8
  <1>12. ASSUME SyncStatus = "fresh", NEW i \in items, i.status = "unverified"
         PROVE  FALSE
    <2>1. i \in SessionItems(deleted)
      BY <1>6, <1>7, <1>12
    <2>2. i.of \in VisibleSessions /\ SessionItemStatus(i.of, deleted) = "unverified"
      BY <1>8, <1>12, <2>1
    <2>3. IsMapped(i.of) /\ Destination \notin day.loaded
      BY <2>2 DEF SessionItemStatus
    <2>4. Destination \in day.selected
      BY <2>2, <2>3 DEF VisibleSessions
    <2>5. day.errors = {}
      BY <1>1, <1>12, <2>4 DEF ListingAgrees, SyncStatus
    <2>6. QED
      BY <1>1, <2>3, <2>4, <2>5 DEF ListingAgrees
  <1> HIDE DEF items
  <1>13. EachSessionOnce' /\ FreshMeansVerified'
    BY <1>3, <1>11, <1>12 DEF EachSessionOnce, FreshMeansVerified
  <1>14. QED
    BY <1>3, <1>9, <1>13 DEF DayInv

LEMMA OthersDayInv ==
  ASSUME ApplyInv, DayInv, [Next]_vars, day' = day
  PROVE  DayInv'
  <1>1. \A e \in day.shown \cup day.cancelled : e[2][2] \in event'[e[2][1]]
    <2>1. \A e \in day.shown \cup day.cancelled : e[2] \in Session
      BY DEF DayInv, DayTypeOK, DayView, Event
    <2>2. QED
      BY <2>1, NextMovesOn DEF RowsMoveOn, RowMovesOn, DayInv, Session
  <1>2. DayTypeOK' /\ EachSessionOnce' /\ FreshMeansVerified'
    BY DEF DayInv, DayTypeOK, EachSessionOnce, FreshMeansVerified
  <1>3. QED
    BY <1>1, <1>2 DEF DayInv, ListingAgrees

-----------------------------------------------------------------------------
LEMMA InitReadInv == ReadModelInit => ReadInv
  <1> SUFFICES ASSUME ReadModelInit PROVE ReadInv
    OBVIOUS
  <1>1. ApplyInv
    BY InitApplyInv DEF ReadModelInit
  <1>2. PlannerInv
    BY DEF ReadModelInit, PlannerInit, PlannerInv, PlannerTypeOK,
           PlannerResponse, NoPlanner, PlannerNeverGoesBack, ReadinessTellsMappings
  <1>3. DayInv
    BY DEF ReadModelInit, DayInit, DayInv, DayTypeOK, DayView, NoDayView,
           CalendarDaySyncStatus, EachSessionOnce, FreshMeansVerified
  <1>4. QED
    BY <1>1, <1>2, <1>3 DEF ReadInv

(* To the plan subsystem a reader's step is a stuttering step.             *)
LEMMA ReadersWriteNothing ==
  [ReadModelNext]_<<vars, readVars>> => [Next]_vars
  BY DEF ReadModelNext, vars, readVars, DayNext, DayBegin, DayMerge, DayReturn,
         DayConnect, DayListed, DayListFails, PlannerNext, PlannerSessions,
         PlannerPlans, PlannerReturn

LEMMA NextReadInv ==
  ReadInv /\ [ReadModelNext]_<<vars, readVars>> => ReadInv'
  <1> SUFFICES ASSUME ReadInv, [ReadModelNext]_<<vars, readVars>>
               PROVE  ReadInv'
    OBVIOUS
  <1>1. [Next]_vars
    BY ReadersWriteNothing
  <1>2. ApplyInv'
    BY <1>1, NextApplyInv DEF ReadInv
  <1>3. PlannerInv'
    <2>1. CASE planner' = planner
      BY <1>1, <2>1, OthersPlannerInv DEF ReadInv
    <2>2. CASE PlannerNext
      BY <2>2, PlannerSessionsInv, PlannerPlansInv, NoPlannerInv
      DEF ReadInv, PlannerNext, PlannerReturn
    <2>3. QED
      BY <2>1, <2>2 DEF ReadModelNext, readVars
  <1>4. DayInv'
    <2>1. CASE day' = day
      BY <1>1, <2>1, OthersDayInv DEF ReadInv
    <2>2. CASE DayNext
      BY <2>2, DayBeginInv, DayConnectInv, DayListedInv, DayListFailsInv,
         DayMergeInv, NoDayViewInv
      DEF ReadInv, DayNext, DayReturn
    <2>3. QED
      BY <2>1, <2>2 DEF ReadModelNext, readVars
  <1>5. QED
    BY <1>2, <1>3, <1>4 DEF ReadInv

LEMMA SpecReadInv == ReadModelSpec => []ReadInv
  <1>1. QED
    BY InitReadInv, NextReadInv, PTL DEF ReadModelSpec

(* Whatever the planner page and the day view have read so far has its     *)
(* type, for any number of plans, calendars and connections.               *)
THEOREM ReadModelTypeCorrect == ReadModelSpec => []ReadModelTypeOK
  <1>1. ReadInv => ReadModelTypeOK
    BY DEF ReadInv, PlannerInv, DayInv, ReadModelTypeOK
  <1>2. QED
    BY <1>1, SpecReadInv, PTL

(* A day shows a session once, whether apply creates its event or commits  *)
(* its mapping before, between or after the view's calls to Google; only   *)
(* another connection that selects the same shared calendar shows the      *)
(* event again, unlinked and once per connection.                          *)
THEOREM EachSessionOnceTheorem == ReadModelSpec => []EachSessionOnce
  <1>1. ReadInv => EachSessionOnce
    BY DEF ReadInv, DayInv
  <1>2. QED
    BY <1>1, SpecReadInv, PTL

(* A day that _sync_status calls fresh has compared every mapped session   *)
(* with its calendar.                                                      *)
THEOREM FreshMeansVerifiedTheorem == ReadModelSpec => []FreshMeansVerified
  <1>1. ReadInv => FreshMeansVerified
    BY DEF ReadInv, DayInv
  <1>2. QED
    BY <1>1, SpecReadInv, PTL

(* The planner's two statements contradict each other in no way that a     *)
(* plan, on its life cycle, could not have moved in between.               *)
THEOREM PlannerNeverGoesBackTheorem == ReadModelSpec => []PlannerNeverGoesBack
  <1>1. ReadInv => PlannerNeverGoesBack
    BY DEF ReadInv, PlannerInv
  <1>2. QED
    BY <1>1, SpecReadInv, PTL

(* The readiness the planner gives a plan agrees with the mapped sessions  *)
(* it counts.                                                              *)
THEOREM ReadinessTellsMappingsTheorem == ReadModelSpec => []ReadinessTellsMappings
  <1>1. ReadInv => ReadinessTellsMappings
    BY DEF ReadInv, PlannerInv
  <1>2. QED
    BY <1>1, SpecReadInv, PTL
=============================================================================
