------------------------------ MODULE CalendarDay ------------------------------
(***************************************************************************)
(* The day view (app/calendar_day/service.py): one request lists the       *)
(* events of the selected calendars at Google, one await per calendar,     *)
(* then reads the day's sessions from the database and merges the two.     *)
(* Plans are applied and obsoleted meanwhile, and people edit their        *)
(* calendars.                                                              *)
(*                                                                         *)
(* Titles, times and warnings are left out: an item is who it is about and *)
(* what it says of it.  Events that no session stands for become one       *)
(* unlinked item each whatever happens, so only sessions' events are here. *)
(***************************************************************************)
EXTENDS SessionQuery

CONSTANTS
  Calendar,     (* the user's calendars, as <<connection, calendar id>>    *)
  Destination,  (* the calendar plans are applied to                       *)
  Day,          (* the slots of the day that is read                       *)
  NoCalendar    (* an item that is not an event of a calendar              *)

ASSUME DestinationAssumption == Destination \in Calendar
ASSUME NoCalendarAssumption == NoCalendar \notin Calendar
ASSUME DayAssumption == Day \subseteq Slot

VARIABLE
  day  (* what the day view's request holds in local variables             *)

-----------------------------------------------------------------------------

DAY_VIEW_PLAN_STATUSES ==
  {"confirmed", "revalidation_required",
   "applying", "applied", "partially_applied"}

DAY_VIEW_SESSION_STATUSES_WithClaimed == {"confirmed", "applying", "applied"}

DAY_VIEW_SESSION_STATUSES == {"confirmed", "applied"}

ErrorCode == {"reauthorization_required", "error"}

Item ==
  [of : Session, calendar : Calendar \cup {NoCalendar},
   source : {"google_calendar", "ai_calendar"},
   status : {"linked", "unlinked", "scheduled", "external_event_cancelled",
             "externally_deleted", "mapped_event_not_returned", "unverified"}]

CalendarDaySyncStatus ==
  {"not_connected", "no_calendars_selected", "reauthorization_required",
   "partial", "error", "fresh"}

(* An event is the session it was created for, in the calendar it was      *)
(* listed from: the pair by which the code finds its session.              *)
Event == Calendar \X Session

(* connections and todo are the loops of _external_events.                 *)
DayView ==
  [pc : {"idle", "listing", "done"}, active : BOOLEAN,
   selected : SUBSET Calendar, connections : SUBSET {x[1] : x \in Calendar},
   todo : SUBSET Calendar, loaded : SUBSET Calendar,
   errors : SUBSET ErrorCode, shown : SUBSET Event,
   cancelled : SUBSET Event, items : SUBSET Item,
   sync : CalendarDaySyncStatus]

NoDayView ==
  [pc |-> "idle", active |-> FALSE, selected |-> {}, connections |-> {},
   todo |-> {}, loaded |-> {}, errors |-> {}, shown |-> {}, cancelled |-> {},
   items |-> {}, sync |-> "not_connected"]

DayInit == day = NoDayView

-----------------------------------------------------------------------------
(* The active connections, with their calendars that have                  *)
(* include_in_day_view.                                                    *)
DayBegin ==
  /\ day.pc = "idle"
  /\ \E selected \in SUBSET Calendar, active \in BOOLEAN :
       /\ selected # {} => active
       /\ day' = [NoDayView EXCEPT !.pc = "listing", !.active = active,
                                   !.selected = selected,
                                   !.connections = {x[1] : x \in selected}]
  /\ UNCHANGED <<planVars, applyVars>>

(* A connection's scopes and its access token, refreshed when it expired:  *)
(* without them its calendars are not asked for.                           *)
DayConnect(c) ==
  /\ day.pc = "listing"
  /\ day.todo = {}
  /\ c \in day.connections
  /\ day' \in
       {[day EXCEPT !.connections = @ \ {c},
                    !.todo = {x \in day.selected : x[1] = c}]} \cup
       {[day EXCEPT !.connections = @ \ {c}, !.errors = @ \cup {e}] :
          e \in ErrorCode}
  /\ UNCHANGED <<planVars, applyVars>>

(* external: the sessions whose event the calendar may still have.  The    *)
(* calendar plans are applied to can be shared with other accounts of the  *)
(* user: each connection then lists it, under the same calendar id.        *)
EventsIn(x) ==
  IF x[2] = Destination[2]
  THEN {s \in Session : s[2] \in event[s[1]]} ELSE {}

(* list_events answers with what the calendar holds for this day: some     *)
(* events as they are, some as cancelled; others are on another day or     *)
(* deleted for good.  A first 401 leads to a forced refresh and a second   *)
(* call, whose answer is this one.                                         *)
DayListed(x) ==
  /\ day.pc = "listing"
  /\ x \in day.todo
  /\ \E shown \in SUBSET EventsIn(x) :
     \E cancelled \in SUBSET (EventsIn(x) \ shown) :
       day' = [day EXCEPT !.todo = @ \ {x}, !.loaded = @ \cup {x},
                          !.shown = @ \cup ({x} \X shown),
                          !.cancelled = @ \cup ({x} \X cancelled)]
  /\ UNCHANGED <<planVars, applyVars>>

DayListFails_Silently(x) ==
  /\ day.pc = "listing"
  /\ x \in day.todo
  /\ day' = [day EXCEPT !.todo = @ \ {x}]
  /\ UNCHANGED <<planVars, applyVars>>

DayListFails(x) ==
  /\ day.pc = "listing"
  /\ x \in day.todo
  /\ \E e \in ErrorCode :
       day' = [day EXCEPT !.todo = @ \ {x}, !.errors = @ \cup {e}]
  /\ UNCHANGED <<planVars, applyVars>>

-----------------------------------------------------------------------------
(* The rows _merge_items shows: not those of sessions whose mapping is in  *)
(* a calendar that is not shown.                                           *)
VisibleSessions ==
  {s \in timeline_sessions_statement(Day, DAY_VIEW_PLAN_STATUSES) :
     /\ session[s[1]][s[2]] \in DAY_VIEW_SESSION_STATUSES
     /\ IsMapped(s) => Destination \in day.selected}

(* sessions_by_identity: an event is linked to its session through the     *)
(* connection, the calendar and the id of the session's mapping; the same  *)
(* event in another connection's calendar is not.                          *)
Linked == {s \in VisibleSessions : IsMapped(s)}

LinkedTo(events) == {s \in Linked : <<Destination, s>> \in events}

EventItems ==
  {[of |-> e[2], calendar |-> e[1], source |-> "google_calendar",
    status |-> IF e[2] \in LinkedTo({e}) THEN "linked" ELSE "unlinked"] :
     e \in day.shown}

CancelledItems ==
  {[of |-> s, calendar |-> NoCalendar, source |-> "ai_calendar",
    status |-> "external_event_cancelled"] : s \in LinkedTo(day.cancelled)}

(* deleted: the mappings that are externally_deleted.                      *)
SessionItemStatus(s, deleted) ==
  CASE ~ IsMapped(s)               -> "scheduled"
    [] s \in deleted               -> "externally_deleted"
    [] Destination \in day.loaded  -> "mapped_event_not_returned"
    [] OTHER                       -> "unverified"

SessionItems(deleted) ==
  {[of |-> s, calendar |-> NoCalendar, source |-> "ai_calendar",
    status |-> SessionItemStatus(s, deleted)] :
     s \in VisibleSessions \ LinkedTo(day.shown \cup day.cancelled)}

SyncStatus ==
  CASE ~ day.active -> "not_connected"
    [] day.active /\ day.selected = {} -> "no_calendars_selected"
    [] day.selected # {} /\ day.errors # {} ->
         IF day.loaded # {} THEN "partial"
         ELSE IF "reauthorization_required" \in day.errors
              THEN "reauthorization_required" ELSE "error"
    [] day.selected # {} /\ day.errors = {} ->
         IF day.loaded # {} THEN "fresh" ELSE "error"

(* Which mappings are externally_deleted is up to change processing, which *)
(* runs beside and is not composed here: any of them may be.               *)
DayMerge ==
  /\ day.pc = "listing"
  /\ day.connections = {} /\ day.todo = {}
  /\ \E deleted \in SUBSET Linked :
       day' = [NoDayView EXCEPT
                 !.pc = "done", !.sync = SyncStatus,
                 !.items = EventItems \cup CancelledItems
                           \cup SessionItems(deleted)]
  /\ UNCHANGED <<planVars, applyVars>>

DayReturn ==
  /\ day.pc = "done"
  /\ day' = NoDayView
  /\ UNCHANGED <<planVars, applyVars>>

DayNext ==
  \/ DayBegin \/ DayMerge \/ DayReturn
  \/ \E x \in Calendar : DayConnect(x[1]) \/ DayListed(x) \/ DayListFails(x)

-----------------------------------------------------------------------------
DayTypeOK == day \in DayView

(* An event shown from a calendar that is not, for this connection, the    *)
(* one its session's mapping names: it is a foreign event to the code.     *)
IsCopy(i) == i.status = "unlinked" /\ i.calendar \notin {Destination, NoCalendar}

(* A session is on the day once: never as a session of the program and,    *)
(* beside it, as an event of its calendar that the program does not        *)
(* recognize, even when apply creates the event and commits its mapping,   *)
(* or dies between the two, after the calendar was listed and before the   *)
(* sessions are read.  The exception is a calendar shared with another     *)
(* connection and selected there too: each such connection shows the event *)
(* once more, unlinked.                                                    *)
EachSessionOnce ==
  \A i, j \in day.items :
    i.of = j.of /\ i # j =>
      i.calendar # j.calendar /\ (IsCopy(i) \/ IsCopy(j))

(* A day that is called fresh hides no failure: every session that has a   *)
(* mapping was compared with its calendar.                                 *)
FreshMeansVerified ==
  day.pc = "done" /\ day.sync = "fresh" =>
    \A i \in day.items : i.status # "unverified"
=============================================================================
