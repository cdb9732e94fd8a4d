--------------------------- MODULE MCReadModelSystem ---------------------------
(* A small instance of ReadModelSystem for TLC: two connections, the first  *)
(* with a calendar of its own and the one plans are applied to, which it    *)
(* shares with the second.                                                  *)
EXTENDS ReadModelSystem

Calendars == {<<1, "work">>, <<1, "home">>, <<2, "work">>}
WorkCalendar == <<1, "work">>
=============================================================================
