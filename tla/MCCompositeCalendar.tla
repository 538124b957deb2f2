------------------------ MODULE MCCompositeCalendar ------------------------
(***************************************************************************)
(* The composite calendar with two calendars, of which c has two items, so   *)
(* that a limit of one clips part of what c answers.                         *)
(***************************************************************************)
EXTENDS CompositeCalendar

CONSTANTS c, d

MCCalendars == {c, d}
MCHandles   == {d}
MCItems     == {<<c, "x">>, <<c, "y">>, <<d, "x">>}
=============================================================================
