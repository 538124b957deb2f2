--------------------------- MODULE MCIcsCalendar ---------------------------
(* Small instances of IcsCalendar for TLC: two items, of which the file     *)
(* holds one or none at the start.  The configurations give the constants.  *)
EXTENDS IcsCalendar
=============================================================================
