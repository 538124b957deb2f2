--------------------------- MODULE MCAlarmService ---------------------------
(* Small instances of AlarmService for TLC: one calendar with an item and   *)
(* one that is empty, two ticks between periodic searches, alarms before     *)
(* and after the first of them.                                             *)
EXTENDS AlarmService
=============================================================================
