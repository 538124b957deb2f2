------------------------- MODULE AlarmServiceProofs -------------------------
(***************************************************************************)
(* What is proved of the alarm service, its monitor and the alarm dialog,  *)
(* for all values of the constants: no alarm is missed, none is announced  *)
(* that is no longer so, the dialog shows what is listed, and no calendar  *)
(* is loading when its search has nothing more to hear.                    *)
(***************************************************************************)
EXTENDS AlarmService, FiniteSetTheorems, TLAPS

-----------------------------------------------------------------------------
(* Types.                                                                    *)

Version   == [alarm : Times, end : Nat, snooze : Int, ack : Int]
EntryType == [item : Items, ver : Version]
TimerType == [item : Items, ver : Version, mapped : BOOLEAN]
BatchType == [cal : Calendars, todo : SUBSET EntryType]
LoadType  == [no : Nat, start : Int, asked : SUBSET Calendars, open : SUBSET Calendars,
              batches : SUBSET BatchType, waiting : SUBSET Calendars,
              results : BOOLEAN, resolved : BOOLEAN]
AlarmsType == [timers : SUBSET TimerType, loaded : [Calendars -> {"none", "no", "yes"}],
               mAlarms : SUBSET EntryType, window : {"closed", "opening", "open"},
               widgets : SUBSET EntryType]
RequestType == [item : Items, old : Version, new : Version]

\* Searches under way are told apart by their numbers.
Numbered(ls) == \A l1, l2 \in ls : l1.no = l2.no => l1 = l2

\* An alarm of an item has one timer in the map.
OneMapped(ts) ==
    \A t, u \in ts :
        t.mapped /\ u.mapped /\ t.item = u.item /\ t.ver.alarm = u.ver.alarm => t = u

ShapeInv ==
    /\ now \in 0..MaxTime /\ mRangeEnd \in now..(MaxTime + Hours)
    /\ store \in [Items -> Version \cup {NoItem}]
    /\ known \subseteq Calendars /\ muted \subseteq Calendars /\ blurred \subseteq Calendars
    /\ loads \subseteq LoadType /\ IsFiniteSet(loads) /\ Numbered(loads)
    /\ alarms \in AlarmsType /\ OneMapped(alarms.timers)
    /\ requests \subseteq RequestType

\* An item's calendar is a calendar; the items of the model are real versions.
LEMMA ItemFacts ==
    /\ \A i \in Items : Cal(i) \in Calendars
    /\ Versions \subseteq Version
    /\ NoItem \notin Version
<1>1. \A i \in Items : Cal(i) \in Calendars
  BY DEF Items, Cal
<1>2. Versions \subseteq Version
  BY ConstantsAssumption DEF Versions, Version
<1>3. NoItem \notin Version
  BY ConstantsAssumption DEF NoItem, Version
<1> QED BY <1>1, <1>2, <1>3

\* When an alarm is due is a time.
LEMMA DueIsTime == ASSUME NEW v \in Version PROVE Due(v) \in Int
<1>1. v.alarm \in Nat /\ v.snooze \in Int
  BY ConstantsAssumption DEF Version
<1> QED BY <1>1 DEF Due

\* An entry made of an item and a version of it.
LEMMA EntryHasType ==
    ASSUME NEW i \in Items, NEW v \in Version
    PROVE  /\ Entry(i, v) \in EntryType
           /\ Entry(i, v).item = i /\ Entry(i, v).ver = v
BY DEF Entry, EntryType

-----------------------------------------------------------------------------
(* The dialog.  It is idle when it is open with nothing to show or to wait  *)
(* for.                                                                      *)

Shows(a) == a.window = "open" => a.widgets = a.mAlarms
Idle(a)  == a.window = "open" /\ a.widgets = {} /\ ~IsLoading(a)

\* What a function of the record keeps of the dialog.
KeepsDialog(a, b) == Shows(a) => Shows(b) /\ (Idle(b) => Idle(a))

\* Closing changes the window alone.
LEMMA CloseIs ==
    ASSUME NEW a \in AlarmsType
    PROVE  LET b == CloseIfEmpty(a)
           IN  /\ b \in AlarmsType
               /\ b.timers = a.timers /\ b.loaded = a.loaded
               /\ b.mAlarms = a.mAlarms /\ b.widgets = a.widgets
               /\ Shows(a) => Shows(b)
               /\ ~Idle(b)
<1>1. CASE a.window = "open" /\ a.widgets = {} /\ ~IsLoading(a)
  BY <1>1 DEF AlarmsType, CloseIfEmpty, Shows, Idle
<1>2. CASE ~(a.window = "open" /\ a.widgets = {} /\ ~IsLoading(a))
  BY <1>2 DEF AlarmsType, CloseIfEmpty, Shows, Idle
<1> QED BY <1>1, <1>2

\* An alarm is listed, and shown if the dialog is open.
LEMMA OnAlarmIs ==
    ASSUME NEW a \in AlarmsType, NEW x \in EntryType
    PROVE  LET b == OnAlarm(a, x)
           IN  /\ b \in AlarmsType
               /\ b.timers = a.timers /\ b.loaded = a.loaded
               /\ b.mAlarms = a.mAlarms \cup {x}
               /\ KeepsDialog(a, b)
<1> DEFINE b == OnAlarm(a, x)
<1>1. /\ b \in AlarmsType
      /\ b.timers = a.timers /\ b.loaded = a.loaded
      /\ b.mAlarms = a.mAlarms \cup {x}
      /\ b.window = "open" => a.window = "open" /\ b.widgets = a.widgets \cup {x}
  BY DEF AlarmsType, OnAlarm
<1>2. KeepsDialog(a, b)
  BY <1>1 DEF KeepsDialog, Shows, Idle
<1> HIDE DEF b
<1> QED BY <1>1, <1>2 DEF b

\* Alarms are removed from the list and the dialog.
LEMMA RemoveIs ==
    ASSUME NEW a \in AlarmsType, NEW gone
    PROVE  LET b == Remove(a, gone)
           IN  /\ b \in AlarmsType
               /\ b.timers = a.timers /\ b.loaded = a.loaded
               /\ b.mAlarms = a.mAlarms \ gone
               /\ KeepsDialog(a, b)
<1> DEFINE e == [a EXCEPT !.mAlarms = @ \ gone, !.widgets = @ \ gone]
           b == Remove(a, gone)
<1>1. /\ e \in AlarmsType
      /\ e.timers = a.timers /\ e.loaded = a.loaded /\ e.window = a.window
      /\ e.mAlarms = a.mAlarms \ gone /\ e.widgets = a.widgets \ gone
  BY DEF AlarmsType
<1>2. b = IF gone \cap a.mAlarms # {} THEN CloseIfEmpty(e) ELSE e
  BY DEF Remove
<1>3. Shows(a) => Shows(e)
  BY <1>1 DEF Shows
<1> HIDE DEF e, b
<1>4. CASE gone \cap a.mAlarms # {}
  BY <1>1, <1>2, <1>3, <1>4, CloseIs DEF KeepsDialog, b
<1>5. CASE gone \cap a.mAlarms = {}
  <2>1. Shows(a) /\ Idle(e) => Idle(a)
    BY <1>1, <1>5 DEF Shows, Idle, IsLoading
  <2> QED BY <1>1, <1>2, <1>3, <1>5, <2>1 DEF KeepsDialog, b
<1> QED BY <1>4, <1>5

\* When alarms have been loaded the dialog is not left idle.
LEMMA OnAlarmsLoadedIs ==
    ASSUME NEW a \in AlarmsType
    PROVE  LET b == OnAlarmsLoaded(a)
           IN  /\ b \in AlarmsType
               /\ b.timers = a.timers /\ b.loaded = a.loaded
               /\ b.mAlarms = a.mAlarms
               /\ Shows(a) => Shows(b) /\ ~Idle(b)
<1>1. CASE a.mAlarms = {}
  BY <1>1, CloseIs DEF OnAlarmsLoaded
<1>2. CASE a.mAlarms # {}
  BY <1>2 DEF OnAlarmsLoaded, Shows, Idle
<1> QED BY <1>1, <1>2

-----------------------------------------------------------------------------
(* The timers and the list.                                                  *)

\* What is watched: an item's version has a timer or is listed.
Lists(a, i, v) == \E x \in a.mAlarms \cup a.timers : x.item = i /\ x.ver = v

\* A timer of an item under the same alarm loses its place in the map.
LEMMA AddTimerIs ==
    ASSUME NEW a \in AlarmsType, NEW i \in Items, NEW v \in Version
    PROVE  LET b == AddTimer(a, i, v)
           IN  /\ b \in AlarmsType
               /\ b.loaded = a.loaded /\ b.mAlarms = a.mAlarms
               /\ KeepsDialog(a, b)
               /\ OneMapped(a.timers) => OneMapped(b.timers)
               /\ Lists(b, i, v)
               /\ \A j \in Items, w \in Version : Lists(a, j, w) => Lists(b, j, w)
               /\ \A t \in b.timers :
                     \/ t \in a.timers
                     \/ t.item = i /\ t.ver = v /\ t.mapped
                     \/ \E u \in a.timers : /\ u.item = i /\ u.ver.alarm = v.alarm
                                            /\ t.item = i /\ t.ver = u.ver
<1> DEFINE Off(t) == IF t.item = i /\ t.ver.alarm = v.alarm
                     THEN [t EXCEPT !.mapped = FALSE] ELSE t
           new == [item |-> i, ver |-> v, mapped |-> TRUE]
           ts  == {Off(t) : t \in a.timers} \cup {new}
           b   == AddTimer(a, i, v)
<1>1. new \in TimerType /\ new.item = i /\ new.ver = v /\ new.mapped
  BY DEF TimerType
<1>2. ASSUME NEW t \in a.timers
      PROVE  /\ Off(t) \in TimerType /\ Off(t).item = t.item /\ Off(t).ver = t.ver
             /\ t.item = i /\ t.ver.alarm = v.alarm => ~Off(t).mapped
             /\ ~(t.item = i /\ t.ver.alarm = v.alarm) => Off(t) = t
  <2>1. t \in TimerType
    BY DEF AlarmsType
  <2> QED BY <2>1 DEF TimerType
<1>3. /\ b.timers = ts /\ b.loaded = a.loaded /\ b.mAlarms = a.mAlarms
      /\ b.window = a.window /\ b.widgets = a.widgets
  BY DEF AddTimer, AlarmsType
<1>4. b \in AlarmsType
  <2>1. ts \subseteq TimerType
    BY <1>1, <1>2
  <2> QED BY <2>1 DEF AddTimer, AlarmsType
<1>5. \A t \in ts : t = new \/ \E u \in a.timers : t = Off(u)
  OBVIOUS
<1>6. new \in ts /\ \A u \in a.timers : Off(u) \in ts
  OBVIOUS
<1> HIDE DEF Off, new, ts, b
<1>7. KeepsDialog(a, b)
  BY <1>3 DEF KeepsDialog, Shows, Idle, IsLoading
<1>8. ASSUME OneMapped(a.timers) PROVE OneMapped(b.timers)
  <2> SUFFICES ASSUME NEW t \in ts, NEW u \in ts, t.mapped, u.mapped,
                      t.item = u.item, t.ver.alarm = u.ver.alarm
               PROVE  t = u
    BY <1>3 DEF OneMapped
  <2>1. ASSUME NEW q \in ts, q.mapped, q # new
        PROVE  q \in a.timers /\ ~(q.item = i /\ q.ver.alarm = v.alarm)
    <3>1. PICK p \in a.timers : q = Off(p)
      BY <1>5, <2>1
    <3> QED BY <1>2, <2>1, <3>1
  <2>2. CASE t = new
    BY <1>1, <2>1, <2>2
  <2>3. CASE t # new
    <3>1. u # new
      BY <1>1, <2>1, <2>3
    <3> QED BY <1>8, <2>1, <2>3, <3>1 DEF OneMapped
  <2> QED BY <2>2, <2>3
<1>9. Lists(b, i, v)
  BY <1>1, <1>3, <1>6 DEF Lists
<1>10. ASSUME NEW j \in Items, NEW w \in Version, Lists(a, j, w) PROVE Lists(b, j, w)
  BY <1>2, <1>3, <1>6, <1>10 DEF Lists
<1>11. ASSUME NEW t \in b.timers
       PROVE  \/ t \in a.timers
              \/ t.item = i /\ t.ver = v /\ t.mapped
              \/ \E u \in a.timers : /\ u.item = i /\ u.ver.alarm = v.alarm
                                     /\ t.item = i /\ t.ver = u.ver
  <2>1. t = new \/ \E u \in a.timers : t = Off(u)
    BY <1>3, <1>5
  <2> QED BY <1>1, <1>2, <2>1
<1> QED BY <1>3, <1>4, <1>7, <1>8, <1>9, <1>10, <1>11 DEF b

\* An item's entries are removed, and its timers under that alarm that are in the map.
LEMMA RemoveAlarmsIs ==
    ASSUME NEW a \in AlarmsType, NEW i \in Items, NEW v \in Version
    PROVE  LET b == RemoveAlarmsForItem(a, i, v)
           IN  /\ b \in AlarmsType
               /\ b.loaded = a.loaded
               /\ b.mAlarms = {x \in a.mAlarms : x.item # i}
               /\ b.timers = {t \in a.timers : ~(t.mapped /\ t.item = i /\ t.ver.alarm = v.alarm)}
               /\ KeepsDialog(a, b)
               /\ OneMapped(a.timers) => OneMapped(b.timers)
<1> DEFINE gone == {x \in a.mAlarms : x.item = i}
           r    == Remove(a, gone)
           b    == RemoveAlarmsForItem(a, i, v)
<1>1. /\ r \in AlarmsType /\ r.timers = a.timers /\ r.loaded = a.loaded
      /\ r.mAlarms = a.mAlarms \ gone /\ KeepsDialog(a, r)
  BY RemoveIs
<1>2. b = [r EXCEPT !.timers = {t \in @ : ~(t.mapped /\ t.item = i /\ t.ver.alarm = v.alarm)}]
  BY DEF RemoveAlarmsForItem, OnRemoveAlarmsByItem
<1>3. a.mAlarms \ gone = {x \in a.mAlarms : x.item # i}
  OBVIOUS
<1> HIDE DEF r, b, gone
<1>4. /\ b \in AlarmsType
      /\ b.loaded = r.loaded /\ b.mAlarms = r.mAlarms
      /\ b.window = r.window /\ b.widgets = r.widgets
      /\ b.timers = {t \in a.timers : ~(t.mapped /\ t.item = i /\ t.ver.alarm = v.alarm)}
  BY <1>1, <1>2 DEF AlarmsType
<1>5. KeepsDialog(a, b)
  BY <1>1, <1>4 DEF KeepsDialog, Shows, Idle, IsLoading
<1>6. OneMapped(a.timers) => OneMapped(b.timers)
  BY <1>4 DEF OneMapped
<1> QED BY <1>1, <1>3, <1>4, <1>5, <1>6 DEF b

\* An alarm that fires is listed, unless its calendar is mute.
LEMMA AlarmFiredIs ==
    ASSUME NEW a \in AlarmsType, NEW i \in Items, NEW v \in Version
    PROVE  LET b == AlarmFired(a, i, v)
           IN  /\ b \in AlarmsType
               /\ b.timers = a.timers /\ b.loaded = a.loaded
               /\ b.mAlarms = IF Cal(i) \in muted THEN a.mAlarms ELSE a.mAlarms \cup {Entry(i, v)}
               /\ KeepsDialog(a, b)
<1>1. CASE Cal(i) \in muted
  BY <1>1 DEF AlarmFired, KeepsDialog
<1>2. CASE Cal(i) \notin muted
  BY <1>2, EntryHasType, OnAlarmIs DEF AlarmFired
<1> QED BY <1>1, <1>2

\* That an alarm is wanted: it is due in the range, or overdue and not acknowledged.
Wanted(v) == Due(v) <= mRangeEnd /\ (Due(v) < now => ~Acked(v))

\* What is added for an item, when b is what becomes of a.
Adds(a, b, i, v) ==
    /\ b \in AlarmsType /\ b.loaded = a.loaded
    /\ KeepsDialog(a, b)
    /\ OneMapped(a.timers) => OneMapped(b.timers)
    /\ Cal(i) \notin muted /\ Wanted(v) => Lists(b, i, v)
    /\ \A j \in Items, w \in Version : Lists(a, j, w) => Lists(b, j, w)
    /\ \A x \in b.mAlarms : x \in a.mAlarms \/ (x.item = i /\ x.ver = v)
    /\ \A t \in b.timers :
          \/ t \in a.timers
          \/ t.item = i /\ t.ver = v /\ t.mapped
          \/ \E u \in a.timers : /\ u.item = i /\ u.ver.alarm = v.alarm
                                 /\ t.item = i /\ t.ver = u.ver

LEMMA AddAlarmsIs ==
    ASSUME ShapeInv, NEW a \in AlarmsType, NEW i \in Items, NEW v \in Version
    PROVE  Adds(a, AddAlarmsForItem(a, i, v), i, v)
<1> DEFINE b == AddAlarmsForItem(a, i, v)
<1>1. Due(v) \in Int /\ now \in Int /\ mRangeEnd \in Int
  BY DueIsTime, ConstantsAssumption DEF ShapeInv
<1>2. CASE Due(v) >= now /\ Due(v) <= mRangeEnd
  <2>1. b = AddTimer(a, i, v)
    BY <1>1, <1>2 DEF AddAlarmsForItem
  <2> HIDE DEF b
  <2>2. /\ b \in AlarmsType
        /\ b.loaded = a.loaded /\ b.mAlarms = a.mAlarms
        /\ KeepsDialog(a, b)
        /\ OneMapped(a.timers) => OneMapped(b.timers)
        /\ Lists(b, i, v)
        /\ \A j \in Items, w \in Version : Lists(a, j, w) => Lists(b, j, w)
        /\ \A t \in b.timers :
              \/ t \in a.timers
              \/ t.item = i /\ t.ver = v /\ t.mapped
              \/ \E u \in a.timers : /\ u.item = i /\ u.ver.alarm = v.alarm
                                     /\ t.item = i /\ t.ver = u.ver
    BY <2>1, AddTimerIs
  <2> QED BY <2>2 DEF Adds, b
<1>3. CASE Due(v) < now /\ ~Acked(v)
  <2>1. b = AlarmFired(a, i, v)
    BY <1>1, <1>3 DEF AddAlarmsForItem
  <2>2. /\ b \in AlarmsType
        /\ b.timers = a.timers /\ b.loaded = a.loaded
        /\ b.mAlarms = IF Cal(i) \in muted THEN a.mAlarms ELSE a.mAlarms \cup {Entry(i, v)}
        /\ KeepsDialog(a, b)
    BY <2>1, AlarmFiredIs
  <2> HIDE DEF b
  <2>3. Cal(i) \notin muted => Lists(b, i, v)
    BY <2>2, EntryHasType DEF Lists
  <2>4. \A j \in Items, w \in Version : Lists(a, j, w) => Lists(b, j, w)
    BY <2>2 DEF Lists
  <2>5. \A x \in b.mAlarms : x \in a.mAlarms \/ (x.item = i /\ x.ver = v)
    <3> SUFFICES ASSUME NEW x \in b.mAlarms, x \notin a.mAlarms PROVE x = Entry(i, v)
      BY EntryHasType
    <3> QED BY <2>2
  <2> QED BY <2>2, <2>3, <2>4, <2>5 DEF Adds, b
<1>4. CASE ~(Due(v) >= now /\ Due(v) <= mRangeEnd) /\ ~(Due(v) < now /\ ~Acked(v))
  <2>1. b = a
    BY <1>4 DEF AddAlarmsForItem
  <2>2. ~Wanted(v)
    BY <1>1, <1>4 DEF Wanted
  <2> HIDE DEF b
  <2> QED BY <2>1, <2>2 DEF Adds, KeepsDialog, b
<1> QED BY <1>2, <1>3, <1>4

\* That what is known of an item is what b says of it: every entry of it, and there is
\* no timer of it but in the map.
Only(a, i, v) ==
    /\ \A x \in a.mAlarms \cup a.timers : x.item = i => x.ver = v
    /\ \A t \in a.timers : t.item = i => t.mapped

None(a, i) == \A x \in a.mAlarms \cup a.timers : x.item # i

\* Where one item's entries change, those of the others stay.
Others(a, b, i) ==
    /\ \A j \in Items, w \in Version : j # i /\ Lists(a, j, w) => Lists(b, j, w)
    /\ \A x \in b.mAlarms : x \in a.mAlarms \/ x.item = i
    /\ \A t \in b.timers : t \in a.timers \/ t.item = i

\* A function of the record that keeps its type and the dialog.
Keeps(a, b) ==
    /\ b \in AlarmsType /\ b.loaded = a.loaded
    /\ KeepsDialog(a, b)
    /\ OneMapped(a.timers) => OneMapped(b.timers)

\* A notification leaves of an item what is to be known of it now.
LEMMA NotifiedRemoves ==
    ASSUME NEW a \in AlarmsType, NEW i \in Items, NEW old \in Version
    PROVE  LET b == RemoveAlarmsForItem(a, i, old)
           IN  Keeps(a, b) /\ Others(a, b, i) /\ (Only(a, i, old) => None(b, i))
<1> DEFINE b == RemoveAlarmsForItem(a, i, old)
<1>1. /\ b \in AlarmsType
      /\ b.loaded = a.loaded
      /\ b.mAlarms = {x \in a.mAlarms : x.item # i}
      /\ b.timers = {t \in a.timers : ~(t.mapped /\ t.item = i /\ t.ver.alarm = old.alarm)}
      /\ KeepsDialog(a, b)
      /\ OneMapped(a.timers) => OneMapped(b.timers)
  BY RemoveAlarmsIs
<1> HIDE DEF b
<1>2. Keeps(a, b)
  BY <1>1 DEF Keeps
<1>3. Others(a, b, i)
  <2>1. ASSUME NEW j \in Items, NEW w \in Version, j # i, Lists(a, j, w) PROVE Lists(b, j, w)
    <3>1. PICK x \in a.mAlarms \cup a.timers : x.item = j /\ x.ver = w
      BY <2>1 DEF Lists
    <3>2. x \in b.mAlarms \cup b.timers
      BY <1>1, <2>1, <3>1
    <3> QED BY <3>1, <3>2 DEF Lists
  <2> QED BY <1>1, <2>1 DEF Others
<1>4. Only(a, i, old) => None(b, i)
  BY <1>1 DEF Only, None
<1> QED BY <1>2, <1>3, <1>4 DEF b

LEMMA NotifiedAdds ==
    ASSUME ShapeInv, NEW a \in AlarmsType, NEW i \in Items, NEW v \in Version
    PROVE  LET b == AddAlarmsForItem(a, i, v)
           IN  /\ Keeps(a, b) /\ Others(a, b, i)
               /\ None(a, i) => Only(b, i, v)
               /\ Cal(i) \notin muted /\ Wanted(v) => Lists(b, i, v)
<1> DEFINE b == AddAlarmsForItem(a, i, v)
<1>1. Adds(a, b, i, v)
  BY AddAlarmsIs
<1> HIDE DEF b
<1>2. Keeps(a, b)
  BY <1>1 DEF Keeps, Adds
<1>3. Others(a, b, i)
  BY <1>1 DEF Others, Adds
<1>4. None(a, i) => Only(b, i, v)
  <2> SUFFICES ASSUME None(a, i) PROVE Only(b, i, v)
    OBVIOUS
  <2>1. \A x \in b.mAlarms : x.item = i => x.ver = v
    BY <1>1 DEF Adds, None
  <2>2. \A t \in b.timers : t.item = i => t.ver = v /\ t.mapped
    BY <1>1 DEF Adds, None
  <2> QED BY <2>1, <2>2 DEF Only
<1>5. Cal(i) \notin muted /\ Wanted(v) => Lists(b, i, v)
  BY <1>1 DEF Adds
<1> QED BY <1>2, <1>3, <1>4, <1>5 DEF b

\* What two steps keep, one after the other.
LEMMA KeepsTwice ==
    ASSUME NEW a, NEW b, NEW e, NEW i, Keeps(a, b), Keeps(b, e), Others(a, b, i), Others(b, e, i)
    PROVE  Keeps(a, e) /\ Others(a, e, i)
<1>1. Keeps(a, e)
  BY DEF Keeps, KeepsDialog
<1>2. Others(a, e, i)
  BY DEF Others
<1> QED BY <1>1, <1>2

\* What a notification makes of the record: what was rightly known of the item before
\* makes what is rightly known of it now.
NotifiedWell(a, b, i, old, new) ==
    /\ Keeps(a, b) /\ Others(a, b, i)
    /\ new # NoItem /\ Cal(i) \notin muted /\ Wanted(new) => Lists(b, i, new)
    /\ (IF old = NoItem THEN None(a, i) ELSE Only(a, i, old)) =>
           IF new = NoItem THEN None(b, i) ELSE Only(b, i, new)

LEMMA NotifiedIs ==
    ASSUME ShapeInv, NEW a \in AlarmsType, NEW i \in Items,
           NEW old \in Version \cup {NoItem}, NEW new \in Version \cup {NoItem}
    PROVE  NotifiedWell(a, Notified(a, i, old, new), i, old, new)
<1> DEFINE b == IF old = NoItem THEN a ELSE RemoveAlarmsForItem(a, i, old)
           e == IF new = NoItem THEN b ELSE AddAlarmsForItem(b, i, new)
<1>1. e = Notified(a, i, old, new)
  BY DEF Notified
<1>2. /\ Keeps(a, b) /\ Others(a, b, i)
      /\ (IF old = NoItem THEN None(a, i) ELSE Only(a, i, old)) => None(b, i)
  <2>1. CASE old = NoItem
    BY <2>1 DEF Keeps, KeepsDialog, Others
  <2>2. CASE old # NoItem
    BY <2>2, NotifiedRemoves
  <2> QED BY <2>1, <2>2
<1> HIDE DEF b
<1>3. b \in AlarmsType
  BY <1>2 DEF Keeps
<1>4. CASE new = NoItem
  BY <1>1, <1>2, <1>4 DEF NotifiedWell
<1>5. CASE new # NoItem
  <2>1. e = AddAlarmsForItem(b, i, new) /\ new \in Version
    BY <1>5
  <2>2. /\ Keeps(b, e) /\ Others(b, e, i)
        /\ None(b, i) => Only(e, i, new)
        /\ Cal(i) \notin muted /\ Wanted(new) => Lists(e, i, new)
    BY <1>3, <2>1, NotifiedAdds
  <2> HIDE DEF e
  <2>3. Keeps(a, e) /\ Others(a, e, i)
    BY <1>2, <2>2, KeepsTwice
  <2> QED BY <1>1, <1>2, <1>5, <2>2, <2>3 DEF NotifiedWell
<1> QED BY <1>4, <1>5

-----------------------------------------------------------------------------
(* Calendars as a whole.                                                     *)

\* A search says of its calendars that they are loading, or loaded if they are mute;
\* the dialog is idle afterwards only if it was and there is no calendar to search.
Starts(a, b, cs, mute) ==
    /\ b \in AlarmsType
    /\ b.timers = a.timers /\ b.mAlarms = a.mAlarms
    /\ \A c \in Calendars :
          b.loaded[c] = IF c \notin cs THEN a.loaded[c]
                        ELSE IF c \in mute THEN "yes" ELSE "no"
    /\ Shows(a) => Shows(b)
    /\ Shows(a) /\ Idle(b) => cs = {} /\ Idle(a)

LEMMA StartIs ==
    ASSUME NEW a \in AlarmsType, NEW cs \in SUBSET Calendars, NEW mute
    PROVE  Starts(a, Start(a, cs, mute), cs, mute)
<1> DEFINE e == [a EXCEPT !.loaded = [c \in Calendars |->
                    IF c \notin cs THEN @[c] ELSE IF c \in mute THEN "yes" ELSE "no"]]
           b == Start(a, cs, mute)
<1>1. b = IF cs \cap mute = {} THEN e ELSE OnAlarmsLoaded(e)
  BY DEF Start
<1>2. /\ e \in AlarmsType
      /\ e.timers = a.timers /\ e.mAlarms = a.mAlarms
      /\ e.window = a.window /\ e.widgets = a.widgets
      /\ \A c \in Calendars :
            e.loaded[c] = IF c \notin cs THEN a.loaded[c]
                          ELSE IF c \in mute THEN "yes" ELSE "no"
  BY DEF AlarmsType
<1> HIDE DEF e, b
<1>3. Shows(a) => Shows(e)
  BY <1>2 DEF Shows
<1>4. CASE cs \cap mute = {}
  <2>1. ASSUME Idle(e) PROVE cs = {} /\ Idle(a)
    <3>1. \A c \in Calendars : e.loaded[c] # "no"
      BY <2>1 DEF Idle, IsLoading
    <3>2. cs = {}
      BY <1>2, <1>4, <3>1
    <3> QED BY <1>2, <2>1, <3>1, <3>2 DEF Idle, IsLoading
  <2> QED BY <1>1, <1>2, <1>3, <1>4, <2>1 DEF Starts, b
<1>5. CASE cs \cap mute # {}
  BY <1>1, <1>2, <1>3, <1>5, OnAlarmsLoadedIs DEF Starts, b
<1> QED BY <1>4, <1>5

\* The timers in the map of some calendars are disposed of.
LEMMA DisposeIs ==
    ASSUME NEW a \in AlarmsType, NEW cs
    PROVE  LET b == DisposeCalendarTimers(a, cs)
           IN  /\ Keeps(a, b) /\ b.mAlarms = a.mAlarms
               /\ b.timers = {t \in a.timers : ~(t.mapped /\ Cal(t.item) \in cs)}
<1> DEFINE b == DisposeCalendarTimers(a, cs)
<1>1. /\ b \in AlarmsType
      /\ b.loaded = a.loaded /\ b.mAlarms = a.mAlarms
      /\ b.window = a.window /\ b.widgets = a.widgets
      /\ b.timers = {t \in a.timers : ~(t.mapped /\ Cal(t.item) \in cs)}
  BY DEF AlarmsType, DisposeCalendarTimers
<1> HIDE DEF b
<1>2. KeepsDialog(a, b)
  BY <1>1 DEF KeepsDialog, Shows, Idle, IsLoading
<1>3. OneMapped(a.timers) => OneMapped(b.timers)
  BY <1>1 DEF OneMapped
<1> QED BY <1>1, <1>2, <1>3 DEF Keeps, b

\* What is left of a calendar that is not observed any more: timers that have lost
\* their place in the map.
Without(a, b, c) ==
    /\ b.mAlarms = {x \in a.mAlarms : Cal(x.item) # c}
    /\ b.timers = {t \in a.timers : ~(t.mapped /\ Cal(t.item) = c)}

LEMMA UnobserveIs ==
    ASSUME NEW a \in AlarmsType, NEW c
    PROVE  Keeps(a, UnobserveCalendar(a, c)) /\ Without(a, UnobserveCalendar(a, c), c)
<1> DEFINE d == DisposeCalendarTimers(a, {c})
           b == UnobserveCalendar(a, c)
<1>1. /\ Keeps(a, d) /\ d.mAlarms = a.mAlarms
      /\ d.timers = {t \in a.timers : ~(t.mapped /\ Cal(t.item) \in {c})}
  BY DisposeIs
<1>2. b = Remove(d, {x \in d.mAlarms : Cal(x.item) = c})
  BY DEF UnobserveCalendar, OnRemoveAlarmsByCalendar
<1> HIDE DEF d, b
<1>3. d \in AlarmsType
  BY <1>1 DEF Keeps
<1>4. /\ b \in AlarmsType
      /\ b.timers = d.timers /\ b.loaded = d.loaded
      /\ b.mAlarms = d.mAlarms \ {x \in d.mAlarms : Cal(x.item) = c}
      /\ KeepsDialog(d, b)
  BY <1>2, <1>3, RemoveIs
<1>5. Keeps(a, b)
  BY <1>1, <1>4 DEF Keeps, KeepsDialog
<1>6. Without(a, b, c)
  BY <1>1, <1>4 DEF Without
<1> QED BY <1>5, <1>6 DEF b

\* A calendar starts from scratch.
LEMMA InitAlarmsIs ==
    ASSUME NEW a \in AlarmsType, NEW c \in Calendars, NEW mute,
           Shows(a), OneMapped(a.timers)
    PROVE  LET b == InitAlarms(a, c, mute)
           IN  /\ b \in AlarmsType /\ OneMapped(b.timers)
               /\ Without(a, b, c)
               /\ \A e \in Calendars :
                     b.loaded[e] = IF e # c THEN a.loaded[e]
                                   ELSE IF c \in mute THEN "yes" ELSE "no"
               /\ Shows(b) /\ ~Idle(b)
<1> DEFINE d == DisposeCalendarTimers(a, {c})
           f == [d EXCEPT !.loaded[c] = "no"]
           g == Remove(f, {x \in f.mAlarms : Cal(x.item) = c})
           b == InitAlarms(a, c, mute)
<1>1. /\ Keeps(a, d) /\ d.mAlarms = a.mAlarms
      /\ d.timers = {t \in a.timers : ~(t.mapped /\ Cal(t.item) \in {c})}
  BY DisposeIs
<1>2. b = Start(g, {c}, mute)
  BY DEF InitAlarms, OnRemoveAlarmsByCalendar
<1> HIDE DEF d, b
<1>3. d \in AlarmsType /\ Shows(d) /\ OneMapped(d.timers) /\ d.loaded = a.loaded
  BY <1>1 DEF Keeps, KeepsDialog
<1>4. /\ f \in AlarmsType
      /\ f.timers = d.timers /\ f.mAlarms = d.mAlarms
      /\ \A e \in Calendars : e # c => f.loaded[e] = d.loaded[e]
      /\ f.window = d.window /\ f.widgets = d.widgets
  BY <1>3 DEF AlarmsType
<1> HIDE DEF f
<1>5. Shows(f)
  BY <1>3, <1>4 DEF Shows
<1>6. /\ g \in AlarmsType
      /\ g.timers = f.timers /\ g.loaded = f.loaded
      /\ g.mAlarms = f.mAlarms \ {x \in f.mAlarms : Cal(x.item) = c}
      /\ Shows(g)
  BY <1>4, <1>5, RemoveIs DEF KeepsDialog
<1> HIDE DEF g
<1>7. {c} \in SUBSET Calendars
  OBVIOUS
<1>8. /\ b \in AlarmsType
      /\ b.timers = g.timers /\ b.mAlarms = g.mAlarms
      /\ \A e \in Calendars :
            b.loaded[e] = IF e \notin {c} THEN g.loaded[e]
                          ELSE IF e \in mute THEN "yes" ELSE "no"
      /\ Shows(b)
      /\ ~Idle(b)
  <2>1. Starts(g, b, {c}, mute)
    BY <1>2, <1>6, <1>7, StartIs
  <2>2. {c} # {}
    OBVIOUS
  <2> QED BY <1>6, <2>1, <2>2 DEF Starts
<1>9. Without(a, b, c)
  BY <1>1, <1>4, <1>6, <1>8 DEF Without
<1>10. \A e \in Calendars :
          b.loaded[e] = IF e # c THEN a.loaded[e] ELSE IF c \in mute THEN "yes" ELSE "no"
  BY <1>3, <1>4, <1>6, <1>8
<1>11. OneMapped(b.timers)
  BY <1>3, <1>4, <1>6, <1>8
<1> QED BY <1>8, <1>9, <1>10, <1>11 DEF b

\* The calendars that have completed are loaded.
LEMMA LoadedIs ==
    ASSUME NEW a \in AlarmsType, NEW cs
    PROVE  LET b == Loaded(a, cs)
           IN  /\ b \in AlarmsType
               /\ b.timers = a.timers /\ b.mAlarms = a.mAlarms
               /\ \A c \in Calendars : b.loaded[c] = IF c \in cs THEN "yes" ELSE a.loaded[c]
               /\ Shows(a) => Shows(b)
               /\ Shows(a) /\ Idle(b) => cs = {} /\ Idle(a)
<1> DEFINE e == [a EXCEPT !.loaded = [c \in Calendars |-> IF c \in cs THEN "yes" ELSE @[c]]]
           b == Loaded(a, cs)
<1>1. CASE cs = {}
  BY <1>1 DEF Loaded
<1>2. CASE cs # {}
  <2>1. b = OnAlarmsLoaded(e)
    BY <1>2 DEF Loaded
  <2>2. /\ e \in AlarmsType
        /\ e.timers = a.timers /\ e.mAlarms = a.mAlarms
        /\ e.window = a.window /\ e.widgets = a.widgets
        /\ \A c \in Calendars : e.loaded[c] = IF c \in cs THEN "yes" ELSE a.loaded[c]
    BY DEF AlarmsType
  <2> HIDE DEF e, b
  <2>3. Shows(a) => Shows(e)
    BY <2>2 DEF Shows
  <2> QED BY <1>2, <2>1, <2>2, <2>3, OnAlarmsLoadedIs DEF b
<1> QED BY <1>1, <1>2

-----------------------------------------------------------------------------
(* The searches under way.                                                   *)

\* The calendars that a search has not told that they are loaded.
Part(l) == l.asked \cup l.open \cup l.waiting

\* A calendar that has completed waits for the promise only while there are batches to
\* be worked off, which will resolve it.
Waits(l) ==
    /\ l.waiting # {} => l.batches # {}
    /\ l.results /\ ~l.resolved => l.batches # {}
    /\ l.resolved => l.waiting = {}

LoadInv   == (\A l \in loads : Waits(l)) /\ LoadingEnds
DialogInv == Shows(alarms) /\ (Idle(alarms) => \E l \in loads : Part(l) # {})

\* A new search has a number of its own.
LEMMA FreshIsFree ==
    ASSUME ShapeInv
    PROVE  Fresh \in Nat /\ \A l \in loads : l.no # Fresh
<1> DEFINE nos == {l.no : l \in loads}
           k   == Cardinality(loads)
<1>1. k \in Nat /\ IsFiniteSet(nos) /\ Cardinality(nos) <= k
  <2> DEFINE no == [l \in loads |-> l.no]
  <2>1. no \in Surjection(loads, nos)
    BY DEF Surjection
  <2>2. IsFiniteSet(loads)
    BY DEF ShapeInv
  <2> HIDE DEF no, nos
  <2> QED BY <2>1, <2>2, FS_CardinalityType, FS_Surjection
<1>2. IsFiniteSet(0..k) /\ Cardinality(0..k) = k + 1
  BY <1>1, FS_Interval
<1>3. ~(0..k \subseteq nos)
  <2> SUFFICES ASSUME 0..k \subseteq nos PROVE FALSE
    OBVIOUS
  <2>1. Cardinality(0..k) <= Cardinality(nos)
    BY <1>1, FS_Subset
  <2>2. Cardinality(nos) \in Nat
    BY <1>1, FS_CardinalityType
  <2> QED BY <1>1, <1>2, <2>1, <2>2
<1>4. PICK n \in 0..k : n \notin nos
  BY <1>3
<1>5. \A l \in loads : l.no # n
  BY <1>4
<1>6. Fresh \in 0..k /\ \A l \in loads : l.no # Fresh
  BY <1>4, <1>5 DEF Fresh
<1> QED BY <1>1, <1>6

\* A search that is begun asks those of its calendars that are not mute.
Begins(cs, start, mute) ==
    /\ loads \subseteq loads'
    /\ ~(cs \subseteq mute) =>
          \E l \in loads' : l.start = start /\ l.asked = cs \ mute
    /\ \A l \in loads' \ loads :
          /\ l.asked = cs \ mute /\ l.open = {} /\ l.batches = {} /\ Waits(l)

LEMMA SearchIs ==
    ASSUME ShapeInv, NEW cs \in SUBSET Calendars, NEW start \in Int, NEW mute,
           loads' = loads \cup Search(cs, start, mute)
    PROVE  /\ loads' \subseteq LoadType /\ IsFiniteSet(loads') /\ Numbered(loads')
           /\ Begins(cs, start, mute)
<1> DEFINE new == Load(Fresh, start, cs \ mute)
<1>1. /\ new \in LoadType /\ \A l \in loads : l.no # new.no
      /\ new.start = start /\ new.asked = cs \ mute /\ new.open = {} /\ new.batches = {}
      /\ Waits(new)
  BY FreshIsFree DEF Load, LoadType, Waits
<1>2. Search(cs, start, mute) = IF cs \subseteq mute THEN {} ELSE {new}
  BY DEF Search
<1> HIDE DEF new
<1>3. loads' \subseteq LoadType
  BY <1>1, <1>2 DEF ShapeInv
<1>4. IsFiniteSet(loads')
  BY <1>2, FS_EmptySet, FS_Singleton, FS_Union DEF ShapeInv
<1>5. Numbered(loads')
  BY <1>1, <1>2 DEF Numbered, ShapeInv
<1>6. Begins(cs, start, mute)
  BY <1>1, <1>2 DEF Begins
<1> QED BY <1>3, <1>4, <1>5, <1>6

\* What happens to a search that goes on, m being what becomes of l.
LEMMA UpdateIs ==
    ASSUME ShapeInv, NEW l \in loads, NEW m \in LoadType, m.no = l.no, Update(l, m)
    PROVE  /\ loads' \subseteq LoadType /\ IsFiniteSet(loads') /\ Numbered(loads')
           /\ \A k \in loads' : k \in loads \/ k = m
           /\ \A k \in loads : k = l \/ k \in loads'
           /\ m \in loads' \/ (Part(m) = {} /\ m.batches = {})
<1>1. /\ loads' \subseteq (loads \ {l}) \cup {m}
      /\ loads \ {l} \subseteq loads'
      /\ m \in loads' \/ (Part(m) = {} /\ m.batches = {})
  BY DEF Update, Part
<1>2. IsFiniteSet((loads \ {l}) \cup {m})
  BY FS_Singleton, FS_Union, FS_Difference DEF ShapeInv
<1>3. IsFiniteSet(loads')
  BY <1>1, <1>2, FS_Subset
<1>4. Numbered(loads')
  BY <1>1 DEF Numbered, ShapeInv
<1>5. loads' \subseteq LoadType
  BY <1>1 DEF ShapeInv
<1> QED BY <1>1, <1>3, <1>4, <1>5

\* An answer to a search: what it makes of the record and of the search.
Hears(l, m) ==
    /\ m \in LoadType /\ m.no = l.no /\ m.start = l.start /\ Update(l, m)
    /\ Waits(m)
    /\ alarms' \in AlarmsType /\ OneMapped(alarms'.timers) /\ Shows(alarms')
    /\ \A c \in Calendars : alarms'.loaded[c] = "no" =>
          alarms.loaded[c] = "no" /\ (c \in Part(l) => c \in Part(m))
    /\ Idle(alarms') => Idle(alarms) /\ (Part(l) # {} => Part(m) # {})
    /\ UNCHANGED <<now, mRangeEnd, world, requests, blurred>>

LEMMA HearsLoading ==
    ASSUME ShapeInv, LoadInv, DialogInv, NEW l \in loads, NEW m, Hears(l, m)
    PROVE  ShapeInv' /\ LoadInv' /\ DialogInv'
<1>1. /\ loads' \subseteq LoadType /\ IsFiniteSet(loads') /\ Numbered(loads')
      /\ \A k \in loads' : k \in loads \/ k = m
      /\ \A k \in loads : k = l \/ k \in loads'
      /\ m \in loads' \/ (Part(m) = {} /\ m.batches = {})
  <2>1. m \in LoadType /\ m.no = l.no /\ Update(l, m)
    BY DEF Hears
  <2> QED BY <2>1, UpdateIs
<1>2. ShapeInv'
  BY <1>1 DEF ShapeInv, Hears, world
<1>3. \A k \in loads' : Waits(k)
  BY <1>1 DEF LoadInv, Hears
<1>4. ASSUME NEW c \in Calendars, alarms'.loaded[c] = "no"
      PROVE  \E k \in loads' : c \in Part(k) /\ (k.asked \cup k.open # {} \/ k.batches # {})
  <2>1. alarms.loaded[c] = "no" /\ (c \in Part(l) => c \in Part(m))
    BY <1>4 DEF Hears
  <2>2. PICK k \in loads : c \in Part(k) /\ (k.asked \cup k.open # {} \/ k.batches # {})
    BY <2>1 DEF LoadInv, LoadingEnds, Part
  <2>3. CASE k # l
    BY <1>1, <2>2, <2>3
  <2>4. CASE k = l
    <3>1. c \in Part(m)
      BY <2>1, <2>2, <2>4
    <3>2. m.asked \cup m.open # {} \/ m.batches # {}
      BY <3>1 DEF Part, Hears, Waits
    <3>3. m \in loads'
      BY <1>1, <3>1
    <3> QED BY <3>1, <3>2, <3>3
  <2> QED BY <2>3, <2>4
<1>5. LoadingEnds'
  BY <1>4 DEF LoadingEnds, Part
<1>6. ASSUME Idle(alarms') PROVE \E k \in loads' : Part(k) # {}
  <2>1. Idle(alarms) /\ (Part(l) # {} => Part(m) # {})
    BY <1>6 DEF Hears
  <2>2. PICK k \in loads : Part(k) # {}
    BY <2>1 DEF DialogInv
  <2> QED BY <1>1, <2>1, <2>2
<1>7. Shows(alarms')
  BY DEF Hears
<1>8. LoadInv'
  BY <1>3, <1>5 DEF LoadInv, Waits
<1>9. DialogInv'
  BY <1>6, <1>7 DEF DialogInv, Part, Shows, Idle, IsLoading
<1> QED BY <1>2, <1>8, <1>9

\* A search of the calendars cs is begun.
Searches(cs, start, mute) ==
    /\ cs \in SUBSET Calendars /\ start \in Int
    /\ loads' = loads \cup Search(cs, start, mute)
    /\ alarms' \in AlarmsType /\ OneMapped(alarms'.timers) /\ Shows(alarms')
    /\ \A c \in Calendars :
          alarms'.loaded[c] = IF c \notin cs THEN alarms.loaded[c]
                              ELSE IF c \in mute THEN "yes" ELSE "no"
    /\ Idle(alarms') => Idle(alarms)

LEMMA SearchesLoading ==
    ASSUME ShapeInv, LoadInv, DialogInv, NEW cs, NEW start, NEW mute,
           Searches(cs, start, mute)
    PROVE  LoadInv' /\ DialogInv'
<1>1. /\ loads \subseteq loads'
      /\ ~(cs \subseteq mute) =>
            \E l \in loads' : l.start = start /\ l.asked = cs \ mute
      /\ \A l \in loads' \ loads : Waits(l)
  <2>1. cs \in SUBSET Calendars /\ start \in Int /\ loads' = loads \cup Search(cs, start, mute)
    BY DEF Searches
  <2>2. Begins(cs, start, mute)
    BY <2>1, SearchIs
  <2> QED BY <2>2 DEF Begins
<1>2. \A l \in loads' : Waits(l)
  BY <1>1 DEF LoadInv
<1>3. ASSUME NEW c \in Calendars, alarms'.loaded[c] = "no"
      PROVE  \E k \in loads' : c \in Part(k) /\ (k.asked \cup k.open # {} \/ k.batches # {})
  <2>1. CASE c \in cs
    <3>1. c \notin mute
      BY <1>3, <2>1 DEF Searches
    <3>2. PICK l \in loads' : l.asked = cs \ mute
      BY <1>1, <2>1, <3>1
    <3> QED BY <2>1, <3>1, <3>2 DEF Part
  <2>2. CASE c \notin cs
    <3>1. alarms.loaded[c] = "no"
      BY <1>3, <2>2 DEF Searches
    <3> QED BY <1>1, <3>1 DEF LoadInv, LoadingEnds, Part
  <2> QED BY <2>1, <2>2
<1>4. LoadInv'
  BY <1>2, <1>3 DEF LoadInv, LoadingEnds, Part, Waits
<1>5. DialogInv'
  BY <1>1 DEF DialogInv, Searches, Part, Shows, Idle, IsLoading
<1> QED BY <1>4, <1>5

-----------------------------------------------------------------------------
(* What the service knows.                                                   *)

\* Timers that the map has lost sight of are those of calendars that changed under a
\* search's results.
OrphanInv == \A t \in alarms.timers : ~t.mapped => Cal(t.item) \in blurred

\* An item's version, as a timer, the list or a batch has it, is the one that is stored.
Right(x) == Cal(x.item) \in blurred \/ (Cal(x.item) \in known /\ store[x.item] = x.ver)

ListedInv == \A x \in alarms.mAlarms \cup alarms.timers : Right(x)

\* A search asks calendars that are registered, and what it has found is as it was.
FoundOf(l) ==
    /\ l.asked \cup l.open \subseteq known \cup blurred
    /\ \A b \in l.batches : \A x \in b.todo : Cal(x.item) = b.cal /\ Right(x)

FoundInv == \A l \in loads : FoundOf(l)

\* An alarm that is not to be missed, and a search that will come upon it.
WantedHere(i) ==
    /\ Cal(i) \in known /\ Cal(i) \notin muted /\ Cal(i) \notin blurred
    /\ store[i] # NoItem /\ store[i].end >= Due(store[i]) /\ Wanted(store[i])

AwaitedIn(l, i) ==
    \/ Cal(i) \in l.asked /\ store[i].end >= l.start
    \/ \E b \in l.batches : \E x \in b.todo : x.item = i /\ x.ver = store[i]

WantedInv ==
    \A i \in Items : WantedHere(i) =>
        Lists(alarms, i, store[i]) \/ \E l \in loads : AwaitedIn(l, i)

KnowInv == OrphanInv /\ ListedInv /\ FoundInv /\ WantedInv

AlarmInv == ShapeInv /\ LoadInv /\ DialogInv /\ KnowInv

\* Of an item in a calendar that did not change under a search's results, what is known
\* is what is stored.
LEMMA KnownRightly ==
    ASSUME ShapeInv, KnowInv, NEW i \in Items, Cal(i) \notin blurred
    PROVE  IF store[i] = NoItem THEN None(alarms, i) ELSE Only(alarms, i, store[i])
<1>1. ASSUME NEW x \in alarms.mAlarms \cup alarms.timers, x.item = i
      PROVE  x.ver = store[i] /\ x.ver # NoItem
  <2>1. Right(x)
    BY <1>1 DEF KnowInv, ListedInv
  <2>2. x.ver \in Version
    BY <1>1 DEF ShapeInv, AlarmsType, EntryType, TimerType
  <2> QED BY <1>1, <2>1, <2>2, ItemFacts DEF Right
<1>2. \A t \in alarms.timers : t.item = i => t.mapped
  BY DEF KnowInv, OrphanInv
<1>3. CASE store[i] = NoItem
  BY <1>1, <1>3 DEF None
<1>4. CASE store[i] # NoItem
  BY <1>1, <1>2, <1>4 DEF Only
<1> QED BY <1>3, <1>4

\* An item changes, and the service is told if it observes the calendar.
LEMMA ChangeKnow ==
    ASSUME ShapeInv, KnowInv, NEW i \in Items, NEW v \in Version \cup {NoItem}, Changes(i, v),
           IF Cal(i) \in known THEN NotifiedWell(alarms, alarms', i, store[i], v)
           ELSE alarms' = alarms,
           UNCHANGED <<now, mRangeEnd, known, muted, loads>>
    PROVE  KnowInv'
<1>1. /\ store'[i] = v
      /\ \A j \in Items : j # i => store'[j] = store[j]
      /\ blurred \subseteq blurred'
      /\ \A c \in blurred' : c \in blurred \/ c = Cal(i)
      /\ Cal(i) \notin blurred' => v = store[i] \/ Batches(Cal(i)) = {}
  BY DEF ShapeInv, Changes, Stale
<1>2. ASSUME Cal(i) \notin blurred', Cal(i) \in known
      PROVE  IF v = NoItem THEN None(alarms', i) ELSE Only(alarms', i, v)
  BY <1>1, <1>2, KnownRightly DEF NotifiedWell
<1>3. ASSUME Cal(i) \notin blurred', Cal(i) \notin known
      PROVE  None(alarms', i)
  BY <1>1, <1>3 DEF None, KnowInv, ListedInv, Right
<1>4. \A x \in alarms'.mAlarms : x \in alarms.mAlarms \/ x.item = i
  BY DEF NotifiedWell, Others
<1>5. \A t \in alarms'.timers : t \in alarms.timers \/ t.item = i
  BY DEF NotifiedWell, Others
<1>6. OrphanInv'
  <2> SUFFICES ASSUME NEW t \in alarms'.timers, ~t.mapped PROVE Cal(t.item) \in blurred'
    BY DEF OrphanInv, Cal
  <2>1. CASE t.item = i
    BY <1>2, <1>3, <2>1 DEF None, Only
  <2>2. CASE t.item # i
    BY <1>1, <1>5, <2>2 DEF KnowInv, OrphanInv
  <2> QED BY <2>1, <2>2
<1>7. ListedInv'
  <2> SUFFICES ASSUME NEW x \in alarms'.mAlarms \cup alarms'.timers,
                      Cal(x.item) \notin blurred'
               PROVE  Cal(x.item) \in known /\ store'[x.item] = x.ver
    BY DEF ListedInv, Right, Cal
  <2>1. CASE x.item = i
    BY <1>1, <1>2, <1>3, <2>1 DEF None, Only
  <2>2. CASE x.item # i
    <3>1. x \in alarms.mAlarms \cup alarms.timers /\ x.item \in Items
      BY <1>4, <1>5, <2>2 DEF ShapeInv, AlarmsType, EntryType, TimerType
    <3> QED BY <1>1, <2>2, <3>1 DEF KnowInv, ListedInv, Right
  <2> QED BY <2>1, <2>2
<1>8. FoundInv'
  <2> SUFFICES ASSUME NEW l \in loads PROVE FoundOf(l)'
    BY DEF FoundInv
  <2>1. FoundOf(l)
    BY DEF KnowInv, FoundInv
  <2>2. ASSUME NEW b \in l.batches, NEW x \in b.todo, Cal(x.item) \notin blurred'
        PROVE  Cal(x.item) \in known /\ store'[x.item] = x.ver
    <3>1. Cal(x.item) = b.cal /\ Cal(x.item) \in known /\ store[x.item] = x.ver
      BY <1>1, <2>1, <2>2 DEF FoundOf, Right
    <3>2. x.item \in Items
      BY <2>2 DEF ShapeInv, LoadType, BatchType, EntryType
    <3>3. CASE x.item = i
      <4>1. b \in Batches(Cal(i))
        BY <3>1, <3>3 DEF Batches
      <4> QED BY <1>1, <2>2, <3>1, <3>3, <4>1
    <3> QED BY <1>1, <3>1, <3>2, <3>3
  <2> QED BY <1>1, <2>1, <2>2 DEF FoundOf, Right, Cal
<1>9. WantedInv'
  <2> SUFFICES ASSUME NEW j \in Items, WantedHere(j)'
               PROVE  Lists(alarms', j, store'[j]) \/ \E l \in loads' : AwaitedIn(l, j)'
    BY DEF WantedInv
  <2>1. CASE j = i
    <3>1. Cal(i) \in known /\ Cal(i) \notin muted /\ v # NoItem /\ Wanted(v)
      BY <1>1, <2>1 DEF WantedHere, Wanted, Cal
    <3> QED BY <1>1, <2>1, <3>1 DEF NotifiedWell
  <2>2. CASE j # i
    <3>1. WantedHere(j) /\ store'[j] = store[j]
      BY <1>1, <2>2 DEF WantedHere, Wanted, Cal
    <3>2. Lists(alarms, j, store[j]) \/ \E l \in loads : AwaitedIn(l, j)
      BY <3>1 DEF KnowInv, WantedInv
    <3>3. store[j] \in Version
      BY <3>1 DEF WantedHere, ShapeInv
    <3>4. Lists(alarms, j, store[j]) => Lists(alarms', j, store[j])
      BY <2>2, <3>3 DEF NotifiedWell, Others
    <3> QED BY <3>1, <3>2, <3>4 DEF AwaitedIn, Cal
  <2> QED BY <2>1, <2>2
<1> QED BY <1>6, <1>7, <1>8, <1>9 DEF KnowInv

\* A calendar starts from scratch, with what is stored in it now.
Afreshly(c) ==
    /\ \A i \in Items : Cal(i) # c => store'[i] = store[i]
    /\ known' \ {c} = known \ {c} /\ c \in known'
    /\ muted' \ {c} = muted \ {c}
    /\ blurred' \ {c} = blurred \ {c}
    /\ c \notin blurred' =>
          \/ Batches(c) = {} /\ Orphans(c) = {}
          \/ c \notin blurred /\ store' = store

LEMMA InitSearchKnow ==
    ASSUME ShapeInv, ShapeInv', KnowInv, NEW c \in Calendars, Afreshly(c),
           Without(alarms, alarms', c), Begins({c}, -1, muted'),
           UNCHANGED <<now, mRangeEnd>>
    PROVE  KnowInv'
<1>1. c \notin blurred' => Orphans(c) = {}
  BY DEF Afreshly, KnowInv, OrphanInv, Orphans
<1>2. /\ \A x \in alarms'.mAlarms : x \in alarms.mAlarms /\ Cal(x.item) # c
      /\ \A t \in alarms'.timers : t \in alarms.timers /\ (Cal(t.item) = c => ~t.mapped)
  BY DEF Without
<1>3. ASSUME c \notin blurred', NEW x \in alarms'.mAlarms \cup alarms'.timers
      PROVE  Cal(x.item) # c
  BY <1>1, <1>2, <1>3 DEF Orphans
<1>4. \A e \in Calendars : e # c => /\ e \in known' <=> e \in known
                                    /\ e \in muted' <=> e \in muted
                                    /\ e \in blurred' <=> e \in blurred
  BY DEF Afreshly
<1>5. \A x \in alarms'.mAlarms \cup alarms'.timers : x.item \in Items /\ Cal(x.item) \in Calendars
  BY ItemFacts DEF ShapeInv, AlarmsType, EntryType, TimerType
<1>6. OrphanInv'
  <2> SUFFICES ASSUME NEW t \in alarms'.timers, ~t.mapped, Cal(t.item) \notin blurred'
               PROVE  FALSE
    BY DEF OrphanInv, Cal
  <2>1. Cal(t.item) # c
    BY <1>3
  <2> QED BY <1>2, <1>4, <1>5, <2>1 DEF KnowInv, OrphanInv
<1>7. ListedInv'
  <2> SUFFICES ASSUME NEW x \in alarms'.mAlarms \cup alarms'.timers,
                      Cal(x.item) \notin blurred'
               PROVE  Cal(x.item) \in known' /\ store'[x.item] = x.ver
    BY DEF ListedInv, Right, Cal
  <2>1. Cal(x.item) # c
    BY <1>3
  <2>2. Right(x)
    BY <1>2 DEF KnowInv, ListedInv
  <2> QED BY <1>4, <1>5, <2>1, <2>2 DEF Right, Afreshly
<1>8. FoundInv'
  <2> SUFFICES ASSUME NEW l \in loads' PROVE FoundOf(l)'
    BY DEF FoundInv
  <2>1. CASE l \notin loads
    <3>1. l.asked = {c} \ muted' /\ l.open = {} /\ l.batches = {}
      BY <2>1 DEF Begins
    <3>2. c \in known'
      BY DEF Afreshly
    <3> QED BY <3>1, <3>2 DEF FoundOf
  <2>2. CASE l \in loads
    <3>1. FoundOf(l)
      BY <2>2 DEF KnowInv, FoundInv
    <3>2. l \in LoadType
      BY <2>2 DEF ShapeInv
    <3>3. l.asked \cup l.open \subseteq known' \cup blurred'
      BY <1>4, <3>1, <3>2 DEF FoundOf, LoadType, Afreshly
    <3>4. ASSUME NEW b \in l.batches, NEW x \in b.todo, Cal(x.item) \notin blurred'
          PROVE  Cal(x.item) \in known' /\ store'[x.item] = x.ver
      <4>1. Cal(x.item) = b.cal /\ Right(x)
        BY <3>1, <3>4 DEF FoundOf
      <4>2. x.item \in Items /\ Cal(x.item) \in Calendars
        BY <3>2, <3>4, ItemFacts DEF LoadType, BatchType, EntryType
      <4>3. CASE Cal(x.item) # c
        BY <1>4, <3>4, <4>1, <4>2, <4>3 DEF Right, Afreshly
      <4>4. CASE Cal(x.item) = c
        <5>1. b \in Batches(c)
          <6>1. b.cal = c
            BY <4>1, <4>4
          <6> QED BY <2>2, <6>1 DEF Batches
        <5>2. c \notin blurred /\ store' = store /\ c \in known'
          BY <3>4, <4>4, <5>1 DEF Afreshly
        <5> QED BY <4>1, <4>4, <5>2 DEF Right
      <4> QED BY <4>3, <4>4
    <3> QED BY <3>1, <3>3, <3>4 DEF FoundOf, Right, Cal
  <2> QED BY <2>1, <2>2
<1>9. WantedInv'
  <2> SUFFICES ASSUME NEW j \in Items, WantedHere(j)'
               PROVE  Lists(alarms', j, store'[j]) \/ \E l \in loads' : AwaitedIn(l, j)'
    BY DEF WantedInv
  <2>1. CASE Cal(j) = c
    <3>1. c \notin muted' /\ store'[j] # NoItem
      BY <2>1 DEF WantedHere, Cal
    <3>2. store'[j] \in Version
      BY <3>1 DEF ShapeInv
    <3>3. store'[j].end >= -1
      BY <3>2 DEF Version
    <3>4. PICK l \in loads' : l.start = -1 /\ l.asked = {c} \ muted'
      BY <3>1 DEF Begins
    <3> QED BY <2>1, <3>1, <3>3, <3>4 DEF AwaitedIn, Cal
  <2>2. CASE Cal(j) # c
    <3>1. store'[j] = store[j] /\ Cal(j) \in Calendars
      BY <2>2, ItemFacts DEF Afreshly
    <3>2. WantedHere(j)
      BY <1>4, <2>2, <3>1 DEF WantedHere, Wanted, Cal
    <3>3. Lists(alarms, j, store[j]) \/ \E l \in loads : AwaitedIn(l, j)
      BY <3>2 DEF KnowInv, WantedInv
    <3>4. Lists(alarms, j, store[j]) => Lists(alarms', j, store[j])
      BY <2>2 DEF Lists, Without
    <3>5. loads \subseteq loads'
      BY DEF Begins
    <3> QED BY <3>1, <3>3, <3>4, <3>5 DEF AwaitedIn, Cal
  <2> QED BY <2>1, <2>2
<1> QED BY <1>6, <1>7, <1>8, <1>9 DEF KnowInv

\* An answer to a search brings what is stored, and what is awaited is found.
LEMMA HearsKnow ==
    ASSUME ShapeInv, KnowInv, NEW l \in loads, NEW m, Hears(l, m), FoundOf(m),
           \A t \in alarms'.timers : ~t.mapped => Cal(t.item) \in blurred,
           \A x \in alarms'.mAlarms \cup alarms'.timers : Right(x),
           \A i \in Items : WantedHere(i) =>
              /\ Lists(alarms, i, store[i]) => Lists(alarms', i, store[i])
              /\ AwaitedIn(l, i) => AwaitedIn(m, i) \/ Lists(alarms', i, store[i])
    PROVE  KnowInv'
<1>1. UNCHANGED <<now, mRangeEnd, store, known, muted, blurred>>
  BY DEF Hears, world
<1>2. /\ \A k \in loads' : k \in loads \/ k = m
      /\ \A k \in loads : k = l \/ k \in loads'
      /\ m \in loads' \/ (Part(m) = {} /\ m.batches = {})
  <2>1. m \in LoadType /\ m.no = l.no /\ Update(l, m)
    BY DEF Hears
  <2> QED BY <2>1, UpdateIs
<1>3. OrphanInv'
  BY <1>1 DEF OrphanInv
<1>4. ListedInv'
  BY <1>1 DEF ListedInv, Right
<1>5. FoundInv'
  <2> SUFFICES ASSUME NEW k \in loads' PROVE FoundOf(k)'
    BY DEF FoundInv
  <2>1. FoundOf(k)
    BY <1>2 DEF KnowInv, FoundInv
  <2> QED BY <1>1, <2>1 DEF FoundOf, Right
<1>6. WantedInv'
  <2> SUFFICES ASSUME NEW i \in Items, WantedHere(i)'
               PROVE  Lists(alarms', i, store'[i]) \/ \E k \in loads' : AwaitedIn(k, i)'
    BY DEF WantedInv
  <2>1. WantedHere(i) /\ store'[i] = store[i]
    BY <1>1 DEF WantedHere, Wanted
  <2>2. CASE Lists(alarms, i, store[i])
    BY <2>1, <2>2
  <2>3. CASE \E k \in loads : AwaitedIn(k, i)
    <3>1. PICK k \in loads : AwaitedIn(k, i)
      BY <2>3
    <3>2. CASE k # l
      BY <1>1, <1>2, <3>1, <3>2 DEF AwaitedIn
    <3>3. CASE k = l /\ ~Lists(alarms', i, store[i])
      <4>1. AwaitedIn(m, i)
        BY <2>1, <3>1, <3>3
      <4>2. m \in loads'
        BY <1>2, <4>1 DEF AwaitedIn, Part
      <4> QED BY <1>1, <4>1, <4>2 DEF AwaitedIn
    <3> QED BY <2>1, <3>2, <3>3
  <2> QED BY <2>1, <2>2, <2>3 DEF KnowInv, WantedInv
<1> QED BY <1>3, <1>4, <1>5, <1>6 DEF KnowInv

-----------------------------------------------------------------------------
(* The steps.                                                                *)

\* The dialog and the searches, where no search begins or is answered.
LEMMA KeepsLoading ==
    ASSUME ShapeInv, LoadInv, DialogInv, Keeps(alarms, alarms'), UNCHANGED loads
    PROVE  /\ LoadInv' /\ DialogInv'
           /\ alarms' \in AlarmsType /\ OneMapped(alarms'.timers)
<1>1. alarms' \in AlarmsType /\ OneMapped(alarms'.timers) /\ alarms'.loaded = alarms.loaded
  BY DEF Keeps, ShapeInv
<1>2. Shows(alarms') /\ (Idle(alarms') => Idle(alarms))
  BY DEF Keeps, KeepsDialog, DialogInv
<1>3. LoadInv'
  BY <1>1 DEF LoadInv, LoadingEnds, Waits
<1>4. DialogInv'
  BY <1>2 DEF DialogInv, Part, Shows, Idle, IsLoading
<1> QED BY <1>1, <1>3, <1>4

\* Nothing is learnt and nothing forgotten, and no more is wanted.
LEMMA NothingLearnt ==
    ASSUME KnowInv, alarms'.mAlarms = alarms.mAlarms, alarms'.timers = alarms.timers,
           UNCHANGED <<world, loads, blurred>>,
           \A i \in Items : WantedHere(i)' => WantedHere(i)
    PROVE  KnowInv'
<1>1. OrphanInv' /\ ListedInv'
  BY DEF KnowInv, OrphanInv, ListedInv, Right, world
<1>2. FoundInv'
  <2> SUFFICES ASSUME NEW k \in loads PROVE FoundOf(k)'
    BY DEF FoundInv
  <2>1. FoundOf(k)
    BY DEF KnowInv, FoundInv
  <2> QED BY <2>1 DEF FoundOf, Right, world
<1>3. WantedInv'
  <2> SUFFICES ASSUME NEW i \in Items, WantedHere(i)
               PROVE  Lists(alarms', i, store'[i]) \/ \E k \in loads' : AwaitedIn(k, i)'
    BY DEF WantedInv
  <2> QED BY DEF KnowInv, WantedInv, Lists, AwaitedIn, world
<1> QED BY <1>1, <1>2, <1>3 DEF KnowInv

LEMMA InitAlarm == Init => AlarmInv
<1> SUFFICES ASSUME Init PROVE AlarmInv
  OBVIOUS
<1>1. Nothing \in AlarmsType /\ Nothing.timers = {} /\ Nothing.mAlarms = {} /\ Nothing.window = "closed"
      /\ \A c \in Calendars : Nothing.loaded[c] = "none"
  BY DEF Nothing, AlarmsType
<1>2. known \in SUBSET Calendars /\ muted = {} /\ blurred = {} /\ requests = {} /\ now = 0
      /\ mRangeEnd = Hours
  BY DEF Init
<1>3. Starts(Nothing, alarms, known, muted)
  BY <1>1, <1>2, StartIs DEF Init
<1>4. alarms \in AlarmsType /\ alarms.timers = {} /\ alarms.mAlarms = {}
      /\ Shows(alarms) /\ ~Idle(alarms)
      /\ \A c \in Calendars : alarms.loaded[c] = IF c \in known THEN "no" ELSE "none"
  BY <1>1, <1>2, <1>3 DEF Starts, Shows, Idle
<1> DEFINE first == Load(0, -1, known)
<1>5. /\ first \in LoadType /\ first.start = -1 /\ first.asked = known
      /\ first.open = {} /\ first.batches = {} /\ Waits(first)
  BY <1>2 DEF Load, LoadType, Waits
<1>6. loads = IF known = {} THEN {} ELSE {first}
  BY DEF Init
<1> HIDE DEF first
<1>7. ShapeInv
  <2>1. store \in [Items -> Version \cup {NoItem}]
    BY ItemFacts DEF Init
  <2>2. now \in 0..MaxTime /\ mRangeEnd \in now..(MaxTime + Hours)
    BY <1>2, ConstantsAssumption
  <2>3. IsFiniteSet(loads) /\ Numbered(loads) /\ loads \subseteq LoadType
    BY <1>5, <1>6, FS_EmptySet, FS_Singleton DEF Numbered
  <2> QED BY <1>2, <1>4, <2>1, <2>2, <2>3 DEF ShapeInv, OneMapped
<1>8. LoadInv
  BY <1>4, <1>5, <1>6 DEF LoadInv, LoadingEnds
<1>9. DialogInv
  BY <1>4 DEF DialogInv
<1>10. OrphanInv /\ ListedInv
  BY <1>4 DEF OrphanInv, ListedInv
<1>11. FoundInv
  BY <1>5, <1>6 DEF FoundInv, FoundOf
<1>12. WantedInv
  <2> SUFFICES ASSUME NEW i \in Items, WantedHere(i)
               PROVE  \E l \in loads : AwaitedIn(l, i)
    BY DEF WantedInv
  <2>1. store[i] \in Version /\ Cal(i) \in known
    BY <1>7 DEF WantedHere, ShapeInv
  <2>2. store[i].end >= -1
    BY <2>1 DEF Version
  <2> QED BY <1>5, <1>6, <2>1, <2>2 DEF AwaitedIn
<1> QED BY <1>7, <1>8, <1>9, <1>10, <1>11, <1>12 DEF AlarmInv, KnowInv

LEMMA TickAlarm == AlarmInv /\ Tick => AlarmInv'
<1> SUFFICES ASSUME AlarmInv, Tick PROVE AlarmInv'
  OBVIOUS
<1>1. now' = now + 1 /\ UNCHANGED <<mRangeEnd, world, loads, alarms, requests, left, blurred>>
  BY DEF Tick
<1>2. ShapeInv'
  <2>1. now' \in 0..MaxTime /\ mRangeEnd' \in now'..(MaxTime + Hours)
    BY ConstantsAssumption DEF AlarmInv, ShapeInv, Tick
  <2> QED BY <1>1, <2>1 DEF AlarmInv, ShapeInv, world
<1>3. LoadInv' /\ DialogInv'
  <2>1. Keeps(alarms, alarms')
    BY <1>1 DEF AlarmInv, ShapeInv, Keeps, KeepsDialog
  <2> QED BY <1>1, <2>1, KeepsLoading DEF AlarmInv
<1>4. ASSUME NEW i \in Items, WantedHere(i)' PROVE WantedHere(i)
  <2>1. store' = store /\ store[i] \in Version
    BY <1>1, <1>4 DEF AlarmInv, ShapeInv, WantedHere, world
  <2>2. Due(store[i]) \in Int /\ now \in Int
    BY <2>1, DueIsTime DEF AlarmInv, ShapeInv
  <2> QED BY <1>1, <1>4, <2>1, <2>2 DEF WantedHere, Wanted, world
<1>5. KnowInv'
  BY <1>1, <1>4, NothingLearnt DEF AlarmInv
<1> QED BY <1>2, <1>3, <1>5 DEF AlarmInv

\* A timer that fires is exchanged for an entry of the list, unless its calendar is mute.
LEMMA TimerFiresAlarm ==
    ASSUME AlarmInv, NEW t \in DueTimers, TimerFires(t) PROVE AlarmInv'
<1> DEFINE a == [alarms EXCEPT !.timers = @ \ {t}]
<1>1. t \in alarms.timers /\ t \in TimerType /\ t.item \in Items /\ t.ver \in Version
  BY DEF DueTimers, AlarmInv, ShapeInv, AlarmsType, TimerType
<1>2. /\ a \in AlarmsType
      /\ a.timers = alarms.timers \ {t} /\ a.mAlarms = alarms.mAlarms
      /\ a.loaded = alarms.loaded /\ a.window = alarms.window /\ a.widgets = alarms.widgets
  BY DEF AlarmInv, ShapeInv, AlarmsType
<1>3. UNCHANGED <<now, mRangeEnd, world, loads, requests, left, blurred>>
      /\ alarms' = AlarmFired(a, t.item, t.ver)
  BY DEF TimerFires
<1> HIDE DEF a
<1>4. /\ alarms' \in AlarmsType
      /\ alarms'.timers = a.timers /\ alarms'.loaded = a.loaded
      /\ alarms'.mAlarms = IF Cal(t.item) \in muted THEN a.mAlarms
                           ELSE a.mAlarms \cup {Entry(t.item, t.ver)}
      /\ KeepsDialog(a, alarms')
  BY <1>1, <1>2, <1>3, AlarmFiredIs
<1>5. Keeps(alarms, alarms')
  <2>1. KeepsDialog(alarms, alarms')
    BY <1>2, <1>4 DEF KeepsDialog, Shows, Idle, IsLoading
  <2>2. OneMapped(alarms.timers) => OneMapped(alarms'.timers)
    BY <1>2, <1>4 DEF OneMapped
  <2> QED BY <1>2, <1>4, <2>1, <2>2 DEF Keeps
<1>6. /\ LoadInv' /\ DialogInv'
      /\ alarms' \in AlarmsType /\ OneMapped(alarms'.timers)
  BY <1>3, <1>5, KeepsLoading DEF AlarmInv
<1>7. ShapeInv'
  BY <1>3, <1>6 DEF AlarmInv, ShapeInv, world
<1>8. Right(t)
  BY <1>1 DEF AlarmInv, KnowInv, ListedInv
<1>9. OrphanInv'
  BY <1>2, <1>3, <1>4 DEF AlarmInv, KnowInv, OrphanInv
<1>10. ListedInv'
  <2> SUFFICES ASSUME NEW x \in alarms'.mAlarms \cup alarms'.timers PROVE Right(x)
    BY <1>3 DEF ListedInv, Right, world
  <2>1. x \in alarms.mAlarms \cup alarms.timers \/ x = Entry(t.item, t.ver)
    BY <1>2, <1>4
  <2> QED BY <1>1, <1>8, <2>1, EntryHasType DEF AlarmInv, KnowInv, ListedInv, Right
<1>11. FoundInv'
  <2> SUFFICES ASSUME NEW k \in loads PROVE FoundOf(k)'
    BY <1>3 DEF FoundInv
  <2>1. FoundOf(k)
    BY DEF AlarmInv, KnowInv, FoundInv
  <2> QED BY <1>3, <2>1 DEF FoundOf, Right, world
<1>12. WantedInv'
  <2> SUFFICES ASSUME NEW i \in Items, WantedHere(i)
               PROVE  Lists(alarms', i, store[i]) \/ \E k \in loads : AwaitedIn(k, i)
    BY <1>3 DEF WantedInv, WantedHere, Wanted, AwaitedIn, world
  <2>1. CASE Lists(alarms, i, store[i])
    <3>1. PICK x \in alarms.mAlarms \cup alarms.timers : x.item = i /\ x.ver = store[i]
      BY <2>1 DEF Lists
    <3>2. CASE x # t
      BY <1>2, <1>4, <3>1, <3>2 DEF Lists
    <3>3. CASE x = t
      <4>1. Entry(t.item, t.ver) \in alarms'.mAlarms
        BY <1>4, <3>1, <3>3 DEF WantedHere
      <4> QED BY <1>1, <3>1, <3>3, <4>1, EntryHasType DEF Lists
    <3> QED BY <3>2, <3>3
  <2>2. CASE ~Lists(alarms, i, store[i])
    BY <2>2 DEF AlarmInv, KnowInv, WantedInv
  <2> QED BY <2>1, <2>2
<1> QED BY <1>6, <1>7, <1>9, <1>10, <1>11, <1>12 DEF AlarmInv, KnowInv

\* A search of all the calendars that are registered.
LEMMA SearchAllKnow ==
    ASSUME ShapeInv, KnowInv, NEW start, Begins(known, start, muted),
           alarms'.mAlarms = alarms.mAlarms, alarms'.timers \subseteq alarms.timers,
           UNCHANGED <<world, blurred>>,
           \A i \in Items : WantedHere(i)' =>
              \/ store[i].end >= start
              \/ WantedHere(i) /\ (Lists(alarms, i, store[i]) => Lists(alarms', i, store[i]))
    PROVE  KnowInv'
<1>1. OrphanInv' /\ ListedInv'
  BY DEF KnowInv, OrphanInv, ListedInv, Right, world
<1>2. FoundInv'
  <2> SUFFICES ASSUME NEW k \in loads' PROVE FoundOf(k)'
    BY DEF FoundInv
  <2>1. FoundOf(k)
    BY DEF KnowInv, FoundInv, Begins, FoundOf
  <2> QED BY <2>1 DEF FoundOf, Right, world
<1>3. WantedInv'
  <2> SUFFICES ASSUME NEW i \in Items, WantedHere(i)'
               PROVE  Lists(alarms', i, store'[i]) \/ \E k \in loads' : AwaitedIn(k, i)'
    BY DEF WantedInv
  <2>1. Cal(i) \in known \ muted /\ store' = store
    BY DEF WantedHere, world
  <2>2. CASE store[i].end >= start
    <3>1. PICK k \in loads' : k.start = start /\ k.asked = known \ muted
      BY <2>1 DEF Begins
    <3> QED BY <2>1, <2>2, <3>1 DEF AwaitedIn
  <2>3. CASE WantedHere(i) /\ (Lists(alarms, i, store[i]) => Lists(alarms', i, store[i]))
    <3>1. Lists(alarms, i, store[i]) \/ \E k \in loads : AwaitedIn(k, i)
      BY <2>3 DEF KnowInv, WantedInv
    <3>2. loads \subseteq loads'
      BY DEF Begins
    <3> QED BY <2>1, <2>3, <3>1, <3>2 DEF AwaitedIn
  <2> QED BY <2>2, <2>3
<1> QED BY <1>1, <1>2, <1>3 DEF KnowInv

\* What is newly in the range was not over when the last one ended.
LEMMA PeriodicSearchAlarm == AlarmInv /\ PeriodicSearch => AlarmInv'
<1> SUFFICES ASSUME AlarmInv, PeriodicSearch PROVE AlarmInv'
  OBVIOUS
<1>1. /\ now = mRangeEnd /\ mRangeEnd' = now + Hours
      /\ alarms' = Start(alarms, known, muted)
      /\ loads' = loads \cup Search(known, mRangeEnd, muted)
      /\ UNCHANGED <<now, world, requests, left, blurred>>
  BY DEF PeriodicSearch
<1>2. /\ now \in Int /\ mRangeEnd \in Int /\ known \in SUBSET Calendars
      /\ alarms \in AlarmsType
  BY ConstantsAssumption DEF AlarmInv, ShapeInv
<1>3. Starts(alarms, alarms', known, muted)
  BY <1>1, <1>2, StartIs
<1>4. Shows(alarms) /\ OneMapped(alarms.timers)
  BY DEF AlarmInv, ShapeInv, DialogInv
<1>5. Searches(known, mRangeEnd, muted)
  BY <1>1, <1>2, <1>3, <1>4 DEF Searches, Starts
<1>6. LoadInv' /\ DialogInv'
  BY <1>5, SearchesLoading DEF AlarmInv
<1>7. /\ loads' \subseteq LoadType /\ IsFiniteSet(loads') /\ Numbered(loads')
      /\ Begins(known, mRangeEnd, muted)
  BY <1>1, <1>2, SearchIs DEF AlarmInv
<1>8. ShapeInv'
  <2>1. mRangeEnd' \in now'..(MaxTime + Hours)
    BY <1>1, ConstantsAssumption DEF AlarmInv, ShapeInv
  <2> QED BY <1>1, <1>5, <1>7, <2>1 DEF AlarmInv, ShapeInv, Searches, world
<1>9. ASSUME NEW i \in Items, WantedHere(i)'
      PROVE  store[i].end >= mRangeEnd \/ WantedHere(i)
  <2>1. store' = store /\ store[i] \in Version
    BY <1>1, <1>9 DEF AlarmInv, ShapeInv, WantedHere, world
  <2>2. Due(store[i]) \in Int /\ store[i].end \in Int
    BY <2>1, DueIsTime DEF Version
  <2> QED BY <1>1, <1>2, <1>9, <2>1, <2>2 DEF WantedHere, Wanted, world
<1>10. alarms'.mAlarms = alarms.mAlarms /\ alarms'.timers = alarms.timers
  BY <1>3 DEF Starts
<1>11. KnowInv'
  <2>1. \A i \in Items : WantedHere(i)' =>
           \/ store[i].end >= mRangeEnd
           \/ WantedHere(i) /\ (Lists(alarms, i, store[i]) => Lists(alarms', i, store[i]))
    BY <1>9, <1>10 DEF Lists
  <2> QED BY <1>1, <1>7, <1>10, <2>1, SearchAllKnow DEF AlarmInv
<1> QED BY <1>6, <1>8, <1>11 DEF AlarmInv

\* After a sleep everything is searched for from the beginning.
LEMMA WakeAlarm ==
    ASSUME AlarmInv, NEW t \in now..MaxTime, Wake(t) PROVE AlarmInv'
<1> DEFINE a == DisposeCalendarTimers(alarms, known)
<1>1. /\ now' = t /\ mRangeEnd' = t + Hours
      /\ alarms' = Start(a, known, muted)
      /\ loads' = loads \cup Search(known, -1, muted)
      /\ UNCHANGED <<world, requests, blurred>>
  BY DEF Wake
<1>2. alarms \in AlarmsType /\ known \in SUBSET Calendars
  BY DEF AlarmInv, ShapeInv
<1>3. /\ Keeps(alarms, a) /\ a.mAlarms = alarms.mAlarms
      /\ a.timers = {u \in alarms.timers : ~(u.mapped /\ Cal(u.item) \in known)}
  BY <1>2, DisposeIs
<1> HIDE DEF a
<1>4. Starts(a, alarms', known, muted)
  <2>1. a \in AlarmsType
    BY <1>3 DEF Keeps
  <2> QED BY <1>1, <1>2, <2>1, StartIs
<1>5. Shows(a) /\ (Idle(a) => Idle(alarms)) /\ OneMapped(a.timers) /\ a.loaded = alarms.loaded
  BY <1>3 DEF AlarmInv, ShapeInv, DialogInv, Keeps, KeepsDialog
<1>6. Searches(known, -1, muted)
  BY <1>1, <1>2, <1>4, <1>5 DEF Searches, Starts
<1>7. LoadInv' /\ DialogInv'
  BY <1>6, SearchesLoading DEF AlarmInv
<1>8. /\ loads' \subseteq LoadType /\ IsFiniteSet(loads') /\ Numbered(loads')
      /\ Begins(known, -1, muted)
  BY <1>1, <1>2, SearchIs DEF AlarmInv
<1>9. ShapeInv'
  <2>1. now' \in 0..MaxTime /\ mRangeEnd' \in now'..(MaxTime + Hours)
    BY <1>1, ConstantsAssumption DEF AlarmInv, ShapeInv
  <2> QED BY <1>1, <1>6, <1>8, <2>1 DEF AlarmInv, ShapeInv, Searches, world
<1>10. ASSUME NEW i \in Items, WantedHere(i)' PROVE store[i].end >= -1
  <2>1. store[i] \in Version
    BY <1>1, <1>10 DEF AlarmInv, ShapeInv, WantedHere, world
  <2> QED BY <2>1 DEF Version
<1>11. alarms'.mAlarms = alarms.mAlarms /\ alarms'.timers \subseteq alarms.timers
  BY <1>3, <1>4 DEF Starts
<1>12. KnowInv'
  BY <1>1, <1>8, <1>10, <1>11, SearchAllKnow DEF AlarmInv
<1> QED BY <1>7, <1>9, <1>12 DEF AlarmInv

\* A calendar starts from scratch: it is loaded again, or has changed, or is new.
LEMMA InitSearchAlarm ==
    ASSUME AlarmInv, NEW c \in Calendars, InitSearch(c, muted'), Afreshly(c),
           store' \in [Items -> Version \cup {NoItem}],
           known' \subseteq Calendars, muted' \subseteq Calendars, blurred' \subseteq Calendars,
           UNCHANGED <<now, mRangeEnd, requests>>
    PROVE  AlarmInv'
<1>1. /\ alarms' = InitAlarms(alarms, c, muted')
      /\ loads' = loads \cup Search({c}, -1, muted')
  BY DEF InitSearch
<1>2. alarms \in AlarmsType /\ Shows(alarms) /\ OneMapped(alarms.timers) /\ {c} \in SUBSET Calendars
  BY DEF AlarmInv, ShapeInv, DialogInv
<1>3. /\ alarms' \in AlarmsType /\ OneMapped(alarms'.timers)
      /\ Without(alarms, alarms', c)
      /\ \A e \in Calendars :
            alarms'.loaded[e] = IF e # c THEN alarms.loaded[e]
                                ELSE IF c \in muted' THEN "yes" ELSE "no"
      /\ Shows(alarms') /\ ~Idle(alarms')
  BY <1>1, <1>2, InitAlarmsIs
<1>4. Searches({c}, -1, muted')
  BY <1>1, <1>2, <1>3 DEF Searches
<1>5. LoadInv' /\ DialogInv'
  BY <1>4, SearchesLoading DEF AlarmInv
<1>6. /\ loads' \subseteq LoadType /\ IsFiniteSet(loads') /\ Numbered(loads')
      /\ Begins({c}, -1, muted')
  <2> DEFINE cs == {c}
  <2>1. cs \in SUBSET Calendars /\ loads' = loads \cup Search(cs, -1, muted')
    BY <1>1, <1>2
  <2>2. ShapeInv /\ -1 \in Int
    BY DEF AlarmInv
  <2> HIDE DEF cs
  <2>3. /\ loads' \subseteq LoadType /\ IsFiniteSet(loads') /\ Numbered(loads')
        /\ Begins(cs, -1, muted')
    BY <2>1, <2>2, SearchIs
  <2> QED BY <2>3 DEF cs
<1>7. ShapeInv'
  BY <1>3, <1>6 DEF AlarmInv, ShapeInv
<1>8. KnowInv'
  BY <1>3, <1>6, <1>7, InitSearchKnow DEF AlarmInv
<1> QED BY <1>5, <1>7, <1>8 DEF AlarmInv

LEMMA OnPropertyChangedAlarm ==
    ASSUME AlarmInv, NEW c \in Calendars, OnPropertyChanged(c) PROVE AlarmInv'
<1>1. /\ c \in known /\ InitSearch(c, muted') /\ blurred' = blurred \ Afresh(c)
      /\ muted' = IF c \in muted THEN muted \ {c} ELSE muted \cup {c}
      /\ UNCHANGED <<now, mRangeEnd, store, known, requests>>
  BY DEF OnPropertyChanged
<1>2. Afreshly(c)
  BY <1>1 DEF Afreshly, Afresh
<1> QED BY <1>1, <1>2, InitSearchAlarm DEF AlarmInv, ShapeInv

LEMMA OnCalendarRegisteredAlarm ==
    ASSUME AlarmInv, NEW c \in Calendars, OnCalendarRegistered(c) PROVE AlarmInv'
<1>1. /\ known' = known \cup {c} /\ InitSearch(c, muted) /\ blurred' = blurred \ Afresh(c)
      /\ UNCHANGED <<now, mRangeEnd, store, muted, requests>>
  BY DEF OnCalendarRegistered
<1>2. Afreshly(c)
  BY <1>1 DEF Afreshly, Afresh
<1> QED BY <1>1, <1>2, InitSearchAlarm DEF AlarmInv, ShapeInv

\* A reload that is heard begins a search; one that is not may leave something unknown.
LEMMA OnLoadAlarm ==
    ASSUME AlarmInv, NEW i \in Items, NEW v \in Version \cup {NoItem}, OnLoad(Cal(i), i, v)
    PROVE  AlarmInv'
<1> DEFINE c == Cal(i)
<1>1. c \in Calendars /\ c \in known
  BY ItemFacts DEF OnLoad
<1>2. store' = [store EXCEPT ![i] = v] /\ UNCHANGED <<now, mRangeEnd, known, muted, requests>>
  BY DEF OnLoad
<1>3. /\ store' \in [Items -> Version \cup {NoItem}] /\ store'[i] = v
      /\ \A j \in Items : j # i => store'[j] = store[j]
      /\ v = store[i] => store' = store
  BY <1>2 DEF AlarmInv, ShapeInv
<1>4. CASE alarms.loaded[c] = "yes" /\ InitSearch(c, muted)
           /\ blurred' = (blurred \cup Stale(i, v)) \ Afresh(c)
  <2>1. Stale(i, v) \subseteq {c} /\ Afresh(c) \subseteq {c}
    BY DEF Stale, Afresh
  <2>2. \A j \in Items : Cal(j) # c => store'[j] = store[j]
    BY <1>3
  <2>3. ASSUME c \notin blurred'
        PROVE  \/ Batches(c) = {} /\ Orphans(c) = {}
               \/ c \notin blurred /\ store' = store
    <3>1. CASE c \in Afresh(c)
      BY <3>1 DEF Afresh
    <3>2. CASE c \notin Afresh(c)
      <4>1. c \notin blurred /\ c \notin Stale(i, v)
        BY <1>4, <2>3, <3>2
      <4>2. Orphans(c) = {}
        BY <4>1 DEF AlarmInv, KnowInv, OrphanInv, Orphans
      <4>3. v = store[i] \/ Batches(c) = {}
        BY <4>1 DEF Stale
      <4> QED BY <1>3, <4>1, <4>2, <4>3
    <3> QED BY <3>1, <3>2
  <2>4. blurred' \ {c} = blurred \ {c} /\ blurred' \subseteq Calendars
    BY <1>1, <1>4, <2>1 DEF AlarmInv, ShapeInv
  <2> HIDE DEF c
  <2>5. Afreshly(c)
    BY <1>1, <1>2, <2>2, <2>3, <2>4 DEF Afreshly
  <2> QED BY <1>1, <1>2, <1>3, <1>4, <2>4, <2>5, InitSearchAlarm DEF AlarmInv, ShapeInv
<1>5. CASE /\ UNCHANGED <<alarms, loads>>
           /\ blurred' = IF v = store[i] THEN blurred ELSE blurred \cup {c}
  <2>1. ShapeInv'
    BY <1>1, <1>2, <1>3, <1>5 DEF AlarmInv, ShapeInv
  <2>2. LoadInv' /\ DialogInv'
    <3>1. Keeps(alarms, alarms')
      BY <1>5 DEF AlarmInv, ShapeInv, Keeps, KeepsDialog
    <3> QED BY <1>5, <3>1, KeepsLoading DEF AlarmInv
  <2>3. CASE v = store[i]
    <3>1. UNCHANGED <<world, loads, blurred>>
      BY <1>2, <1>3, <1>5, <2>3 DEF world
    <3>2. \A j \in Items : WantedHere(j)' => WantedHere(j)
      BY <1>2, <3>1 DEF WantedHere, Wanted, world
    <3> QED BY <1>5, <2>1, <2>2, <3>1, <3>2, NothingLearnt DEF AlarmInv
  <2>4. CASE v # store[i]
    <3>1. blurred' = blurred \cup {c}
      BY <1>5, <2>4
    <3>2. ASSUME NEW x, x.item \in Items, Right(x) PROVE Right(x)'
      BY <1>2, <1>3, <3>1, <3>2 DEF Right, Cal
    <3>3. OrphanInv'
      BY <1>5, <3>1 DEF AlarmInv, KnowInv, OrphanInv
    <3>4. ListedInv'
      <4>1. \A x \in alarms.mAlarms \cup alarms.timers : x.item \in Items
        BY DEF AlarmInv, ShapeInv, AlarmsType, EntryType, TimerType
      <4> QED BY <1>5, <3>2, <4>1 DEF AlarmInv, KnowInv, ListedInv
    <3>5. FoundInv'
      <4> SUFFICES ASSUME NEW k \in loads PROVE FoundOf(k)'
        BY <1>5 DEF FoundInv
      <4>1. FoundOf(k)
        BY DEF AlarmInv, KnowInv, FoundInv
      <4>2. \A b \in k.batches : \A x \in b.todo : x.item \in Items
        BY DEF AlarmInv, ShapeInv, LoadType, BatchType, EntryType
      <4>3. k.asked \cup k.open \subseteq known' \cup blurred'
        BY <1>2, <3>1, <4>1 DEF FoundOf
      <4> QED BY <3>2, <4>1, <4>2, <4>3 DEF FoundOf, Cal
    <3>6. WantedInv'
      <4> SUFFICES ASSUME NEW j \in Items, WantedHere(j)'
                   PROVE  Lists(alarms, j, store'[j]) \/ \E k \in loads : AwaitedIn(k, j)'
        BY <1>5 DEF WantedInv
      <4>1. j # i /\ Cal(j) \notin blurred
        BY <3>1 DEF WantedHere, Cal
      <4>2. store'[j] = store[j] /\ WantedHere(j)
        BY <1>2, <1>3, <4>1 DEF WantedHere, Wanted
      <4> QED BY <4>2 DEF AlarmInv, KnowInv, WantedInv, AwaitedIn
    <3> QED BY <2>1, <2>2, <3>3, <3>4, <3>5, <3>6 DEF AlarmInv, KnowInv
  <2> QED BY <2>3, <2>4
<1> QED BY <1>4, <1>5 DEF OnLoad

\* An item changes: by its user, or because the dialog has asked for it.
LEMMA ChangeAlarm ==
    ASSUME AlarmInv, NEW i \in Items, NEW v \in Version \cup {NoItem}, Changes(i, v),
           alarms' = IF Cal(i) \in known THEN Notified(alarms, i, store[i], v) ELSE alarms,
           UNCHANGED <<now, mRangeEnd, known, muted, loads>>,
           requests' \subseteq RequestType
    PROVE  AlarmInv'
<1>1. alarms \in AlarmsType /\ store[i] \in Version \cup {NoItem}
  BY DEF AlarmInv, ShapeInv
<1>2. NotifiedWell(alarms, Notified(alarms, i, store[i], v), i, store[i], v)
  BY <1>1, NotifiedIs DEF AlarmInv
<1>3. Keeps(alarms, alarms')
  BY <1>1, <1>2 DEF NotifiedWell, Keeps, KeepsDialog
<1>4. /\ LoadInv' /\ DialogInv'
      /\ alarms' \in AlarmsType /\ OneMapped(alarms'.timers)
  BY <1>3, KeepsLoading DEF AlarmInv
<1>5. store' \in [Items -> Version \cup {NoItem}] /\ blurred' \subseteq Calendars
  BY ItemFacts DEF AlarmInv, ShapeInv, Changes, Stale
<1>6. ShapeInv'
  BY <1>4, <1>5 DEF AlarmInv, ShapeInv
<1>7. KnowInv'
  BY <1>2, ChangeKnow DEF AlarmInv
<1> QED BY <1>4, <1>6, <1>7 DEF AlarmInv

LEMMA EditAlarm ==
    ASSUME AlarmInv, NEW i \in Items, NEW v \in Versions \cup {NoItem}, Edit(i, v)
    PROVE  AlarmInv'
<1>1. v \in Version \cup {NoItem}
  BY ItemFacts
<1> QED BY <1>1, ChangeAlarm DEF Edit, AlarmInv, ShapeInv

LEMMA ModifyItemAlarm ==
    ASSUME AlarmInv, NEW r \in requests, ModifyItem(r) PROVE AlarmInv'
<1>1. r.item \in Items /\ r.new \in Version /\ requests' \subseteq RequestType
  BY DEF AlarmInv, ShapeInv, RequestType, ModifyItem
<1>2. UNCHANGED <<now, mRangeEnd, known, muted, loads, left>>
  BY DEF ModifyItem
<1>3. CASE UNCHANGED <<store, alarms, blurred>>
  <2>1. ShapeInv'
    BY <1>1, <1>2, <1>3 DEF AlarmInv, ShapeInv
  <2>2. LoadInv' /\ DialogInv'
    <3>1. Keeps(alarms, alarms')
      BY <1>3 DEF AlarmInv, ShapeInv, Keeps, KeepsDialog
    <3> QED BY <1>2, <3>1, KeepsLoading DEF AlarmInv
  <2>3. KnowInv'
    <3>1. \A i \in Items : WantedHere(i)' => WantedHere(i)
      BY <1>2, <1>3 DEF WantedHere, Wanted
    <3> QED BY <1>2, <1>3, <3>1, NothingLearnt DEF AlarmInv, world
  <2> QED BY <2>1, <2>2, <2>3 DEF AlarmInv
<1>4. CASE /\ store[r.item] = r.old /\ Changes(r.item, r.new)
           /\ alarms' = IF Cal(r.item) \in known THEN Notified(alarms, r.item, r.old, r.new)
                        ELSE alarms
  BY <1>1, <1>2, <1>4, ChangeAlarm
<1> QED BY <1>3, <1>4 DEF ModifyItem

\* A calendar that goes takes with it all that is rightly known of it.
LEMMA OnCalendarUnregisteringAlarm ==
    ASSUME AlarmInv, NEW c \in Calendars, OnCalendarUnregistering(c) PROVE AlarmInv'
<1> DEFINE a == UnobserveCalendar(alarms, c)
<1>1. /\ known' = known \ {c}
      /\ alarms' = a \/ alarms' = [a EXCEPT !.loaded[c] = "none"]
      /\ blurred' = IF LoadsOf(c) = {} THEN blurred ELSE blurred \cup {c}
      /\ UNCHANGED <<now, mRangeEnd, store, muted, loads, requests>>
  BY DEF OnCalendarUnregistering
<1>2. alarms \in AlarmsType /\ Shows(alarms) /\ OneMapped(alarms.timers)
  BY DEF AlarmInv, ShapeInv, DialogInv
<1>3. Keeps(alarms, a) /\ Without(alarms, a, c)
  BY <1>2, UnobserveIs
<1> HIDE DEF a
<1>4. a \in AlarmsType /\ a.loaded = alarms.loaded /\ Shows(a) /\ (Idle(a) => Idle(alarms))
      /\ OneMapped(a.timers)
  BY <1>2, <1>3 DEF Keeps, KeepsDialog
<1>5. /\ alarms' \in AlarmsType
      /\ alarms'.timers = a.timers /\ alarms'.mAlarms = a.mAlarms
      /\ alarms'.window = a.window /\ alarms'.widgets = a.widgets
      /\ \A e \in Calendars : alarms'.loaded[e] = "no" => alarms.loaded[e] = "no"
  BY <1>1, <1>4 DEF AlarmsType
<1>6. ShapeInv'
  BY <1>1, <1>4, <1>5 DEF AlarmInv, ShapeInv
<1>7. LoadInv'
  BY <1>1, <1>5 DEF AlarmInv, LoadInv, LoadingEnds, Waits
<1>8. DialogInv'
  <2>1. Shows(alarms')
    BY <1>4, <1>5 DEF Shows
  <2>2. ASSUME Idle(alarms') PROVE \E l \in loads : Part(l) # {}
    <3>1. CASE \E e \in Calendars : alarms.loaded[e] = "no"
      BY <3>1 DEF AlarmInv, LoadInv, LoadingEnds, Part
    <3>2. CASE \A e \in Calendars : alarms.loaded[e] # "no"
      <4>1. Idle(a)
        BY <1>4, <1>5, <2>2, <3>2 DEF Idle, IsLoading
      <4> QED BY <1>4, <4>1 DEF AlarmInv, DialogInv
    <3> QED BY <3>1, <3>2
  <2> QED BY <1>1, <2>1, <2>2 DEF DialogInv, Part, Shows, Idle, IsLoading
<1>9. /\ blurred \subseteq blurred'
      /\ c \notin blurred' => LoadsOf(c) = {} /\ c \notin blurred
  BY <1>1
<1>10. /\ \A x \in alarms'.mAlarms : x \in alarms.mAlarms /\ Cal(x.item) # c
       /\ \A t \in alarms'.timers : t \in alarms.timers /\ (Cal(t.item) = c => ~t.mapped)
  BY <1>3, <1>5 DEF Without
<1>11. OrphanInv'
  BY <1>9, <1>10 DEF AlarmInv, KnowInv, OrphanInv
<1>12. ListedInv'
  <2> SUFFICES ASSUME NEW x \in alarms'.mAlarms \cup alarms'.timers,
                      Cal(x.item) \notin blurred'
               PROVE  Cal(x.item) \in known' /\ store[x.item] = x.ver
    BY <1>1 DEF ListedInv, Right, Cal
  <2>1. Cal(x.item) # c
    BY <1>9, <1>10 DEF AlarmInv, KnowInv, OrphanInv
  <2>2. Right(x)
    BY <1>10 DEF AlarmInv, KnowInv, ListedInv
  <2> QED BY <1>1, <1>9, <2>1, <2>2 DEF Right
<1>13. FoundInv'
  <2> SUFFICES ASSUME NEW l \in loads PROVE FoundOf(l)'
    BY <1>1 DEF FoundInv
  <2>1. FoundOf(l)
    BY DEF AlarmInv, KnowInv, FoundInv
  <2>2. ASSUME c \notin blurred'
        PROVE  c \notin l.asked \cup l.open /\ \A b \in l.batches : b.cal # c
    <3>1. LoadsOf(c) = {}
      BY <1>9, <2>2
    <3> QED BY <3>1 DEF LoadsOf
  <2>3. l.asked \cup l.open \subseteq known' \cup blurred'
    BY <1>1, <1>9, <2>1, <2>2 DEF FoundOf
  <2>4. ASSUME NEW b \in l.batches, NEW x \in b.todo, Cal(x.item) \notin blurred'
        PROVE  Cal(x.item) \in known' /\ store[x.item] = x.ver
    <3>1. Cal(x.item) = b.cal /\ Right(x)
      BY <2>1 DEF FoundOf
    <3>2. Cal(x.item) # c
      BY <2>2, <2>4, <3>1
    <3> QED BY <1>1, <1>9, <2>4, <3>1, <3>2 DEF Right
  <2> QED BY <1>1, <2>1, <2>3, <2>4 DEF FoundOf, Right, Cal
<1>14. WantedInv'
  <2> SUFFICES ASSUME NEW i \in Items, WantedHere(i)'
               PROVE  Lists(alarms', i, store[i]) \/ \E l \in loads : AwaitedIn(l, i)
    BY <1>1 DEF WantedInv, AwaitedIn, Cal
  <2>1. WantedHere(i) /\ Cal(i) # c
    BY <1>1, <1>9 DEF WantedHere, Wanted, Cal
  <2>2. Lists(alarms, i, store[i]) => Lists(alarms', i, store[i])
    BY <1>3, <1>5, <2>1 DEF Lists, Without
  <2> QED BY <2>1, <2>2 DEF AlarmInv, KnowInv, WantedInv
<1> QED BY <1>6, <1>7, <1>8, <1>11, <1>12, <1>13, <1>14 DEF AlarmInv, KnowInv

-----------------------------------------------------------------------------
(* The answers to a search.                                                  *)

\* A search that goes on.
LEMMA GoesOn ==
    ASSUME AlarmInv, NEW l \in loads, NEW m \in LoadType, m.no = l.no, m.start = l.start,
           Part(m) = Part(l), Waits(m), Update(l, m), Keeps(alarms, alarms'),
           UNCHANGED <<now, mRangeEnd, world, requests, blurred>>
    PROVE  Hears(l, m)
BY DEF AlarmInv, ShapeInv, DialogInv, Keeps, KeepsDialog, Hears

\* A search whose promise is resolved.
LEMMA Resolves ==
    ASSUME AlarmInv, NEW l \in loads, NEW m \in LoadType, m.no = l.no, m.start = l.start,
           Part(m) = Part(l), NEW a, Keeps(alarms, a), Resolve(a, l, m),
           UNCHANGED <<now, mRangeEnd, world, requests, blurred>>
    PROVE  LET n == [m EXCEPT !.resolved = TRUE, !.waiting = {}]
           IN  /\ Hears(l, n) /\ n.asked = m.asked /\ n.open = m.open /\ n.batches = m.batches
               /\ alarms'.timers = a.timers /\ alarms'.mAlarms = a.mAlarms
<1> DEFINE n == [m EXCEPT !.resolved = TRUE, !.waiting = {}]
<1>1. /\ n \in LoadType /\ n.no = m.no /\ n.start = m.start /\ n.asked = m.asked
      /\ n.open = m.open /\ n.batches = m.batches /\ n.waiting = {} /\ n.resolved
  BY DEF LoadType
<1>2. Update(l, n) /\ alarms' = Loaded(a, m.waiting)
  BY DEF Resolve
<1> HIDE DEF n
<1>3. a \in AlarmsType /\ a.loaded = alarms.loaded /\ Shows(a) /\ (Idle(a) => Idle(alarms))
      /\ OneMapped(a.timers)
  BY DEF AlarmInv, ShapeInv, DialogInv, Keeps, KeepsDialog
<1>4. /\ alarms' \in AlarmsType
      /\ alarms'.timers = a.timers /\ alarms'.mAlarms = a.mAlarms
      /\ \A c \in Calendars :
            alarms'.loaded[c] = IF c \in m.waiting THEN "yes" ELSE a.loaded[c]
      /\ Shows(a) => Shows(alarms')
      /\ Shows(a) /\ Idle(alarms') => m.waiting = {} /\ Idle(a)
  BY <1>2, <1>3, LoadedIs
<1>5. Part(n) = m.asked \cup m.open /\ Part(l) = Part(n) \cup m.waiting
  BY <1>1 DEF Part
<1>6. Waits(n)
  BY <1>1 DEF Waits
<1>7. \A c \in Calendars : alarms'.loaded[c] = "no" =>
         alarms.loaded[c] = "no" /\ (c \in Part(l) => c \in Part(n))
  BY <1>3, <1>4, <1>5
<1>8. Idle(alarms') => Idle(alarms) /\ (Part(l) # {} => Part(n) # {})
  BY <1>3, <1>4, <1>5
<1>9. Hears(l, n)
  BY <1>1, <1>2, <1>3, <1>4, <1>6, <1>7, <1>8 DEF Hears
<1> QED BY <1>1, <1>4, <1>9 DEF n

\* What is known after an answer that leaves timers and list alone.
LEMMA HearsQuietly ==
    ASSUME AlarmInv, NEW l \in loads, NEW m, Hears(l, m), FoundOf(m),
           alarms'.timers = alarms.timers, alarms'.mAlarms = alarms.mAlarms,
           \A i \in Items : WantedHere(i) /\ AwaitedIn(l, i) => AwaitedIn(m, i)
    PROVE  AlarmInv'
<1>1. ShapeInv' /\ LoadInv' /\ DialogInv'
  BY HearsLoading DEF AlarmInv
<1>2. \A t \in alarms'.timers : ~t.mapped => Cal(t.item) \in blurred
  BY DEF AlarmInv, KnowInv, OrphanInv
<1>3. \A x \in alarms'.mAlarms \cup alarms'.timers : Right(x)
  BY DEF AlarmInv, KnowInv, ListedInv
<1>4. \A i \in Items : Lists(alarms, i, store[i]) => Lists(alarms', i, store[i])
  BY DEF Lists
<1>5. KnowInv'
  BY <1>2, <1>3, <1>4, HearsKnow DEF AlarmInv
<1> QED BY <1>1, <1>5 DEF AlarmInv

LEMMA GetResultAlarm ==
    ASSUME AlarmInv, NEW l \in loads, NEW c \in Calendars, GetResult(l, c) PROVE AlarmInv'
<1> DEFINE found == {i \in Items : Cal(i) = c /\ Present(i) /\ store[i].end >= l.start}
           todo  == {Entry(i, store[i]) : i \in found}
           asks  == [l EXCEPT !.asked = @ \ {c}, !.open = @ \cup {c}]
           b     == [cal |-> c, todo |-> todo]
           m     == IF found = {} THEN asks
                    ELSE [asks EXCEPT !.results = TRUE, !.batches = @ \cup {b}]
<1>1. l \in LoadType /\ FoundOf(l) /\ Waits(l)
  BY DEF AlarmInv, ShapeInv, KnowInv, FoundInv, LoadInv
<1>2. c \in l.asked /\ Update(l, m)
      /\ UNCHANGED <<now, mRangeEnd, world, alarms, requests, left, blurred>>
  BY DEF GetResult
<1>3. \A i \in found : store[i] \in Version
  BY DEF AlarmInv, ShapeInv, Present
<1>4. \A x \in todo : x \in EntryType /\ Cal(x.item) = c /\ store[x.item] = x.ver
  BY <1>3, EntryHasType
<1>5. b \in BatchType /\ b.cal = c /\ b.todo = todo
  BY <1>4 DEF BatchType
<1>6. \A i \in found : \E x \in todo : x.item = i /\ x.ver = store[i]
  BY <1>3, EntryHasType
<1>7. /\ m \in LoadType /\ m.no = l.no /\ m.start = l.start
      /\ m.asked = l.asked \ {c} /\ m.open = l.open \cup {c} /\ m.waiting = l.waiting
      /\ m.batches = IF found = {} THEN l.batches ELSE l.batches \cup {b}
      /\ m.resolved = l.resolved
      /\ found = {} => m.results = l.results
  <2>1. /\ asks \in LoadType /\ asks.no = l.no /\ asks.start = l.start
        /\ asks.asked = l.asked \ {c} /\ asks.open = l.open \cup {c}
        /\ asks.waiting = l.waiting /\ asks.batches = l.batches
        /\ asks.resolved = l.resolved /\ asks.results = l.results
    BY <1>1 DEF LoadType
  <2> HIDE DEF asks, b, found
  <2>2. CASE found = {}
    BY <2>1, <2>2
  <2>3. CASE found # {}
    BY <1>5, <2>1, <2>3 DEF LoadType
  <2> QED BY <2>2, <2>3
<1> HIDE DEF m, b, todo
<1>8. Part(m) = Part(l)
  BY <1>2, <1>7 DEF Part
<1>9. Waits(m)
  <2>1. CASE found = {}
    BY <1>1, <1>7, <2>1 DEF Waits
  <2>2. CASE found # {}
    BY <1>1, <1>7, <2>2 DEF Waits
  <2> QED BY <2>1, <2>2
<1>10. Keeps(alarms, alarms')
  BY <1>2 DEF AlarmInv, ShapeInv, Keeps, KeepsDialog
<1>11. Hears(l, m)
  BY <1>2, <1>7, <1>8, <1>9, <1>10, GoesOn
<1>12. FoundOf(m)
  <2>1. m.asked \cup m.open \subseteq known \cup blurred
    BY <1>1, <1>2, <1>7 DEF FoundOf
  <2>2. ASSUME NEW d \in m.batches, NEW x \in d.todo PROVE Cal(x.item) = d.cal /\ Right(x)
    <3>1. CASE d \in l.batches
      BY <1>1, <3>1 DEF FoundOf
    <3>2. CASE d = b
      BY <1>1, <1>2, <1>4, <1>5, <3>2 DEF FoundOf, Right
    <3> QED BY <1>7, <3>1, <3>2
  <2> QED BY <2>1, <2>2 DEF FoundOf
<1>13. ASSUME NEW i \in Items, WantedHere(i), AwaitedIn(l, i) PROVE AwaitedIn(m, i)
  <2>1. CASE Cal(i) \in l.asked /\ store[i].end >= l.start /\ Cal(i) # c
    BY <1>7, <2>1 DEF AwaitedIn
  <2>2. CASE store[i].end >= l.start /\ Cal(i) = c
    <3>1. i \in found
      BY <1>13, <2>2 DEF WantedHere, Present
    <3>2. b \in m.batches
      BY <1>7, <3>1
    <3> QED BY <1>5, <1>6, <3>1, <3>2 DEF AwaitedIn
  <2>3. CASE \E d \in l.batches : \E x \in d.todo : x.item = i /\ x.ver = store[i]
    BY <1>7, <2>3 DEF AwaitedIn
  <2> QED BY <1>13, <2>1, <2>2, <2>3 DEF AwaitedIn
<1> QED BY <1>2, <1>11, <1>12, <1>13, HearsQuietly

LEMMA OperationCompleteAlarm ==
    ASSUME AlarmInv, NEW l \in loads, NEW c \in Calendars, OperationComplete(l, c)
    PROVE  AlarmInv'
<1> DEFINE m == [l EXCEPT !.open = @ \ {c}, !.waiting = @ \cup {c}]
<1>1. l \in LoadType /\ FoundOf(l) /\ Waits(l)
  BY DEF AlarmInv, ShapeInv, KnowInv, FoundInv, LoadInv
<1>2. /\ c \in l.open
      /\ IF l.resolved \/ ~l.results THEN Resolve(alarms, l, m)
         ELSE Update(l, m) /\ UNCHANGED alarms
      /\ UNCHANGED <<now, mRangeEnd, world, requests, left, blurred>>
  BY DEF OperationComplete
<1>3. /\ m \in LoadType /\ m.no = l.no /\ m.start = l.start
      /\ m.asked = l.asked /\ m.open = l.open \ {c} /\ m.waiting = l.waiting \cup {c}
      /\ m.batches = l.batches /\ m.resolved = l.resolved /\ m.results = l.results
  BY <1>1 DEF LoadType
<1> HIDE DEF m
<1>4. Part(m) = Part(l)
  BY <1>2, <1>3 DEF Part
<1>5. Keeps(alarms, alarms)
  BY DEF AlarmInv, ShapeInv, Keeps, KeepsDialog
<1>6. CASE l.resolved \/ ~l.results
  <2> DEFINE n == [m EXCEPT !.resolved = TRUE, !.waiting = {}]
  <2>1. Resolve(alarms, l, m)
    BY <1>2, <1>6
  <2>2. /\ Hears(l, n) /\ n.asked = m.asked /\ n.open = m.open /\ n.batches = m.batches
        /\ alarms'.timers = alarms.timers /\ alarms'.mAlarms = alarms.mAlarms
    BY <1>2, <1>3, <1>4, <1>5, <2>1, Resolves
  <2> HIDE DEF n
  <2>3. FoundOf(n)
    BY <1>1, <1>3, <2>2 DEF FoundOf
  <2>4. \A i \in Items : AwaitedIn(l, i) => AwaitedIn(n, i)
    BY <1>3, <2>2 DEF AwaitedIn, Hears
  <2> QED BY <2>2, <2>3, <2>4, HearsQuietly
<1>7. CASE ~(l.resolved \/ ~l.results)
  <2>1. Update(l, m) /\ UNCHANGED alarms
    BY <1>2, <1>7
  <2>2. Waits(m)
    BY <1>1, <1>3, <1>7 DEF Waits
  <2>3. Hears(l, m)
    BY <1>2, <1>3, <1>4, <1>5, <2>1, <2>2, GoesOn
  <2>4. FoundOf(m)
    BY <1>1, <1>3 DEF FoundOf
  <2>5. \A i \in Items : AwaitedIn(l, i) => AwaitedIn(m, i)
    BY <1>3 DEF AwaitedIn
  <2> QED BY <2>1, <2>3, <2>4, <2>5, HearsQuietly
<1> QED BY <1>6, <1>7

\* An item of a batch is worked off like a notification that it is as it is.
LEMMA BatchItemAlarm ==
    ASSUME AlarmInv, NEW l \in loads, NEW b \in l.batches, NEW x \in b.todo, BatchItem(l, b, x)
    PROVE  AlarmInv'
<1> DEFINE a    == AddAlarmsForItem(RemoveAlarmsForItem(alarms, x.item, x.ver), x.item, x.ver)
           other == [b EXCEPT !.todo = @ \ {x}]
           rest == IF b.todo = {x} THEN {} ELSE {other}
           m    == [l EXCEPT !.batches = (@ \ {b}) \cup rest]
           n    == [m EXCEPT !.resolved = TRUE, !.waiting = {}]
<1>1. /\ IF m.batches = {} THEN Resolve(a, l, m) ELSE Update(l, m) /\ alarms' = a
      /\ UNCHANGED <<now, mRangeEnd, world, requests, left, blurred>>
  BY DEF BatchItem
<1>2. l \in LoadType /\ b \in BatchType /\ FoundOf(l) /\ Waits(l)
  BY DEF AlarmInv, ShapeInv, LoadType, KnowInv, FoundInv, LoadInv
<1>3. x.item \in Items /\ x.ver \in Version /\ alarms \in AlarmsType
  BY <1>2 DEF BatchType, EntryType, AlarmInv, ShapeInv
<1>4. a = Notified(alarms, x.item, x.ver, x.ver)
  BY <1>3, ItemFacts DEF Notified
<1>5. NotifiedWell(alarms, a, x.item, x.ver, x.ver)
  BY <1>3, <1>4, NotifiedIs DEF AlarmInv
<1>6. other \in BatchType /\ other.cal = b.cal /\ other.todo = b.todo \ {x}
  BY <1>2 DEF BatchType
<1> HIDE DEF a, other
<1>7. /\ m \in LoadType /\ m.no = l.no /\ m.start = l.start
      /\ m.asked = l.asked /\ m.open = l.open /\ m.waiting = l.waiting
      /\ m.batches = (l.batches \ {b}) \cup rest
      /\ m.resolved = l.resolved /\ m.results = l.results
  BY <1>2, <1>6 DEF LoadType
<1> HIDE DEF m
<1>8. Keeps(alarms, a) /\ Part(m) = Part(l)
  BY <1>5, <1>7 DEF NotifiedWell, Part
<1>9. PICK k : /\ Hears(l, k) /\ k.asked = l.asked /\ k.open = l.open /\ k.batches = m.batches
               /\ alarms'.timers = a.timers /\ alarms'.mAlarms = a.mAlarms
  <2>1. CASE m.batches = {}
    <3>1. Resolve(a, l, m)
      BY <1>1, <2>1
    <3>2. /\ Hears(l, n) /\ n.asked = m.asked /\ n.open = m.open /\ n.batches = m.batches
          /\ alarms'.timers = a.timers /\ alarms'.mAlarms = a.mAlarms
      BY <1>1, <1>7, <1>8, <3>1, Resolves
    <3> QED BY <1>7, <3>2
  <2>2. CASE m.batches # {}
    <3>1. Update(l, m) /\ alarms' = a
      BY <1>1, <2>2
    <3>2. Waits(m)
      BY <1>2, <1>7, <2>2 DEF Waits
    <3>3. Hears(l, m)
      BY <1>1, <1>7, <1>8, <3>1, <3>2, GoesOn
    <3> QED BY <1>7, <3>1, <3>3
  <2> QED BY <2>1, <2>2
<1> HIDE DEF n
<1>10. ShapeInv' /\ LoadInv' /\ DialogInv'
  BY <1>9, HearsLoading DEF AlarmInv
<1>11. Cal(x.item) = b.cal /\ Right(x)
  BY <1>2 DEF FoundOf
<1>12. ASSUME Cal(x.item) \notin blurred
       PROVE  Cal(x.item) \in known /\ store[x.item] = x.ver /\ Only(a, x.item, x.ver)
  <2>1. Cal(x.item) \in known /\ store[x.item] = x.ver
    BY <1>11, <1>12 DEF Right
  <2>2. Only(alarms, x.item, x.ver)
    BY <1>3, <1>12, <2>1, KnownRightly, ItemFacts DEF AlarmInv
  <2> QED BY <1>3, <1>5, <2>1, <2>2, ItemFacts DEF NotifiedWell
<1>13. /\ \A y \in a.mAlarms : y \in alarms.mAlarms \/ y.item = x.item
       /\ \A t \in a.timers : t \in alarms.timers \/ t.item = x.item
  BY <1>5 DEF NotifiedWell, Others
<1>14. \A t \in alarms'.timers : ~t.mapped => Cal(t.item) \in blurred
  <2> SUFFICES ASSUME NEW t \in a.timers, ~t.mapped, Cal(t.item) \notin blurred PROVE FALSE
    BY <1>9
  <2>1. CASE t.item = x.item
    BY <1>12, <2>1 DEF Only
  <2>2. CASE t.item # x.item
    BY <1>13, <2>2 DEF AlarmInv, KnowInv, OrphanInv
  <2> QED BY <2>1, <2>2
<1>15. \A y \in alarms'.mAlarms \cup alarms'.timers : Right(y)
  <2> SUFFICES ASSUME NEW y \in a.mAlarms \cup a.timers PROVE Right(y)
    BY <1>9
  <2>1. CASE y.item = x.item
    BY <1>12, <2>1 DEF Only, Right
  <2>2. CASE y.item # x.item
    BY <1>13, <2>2 DEF AlarmInv, KnowInv, ListedInv
  <2> QED BY <2>1, <2>2
<1>16. FoundOf(k)
  <2>1. k.asked \cup k.open \subseteq known \cup blurred
    BY <1>2, <1>9 DEF FoundOf
  <2>2. ASSUME NEW d \in k.batches, NEW y \in d.todo PROVE Cal(y.item) = d.cal /\ Right(y)
    <3>1. CASE d \in l.batches
      BY <1>2, <3>1 DEF FoundOf
    <3>2. CASE d = other
      BY <1>2, <1>6, <3>2 DEF FoundOf
    <3> QED BY <1>7, <1>9, <3>1, <3>2
  <2> QED BY <2>1, <2>2 DEF FoundOf
<1>17. ASSUME NEW i \in Items, WantedHere(i)
       PROVE  /\ Lists(alarms, i, store[i]) => Lists(alarms', i, store[i])
              /\ AwaitedIn(l, i) => AwaitedIn(k, i) \/ Lists(alarms', i, store[i])
  <2>1. store[i] \in Version
    BY <1>17 DEF WantedHere, AlarmInv, ShapeInv
  <2>2. i = x.item => Lists(alarms', i, store[i])
    <3> SUFFICES ASSUME i = x.item PROVE Lists(alarms', i, store[i])
      OBVIOUS
    <3>1. store[i] = x.ver
      BY <1>12, <1>17 DEF WantedHere
    <3>2. Lists(a, i, store[i])
      BY <1>3, <1>5, <1>17, <3>1, ItemFacts DEF WantedHere, NotifiedWell
    <3> QED BY <1>9, <3>2 DEF Lists
  <2>3. i # x.item /\ Lists(alarms, i, store[i]) => Lists(alarms', i, store[i])
    <3> SUFFICES ASSUME i # x.item, Lists(alarms, i, store[i]) PROVE Lists(alarms', i, store[i])
      OBVIOUS
    <3>1. Lists(a, i, store[i])
      BY <1>5, <2>1 DEF NotifiedWell, Others
    <3> QED BY <1>9, <3>1 DEF Lists
  <2>4. i # x.item /\ AwaitedIn(l, i) => AwaitedIn(k, i)
    <3> SUFFICES ASSUME i # x.item, AwaitedIn(l, i) PROVE AwaitedIn(k, i)
      OBVIOUS
    <3>1. CASE Cal(i) \in l.asked /\ store[i].end >= l.start
      BY <1>9, <3>1 DEF AwaitedIn, Hears
    <3>2. CASE \E d \in l.batches : \E y \in d.todo : y.item = i /\ y.ver = store[i]
      <4>0. PICK d \in l.batches : \E y \in d.todo : y.item = i /\ y.ver = store[i]
        BY <3>2
      <4>1. PICK y \in d.todo : y.item = i /\ y.ver = store[i]
        BY <4>0
      <4>2. CASE d # b
        <5>1. d \in k.batches
          BY <1>7, <1>9, <4>2
        <5> QED BY <4>1, <5>1 DEF AwaitedIn
      <4>3. CASE d = b
        <5>1. y \in other.todo /\ b.todo # {x}
          BY <1>6, <4>1, <4>3
        <5>2. other \in k.batches
          BY <1>7, <1>9, <5>1
        <5> QED BY <4>1, <5>1, <5>2 DEF AwaitedIn
      <4> QED BY <4>2, <4>3
    <3> QED BY <3>1, <3>2 DEF AwaitedIn
  <2> QED BY <2>2, <2>3, <2>4
<1>18. KnowInv'
  BY <1>9, <1>14, <1>15, <1>16, <1>17, HearsKnow DEF AlarmInv
<1> QED BY <1>10, <1>18 DEF AlarmInv

-----------------------------------------------------------------------------
(* The dialog's own steps, and what all steps do.                            *)

\* Nothing but the dialog changes, and what has been asked of the calendars.
LEMMA DialogAlarm ==
    ASSUME AlarmInv, alarms' \in AlarmsType, requests' \subseteq RequestType,
           alarms'.timers = alarms.timers, alarms'.mAlarms = alarms.mAlarms,
           alarms'.loaded = alarms.loaded, Shows(alarms'), Idle(alarms') => Idle(alarms),
           UNCHANGED <<now, mRangeEnd, world, loads, blurred>>
    PROVE  AlarmInv'
<1>1. ShapeInv'
  BY DEF AlarmInv, ShapeInv, world
<1>2. LoadInv' /\ DialogInv'
  <2>1. Keeps(alarms, alarms')
    BY DEF AlarmInv, ShapeInv, Keeps, KeepsDialog
  <2> QED BY <2>1, KeepsLoading DEF AlarmInv
<1>3. KnowInv'
  <2>1. \A i \in Items : WantedHere(i)' => WantedHere(i)
    BY DEF WantedHere, Wanted, world
  <2> QED BY <2>1, NothingLearnt DEF AlarmInv
<1> QED BY <1>1, <1>2, <1>3 DEF AlarmInv

LEMMA WindowLoadsAlarm == AlarmInv /\ WindowLoads => AlarmInv'
<1> SUFFICES ASSUME AlarmInv, WindowLoads PROVE AlarmInv'
  OBVIOUS
<1> DEFINE a == [alarms EXCEPT !.window = "open", !.widgets = alarms.mAlarms]
<1>1. /\ a \in AlarmsType /\ a.timers = alarms.timers /\ a.mAlarms = alarms.mAlarms
      /\ a.loaded = alarms.loaded /\ Shows(a) /\ a.widgets = a.mAlarms
  BY DEF AlarmInv, ShapeInv, AlarmsType, Shows
<1>2. /\ alarms' = IF a.mAlarms = {} THEN CloseIfEmpty(a) ELSE a
      /\ UNCHANGED <<now, mRangeEnd, world, loads, requests, left, blurred>>
  BY DEF WindowLoads
<1> HIDE DEF a
<1>3. /\ alarms' \in AlarmsType
      /\ alarms'.timers = a.timers /\ alarms'.mAlarms = a.mAlarms /\ alarms'.loaded = a.loaded
      /\ Shows(alarms') /\ ~Idle(alarms')
  <2>1. CASE a.mAlarms = {}
    BY <1>1, <1>2, <2>1, CloseIs
  <2>2. CASE a.mAlarms # {}
    BY <1>1, <1>2, <2>2 DEF Idle
  <2> QED BY <2>1, <2>2
<1>4. requests' \subseteq RequestType
  BY <1>2 DEF AlarmInv, ShapeInv
<1> QED BY <1>1, <1>2, <1>3, <1>4, DialogAlarm

\* What the dialog asks of a calendar.
LEMMA RequestHasType ==
    ASSUME AlarmInv, NEW x \in alarms.widgets, NEW s \in Int PROVE Request(x, s) \in RequestType
<1>1. x.item \in Items /\ x.ver \in Version /\ now \in Int
  BY DEF AlarmInv, ShapeInv, AlarmsType, EntryType
<1>2. Acknowledged(x, s) \in Version
  BY <1>1 DEF Acknowledged, Version
<1> QED BY <1>1, <1>2 DEF Request, RequestType

LEMMA AsksAlarm ==
    ASSUME AlarmInv, NEW x \in alarms.widgets,
           DismissAlarm(x) \/ \E d \in Snoozes : SnoozeAlarm(x, d)
    PROVE  AlarmInv'
<1>1. PICK s \in Int : requests' = requests \cup {Request(x, s)}
  <2>1. CASE DismissAlarm(x)
    <3>1. requests' = requests \cup {Request(x, -1)} /\ -1 \in Int
      BY <2>1 DEF DismissAlarm
    <3> QED BY <3>1
  <2>2. CASE \E d \in Snoozes : SnoozeAlarm(x, d)
    <3>1. PICK d \in Snoozes : SnoozeAlarm(x, d)
      BY <2>2
    <3>2. now + d \in Int
      BY ConstantsAssumption DEF AlarmInv, ShapeInv
    <3> QED BY <3>1, <3>2 DEF SnoozeAlarm
  <2> QED BY <2>1, <2>2
<1>2. UNCHANGED <<now, mRangeEnd, world, loads, alarms, blurred>>
  BY DEF DismissAlarm, SnoozeAlarm
<1>3. requests' \subseteq RequestType
  BY <1>1, RequestHasType DEF AlarmInv, ShapeInv
<1> QED BY <1>2, <1>3, DialogAlarm DEF AlarmInv, ShapeInv, DialogInv, Shows

LEMMA CloseWindowAlarm ==
    ASSUME AlarmInv, NEW d \in Snoozes, CloseWindow(d) PROVE AlarmInv'
<1>1. PICK asked \in SUBSET alarms.widgets :
         requests' = requests \cup {Request(x, now + d) : x \in asked}
  BY DEF CloseWindow
<1>2. /\ requests' \subseteq requests \cup {Request(x, now + d) : x \in alarms.widgets}
      /\ alarms' = [alarms EXCEPT !.window = "closed", !.widgets = {}]
      /\ UNCHANGED <<now, mRangeEnd, world, loads, blurred>>
  BY <1>1 DEF CloseWindow
<1>3. now + d \in Int
  BY ConstantsAssumption DEF AlarmInv, ShapeInv
<1>4. requests' \subseteq RequestType
  <2>1. \A x \in alarms.widgets : Request(x, now + d) \in RequestType
    BY <1>3, RequestHasType
  <2> QED BY <1>2, <2>1 DEF AlarmInv, ShapeInv
<1>5. /\ alarms' \in AlarmsType
      /\ alarms'.timers = alarms.timers /\ alarms'.mAlarms = alarms.mAlarms
      /\ alarms'.loaded = alarms.loaded /\ alarms'.window = "closed"
  BY <1>2 DEF AlarmInv, ShapeInv, AlarmsType
<1>6. Shows(alarms') /\ ~Idle(alarms')
  BY <1>5 DEF Shows, Idle
<1> QED BY <1>2, <1>4, <1>5, <1>6, DialogAlarm

LEMMA NextAlarm == AlarmInv /\ [Next]_vars => AlarmInv'
<1> SUFFICES ASSUME AlarmInv, [Next]_vars PROVE AlarmInv'
  OBVIOUS
<1>1. CASE Answers
  <2>1. PICK l \in loads :
           \/ \E c \in Calendars : GetResult(l, c) \/ OperationComplete(l, c)
           \/ \E b \in l.batches : \E x \in b.todo : BatchItem(l, b, x)
    BY <1>1 DEF Answers
  <2> QED BY <2>1, GetResultAlarm, OperationCompleteAlarm, BatchItemAlarm
<1>2. CASE Notifications
  <2>1. CASE \E i \in Items, v \in Versions \cup {NoItem} : Edit(i, v) \/ OnLoad(Cal(i), i, v)
    <3>1. Versions \cup {NoItem} \subseteq Version \cup {NoItem}
      BY ItemFacts
    <3> QED BY <2>1, <3>1, EditAlarm, OnLoadAlarm
  <2>2. CASE \E i \in Items : OnLoad(Cal(i), i, store[i])
    <3>1. PICK i \in Items : OnLoad(Cal(i), i, store[i])
      BY <2>2
    <3>2. PICK v \in Version \cup {NoItem} : v = store[i]
      BY DEF AlarmInv, ShapeInv
    <3> QED BY <3>1, <3>2, OnLoadAlarm
  <2>3. CASE \E c \in Calendars : \/ OnPropertyChanged(c)
                                  \/ OnCalendarRegistered(c) \/ OnCalendarUnregistering(c)
    BY <2>3, OnPropertyChangedAlarm, OnCalendarRegisteredAlarm, OnCalendarUnregisteringAlarm
  <2>4. CASE \E t \in now..MaxTime : Wake(t)
    BY <2>4, WakeAlarm
  <2> QED BY <1>2, <2>1, <2>2, <2>3, <2>4 DEF Notifications
<1>3. CASE Dialog
  BY <1>3, WindowLoadsAlarm, CloseWindowAlarm, AsksAlarm, ModifyItemAlarm DEF Dialog
<1>4. CASE Timers
  BY <1>4, TickAlarm, PeriodicSearchAlarm, TimerFiresAlarm DEF Timers
<1>5. CASE UNCHANGED vars
  <2>1. UNCHANGED <<now, mRangeEnd, world, loads, alarms, requests, blurred>>
    BY <1>5 DEF vars
  <2> QED BY <2>1, DialogAlarm DEF AlarmInv, ShapeInv, DialogInv, Shows
<1> QED BY <1>1, <1>2, <1>3, <1>4, <1>5 DEF Next

-----------------------------------------------------------------------------
\* The state keeps its types, and an alarm has at most one timer in the map.
THEOREM AlarmTypeCorrect == Spec => []TypeOK
<1>1. ASSUME AlarmInv PROVE TypeOK
  <2>1. \A v \in Version \cup {NoItem} : IsVersion(v)
    BY DEF Version, IsVersion
  <2>2. \A x \in EntryType \cup TimerType : IsEntry(x)
    BY <2>1 DEF EntryType, TimerType, IsEntry
  <2>3. \A i \in Items : IsVersion(store[i])
    BY <1>1, <2>1 DEF AlarmInv, ShapeInv
  <2>4. \A x \in alarms.mAlarms \cup alarms.widgets \cup alarms.timers : IsEntry(x)
    BY <1>1, <2>2 DEF AlarmInv, ShapeInv, AlarmsType
  <2>5. \A l \in loads : l.asked \cup l.open \cup l.waiting \subseteq Calendars
    BY <1>1 DEF AlarmInv, ShapeInv, LoadType
  <2>6. /\ alarms.window \in {"closed", "opening", "open"}
        /\ alarms.loaded \in [Calendars -> {"none", "no", "yes"}]
    BY <1>1 DEF AlarmInv, ShapeInv, AlarmsType
  <2> QED BY <1>1, <2>3, <2>4, <2>5, <2>6 DEF TypeOK, AlarmInv, ShapeInv, Numbered, OneMapped
<1> QED BY InitAlarm, NextAlarm, <1>1, PTL DEF Spec

\* A calendar is loading only as long as its search has something to hear.
THEOREM LoadingIsEnded == Spec => []LoadingEnds
<1>1. AlarmInv => LoadingEnds
  BY DEF AlarmInv, LoadInv
<1> QED BY InitAlarm, NextAlarm, <1>1, PTL DEF Spec

\* While the dialog is open it shows the alarms that are listed, and it is open without
\* any only while a search is under way.
THEOREM DialogAgrees == Spec => []DialogShowsList
<1>1. ASSUME AlarmInv PROVE DialogShowsList
  <2>1. ASSUME alarms.window = "open", alarms.widgets = {} PROVE loads # {}
    <3>1. CASE IsLoading(alarms)
      BY <1>1, <3>1 DEF AlarmInv, LoadInv, LoadingEnds, IsLoading
    <3>2. CASE ~IsLoading(alarms)
      BY <1>1, <2>1, <3>2 DEF AlarmInv, DialogInv, Idle
    <3> QED BY <3>1, <3>2
  <2> QED BY <1>1, <2>1 DEF DialogShowsList, AlarmInv, DialogInv, Shows
<1> QED BY InitAlarm, NextAlarm, <1>1, PTL DEF Spec

\* A timer or a listed alarm is that of the item as it is, in a calendar that is
\* registered, when no search is under way in the calendar.
THEOREM NoFalseAlarm == Spec => []NothingExtra
<1>1. ASSUME AlarmInv PROVE NothingExtra
  BY <1>1 DEF AlarmInv, KnowInv, ListedInv, Right, NothingExtra, Settled
<1> QED BY InitAlarm, NextAlarm, <1>1, PTL DEF Spec

\* An alarm that is due before the next periodic search has a timer or is listed, and
\* one that is overdue and not acknowledged is listed, when no search is under way in
\* the calendar.
THEOREM NoAlarmMissed == Spec => []NothingMissed
<1>1. ASSUME AlarmInv PROVE NothingMissed
  <2> SUFFICES ASSUME NEW i \in Items,
                      Cal(i) \in known \ muted, Settled(Cal(i)), Present(i),
                      store[i].end >= Due(store[i]), Due(store[i]) <= mRangeEnd,
                      Due(store[i]) < now => ~Acked(store[i])
               PROVE  Watched(i)
    BY DEF NothingMissed
  <2>1. WantedHere(i)
    BY DEF WantedHere, Wanted, Settled, Present
  <2>2. LoadsOf(Cal(i)) = {}
    BY DEF Settled
  <2>3. ASSUME NEW l \in loads PROVE ~AwaitedIn(l, i)
    <3>1. Cal(i) \notin l.asked /\ \A b \in l.batches : b.cal # Cal(i)
      BY <2>2 DEF LoadsOf
    <3>2. FoundOf(l)
      BY <1>1 DEF AlarmInv, KnowInv, FoundInv
    <3>3. ASSUME NEW b \in l.batches, NEW x \in b.todo, x.item = i PROVE FALSE
      BY <3>1, <3>2, <3>3 DEF FoundOf
    <3> QED BY <3>1, <3>3 DEF AwaitedIn
  <2>4. Lists(alarms, i, store[i])
    BY <1>1, <2>1, <2>3 DEF AlarmInv, KnowInv, WantedInv
  <2> QED BY <2>4 DEF Lists, Watched
<1> QED BY InitAlarm, NextAlarm, <1>1, PTL DEF Spec


=============================================================================
