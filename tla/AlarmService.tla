---------------------------- MODULE AlarmService ----------------------------
(***************************************************************************)
(* The alarms of the calendars: the alarm service (calAlarmService.js), the *)
(* alarm monitor (calAlarmMonitor.js) and the alarm dialog it opens.        *)
(*                                                                          *)
(* The service keeps a timer for every alarm that is due before the next of *)
(* its periodic searches, and hands alarms that are due to the monitor,     *)
(* which lists them and shows them in the dialog.  It learns of items from  *)
(* searches (findAlarms), whose results are worked off in batches on the    *)
(* event loop, and from the calendars' notifications, which come at any     *)
(* time.  Everything runs on one thread, one callback at a time.            *)
(***************************************************************************)
EXTENDS Integers, FiniteSets

CONSTANTS
    Calendars,  \* the calendars
    Empty,      \* the calendars that have no items
    Times,      \* when alarms are due
    Names,      \* what tells the items of one calendar apart
    Hours,      \* kHoursBetweenUpdates, in ticks of the clock
    Snoozes,    \* for how long alarms are snoozed
    Tails,      \* how long an item goes on after its alarm is due
    MaxTime,    \* bound: the clock
    MaxActs,    \* bound: what users do to items and to alarms
    MaxEvents,  \* bound: calendars coming, going, reloading, being muted, waking
    MaxLoads    \* bound: searches under way at once

ASSUME ConstantsAssumption ==
    /\ Empty \subseteq Calendars /\ Times \subseteq Nat
    /\ Hours \in Nat \ {0} /\ Snoozes \subseteq Nat \ {0} /\ Tails \subseteq Nat
    /\ MaxTime \in Nat /\ MaxActs \in Nat /\ MaxEvents \in Nat /\ MaxLoads \in Nat

VARIABLES
    now,        \* the clock
    mRangeEnd,  \* the end of the range that has timers, and the next periodic search
    store,      \* the calendars' items
    known,      \* the calendars registered, and so observed
    muted,      \* the calendars that are disabled or suppress alarms
    loads,      \* the searches under way: the listeners of findAlarms
    alarms,     \* timers, mLoadedCalendars, and the monitor's list and window
    requests,   \* modifyItem calls of the dialog that have not come back
    left,       \* what the environment may still do
    blurred     \* history: the calendars that changed while a search had their results,
                \* or with an onLoad that was ignored

world == <<store, known, muted>>
vars  == <<now, mRangeEnd, world, loads, alarms, requests, left, blurred>>

-----------------------------------------------------------------------------
(* Data.  An item has one alarm, whose time stands for its icalString.      *)

Items   == (Calendars \ Empty) \X Names
Cal(i)  == i[1]
NoItem  == [alarm |-> -1, end |-> -1, snooze |-> -1, ack |-> -1]

Versions == {[alarm |-> t, end |-> t + e, snooze |-> -1, ack |-> -1] :
                t \in Times, e \in Tails}

\* An alarm can only be snoozed to a later time.
Due(v)   == IF v.snooze > v.alarm THEN v.snooze ELSE v.alarm
Acked(v) == v.ack >= Due(v)
Present(i) == store[i] # NoItem

Entry(i, v) == [item |-> i, ver |-> v]

\* The loads of which calendar c is a part, and the batches of its items.
Batches(c)  == UNION {{b \in l.batches : b.cal = c} : l \in loads}
LoadsOf(c)  == {l \in loads : c \in l.asked \cup l.open \/ \E b \in l.batches : b.cal = c}
Orphans(c)  == {t \in alarms.timers : Cal(t.item) = c /\ ~t.mapped}

-----------------------------------------------------------------------------
(* The monitor and its dialog, as functions of the record "alarms".         *)

IsLoading(a) == \E c \in Calendars : a.loaded[c] = "no"

CloseIfEmpty(a) ==
    IF a.window = "open" /\ a.widgets = {} /\ ~IsLoading(a)
    THEN [a EXCEPT !.window = "closed"] ELSE a

OnAlarm(a, x) ==
    [a EXCEPT !.mAlarms = @ \cup {x},
              !.window  = IF @ = "closed" THEN "opening" ELSE @,
              !.widgets = IF a.window = "open" THEN @ \cup {x} ELSE @]

\* Widgets are removed for the entries of mAlarms; each removal may close the window.
Remove(a, gone) ==
    LET b == [a EXCEPT !.mAlarms = @ \ gone, !.widgets = @ \ gone]
    IN  IF gone \cap a.mAlarms # {} THEN CloseIfEmpty(b) ELSE b

OnRemoveAlarmsByItem(a, i)     == Remove(a, {x \in a.mAlarms : x.item = i})
OnRemoveAlarmsByCalendar(a, c) == Remove(a, {x \in a.mAlarms : Cal(x.item) = c})

\* Mutant: the dialog is not looked at again when alarms have been loaded.
OnAlarmsLoadedForgets(a) == a

OnAlarmsLoaded(a) == IF a.mAlarms = {} THEN CloseIfEmpty(a) ELSE a

-----------------------------------------------------------------------------
(* The service's own operations.                                             *)

AlarmFired(a, i, v) == IF Cal(i) \in muted THEN a ELSE OnAlarm(a, Entry(i, v))

\* A timer that is still in the map under that alarm is overwritten, not cancelled.
AddTimer(a, i, v) ==
    [a EXCEPT !.timers =
        {IF t.item = i /\ t.ver.alarm = v.alarm THEN [t EXCEPT !.mapped = FALSE] ELSE t : t \in @}
        \cup {[item |-> i, ver |-> v, mapped |-> TRUE]}]

AddAlarmsForItem(a, i, v) ==
    CASE Due(v) >= now /\ Due(v) <= mRangeEnd -> AddTimer(a, i, v)
      [] Due(v) < now /\ ~Acked(v)            -> AlarmFired(a, i, v)
      [] OTHER                                -> a

\* Mutant: only the dialog forgets the item.
RemoveAlarmsForItemKeepsTimer(a, i, v) == OnRemoveAlarmsByItem(a, i)

RemoveAlarmsForItem(a, i, v) ==
    [OnRemoveAlarmsByItem(a, i) EXCEPT !.timers =
        {t \in @ : ~(t.mapped /\ t.item = i /\ t.ver.alarm = v.alarm)}]

DisposeCalendarTimers(a, cs) ==
    [a EXCEPT !.timers = {t \in @ : ~(t.mapped /\ Cal(t.item) \in cs)}]

UnobserveCalendar(a, c) == OnRemoveAlarmsByCalendar(DisposeCalendarTimers(a, {c}), c)

\* findAlarms asks the calendars that are not mute; one listener serves them all.
Start(a, cs, mute) ==
    LET b == [a EXCEPT !.loaded = [c \in Calendars |->
                 IF c \notin cs THEN @[c] ELSE IF c \in mute THEN "yes" ELSE "no"]]
    IN  IF cs \cap mute = {} THEN b ELSE OnAlarmsLoaded(b)

Fresh == CHOOSE n \in 0..Cardinality(loads) : \A l \in loads : l.no # n

Load(n, start, cs) ==
    [no |-> n, start |-> start, asked |-> cs, open |-> {}, batches |-> {},
     waiting |-> {}, results |-> FALSE, resolved |-> FALSE]

Search(cs, start, mute) ==
    IF cs \subseteq mute THEN {} ELSE {Load(Fresh, start, cs \ mute)}

InitAlarms(a, c, mute) ==
    LET b == [DisposeCalendarTimers(a, {c}) EXCEPT !.loaded[c] = "no"]
    IN  Start(OnRemoveAlarmsByCalendar(b, c), {c}, mute)

InitSearch(c, mute) ==
    /\ alarms' = InitAlarms(alarms, c, mute)
    /\ loads'  = loads \cup Search({c}, -1, mute)

\* A calendar that starts from scratch makes up for what it has missed, unless
\* old batches are still under way or timers have been lost sight of.
Afresh(c) == IF Batches(c) = {} /\ Orphans(c) = {} THEN {c} ELSE {}

-----------------------------------------------------------------------------
Nothing == [timers |-> {}, loaded |-> [c \in Calendars |-> "none"],
            mAlarms |-> {}, window |-> "closed", widgets |-> {}]

\* Just after the startup at time 0; other calendars may be registered later.
Init ==
    /\ now = 0 /\ mRangeEnd = Hours
    /\ store \in [Items -> Versions \cup {NoItem}]
    /\ known \in SUBSET Calendars /\ muted = {} /\ requests = {} /\ blurred = {}
    /\ loads = IF known = {} THEN {} ELSE {Load(0, -1, known)}
    /\ alarms = Start(Nothing, known, muted)
    /\ left = [acts |-> MaxActs, events |-> MaxEvents]

-----------------------------------------------------------------------------
(* Time: the clock, alarm timers and the periodic search.                   *)

DueTimers == {t \in alarms.timers : Due(t.ver) <= now}

\* A tick is long: what is due at one runs before the next.
Tick ==
    /\ now < MaxTime /\ DueTimers = {} /\ now < mRangeEnd
    /\ now' = now + 1
    /\ UNCHANGED <<mRangeEnd, world, loads, alarms, requests, left, blurred>>

TimerFires(t) ==
    /\ alarms' = AlarmFired([alarms EXCEPT !.timers = @ \ {t}], t.item, t.ver)
    /\ UNCHANGED <<now, mRangeEnd, world, loads, requests, left, blurred>>

\* Mutant: the search starts at the end of the new range.
PeriodicSearchSkips ==
    /\ Cardinality(loads) < MaxLoads
    /\ now = mRangeEnd /\ mRangeEnd' = now + Hours
    /\ alarms' = Start(alarms, known, muted)
    /\ loads'  = loads \cup Search(known, mRangeEnd', muted)
    /\ UNCHANGED <<now, world, requests, left, blurred>>

\* A subsequent search starts where the timers of the last one end.
PeriodicSearch ==
    /\ Cardinality(loads) < MaxLoads
    /\ now = mRangeEnd /\ mRangeEnd' = now + Hours
    /\ alarms' = Start(alarms, known, muted)
    /\ loads'  = loads \cup Search(known, mRangeEnd, muted)
    /\ UNCHANGED <<now, world, requests, left, blurred>>

-----------------------------------------------------------------------------
(* The answers to a search.                                                  *)

\* A load that nobody answers any more is garbage.
Update(l, m) ==
    loads' = (loads \ {l}) \cup
             (IF m.asked \cup m.open \cup m.waiting = {} /\ m.batches = {} THEN {} ELSE {m})

\* The promise's handlers: the calendars that have completed are loaded now.
Loaded(a, cs) ==
    IF cs = {} THEN a
    ELSE OnAlarmsLoaded([a EXCEPT !.loaded =
            [c \in Calendars |-> IF c \in cs THEN "yes" ELSE @[c]]])

Resolve(a, l, m) ==
    /\ alarms' = Loaded(a, m.waiting)
    /\ Update(l, [m EXCEPT !.resolved = TRUE, !.waiting = {}])

\* onGetResult: the items found become a batch, which the event loop works off.
GetResult(l, c) ==
    LET found == {i \in Items : Cal(i) = c /\ Present(i) /\ store[i].end >= l.start}
        m     == [l EXCEPT !.asked = @ \ {c}, !.open = @ \cup {c}]
    IN  /\ c \in l.asked
        /\ Update(l, IF found = {} THEN m ELSE [m EXCEPT !.results = TRUE, !.batches = @ \cup
                        {[cal |-> c, todo |-> {Entry(i, store[i]) : i \in found}]}])
        /\ UNCHANGED <<now, mRangeEnd, world, alarms, requests, left, blurred>>

\* Mutant: only results resolve the promise.
OperationCompleteWaits(l, c) ==
    LET m == [l EXCEPT !.open = @ \ {c}, !.waiting = @ \cup {c}]
    IN  /\ c \in l.open
        /\ IF l.resolved THEN Resolve(alarms, l, m) ELSE Update(l, m) /\ UNCHANGED alarms
        /\ UNCHANGED <<now, mRangeEnd, world, requests, left, blurred>>

\* If there were no results, nobody else would resolve the promise.
OperationComplete(l, c) ==
    LET m == [l EXCEPT !.open = @ \ {c}, !.waiting = @ \cup {c}]
    IN  /\ c \in l.open
        /\ IF l.resolved \/ ~l.results THEN Resolve(alarms, l, m)
           ELSE Update(l, m) /\ UNCHANGED alarms
        /\ UNCHANGED <<now, mRangeEnd, world, requests, left, blurred>>

\* One item of a batch; with the last one of the last batch the promise is resolved.
BatchItem(l, b, x) ==
    LET a    == AddAlarmsForItem(RemoveAlarmsForItem(alarms, x.item, x.ver), x.item, x.ver)
        rest == IF b.todo = {x} THEN {} ELSE {[b EXCEPT !.todo = @ \ {x}]}
        m    == [l EXCEPT !.batches = (@ \ {b}) \cup rest]
    IN  /\ IF m.batches = {} THEN Resolve(a, l, m) ELSE Update(l, m) /\ alarms' = a
        /\ UNCHANGED <<now, mRangeEnd, world, requests, left, blurred>>

-----------------------------------------------------------------------------
(* What the calendars notify.                                                *)

\* onAddItem, onDeleteItem and onModifyItem, which removes first and then adds.
Notified(a, i, old, new) ==
    LET b == IF old = NoItem THEN a ELSE RemoveAlarmsForItem(a, i, old)
    IN  IF new = NoItem THEN b ELSE AddAlarmsForItem(b, i, new)

\* The calendars whose searches have results that this change makes stale.
Stale(i, v) == IF v = store[i] \/ Batches(Cal(i)) = {} THEN {} ELSE {Cal(i)}

Changes(i, v) ==
    /\ store'   = [store EXCEPT ![i] = v]
    /\ blurred' = blurred \cup Stale(i, v)

Act   == left.acts > 0 /\ left' = [left EXCEPT !.acts = @ - 1]
Event == Cardinality(loads) < MaxLoads /\ left.events > 0 /\ left' = [left EXCEPT !.events = @ - 1]

Edit(i, v) ==
    /\ Act /\ Cal(i) \in known /\ v # store[i]
    /\ Changes(i, v) /\ alarms' = Notified(alarms, i, store[i], v)
    /\ UNCHANGED <<now, mRangeEnd, known, muted, loads, requests>>

\* A refreshed calendar cannot notify details.  Its onLoad is ignored until the
\* last search in it has finished.
OnLoad(c, i, v) ==
    /\ Event /\ c \in known /\ Cal(i) = c
    /\ store' = [store EXCEPT ![i] = v]
    /\ \/ /\ alarms.loaded[c] = "yes" /\ InitSearch(c, muted)
          /\ blurred' = (blurred \cup Stale(i, v)) \ Afresh(c)
       \/ /\ alarms.loaded[c] # "yes" /\ UNCHANGED <<alarms, loads>>
          /\ blurred' = IF v = store[i] THEN blurred ELSE blurred \cup {c}
    /\ UNCHANGED <<now, mRangeEnd, known, muted, requests>>

\* The properties "disabled" and "suppressAlarms" (onPropertyChanged).
OnPropertyChanged(c) ==
    /\ Event /\ c \in known
    /\ muted' = IF c \in muted THEN muted \ {c} ELSE muted \cup {c}
    /\ InitSearch(c, muted') /\ blurred' = blurred \ Afresh(c)
    /\ UNCHANGED <<now, mRangeEnd, store, known, requests>>

OnCalendarRegistered(c) ==
    /\ Event /\ c \notin known /\ known' = known \cup {c}
    /\ InitSearch(c, muted) /\ blurred' = blurred \ Afresh(c)
    /\ UNCHANGED <<now, mRangeEnd, store, muted, requests>>

\* onCalendarUnregistering, which onCalendarDeleting may follow.
OnCalendarUnregistering(c) ==
    LET a == UnobserveCalendar(alarms, c)
    IN  /\ Event /\ c \in known /\ known' = known \ {c}
        /\ \/ alarms' = a
           \/ alarms' = [a EXCEPT !.loaded[c] = "none"]
        /\ blurred' = IF LoadsOf(c) = {} THEN blurred ELSE blurred \cup {c}
        /\ UNCHANGED <<now, mRangeEnd, store, muted, loads, requests>>

\* Mutant: the end of the range survives the sleep.
WakeKeepsRange(t) ==
    /\ Event /\ now' = t
    /\ alarms' = Start(DisposeCalendarTimers(alarms, known), known, muted)
    /\ loads'  = loads \cup Search(known, -1, muted)
    /\ UNCHANGED <<mRangeEnd, world, requests, blurred>>

\* wake_notification: shutdown and startup.  The monitor stops observing the
\* service before the calendars are unobserved, and keeps its list.
Wake(t) ==
    /\ Event /\ now' = t /\ mRangeEnd' = t + Hours
    /\ alarms' = Start(DisposeCalendarTimers(alarms, known), known, muted)
    /\ loads'  = loads \cup Search(known, -1, muted)
    /\ UNCHANGED <<world, requests, blurred>>

-----------------------------------------------------------------------------
(* The dialog.                                                               *)

\* window_onLoad
WindowLoads ==
    /\ alarms.window = "opening"
    /\ LET a == [alarms EXCEPT !.window = "open", !.widgets = alarms.mAlarms]
       IN  alarms' = IF a.mAlarms = {} THEN CloseIfEmpty(a) ELSE a
    /\ UNCHANGED <<now, mRangeEnd, world, loads, requests, left, blurred>>

Acknowledged(x, snooze) == [x.ver EXCEPT !.ack = now, !.snooze = snooze]
Request(x, snooze) ==
    [item |-> x.item, old |-> x.ver, new |-> Acknowledged(x, snooze)]

SnoozeAlarm(x, d) ==
    /\ Act /\ requests' = requests \cup {Request(x, now + d)}
    /\ UNCHANGED <<now, mRangeEnd, world, loads, alarms, blurred>>

DismissAlarm(x) ==
    /\ Act /\ requests' = requests \cup {Request(x, -1)}
    /\ UNCHANGED <<now, mRangeEnd, world, loads, alarms, blurred>>

\* finishWindow: what is still listed is snoozed by the default.  snoozeAllItems
\* walks the live list of the widgets: where a calendar answers at once, its widget
\* is taken away during the walk, and the next one is passed over.
CloseWindow(d) ==
    /\ Act /\ alarms.window = "open"
    /\ \E asked \in SUBSET alarms.widgets :
         /\ Cardinality(alarms.widgets \ asked) <= Cardinality(asked)
         /\ requests' = requests \cup {Request(x, now + d) : x \in asked}
    /\ alarms'   = [alarms EXCEPT !.window = "closed", !.widgets = {}]
    /\ UNCHANGED <<now, mRangeEnd, world, loads, blurred>>

\* A calendar refuses to modify an item that has changed, or fails; nobody listens.
ModifyItem(r) ==
    /\ requests' = requests \ {r}
    /\ \/ UNCHANGED <<store, alarms, blurred>>
       \/ /\ store[r.item] = r.old /\ Changes(r.item, r.new)
          /\ alarms' = IF Cal(r.item) \in known THEN Notified(alarms, r.item, r.old, r.new)
                       ELSE alarms
    /\ UNCHANGED <<now, mRangeEnd, known, muted, loads, left>>

-----------------------------------------------------------------------------
Answers ==
    \E l \in loads :
        \/ \E c \in Calendars : GetResult(l, c) \/ OperationComplete(l, c)
        \/ \E b \in l.batches : \E x \in b.todo : BatchItem(l, b, x)

Notifications ==
    \/ \E i \in Items, v \in Versions \cup {NoItem} : Edit(i, v) \/ OnLoad(Cal(i), i, v)
    \/ \E i \in Items : OnLoad(Cal(i), i, store[i])
    \/ \E c \in Calendars : \/ OnPropertyChanged(c)
                            \/ OnCalendarRegistered(c) \/ OnCalendarUnregistering(c)
    \/ \E t \in now..MaxTime : Wake(t)

Dialog ==
    \/ WindowLoads \/ \E d \in Snoozes : CloseWindow(d)
    \/ \E x \in alarms.widgets : DismissAlarm(x) \/ \E d \in Snoozes : SnoozeAlarm(x, d)
    \/ \E r \in requests : ModifyItem(r)

Timers == Tick \/ PeriodicSearch \/ \E t \in DueTimers : TimerFires(t)

Next == Answers \/ Notifications \/ Dialog \/ Timers

Spec == Init /\ [][Next]_vars

-----------------------------------------------------------------------------
IsVersion(v) == v = NoItem \/ /\ v.alarm \in Times /\ v.end \in Nat
                              /\ v.snooze \in Int /\ v.ack \in Int
IsEntry(x)   == x.item \in Items /\ IsVersion(x.ver)

\* The state keeps its types, and an alarm has at most one timer that the map
\* still knows (mTimerMap).
TypeOK ==
    /\ now \in 0..MaxTime /\ mRangeEnd \in now..MaxTime + Hours
    /\ \A i \in Items : IsVersion(store[i])
    /\ known \subseteq Calendars /\ muted \subseteq Calendars /\ blurred \subseteq Calendars
    /\ \A l \in loads : l.asked \cup l.open \cup l.waiting \subseteq Calendars
    /\ \A l1, l2 \in loads : l1.no = l2.no => l1 = l2
    /\ \A x \in alarms.mAlarms \cup alarms.widgets \cup alarms.timers : IsEntry(x)
    /\ alarms.window \in {"closed", "opening", "open"}
    /\ alarms.loaded \in [Calendars -> {"none", "no", "yes"}]
    /\ \A t, u \in alarms.timers :
          t.mapped /\ u.mapped /\ t.item = u.item /\ t.ver.alarm = u.ver.alarm => t = u

\* The calendars about which the service has nothing left to learn.
Settled(c) == LoadsOf(c) = {} /\ c \notin blurred

\* An alarm has a timer or is listed.
Watched(i) == \E x \in alarms.mAlarms \cup alarms.timers : x.item = i /\ x.ver = store[i]

\* No alarm is missed: when no search is under way in a calendar whose alarms are
\* wanted, an alarm that is due before the next periodic search has a timer or is
\* listed, and one that is overdue and not acknowledged is listed - unless its item
\* was over before it, or the calendar changed under a search's results.
NothingMissed ==
    \A i \in Items : LET v == store[i] IN
        /\ Cal(i) \in known \ muted /\ Settled(Cal(i)) /\ Present(i) /\ v.end >= Due(v)
        /\ Due(v) <= mRangeEnd /\ (Due(v) < now => ~Acked(v))
        => Watched(i)

\* Nothing is announced that is no longer so: a timer or a listed alarm is that of
\* the item as it is now, in a calendar that is registered.
NothingExtra ==
    \A x \in alarms.mAlarms \cup alarms.timers :
        Settled(Cal(x.item)) => Cal(x.item) \in known /\ store[x.item] = x.ver

\* While the dialog is open it shows exactly the alarms that are listed, and it is
\* open without any only while alarms are being loaded.
DialogShowsList ==
    alarms.window = "open" =>
        /\ alarms.widgets = alarms.mAlarms
        /\ alarms.widgets = {} => loads # {}

\* A calendar is loading only as long as its search has still something to hear:
\* the promise that all calendars of a search share is resolved by the last of them,
\* though some have no items at all.
LoadingEnds ==
    \A c \in Calendars : alarms.loaded[c] = "no" =>
        \E l \in loads : /\ c \in l.asked \cup l.open \cup l.waiting
                         /\ l.asked \cup l.open # {} \/ l.batches # {}
=============================================================================
