------------------------- MODULE CompositeCalendar -------------------------
(***************************************************************************)
(* The composite calendar (calCompositeCalendar.js), which makes one        *)
(* calendar of many, and a calendar view over it (calendar-base-view.xml):  *)
(* the queries that the composite puts to its calendars and merges, and the *)
(* refresh jobs of the view, which may overtake and cancel one another.     *)
(*                                                                          *)
(* A calendar answers a query in one callback, results and completion, but  *)
(* when it likes; queries wait for the reloads that were asked for before.  *)
(* Everything runs on one thread.                                            *)
(***************************************************************************)
EXTENDS Integers, FiniteSets

CONSTANTS
    Calendars,  \* the calendars
    Composite,  \* stands for the composite calendar itself
    Handles,    \* the calendars whose getItems returns an operation (WCAP)
    Items,      \* the items: pairs of a calendar and what tells its items apart
    Limits,     \* how many items a client may ask for; 0 is all
    Faults,     \* what may go wrong: "query", "throw", "refresh"
    MaxChanges, \* bound: changes of items
    MaxEvents,  \* bound: everything else that users and timers do
    MaxActs,    \* bound: changes, events and faults together
    MaxFaults   \* bound: faults

ASSUME ConstantsAssumption ==
    /\ IsFiniteSet(Calendars) /\ IsFiniteSet(Items)
    /\ Composite \notin Calendars /\ Handles \subseteq Calendars
    /\ \A i \in Items : i[1] \in Calendars
    /\ Limits \subseteq Nat /\ Faults \subseteq {"query", "throw", "refresh"}
    /\ {MaxChanges, MaxEvents, MaxActs, MaxFaults} \subseteq Nat

VARIABLES
    store,         \* the calendars' items: the version of each, 0 for none
    mCalendars,    \* the calendars in the composite, which observes them
    disabled,      \* the calendars with the property "disabled"
    reloads,       \* how many reloads each calendar has yet to do, in their order
    pendingLoads,  \* the calendars whose next onLoad is not forwarded
    jobs,          \* queries under way: the view's refresh jobs and other clients'
    asks,          \* what the queries have asked of single calendars
    pendingJobs,   \* mPendingRefreshJobs: for a calendar, the view's job; 0 for none
    view,          \* what the view shows of each item: its version, 0 for nothing
    left,          \* what the environment may still do
    blurred,       \* history: the calendars of which the view's last queries went wrong
    lost           \* history: the calendars whose onLoad went astray

history == <<blurred, lost>>
world == <<store, mCalendars, disabled, reloads, pendingLoads>>
query == <<jobs, asks, pendingJobs, view>>
vars  == <<world, query, left, history>>

Cal(i)  == i[1]
Enabled == mCalendars \ disabled      \* enabledCalendars

\* A query of the composite (mNumQueries, mReceivedCompletes, mItemsReceived) or of
\* one calendar.  One that has been cancelled is only waited for.
Job(n, c, forView, max, need, threw) ==
    [no |-> n, cal |-> c, forView |-> forView, max |-> max, need |-> need, completes |-> 0,
     items |-> 0, offered |-> 0, cancelled |-> FALSE, threw |-> threw]

Fresh == CHOOSE n \in 1..Cardinality(jobs) + 1 : \A j \in jobs : j.no # n

\* The calendars from which the view may still get items, and those from which it
\* gets them through a job that nothing can cancel.
Writers    == {j \in jobs : j.forView /\ ~j.cancelled}
Awaited    == {a.cal : a \in {b \in asks : \E j \in Writers : j.no = b.job}}
Unstoppable == {j.cal : j \in {k \in Writers : k.cal # Composite /\ k.cal \notin Handles}}

Init ==
    /\ store = [i \in Items |-> 1] /\ view = store
    /\ mCalendars = Calendars /\ disabled = {}
    /\ reloads = [c \in Calendars |-> 0] /\ pendingLoads = {}
    /\ jobs = {} /\ asks = {}
    /\ pendingJobs = [c \in Calendars \cup {Composite} |-> 0]
    /\ left = [changes |-> MaxChanges, events |-> MaxEvents, faults |-> MaxFaults]
    /\ blurred = {} /\ lost = {}

-----------------------------------------------------------------------------
(* Asking.                                                                   *)

\* What has been done when l is left of the bounds, and what they still allow.
Acts(l)   == (MaxChanges - l.changes) + (MaxEvents - l.events) + (MaxFaults - l.faults)
MayAct    == left.events > 0 /\ Acts(left) < MaxActs
MayChange == left.changes > 0 /\ Acts(left) < MaxActs

\* The calendars of cs with which something goes wrong, what is left of the bounds l
\* after that, and what is left after an event.
Perhaps(fault, cs, l) ==
    {bad \in SUBSET cs : bad # {} => /\ fault \in Faults /\ Cardinality(bad) <= l.faults
                                     /\ Acts(l) + Cardinality(bad) <= MaxActs}
Failed(l, bad) == [l EXCEPT !.faults = @ - Cardinality(bad)]
Event == [left EXCEPT !.events = @ - 1]

\* Cancelling a group tells its listener at once and the operations it was given to
\* stop; the calendars that gave none answer a listener that ignores them.
Stopped(ns, as) == {a \in as : a.job \notin ns \/ a.cal \notin Handles}
\* Mutant: a group without operations left goes on waiting for them.
CancelledWaits(ns, as) ==
    {IF j.no \in ns THEN [j EXCEPT !.cancelled = TRUE] ELSE j : j \in jobs}
\* Mutant: nothing is cancelled.
CancelledNever(ns, as) == jobs
Cancelled(ns, as) ==
    {IF j.no \in ns THEN [j EXCEPT !.cancelled = TRUE] ELSE j :
        j \in {k \in jobs : k.no \notin ns \/ \E a \in Stopped(ns, as) : a.job = k.no}}

\* getItems of the calendars cs; those in bad throw, and are not counted again.
Asks(cs, bad) == {[job |-> Fresh, cal |-> c, wait |-> reloads'[c]] : c \in cs \ bad}

\* A refresh from the composite cancels what is pending and lays the view out anew;
\* as are the asks as they are, l what is left.
RefreshAll(as, l) ==
    LET ns == {pendingJobs[c] : c \in DOMAIN pendingJobs}
        cs == Enabled'
    IN  \E bad \in Perhaps("throw", cs, l) :
            /\ left' = Failed(l, bad)
            /\ view' = [i \in Items |-> 0]
            /\ jobs' = Cancelled(ns, as) \cup
                  (IF cs = {} THEN {}
                   ELSE {Job(Fresh, Composite, TRUE, 0, Cardinality(cs), bad # {})})
            /\ asks' = Stopped(ns, as) \cup Asks(cs, bad)
            /\ pendingJobs' = [c \in DOMAIN pendingJobs |->
                  IF c = Composite /\ cs # {} THEN Fresh ELSE 0]
            /\ blurred' = bad \cup Unstoppable

\* Only an operation that getItems returns is kept as pending.
RefreshOne(c) ==
    LET ns == {pendingJobs[c]} \ {0}
    IN  /\ jobs' = Cancelled(ns, asks) \cup {Job(Fresh, c, TRUE, 0, 1, FALSE)}
        /\ asks' = Stopped(ns, asks) \cup Asks({c}, {})
        /\ pendingJobs' = [pendingJobs EXCEPT ![c] = IF c \in Handles THEN Fresh ELSE 0]
        /\ UNCHANGED <<view, blurred>>

\* Another client queries the composite, perhaps for a limited number of items, ...
GetItems(max) ==
    \E bad \in Perhaps("throw", Enabled, Event) :
        /\ MayAct /\ left' = Failed(Event, bad) /\ Enabled # {}
        /\ UNCHANGED <<world, pendingJobs, view, history>>
        /\ jobs' = jobs \cup {Job(Fresh, Composite, FALSE, max, Cardinality(Enabled), bad # {})}
        /\ asks' = asks \cup Asks(Enabled, bad)

\* ... and may lose interest.
CancelQuery(j) ==
    /\ MayAct /\ left' = Event /\ ~j.forView /\ ~j.cancelled
    /\ jobs' = Cancelled({j.no}, asks) /\ asks' = Stopped({j.no}, asks)
    /\ UNCHANGED <<world, pendingJobs, view, history>>

-----------------------------------------------------------------------------
(* Answering: onGetResult and onOperationComplete of a job's listener.      *)

\* The items that are passed on: those beyond the limit are clipped.
\* Mutant: the answer that passes the limit is not clipped.
ClippedByWhole(j, n) == IF j.max # 0 /\ j.items >= j.max THEN 0 ELSE n
Clipped(j, n) ==
    IF j.max # 0 /\ j.items >= j.max THEN 0
    ELSE IF j.max # 0 /\ j.items + n > j.max THEN j.max - j.items
    ELSE n

\* The view's job that has ended is no longer pending.
\* Mutant: it stays there.
PendingStill(j, last) == pendingJobs
Pending(j, last) ==
    IF j.forView /\ last THEN [pendingJobs EXCEPT ![j.cal] = 0] ELSE pendingJobs

Answer(a, j, ok) ==
    LET found == IF ok THEN {i \in Items : Cal(i) = a.cal /\ store[i] # 0} ELSE {}
        n     == Cardinality(found)
        k     == [j EXCEPT !.completes = @ + 1, !.offered = @ + n, !.items = @ + Clipped(j, n)]
        last  == k.completes = k.need
        bad   == IF ok THEN {} ELSE {a.cal}
    IN  /\ a.wait = 0 /\ j.no = a.job
        /\ bad \in Perhaps("query", {a.cal}, left) /\ left' = Failed(left, bad)
        /\ asks' = asks \ {a}
        /\ \/ /\ j.cancelled
              /\ jobs' = {l \in jobs : l # j \/ \E b \in asks' : b.job = j.no}
              /\ UNCHANGED <<pendingJobs, view, blurred>>
           \/ /\ ~j.cancelled
              /\ jobs' = (jobs \ {j}) \cup (IF last THEN {} ELSE {k})
              /\ view' = IF j.forView THEN [i \in Items |-> IF i \in found THEN store[i] ELSE view[i]]
                         ELSE view
              /\ pendingJobs' = Pending(j, last)
              /\ blurred' = IF j.forView THEN blurred \cup bad ELSE blurred
        /\ UNCHANGED <<world, lost>>

-----------------------------------------------------------------------------
(* Reloads.                                                                  *)

\* The composite's refresh tells its own observers at once; what the calendars
\* send on account of it is not forwarded.
Refresh ==
    \E bad \in Perhaps("throw", Enabled, Event) :
        LET cs == Enabled \ bad
        IN  /\ MayAct /\ \A c \in cs : reloads[c] < 2
            /\ reloads' = [c \in Calendars |-> IF c \in cs THEN reloads[c] + 1 ELSE reloads[c]]
            /\ pendingLoads' = (pendingLoads \ bad) \cup cs
            /\ UNCHANGED <<store, mCalendars, disabled, lost>>
            /\ RefreshAll(asks, Failed(Event, bad))

\* The calendar manager's timer reloads one calendar.
RefreshCalendar(c) ==
    /\ MayAct /\ left' = Event /\ reloads[c] < 2 /\ c \notin disabled
    /\ reloads' = [reloads EXCEPT ![c] = @ + 1]
    /\ UNCHANGED <<store, mCalendars, disabled, pendingLoads, query, history>>

\* A reload is done; the calendar sends an onLoad, unless it has failed.  An item that
\* is gone stays in the view if the load is not forwarded and the item was edited, and
\* so shown, after the view had been laid out anew.
ReloadDone(c, i, v) ==
    LET as == {IF a.cal = c /\ a.wait > 0 THEN [a EXCEPT !.wait = @ - 1] ELSE a : a \in asks}
        l  == IF v = store[i] THEN left ELSE [left EXCEPT !.changes = @ - 1]
    IN  /\ reloads[c] > 0 /\ Cal(i) = c
        /\ reloads' = [reloads EXCEPT ![c] = @ - 1]
        /\ UNCHANGED <<mCalendars, disabled>>
        /\ \/ /\ v = store[i] \/ MayChange
              /\ store' = [store EXCEPT ![i] = v]
              /\ IF c \in mCalendars \ pendingLoads
                 THEN RefreshAll(as, l) /\ UNCHANGED pendingLoads
                 ELSE /\ left' = l /\ pendingLoads' = pendingLoads \ (mCalendars \cap {c})
                      /\ asks' = as /\ UNCHANGED <<jobs, pendingJobs, view>>
                      /\ blurred' = IF v = 0 /\ view[i] # 0 THEN blurred \cup {c} ELSE blurred
              /\ UNCHANGED lost
           \/ /\ v = store[i] /\ {c} \in Perhaps("refresh", {c}, left)
              /\ left' = Failed(left, {c})
              /\ asks' = as /\ lost' = lost \cup (pendingLoads \cap {c})
              /\ UNCHANGED <<store, pendingLoads, jobs, pendingJobs, view, blurred>>

-----------------------------------------------------------------------------
(* Calendars and items that come and go.                                     *)

AddCalendar(c) ==
    /\ MayAct /\ left' = Event /\ c \notin mCalendars /\ mCalendars' = mCalendars \cup {c}
    /\ UNCHANGED <<store, disabled, reloads, pendingLoads, lost>>
    /\ IF c \in disabled THEN UNCHANGED <<query, blurred>> ELSE RefreshOne(c)

\* The helper no longer observes the calendar, but keeps its pending load, and the
\* view's jobs go on.
RemoveCalendar(c) ==
    /\ MayAct /\ left' = Event /\ c \in mCalendars /\ mCalendars' = mCalendars \ {c}
    /\ view' = IF c \in disabled THEN view
               ELSE [i \in Items |-> IF Cal(i) = c THEN 0 ELSE view[i]]
    /\ blurred' = blurred \cup ({c} \cap Awaited)
    /\ lost' = lost \cup ({c} \cap pendingLoads)
    /\ UNCHANGED <<store, disabled, reloads, pendingLoads, jobs, asks, pendingJobs>>

OnPropertyChanged(c) ==
    /\ MayAct
    /\ disabled' = IF c \in disabled THEN disabled \ {c} ELSE disabled \cup {c}
    /\ UNCHANGED <<store, mCalendars, reloads, pendingLoads, lost>>
    /\ IF c \in mCalendars THEN RefreshAll(asks, Event)
       ELSE left' = Event /\ UNCHANGED <<query, blurred>>

\* An item is added to the default calendar or another, modified and deleted in its
\* own.  The view hears of it if the composite observes the calendar.
Edit(i, v) ==
    /\ MayChange /\ left' = [left EXCEPT !.changes = @ - 1]
    /\ v # store[i] /\ Cal(i) \notin disabled
    /\ store' = [store EXCEPT ![i] = v]
    /\ view' = IF Cal(i) \in mCalendars THEN [view EXCEPT ![i] = v] ELSE view
    /\ UNCHANGED <<mCalendars, disabled, reloads, pendingLoads, jobs, asks,
                   pendingJobs, history>>

-----------------------------------------------------------------------------
Versions == 0..1 + MaxChanges

Next ==
    \/ Refresh \/ \E m \in Limits : GetItems(m)
    \/ \E j \in jobs : CancelQuery(j)
    \/ \E a \in asks, j \in jobs, ok \in BOOLEAN : Answer(a, j, ok)
    \/ \E i \in Items, v \in Versions : ReloadDone(Cal(i), i, v) \/ Edit(i, v)
    \/ \E c \in Calendars : \/ RefreshCalendar(c) \/ AddCalendar(c) \/ RemoveCalendar(c)
                            \/ OnPropertyChanged(c)

Spec == Init /\ [][Next]_vars

\* The calendars answer, and reloads come to an end.
Progress ==
    \/ \E a \in asks, j \in jobs, ok \in BOOLEAN : Answer(a, j, ok)
    \/ \E i \in Items : ReloadDone(Cal(i), i, store[i])

FairSpec == Spec /\ WF_vars(Progress)

-----------------------------------------------------------------------------
\* The state keeps its types, the jobs have different numbers, a query has counted
\* every calendar that has answered, and what the view keeps as pending is a job.
TypeOK ==
    /\ store \in [Items -> Versions] /\ view \in [Items -> Versions]
    /\ mCalendars \subseteq Calendars /\ disabled \subseteq Calendars
    /\ reloads \in [Calendars -> 0..2] /\ pendingLoads \subseteq Calendars
    /\ blurred \subseteq Calendars /\ lost \subseteq Calendars
    /\ \A j \in jobs : j.cal \in Calendars \cup {Composite} /\ j.completes \in 0..j.need
    /\ \A j, k \in jobs : j.no = k.no => j = k
    /\ \A a \in asks : a.cal \in Calendars /\ a.wait \in 0..2 /\ \E j \in jobs : j.no = a.job
    /\ \A c \in DOMAIN pendingJobs : pendingJobs[c] # 0 =>
          \E j \in jobs : j.no = pendingJobs[c] /\ j.cal = c /\ j.forView /\ ~j.cancelled

\* The view shows every enabled calendar of the composite as it is, unless it still waits
\* for its answer, and nothing else: no refresh that has been cancelled adds to it, and
\* no load is passed over that the view has not seen.  Excepted are calendars that failed
\* to answer, that went away while they were being asked, of which a load that is not
\* forwarded took away an item just edited, and those whose load the helper still takes
\* for its own after they failed or went away.
ViewIsCurrent ==
    \A i \in Items :
        \/ view[i] = IF Cal(i) \in Enabled THEN store[i] ELSE 0
        \/ Cal(i) \in Awaited \cup blurred \cup lost

\* A client gets as many items as the calendars had for it, up to its limit, in
\* whatever order the calendars answer.
ClientGetsItsShare ==
    \A j \in jobs : ~j.cancelled =>
        j.items = IF j.max = 0 \/ j.offered < j.max THEN j.offered ELSE j.max

\* Every query comes to an end, unless a calendar threw when it was asked.
QueriesEnd == <>[](\A j \in jobs : j.threw)
=============================================================================
