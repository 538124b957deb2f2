------------------------- MODULE TransactionManager -------------------------
(***************************************************************************)
(* Undo and redo of what a user does with calendar items                    *)
(* (calTransactionManager.js).  A transaction asks the calendars and is its *)
(* own listener; the answer comes when it comes, and the user may have gone  *)
(* on, or back, by then.  The calendars are ICS calendars, which work on     *)
(* what they hold in memory at once unless they are locked by a write, and   *)
(* answer when the write is done (IcsCalendar models them in full).          *)
(***************************************************************************)
EXTENDS Integers, Sequences, SequencesExt

CONSTANTS
    Calendars,   \* the calendars
    Items,       \* the items
    Actions,     \* what a user does: "add", "modify", "move", "delete"
    MaxTxns,     \* bound: transactions
    MaxSteps,    \* bound: undo and redo
    MaxForeign,  \* bound: edits that pass by the transaction manager
    MaxToggles,  \* bound: calendars that become read-only or writable
    MaxEvents    \* bound: all of these together

ASSUME ConstantsAssumption ==
    /\ Actions \subseteq {"add", "modify", "move", "delete"}
    /\ {MaxTxns, MaxSteps, MaxForeign, MaxToggles, MaxEvents} \subseteq Nat

VARIABLES
    cals,      \* the calendars: mItems, queue, mModificationActions, locked, readOnly
    txns,      \* the transactions
    undoStack, \* the platform's stacks, with the top at the end
    redoStack,
    left,      \* what the bounds leave
    overtaken, \* history: items of which something was asked before the last answer
    touched    \* history: items edited from outside, or with which something failed

vars == <<cals, txns, undoStack, redoStack, left, overtaken, touched>>

\* An item as it is handed around: its calendar, who wrote its content (0: no item),
\* and its generation.
NoItem    == [cal |-> 0, w |-> 0, g |-> 0]
Object(c, w, g) == [cal |-> c, w |-> w, g |-> g]
Shown(c, i) == cals[c].mItems[i]
Exists(o) == o.w # 0
Homes(i) == {Shown(c, i) : c \in Calendars} \ {NoItem}

Init ==
    /\ \E home \in [Items -> Calendars \cup {NoItem}] :
          cals = [c \in Calendars |->
             [id |-> c, mItems |-> [i \in Items |-> IF home[i] = c THEN Object(c, -1, 0) ELSE NoItem],
              queue |-> <<>>, mods |-> <<>>, locked |-> FALSE, readOnly |-> FALSE,
              threw |-> FALSE]]
    /\ txns = <<>> /\ undoStack = <<>> /\ redoStack = <<>>
    /\ left = [steps |-> MaxSteps, foreign |-> MaxForeign, toggles |-> MaxToggles,
               events |-> MaxEvents]
    /\ overtaken = {} /\ touched = {}

-----------------------------------------------------------------------------
(* A calendar: k is its record.  threw says that a call of this step threw.  *)

\* What a transaction asks of a calendar; half, if there is more to do after it.
Op(kind, i, new, old, n, half) ==
    [kind |-> kind, item |-> i, new |-> new, old |-> old, txn |-> n, half |-> half]

Answered(k, op, ok, o) ==
    [k EXCEPT !.mItems[op.item] = IF ok THEN o ELSE @,
              !.mods = Append(@, [op |-> op, ok |-> ok, detail |-> o])]

\* An item added replaces one of the same id and is in this calendar now; one modified
\* has to be the clone of what is there, and gets a new generation.
AddItem(k, op) == Answered(k, op, TRUE, [op.new EXCEPT !.cal = k.id])

ModifyItem(k, op) ==
    Answered(k, op, Exists(k.mItems[op.item]) /\ k.mItems[op.item] = op.old,
             IF op.new.g = op.old.g THEN [op.new EXCEPT !.g = @ + 1] ELSE op.new)

\* An item that is not there cannot be asked for its generation.
DeleteItem(k, op) ==
    IF Exists(k.mItems[op.item])
    THEN Answered(k, op, k.mItems[op.item].g = op.old.g, NoItem)
    ELSE [k EXCEPT !.threw = TRUE]

\* The first operation that waits is done.
Step(k) ==
    LET op   == Head(k.queue)
        rest == [k EXCEPT !.queue = Tail(@)]
    IN  CASE op.kind = "add" -> AddItem(rest, op)
          [] op.kind = "modify" -> ModifyItem(rest, op)
          [] op.kind = "delete" -> DeleteItem(rest, op)

\* processQueue: everything that waits is done, then written.  An exception leaves the
\* rest in the queue and what is done unwritten until the next time.
Worked(k) ==
    LET w[j \in 0 .. Len(k.queue)] ==
          IF j = 0 THEN [k EXCEPT !.threw = FALSE]
          ELSE IF w[j - 1].threw THEN w[j - 1] ELSE Step(w[j - 1])
    IN  w[Len(k.queue)]

\* Mutant: it writes even if there was nothing to do.
ProcessQueueWrites(k) == [Worked(k) EXCEPT !.locked = TRUE]
ProcessQueue(k) == [Worked(k) EXCEPT !.locked = ~Worked(k).threw /\ k.queue # <<>>]

Asked(k, op) ==
    IF k.readOnly THEN [k EXCEPT !.threw = TRUE]
    ELSE IF k.locked THEN [k EXCEPT !.queue = Append(@, op), !.threw = FALSE]
    ELSE ProcessQueue([k EXCEPT !.queue = Append(@, op)])

\* What has been asked of the item and not been answered.
Pending(i) ==
    \E c \in Calendars : \E op \in ToSet(cals[c].queue) \cup {m.op : m \in ToSet(cals[c].mods)} :
        op.item = i

\* What waits for the item although the call that asked for it threw.
Stuck(cs, i) == \E c \in Calendars : cs[c].threw /\ \E op \in ToSet(cs[c].queue) : op.item = i

Threw(cs) == \E c \in Calendars : cs[c].threw
Calm(cs)  == [c \in Calendars |-> [cs[c] EXCEPT !.threw = FALSE]]

-----------------------------------------------------------------------------
(* Transactions.                                                             *)

IsMove(t) == t.mAction = "modify" /\ t.mItem.cal # t.mOldItem.cal

\* doTransaction: what it asks of the calendars; a move deletes the old item when the
\* new one has been added.
DoTransaction(n, t) ==
    LET kind == IF IsMove(t) THEN "add" ELSE t.mAction
        old  == IF t.mAction = "delete" THEN t.mItem ELSE t.mOldItem
    IN  [cals EXCEPT ![t.mCalendar] = Asked(@, Op(kind, t.item, t.mItem, old, n, IsMove(t)))]

\* undoTransaction: a move's new item is deleted and its old one added, whatever
\* becomes of the other, unless the first call throws.
UndoTransaction(n, t) ==
    LET modify == Op("modify", t.item, t.mOldItem, t.mItem, n, FALSE)
        delete == Op("delete", t.item, NoItem, t.mItem, n, FALSE)
        add    == Op("add", t.item, t.mOldItem, NoItem, n, FALSE)
        first  == [cals EXCEPT ![t.mCalendar] = Asked(@, IF IsMove(t) THEN delete ELSE modify)]
    IN  IF ~IsMove(t) \/ Threw(first) THEN first
        ELSE [first EXCEPT ![t.mOldCalendar] = Asked(@, add)]

Done(t) == [t EXCEPT !.mIsDoTransaction = TRUE,
                     !.mOldCalendar = IF IsMove(t) THEN t.mOldItem.cal ELSE @]
Undone(t) == [t EXCEPT !.mIsDoTransaction = FALSE]

\* cs is what comes of a step of transaction t, which happens before the last answer
\* for its item or not.
Asks(t, cs) ==
    /\ cals' = Calm(cs)
    /\ overtaken' = IF Pending(t.item) \/ Stuck(cs, t.item) THEN overtaken \cup {t.item}
                    ELSE overtaken
    /\ touched' = IF Threw(cs) THEN touched \cup {t.item} ELSE touched

\* createAndCommitTxn: the user does something with an item of calendar c, as it is
\* shown, or with a new one; calendar d is where it goes.  Only "modify" comes with
\* the old item.
CreateAndCommitTxn(action, i, c, d) ==
    LET n   == Len(txns) + 1
        old == Shown(c, i)
        t   == [item |-> i, mAction |-> IF action = "move" THEN "modify" ELSE action,
                mCalendar |-> d, mOldCalendar |-> c, mIsDoTransaction |-> TRUE,
                mItem |-> IF action = "delete" THEN old ELSE Object(d, n, old.g),
                mOldItem |-> IF action \in {"modify", "move"} THEN old ELSE NoItem]
        cs  == DoTransaction(n, t)
    IN  /\ n <= MaxTxns /\ ~cals[d].readOnly /\ ~cals[c].readOnly
        /\ action = "move" <=> c # d
        /\ IF action = "add" THEN \A e \in Calendars : ~Exists(Shown(e, i)) ELSE Exists(old)
        /\ txns' = Append(txns, Done(t)) /\ Asks(t, cs)
        /\ left.events > 0 /\ left' = [left EXCEPT !.events = @ - 1]
        /\ IF Threw(cs) THEN UNCHANGED <<undoStack, redoStack>>
           ELSE undoStack' = Append(undoStack, n) /\ redoStack' = <<>>

\* canUndo, canRedo: both items of the transaction on top are in writable calendars; a
\* transaction without an old item can be neither undone nor redone.
\* Mutant: only the new item's calendar counts.
CheckWritableNew(stack) ==
    stack # <<>> /\ LET t == txns[Last(stack)]
                    IN  /\ Exists(t.mItem) /\ Exists(t.mOldItem)
                        /\ ~cals[t.mItem.cal].readOnly
CheckWritable(stack) ==
    stack # <<>> /\ LET t == txns[Last(stack)]
                    IN  /\ Exists(t.mItem) /\ Exists(t.mOldItem)
                        /\ ~cals[t.mItem.cal].readOnly /\ ~cals[t.mOldItem.cal].readOnly

\* The platform keeps a transaction where it is if it throws.
Undo ==
    LET n  == Last(undoStack)
        cs == UndoTransaction(n, txns[n])
    IN  /\ CheckWritable(undoStack)
        /\ left.steps > 0 /\ left.events > 0 /\ left' = [left EXCEPT !.steps = @ - 1, !.events = @ - 1]
        /\ txns' = [txns EXCEPT ![n] = Undone(@)] /\ Asks(txns[n], cs)
        /\ IF Threw(cs) THEN UNCHANGED <<undoStack, redoStack>>
           ELSE undoStack' = Front(undoStack) /\ redoStack' = Append(redoStack, n)

Redo ==
    LET n  == Last(redoStack)
        cs == DoTransaction(n, txns[n])
    IN  /\ CheckWritable(redoStack)
        /\ left.steps > 0 /\ left.events > 0 /\ left' = [left EXCEPT !.steps = @ - 1, !.events = @ - 1]
        /\ txns' = [txns EXCEPT ![n] = Done(@)] /\ Asks(txns[n], cs)
        /\ IF Threw(cs) THEN UNCHANGED <<undoStack, redoStack>>
           ELSE redoStack' = Front(redoStack) /\ undoStack' = Append(undoStack, n)

-----------------------------------------------------------------------------
(* The calendars' answers.                                                   *)

\* onOperationComplete: the item as the calendar has it now replaces the one that was
\* handed over, by what the transaction did last.
\* Mutant: it always replaces the new item.
UpdatedNew(t, m) ==
    IF ~m.ok \/ m.op.kind = "delete" THEN t ELSE [t EXCEPT !.mItem = m.detail]
Updated(t, m) ==
    IF ~m.ok \/ m.op.kind = "delete" THEN t
    ELSE IF t.mIsDoTransaction THEN [t EXCEPT !.mItem = m.detail]
    ELSE [t EXCEPT !.mOldItem = m.detail]

\* The first listener of calendar c is told, and a move goes on: s collects what comes of
\* it.  If one throws, the others are not told.
Told(s, c) ==
    LET m    == Head(s.cals[c].mods)
        n    == m.op.txn
        t    == Updated(s.txns[n], m)
        rest == [s.cals EXCEPT ![c].mods = Tail(@)]
        cs   == IF m.op.half /\ m.ok
                THEN [rest EXCEPT ![t.mOldItem.cal] =
                         Asked(@, Op("delete", t.item, NoItem, t.mOldItem, n, FALSE))]
                ELSE rest
    IN  IF n = 0 THEN [s EXCEPT !.cals = rest]
        ELSE IF Threw(s.cals) THEN [s EXCEPT !.cals = rest, !.failed = @ \cup {t.item}]
        ELSE [cals |-> cs, txns |-> [s.txns EXCEPT ![n] = t],
              failed |-> IF m.ok /\ ~Threw(cs) THEN s.failed ELSE s.failed \cup {t.item}]

Tells(c) ==
    LET s[j \in 0 .. Len(cals[c].mods)] ==
          IF j = 0 THEN [cals |-> cals, txns |-> txns, failed |-> {}] ELSE Told(s[j - 1], c)
    IN  s[Len(cals[c].mods)]

\* unlock: the listeners are told, then the queue is processed; a listener that throws
\* leaves the calendar locked.
Answer(c) ==
    LET s    == Tells(c)
        next == ProcessQueue([s.cals[c] EXCEPT !.locked = FALSE])
    IN  /\ cals[c].locked /\ cals[c].mods # <<>>
        /\ cals' = Calm(IF Threw(s.cals) THEN s.cals ELSE [s.cals EXCEPT ![c] = next])
        /\ txns' = s.txns /\ touched' = touched \cup s.failed
        /\ UNCHANGED <<undoStack, redoStack, left, overtaken>>

-----------------------------------------------------------------------------
(* What goes on besides.                                                     *)

\* Alarms, invitations and other clients of the calendar modify items, too.
ForeignEdit(c, i) ==
    LET old == Shown(c, i)
    IN  /\ left.foreign > 0 /\ left.events > 0 /\ left' = [left EXCEPT !.foreign = @ - 1, !.events = @ - 1]
        /\ Exists(old) /\ ~cals[c].readOnly
        /\ cals' = Calm([cals EXCEPT ![c] =
              Asked(@, Op("modify", i, [old EXCEPT !.w = -1 - left.foreign], old, 0, FALSE))])
        /\ touched' = touched \cup {i}
        /\ UNCHANGED <<txns, undoStack, redoStack, overtaken>>

Toggle(c) ==
    /\ left.toggles > 0 /\ left.events > 0 /\ left' = [left EXCEPT !.toggles = @ - 1, !.events = @ - 1]
    /\ cals' = [cals EXCEPT ![c].readOnly = ~@]
    /\ UNCHANGED <<txns, undoStack, redoStack, overtaken, touched>>

Next ==
    \/ \E a \in Actions, i \in Items, c, d \in Calendars : CreateAndCommitTxn(a, i, c, d)
    \/ Undo \/ Redo
    \/ \E c \in Calendars : Answer(c) \/ Toggle(c) \/ \E i \in Items : ForeignEdit(c, i)

Spec == Init /\ [][Next]_vars
-----------------------------------------------------------------------------
\* The state keeps its types: an item is in the calendar it says it is in, a transaction
\* on one stack at most, and a calendar is not locked without a write that will unlock
\* it, unless a listener has thrown.
TypeOK ==
    /\ \A c \in Calendars : \A i \in Items : Exists(Shown(c, i)) => Shown(c, i).cal = c
    /\ \A c \in Calendars : cals[c].locked => cals[c].mods # <<>> \/ touched # {}
    /\ overtaken \subseteq Items /\ touched \subseteq Items
    /\ ToSet(undoStack) \cup ToSet(redoStack) \subseteq DOMAIN txns
    /\ IsInjective(undoStack \o redoStack)

\* The last transaction of an item on a stack, 0 if there is none.
Latest(stack, i) ==
    LET ps == {p \in DOMAIN stack : txns[stack[p]].item = i}
    IN  IF ps = {} THEN 0 ELSE stack[Max(ps)]

\* What the stacks say of an item: the last transaction that is done has put it where
\* and as it is, or the next one to be redone starts from there.
Expected(i) ==
    LET done == Latest(undoStack, i)
        next == Latest(redoStack, i)
    IN  IF done # 0
        THEN IF txns[done].mAction = "delete" THEN {}
             ELSE {Object(txns[done].mCalendar, done, txns[done].mItem.g)}
        ELSE IF next # 0
        THEN {Object(txns[next].mOldCalendar, -1, txns[next].mOldItem.g)}
        ELSE Homes(i)

\* When everything has been answered, an item is where the transactions have put it
\* that are done and not undone, in one calendar, with the content and the generation
\* from which the next undo or redo starts.  Excepted are items of which something was
\* asked before the answer to the last thing, or that changed by other hands.
UndoRestores ==
    \A i \in Items : ~Pending(i) /\ i \notin overtaken \cup touched => Homes(i) = Expected(i)

\* An item is not lost unless it is deleted, whatever fails on the way, as long as the
\* user waits for the answers.
NeverLost ==
    \A i \in Items :
        Homes(i) = {} /\ ~Pending(i) /\ i \notin overtaken =>
            LET ts == {t \in ToSet(txns) : t.item = i}
            IN  ts = {} \/ \E t \in ts : t.mAction = "delete"
=============================================================================
