---------------------------- MODULE IcsCalendar ----------------------------
(***************************************************************************)
(* The ICS calendar provider (calendar/providers/ics/calICSCalendar.js):   *)
(* an in-memory calendar in front of ONE remote .ics file that is read and *)
(* written as a whole.  Requests go through a queue; a lock keeps the      *)
(* queue closed while a GET, a backup, a PUT or a PROPFIND is under way.   *)
(*                                                                         *)
(* Everything here runs on one thread, so a callback is one atomic step,   *)
(* except processQueue: its while loop takes one action per iteration      *)
(* (drain.on), and no other action is enabled until the loop has ended and *)
(* its caller has done what it does then (drain.then).                     *)
(* What is in flight is a set of records, because the code does not        *)
(* enforce that there is only one.                                         *)
(***************************************************************************)
EXTENDS Integers, Sequences, FiniteSets

CONSTANTS
    Items,        \* identities of calendar items
    NoItem,       \* stands for "no item" in requests without one
    Existing,     \* the items the remote file may hold at the start
    Loaded,       \* TRUE: the first GET has already succeeded
    Transports,   \* "http", "file" or both: where the calendar's file may be
    PutEtag,      \* does the HTTP server send an ETag with a PUT's response
    Kinds,        \* the kinds of requests clients make
    GetFaults,    \* what may go wrong in a GET
    WriteFaults,  \* what may go wrong in a write
    Damage,       \* how another writer may damage the file
    MaxOps,       \* bound: requests that clients make
    MaxForeign    \* bound: writes of the file by others

EditKinds == {"add", "modify", "delete"}
OpKinds   == EditKinds \cup {"get_item", "get_items", "refresh"}
Forms     == {"good", "utf8", "parse", "component"}

ASSUME ConstantsAssumption ==
    /\ NoItem \notin Items
    /\ Existing \subseteq Items
    /\ Loaded \in BOOLEAN
    /\ Transports \subseteq {"http", "file"}
    /\ PutEtag \in BOOLEAN
    /\ Kinds \subseteq OpKinds
    /\ GetFaults \subseteq {"fail", "error"}
    /\ WriteFaults \subseteq {"disk", "open", "refused", "lost", "garbled"}
    /\ Damage \subseteq (Forms \ {"good"})
    /\ MaxOps \in Nat
    /\ MaxForeign \in Nat

VARIABLES
    ops,       \* every request ever made; a request is named by its index
    answers,   \* what each request's listener has been told, in order
    queue,     \* this.queue
    mods,      \* this.mModificationActions with their opCompleteArgs (a set: the order
               \* in which listeners are told is not modelled)
    locked,    \* this.locked
    drain,     \* the processQueue call that is running
    mem,       \* this.mMemoryCalendar
    stamp,     \* the hooks' mEtag or mtime, 0 when unset
    readOnly,  \* the property readOnly
    disabled,  \* the property disabled
    flights,   \* requests and posted runnables that are under way
    remote,    \* the remote file
    foreign,   \* how often others have written the file
    stored     \* history: the edits that some committed PUT carried

client == <<ops, answers>>
vars == <<ops, answers, queue, mods, locked, drain, mem, stamp, readOnly,
          disabled, flights, remote, foreign, stored>>

-----------------------------------------------------------------------------
(* Data.  A version of an item is the edit that wrote it (positive: the     *)
(* request of that number; negative: another writer; 0: there is no item)   *)
(* and the item's generation.                                               *)

Version == [w : Int, g : Nat]
Absent  == [w |-> 0, g |-> 0]
Content == [Items -> Version]
Nothing == [i \in Items |-> Absent]

Ids == 1..Len(ops)

Request(k, i, b, f) == [kind |-> k, item |-> i, base |-> b, force |-> f]

IsEdit(id)    == ops[id].kind \in EditKinds
IsRefresh(id) == ops[id].kind = "refresh"
ModOps        == {m.op : m \in mods}

\* Which hooks the calendar has: those of the place its file is at.
Http == remote.at = "http"

\* One thing under way: a kind, and what it sent and has got back.
Flight(k, id) ==
    [kind |-> k, id |-> id, force |-> FALSE, cond |-> 0, out |-> "wait",
     data |-> Nothing, ver |-> 0, form |-> "good", shown |-> Nothing,
     carries |-> {}]

Reading == {"get", "parse"}
Writing == {"backup", "collect", "put", "etag"}
Locking == Reading \cup Writing

\* What the views show: the memory calendar, except that nobody is told of the
\* empty one that is put in its place while a download is parsed.
Parsing == \E f \in flights : f.kind = "parse"

View == IF Parsing
        THEN (CHOOSE f \in flights : f.kind = "parse").shown
        ELSE mem

\* processQueue: is it running, the last edit it has applied (0: none, so
\* writeICS is false), the write whose try block is around the call (0: none; with
\* HTTP that of onAfterPut, with a file that of doWriteICS), and what the caller
\* goes on to do when the loop has ended, unless by an exception.
Calls == {"nothing", "forceRefresh", "unlock"}

Idle       == [on |-> FALSE, last |-> 0, put |-> 0,   then |-> "nothing"]
Drain(put) == [on |-> TRUE,  last |-> 0, put |-> put, then |-> "nothing"]

DrainThen(call) == [Drain(0) EXCEPT !.then = call]
Ended           == [Idle EXCEPT !.then = drain.then]

\* The event loop is free to call back, and users to act.
AtRest == ~drain.on /\ drain.then = "nothing"

-----------------------------------------------------------------------------
Init ==
    /\ \E at \in Transports, held \in SUBSET Existing :
         remote = [at      |-> at,
                   content |-> [i \in Items |-> IF i \in held
                                               THEN [w |-> -1, g |-> 0]
                                               ELSE Absent],
                   ver     |-> IF held = {} THEN 0 ELSE 1,
                   form    |-> "good"]
    /\ mem   = IF Loaded THEN remote.content ELSE Nothing
    /\ stamp = IF Loaded THEN remote.ver ELSE 0
    /\ ops = <<>> /\ answers = <<>> /\ queue = <<>> /\ mods = {}
    /\ locked = FALSE /\ drain = Idle
    /\ readOnly = FALSE /\ disabled = FALSE
    /\ flights = {} /\ foreign = 0 /\ stored = {}

-----------------------------------------------------------------------------
(* Requests.  An entry is pushed, then processQueue runs unless locked.     *)

Push(r) ==
    /\ ops'     = Append(ops, r)
    /\ answers' = Append(answers, <<>>)
    /\ queue'   = Append(queue, Len(ops) + 1)
    /\ drain'   = IF locked THEN Idle ELSE Drain(0)
    /\ UNCHANGED <<mods, locked, mem, stamp, readOnly, disabled, flights,
                   remote, foreign, stored>>

Enqueue(r) == AtRest /\ Push(r)

\* How many of the requests are the clients' own: the provider's forced
\* refreshes are not.
ClientOps == Cardinality({k \in 1..Len(ops) : ~ops[k].force})

\* An edit of a read-only calendar is refused (the three edits alike), and clients
\* offer none on a disabled one (isCalendarWritable).
Edit(k) == k \in Kinds /\ ClientOps < MaxOps /\ ~readOnly /\ ~disabled

AdoptItem(i) ==
    Edit("add") /\ View[i] = Absent /\ Enqueue(Request("add", i, Absent, FALSE))

ModifyItem(i) ==
    /\ Edit("modify") /\ View[i] # Absent
    /\ Enqueue(Request("modify", i, View[i], FALSE))

DeleteItem(i) ==
    /\ Edit("delete") /\ View[i] # Absent
    /\ Enqueue(Request("delete", i, View[i], FALSE))

GetItem(i) ==
    /\ "get_item" \in Kinds /\ ClientOps < MaxOps
    /\ Enqueue(Request("get_item", i, Absent, FALSE))

GetItems ==
    /\ "get_items" \in Kinds /\ ClientOps < MaxOps
    /\ Enqueue(Request("get_items", NoItem, Absent, FALSE))

\* The calendar manager refreshes at startup, on a timer and on demand, and
\* never a disabled calendar.
Refresh ==
    /\ "refresh" \in Kinds /\ ClientOps < MaxOps /\ ~disabled
    /\ Enqueue(Request("refresh", NoItem, Absent, FALSE))

-----------------------------------------------------------------------------
(* processQueue: one action per iteration of its loop.                      *)

Next1(k) == drain.on /\ queue # <<>> /\ ops[Head(queue)].kind = k
Op1      == ops[Head(queue)]

\* What addItem, modifyItem and deleteItem of the memory calendar do: item i
\* becomes v, and modListener records the status.  An error also reaches
\* calICSObserver.onError, which makes the calendar read-only, unless the observer
\* waits for a parse to end.
Applied(v, status) ==
    /\ mem'      = [mem EXCEPT ![Op1.item] = v]
    /\ mods'     = mods \cup {[op |-> Head(queue), status |-> status]}
    /\ readOnly' = (readOnly \/ (status # "ok" /\ ~Parsing))
    /\ queue'    = Tail(queue)
    /\ drain'    = [drain EXCEPT !.last = Head(queue)]
    /\ UNCHANGED <<client, locked, stamp, disabled, flights, remote, foreign,
                   stored>>

ApplyAdd == Next1("add") /\ Applied([w |-> Head(queue), g |-> 0], "ok")

ApplyModify ==
    /\ Next1("modify")
    /\ LET old == mem[Op1.item] IN
       \/ /\ old # Absent /\ old = Op1.base
          /\ Applied([w |-> Head(queue), g |-> old.g + 1], "ok")
       \/ /\ old = Absent \/ old # Op1.base
          /\ Applied(old, "mismatch")

ApplyDelete ==
    /\ Next1("delete")
    /\ LET old == mem[Op1.item] IN
       \/ old # Absent /\ old.g = Op1.base.g /\ Applied(Absent, "ok")
       \/ old # Absent /\ old.g # Op1.base.g /\ Applied(old, "mismatch")

\* The memory calendar's getItem answers at once, its getItems is posted.
ServeGetItem ==
    /\ Next1("get_item")
    /\ answers' = [answers EXCEPT ![Head(queue)] = Append(@, "ok")]
    /\ queue'   = Tail(queue)
    /\ UNCHANGED <<ops, mods, locked, drain, mem, stamp, readOnly, disabled,
                   flights, remote, foreign, stored>>

\* Mutant of ServeGetItems: it takes the request for a modification.
ServeGetItemsRecorded ==
    /\ Next1("get_items")
    /\ flights' = flights \cup {Flight("read", Head(queue))}
    /\ mods'    = mods \cup {[op |-> Head(queue), status |-> "ok"]}
    /\ queue'   = Tail(queue)
    /\ UNCHANGED <<client, locked, drain, mem, stamp, readOnly, disabled, remote,
                   foreign, stored>>

ServeGetItems ==
    /\ Next1("get_items")
    /\ flights' = flights \cup {Flight("read", Head(queue))}
    /\ queue'   = Tail(queue)
    /\ UNCHANGED <<client, mods, locked, drain, mem, stamp, readOnly, disabled,
                   remote, foreign, stored>>

\* The end of the loop: the queue is empty, or a refresh is at its head.  A
\* pending write goes first and the refresh goes back to the head.
WriteIcs ==
    /\ drain.on /\ drain.last # 0
    /\ queue # <<>> => IsRefresh(Head(queue))
    /\ locked'  = TRUE
    /\ flights' = flights \cup {Flight("backup", drain.last)}
    /\ drain'   = Ended
    /\ UNCHANGED <<client, queue, mods, mem, stamp, readOnly, disabled, remote,
                   foreign, stored>>

\* Mutant of DoRefresh: it neither waits for edits that are not written yet ...
DoRefreshFirst ==
    /\ Next1("refresh")
    /\ locked'  = TRUE
    /\ flights' = flights \cup {Flight("get", Head(queue))}
    /\ queue'   = Tail(queue)
    /\ drain'   = Ended
    /\ UNCHANGED <<client, mods, mem, stamp, readOnly, disabled, remote,
                   foreign, stored>>

\* ... nor, in this one, takes the lock.
DoRefreshUnlocked ==
    /\ Next1("refresh") /\ drain.last = 0
    /\ flights' = flights \cup {Flight("get", Head(queue))}
    /\ queue'   = Tail(queue)
    /\ drain'   = Ended
    /\ UNCHANGED <<client, locked, mods, mem, stamp, readOnly, disabled, remote,
                   foreign, stored>>

\* The GET for refresh id: only an unforced one over HTTP is conditional.
Get(id) == [Flight("get", id) EXCEPT
               !.force = ops[id].force,
               !.cond  = IF Http /\ ~ops[id].force THEN stamp ELSE 0]

DoRefresh ==
    /\ Next1("refresh") /\ drain.last = 0
    /\ locked'  = TRUE
    /\ flights' = flights \cup {Get(Head(queue))}
    /\ queue'   = Tail(queue)
    /\ drain'   = Ended
    /\ UNCHANGED <<client, mods, mem, stamp, readOnly, disabled, remote,
                   foreign, stored>>

NothingToDo ==
    /\ drain.on /\ queue = <<>> /\ drain.last = 0
    /\ drain' = Ended
    /\ UNCHANGED <<client, queue, mods, locked, mem, stamp, readOnly, disabled,
                   flights, remote, foreign, stored>>

-----------------------------------------------------------------------------
(* unlock(errCode): every modification is told its own status, a success    *)
(* turned into the write's failure; then the queue is processed.            *)

\* Mutant of Told: the write's failure is not passed on.
ToldOwn(m, err) == m.status

Told(m, err) == IF m.status = "ok" /\ err # "ok" THEN err ELSE m.status

\* Mutant of Notified: only modifications that succeeded are told.
NotifiedIfApplied(err) ==
    [id \in DOMAIN answers |->
        IF [op |-> id, status |-> "ok"] \in mods
        THEN Append(answers[id], err) ELSE answers[id]]

Notified(err) ==
    [id \in DOMAIN answers |->
        IF id \in ModOps
        THEN Append(answers[id], Told(CHOOSE m \in mods : m.op = id, err))
        ELSE answers[id]]

\* Mutants of Unlock: the queue is not processed; the list of modifications is
\* not cleared.
UnlockOnly(err, put) ==
    /\ mods' = {} /\ locked' = FALSE /\ drain' = Idle
    /\ answers' = Notified(err)

UnlockKeeping(err, put) ==
    /\ mods' = mods /\ locked' = FALSE /\ drain' = Drain(put)
    /\ answers' = Notified(err)

Unlock(err, put) ==
    /\ mods' = {} /\ locked' = FALSE /\ drain' = Drain(put)
    /\ answers' = Notified(err)

\* forceRefresh's request: it is pushed, then processQueue runs unless locked.
Forced       == Request("refresh", NoItem, Absent, TRUE)
ForceRefresh == ~drain.on /\ drain.then = "forceRefresh" /\ Push(Forced)

\* Mutant of ForceRefreshAndUnlock: the refresh is an ordinary one.
RefreshAndUnlock(err) ==
    /\ mods' = {} /\ locked' = FALSE /\ drain' = Drain(0)
    /\ answers' = Append(Notified(err), <<>>)
    /\ ops'     = Append(ops, [Forced EXCEPT !.force = FALSE])
    /\ queue'   = Append(queue, Len(ops) + 1)

\* forceRefresh while the calendar is locked; unlock follows.
ForceRefreshAndUnlock(err) ==
    /\ mods' = {} /\ locked' = FALSE /\ drain' = Drain(0)
    /\ answers' = Append(Notified(err), <<>>)
    /\ ops'     = Append(ops, Forced)
    /\ queue'   = Append(queue, Len(ops) + 1)

-----------------------------------------------------------------------------
(* Exceptions that leave processQueue.  The write whose try block they end  *)
(* in is drain.put; elsewhere nobody catches them, and what the caller       *)
(* would have done next (drain.then) is not done.                            *)

\* doWriteICS's catch block: the error makes the calendar read-only, unlock tells the
\* modifications that they failed, and forceRefresh follows.
WriteGivenUp ==
    /\ readOnly' = TRUE
    /\ mods' = {} /\ locked' = FALSE /\ drain' = DrainThen("forceRefresh")
    /\ answers' = Notified("failed")

InDoWriteIcs == drain.put # 0 /\ ~Http

\* onAfterPut takes any exception for a missing ETag header: a PROPFIND goes out,
\* without the lock.
EtagAsked == IF drain.put # 0 /\ Http THEN {Flight("etag", drain.put)} ELSE {}

\* deleteItem reads the generation of an item that is not there: a TypeError.  Its
\* listener hears nothing, and the edits that this loop has applied stay in
\* mModificationActions and are not written.
DeleteThrows ==
    /\ Next1("delete") /\ mem[Op1.item] = Absent
    /\ queue' = Tail(queue)
    /\ \/ /\ ~InDoWriteIcs
          /\ drain' = Idle /\ flights' = flights \cup EtagAsked
          /\ UNCHANGED <<answers, mods, locked, readOnly>>
       \/ InDoWriteIcs /\ WriteGivenUp /\ UNCHANGED flights
    /\ UNCHANGED <<ops, mem, stamp, disabled, remote, foreign, stored>>

\* makeBackup throws (the backup file cannot be created): writeICS unlocks, which
\* tells the modifications that they failed and processes the queue, so that a
\* refresh at its head goes out, and throws the exception on.  If doWriteICS catches
\* it, it unlocks once more, whatever holds the lock by now.
WriteIcsThrows ==
    /\ drain.on /\ drain.last # 0 /\ "disk" \in WriteFaults
    /\ queue # <<>> => IsRefresh(Head(queue))
    /\ queue' = IF queue = <<>> THEN <<>> ELSE Tail(queue)
    /\ LET got == IF queue = <<>> THEN {} ELSE {Get(Head(queue))} IN
       \/ /\ ~InDoWriteIcs
          /\ mods' = {} /\ answers' = Notified("failed")
          /\ locked' = (queue # <<>>) /\ drain' = Idle
          /\ flights' = flights \cup got \cup EtagAsked
          /\ UNCHANGED readOnly
       \/ InDoWriteIcs /\ WriteGivenUp /\ flights' = flights \cup got
    /\ UNCHANGED <<ops, mem, stamp, disabled, remote, foreign, stored>>

\* onStopRequest's unlock after a forceRefresh that was not locked out.
UnlockFollows ==
    /\ ~drain.on /\ drain.then = "unlock" /\ Unlock("failed", 0)
    /\ UNCHANGED <<ops, queue, mem, stamp, readOnly, disabled, flights, remote,
                   foreign, stored>>

ProcessQueue ==
    \/ ApplyAdd \/ ApplyModify \/ ApplyDelete \/ DeleteThrows
    \/ ServeGetItem \/ ServeGetItems \/ WriteIcs \/ WriteIcsThrows
    \/ DoRefresh \/ NothingToDo \/ ForceRefresh \/ UnlockFollows

-----------------------------------------------------------------------------
Done(f)      == flights' = flights \ {f}
Becomes(f, g) == flights' = (flights \ {f}) \cup {g}

\* A flight on which the event loop may call back.
Ready(f, k) == AtRest /\ f \in flights /\ f.kind = k

-----------------------------------------------------------------------------
(* The remote side (not part of the source): it answers a GET with the file *)
(* as it is at that moment, and a PUT carrying an If header only if the     *)
(* file still has that ETag.  A file has no such check.                     *)

ServeGet(f) ==
    /\ Ready(f, "get") /\ f.out = "wait"
    /\ \/ /\ remote.ver = 0
          /\ Becomes(f, [f EXCEPT !.out = IF Http THEN "404"
                                          ELSE "throw"])
       \/ /\ remote.ver # 0 /\ f.cond = remote.ver
          /\ Becomes(f, [f EXCEPT !.out = "304"])
       \/ /\ remote.ver # 0 /\ f.cond # remote.ver
          /\ Becomes(f, [f EXCEPT !.out = "ok", !.data = remote.content,
                                  !.ver = remote.ver, !.form = remote.form])
       \/ \E o \in GetFaults : Becomes(f, [f EXCEPT !.out = o])
    /\ UNCHANGED <<client, queue, mods, locked, drain, mem, stamp, readOnly,
                   disabled, remote, foreign, stored>>

Commit(f) ==
    /\ remote' = [remote EXCEPT !.content = f.data, !.ver = @ + 1, !.form = "good"]
    /\ stored' = stored \cup f.carries

ServePut(f) ==
    /\ Ready(f, "put") /\ f.out = "wait"
    /\ \/ /\ f.cond \in {0, remote.ver} /\ Commit(f)
          /\ \/ Becomes(f, [f EXCEPT !.out = "ok", !.ver = remote.ver + 1])
             \/ /\ "lost" \in WriteFaults
                /\ Becomes(f, [f EXCEPT !.out = "error"])
       \/ /\ f.cond \notin {0, remote.ver} \/ "refused" \in WriteFaults
          /\ Becomes(f, [f EXCEPT !.out = "error"])
          /\ UNCHANGED <<remote, stored>>
    /\ UNCHANGED <<client, queue, mods, locked, drain, mem, stamp, readOnly,
                   disabled, foreign>>

\* Another program writes the file: item i gets another version, appears or
\* disappears, or the file is left in a form that cannot be read.
ForeignWrite(i) ==
    /\ AtRest /\ foreign < MaxForeign
    /\ foreign' = foreign + 1
    /\ \E v \in {Absent, [w |-> -(foreign + 2), g |-> remote.content[i].g]},
          d \in Damage \cup {"good"} :
         /\ v # remote.content[i]
         /\ remote' = [remote EXCEPT !.content = [@ EXCEPT ![i] = v], !.ver = @ + 1,
                                 !.form = d]
    /\ UNCHANGED <<client, queue, mods, locked, drain, mem, stamp, readOnly,
                   disabled, flights, stored>>

-----------------------------------------------------------------------------
(* Reading: doRefresh, onStreamComplete, onParsingComplete.                 *)

\* fileHooks.onAfterGet compares with the modification time the file has now,
\* which is that of the load or of a later write.
Unchanged(f) == ~Http /\ stamp # 0 /\ stamp = remote.ver /\ ~f.force
\* Mutant of Stamp: the ETag is the one the file has later on.
StampNow(f)  == remote.ver

Stamp(f)     == IF Http THEN f.ver ELSE remote.ver

\* Mutant of KeepOldData: it returns without unlocking.
KeepOldDataLocked(f) ==
    /\ Ready(f, "get")
    /\ \/ f.out \in {"fail", "throw", "304", "404", "error"}
       \/ f.out = "ok" /\ Unchanged(f)
    /\ disabled' = (disabled \/ f.out = "error") /\ Done(f)
    /\ UNCHANGED <<client, queue, mods, locked, drain, mem, stamp, readOnly,
                   remote, foreign, stored>>

\* The stream failed, asyncOpen threw, or onAfterGet says the old data is to be
\* used; an HTTP error disables the calendar.
KeepOldData(f) ==
    /\ Ready(f, "get")
    /\ \/ f.out \in {"fail", "throw", "304", "404", "error"}
       \/ f.out = "ok" /\ Unchanged(f)
    /\ disabled' = (disabled \/ f.out = "error")
    /\ Unlock("ok", 0) /\ Done(f)
    /\ UNCHANGED <<ops, queue, mem, stamp, readOnly, remote, foreign, stored>>

\* The file has no bytes at all.
LoadEmpty(f) ==
    /\ Ready(f, "get") /\ f.out = "ok" /\ ~Unchanged(f) /\ f.data = Nothing
    /\ stamp' = Stamp(f) /\ mem' = Nothing
    /\ Unlock("ok", 0) /\ Done(f)
    /\ UNCHANGED <<ops, queue, readOnly, disabled, remote, foreign, stored>>

\* The bytes are not UTF-8: the stamp is new, the items are the old ones.
DecodingFails(f) ==
    /\ Ready(f, "get") /\ f.out = "ok" /\ ~Unchanged(f) /\ f.form = "utf8"
    /\ stamp' = Stamp(f) /\ readOnly' = TRUE
    /\ Unlock("ok", 0) /\ Done(f)
    /\ UNCHANGED <<ops, queue, mem, disabled, remote, foreign, stored>>

StartParsing(f) ==
    /\ Ready(f, "get") /\ f.out = "ok" /\ ~Unchanged(f) /\ f.form # "utf8"
    /\ stamp' = Stamp(f) /\ mem' = Nothing
    /\ Becomes(f, [f EXCEPT !.kind = "parse", !.shown = View])
    /\ UNCHANGED <<client, queue, mods, locked, drain, readOnly, disabled,
                   remote, foreign, stored>>

\* The items read go into the memory calendar, which is empty unless the lock has
\* been lost.  The parser calls back without items when it could not parse the file,
\* and never when a component makes the item constructor throw.
OnParsingComplete(f) ==
    /\ Ready(f, "parse") /\ f.form # "component"
    /\ mem' = [i \in Items |-> IF f.form = "good" /\ f.data[i] # Absent
                               THEN f.data[i] ELSE mem[i]]
    /\ Unlock("ok", 0) /\ Done(f)
    /\ UNCHANGED <<ops, queue, stamp, readOnly, disabled, remote, foreign,
                   stored>>

-----------------------------------------------------------------------------
(* Writing: writeICS, makeBackup, doWriteICS, onStopRequest.                *)

\* onDownloadComplete or a failed asyncOpen: the backup was best effort.
BackupDone(f) ==
    /\ Ready(f, "backup")
    /\ Becomes(f, [f EXCEPT !.kind = "collect"])
    /\ UNCHANGED <<client, queue, mods, locked, drain, mem, stamp, readOnly,
                   disabled, remote, foreign, stored>>

ChangedRemotely == ~Http /\ stamp # 0 /\ stamp # remote.ver

\* The posted getItems of the memory calendar completes: onBeforePut looks at
\* the file, then the items are serialized and the upload is opened.
StartPut(f) ==
    /\ Ready(f, "collect") /\ ~ChangedRemotely
    /\ Becomes(f, [f EXCEPT !.kind = "put", !.data = mem,
                            !.carries = ModOps \cup ({mem[i].w : i \in Items} \cap Ids),
                            !.cond = IF Http THEN stamp ELSE 0])
    /\ UNCHANGED <<client, queue, mods, locked, drain, mem, stamp, readOnly,
                   disabled, remote, foreign, stored>>

\* The hook refuses: this unlock processes the queue inside doWriteICS's try block.
RefusePut(f) ==
    /\ Ready(f, "collect") /\ ChangedRemotely
    /\ readOnly' = TRUE
    /\ Unlock("failed", f.id) /\ Done(f)
    /\ UNCHANGED <<ops, queue, mem, stamp, disabled, remote, foreign, stored>>

\* Opening the upload throws.
OpeningThrows(f) ==
    /\ Ready(f, "collect") /\ ~ChangedRemotely /\ "open" \in WriteFaults
    /\ WriteGivenUp /\ Done(f)
    /\ UNCHANGED <<ops, queue, mem, stamp, disabled, remote, foreign, stored>>

\* forceRefresh comes first here: it is locked out, unless the lock has been lost.
PutFailed(f) ==
    /\ Ready(f, "put") /\ f.out = "error"
    /\ readOnly' = TRUE
    /\ \/ locked /\ ForceRefreshAndUnlock("failed")
       \/ /\ ~locked /\ drain' = DrainThen("unlock")
          /\ ops' = Append(ops, Forced) /\ answers' = Append(answers, <<>>)
          /\ queue' = Append(queue, Len(ops) + 1)
          /\ UNCHANGED <<mods, locked>>
    /\ Done(f)
    /\ UNCHANGED <<mem, stamp, disabled, remote, foreign, stored>>

\* onAfterPut with the new stamp at hand.
PutSucceeded(f) ==
    /\ Ready(f, "put") /\ f.out = "ok"
    /\ ~Http \/ PutEtag
    /\ stamp' = Stamp(f)
    /\ Unlock("ok", IF Http THEN f.id ELSE 0) /\ Done(f)
    /\ UNCHANGED <<ops, queue, mem, readOnly, disabled, remote, foreign, stored>>

\* onAfterPut without an ETag: a PROPFIND asks for it.
AskForEtag(f) ==
    /\ Ready(f, "put") /\ f.out = "ok" /\ Http /\ ~PutEtag
    /\ Becomes(f, Flight("etag", f.id))
    /\ UNCHANGED <<client, queue, mods, locked, drain, mem, stamp, readOnly,
                   disabled, remote, foreign, stored>>

\* Whatever the PROPFIND brings, the path "/D:propfind/..." is in no
\* multistatus document: mEtag becomes null.
EtagReply(f) ==
    /\ Ready(f, "etag")
    /\ stamp' = 0
    /\ Unlock("ok", 0) /\ Done(f)
    /\ UNCHANGED <<ops, queue, mem, readOnly, disabled, remote, foreign, stored>>

\* An answer that is not UTF-8 leaves multistatus undefined: the evaluation of
\* the path throws and aRespFunc, which would unlock, is never called.
EtagReplyThrows(f) ==
    /\ Ready(f, "etag") /\ "garbled" \in WriteFaults
    /\ Done(f)
    /\ UNCHANGED <<client, queue, mods, locked, drain, mem, stamp, readOnly,
                   disabled, remote, foreign, stored>>

\* The memory calendar's posted getItems_ for a client.
GetItemsPosted(f) ==
    /\ Ready(f, "read")
    /\ answers' = [answers EXCEPT ![f.id] = Append(@, "ok")]
    /\ Done(f)
    /\ UNCHANGED <<ops, queue, mods, locked, drain, mem, stamp, readOnly,
                   disabled, remote, foreign, stored>>

-----------------------------------------------------------------------------
\* The user unticks read-only, or enables the calendar, in its properties.
ClearReadOnly ==
    /\ AtRest /\ readOnly /\ readOnly' = FALSE
    /\ UNCHANGED <<client, queue, mods, locked, drain, mem, stamp, disabled,
                   flights, remote, foreign, stored>>

EnableCalendar ==
    /\ AtRest /\ disabled /\ disabled' = FALSE
    /\ UNCHANGED <<client, queue, mods, locked, drain, mem, stamp, readOnly,
                   flights, remote, foreign, stored>>

Requests ==
    \/ \E i \in Items : AdoptItem(i) \/ ModifyItem(i) \/ DeleteItem(i) \/ GetItem(i)
    \/ GetItems \/ Refresh

Serve == \E f \in flights : ServeGet(f) \/ ServePut(f)

Callback(f) ==
    \/ KeepOldData(f) \/ LoadEmpty(f) \/ DecodingFails(f) \/ StartParsing(f)
    \/ OnParsingComplete(f) \/ BackupDone(f) \/ StartPut(f)
    \/ RefusePut(f) \/ OpeningThrows(f) \/ PutFailed(f) \/ PutSucceeded(f)
    \/ AskForEtag(f) \/ EtagReply(f) \/ EtagReplyThrows(f) \/ GetItemsPosted(f)

Callbacks == \E f \in flights : Callback(f)

Next ==
    \/ Requests \/ ProcessQueue \/ Serve \/ Callbacks
    \/ \E i \in Items : ForeignWrite(i)
    \/ ClearReadOnly \/ EnableCalendar

Spec == Init /\ [][Next]_vars

\* The event loop runs: the loop of processQueue ends, the network answers or
\* fails, callbacks are called.  Nothing obliges users or other writers.
Fairness == WF_vars(ProcessQueue) /\ WF_vars(Serve) /\ WF_vars(Callbacks)

FairSpec == Spec /\ Fairness

-----------------------------------------------------------------------------
(* Properties.                                                              *)

\* The type invariant: every variable keeps its type.  Requests and answers
\* are parallel, and whatever waits anywhere is a request that was made.

RequestType == [kind : OpKinds, item : Items \cup {NoItem}, base : Version,
                force : BOOLEAN]
Status      == {"ok", "mismatch", "failed"}

FlightType ==
    [kind : Locking \cup {"read"}, id : Ids, force : BOOLEAN, cond : Nat,
     out : {"wait", "ok", "304", "404", "throw", "fail", "error"},
     data : Content, ver : Nat, form : Forms, shown : Content,
     carries : SUBSET Ids]

DrainType == [on : BOOLEAN, last : {0} \cup Ids, put : {0} \cup Ids, then : Calls]

FileType == [at : {"http", "file"}, content : Content, ver : Nat, form : Forms]

TypeOK ==
    /\ ops \in Seq(RequestType)
    /\ answers \in Seq(Seq(Status))
    /\ Len(answers) = Len(ops)
    /\ queue \in Seq(Ids)
    /\ mods \subseteq [op : Ids, status : Status] /\ \A m \in mods : IsEdit(m.op)
    /\ locked \in BOOLEAN
    /\ drain \in DrainType
    /\ mem \in Content
    /\ stamp \in Nat
    /\ readOnly \in BOOLEAN /\ disabled \in BOOLEAN
    /\ flights \subseteq FlightType
    /\ remote \in FileType
    /\ foreign \in Nat
    /\ stored \subseteq Ids

\* A listener is told the outcome of its request at most once, and a request
\* that still waits (in the queue, among the unacknowledged modifications, or
\* as a posted read) waits in one place and has been told nothing: unlock may
\* tell every modification its outcome because none has been told before.
Queued(id) == \E k \in 1..Len(queue) : queue[k] = id
Posted(id) == \E f \in flights : f.kind = "read" /\ f.id = id

OneHome ==
    /\ \A j, k \in 1..Len(queue) : queue[j] = queue[k] => j = k
    /\ \A m, n \in mods : m.op = n.op => m = n
    /\ \A id \in Ids :
         /\ Len(answers[id]) <= 1
         /\ Queued(id) => id \notin ModOps /\ ~Posted(id) /\ answers[id] = <<>>
         /\ id \in ModOps => ~Posted(id) /\ answers[id] = <<>>
         /\ Posted(id) => answers[id] = <<>>

\* The lock is held exactly while one request or callback chain is under way,
\* so no two of them ever read or replace the memory calendar at once
\* ("Lock other changes to the item list", doRefresh).
LockIsOneFlight ==
    LET held == {f \in flights : f.kind \in Locking} IN
    /\ locked <=> held # {}
    /\ \A f, g \in held : f = g
    /\ drain.on => ~locked

\* Edits that are applied to the memory calendar and not acknowledged are on
\* their way to the file: a write is in flight, never a refresh that would
\* throw them away (processQueue puts the refresh back behind the write).
UnsavedEditsAreBeingWritten ==
    mods # {} => \/ ~AtRest
                 \/ \E f \in flights : f.kind \in Writing

\* A client that is told its edit has succeeded finds it in the file: some PUT
\* that carried the edit was accepted (unlock after onAfterPut).
AckedIsStored ==
    \A id \in Ids : IsEdit(id) /\ answers[id] = <<"ok">> => id \in stored

\* No request is forgotten: until its listener has been told the outcome, a
\* request other than a refresh waits somewhere (calICalendar.idl: the results
\* of an operation are reported through the listener).
NothingForgotten ==
    \A id \in Ids : ~IsRefresh(id) =>
        Queued(id) \/ id \in ModOps \/ Posted(id) \/ answers[id] # <<>>

\* The step by which a PUT replaces the file.
PutCommits(f) == f.kind = "put" /\ ServePut(f) /\ remote' # remote

\* The file may lose a version only to an edit made for it: what changes was
\* deleted by a client, or written by a client that added the item or modified
\* that very version; a version of another writer is never brought back.
KeepsForeign(old, new) ==
    \A i \in Items : new[i] # old[i] =>
        /\ new[i].w >= 0
        /\ \E id \in Ids : /\ IsEdit(id) /\ ops[id].item = i
                           /\ new[i] = Absent => ops[id].kind = "delete"
                           /\ \/ ops[id].kind # "modify" \/ old[i].w > 0
                              \/ ops[id].base = old[i]

\* A PUT with an If header never overwrites what others have written: the ETag
\* it names is that of the file the memory calendar was made from ("to check
\* etags ... to protect remote changes from being overwritten").
IfHeaderKeepsForeign ==
    [][\A f \in flights : PutCommits(f) /\ f.cond # 0 =>
            KeepsForeign(remote.content, remote'.content)]_vars

\* The provider keeps the promise of calICalendar.idl to its clients, whose
\* requests are those that it has not made itself: each is answered once at most and
\* for good, an edit as successful only when a PUT has stored it, and edits of one
\* write stand or fall together (unlock).
ClientIds == {id \in Ids : ~ops[id].force}

Promise == INSTANCE CalendarPromise WITH
    Kinds <- OpKinds,
    made  <- [id \in ClientIds |-> ops[id].kind],
    told  <- [id \in ClientIds |-> answers[id]],
    kept  <- stored

KeepsPromise == Promise!Spec

\* Every request but a refresh is answered in the end.
EveryRequestAnswered ==
    \A id \in 1..MaxOps :
        (id \in Ids /\ ~IsRefresh(id)) ~> (id \in Ids /\ answers[id] # <<>>)

\* The calendar does not stay locked.
EventuallyUnlocked == []<>(~locked)

\* The forced refreshes bring the file: their GETs neither fail nor find no file.
ReloadsArrive ==
    [](\A f \in flights : f.kind = "get" /\ f.force => f.out \in {"wait", "ok"})

\* After a failed write the calendar ends up without the edit, or the edit has
\* got into the file after all: the forced refresh throws it away, a later PUT
\* has carried it, or the server had accepted it and only the answer was lost.
\* Other GETs may fail; a forced one that fails leaves the old data, and the edit
\* in it (onStreamComplete: "keep old data").
FailedEditGoes ==
    ReloadsArrive =>
        \A id \in 1..MaxOps :
            (id \in Ids /\ answers[id] = <<"failed">>) ~>
                (id \in stored \/ \A i \in Items : mem[i].w # id)
=============================================================================
