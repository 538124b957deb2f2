--------------------------- MODULE CachedCalendar ---------------------------
(***************************************************************************)
(* An offline-capable CalDAV calendar: the facade of calCachedCalendar.js   *)
(* over the storage calendar that is its cache and its offline journal, and *)
(* over the CalDAV provider with its item-info cache and its WebDAV sync.   *)
(*                                                                          *)
(* Edits go to the server, or into the journal when it cannot be reached; a *)
(* refresh first plays the journal back and then synchronizes the cache.    *)
(* All callbacks run on one thread; what is under way (requests, posted     *)
(* runnables, asynchronous database reads) is a set of records, and the     *)
(* playback's loop takes one action per iteration with nothing in between.  *)
(***************************************************************************)
EXTENDS Integers, FiniteSets, Sequences

CONSTANTS
    Items,         \* identities of calendar items
    NoItem,        \* stands for "no item"
    Existing,      \* the items that server and cache hold at the start
    Kinds,         \* the kinds of edits users make
    Faults,        \* how a request may fail while the server is reachable
    Overwrite,     \* what users may answer when asked to overwrite the server's item
    Overlap,       \* TRUE: an edit may start while another errand is under way, and a
                   \* refresh while an edit is
    MaxEdits,      \* bound: edits
    MaxPlaybacks,  \* bound: playbacks of the journal under way at once
    MaxToggles,    \* bound: how often the network goes or comes
    MaxRestarts,   \* bound: restarts of the program
    MaxForeign,    \* bound: changes by other clients
    MaxFaults      \* bound: requests that fail while the server is reachable

ASSUME ConstantsAssumption ==
    /\ NoItem \notin Items
    /\ Existing \subseteq Items
    /\ Kinds \subseteq {"add", "modify", "delete"}
    /\ Faults \subseteq {"unavailable", "lost", "error", "token"}
    /\ Overwrite \subseteq BOOLEAN
    /\ Overlap \in BOOLEAN
    /\ MaxEdits \in Nat /\ MaxPlaybacks \in Nat
    /\ MaxToggles \in Nat /\ MaxRestarts \in Nat /\ MaxForeign \in Nat
    /\ MaxFaults \in Nat

VARIABLES
    server,   \* the collection: each resource's version and the change that left it
    changes,  \* the number of the server's last change, which is its sync token
    row,      \* the cache's rows, with their offline_journal
    meta,     \* the cache's metadata: the ETag each item was stored with
    token,    \* mWebdavSyncToken, which is saved with every change
    info,     \* the provider's mItemInfoCache and mHrefIndex: the ETags it knows
    offline,  \* Services.io.offline
    syncing,  \* is mSyncQueue not empty
    flights,  \* what is under way
    edits,    \* every edit ever made; an edit is named by its index
    told,     \* what each edit's listener has been told
    left,     \* what the environment may still do
    stored,   \* history: the edits that the server has carried out
    asked     \* history: the edits on which the user was asked whether to overwrite

collection == <<server, changes>>
cache      == <<row, meta, token>>
users      == <<edits, told>>
history    == <<stored, asked>>
vars == <<collection, cache, info, offline, syncing, flights, users, left, history>>

-----------------------------------------------------------------------------
(* Data.  A version of an item is the edit that wrote it: positive for a    *)
(* user's edit, negative for another client's, 0 for none.  The number of   *)
(* the change that wrote a resource serves as its ETag.                      *)

Unknown == -1      \* no entry in mItemInfoCache, no metadata, no sync token
NoEtag  == 0       \* an entry whose ETag is null

Flags == {"none", "created", "modified", "deleted"}

NoRow      == [v |-> 0, flag |-> "none"]
Visible(i) == row[i].v # 0 /\ row[i].flag # "deleted"
Kind(f)    == edits[f.op].kind

\* One thing under way: for an edit (op # 0), a playback (play # 0) or the sync.
Flight(k) ==
    [kind |-> k, op |-> 0, play |-> 0, phase |-> "none", todo |-> {},
     item |-> NoItem, v |-> 0, cond |-> 0, then |-> "none", out |-> "wait",
     flag |-> "none", data |-> [i \in Items |-> [v |-> 0, tag |-> 0]],
     upto |-> 0, need |-> {}]

\* The same errand, with another request.
Turn(f, k) == [Flight(k) EXCEPT !.op = f.op, !.play = f.play, !.phase = f.phase,
                                !.todo = f.todo, !.item = f.item, !.v = f.v]

\* While a playback pops its queue nothing else runs.
Free         == \A f \in flights : f.kind # "pop"
Ready(f, k)  == Free /\ f \in flights /\ f.kind = k /\ f.out # "wait"
Done(f)      == flights' = flights \ {f}
Becomes(f, g) == flights' = (flights \ {f}) \cup {g}

Init ==
    /\ server = [i \in Items |-> IF i \in Existing THEN [v |-> -1, tag |-> 1]
                                                   ELSE [v |-> 0, tag |-> 0]]
    /\ changes = 1
    /\ row  = [i \in Items |-> IF i \in Existing THEN [v |-> -1, flag |-> "none"]
                                                 ELSE NoRow]
    /\ meta = [i \in Items |-> IF i \in Existing THEN 1 ELSE Unknown]
    /\ info = meta /\ token = 1
    /\ offline \in BOOLEAN /\ syncing = FALSE /\ flights = {}
    /\ edits = <<>> /\ told = <<>>
    /\ left = [toggles |-> MaxToggles, restarts |-> MaxRestarts,
               foreign |-> MaxForeign, faults |-> MaxFaults]
    /\ stored = {} /\ asked = {}

-----------------------------------------------------------------------------
(* The user's edits (calCachedCalendar.adoptItem, modifyItem, deleteItem).  *)

\* Something under way concerns item i.
Busy(i) == \E f \in flights : \/ f.item = i \/ f.kind = "list"
                              \/ i \in f.need \/ \E t \in f.todo : t.item = i

\* The last version of another client that the user has seen.
Base(i) == IF row[i].v > 0 THEN edits[row[i].v].base ELSE row[i].v

Edit(k, i, status, f) ==
    /\ Free /\ k \in Kinds /\ Len(edits) < MaxEdits
    /\ Overlap \/ flights = {}
    /\ edits' = Append(edits, [kind |-> k, item |-> i, base |-> Base(i)])
    /\ told'  = Append(told, status)
    /\ flights' = flights \cup f
    /\ UNCHANGED <<collection, meta, token, info, offline, syncing, left, history>>

\* A request or a read for the edit that is being made.
New(k, i) == [Flight(k) EXCEPT !.op = Len(edits) + 1, !.item = i, !.v = Len(edits) + 1]

ReadFlag(f, then) == [f EXCEPT !.kind = "flag", !.then = then]

\* Offline the cache takes the item and marks it as created (adoptOfflineItem);
\* the provider sends it only if the server has none of that name.
AddItem(i) ==
    /\ ~Visible(i)
    /\ \/ /\ offline /\ Edit("add", i, "ok", {})
          /\ row' = [row EXCEPT ![i] = [v |-> Len(edits) + 1, flag |-> "created"]]
       \/ /\ ~offline /\ Edit("add", i, "wait", {[New("put", i) EXCEPT !.cond = Unknown]})
          /\ UNCHANGED row

ModifyItem(i) ==
    /\ Visible(i)
    /\ Edit("modify", i, "wait",
            {ReadFlag(New("flag", i), IF offline THEN "store" ELSE "modify")})
    /\ UNCHANGED row

DeleteItem(i) ==
    /\ Visible(i)
    /\ Edit("delete", i, "wait",
            {ReadFlag(New("flag", i), IF offline THEN "erase" ELSE "delete")})
    /\ UNCHANGED row

-----------------------------------------------------------------------------
(* The cache.  getItemOfflineFlag reads asynchronously; what the flag was   *)
(* at some moment is used at a later one.                                   *)

DbRead(f) ==
    /\ Free /\ f \in flights /\ f.kind = "flag" /\ f.out = "wait"
    /\ Becomes(f, [f EXCEPT !.flag = row[f.item].flag, !.out = "ok"])
    /\ UNCHANGED <<collection, cache, info, offline, syncing, users, left, history>>

Is(f, then) == Ready(f, "flag") /\ f.then = then

SetFlag(i, flag) == IF row[i].v = 0 THEN row ELSE [row EXCEPT ![i].flag = flag]
Tell(f, status)  == told' = [told EXCEPT ![f.op] = status]
Offline(f)       == f.flag \in {"created", "modified"}

\* flagListener: an item that is already offline is edited in the cache; another
\* one is edited on the server, conditionally on the ETag the provider knows.
EditOffline(f) ==
    /\ \/ Is(f, "modify") /\ Offline(f) /\ Becomes(f, ReadFlag(Turn(f, "flag"), "store"))
       \/ Is(f, "delete") /\ Offline(f) /\ Becomes(f, ReadFlag(Turn(f, "flag"), "erase"))
    /\ UNCHANGED <<collection, cache, info, offline, syncing, users, left, history>>

\* Mutant: An edit sends no If-Match.
OntoBlind(f) == \/ Is(f, "modify") /\ Becomes(f, [Turn(f, "put") EXCEPT !.cond = NoEtag])
                \/ Is(f, "delete") /\ Becomes(f, [Turn(f, "del") EXCEPT !.cond = NoEtag])

Onto(f) == \/ Is(f, "modify") /\ Becomes(f, [Turn(f, "put") EXCEPT !.cond = info[f.item]])
           \/ Is(f, "delete") /\ Becomes(f, [Turn(f, "del") EXCEPT !.cond = info[f.item]])

EditOnline(f) ==
    /\ Onto(f)
    /\ ~Offline(f) /\ info[f.item] # Unknown
    /\ UNCHANGED <<collection, cache, info, offline, syncing, users, left, history>>

\* mItemInfoCache has no entry: the TypeError ends the callback, and nobody is
\* told.
EditThrows(f) ==
    /\ Is(f, "modify") \/ Is(f, "delete")
    /\ ~Offline(f) /\ info[f.item] = Unknown
    /\ Done(f)
    /\ UNCHANGED <<collection, cache, info, offline, syncing, users, left, history>>

\* Mutant: Writing the item clears its flag, as the comment in storage.modifyItem warns.
DoModifyItemClears(f) ==
    /\ row' = [row EXCEPT ![f.item] = [v |-> f.v, flag |-> "none"]]
    /\ \/ Is(f, "store") /\ Becomes(f, ReadFlag(Turn(f, "flag"), "mark")) /\ UNCHANGED told
       \/ Is(f, "cache") /\ Done(f) /\ Tell(f, "ok")
    /\ UNCHANGED <<collection, meta, token, info, offline, syncing, edits, left, history>>

\* doModifyItem writes the row, which it makes anew if need be, and then the flag
\* that was read; after an offline edit (modifyOfflineItem) the flag is read once
\* more, to be changed; after one on the server the listener is told.
DoModifyItem(f) ==
    /\ row' = [row EXCEPT ![f.item] = [v |-> f.v, flag |-> f.flag]]
    /\ \/ Is(f, "store") /\ Becomes(f, ReadFlag(Turn(f, "flag"), "mark")) /\ UNCHANGED told
       \/ Is(f, "cache") /\ Done(f) /\ Tell(f, "ok")
    /\ UNCHANGED <<collection, meta, token, info, offline, syncing, edits, left, history>>

\* storage.modifyOfflineItem
MarkModified(f) ==
    /\ Is(f, "mark") /\ Done(f) /\ Tell(f, "ok")
    /\ row' = IF f.flag \in {"created", "deleted"} THEN row ELSE SetFlag(f.item, "modified")
    /\ UNCHANGED <<collection, meta, token, info, offline, syncing, edits, left, history>>

\* Mutant: deleteOfflineItem answers only in its first branch.
DeleteOfflineItemSilent(f) ==
    /\ Is(f, "erase") /\ Done(f)
    /\ IF f.flag = "created"
       THEN /\ row'  = [row EXCEPT ![f.item] = NoRow] /\ Tell(f, "ok")
            /\ meta' = [meta EXCEPT ![f.item] = Unknown]
       ELSE row' = SetFlag(f.item, "deleted") /\ UNCHANGED <<meta, told>>
    /\ UNCHANGED <<collection, token, info, offline, syncing, edits, left, history>>

\* storage.deleteOfflineItem: an item the server has never seen is forgotten,
\* another one is only marked.
DeleteOfflineItem(f) ==
    /\ Is(f, "erase") /\ Done(f) /\ Tell(f, "ok")
    /\ IF f.flag = "created"
       THEN /\ row'  = [row EXCEPT ![f.item] = NoRow]
            /\ meta' = [meta EXCEPT ![f.item] = Unknown]
       ELSE row' = SetFlag(f.item, "deleted") /\ UNCHANGED meta
    /\ UNCHANGED <<collection, token, info, offline, syncing, edits, left, history>>

-----------------------------------------------------------------------------
(* The server (not part of the source).  A request that cannot be sent, or   *)
(* whose answer is a 5xx, is "unavailable" and did nothing; one whose answer *)
(* is lost looks the same but was carried out.                               *)

Reachable == ~offline
Asked(f, k) == Free /\ f \in flights /\ f.kind = k /\ f.out = "wait"
Answer(f, out) == Becomes(f, [f EXCEPT !.out = out])

Change(i, v) ==
    /\ server'  = [server EXCEPT ![i] = [v |-> v, tag |-> changes + 1]]
    /\ changes' = changes + 1

\* A fault of the network or of the server, as often as the bound allows.
Fault(f, kind, out) ==
    /\ kind \in Faults /\ left.faults > 0
    /\ left' = [left EXCEPT !.faults = @ - 1]
    /\ Answer(f, out)

Fails(f) ==
    /\ \/ offline /\ Answer(f, "unavailable") /\ UNCHANGED left
       \/ Reachable /\ Fault(f, "unavailable", "unavailable")
       \/ Reachable /\ Fault(f, "error", "error")
    /\ UNCHANGED <<collection, stored>>

Succeeds(f, v, edit) ==
    /\ Reachable /\ Change(f.item, v)
    /\ stored' = stored \cup edit
    /\ (Answer(f, "ok") /\ UNCHANGED left) \/ Fault(f, "lost", "unavailable")

Refuses(f, out) == Reachable /\ Answer(f, out) /\ UNCHANGED <<collection, left, stored>>

\* If-None-Match: *, If-Match: <etag>, or neither.
Matches(f) ==
    LET s == server[f.item] IN
    \/ f.cond = NoEtag
    \/ f.cond = Unknown /\ s.v = 0
    \/ f.cond > 0 /\ s.v # 0 /\ s.tag = f.cond

ServePut(f) ==
    /\ Asked(f, "put")
    /\ \/ Fails(f)
       \/ Matches(f)  /\ Succeeds(f, f.v, {f.v} \cap Nat)
       \/ ~Matches(f) /\ Refuses(f, "conflict")
    /\ UNCHANGED <<cache, info, offline, syncing, users, asked>>

\* The edits that ask for this deletion.
Deletes(f) == IF f.op # 0 THEN {f.op}
              ELSE {e \in 1..Len(edits) : edits[e].item = f.item /\ edits[e].kind = "delete"}

ServeDelete(f) ==
    /\ Asked(f, "del")
    /\ \/ Fails(f)
       \/ server[f.item].v = 0 /\ Refuses(f, "ok")
       \/ /\ server[f.item].v # 0 /\ Matches(f)
          /\ Succeeds(f, 0, Deletes(f))
       \/ server[f.item].v # 0 /\ ~Matches(f) /\ Refuses(f, "conflict")
    /\ UNCHANGED <<cache, info, offline, syncing, users, asked>>

\* HEAD, the multiget of one item or of many, and sync-collection only read; an
\* invalid token is a fault of its own.
ServeRead(f) ==
    /\ \/ Asked(f, "head") \/ Asked(f, "fetch") \/ Asked(f, "sync") \/ Asked(f, "get")
    /\ \/ Fails(f)
       \/ /\ Reachable /\ f.kind = "sync" /\ f.cond # Unknown
          /\ Fault(f, "token", "token")
          /\ UNCHANGED <<collection, stored>>
       \/ /\ Reachable
          /\ Becomes(f, [f EXCEPT !.out = "ok", !.data = server,
                                   !.upto = IF f.kind = "sync" THEN changes ELSE @])
          /\ UNCHANGED <<collection, left, stored>>
    /\ UNCHANGED <<cache, info, offline, syncing, users, asked>>

\* Another client changes, creates or removes an item.
ForeignWrite(i) ==
    /\ Free /\ left.foreign > 0
    /\ left' = [left EXCEPT !.foreign = @ - 1]
    /\ \E v \in {0, -(changes + 1)} : v # server[i].v /\ Change(i, v)
    /\ UNCHANGED <<cache, info, offline, syncing, flights, users, history>>

-----------------------------------------------------------------------------
(* The provider's callbacks.  An errand's listener is cacheListener for a    *)
(* user's edit and opListener for the playback.                              *)

\* The playback goes on with its next item, whatever has become of this one.
PopNext(f) == Becomes(f, Turn(f, "pop"))

\* The listener is told of a failure.
Failed(f) ==
    /\ \/ f.op # 0 /\ Done(f) /\ Tell(f, "failed")
       \/ f.op = 0 /\ PopNext(f) /\ UNCHANGED told
    /\ UNCHANGED <<row, meta>>

\* Mutant: An edit that finds the server unavailable is only reported.
UnavailableReports(f) ==
    /\ \/ f.op # 0 /\ Done(f) /\ Tell(f, "ok")
       \/ f.op = 0 /\ PopNext(f) /\ UNCHANGED told
    /\ UNCHANGED <<row, meta>>

\* Mutant: opListener resets the flag without looking at the status.
UnavailableResets(f) ==
    \/ /\ f.op # 0 /\ Kind(f) # "add"
       /\ Becomes(f, ReadFlag(Turn(f, "flag"),
                              IF Kind(f) = "modify" THEN "store" ELSE "erase"))
       /\ UNCHANGED <<row, meta, told>>
    \/ f.op = 0 /\ PopNext(f) /\ row' = SetFlag(f.item, "none") /\ UNCHANGED <<meta, told>>

\* The listener is told that the server is unavailable: the edit is made offline.
Unavailable(f) ==
    \/ /\ f.op # 0 /\ Kind(f) = "add" /\ Done(f) /\ Tell(f, "ok")
       /\ row' = [row EXCEPT ![f.item] = [v |-> f.v, flag |-> "created"]]
       /\ UNCHANGED meta
    \/ /\ f.op # 0 /\ Kind(f) # "add"
       /\ Becomes(f, ReadFlag(Turn(f, "flag"),
                              IF Kind(f) = "modify" THEN "store" ELSE "erase"))
       /\ UNCHANGED <<row, meta, told>>
    \/ f.op = 0 /\ PopNext(f) /\ UNCHANGED <<row, meta, told>>

\* Mutant: opListener resets the flag of deleted items too.
ErasesEdits(f) == f.op # 0 /\ Kind(f) = "delete"

\* The listener is told of a success, with version v of the item, after the
\* metadata have become m.
Erases(f) == IF f.op # 0 THEN Kind(f) = "delete" ELSE f.phase = "deleted"

Succeeded(f, v, m) ==
    \/ /\ Erases(f)
       /\ row'  = [row EXCEPT ![f.item] = NoRow]
       /\ meta' = [m EXCEPT ![f.item] = Unknown]
       /\ \/ f.op # 0 /\ Done(f) /\ Tell(f, "ok")
          \/ f.op = 0 /\ PopNext(f) /\ UNCHANGED told
    \/ /\ ~Erases(f) /\ meta' = m
       /\ \/ /\ f.op # 0 /\ Kind(f) = "add" /\ Done(f) /\ Tell(f, "ok")
             /\ row' = [row EXCEPT ![f.item] = [v |-> v, flag |-> "none"]]
          \/ /\ f.op # 0 /\ Kind(f) = "modify"
             /\ Becomes(f, [ReadFlag(Turn(f, "flag"), "cache") EXCEPT !.v = v])
             /\ UNCHANGED <<row, told>>
          \/ /\ f.op = 0 /\ PopNext(f)
             /\ row' = SetFlag(f.item, "none")
             /\ UNCHANGED told

PutDone(f) ==
    /\ Ready(f, "put")
    /\ \/ /\ f.out = "ok" /\ Becomes(f, Turn(f, "fetch"))
          /\ UNCHANGED <<row, meta, told>>
       \/ f.out = "unavailable" /\ Unavailable(f)
       \/ f.out = "error" /\ Failed(f)
       \/ f.out = "conflict" /\ f.cond = Unknown /\ Failed(f)
    /\ UNCHANGED <<collection, token, info, offline, syncing, edits, left, history>>

\* promptOverwrite: the user's answer decides whether the item is written
\* whatever is there, or fetched.
Prompt(f, k) ==
    /\ \/ TRUE  \in Overwrite /\ Becomes(f, [Turn(f, k) EXCEPT !.cond = NoEtag])
       \/ FALSE \in Overwrite /\ Becomes(f, Turn(f, "fetch"))
    /\ asked' = asked \cup {f.item}

PutConflicts(f) ==
    /\ Ready(f, "put") /\ f.out = "conflict" /\ f.cond # Unknown
    /\ Prompt(f, "put")
    /\ UNCHANGED <<collection, cache, info, offline, syncing, users, left, stored>>

DeleteDone(f) ==
    /\ Ready(f, "del") /\ f.out # "conflict"
    /\ \/ f.out = "ok" /\ Succeeded(f, 0, meta) /\ info' = [info EXCEPT ![f.item] = Unknown]
       \/ f.out = "unavailable" /\ Unavailable(f) /\ UNCHANGED info
       \/ f.out = "error" /\ Failed(f) /\ UNCHANGED info
    /\ UNCHANGED <<collection, token, offline, syncing, edits, left, history>>

\* Has the item been deleted, or modified?
DeleteConflicts(f) ==
    /\ Ready(f, "del") /\ f.out = "conflict" /\ Becomes(f, Turn(f, "head"))
    /\ UNCHANGED <<collection, cache, info, offline, syncing, users, left, history>>

HeadDone(f) ==
    /\ Ready(f, "head")
    /\ \/ f.out = "ok" /\ f.data[f.item].v = 0 /\ Succeeded(f, 0, meta) /\ UNCHANGED asked
       \/ f.out = "unavailable" /\ Unavailable(f) /\ UNCHANGED asked
       \/ /\ f.out = "error" \/ (f.out = "ok" /\ f.data[f.item].v # 0)
          /\ Prompt(f, "del") /\ UNCHANGED <<row, meta, told>>
    /\ UNCHANGED <<collection, token, info, offline, syncing, edits, left, stored>>

\* The answer to getUpdatedItem's multiget.  A new item or ETag is recorded
\* (addTargetCalendarItem) and told to the listener; with an ETag that is known,
\* and with an item that is gone (deleteTargetCalendarItem), nobody is told.
Fetched(f) == f.data[f.item]

\* Mutant: addTargetCalendarItem does not save the metadata when there is a listener.
FetchDoneUnsaved(f) ==
    /\ Ready(f, "fetch")
    /\ \/ /\ f.out = "ok" /\ Fetched(f).v # 0 /\ info[f.item] # Fetched(f).tag
          /\ info' = [info EXCEPT ![f.item] = Fetched(f).tag]
          /\ Succeeded(f, Fetched(f).v, meta)
       \/ f.out \in {"unavailable", "error"} /\ Failed(f) /\ UNCHANGED info
    /\ UNCHANGED <<collection, token, offline, syncing, edits, left, history>>

FetchDone(f) ==
    /\ Ready(f, "fetch")
    /\ \/ /\ f.out = "ok" /\ Fetched(f).v # 0 /\ info[f.item] # Fetched(f).tag
          /\ info' = [info EXCEPT ![f.item] = Fetched(f).tag]
          /\ Succeeded(f, Fetched(f).v, [meta EXCEPT ![f.item] = Fetched(f).tag])
       \/ f.out \in {"unavailable", "error"} /\ Failed(f) /\ UNCHANGED info
    /\ UNCHANGED <<collection, token, offline, syncing, edits, left, history>>

FetchUnchanged(f) ==
    /\ Ready(f, "fetch") /\ f.out = "ok"
    /\ Fetched(f).v # 0 /\ info[f.item] = Fetched(f).tag
    /\ Done(f)
    /\ UNCHANGED <<collection, cache, info, offline, syncing, users, left, history>>

\* deleteTargetCalendarItem for every item of the set that is known and cached.
Dropped(gone) == {i \in gone : info[i] # Unknown /\ row[i].v # 0}

DeleteTargets(gone) ==
    /\ row'  = [i \in Items |-> IF i \in Dropped(gone) THEN NoRow ELSE row[i]]
    /\ meta' = [i \in Items |-> IF i \in Dropped(gone) THEN Unknown ELSE meta[i]]
    /\ info' = [i \in Items |-> IF i \in Dropped(gone) THEN Unknown ELSE info[i]]

FetchGone(f) ==
    /\ Ready(f, "fetch") /\ f.out = "ok" /\ Fetched(f).v = 0
    /\ Done(f) /\ DeleteTargets({f.item})
    /\ UNCHANGED <<collection, token, offline, syncing, users, left, history>>

-----------------------------------------------------------------------------
(* Refreshing: playbackOfflineItems, then downstreamRefresh.                *)

Playbacks == {f.play : f \in flights} \ {0}

List(p, phase) == [Flight("list") EXCEPT !.play = p, !.phase = phase]

Playback ==
    \E p \in (1..MaxPlaybacks) \ Playbacks : flights' = flights \cup {List(p, "created")}

\* The timer, the reload button or the start of the program.
Refresh ==
    /\ Free /\ ~offline /\ (Overlap \/ flights = {})
    /\ Playback
    /\ UNCHANGED <<collection, cache, info, offline, syncing, users, left, history>>

\* Mutant: A sync that is under way is not waited for.
SynchronizeAlways(rest) ==
    IF offline
    THEN flights' = rest /\ UNCHANGED syncing
    ELSE /\ flights' = rest \cup {[Flight("sync") EXCEPT !.cond = token]}
         /\ syncing' = TRUE

\* downstreamRefresh and synchronize: a sync that is under way is waited for.
Synchronize(rest) ==
    IF syncing \/ offline
    THEN flights' = rest /\ UNCHANGED syncing
    ELSE /\ flights' = rest \cup {[Flight("sync") EXCEPT !.cond = token]}
         /\ syncing' = TRUE

\* The posted getItems of one phase: what it finds is played back, unless the
\* user has gone offline again.
ListDone(f) ==
    /\ Free /\ f \in flights /\ f.kind = "list"
    /\ \/ offline /\ Synchronize(flights \ {f})
       \/ /\ ~offline /\ UNCHANGED syncing
          /\ Becomes(f, [Turn(f, "pop") EXCEPT
                !.todo = {[item |-> i, v |-> row[i].v] :
                              i \in {j \in Items : row[j].v # 0 /\ row[j].flag = f.phase}}])
    /\ UNCHANGED <<collection, cache, info, offline, users, left, history>>

\* popItemQueue: one iteration.  Adding is conditional on there being none of
\* that name, the others on the ETag that the provider knows.
Popping(f) == f \in flights /\ f.kind = "pop"

\* Mutant: The playback of a modified item sends no If-Match.
PopItemQueueBlind(f) ==
    /\ Popping(f)
    /\ \E t \in f.todo :
         LET g == [Turn(f, "put") EXCEPT !.item = t.item, !.v = t.v, !.todo = @ \ {t}]
         IN \/ f.phase = "created" /\ Becomes(f, [g EXCEPT !.cond = Unknown])
            \/ f.phase = "modified" /\ Becomes(f, [g EXCEPT !.cond = NoEtag])
            \/ f.phase = "deleted" /\ Becomes(f, [g EXCEPT !.kind = "del", !.cond = NoEtag])
    /\ UNCHANGED <<collection, cache, info, offline, syncing, users, left, history>>

PopItemQueue(f) ==
    /\ Popping(f)
    /\ \E t \in f.todo :
         LET g == [Turn(f, "put") EXCEPT !.item = t.item, !.v = t.v, !.todo = @ \ {t}]
             known == info[t.item] # Unknown
         IN \/ f.phase = "created" /\ Becomes(f, [g EXCEPT !.cond = Unknown])
            \/ f.phase = "modified" /\ known /\ Becomes(f, [g EXCEPT !.cond = info[t.item]])
            \/ f.phase = "deleted" /\ known
               /\ Becomes(f, [g EXCEPT !.kind = "del", !.cond = info[t.item]])
            \* The exception carries a failure code: a warning, the item keeps its
            \* flag, and the playback goes on with the next.
            \/ f.phase \in {"modified", "deleted"} /\ ~known
               /\ Becomes(f, [g EXCEPT !.kind = "pop"])
    /\ UNCHANGED <<collection, cache, info, offline, syncing, users, left, history>>

\* Mutant: nextCallback forgets the phase of the modified items.
NextPhaseSkips(f) ==
    /\ Popping(f) /\ f.todo = {}
    /\ \/ f.phase = "created" /\ Becomes(f, List(f.play, "deleted")) /\ UNCHANGED syncing
       \/ f.phase = "deleted" /\ Synchronize(flights \ {f})
    /\ UNCHANGED <<collection, cache, info, offline, users, left, history>>

NextPhase(f) ==
    /\ Popping(f) /\ f.todo = {}
    /\ \/ f.phase = "created"  /\ Becomes(f, List(f.play, "modified")) /\ UNCHANGED syncing
       \/ f.phase = "modified" /\ Becomes(f, List(f.play, "deleted"))  /\ UNCHANGED syncing
       \/ f.phase = "deleted"  /\ Synchronize(flights \ {f})
    /\ UNCHANGED <<collection, cache, info, offline, users, left, history>>

\* The answer to sync-collection.  Items reported as deleted are deleted, after a
\* full sync also those that are not reported; items with another ETag are to be
\* fetched.  Only without such items is the sync queue emptied.
Reported(f) == {i \in Items : f.data[i].tag > (IF f.cond = Unknown THEN 0 ELSE f.cond)}

\* Mutant: The new token is saved with the answer to sync-collection, before the multiget.
SyncDoneEarly(f) ==
    /\ Ready(f, "sync") /\ f.out = "ok"
    /\ DeleteTargets(IF token = Unknown THEN {i \in Items : f.data[i].v = 0}
                     ELSE {i \in Reported(f) : f.data[i].v = 0})
    /\ token' = f.upto
    /\ LET need == {i \in Reported(f) : f.data[i].v # 0 /\ f.data[i].tag # info[i]} IN
       \/ need = {} /\ Done(f) /\ syncing' = FALSE
       \/ /\ need # {}
          /\ Becomes(f, [Flight("get") EXCEPT !.need = need, !.upto = f.upto])
          /\ UNCHANGED syncing
    /\ UNCHANGED <<collection, offline, users, left, history>>

SyncDone(f) ==
    /\ Ready(f, "sync") /\ f.out = "ok"
    /\ DeleteTargets(IF token = Unknown THEN {i \in Items : f.data[i].v = 0}
                     ELSE {i \in Reported(f) : f.data[i].v = 0})
    /\ LET need == {i \in Reported(f) : f.data[i].v # 0 /\ f.data[i].tag # info[i]} IN
       \/ /\ need = {} /\ Done(f)
          /\ token' = f.upto /\ syncing' = FALSE
       \/ /\ need # {}
          /\ Becomes(f, [Flight("get") EXCEPT !.need = need, !.upto = f.upto])
          /\ UNCHANGED <<token, syncing>>
    /\ UNCHANGED <<collection, offline, users, left, history>>

SyncFailed(f) ==
    /\ Ready(f, "sync") /\ f.out \in {"unavailable", "error"}
    /\ Done(f) /\ syncing' = FALSE
    /\ UNCHANGED <<collection, cache, info, offline, users, left, history>>

\* The token has become invalid: once more, with a full sync.
SyncAgain(f) ==
    /\ Ready(f, "sync") /\ f.out = "token"
    /\ token' = Unknown
    /\ Becomes(f, [Flight("sync") EXCEPT !.cond = Unknown])
    /\ UNCHANGED <<collection, row, meta, info, offline, syncing, users, left, history>>

\* The answer to the sync's multiget: fetched items replace the rows, and the
\* token is the new one, also when the request failed (onStopRequest).  The
\* listener that would empty the sync queue is not among the arguments, and
\* neither success nor failure is reported to it.
MultigetDone(f) ==
    /\ Ready(f, "get") /\ f.out = "ok" /\ Done(f)
    /\ LET news == {i \in f.need : f.data[i].v # 0 /\ f.data[i].tag # info[i]}
           gone == Dropped({i \in f.need : f.data[i].v = 0})
       IN
       /\ row'  = [i \in Items |->
                     IF i \in news THEN [v |-> f.data[i].v, flag |-> "none"]
                     ELSE IF i \in gone THEN NoRow ELSE row[i]]
       /\ meta' = [i \in Items |-> IF i \in news THEN f.data[i].tag
                                   ELSE IF i \in gone THEN Unknown ELSE meta[i]]
       /\ info' = [i \in Items |-> IF i \in news THEN f.data[i].tag
                                   ELSE IF i \in gone THEN Unknown ELSE info[i]]
    /\ token' = f.upto
    /\ UNCHANGED <<collection, offline, syncing, users, left, history>>

MultigetFailed(f) ==
    /\ Ready(f, "get") /\ f.out \in {"unavailable", "error"} /\ Done(f)
    /\ token' = f.upto
    /\ UNCHANGED <<collection, row, meta, info, offline, syncing, users, left, history>>

-----------------------------------------------------------------------------
(* The network comes and goes, and the program ends and starts.             *)

GoOffline ==
    /\ Free /\ ~offline /\ left.toggles > 0
    /\ offline' = TRUE /\ left' = [left EXCEPT !.toggles = @ - 1]
    /\ UNCHANGED <<collection, cache, info, syncing, flights, users, history>>

\* onOfflineStatusChanged refreshes.
GoOnline ==
    /\ Free /\ offline /\ left.toggles > 0 /\ (Overlap \/ flights = {})
    /\ offline' = FALSE /\ left' = [left EXCEPT !.toggles = @ - 1]
    /\ Playback \/ (Cardinality(Playbacks) = MaxPlaybacks /\ UNCHANGED flights)
    /\ UNCHANGED <<collection, cache, info, syncing, users, history>>

\* What is under way is lost.  fetchCachedMetaData brings back the ETags that were
\* stored, and ensureMetaData enters the other items without an ETag, those that
\* are marked as deleted excepted.
Restart ==
    /\ Free /\ left.restarts > 0 /\ left' = [left EXCEPT !.restarts = @ - 1]
    /\ flights' = {} /\ syncing' = FALSE
    /\ told' = [e \in 1..Len(told) |-> IF told[e] = "wait" THEN "cut" ELSE told[e]]
    /\ info' = [i \in Items |-> IF meta[i] # Unknown THEN meta[i]
                                ELSE IF Visible(i) THEN NoEtag ELSE Unknown]
    /\ UNCHANGED <<collection, cache, offline, edits, history>>

UserEdits == \E i \in Items : AddItem(i) \/ ModifyItem(i) \/ DeleteItem(i)

Database == \E f \in flights : DbRead(f)

ServeOne(f) == ServePut(f) \/ ServeDelete(f) \/ ServeRead(f)
Serve == \E f \in flights : ServeOne(f)

Callback(f) ==
    \/ EditOffline(f) \/ EditOnline(f) \/ EditThrows(f) \/ DoModifyItem(f)
    \/ MarkModified(f) \/ DeleteOfflineItem(f)
    \/ PutDone(f) \/ PutConflicts(f) \/ DeleteDone(f) \/ DeleteConflicts(f)
    \/ HeadDone(f) \/ FetchDone(f) \/ FetchUnchanged(f) \/ FetchGone(f)
    \/ ListDone(f) \/ SyncDone(f) \/ SyncFailed(f) \/ SyncAgain(f)
    \/ MultigetDone(f) \/ MultigetFailed(f)

Callbacks == \E f \in flights : Callback(f)

PopOne(f) == PopItemQueue(f) \/ NextPhase(f)
PopQueue == \E f \in flights : PopOne(f)

Next ==
    \/ UserEdits \/ Database \/ Serve \/ Callbacks \/ PopQueue \/ Refresh
    \/ \E i \in Items : ForeignWrite(i)
    \/ GoOffline \/ GoOnline \/ Restart

Spec == Init /\ [][Next]_vars

\* The event loop and the database run and the network answers or fails, for
\* every edit and every playback; the refresh timer keeps firing.
OfErrand(k, p, A(_)) == \E f \in flights : f.op = k /\ f.play = p /\ A(f)

Fairness ==
    /\ \A k \in 0..MaxEdits, p \in 0..MaxPlaybacks :
         /\ WF_vars(OfErrand(k, p, DbRead)) /\ WF_vars(OfErrand(k, p, ServeOne))
         /\ WF_vars(OfErrand(k, p, Callback)) /\ WF_vars(OfErrand(k, p, PopOne))
    /\ WF_vars(Refresh)

FairSpec == Spec /\ Fairness

-----------------------------------------------------------------------------
(* Properties.                                                              *)

FlightKinds == {"put", "del", "head", "fetch", "flag", "list", "pop", "sync", "get"}
Then        == {"none", "modify", "delete", "store", "erase", "mark", "cache"}
Phases      == {"none", "created", "modified", "deleted"}
Outs        == {"wait", "ok", "unavailable", "error", "conflict", "token"}
Resources   == [v : Int, tag : Nat]

\* Whatever the interleaving, the metadata in the database agree with the
\* in-memory cache, so that a restart at any moment restores the ETags known.
MetaIsInfo == \A i \in Items : meta[i] # Unknown => info[i] = meta[i]

\* The type invariant.  A row that is not in the database has no journal flag:
\* the UPDATE of a row that another callback has removed changes nothing.  The ETags
\* stored in the database are those in memory, whatever the interleaving.
TypeOK ==
    /\ server \in [Items -> Resources] /\ changes \in Nat
    /\ row \in [Items -> [v : Int, flag : Flags]]
    /\ \A i \in Items : row[i].v = 0 => row[i].flag = "none"
    /\ meta \in [Items -> Int] /\ info \in [Items -> Int] /\ token \in Int
    /\ offline \in BOOLEAN /\ syncing \in BOOLEAN
    /\ edits \in Seq([kind : Kinds, item : Items, base : Int])
    /\ told \in Seq({"wait", "ok", "failed", "cut"}) /\ Len(told) = Len(edits)
    /\ left \in [toggles : Nat, restarts : Nat, foreign : Nat, faults : Nat]
    /\ stored \subseteq 1..Len(edits) /\ asked \subseteq Items
    /\ flights \subseteq
         [kind : FlightKinds, op : 0..Len(edits), play : 0..MaxPlaybacks, phase : Phases,
          todo : SUBSET [item : Items, v : Int], item : Items \cup {NoItem}, v : Int,
          cond : Int, then : Then, out : Outs, flag : Flags, data : [Items -> Resources],
          upto : Nat, need : SUBSET Items]
    /\ MetaIsInfo

Newest(i) ==
    LET on == {e \in 1..Len(edits) : edits[e].item = i} IN
    IF on = {} THEN 0 ELSE CHOOSE e \in on : \A d \in on : d <= e

\* An edit that its user was told has been made is not lost by the callbacks, the
\* playback or the sync: as long as it is the newest one of its item, the server
\* has carried it out, or the user was asked about it, or it is in the journal.
EditsAreKept ==
    \A i \in Items : LET e == Newest(i) IN
        e # 0 /\ told[e] = "ok" =>
            \/ e \in stored \/ i \in asked
            \/ edits[e].kind # "delete" /\ row[i].v = e /\ row[i].flag \in {"created", "modified"}
            \/ edits[e].kind = "delete" /\ ~Visible(i)

\* An item that its user has deleted, offline or not, is not seen again, unless as
\* a version that another client has made since: neither the sync, which still
\* finds it on the server, nor a repeated delete brings it back.
NoResurrection ==
    \A i \in Items : LET e == Newest(i) IN
        e # 0 /\ told[e] = "ok" /\ edits[e].kind = "delete" =>
           \/ ~Visible(i) \/ row[i].v < edits[e].base \/ i \in asked

\* An item that is not in the journal and has the ETag the provider knows is, when
\* nothing is under way for it, in the cache as it is on the server: otherwise no
\* sync would ever fetch it, because its ETag looks up to date.
CacheCoherent ==
    \A i \in Items :
        ~Busy(i) /\ row[i].flag = "none" /\ server[i].v # 0 /\ info[i] = server[i].tag =>
            row[i].v = server[i].v

\* A step takes an item out of the journal only when the server has carried the
\* edit out, or the user was asked; an item it has never seen may be removed.
JournalKept ==
    [][\A i \in Items : row[i].flag # "none" /\ row'[i].flag = "none" =>
           \/ row[i].v \in stored \/ i \in asked
           \/ row[i].flag = "created" /\ row'[i].v = 0
           \/ row[i].flag = "deleted" /\
                \E e \in stored : edits[e].item = i /\ edits[e].kind = "delete"]_vars

\* A version that the server has stored before is not written over a later one, or
\* over itself, by the retry of a request whose answer was lost, unless the user
\* was asked whether to overwrite.
AppliedOnce ==
    [][\A i \in Items :
        server'[i].tag # server[i].tag /\ server[i].v # 0 /\ server'[i].v > 0
            => server'[i].v \notin stored \/ i \in asked]_vars

\* The sync token is never ahead of what has been applied: each change up to it is
\* one whose ETag the provider knows, or a deletion after which the item is out of
\* the cache (or is about to be, on the answer to the provider's own request).  A change that the token
\* has passed over would never be fetched.
TokenCovers ==
    \A i \in Items : server[i].tag <= token =>
        \/ info[i] = server[i].tag
        \/ server[i].v = 0 /\ (row[i].v = 0 \/ info[i] \in {Unknown, NoEtag})
        \/ \E f \in flights : f.item = i /\ f.kind = "del" /\ f.out = "ok"

\* A user's write replaces another client's version only if it was made from that
\* version, or if the user was asked whether to overwrite (If-Match, promptOverwrite).
ForeignKept ==
    [][\A i \in Items : server'[i].v > 0 /\ server[i].v < 0 =>
            server[i].v = edits[server'[i].v].base \/ i \in asked]_vars

\* The sync token never goes back to an older one, which a late answer of an
\* overlapping sync would make it do; it may only be invalidated.
TokenForward == [][token' < token => token' = Unknown]_token

\* The listener of every edit is told of its outcome.
EveryEditAnswered ==
    \A e \in 1..MaxEdits : (e <= Len(edits)) ~> (e <= Len(edits) /\ told[e] # "wait")

\* Once the network stays, the playbacks empty the journal for good.
JournalEmptied == <>[]~offline => <>[](\A i \in Items : row[i].flag = "none")

=============================================================================
