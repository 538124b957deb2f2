# A verification project for icedove-uxp

icedove-uxp is a mail client's front end with a calendar (Lightning). The
parts of it that keep users' data while networks fail, programs end and other
clients write the same data are the calendar's providers. They are what is
modelled here first; around them the components that ask several calendars at
once (composite calendar and views), watch them (alarms) and change them on
behalf of a user who may take things back (undo and redo); then two smaller
asynchronous components, search suggestions and the upload of attachments. They
are TLA+ modules translated from the JavaScript, checked with TLC on small
instances, and proofs checked with TLAPS.

Paths below are relative to `src/`.

## 1. Inventory

All JavaScript of the program runs on one thread. Concurrency is that of an
event loop: answers from the network, database reads (`executeAsync`), timers
and posted runnables (`cal.postPone`) come back as callbacks in an order nobody
controls. Within one callback nothing interleaves. That is why the models take
one action per callback.

| Component (source) | State | Operations | Talks to | What is hard | What makes it correct |
|---|---|---|---|---|---|
| ICS provider (`calendar/providers/ics/calICSCalendar.js`) | request queue, lock, modifications that are not acknowledged, memory calendar, ETag or mtime, read-only, disabled | add, modify, delete, get, refresh; GET, backup, PUT, PROPFIND and their callbacks | memory calendar, ICS parser, HTTP server or file | the whole file is read and replaced; edits queue behind the lock; failures after the edit is applied; other writers | one chain at a time; no edit thrown away by a refresh; one answer each; success only if written; others' versions kept |
| Memory calendar (`providers/memory`) | items | add, modify, delete, getItem, getItems | observers, listeners | generation checks, an exception instead of an error | |
| Cached calendar (`base/src/calCachedCalendar.js`) | sync queue, pending sync | add, modify, delete, refresh, playback, going on- and offline | storage calendar, CalDAV provider | online or offline decided per edit; the journal is played back item by item; sync follows whatever has happened | edits are in the journal or on the server; nothing comes back; syncs end |
| Storage calendar (`providers/storage`) | rows, `offline_journal` flags, metadata | add, modify, delete, read and set the flag, getItems by flag | SQLite | flags are read asynchronously and used later | flag and row agree |
| CalDAV provider (`providers/caldav`) | `mItemInfoCache`, `mHrefIndex`, sync token, properties, all saved as metadata | PUT, DELETE, HEAD, multiget, sync-collection, ctag polling, discovery, scheduling | server, storage | ETags known at one moment and used at another, lost answers, invalid tokens, prompts to the user | no overwrite unasked, no change passed over, ETags match rows |
| Composite calendar (`providers/composite`) and views (`base/content/calendar-base-view.xml`) | calendars, queries in progress, pending loads; the view's pending jobs and its items | getItems over all calendars, refresh, add, remove, disable; refresh of the view | calendars, observers | counting completions, clipping, cancelling what cannot be cancelled | every query ends; a limit is kept; the view ends up as the calendars are |
| Calendar manager (`base/src/calCalendarManager.js`) | calendars, refresh timers | register, unregister, switch the cache, go offline | all of them | changing a calendar while operations on it are under way | |
| Alarm service, monitor and dialog (`base/src/calAlarmService.js`, `calAlarmMonitor.js`, `base/content/dialogs/calendar-alarm-dialog.js`) | timers, range with timers, loading flags; list of alarms, window | periodic search, reload, notifications, snooze, dismiss, sleep and wake | calendars, timers | searches are worked off in batches while items change; one listener for several calendars | no alarm missed, none left over; the dialog shows the list; loading ends |
| Transaction manager (`base/src/calTransactionManager.js`) | undo and redo stacks, the items of each transaction | add, modify, delete, move, undo, redo | calendars | the next step before the last answer; two-calendar moves, one half of which may fail | undo and redo restore; a move loses nothing |
| WCAP provider (`providers/wcap`) | session, login queue | login, requests, replies | server | queued logins | |
| iTIP (`itip`, `base/modules/calItipUtils.jsm`) | item lists | process, send | mail transport | decisions over data | |
| Items and recurrence (`base/src/cal*Item*.js`, `calRecurrenceInfo.js`) | items | clone, occurrences, exceptions | icaljs or libical | date arithmetic | |
| Search suggestions (`components/search/service/SearchSuggestionController.jsm`) | request, timer, deferred results | fetch, stop | form history, remote engine | late answers of stopped fetches | results of the newest fetch, once |
| Search service (`nsSearchService.js`) | engines, cache file | init, add, remove, reorder | files, network | asynchronous and synchronous initialization at once | |
| Cloud files (`mail/components/cloudfile/nsNextcloud.js`) and the compose window (`mail/components/compose/content/MsgComposeCommands.js`, `cloudAttachmentLinkManager.js`) | queue of uploads, observer; attachments, counter of uploads, links | upload, cancel, remove | server, each other | a queue of one with cancellation; failures at five stages | each upload is told its end once; sending waits for all of them |
| Session store (`mail/base/modules/sessionStoreManager.js`) | state string, timer, pending write | save, load windows | file | overlapping writes | the newest state is saved |
| Activity manager, address book, the rest of composition, preferences, migration, instant messaging, STEEL, editor dialogs | user interface state | | platform services | little of their own | |
| Mork (`db/mork/src`) | a text database in C++ | parse, write, reference counts | files | sequential | |
| Vendored: libical, ical.js, TexZilla; build files, themes, locales | | | | not this program's logic | |

`PROJECT.json` lists every component with its status, and the hazards with the
line at which each bites.

## 2. Plan

Most important first; a component is done when its every state change is an
action.

1. **IcsCalendar** - done. Proofs: done but for liveness (`IcsCalendarProofs`).
2. **CachedCalendar** - the facade, its journal, the CalDAV provider's edits
   and WebDAV sync - done for one batch of fetched items. Next: ctag polling
   (`etagsHandler`) as a second kind of sync, several batches, disabled calendars.
   Proofs: `TypeOK` with `MetaIsInfo`, and `TokenForward`, which hold under
   every interleaving - done (`CachedCalendarProofs`); `ForeignKept` and
   `TokenCovers` without overlap - done (the same module); the journal's five safety properties
   without overlap - done (`CachedJournalProofs`). Next: the journal with another client, as far as it holds.
3. **CalendarPromise**, the abstract provider (calICalendar.idl), which
   IcsCalendar implements - done, and proved for requests without deletions. Next:
   CachedCalendar as a second implementation.
4. **CompositeCalendar** with the view over it - done. Next: `getItem`, whose
   result may come from several calendars, and the default calendar. Proofs: every
   safety property - done.
5. **AlarmService** with monitor and dialog - done for one alarm per item. Next:
   recurring items. Proofs: every safety property - done.
6. **TransactionManager** over two queueing calendars - done without batches.
   Proofs: the types, and that no item is lost - done. Next: `UndoRestores`.
7. **SuggestionController** (fetch, stop, timeout over two sources) - done.
   Proofs: every safety property - done.
8. **CloudUpload** - done. Proofs: every safety property - done.
9. **SessionStore**, the calendar manager's switching of caches, and the sync of
   providers without a change log, as further actions of CachedCalendar.

As runs are few, a component gets one run of safety and one of liveness at
most; violations that are understood are documented in section 10 with the
constants under which TLC shows them.

## 3. IcsCalendar

### Correspondence

| Model | Code |
|---|---|
| `ops`, `answers` | every queue entry ever made and what its listener was told |
| `queue`, `locked`, `mods` | `this.queue`, `this.locked`, `this.mModificationActions` with `opCompleteArgs` |
| `drain` | `processQueue` while it runs: the last edit it has applied (`writeICS`), the write in whose `try` block it runs (`onAfterPut`'s, or `doWriteICS`'s on a file), and what its caller does next (`then`) |
| `mem`, `stamp`, `readOnly`, `disabled` | `mMemoryCalendar`, the hooks' `mEtag` or `mtime`, two properties |
| `flights` | channels and posted runnables: get, parse, backup, collect, put, etag, read |
| `remote`, `foreign` | the file and other programs' writes (external) |
| `stored` | history: edits carried by a PUT that was accepted |
| `AdoptItem` ... `Refresh` | lines 454-509: push an entry and process the queue unless locked |
| `ApplyAdd` ... `NothingToDo` | one iteration of `processQueue` each (511-578) |
| `Unlock`, `ForceRefreshAndUnlock`, `ForceRefresh`, `UnlockFollows` | 584-604, 143-146, 355-365, 426-441 |
| `DeleteThrows`, `WriteIcsThrows` | exceptions that leave `processQueue`, from `deleteItem` of the memory calendar and from `makeBackup` (294-307), with what the `catch` blocks around it do: `EtagAsked` (1005-1049), `WriteGivenUp` (355-365) |
| `KeepOldData` ... `OnParsingComplete` | `onStreamComplete`, `onParsingComplete` (207-291) |
| `BackupDone` ... `EtagReplyThrows` | `writeICS`, `makeBackup`, `doWriteICS`, `onStopRequest`, the hooks (294-449, 788-827, 915-1110) |

The loop of `processQueue` is cut into one action per iteration so that each is
readable; nothing else is enabled until it has ended and its caller has gone on (`AtRest`), so it
is as atomic as in the code. `WriteIcsThrows` is the whole of `writeICS`'s failure: its `unlock` tells
the modifications that they failed and processes the queue, so that a refresh at its head goes out, and
the exception goes on to whoever called. A version of an item is the edit that wrote it, with the generation that
the memory calendar compares. What users edit is what the views show (`View`),
which lags behind the memory calendar while a download is parsed.

### Runs

| Run | Question | Instance |
|---|---|---|
| `ics_safety` | Is the lock one callback chain, are applied edits being written, is no request forgotten, does an `If` header protect others' versions, does the provider keep `CalendarPromise`? | 2 items, 3 requests, 1 foreign write, HTTP with ETags and file, failing GETs, refused and lost PUTs |
| `ics_worst` | Are requests answered once at most, whatever goes wrong? | 1 item, a file or none at first, 3 requests of every kind plus the forced refreshes, HTTP with ETags and file, failing backups, uploads that are refused or cannot be opened, HTTP errors, undecodable PROPFIND answers, files that are not UTF-8 or do not parse |
| `ics_live` | Is every edit answered, the lock released, a failed edit taken back? | 2 requests, 1 foreign write, a file or none at first, HTTP without ETags on PUT, failing GETs, refused and lost PUTs |
| `ics_acked` (violation) | Is success only reported when written, with deletions? | 4 requests on a file |

`CalendarPromise` is the abstract provider: requests are made, edits are kept,
and listeners are told, once and for good, an edit that it has succeeded only
when it is kept, and all edits of one write the same. The refinement
(`KeepsPromise`) maps `made` to the clients' requests, without the forced
refreshes that the provider makes itself, `told` to `answers` and `kept` to `stored`.

Three requests are what the interesting cases need: one in flight, one applied
while it is, and one that queues behind both; a forced refresh adds a fourth. Two
items tell edits of the same item from edits of another. One foreign write is
enough to make an ETag stale.

Deletions and failing backups (`"disk"`) are not in `ics_safety` and `ics_live`, because both end in
exceptions that leave the queue: `ics_acked` shows what the first do, and with `"disk"` added to
`ics_safety` TLC violates `LockIsOneFlight` and, over HTTP, `KeepsPromise` (section 10). `ics_worst` has both.
`garbled` answers and damaged components are not
in `ics_live`, because they really leave the calendar locked (below).

`FailedEditGoes` is about an edit whose write failed, and says what the forced refresh is for. It
assumes `ReloadsArrive`: the forced GETs neither fail nor find no file. One that does leaves the old data
in memory, the failed edit with it (`onStreamComplete` 221-227), and no other refresh is owed to the
user. All other GETs of the run may fail. Without the assumption TLC violates the property.

Fairness: the event loop runs (`ProcessQueue`, `Callbacks`) and the network
answers or fails (`Serve`; Necko's channels always end). Users, other programs
and the properties dialog are under no obligation.

### Proved

The theorems hold for all items, bounds and faults that their assumptions admit, and for any
number of requests and foreign writes. `ConstantsAssumption` is evaluated by the runs.

| Theorem | Says | Assumes |
|---|---|---|
| `TypeCorrect` | `[]TypeOK` | |
| `AtMostOneAnswer` | `[]OneHome`: a request waits in one place (queue, modifications, posted read), has been told nothing while it waits, and nothing is told twice | |
| `OnlyDeletesAreForgotten` | whatever is neither waiting nor told is a deletion | |
| `EveryRequestRemembered` | `[]NothingForgotten` | no deletions |
| `LockHolds` | `[]LockIsOneFlight` | `LockIsKept` |
| `EditsAreWritten` | `[]UnsavedEditsAreBeingWritten` | no deletions, no undecodable PROPFIND answer |
| `AckedEditsAreStored` | `[]AckedIsStored` | `LockIsKept`, no deletions |
| `ProviderKeepsPromise` | `KeepsPromise`, the refinement of `CalendarPromise` | `LockIsKept`, no deletions |
| `IfHeaderProtects` | `IfHeaderKeepsForeign`, an action property | `LockIsKept`, `FileIsRead` |

The assumptions are what the code needs, not what the provers need:

- `LockIsKept`: no exception leaves the queue into a `catch` block that takes it for its own. On a
  file that excludes a backup that fails: `doWriteICS` unlocks in its `try` block when the file has changed, and
  if the write which that starts throws, its `catch` (355) unlocks again, beside a refresh that may have gone out.
  Over HTTP it excludes, for a server that sends ETags with a PUT, failing backups and deletions (a delete of an
  item that is gone throws): the queue then runs in the `try` block of `onAfterPut`, whose `catch` (1005) takes the
  exception for a missing header and sends a PROPFIND without holding the lock, whose answer unlocks a
  calendar on which a download or a write may be under way. For a server that sends none it excludes a
  PROPFIND answer that cannot be read. Without any of these TLC violates `LockIsOneFlight`; with failing
  backups over HTTP it violates `KeepsPromise` too, as the unlock acknowledges what nobody has written. (On
  a file, and for `IfHeaderKeepsForeign`, it finds no violation at the bounds of `ics_safety`.)
- `EditsAreWritten` does without it: wherever an exception breaks a chain, or a second unlock comes too
  early, the modifications have been told that they failed and are no longer waiting.
- No deletions: the exception also leaves the edits before it applied and unwritten
  (`ics_acked`).
- `FileIsRead` (`Damage \subseteq {"component"}`): a file that is not UTF-8, or does not
  parse, leaves the memory calendar with the ETag of a file whose items it does not have.

The arguments:

- `OneHome` is not inductive alone: that two posted reads for one request are the same
  read is needed when one of them is answered (`HomeInv == TypeOK /\ OneHome /\
  ReadsAreDistinct`). There is one lemma per way the queue and the answers change (a request is
  pushed, the head is applied, `unlock` answers all modifications, a forced refresh is
  appended) and one step per action.
- `LockInv` adds to `LockIsOneFlight` that an ETag is only asked for when the PUT had none,
  that the queue runs inside `onAfterPut` only when it had one, and that `onStopRequest` finds the calendar
  locked. Every callback
  ends its chain, links to one more flight, or is a posted read (`Ends`, `GoesOn`, ...):
  these shapes are lemmas of the callbacks and everything later uses them
  instead of the callbacks.
- `WriteInv` needs no lock: where there are modifications the drain loop knows of them (`drain.last`), or an
  unlock follows at once, or a write is under way.
- `PromiseInv` relates three places: the edits in `mods` are among those the PUT under way
  carries, an accepted PUT's edits are in `stored`, and so are all `mods` when an ETag is
  asked for. So whoever ends the chain well tells only what is stored; a refresh that ends well
  finds `mods` empty, which is `WriteInv`. The refinement then takes one abstract
  step per action: a request is made, all of `mods` are told one outcome, a PUT is accepted, or nothing.
- `HeaderInv`: while no download is parsed, the memory calendar keeps what others wrote into the file whose
  version is its stamp. The invariant is about file versions (no stamp or flight
  knows one that is not there yet), and `EditKeeps` about the edits between download and PUT.

The properties of `ics_live` are model-checked only.

## 4. CachedCalendar

### Correspondence

| Model | Code |
|---|---|
| `row` | rows of the storage calendar with `offline_journal` |
| `meta`, `token` | `cal_metadata`: ETag per item, and the sync token, which is stored with every change of it (`saveCalendarProperties`) |
| `info` | `mItemInfoCache` and `mHrefIndex` |
| `offline`, `syncing` | `Services.io.offline`; is `mSyncQueue` not empty |
| `flights` | requests (put, del, head, fetch, sync, get), flag reads (flag), posted getItems of a playback phase (list), the playback's loop (pop) |
| `edits`, `told` | the users' edits and what their listeners were told |
| `server`, `changes` | the collection; a change's number is its ETag and the collection's sync token (external) |
| `stored`, `asked` | history: edits the server has carried out; items about which the user was asked |
| `AddItem` ... `DeleteOfflineItem` | `calCachedCalendar.js` 645-855 and `calStorageCalendar.js` 468-614, 943-1080 |
| `PutDone` ... `FetchGone` | `calDavCalendar.js` 553-970, 980-1134, 1215-1235; `calDavRequestHandlers.js` 640-926 |
| `Refresh` ... `NextPhase` | `calCachedCalendar.js` 481-633 |
| `Synchronize` ... `MultigetFailed` | `calCachedCalendar.js` 290-342, `calDavRequestHandlers.js` 300-500, 726-799 |
| `GoOnline`, `Restart` | `onOfflineStatusChanged`; `fetchCachedMetaData` and `ensureMetaData` |

The module composes three pieces of code, because each one's correctness lies in
the others' state: an ETag that runs ahead of its row, a flag that is read before
and used after a sync.

`PopItemQueue` passes over an item that the provider does not know: the exception counts as a failed
playback, the item keeps its flag, and the loop goes on.

### Runs

| Run | Question | Instance |
|---|---|---|
| `cached_journal` | Is what users change kept, applied once, never brought back, is every edit answered and the journal emptied? | 1 item, 3 edits, network going and coming, lost answers, invalid tokens |
| `cached_foreign` | With other clients: does the token cover what it says, is nobody overwritten unasked? | 2 items, 3 edits of all kinds, 2 foreign changes, an invalid token |
| `cached_overlap` | What holds when everything overlaps? | 1 item, 1 edit, 1 restart, 1 foreign change, every fault |

`Overlap` is the condition of this component: with `FALSE` an edit starts when nothing is under way,
and a refresh when no edit is; the callbacks of one errand still interleave with foreign changes, the
network's toggles and each other. With `TRUE` everything overlaps. Under `TRUE`
most of the safety properties of the first two runs do not hold: the races are real and listed
below. What holds is checked in `cached_overlap`.

Three edits are: one that is lost or journalled, one on top of it, and one
after the playback. One item is enough where items do not interact; two are
needed for the order of playback and for syncs that fetch one item and delete another.

Fairness (`cached_journal`): each errand's requests, database
reads, callbacks and loop go on (one weak-fairness condition per errand, because
they are independent events of the loop), and the refresh timer fires.
`JournalEmptied` assumes that the network finally stays (its left-hand side).

### Proved

`CachedCalendarProofs` proves the first two of these properties with no assumption but `ConstantsAssumption`: for any
number of items, edits, playbacks, restarts and faults, and with everything overlapping.

| Theorem | Says |
|---|---|
| `CachedTypeCorrect` | `[]TypeOK`, with two facts in it that are more than types: a row that is gone has no flag, and the ETags in the database are those in memory (`MetaIsInfo`) |
| `TokenNeverGoesBack` | `TokenForward`, an action property |
| `ForeignEditsAreKept` | `ForeignKept`, an action property, assuming `Undisturbed` |
| `TokenPassesOverNothing` | `[]TokenCovers`, assuming `Undisturbed` and no error answers |
| `NeverAppliedTwice` | `AppliedOnce`, an action property, assuming `Single` |
| `NoEditIsLost` | `[]EditsAreKept`, assuming `Single` and `Journal` |
| `DeletedStaysDeleted` | `[]NoResurrection`, assuming `Single` and `Journal` |
| `JournalLetsGo` | `JournalKept`, an action property, assuming `Single` and `Journal` |
| `CacheIsCoherent` | `[]CacheCoherent`, assuming `Single` and `Coherence` |

The inductive invariant is `CachedInv`. Its parts:

- `FlightsInv`: each flight has its type and is what it says (`ErrandOk`): requests have an item and a
  version of it, and what deletes on the server stands for a deletion of the user's.
  Without the latter, `MetaIsInfo` is not inductive: an answer that finds the item gone deletes the metadata for a
  deletion, and writes them for any other edit.
- `SyncInv`: while a sync-collection or its multiget is under way, `mSyncQueue` is occupied, so it is the only
  one, and what it has learnt is between the token and the server's last change. `TokenForward` follows:
  the one step that moves the token sets it to what the one sync has learnt. A callback
  ends its errand or turns it into something that is no sync (`Turns`), which is a lemma for each of them.

`CachedCalendarProofs` goes on to prove two more, in the scenario of `cached_foreign` but for any number of
items, edits and changes by others: the program stays online or stays offline, errands do not overlap,
nothing restarts, and the server fails only with error answers and invalid tokens (`Undisturbed`).
These are the limits of what the code guarantees, not promises it makes: with one of them dropped, TLC violates
`ForeignKept` on that run's instance. With a network that goes and comes, an answer that is lost or a
server that is unavailable, an item edited offline is played back by a PUT, another client writes it before
the fetch that follows, and `FetchDone` stores the other's ETag while the row stays the user's own: the
`If-Match` of the next edit then overwrites a version that was never in the row. With overlap two errands
do the same to each other, and a restart falls between the fetched ETag and the row.
`TokenCovers` fails likewise, though no violation was found with lost answers, and it also needs
that no multiget is answered with an error, since `onStopRequest` stores the token all the same.
The arguments:

- One flight at a time, with what it has read (`ReadOk`): an ETag names one version, and where the server has
  moved on since, its ETag is beyond all that the provider knows. Every change of the server then
  keeps every invariant about what is known, which is one lemma (`ChangeKeeps`).
- `SeenInv`, for `ForeignKept`: another client's version whose ETag the provider knows is in the row, or about to
  get there (`Recaching`: `getItemOfflineFlag` runs between the ETag and the row), or the
  user was asked; and an edit that sends that ETag was made from that version.
- `CoverInv`, for `TokenCovers`: besides the changes up to the token, those up to the new token are covered
  but for the items still needed, from the answer to sync-collection to the multiget's.

`CachedJournalProofs` proves the five safety properties of `cached_journal`, whose constants satisfy all
three assumptions, for any number of items, edits, playbacks, failures and network changes. In all of
them errands do not overlap (`Single`). Beyond that:

- `NeverAppliedTwice`: nothing. Additions, restarts, other clients and every fault are allowed.
- `Journal`: items are not added, nobody else writes, and a request fails by a lost answer, an invalid
  token or a network that is gone. Restarts, and a user who declines to overwrite, are allowed. TLC violates
  all three properties with a fault `"unavailable"` or `"error"`, because the playback goes on after a failed
  request and the sync after it replaces the row, and with additions, because the deletion of an item that was
  added again may be forgotten (section 10). With another client it violates `JournalKept`, and with that client and a restart
  `EditsAreKept`.
- `Coherence`: items are not added, nobody else writes, nothing restarts, and a user who is asked overwrites.
  All faults are allowed. TLC violates `CacheCoherent` when any of these is dropped.

The inductive invariant has one part per assumption, and each is proved a step at a time for the item, the
flight, and the action properties at once (`ItemKeeps`, `FlightKeeps`, `Keeps`), one lemma per callback:

- `AloneInv`, for `AppliedOnce`: there is one flight at most, it is the errand of the newest edit or of the
  playback, and what it has read of a flag still holds. A version in the journal that the server has stored
  already is `Behind`: the ETag the provider knows is older than the server's, or the
  resource has gone, so that `If-Match` refuses it when it is sent again. This is the heart of the matter: the
  provider learns the ETag of what it has written only together with the answer that takes the
  item out of the journal.
- `CalmInv`, without additions and other clients: nothing is journalled as created, and what a request has
  read is how the server is.
- `KeptInv`, for the journal: an edit that was reported is stored, or in the row under its flag
  (`NewestKept`); a row is missing only when the server has nothing either. A sync runs only when the
  journal is settled (`Settled`), because a playback that stays online has settled the phases behind it but for the items
  it has still to play (`PlayKept`). Where the network goes in between, the sync never starts.
- `SameInv`, for the cache: an ETag that is the server's goes with the server's version in the row, or
  a flight is about to put it there (`Recaching`) or to mark the row as edited offline (`Marking`).

## 5. SuggestionController

### Correspondence

| Model | Code |
|---|---|
| `fetches` | every call of `fetch`: its term, its two promises (`history`, `remote`), its request (`xhr`), and how its own promise was settled (`out`) |
| `fetches[k].from` | history: whose response, or whose timer, settled the remote half |
| `ctl` | `_searchString`, `_request` and with it `_deferredRemoteResult`, `_remoteResultTimer` |
| `timers` | the timers that run, whether or not the controller still knows them |
| `listener`, `told` | `_listener` of `nsSearchSuggestions.js`; what each search's listener was given |
| `StartSearch`, `StopSearch` | `startSearch`, `fetch`; `stopSearch`, `stop` |
| `HistoryAnswers` | `onSearchResult` of the form history (185-219) |
| `RemoteLoaded`, `RemoteFailed`, `RemoteTimeout` | 246-316 |
| `Return` | `Promise.all`, `_dedupeAndReturnResults`, `onReadyCallback` |

The form history and the engines are external. A response repeats the term that
it is for, which is what `_onRemoteLoaded` compares.

### Runs

| Run | Question | Instance |
|---|---|---|
| `suggest_prompt` | Does each listener get its own results, is an engine only given up in time, does every search settle? | 2 terms, 3 searches, stops at any moment |

Three searches are one that is answered or stopped, one that the first one's
leftovers (timer, request) might disturb, and one with the first one's term again.
`LateHistory = FALSE` is the condition of the passing run: the form history has
answered a search when the next one starts; it may still be slower than the
engine. Without it none of the three properties holds, for the reason that
section 10 tells: a late answer belongs to one fetch and acts on the state of another.

Fairness: the form history answers and timers fire; engines are under no
obligation, which is what the timeout is for.

### Proved

`SuggestionControllerProofs` proves, for any number of terms and searches: `SearchTypeCorrect`
(`[]TypeOK`) unconditionally, and with `LateHistory = FALSE`, the run's
condition, `ListenersGetTheirOwn` (`[]OwnResults`) and `EnginesGetTheirTime` (`[]GivenUpInTime`).
The inductive invariant `SearchInv` says what the
condition buys: all searches but the last are over (`Prompt`), the controller's request and timer
are the last one's, and a search that is not over still waits for its
form history or its engine (`Pending`). `EverySearchSettles` is liveness and stays with TLC.

## 6. AlarmService

### Correspondence

| Model | Code |
|---|---|
| `now`, `mRangeEnd` | the clock in ticks; `mRangeEnd`, which is also when the periodic search comes next |
| `store`, `known`, `muted` | the calendars' items (one alarm each), which calendars are registered and observed, which are disabled or suppress alarms (external) |
| `loads` | one record per `findAlarms` call: the calendars that have still to answer (`asked`, `open`), the batches that `cal.forEach` has still to work off, the completions that wait for the shared promise |
| `alarms` | `mTimerMap` and the timers it has lost (`mapped`), `mLoadedCalendars`, the monitor's `mAlarms`, `mWindowOpening` and the dialog's widgets |
| `requests` | `modifyItem` calls of snooze and dismiss that have not come back |
| `AddAlarmsForItem`, `RemoveAlarmsForItem`, `AddTimer`, ... | the functions of the same names, as functions of the record `alarms` |
| `PeriodicSearch`, `TimerFires`, `GetResult`, `BatchItem`, `OperationComplete` | the callbacks of timers and calendars (233-265, 432-439, 491-525) |
| `Edit`, `OnLoad`, `OnPropertyChanged`, `OnCalendarRegistered`, `OnCalendarUnregistering`, `Wake` | the observers (44-101) and `wake_notification` (132-142, 212-300) |
| `WindowLoads`, `SnoozeAlarm`, `DismissAlarm`, `CloseWindow` | monitor 135-147, dialog 32-50, 115-181 |

Closing the dialog snoozes what is listed, but `snoozeAllItems` walks the live list of the widgets: where a
calendar answers at once its widget goes during the walk and the next one is passed over. Which calendars do is
left open (`CloseWindow`).

`Tick` waits for what is due: a timer that is late by more than a tick is not an
interesting case, because an alarm that is late is still shown. Acknowledging sets
`alarmLastAck` to the time of the click.

### Run

`alarms`: one calendar with one item, one without any (its completion resolves
the promise that it shares), any of them registered at the start, two ticks between searches, alarms before and after the
first, one act of a user, one event and two searches under way at once. The
bounds let an item move across the end of the range while a batch with its old
version waits, which is the case that the batches make hard.

`blurred` is the history variable for what the code gives up: a calendar whose items
change while a search holds their old versions, whose reload is ignored because an
earlier search has not finished, or which is unregistered during a search. It is
cleared when the calendar starts afresh, so the properties say that nothing else goes wrong.

### Proved

`AlarmServiceProofs` proves all five properties for all values of the constants: any calendars and
items, any clock, any number of edits, reloads, sleeps and overlapping searches, without an assumption
but those of the module. The inductive invariant `AlarmInv` has four parts:

- `ShapeInv`: the types, with every timer, entry and batch holding a real version of an item, searches
  told apart by their numbers (a new search finds a free one, `FreshIsFree`), and one timer of an alarm in the map.
- `LoadInv`, for `LoadingEnds`: a calendar that has completed waits for the shared promise only while
  there are batches, and results without batches mean that the promise is resolved. This is what makes the
  test `!listener.resultsReceived` in `onOperationComplete` enough.
- `DialogInv`, for `DialogShowsList`: an open dialog with nothing to show and nothing loading, which a calendar
  deleted in the middle of its search can leave behind, has a search to come that will look at it again.
- `KnowInv`, for `NothingMissed` and `NothingExtra`. Of a calendar that is not `blurred`, timers,
  entries and the batches of every search hold the stored versions (`ListedInv`, `FoundInv`), no
  timer has lost its place in the map (`OrphanInv`, without which a notification could not cancel it), and
  what is wanted is watched or awaited: in a batch, or in a calendar still to be asked by a search
  that starts before the item is over (`WantedInv`). What the periodic search finds is what
  was not over when the last range ended, which is all that is newly wanted (`PeriodicSearchAlarm`).

A batch's item is worked off like a notification that the item is as it is, so that one lemma
(`NotifiedIs`) serves batches, edits and what the dialog asks for.

## 7. CompositeCalendar

### Correspondence

| Model | Code |
|---|---|
| `mCalendars`, `disabled`, `pendingLoads` | the composite's calendars, their property, the helper's flags |
| `jobs` | composite queries (`mNumQueries`, `mReceivedCompletes`, `mItemsReceived`, `mMaxItems`) and the view's queries to single calendars |
| `asks` | the `getItems` calls to calendars that have not been answered; `wait` counts the reloads in front of one |
| `pendingJobs`, `view` | `mPendingRefreshJobs`; the items the view shows |
| `reloads` | reloads that calendars have still to do (external) |
| `GetItems`, `CancelQuery`, `Answer` | `getItems` (379-409), the operation group's cancellation, the listener helper (434-534) |
| `Refresh`, `ReloadDone`, `RefreshAll`, `RefreshOne` | `refresh` (319-339), the helper's `onLoad` (35-46), the view's refresh job (499-549) |
| `AddCalendar`, `RemoveCalendar`, `OnPropertyChanged`, `Edit` | 155-190, the forwarded notifications, the view's observer |

A calendar answers in one callback (results, then completion), as the ICS, memory and
storage providers do; only the WCAP provider returns an operation from `getItems` that
can be cancelled (`Handles`).

### Run

`composite`: calendar `c` with two items cannot be cancelled, `d` with one can;
a client asks for one item, so that part of what `c` answers is clipped. Three events are
a refresh, one that overtakes it, and a calendar that is added, removed or disabled in
between; two edits are one before and one after an answer; one fault is a calendar that throws or
a reload that fails. `MaxActs` lets a behaviour have four of these six at once. `blurred` and `lost` name the calendars for which the view gives no promise
(section 10). Fairness: calendars answer and reloads end. `QueriesEnd` leaves out
queries of which a calendar threw when it was asked (`threw`): those never end.

### Proved

`CompositeCalendarProofs` proves all three safety properties, for any number of calendars,
items, queries, edits and faults and without further assumptions:
`CompositeTypeCorrect`, `ClientsGetTheirShare` and `ViewStaysCurrent`. The inductive invariant has three parts.

- `Consistent`: a query that goes on never hears of more calendars than it needs - the
  completions it has counted and the calendars it still asks do not exceed its need - and
  has passed on what its share of the offered items is. The proof counts with
  `Cardinality`, by FiniteSetTheorems.
- `PendingOk`: what the view keeps as pending are its own queries that still run, and every one that
  can be cancelled is pending.
- `ViewInv`: where the view is behind a calendar, some query that still writes to it has not heard
  of that calendar yet (`Heard`); a load that will be swallowed is still on its way, and an
  answer is expected behind it; of a calendar that is not shown nothing is expected.

The proof found a case that the run with its earlier bounds did not reach (an item that is edited while a
swallowed load is pending, and that the load then finds gone, section 10): `blurred` records
it. `QueriesEnd` is liveness and stays with TLC.

## 8. TransactionManager

### Correspondence

| Model | Code |
|---|---|
| `txns[n]` | `calTransaction`: `mAction`, `mItem`, `mOldItem`, `mCalendar`, `mOldCalendar`, `mIsDoTransaction` |
| `undoStack`, `redoStack` | the platform's transaction manager (external) |
| `cals[c]` | an ICS calendar: items, queue, modifications that are being written, lock, read-only |
| `CreateAndCommitTxn`, `Undo`, `Redo` | 32-76, with `doTransaction` and `undoTransaction` (146-203) |
| `Answer` | `unlock` (`calICSCalendar.js` 584-604), which calls `onOperationComplete` (111-133) and a move's `addListener` (158-166) |
| `ForeignEdit`, `Toggle` | the alarm dialog, invitations; the property `readOnly` |

An ICS calendar does what it is asked at once in memory and answers when the file has
been written; while it writes, requests wait. That is what lets a user's next step
overtake an answer. Writes that fail are left to IcsCalendar.

### Run

`transaction`: two items in two calendars, three transactions (an item made, moved and
changed), two steps back or forth, one edit by other hands, one calendar that turns
read-only, and five of all these together; the calendars are symmetric, and so are the items
(1.2 million states). Two items are needed because the answers of one write go to the
listeners of all items it covers: a listener that throws keeps those after it from being
told.

`UndoRestores` leaves out items of which something was asked before the last answer
(`overtaken`), or still waits in a calendar although the call that asked for it threw
(`Stuck`: the operation was queued before the exception), and those changed by others, with
which something has failed, or whose listener was not told because one before it threw
(`touched`); `NeverLost` leaves out only the first.

### Proofs

`StacksAreSound` (`TypeOK`) and `NoItemIsLost` (`NeverLost`) hold for any number of calendars,
items, transactions and steps (`TransactionManagerProofs`).

- The calendars work off sequences with two recursive functions, `Worked` (the queue) and
  `Tells` (the listeners). Induction over their length is done in set form
  (`NatSetInduction`, from the library's theorem on well-founded relations): the set of the
  numbers up to which a fact holds has 0 and every successor. `ProcessStays`, `AskedStays` and `TellsStays` say
  in general what that gives: a set of calendar records that one operation does not leave is
  not left by a call.
- `ManagerInv` gives `TypeOK`: `CalsOk` (what waits belongs to a transaction of the same item, a
  modification stays in its calendar, only an addition is the first half of a move, a calendar is locked only
  with modifications to tell), `TxnsOk` (only a modification has an old item and can be undone), and
  `StacksOk`, for which undo stack and reversed redo stack are read as one `Line`
  that undo and redo leave as it is while they move the cut.
- `LostInv` gives `NeverLost`: of an item that is not `overtaken` and has a transaction but no deletion, some calendar is
  `Safe` (it has the item or will add it, and nothing that waits there deletes it), what the
  manager has asked and still waits belongs to one transaction (`AskedBy`) and fits its phase (`OpFine`: the
  first half of a move is in a safe calendar that is not the old item's), and its transactions name the
  calendars of their items (`TxnFine`). It is needed because a move is an addition in one calendar and a
  deletion in another, either of which may fail, wait, or find the item gone.

## 9. CloudUpload

### Correspondence

| Model | Code |
|---|---|
| `item`, `count`, `links` | the attachment's list item, `gNumUploadingAttachments`, `cloudAttachments` |
| `provider` | `_loggedIn`, `requestObserver`, `_uploadingFile`, `_uploader`, `_uploads` |
| `flights` | its requests: login, quota, PUT, share; with the observer that was handed over |
| `Attach`, `RemoveAttachment`, `CancelFileUpload` | `attachToCloud` with `uploadFile`, `RemoveSelectedAttachment`, `cancelFileUpload` |
| `LogonAnswer` ... `ShareAnswer` | the callbacks of the requests |
| `UploaderCallback`, `Told` | `_uploaderCallback`, `onStopRequest` of the compose window's listener |

The quota is asked for before every file, because `_userInfo` is never set. The modal
message about a failed upload is left out: what happens while it is open happens
before or after the callback in the model.

### Run

`upload`: three files (one under way, one next, one behind), failures at each stage,
cancellation at each stage, one change between online and offline. `astray` is set by
a refused login or quota and by the cancellation of the file under way, with which the
queue does not work (section 10); up to then sending waits for exactly the files that
the provider has, and every upload ends. Links are right in any case. Fairness: the
server answers or the request fails.

### Proved

`CloudUploadProofs` proves `UploadTypeCorrect` (`[]TypeOK`, which includes that one file is
uploaded at a time) and `WindowAgreesAlways` (`[]WindowAgrees`) for any
finite set of files. `UploadInv` is inductive: types, links only to files that are shared (`LinkInv`), and,
unless something is `astray`, `QueueInv` - one request under way for the file
that `_uploadingFile` names, which is not in the queue before it has an uploader and its head
afterwards - together with the agreement of counter, list and queue. The lemmas about queues (what
removing the first match, the tail and the head leave of an injective sequence) carry the proof.
`EveryUploadEnds` stays with TLC.

## 10. Where code and documentation disagree

`ics_acked` is the violation run, a finding in `PROJECT.json` with the line it
contradicts: a delete of an item that is gone throws out of `processQueue`;
edits applied before it are then acknowledged by an unrelated unlock without
having been written.

Four more are one step away from the runs: each is shown by TLC with the module's
properties when the constants of a run are changed as said.

1. `calDavRequestHandlers.js:481` calls a constructor of six parameters with seven
   arguments, and the listener that would end the sync is dropped, though the comment calls it
   'the listener to notify' (`:648`). With one foreign change and no fault, `[]<>~syncing`
   fails under `FairSpec` of CachedCalendar: `mSyncQueue` stays occupied.
2. `calDavRequestHandlers.js:759` stores the new sync token also after a failed
   multiget ('to set if operation successful', `:646`). `TokenCovers` fails with
   `"unavailable"` among `Faults`.
3. `calCachedCalendar.js:531` says of a failed playback that the item 'will be
   taken care of next time'; the sync that follows replaces it. `JournalKept` fails with
   one foreign change, one refused request (`"error"`) and the network going and coming.
4. `SearchSuggestionController.jsm:103` promises that results of stopped fetches 'will not
   be provided'; one whose remote half has been answered is not stopped. `OwnResults`
   fails with `LateHistory = TRUE`.

Others that the models contain, without a run of their own:

- ICS: a backup that fails throws out of `writeICS` (`calICSCalendar.js:305`) into whichever `try` block the
  queue runs in: `onAfterPut` then sends a PROPFIND beside the next chain and unlocks it, so that an edit
  is acknowledged before its PUT is sent, and `doWriteICS` unlocks twice and reports a second error (`:355`); after
  a failed write whose forced refresh fails as well, the edit stays in memory and goes out with the next write
  (`:221`); when the very first GET fails the calendar is unlocked over an empty memory
  calendar and without an ETag, so that the next edit replaces the whole file by
  itself (`calICSCalendar.js:221`); a PROPFIND answer that is not UTF-8, or a component whose constructor
  throws in the parser, leaves the calendar locked (`calICSCalendar.js:1015`,
  `calIcsParser.js:271`); the PROPFIND's path never matches, so the ETag is
  lost and the next PUT is unconditional (`calICSCalendar.js:1029`); a file
  that does not parse becomes an empty calendar that the next edit writes
  back (`:267`); a file that is not UTF-8 renews the ETag and keeps the old
  items (`:252`).
- Cached, without overlap: declining to overwrite a deletion takes the item out
  of the cache under the server's ETag; declining in a playback leaves the local version
  under it; a new item whose PUT was answered too late conflicts for ever
  (`If-None-Match: *`); an offline deletion is forgotten when the item is added and
  deleted again; an item fetched with a known ETag, and one that is gone,
  leave the edit unanswered (`calDavRequestHandlers.js:882-909`); a failed fetch
  after a successful PUT is reported as a failed edit.
- Cached, with overlap: an edit that overlaps a playback loses its flag to
  `resetItemOfflineFlag`; an edit made from an old copy overwrites a foreign
  change that a sync has fetched meanwhile (`If-Match` names the ETag known
  when the request is made); a restart between writing a row and marking it
  loses the mark.
- Alarms: a snoozed alarm is not shown again until the next start if it is due after the
  range that has timers and its item is over by then, because the periodic search asks
  for items from the end of the last range on (the dialog's comment `:36` is about the
  month's limit only); `cal.forEach` works with the versions it was given, so a batch may bring back
  the alarm of an item that has changed or gone, and `addTimer` then loses sight of a timer
  (`calAlarmService.js:440`); an `onLoad` during a search is ignored although the search may
  have read the items from before (`:46`); a calendar that is unregistered
  during a search gets its timers all the same; on waking, the monitor has stopped
  listening before the calendars are unobserved, and keeps its old list (`:278-291`).
- Composite and view: a calendar whose `getItems` throws is never counted
  (`calCompositeCalendar.js:404`), and the query waits for ever; the flag `pendingLoads` stays
  when the reload fails or the calendar is removed, and swallows the next `onLoad` (`:37`); a
  calendar removed during a query has its items added to the view
  afterwards; the view forgets jobs of single calendars without an operation
  (`calendar-base-view.xml:545`), so a refresh of the whole view does not cancel them, and an item they
  bring may have gone since; an item that is edited while a swallowed load is pending, and found
  gone by it, stays in the view, because no observer is told of it.
- Undo: additions and deletions that are on top of the stack can never be undone, because
  `checkWritable` wants both items (`calTransactionManager.js:57`) - unless a modification
  lies above them; an item moved to another calendar and back, or back by undo, before
  the first answer is lost from both calendars (six steps: two moves, four answers;
  `NeverLost` without its exception); the undo of a move deletes and adds independently, and leaves
  two copies or none when one half fails; a listener that throws in `unlock` leaves the calendar
  locked.
- Uploads: a file that has waited in the queue is started with the provider's callback where its
  observer should be (`nsNextcloud.js:510`), so a refused login or quota is told to nobody,
  though nsIMsgCloudFileProvider.idl promises that `onStopRequest` 'will be called when finished, with
  success or an error code'; a file over the quota leaves `_uploadingFile` set (`:531`), and all
  later files wait for ever; a failure of the login is told to the observer stashed last, who may
  be another file's; cancelling the file under way does not stop its request, whose answer then drops
  the next file from the queue and counts down twice (`:812-823`, `request` is never set); before its PUT
  the file cannot be cancelled (`_uploader` is null, `:220`).
- Session store: of three saves of states A, B, A the last may be skipped while B is being
  written (`sessionStoreManager.js:165`).

## 11. Not modelled

- In IcsCalendar: `If-Modified-Since`, the resolution of modification times,
  torn writes of files, rotation of backups, hooks of other schemes, listeners
  that throw in `unlock` or call back into the calendar from within the drain loop.
- In CachedCalendar: ctag polling, several multiget batches and the 507 answer that asks for
  another sync, the scheduling inbox, uncached use, authentication
  and redirects, discovery (`checkDavResourceType`), disabled calendars,
  occurrences, storage errors, providers without a change log. The items of
  one multiget are applied in one step.
- In SuggestionController: merging and trimming the lists, private mode, searches
  without local results, the search service's initialization, form history that never answers.
- In AlarmService: several alarms of an item, recurring items, completed and cancelled items, the
  preferences that turn alarms off, exceptions that reject the promise.
- In CompositeCalendar: `getItem`, the default calendar, preferences, batches, the status bar, ranges
  and filters of queries, views that are hidden.
- In TransactionManager: batches, iTIP messages, calendars other than ICS calendars, writes that fail.
- In CloudUpload: asking for passwords, deletion on the server, conversion of ordinary
  attachments, the modal message box.
- The session store: its hazard is one comparison in a module that otherwise opens windows.
- The other components of the inventory: they are user interface, data and date arithmetic, or
  third-party code, as the notes in `PROJECT.json` say; section 2 says what may follow.

What stays with TLC: liveness and whatever needs `ENABLED`, which the prover does not
have; `UndoRestores`, whose invariant relates every two neighbouring transactions of an item on
the stacks and is not proved yet; and `ics_acked`, a violation. All other safety properties of the runs
are proved; what no theorem covers is `EditsAreKept` with other clients but without restarts, and `NoResurrection` with other
clients, of which TLC finds no violation on `cached_journal`'s instance with one foreign change.

## 12. How to run

    tlc -workers 2 -config ics_safety.cfg MCIcsCalendar
    tlc -workers 2 -config cached_journal.cfg MCCachedCalendar
    tlc -workers 2 -config suggest_prompt.cfg MCSuggestionController
    tlc -workers 2 -config alarms.cfg MCAlarmService
    tlc -workers 2 -config composite.cfg MCCompositeCalendar
    tlc -workers 2 -config transaction.cfg MCTransactionManager
    tlc -workers 2 -config upload.cfg MCCloudUpload
    tlapm IcsCalendarProofs.tla
    tlapm SuggestionControllerProofs.tla
    tlapm CompositeCalendarProofs.tla
    tlapm CachedCalendarProofs.tla
    tlapm CachedJournalProofs.tla
    tlapm CloudUploadProofs.tla
    tlapm AlarmServiceProofs.tla
    tlapm TransactionManagerProofs.tla

`CachedJournalProofs` extends `CachedCalendarProofs`; the others stand alone.
