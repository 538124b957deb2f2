------------------------- MODULE CachedJournalProofs -------------------------
(***************************************************************************)
(* The offline journal of the cached CalDAV calendar, proved for any number *)
(* of items, edits, playbacks, failures and network changes, where errands  *)
(* do not overlap: no edit is written twice over another, none is lost,     *)
(* what was deleted stays so, the journal lets go only of what the server   *)
(* has, and what looks up to date is.                                       *)
(***************************************************************************)
EXTENDS CachedCalendarProofs

\* The scenarios of the theorems.  In all of them an errand begins when none is under way.
\* The journal's promises need that items are not added, that nobody else writes, and
\* that a request fails only by a lost answer, an invalid token or a network that is gone;
\* the coherence of the cache needs, instead of the last, no restarts and a user who
\* overwrites when asked.
Single    == ~Overlap
Journal   == "add" \notin Kinds /\ MaxForeign = 0 /\ Faults \subseteq {"lost", "token"}
Coherence == /\ "add" \notin Kinds /\ MaxForeign = 0 /\ MaxRestarts = 0
             /\ FALSE \notin Overwrite

Request(f)   == f.kind \in {"put", "del", "head", "fetch"}
Marking(f)   == f.kind = "flag" /\ f.then = "mark"

\* A write with the ETag that the provider knows would be refused.
Behind(i) == server[i].v = 0 \/ info[i] # server[i].tag

\* One errand at a time: what an item in the journal looks like.  A version that the server
\* has already stored stays in the journal only when the ETag of it has not come back.
ItemAlone(i) ==
    /\ server[i].tag <= changes /\ info[i] <= changes
    /\ server[i].v # 0 => server[i].tag > 0
    /\ row[i].flag \in {"created", "modified"} => row[i].v > 0 /\ edits[row[i].v].item = i
    /\ row[i].v # 0 /\ row[i].flag # "created" => meta[i] > 0
    /\ i \notin asked /\ row[i].flag = "modified" /\ row[i].v \in stored => Behind(i)

ReadAlone(f) ==
    IsRead(f) =>
        \A i \in Items : f.data[i].tag <= changes /\ (f.data[i].v # 0 => f.data[i].tag > 0)

\* An edit's errand is that of the newest edit; its item is visible and what was read of
\* its flag still holds.
EditAlone(f) ==
    f.op # 0 =>
        /\ f.op = Len(edits) /\ edits[f.op].item = f.item
        /\ ~Recaching(f) => f.v = f.op
        /\ f.kind = "flag" \/ Request(f)
        /\ f.kind = "put" => Kind(f) # "delete"
        /\ f.kind = "flag" =>
             /\ \/ Kind(f) = "delete" /\ f.then \in {"delete", "erase"}
                \/ Kind(f) = "modify" /\ f.then \in {"modify", "store", "mark", "cache"}
             /\ f.out = "wait" \/ (f.out = "ok" /\ f.flag = row[f.item].flag)
             /\ Marking(f) => row[f.item].v = f.v
        /\ Kind(f) # "add" =>
             /\ Visible(f.item)
             /\ f.kind # "flag" \/ Recaching(f) => row[f.item].flag = "none"
        /\ Kind(f) = "modify" /\ f.item \notin asked /\ f.op \in stored /\ ~Recaching(f) =>
             Behind(f.item)

\* A playback's items are in the journal as they were when they were listed.
PlayAlone(f) ==
    f.op = 0 /\ ~IsSync(f) =>
        /\ f.phase # "none" /\ f.kind # "flag"
        /\ f.kind = "list" => f.todo = {}
        /\ \A t \in f.todo : row[t.item].v = t.v /\ row[t.item].flag = f.phase
        /\ f.kind # "pop" => \A t \in f.todo : t.item # f.item
        /\ Request(f) => row[f.item].v = f.v /\ row[f.item].flag = f.phase
        /\ f.kind = "put" => f.phase # "deleted"

PutAlone(f) ==
    f.kind = "put" =>
        \/ f.item \in asked /\ f.cond # Unknown
        \/ f.cond = Unknown /\ IF f.op = 0 THEN f.phase = "created" ELSE Kind(f) = "add"
        \/ /\ f.cond = info[f.item] /\ f.cond > 0
           /\ IF f.op = 0 THEN f.phase = "modified" ELSE Kind(f) = "modify"

FlightAlone(f) == ReadAlone(f) /\ EditAlone(f) /\ PlayAlone(f) /\ PutAlone(f)

AloneInv ==
    /\ \A f, g \in flights : f = g
    /\ \A i \in Items : ItemAlone(i)
    /\ \A f \in flights : FlightAlone(f)

\* Without additions and other clients: nothing is "created", and what has been read is
\* how the server is.
CalmItem(i) == row[i].flag # "created"

CalmFlight(f) ==
    /\ f.op # 0 => Kind(f) # "add"
    /\ IsRead(f) => f.data = server
    /\ f.kind = "del" /\ f.out = "ok" => server[f.item].v = 0
    /\ f.op = 0 /\ f.phase = "created" => f.todo = {} /\ f.kind \in {"list", "pop"}

CalmInv ==
    /\ "add" \notin Kinds /\ left.foreign = 0
    /\ \A i \in Items : CalmItem(i)
    /\ \A f \in flights : CalmFlight(f)

\* The journal.  An errand has been carried out when its edit was stored.
Carried(f) ==
    \/ f.item \in asked
    \/ IF f.op = 0 THEN f.phase = "modified" /\ f.v \in stored
                   ELSE Kind(f) = "modify" /\ f.op \in stored

DeletedBy(S, i) == \E e \in S : edits[e].item = i /\ edits[e].kind = "delete"

NewestKept(i) ==
    LET e == Newest(i) IN
    e # 0 /\ told[e] = "ok" =>
        IF edits[e].kind = "delete" THEN ~Visible(i)
        ELSE e \in stored \/ (row[i].v = e /\ row[i].flag = "modified")

NewestOk(i) == Newest(i) # 0 => Newest(i) \in 1..Len(edits) /\ edits[Newest(i)].item = i

KeptItem(i) ==
    /\ NewestOk(i)
    /\ i \notin asked =>
         /\ row[i].v = 0 => server[i].v = 0
         /\ server[i].v = 0 => row[i].v = 0 \/ DeletedBy(stored, i)
         /\ row[i].flag = "deleted" => DeletedBy(1..Len(edits), i)
         /\ NewestKept(i)

\* The server has what the journal says of the item.
Settled(i) ==
    /\ row[i].flag = "modified" => row[i].v \in stored
    /\ row[i].flag = "deleted" => server[i].v = 0

Pending(f, i) == (\E t \in f.todo : t.item = i) \/ (Request(f) /\ f.item = i)

PlaysModified(f) == f.phase = "deleted" \/ (f.phase = "modified" /\ f.kind # "list")
PlaysDeleted(f)  == f.phase = "deleted" /\ f.kind # "list"

\* A playback that has stayed online has settled the phases behind it, but for the items
\* that it has still to play back.
PlayKept(f) ==
    \A i \in Items \ asked :
        /\ row[i].flag = "modified" /\ PlaysModified(f) => row[i].v \in stored \/ Pending(f, i)
        /\ row[i].flag = "deleted" /\ PlaysDeleted(f) => server[i].v = 0 \/ Pending(f, i)

KeptFlight(f) ==
    /\ f.op # 0 => told[f.op] = "wait"
    /\ f.out # "error"
    /\ f.kind = "put" /\ (f.out = "ok" \/ (f.out = "unavailable" /\ ~offline)) => Carried(f)
    /\ f.kind = "fetch" \/ Recaching(f) => Carried(f)
    /\ f.kind = "del" /\ f.out = "unavailable" /\ ~offline => server[f.item].v = 0
    /\ f.kind \notin {"put", "del"} /\ f.out = "unavailable" => offline
    /\ IsSync(f) => \A i \in Items \ asked : Settled(i)
    /\ f.op = 0 /\ ~IsSync(f) /\ ~offline => PlayKept(f)

KeptInv ==
    /\ CalmInv /\ Faults \subseteq {"lost", "token"}
    /\ \A i \in Items : KeptItem(i)
    /\ \A f \in flights : KeptFlight(f)

\* The cache.  An ETag that is the server's goes with the server's version, in the row or
\* about to get there; and a row that is being edited offline is about to be marked.
SameItem(i) ==
    row[i].flag = "none" /\ server[i].v # 0 /\ info[i] = server[i].tag =>
        \/ row[i].v = server[i].v
        \/ \E f \in flights : f.item = i /\ (Marking(f) \/ (Recaching(f) /\ f.v = server[i].v))

SameFlight(f) ==
    /\ (f.kind = "put" /\ f.out = "ok") \/ f.kind = "fetch" \/ Recaching(f) =>
         server[f.item].v = f.v
    /\ f.kind = "fetch" => ~Erases(f)

SameInv ==
    /\ CalmInv /\ FALSE \notin Overwrite /\ left.restarts = 0
    /\ \A i \in Items : SameItem(i)
    /\ \A f \in flights : SameFlight(f)

\* The steps of the action properties JournalKept and AppliedOnce.
KeptStep(i) ==
    row[i].flag # "none" /\ row'[i].flag = "none" =>
        \/ row[i].v \in stored \/ i \in asked
        \/ row[i].flag = "created" /\ row'[i].v = 0
        \/ row[i].flag = "deleted" /\ DeletedBy(stored, i)

OnceStep(i) ==
    server'[i].tag # server[i].tag /\ server[i].v # 0 /\ server'[i].v > 0 =>
        server'[i].v \notin stored \/ i \in asked

\* What a step does, with the one flight that there is.
Alone == CachedInv /\ ~Overlap /\ AloneInv

ItemKeeps(i) ==
    /\ ItemAlone(i)'
    /\ CalmInv => CalmItem(i)'
    /\ KeptInv => KeptItem(i)' /\ KeptStep(i)
    /\ SameInv => SameItem(i)'

FlightKeeps(g) ==
    /\ FlightAlone(g)'
    /\ CalmInv => CalmFlight(g)'
    /\ KeptInv => KeptFlight(g)'
    /\ SameInv => SameFlight(g)'

Keeps ==
    /\ AloneInv'
    /\ CalmInv => CalmInv'
    /\ KeptInv => KeptInv' /\ \A i \in Items : KeptStep(i)
    /\ SameInv => SameInv'
    /\ \A i \in Items : OnceStep(i)

LeftStays == (left.foreign = 0 => left'.foreign = 0) /\ (left.restarts = 0 => left'.restarts = 0)

LEMMA AllKeep ==
    ASSUME Alone, LeftStays, \A g, h \in flights' : g = h,
           \A i \in Items : ItemKeeps(i), \A i \in Items : OnceStep(i),
           \A g \in flights' : FlightKeeps(g)
    PROVE  Keeps
<1>1. AloneInv'
  BY DEF AloneInv, ItemKeeps, FlightKeeps
<1>2. ASSUME CalmInv PROVE CalmInv'
  BY <1>2 DEF CalmInv, ItemKeeps, FlightKeeps, LeftStays
<1>3. ASSUME KeptInv PROVE KeptInv' /\ \A i \in Items : KeptStep(i)
  BY <1>2, <1>3 DEF KeptInv, ItemKeeps, FlightKeeps
<1>4. ASSUME SameInv PROVE SameInv'
  BY <1>2, <1>4 DEF SameInv, ItemKeeps, FlightKeeps, LeftStays
<1> QED BY <1>1, <1>2, <1>3, <1>4 DEF Keeps

LEMMA OnlyOne ==
    ASSUME Alone, NEW f \in flights
    PROVE  /\ flights = {f} /\ FlightAlone(f)
           /\ DataInv /\ FlightsInv /\ MetaIsInfo /\ SyncInv
           /\ CalmInv => CalmFlight(f)
           /\ KeptInv => CalmInv /\ KeptFlight(f)
           /\ SameInv => CalmInv /\ SameFlight(f)
BY DEF Alone, AloneInv, CachedInv, CalmInv, KeptInv, SameInv

LEMMA ItemFacts ==
    ASSUME Alone, NEW i \in Items
    PROVE  /\ ItemAlone(i)
           /\ CalmInv => CalmItem(i)
           /\ KeptInv => CalmItem(i) /\ KeptItem(i)
           /\ SameInv => CalmItem(i) /\ SameItem(i)
           /\ server[i].v \in Int /\ server[i].tag \in Nat /\ changes \in Nat
           /\ row[i].v \in Int /\ row[i].flag \in Flags /\ (row[i].v = 0 => row[i].flag = "none")
           /\ meta[i] \in Int /\ info[i] \in Int /\ (meta[i] # Unknown => info[i] = meta[i])
<1>1. DataInv /\ MetaIsInfo
  BY DEF Alone, CachedInv
<1>2. server[i] \in Res(Len(edits)) /\ row[i] \in [v : Ver(Len(edits)), flag : Flags]
  BY <1>1 DEF DataInv, RowsOk
<1>3. /\ server[i].v \in Int /\ server[i].tag \in Nat /\ changes \in Nat
      /\ row[i].v \in Int /\ row[i].flag \in Flags /\ (row[i].v = 0 => row[i].flag = "none")
  BY <1>1, <1>2 DEF DataInv, RowsOk, Res, Ver
<1>4. meta[i] \in Int /\ info[i] \in Int /\ (meta[i] # Unknown => info[i] = meta[i])
  BY <1>1 DEF DataInv, MetaIsInfo
<1> QED BY <1>3, <1>4 DEF Alone, AloneInv, CalmInv, KeptInv, SameInv

LEMMA KnownEtag ==
    ASSUME Alone, NEW i \in Items, row[i].v # 0, row[i].flag # "created"
    PROVE  info[i] \in Int /\ info[i] > 0 /\ meta[i] > 0
<1>1. meta[i] > 0 /\ meta[i] \in Int
  BY ItemFacts DEF ItemAlone
<1>2. meta[i] # Unknown
  BY <1>1 DEF Unknown
<1> QED BY <1>1, <1>2, ItemFacts

LEMMA LastIsNewest ==
    ASSUME NEW n \in Nat, NEW S \in SUBSET (1..n), n \in S
    PROVE  (IF S = {} THEN 0 ELSE CHOOSE e \in S : \A d \in S : d <= e) = n
<1>1. \A d \in S : d \in Int /\ d <= n
  OBVIOUS
<1>2. \A e \in S : (\A d \in S : d <= e) => e = n
  BY <1>1
<1> QED BY <1>1, <1>2

\* An edit whose errand is under way is the newest one of its item.
LEMMA NewestIsLast ==
    ASSUME DataInv, NEW i, Len(edits) # 0, edits[Len(edits)].item = i
    PROVE  Newest(i) = Len(edits)
<1>1. PICK n, S : n = Len(edits) /\ S = {e \in 1..n : edits[e].item = i}
  OBVIOUS
<1>2. n \in Nat /\ S \in SUBSET (1..n) /\ n \in S
  <2>1. n \in Nat /\ n # 0
    BY <1>1, EditCount
  <2> QED BY <1>1, <2>1
<1>3. (IF S = {} THEN 0 ELSE CHOOSE e \in S : \A d \in S : d <= e) = n
  BY <1>2, LastIsNewest
<1> QED BY <1>1, <1>3 DEF Newest

LEMMA OwnEdit ==
    ASSUME Alone, NEW f \in flights, f.op # 0
    PROVE  /\ Newest(f.item) = f.op /\ f.op = Len(edits) /\ f.op \in 1..Len(edits)
           /\ edits[f.op].item = f.item
<1>1. DataInv /\ f.op = Len(edits) /\ edits[f.op].item = f.item
  BY OnlyOne DEF FlightAlone, EditAlone
<1>2. Len(edits) \in Nat
  BY <1>1, EditCount
<1>3. Newest(f.item) = Len(edits)
  BY <1>1, NewestIsLast
<1> QED BY <1>1, <1>2, <1>3

LEMMA SameNewest ==
    ASSUME edits' = edits, NEW i
    PROVE  Newest(i)' = Newest(i) /\ NewestOk(i)' = NewestOk(i)
BY DEF Newest, NewestOk

-----------------------------------------------------------------------------
(* Callbacks leave the server and the edits as they are.                     *)

Heard(f) == \A e \in 1..Len(edits) : e # f.op => told'[e] = told[e]

Calls(f) ==
    /\ UNCHANGED <<server, changes, stored, edits, offline>> /\ LeftStays
    /\ asked \subseteq asked' /\ asked' \subseteq asked \cup {f.item}
    /\ Heard(f)

Untouched(i) == row'[i] = row[i] /\ info'[i] = info[i] /\ meta'[i] = meta[i]

LEMMA TellsHeard ==
    ASSUME DataInv, NEW f, Tells(f)
    PROVE  Heard(f)
<1>1. Len(edits) \in Nat /\ told \in [1..Len(edits) -> {"wait", "ok", "failed", "cut"}]
  BY LenProperties, ElementOfSeq DEF DataInv
<1>2. CASE told' = told
  BY <1>2 DEF Heard
<1>3. ASSUME NEW s, Tell(f, s) PROVE Heard(f)
  BY <1>1, <1>3 DEF Tell, Heard
<1> QED BY <1>2, <1>3 DEF Tells

LEMMA ToldNow ==
    ASSUME DataInv, NEW f, f.op \in 1..Len(edits), NEW s, Tell(f, s)
    PROVE  told'[f.op] = s
<1>1. told \in [1..Len(edits) -> {"wait", "ok", "failed", "cut"}]
  BY LenProperties, ElementOfSeq DEF DataInv
<1> QED BY <1>1 DEF Tell

\* A flight between an ETag and its row, or between a row and its flag, goes on as such.
Lasts(f) ==
    \/ ~Marking(f) /\ ~Recaching(f)
    \/ \E g \in flights' : g.kind = f.kind /\ g.then = f.then /\ g.item = f.item /\ g.v = f.v

\* An item that a callback does not touch.
LEMMA ItemStays ==
    ASSUME Alone, NEW f \in flights, Calls(f), NEW i \in Items, Untouched(i),
           i = f.item => Lasts(f),
           i = f.item /\ f.op # 0 => told'[f.op] \in {told[f.op], "failed"}
    PROVE  ItemKeeps(i)
<1>1. /\ UNCHANGED <<server, changes, stored, edits>> /\ asked \subseteq asked'
      /\ row'[i] = row[i] /\ info'[i] = info[i] /\ meta'[i] = meta[i]
  BY DEF Calls, Untouched
<1>2. ItemAlone(i)'
  BY <1>1, ItemFacts DEF ItemAlone, Behind
<1>3. ASSUME CalmInv PROVE CalmItem(i)'
  BY <1>1, <1>3, ItemFacts DEF CalmItem
<1>4. ASSUME KeptInv PROVE KeptItem(i)' /\ KeptStep(i)
  <2>1. KeptItem(i)
    BY <1>4, ItemFacts
  <2>2. Newest(i)' = Newest(i) /\ NewestOk(i)' = NewestOk(i)
    BY <1>1, SameNewest
  <2>3. ASSUME i \notin asked' PROVE NewestKept(i)'
    <3>1. NewestOk(i) /\ NewestKept(i)
      BY <1>1, <2>1, <2>3 DEF KeptItem
    <3>2. PICK e : e = Newest(i)
      OBVIOUS
    <3>3. CASE e = 0
      BY <2>2, <3>2, <3>3 DEF NewestKept
    <3>4. CASE e # 0
      <4>1. e \in 1..Len(edits) /\ edits[e].item = i
        BY <3>1, <3>2, <3>4 DEF NewestOk
      <4>2. CASE told'[e] = told[e]
        BY <1>1, <2>2, <3>1, <3>2, <4>2 DEF NewestKept, Visible
      <4>3. CASE told'[e] # told[e]
        <5>1. e = f.op
          BY <4>1, <4>3 DEF Calls, Heard
        <5>2. f.op # 0 /\ i = f.item
          BY <3>4, <4>1, <5>1, OwnEdit
        <5>3. told'[e] = "failed"
          BY <4>3, <5>1, <5>2
        <5> QED BY <2>2, <3>2, <5>3 DEF NewestKept
      <4> QED BY <4>2, <4>3
    <3> QED BY <3>3, <3>4
  <2>4. KeptItem(i)'
    BY <1>1, <2>1, <2>2, <2>3 DEF KeptItem, DeletedBy
  <2>5. KeptStep(i)
    BY <1>1 DEF KeptStep
  <2> QED BY <2>4, <2>5
<1>5. ASSUME SameInv PROVE SameItem(i)'
  <2>1. SameItem(i) /\ flights = {f}
    BY <1>5, ItemFacts, OnlyOne
  <2>2. CASE i = f.item
    BY <1>1, <2>1, <2>2 DEF SameItem, Lasts, Marking, Recaching
  <2>3. CASE i # f.item
    BY <1>1, <2>1, <2>3 DEF SameItem
  <2> QED BY <2>2, <2>3
<1> QED BY <1>2, <1>3, <1>4, <1>5 DEF ItemKeeps

LEMMA CallEnds ==
    ASSUME Alone, NEW f \in flights, Done(f), Calls(f),
           \A i \in Items : IF i = f.item THEN ItemKeeps(i) ELSE Untouched(i)
    PROVE  Keeps
<1>1. flights' = {}
  BY OnlyOne DEF Done
<1>2. \A i \in Items : OnceStep(i)
  BY DEF OnceStep, Calls
<1>3. \A i \in Items : ItemKeeps(i)
  BY ItemStays
<1>4. LeftStays
  BY DEF LeftStays, Calls
<1> QED BY <1>1, <1>2, <1>3, <1>4, AllKeep

LEMMA CallTurns ==
    ASSUME Alone, NEW f \in flights, NEW g, Becomes(f, g), Calls(f), FlightKeeps(g),
           \A i \in Items : IF i = f.item THEN ItemKeeps(i) ELSE Untouched(i)
    PROVE  Keeps
<1>1. flights' = {g}
  BY OnlyOne DEF Becomes
<1>2. \A i \in Items : OnceStep(i)
  BY DEF OnceStep, Calls
<1>3. \A i \in Items : ItemKeeps(i)
  BY ItemStays
<1>4. LeftStays
  BY DEF LeftStays, Calls
<1> QED BY <1>1, <1>2, <1>3, <1>4, AllKeep

\* A callback that changes nothing but what is under way.
Quiet(f) ==
    /\ UNCHANGED <<collection, cache, info, offline, edits, left, stored>>
    /\ asked \subseteq asked' /\ asked' \subseteq asked \cup {f.item}
    /\ Heard(f)
    /\ f.op # 0 => told'[f.op] \in {told[f.op], "failed"}

LEMMA QuietCalls ==
    ASSUME Alone, NEW f \in flights, Quiet(f), Lasts(f)
    PROVE  Calls(f) /\ \A i \in Items : Untouched(i) /\ ItemKeeps(i)
<1>1. Calls(f) /\ \A i \in Items : Untouched(i)
  BY DEF Quiet, Calls, LeftStays, Untouched, collection, cache
<1> QED BY <1>1, ItemStays DEF Quiet

LEMMA QuietEnds ==
    ASSUME Alone, NEW f \in flights, Done(f), Quiet(f), Lasts(f)
    PROVE  Keeps
<1>1. Calls(f) /\ \A i \in Items : Untouched(i) /\ ItemKeeps(i)
  BY QuietCalls
<1> QED BY <1>1, CallEnds

LEMMA QuietTurns ==
    ASSUME Alone, NEW f \in flights, NEW g, Becomes(f, g), Quiet(f), FlightKeeps(g), Lasts(f)
    PROVE  Keeps
<1>1. Calls(f) /\ \A i \in Items : Untouched(i) /\ ItemKeeps(i)
  BY QuietCalls
<1> QED BY <1>1, CallTurns

\* The fields of what an errand goes on with.
Follows(f, g) ==
    /\ g.op = f.op /\ g.item = f.item /\ g.v = f.v /\ g.phase = f.phase /\ g.todo = f.todo
    /\ g.out = "wait"

LEMMA RequestFields ==
    ASSUME DataInv, FlightsInv, NEW f \in flights, NEW k \in FlightKinds, NEW c \in Int
    PROVE  /\ Follows(f, Turn(f, k)) /\ Turn(f, k).kind = k /\ Turn(f, k).cond = 0
           /\ Follows(f, [Turn(f, k) EXCEPT !.cond = c])
           /\ [Turn(f, k) EXCEPT !.cond = c].kind = k /\ [Turn(f, k) EXCEPT !.cond = c].cond = c
<1>1. PICK n, e, h : n = Len(edits) /\ e = Flight(k) /\ h = Turn(f, k)
  OBVIOUS
<1>2. n \in Nat /\ f \in FlightRec(n)
  BY <1>1, FlightFacts
<1>3. e \in FlightRec(n) /\ e.cond = 0
  BY <1>1, <1>2, FreshFlight DEF Flight
<1>4. h = [e EXCEPT !.op = f.op, !.play = f.play, !.phase = f.phase,
                    !.todo = f.todo, !.item = f.item, !.v = f.v]
  BY <1>1 DEF Turn
<1>5. /\ h \in FlightRec(n) /\ h.kind = k /\ h.op = f.op /\ h.item = f.item /\ h.v = f.v
      /\ h.phase = f.phase /\ h.todo = f.todo /\ h.out = "wait"
  BY <1>1, <1>2, TurnedFlight
<1>6. h.cond = 0
  BY <1>3, <1>4 DEF FlightRec
<1>7. PICK g : g = [h EXCEPT !.cond = c]
  OBVIOUS
<1>8. /\ g.kind = k /\ g.op = f.op /\ g.item = f.item /\ g.v = f.v /\ g.cond = c
      /\ g.phase = f.phase /\ g.todo = f.todo /\ g.out = "wait"
  BY <1>5, <1>7 DEF FlightRec
<1> QED BY <1>1, <1>5, <1>6, <1>7, <1>8 DEF Follows

LEMMA FlagFields ==
    ASSUME DataInv, FlightsInv, NEW f \in flights, NEW then \in Then
    PROVE  LET r == ReadFlag(Turn(f, "flag"), then) IN
           /\ r \in FlightRec(Len(edits)) /\ Follows(f, r) /\ r.kind = "flag" /\ r.then = then
<1>1. PICK n, t : n = Len(edits) /\ t = Turn(f, "flag")
  OBVIOUS
<1>2. n \in Nat /\ f \in FlightRec(n) /\ "flag" \in FlightKinds
  BY <1>1, FlightFacts DEF FlightKinds
<1>3. /\ t \in FlightRec(n) /\ t.kind = "flag" /\ t.op = f.op /\ t.item = f.item /\ t.v = f.v
      /\ t.phase = f.phase /\ t.todo = f.todo /\ t.out = "wait"
  BY <1>1, <1>2, TurnedFlight
<1>4. PICK r : r = ReadFlag(t, then)
  OBVIOUS
<1>5. /\ r \in FlightRec(n) /\ r.kind = "flag" /\ r.then = then /\ r.op = f.op
      /\ r.item = f.item /\ r.v = f.v /\ r.phase = f.phase /\ r.todo = f.todo
      /\ r.out = "wait"
  BY <1>2, <1>3, <1>4 DEF FlightRec, ReadFlag
<1> QED BY <1>1, <1>4, <1>5 DEF Follows

LEMMA RecacheFields ==
    ASSUME DataInv, FlightsInv, NEW f \in flights, NEW v \in Ver(Len(edits))
    PROVE  LET g == [ReadFlag(Turn(f, "flag"), "cache") EXCEPT !.v = v] IN
           /\ g.kind = "flag" /\ g.then = "cache" /\ g.v = v /\ g.op = f.op
           /\ g.item = f.item /\ g.out = "wait"
<1>1. PICK r, g : r = ReadFlag(Turn(f, "flag"), "cache") /\ g = [r EXCEPT !.v = v]
  OBVIOUS
<1>2. "cache" \in Then
  BY DEF Then
<1>3. r \in FlightRec(Len(edits)) /\ Follows(f, r) /\ r.kind = "flag" /\ r.then = "cache"
  BY <1>1, <1>2, FlagFields
<1>4. /\ g.kind = "flag" /\ g.then = "cache" /\ g.v = v /\ g.op = f.op
      /\ g.item = f.item /\ g.out = "wait"
  BY <1>1, <1>3 DEF FlightRec, Follows
<1> QED BY <1>1, <1>4

\* An errand goes on with another request.
LEMMA GoesOn ==
    ASSUME Alone, NEW f \in flights, NEW g, Follows(f, g), Quiet(f),
           Request(f) \/ (f.kind = "flag" /\ f.out = "ok" /\ f.flag = "none"),
           ~Recaching(f), Request(g), PutAlone(g)',
           g.kind = "put" => f.kind = "put" \/ (f.kind = "flag" /\ f.then = "modify"),
           KeptInv => told' = told,
           KeptInv /\ g.kind = "fetch" => Carried(g)',
           SameInv /\ g.kind = "fetch" => server[g.item].v = g.v /\ ~Erases(g)
    PROVE  FlightKeeps(g)
<1>1. FlightAlone(f) /\ DataInv /\ FlightsInv
  BY OnlyOne
<1>2. /\ g.op = f.op /\ g.item = f.item /\ g.v = f.v /\ g.phase = f.phase /\ g.todo = f.todo
      /\ g.out = "wait" /\ ~IsRead(g) /\ ~Recaching(g) /\ ~IsSync(g) /\ ~IsSync(f)
      /\ g.kind \notin {"flag", "pop", "list"}
  BY DEF Follows, Request, IsRead, Recaching, IsSync
<1>3. /\ UNCHANGED <<server, changes, row, info, stored, edits, offline>>
      /\ asked \subseteq asked'
  BY DEF Quiet, collection, cache
<1>4. f.kind = "flag" => f.op # 0 /\ (f.then = "modify" => Kind(f) # "delete")
  BY <1>1, FlightFacts DEF FlightAlone, EditAlone
<1>5. EditAlone(g)'
  BY <1>1, <1>2, <1>3, <1>4 DEF FlightAlone, EditAlone, Kind, Visible, Behind, Request, Marking
<1>6. PlayAlone(g)'
  BY <1>1, <1>2, <1>3, <1>4 DEF FlightAlone, PlayAlone, Request
<1>7. FlightAlone(g)'
  BY <1>2, <1>5, <1>6 DEF FlightAlone, ReadAlone, IsRead
<1>8. ASSUME CalmInv PROVE CalmFlight(g)'
  <2>1. CalmFlight(f)
    BY <1>8, OnlyOne
  <2> QED BY <1>2, <1>3, <1>4, <2>1 DEF CalmFlight, Kind, Request, IsRead
<1>9. ASSUME KeptInv PROVE KeptFlight(g)'
  <2>1. KeptFlight(f)
    BY <1>9, OnlyOne
  <2>2. ASSUME f.op = 0, ~offline PROVE PlayKept(g)'
    <3>1. PlayKept(f) /\ Request(f)
      BY <1>2, <1>4, <2>1, <2>2 DEF KeptFlight
    <3>2. /\ g.kind # "list" /\ f.kind # "list" 
          /\ \A i : Pending(f, i) => Pending(g, i)
      BY <1>2, <3>1 DEF Request, Pending
    <3> QED BY <1>2, <1>3, <3>1, <3>2 DEF PlayKept, PlaysModified, PlaysDeleted, Pending, Request
  <2> QED BY <1>2, <1>3, <1>9, <2>1, <2>2 DEF KeptFlight, Request
<1>10. ASSUME SameInv PROVE SameFlight(g)'
  BY <1>2, <1>3, <1>10 DEF SameFlight, Erases, Kind
<1> QED BY <1>7, <1>8, <1>9, <1>10 DEF FlightKeeps

-----------------------------------------------------------------------------
(* The callbacks that only go on with another request, and those that end.   *)

LEMMA DbReadKeeps ==
    ASSUME Alone, NEW f \in flights, DbRead(f)
    PROVE  Keeps
<1>1. f.kind = "flag" /\ f \in FlightRec(Len(edits)) /\ FlightAlone(f) /\ f.op # 0
  BY OnlyOne, FlightFacts DEF DbRead
<1>2. PICK g : g = [f EXCEPT !.flag = row[f.item].flag, !.out = "ok"]
  OBVIOUS
<1>3. /\ g.kind = "flag" /\ g.op = f.op /\ g.item = f.item /\ g.v = f.v /\ g.then = f.then
      /\ g.out = "ok" /\ g.flag = row[f.item].flag
  BY <1>1, <1>2 DEF FlightRec
<1>4. /\ Becomes(f, g) /\ told' = told /\ asked' = asked
      /\ UNCHANGED <<server, changes, row, info, stored, edits, offline>>
  BY <1>2 DEF DbRead, collection, cache, users, history
<1>5. Quiet(f) /\ Lasts(f)
  BY <1>3, <1>4 DEF DbRead, users, history, Quiet, Heard, Lasts, Becomes
<1>6. EditAlone(g)'
  BY <1>1, <1>3, <1>4 DEF FlightAlone, EditAlone, Kind, Visible, Behind, Request, Marking,
                          Recaching
<1>7. FlightAlone(g)'
  BY <1>1, <1>3, <1>6 DEF FlightAlone, ReadAlone, IsRead, PlayAlone, PutAlone
<1>8. ASSUME CalmInv PROVE CalmFlight(g)'
  BY <1>1, <1>3, <1>4, <1>8, OnlyOne DEF CalmFlight, Kind, IsRead
<1>9. ASSUME KeptInv PROVE KeptFlight(g)'
  BY <1>1, <1>3, <1>4, <1>9, OnlyOne DEF KeptFlight, Carried, Kind, Recaching, IsSync
<1>10. ASSUME SameInv PROVE SameFlight(g)'
  <2>1. SameFlight(f)
    BY <1>10, OnlyOne
  <2> QED BY <1>1, <1>3, <1>4, <2>1 DEF SameFlight, Recaching
<1>11. FlightKeeps(g)
  BY <1>7, <1>8, <1>9, <1>10 DEF FlightKeeps
<1> QED BY <1>4, <1>5, <1>11, QuietTurns

\* An edit goes on to be made offline.
LEMMA GoesOffline ==
    ASSUME Alone, NEW f \in flights, NEW g, Follows(f, g), Quiet(f), f.op # 0, ~Recaching(f),
           g.kind = "flag", KeptInv => told' = told,
           \/ g.then = "store" /\ Kind(f) = "modify"
           \/ g.then = "erase" /\ Kind(f) = "delete"
    PROVE  FlightKeeps(g)
<1>1. FlightAlone(f)
  BY OnlyOne
<1>2. /\ g.op = f.op /\ g.item = f.item /\ g.v = f.v /\ g.out = "wait"
      /\ ~IsRead(g) /\ ~Recaching(g) /\ ~IsSync(g) /\ ~Marking(g)
  BY DEF Follows, IsRead, Recaching, IsSync, Marking
<1>3. /\ UNCHANGED <<server, changes, row, info, stored, edits, offline>>
      /\ asked \subseteq asked'
  BY DEF Quiet, collection, cache
<1>4. EditAlone(g)'
  BY <1>1, <1>2, <1>3 DEF FlightAlone, EditAlone, Kind, Visible, Behind
<1>5. FlightAlone(g)'
  BY <1>2, <1>4 DEF FlightAlone, ReadAlone, PlayAlone, PutAlone
<1>6. ASSUME CalmInv PROVE CalmFlight(g)'
  BY <1>2, <1>3, <1>6, OnlyOne DEF CalmFlight, Kind
<1>7. ASSUME KeptInv PROVE KeptFlight(g)'
  BY <1>2, <1>3, <1>7, OnlyOne DEF KeptFlight
<1>8. SameFlight(g)'
  BY <1>2 DEF SameFlight
<1> QED BY <1>5, <1>6, <1>7, <1>8 DEF FlightKeeps

LEMMA FlagFacts ==
    ASSUME Alone, NEW f \in flights, NEW then, Is(f, then)
    PROVE  /\ f.kind = "flag" /\ f.then = then /\ f.out = "ok" /\ f.flag = row[f.item].flag
           /\ f.op # 0 /\ f.item \in Items /\ f.v \in Ver(Len(edits)) /\ f.v # 0
           /\ Kind(f) = IF then \in {"delete", "erase"} THEN "delete" ELSE "modify"
           /\ row[f.item].v # 0 /\ f.flag \in {"none", "created", "modified"}
           /\ ~IsSync(f) /\ ~Request(f) /\ f.kind \notin {"put", "del", "fetch", "list", "pop"}
<1>1. f.kind = "flag" /\ f.then = then /\ f.out # "wait" /\ FlightAlone(f) /\ DataInv /\ FlightsInv
  BY OnlyOne DEF Is, Ready
<1>2. f.op # 0 /\ f.item \in Items /\ f.v \in Ver(Len(edits)) /\ f.v # 0
  BY <1>1, FlightFacts DEF Ver
<1>3. /\ f.out = "ok" /\ f.flag = row[f.item].flag /\ Visible(f.item)
      /\ Kind(f) = IF then \in {"delete", "erase"} THEN "delete" ELSE "modify"
  BY <1>1, <1>2 DEF FlightAlone, EditAlone
<1>4. row[f.item].flag \in Flags
  BY <1>2, ItemFacts
<1> QED BY <1>1, <1>2, <1>3, <1>4 DEF Visible, Flags, IsSync, Request

LEMMA EditKeeps ==
    ASSUME Alone, NEW f \in flights, EditOffline(f) \/ EditOnline(f) \/ EditThrows(f)
    PROVE  Keeps
<1>1. PICK then \in {"modify", "delete"} : Is(f, then)
  BY DEF EditOffline, EditOnline, EditThrows, Onto
<1>2. /\ f.kind = "flag" /\ f.then = then /\ f.out = "ok" /\ f.flag = row[f.item].flag
      /\ f.op # 0 /\ f.item \in Items
      /\ Kind(f) = (IF then = "delete" THEN "delete" ELSE "modify")
      /\ row[f.item].v # 0 /\ f.flag \in {"none", "created", "modified"}
  BY <1>1, FlagFacts
<1>3. /\ ~Recaching(f) /\ Lasts(f) /\ ~Request(f) /\ DataInv /\ FlightsInv
  BY <1>1, <1>2, OnlyOne DEF Recaching, Marking, Lasts, Request
<1>4. Quiet(f) /\ told' = told /\ UNCHANGED <<row, info, asked>>
  BY DEF EditOffline, EditOnline, EditThrows, Quiet, Heard, users, history, cache
<1>5. CASE EditThrows(f)
  BY <1>3, <1>4, <1>5, QuietEnds DEF EditThrows
<1>6. CASE EditOffline(f)
  <2>1. PICK th \in {"store", "erase"} : /\ Becomes(f, ReadFlag(Turn(f, "flag"), th))
                                         /\ th = IF then = "modify" THEN "store" ELSE "erase"
    BY <1>2, <1>6 DEF EditOffline, Is
  <2>2. PICK g : g = ReadFlag(Turn(f, "flag"), th)
    OBVIOUS
  <2>3. th \in Then
    BY DEF Then
  <2>4. Follows(f, g) /\ g.kind = "flag" /\ g.then = th
    BY <1>3, <2>2, <2>3, FlagFields
  <2>5. FlightKeeps(g)
    BY <1>2, <1>3, <1>4, <2>1, <2>4, GoesOffline
  <2> QED BY <1>3, <1>4, <2>1, <2>2, <2>5, QuietTurns
<1>7. CASE EditOnline(f)
  <2>1. PICK k \in {"put", "del"} : /\ Becomes(f, [Turn(f, k) EXCEPT !.cond = info[f.item]])
                                    /\ k = IF then = "modify" THEN "put" ELSE "del"
    BY <1>2, <1>7 DEF EditOnline, Onto, Is
  <2>2. PICK c, g : c = info[f.item] /\ g = [Turn(f, k) EXCEPT !.cond = c]
    OBVIOUS
  <2>3. f.flag = "none"
    BY <1>2, <1>7 DEF EditOnline, Offline
  <2>4. info[f.item] > 0 /\ info[f.item] \in Int
    BY <1>2, <2>3, KnownEtag
  <2>5. k \in FlightKinds /\ c > 0 /\ c \in Int
    BY <2>2, <2>4 DEF FlightKinds
  <2>6. Follows(f, g) /\ g.kind = k /\ g.cond = c
    BY <1>3, <2>2, <2>5, RequestFields
  <2>7. PutAlone(g)'
    BY <1>2, <1>4, <1>7, <2>1, <2>2, <2>5, <2>6 DEF PutAlone, Follows, Kind, EditOnline, users
  <2>8. Request(g) /\ g.kind # "fetch"
    BY <2>6 DEF Request
  <2>9. g.kind = "put" => f.then = "modify"
    BY <1>2, <2>1, <2>6
  <2>10. FlightKeeps(g)
    BY <1>2, <1>3, <1>4, <2>3, <2>6, <2>7, <2>8, <2>9, GoesOn
  <2> QED BY <1>3, <1>4, <2>1, <2>2, <2>10, QuietTurns
<1> QED BY <1>5, <1>6, <1>7

-----------------------------------------------------------------------------
(* The listener's answers: opListener goes on with the playback's next item, *)
(* cacheListener ends the edit or makes it offline.                          *)

LEMMA PopGoesOn ==
    ASSUME Alone, NEW f \in flights, Request(f), f.op = 0, NEW g, Follows(f, g), g.kind = "pop",
           Calls(f), \A i \in Items : i = f.item \/ Untouched(i),
           KeptInv /\ ~offline /\ f.item \notin asked' => Settled(f.item)'
    PROVE  FlightKeeps(g)
<1>1. FlightAlone(f) /\ f \in FlightRec(Len(edits)) /\ ~IsSync(f) /\ f.kind # "list"
  BY OnlyOne, FlightFacts DEF Request, IsSync
<1>2. /\ g.op = 0 /\ g.phase = f.phase /\ g.todo = f.todo /\ ~IsRead(g) /\ ~Recaching(g)
      /\ ~IsSync(g) /\ ~Request(g) /\ g.kind # "list" /\ g.out = "wait"
  BY DEF Follows, IsRead, Recaching, IsSync, Request
<1>3. UNCHANGED <<server, stored, edits, offline>> /\ asked \subseteq asked'
  BY DEF Calls
<1>4. \A t \in f.todo : t.item \in Items /\ t.item # f.item
  BY <1>1 DEF FlightAlone, PlayAlone, FlightRec, Request
<1>5. PlayAlone(g)'
  BY <1>1, <1>2, <1>4 DEF FlightAlone, PlayAlone, Untouched
<1>6. FlightAlone(g)'
  BY <1>2, <1>5 DEF FlightAlone, ReadAlone, EditAlone, PutAlone
<1>7. ASSUME CalmInv PROVE CalmFlight(g)'
  BY <1>1, <1>2, <1>7, OnlyOne DEF CalmFlight, Request
<1>8. ASSUME KeptInv PROVE KeptFlight(g)'
  <2>1. ASSUME ~offline PROVE PlayKept(g)'
    <3>1. PlayKept(f)
      BY <1>1, <1>8, <2>1, OnlyOne DEF KeptFlight
    <3>2. ASSUME NEW i \in Items \ asked'
          PROVE  /\ (row[i].flag = "modified")' /\ PlaysModified(g) =>
                       (row[i].v \in stored)' \/ Pending(g, i)
                 /\ (row[i].flag = "deleted")' /\ PlaysDeleted(g) =>
                       (server[i].v = 0)' \/ Pending(g, i)
      <4>1. CASE i = f.item
        BY <1>8, <2>1, <3>2, <4>1 DEF Settled
      <4>2. CASE i # f.item
        <5>1. Untouched(i) /\ (Pending(f, i) => Pending(g, i))
          BY <1>2, <3>2, <4>2 DEF Pending
        <5>2. /\ PlaysModified(g) => PlaysModified(f)
              /\ PlaysDeleted(g) => PlaysDeleted(f)
          BY <1>1, <1>2 DEF PlaysModified, PlaysDeleted
        <5> QED BY <1>3, <3>1, <3>2, <5>1, <5>2 DEF PlayKept, Untouched
      <4> QED BY <4>1, <4>2
    <3> QED BY <1>3, <3>2 DEF PlayKept, PlaysModified, PlaysDeleted, Pending, Request
  <2> QED BY <1>2, <1>3, <2>1 DEF KeptFlight
<1>9. SameFlight(g)'
  BY <1>2 DEF SameFlight
<1> QED BY <1>6, <1>7, <1>8, <1>9 DEF FlightKeeps

LEMMA PopFields ==
    ASSUME DataInv, FlightsInv, NEW f \in flights
    PROVE  Follows(f, Turn(f, "pop")) /\ Turn(f, "pop").kind = "pop"
<1>1. "pop" \in FlightKinds /\ 0 \in Int
  BY DEF FlightKinds
<1> QED BY <1>1, RequestFields

\* An errand that has failed.
StaysBut(f) == UNCHANGED <<collection, token, info, offline, edits, left, history>>

LEMMA FailedKeeps ==
    ASSUME Alone, NEW f \in flights, f.kind \in {"put", "del", "fetch"}, Failed(f), StaysBut(f),
           KeptInv /\ f.op = 0 /\ ~offline /\ f.item \notin asked => Settled(f.item)
    PROVE  Keeps
<1>1. Request(f) /\ Lasts(f) /\ DataInv /\ FlightsInv /\ row' = row /\ meta' = meta
  BY OnlyOne DEF Request, Lasts, Marking, Recaching, Failed
<1>2. CASE f.op # 0
  <2>1. Done(f) /\ Tell(f, "failed") /\ Tells(f)
    BY <1>2 DEF Failed, Tells
  <2>2. Heard(f) /\ told'[f.op] = "failed"
    BY <1>1, <1>2, <2>1, TellsHeard, ToldNow, OwnEdit
  <2>3. Quiet(f)
    BY <1>1, <2>2 DEF Quiet, StaysBut, cache, history
  <2> QED BY <1>1, <2>1, <2>3, QuietEnds
<1>3. CASE f.op = 0
  <2>1. PICK g : g = Turn(f, "pop")
    OBVIOUS
  <2>2. Becomes(f, g) /\ told' = told
    BY <1>3, <2>1 DEF Failed, PopNext
  <2>3. Follows(f, g) /\ g.kind = "pop"
    BY <1>1, <2>1, PopFields
  <2>4. Quiet(f)
    BY <1>1, <1>3, <2>2 DEF Quiet, StaysBut, cache, history, Heard
  <2>5. Calls(f) /\ \A i \in Items : Untouched(i)
    BY <1>1, <2>4, QuietCalls
  <2>6. KeptInv /\ ~offline /\ f.item \notin asked' => Settled(f.item)'
    BY <1>1, <1>3 DEF StaysBut, collection, history, Settled
  <2>7. FlightKeeps(g)
    BY <1>1, <1>3, <2>3, <2>5, <2>6, PopGoesOn
  <2> QED BY <1>1, <2>2, <2>4, <2>7, QuietTurns
<1> QED BY <1>2, <1>3

\* What a request that was refused, or has got no answer, says of an item of the journal.
LEMMA PlayedBack ==
    ASSUME Alone, NEW f \in flights, KeptInv, f.op = 0, ~offline, f.item \notin asked,
           \/ f.kind = "put" /\ f.out = "error"
           \/ f.kind = "put" /\ f.cond = Unknown
           \/ f.kind \in {"put", "del", "head", "fetch"} /\ f.out \in {"unavailable", "error"}
    PROVE  Settled(f.item)
<1>1. /\ FlightAlone(f) /\ KeptFlight(f) /\ CalmFlight(f) /\ DataInv /\ FlightsInv
      /\ Request(f) /\ ~IsSync(f) /\ f.kind \notin {"list", "pop"}
  BY OnlyOne DEF Request, IsSync
<1>2. row[f.item].v = f.v /\ row[f.item].flag = f.phase /\ f.phase # "created"
  BY <1>1 DEF FlightAlone, PlayAlone, CalmFlight
<1>3. CASE f.kind = "put" /\ f.cond = Unknown
  BY <1>1, <1>2, <1>3 DEF FlightAlone, PutAlone, Unknown
<1>4. CASE f.kind \in {"put", "fetch"} /\ f.out = "unavailable"
  <2>1. f.v \in stored /\ f.phase = "modified"
    BY <1>1, <1>4 DEF KeptFlight, Carried
  <2> QED BY <1>2, <2>1 DEF Settled
<1>5. CASE f.kind \in {"del", "head"} /\ f.out = "unavailable"
  <2>1. f.phase = "deleted"
    BY <1>1, <1>5, FlightFacts DEF Erases
  <2>2. server[f.item].v = 0
    BY <1>1, <1>5 DEF KeptFlight
  <2> QED BY <1>2, <2>1, <2>2 DEF Settled
<1> QED BY <1>1, <1>3, <1>4, <1>5 DEF KeptFlight

\* The server cannot be reached.
LEMMA UnavailableKeeps ==
    ASSUME Alone, NEW f \in flights, f.kind \in {"put", "del", "head"}, f.out = "unavailable",
           Unavailable(f), StaysBut(f)
    PROVE  Keeps
<1>1. /\ Request(f) /\ Lasts(f) /\ DataInv /\ FlightsInv /\ meta' = meta /\ FlightAlone(f)
      /\ f.item \in Items /\ f.v \in Ver(Len(edits)) /\ f.v # 0
  BY OnlyOne, FlightFacts DEF Request, Lasts, Marking, Recaching, Unavailable, Ver
<1>2. CASE f.op # 0 /\ Kind(f) = "add"
  <2>1. Done(f) /\ Tell(f, "ok") /\ row' = [row EXCEPT ![f.item] = [v |-> f.v, flag |-> "created"]]
    BY <1>2 DEF Unavailable
  <2>2. Calls(f)
    BY <1>1, <2>1, TellsHeard DEF Calls, LeftStays, StaysBut, Tells, collection, history
  <2>3. /\ row'[f.item] = [v |-> f.v, flag |-> "created"]
        /\ \A i \in Items : i # f.item => Untouched(i)
    BY <1>1, <2>1 DEF DataInv, RowsOk, StaysBut, Untouched
  <2>4. f.v > 0 /\ edits[f.v].item = f.item
    BY <1>1, <1>2, OwnEdit DEF FlightAlone, EditAlone, Recaching, Request
  <2>5. ItemAlone(f.item)'
    BY <1>1, <2>3, <2>4, ItemFacts DEF ItemAlone, StaysBut, collection, history
  <2>6. ~CalmInv
    BY <1>2, OnlyOne DEF CalmFlight
  <2>7. ItemKeeps(f.item)
    BY <2>5, <2>6 DEF ItemKeeps, KeptInv, SameInv
  <2> QED BY <1>1, <2>1, <2>2, <2>3, <2>7, CallEnds
<1>3. CASE f.op # 0 /\ Kind(f) # "add"
  <2>1. PICK th \in {"store", "erase"} : /\ Becomes(f, ReadFlag(Turn(f, "flag"), th))
                                         /\ th = IF Kind(f) = "modify" THEN "store" ELSE "erase"
    BY <1>3 DEF Unavailable
  <2>2. Kind(f) \in {"modify", "delete"}
    <3>1. f.op \in 1..Len(edits)
      BY <1>3, OwnEdit
    <3>2. edits[f.op] \in [kind : Kinds, item : Items, base : Int]
      BY <1>1, <3>1, ElementOfSeq DEF DataInv
    <3> QED BY <1>3, <3>2, ConstantsAssumption DEF Kind
  <2>3. PICK g : g = ReadFlag(Turn(f, "flag"), th)
    OBVIOUS
  <2>4. th \in Then
    BY DEF Then
  <2>5. Follows(f, g) /\ g.kind = "flag" /\ g.then = th
    BY <1>1, <2>3, <2>4, FlagFields
  <2>6. row' = row /\ told' = told /\ ~Recaching(f)
    BY <1>3 DEF Unavailable, Recaching
  <2>7. Quiet(f)
    BY <1>1, <2>6 DEF Quiet, StaysBut, cache, history, Heard
  <2>8. FlightKeeps(g)
    BY <1>3, <2>1, <2>2, <2>5, <2>6, <2>7, GoesOffline
  <2> QED BY <1>1, <2>1, <2>3, <2>7, <2>8, QuietTurns
<1>4. CASE f.op = 0
  <2>1. PICK g : g = Turn(f, "pop")
    OBVIOUS
  <2>2. Becomes(f, g) /\ told' = told /\ row' = row
    BY <1>4, <2>1 DEF Unavailable, PopNext
  <2>3. Follows(f, g) /\ g.kind = "pop"
    BY <1>1, <2>1, PopFields
  <2>4. Quiet(f)
    BY <1>1, <1>4, <2>2 DEF Quiet, StaysBut, cache, history, Heard
  <2>5. Calls(f) /\ \A i \in Items : Untouched(i)
    BY <1>1, <2>4, QuietCalls
  <2>6. KeptInv /\ ~offline /\ f.item \notin asked' => Settled(f.item)'
    BY <1>4, <2>2, PlayedBack DEF StaysBut, collection, history, Settled
  <2>7. FlightKeeps(g)
    BY <1>1, <1>4, <2>3, <2>5, <2>6, PopGoesOn
  <2> QED BY <1>1, <2>2, <2>4, <2>7, QuietTurns
<1> QED BY <1>2, <1>3, <1>4

LEMMA PromptKeeps ==
    ASSUME Alone, NEW f \in flights, NEW k \in {"put", "del"}, Prompt(f, k), Request(f),
           k = "put" => f.kind = "put",
           UNCHANGED <<collection, cache, info, offline, edits, told, left, stored>>
    PROVE  Keeps
<1>1. /\ DataInv /\ FlightsInv /\ FlightAlone(f) /\ ~Recaching(f) /\ Lasts(f)
      /\ k \in FlightKinds /\ "fetch" \in FlightKinds
  BY OnlyOne DEF Request, Recaching, Marking, Lasts, FlightKinds
<1>2. Quiet(f) /\ f.item \in asked'
  BY DEF Prompt, Quiet, Heard
<1>3. CASE Becomes(f, [Turn(f, k) EXCEPT !.cond = NoEtag])
  <2>1. PICK c, g : c = NoEtag /\ g = [Turn(f, k) EXCEPT !.cond = c]
    OBVIOUS
  <2>2. c \in Int /\ c # Unknown
    BY <2>1 DEF NoEtag, Unknown
  <2>3. Follows(f, g) /\ g.kind = k /\ g.cond = c
    BY <1>1, <2>1, <2>2, RequestFields
  <2>4. Request(g) /\ g.kind # "fetch"
    BY <2>3 DEF Request
  <2>5. PutAlone(g)'
    BY <1>2, <2>2, <2>3 DEF PutAlone, Follows
  <2>6. FlightKeeps(g)
    BY <1>1, <1>2, <2>3, <2>4, <2>5, GoesOn
  <2> QED BY <1>1, <1>2, <1>3, <2>1, <2>6, QuietTurns
<1>4. CASE FALSE \in Overwrite /\ Becomes(f, Turn(f, "fetch"))
  <2>1. PICK g : g = Turn(f, "fetch")
    OBVIOUS
  <2>2. 0 \in Int
    OBVIOUS
  <2>3. Follows(f, g) /\ g.kind = "fetch"
    BY <1>1, <2>1, <2>2, RequestFields
  <2>4. Request(g) /\ g.kind # "put"
    BY <2>3 DEF Request
  <2>5. PutAlone(g)'
    BY <2>4 DEF PutAlone
  <2>6. Carried(g)'
    BY <1>2, <2>3 DEF Carried, Follows
  <2>7. ~SameInv
    BY <1>4 DEF SameInv
  <2>8. FlightKeeps(g)
    BY <1>1, <1>2, <2>3, <2>4, <2>5, <2>6, <2>7, GoesOn
  <2> QED BY <1>1, <1>2, <1>4, <2>1, <2>8, QuietTurns
<1> QED BY <1>3, <1>4 DEF Prompt

LEMMA PutKeeps ==
    ASSUME Alone, NEW f \in flights, PutDone(f) \/ PutConflicts(f)
    PROVE  Keeps
<1>1. f.kind = "put" /\ Request(f) /\ DataInv /\ FlightsInv /\ FlightAlone(f)
  BY OnlyOne DEF PutDone, PutConflicts, Ready, Request
<1>2. CASE PutConflicts(f)
  BY <1>1, <1>2, PromptKeeps DEF PutConflicts, users
<1>3. CASE PutDone(f)
  <2>1. /\ f.out = "ok" \/ meta' = meta
        /\ UNCHANGED <<collection, token, info, offline, edits, left, history>>
    BY <1>3 DEF PutDone, Unavailable, Failed
  <2>2. CASE f.out = "ok" /\ Becomes(f, Turn(f, "fetch")) /\ UNCHANGED <<row, meta, told>>
    <3>1. PICK g : g = Turn(f, "fetch")
      OBVIOUS
    <3>2. "fetch" \in FlightKinds /\ 0 \in Int
      BY DEF FlightKinds
    <3>3. Follows(f, g) /\ g.kind = "fetch"
      BY <1>1, <3>1, <3>2, RequestFields
    <3>4. Request(g) /\ PutAlone(g)' /\ ~Recaching(f) /\ Lasts(f)
      BY <1>1, <3>3 DEF Request, PutAlone, Recaching, Marking, Lasts
    <3>5. Quiet(f)
      BY <2>1, <2>2 DEF Quiet, Heard, cache, history
    <3>6. ASSUME KeptInv PROVE Carried(g)'
      <4>1. Carried(f)
        BY <1>1, <2>2, <3>6, OnlyOne DEF KeptFlight
      <4> QED BY <2>1, <3>3, <4>1 DEF Carried, Follows, Kind, history
    <3>7. ASSUME SameInv PROVE server[g.item].v = g.v /\ ~Erases(g)
      <4>1. f.op # 0 => Kind(f) # "delete"
        BY <1>1 DEF FlightAlone, EditAlone
      <4>2. f.op = 0 => f.phase # "deleted"
        BY <1>1 DEF FlightAlone, PlayAlone, IsSync
      <4>3. server[f.item].v = f.v
        BY <1>1, <2>2, <3>7, OnlyOne DEF SameFlight
      <4> QED BY <3>3, <4>1, <4>2, <4>3 DEF Erases, Follows, Kind
    <3>8. FlightKeeps(g)
      BY <1>1, <2>2, <3>3, <3>4, <3>5, <3>6, <3>7, GoesOn
    <3> QED BY <2>2, <3>1, <3>4, <3>5, <3>8, QuietTurns
  <2>3. CASE f.out = "unavailable" /\ Unavailable(f)
    BY <1>1, <2>1, <2>3, UnavailableKeeps DEF StaysBut
  <2>4. CASE (f.out = "error" \/ f.cond = Unknown) /\ Failed(f)
    <3>1. KeptInv /\ f.op = 0 /\ ~offline /\ f.item \notin asked => Settled(f.item)
      BY <1>1, <2>4, PlayedBack
    <3> QED BY <1>1, <2>1, <2>4, <3>1, FailedKeeps DEF StaysBut, Failed
  <2> QED BY <1>3, <2>2, <2>3, <2>4 DEF PutDone
<1> QED BY <1>2, <1>3

LEMMA DeleteConflictsKeeps ==
    ASSUME Alone, NEW f \in flights, DeleteConflicts(f)
    PROVE  Keeps
<1>1. /\ f.kind = "del" /\ Request(f) /\ DataInv /\ FlightsInv /\ Lasts(f) /\ ~Recaching(f)
      /\ "head" \in FlightKinds /\ 0 \in Int
  BY OnlyOne DEF DeleteConflicts, Ready, Request, Lasts, Marking, Recaching, FlightKinds
<1>2. PICK g : g = Turn(f, "head")
  OBVIOUS
<1>3. Follows(f, g) /\ g.kind = "head"
  BY <1>1, <1>2, RequestFields
<1>4. Quiet(f) /\ told' = told
  BY DEF DeleteConflicts, Quiet, Heard, users, history
<1>5. Request(g) /\ PutAlone(g)'
  BY <1>3 DEF Request, PutAlone
<1>6. FlightKeeps(g)
  BY <1>1, <1>3, <1>4, <1>5, GoesOn
<1> QED BY <1>1, <1>2, <1>4, <1>6, QuietTurns DEF DeleteConflicts

LEMMA NobodyIsTold ==
    ASSUME Alone, NEW f \in flights, FetchUnchanged(f) \/ SyncFailed(f)
    PROVE  Keeps
<1>1. Quiet(f) /\ Lasts(f) /\ Done(f)
  BY DEF FetchUnchanged, SyncFailed, Ready, Quiet, Heard, Lasts, Marking, Recaching, users,
         history
<1> QED BY <1>1, QuietEnds

\* An item is removed from the cache after it has been removed from the server.
LEMMA ErasedKeeps ==
    ASSUME Alone, NEW f \in flights, Request(f), Erases(f), NEW v, NEW m, Succeeded(f, v, m),
           \A i \in Items \ {f.item} : m[i] = meta[i] /\ info'[i] = info[i], m \in [Items -> Int],
           info'[f.item] <= changes, info' \in [Items -> Int],
           UNCHANGED <<collection, token, offline, edits, left, history>>,
           KeptInv /\ f.item \notin asked => server[f.item].v = 0,
           SameInv => server[f.item].v = 0
    PROVE  Keeps
<1>1. /\ FlightAlone(f) /\ DataInv /\ FlightsInv /\ f.item \in Items
      /\ ~IsSync(f) /\ f.kind \notin {"list", "pop", "flag"}
  BY OnlyOne, FlightFacts DEF Request, IsSync
<1>2. row' = [row EXCEPT ![f.item] = NoRow] /\ meta' = [m EXCEPT ![f.item] = Unknown]
  BY DEF Succeeded
<1>3. /\ row'[f.item] = NoRow /\ row'[f.item].v = 0 /\ row'[f.item].flag = "none"
      /\ \A i \in Items : i # f.item => Untouched(i)
  BY <1>1, <1>2 DEF DataInv, RowsOk, Untouched, NoRow
<1>4. /\ UNCHANGED <<server, changes, stored, asked, edits>>
  BY DEF collection, history
<1>5. \/ f.op # 0 /\ Done(f) /\ Tell(f, "ok")
      \/ f.op = 0 /\ PopNext(f) /\ told' = told
  BY DEF Succeeded
<1>6. Calls(f)
  BY <1>1, <1>4, <1>5, TellsHeard DEF Calls, LeftStays, Tells, Heard
<1>7. ItemAlone(f.item)'
  BY <1>1, <1>3, <1>4, ItemFacts DEF ItemAlone
<1>8. CalmItem(f.item)'
  BY <1>3 DEF CalmItem
<1>9. ASSUME KeptInv PROVE KeptItem(f.item)' /\ KeptStep(f.item)
  <2>1. KeptItem(f.item) /\ ItemAlone(f.item)
    BY <1>1, <1>9, ItemFacts
  <2>2. Newest(f.item)' = Newest(f.item) /\ NewestOk(f.item)' = NewestOk(f.item)
    BY <1>4, SameNewest
  <2>3. ~Visible(f.item)'
    BY <1>3 DEF Visible
  <2>4. ASSUME f.item \notin asked PROVE NewestKept(f.item)'
    <3>1. PICK e : e = Newest(f.item)
      OBVIOUS
    <3>2. CASE f.op # 0
      <4>1. e = f.op /\ Kind(f) = "delete"
        BY <3>1, <3>2, OwnEdit DEF Erases
      <4> QED BY <1>4, <2>2, <2>3, <3>1, <4>1 DEF NewestKept, Kind
    <3>3. CASE f.op = 0
      <4>1. row[f.item].flag = "deleted"
        BY <1>1, <3>3 DEF Erases, FlightAlone, PlayAlone
      <4>2. told' = told /\ NewestKept(f.item)
        BY <1>5, <2>1, <2>4, <3>3 DEF KeptItem
      <4> QED BY <1>4, <2>2, <2>3, <4>1, <4>2 DEF NewestKept
    <3> QED BY <3>2, <3>3
  <2>5. KeptItem(f.item)'
    BY <1>3, <1>4, <1>9, <2>1, <2>2, <2>4 DEF KeptItem
  <2>6. KeptStep(f.item)
    <3>1. CASE f.op # 0
      <4>1. row[f.item].flag = "none"
        BY <1>1, <3>1 DEF FlightAlone, EditAlone, Erases
      <4> QED BY <4>1 DEF KeptStep
    <3>2. CASE f.op = 0
      <4>1. row[f.item].flag = "deleted"
        BY <1>1, <3>2 DEF Erases, FlightAlone, PlayAlone
      <4>2. row[f.item].v # 0
        BY <1>1, <4>1, ItemFacts
      <4> QED BY <1>9, <2>1, <4>1, <4>2 DEF KeptStep, KeptItem
    <3> QED BY <3>1, <3>2
  <2> QED BY <2>5, <2>6
<1>10. ASSUME SameInv PROVE SameItem(f.item)'
  BY <1>4, <1>10 DEF SameItem
<1>11. ItemKeeps(f.item)
  BY <1>7, <1>8, <1>9, <1>10 DEF ItemKeeps
<1>12. CASE f.op # 0
  BY <1>3, <1>5, <1>6, <1>11, <1>12, CallEnds
<1>13. CASE f.op = 0
  <2>1. PICK g : g = Turn(f, "pop")
    OBVIOUS
  <2>2. Becomes(f, g) /\ Follows(f, g) /\ g.kind = "pop"
    BY <1>1, <1>5, <1>13, <2>1, PopFields DEF PopNext
  <2>3. Settled(f.item)'
    BY <1>3 DEF Settled
  <2>4. FlightKeeps(g)
    BY <1>3, <1>6, <1>13, <2>2, <2>3, PopGoesOn
  <2> QED BY <1>3, <1>6, <1>11, <2>2, <2>4, CallTurns
<1> QED BY <1>12, <1>13

LEMMA DeleteKeeps ==
    ASSUME Alone, NEW f \in flights, DeleteDone(f) \/ HeadDone(f)
    PROVE  Keeps
<1>1. /\ f.kind \in {"del", "head"} /\ Request(f) /\ Erases(f) /\ f.item \in Items
      /\ DataInv /\ FlightsInv /\ FlightAlone(f)
  BY OnlyOne, FlightFacts DEF DeleteDone, HeadDone, Ready, Request
<1>2. UNCHANGED <<collection, token, offline, edits, left, stored>>
  BY DEF DeleteDone, HeadDone, history
<1>3. meta \in [Items -> Int] /\ info \in [Items -> Int]
  BY <1>1 DEF DataInv
<1>4. CASE Succeeded(f, 0, meta) /\ asked' = asked /\ (f.kind = "del" \/ f.data[f.item].v = 0)
             /\ f.out = "ok" /\ (info' = info \/ info' = [info EXCEPT ![f.item] = Unknown])
  <2>1. /\ info' \in [Items -> Int] /\ info'[f.item] <= changes
        /\ \A i \in Items \ {f.item} : info'[i] = info[i]
    <3>1. info[f.item] <= changes /\ changes \in Nat
      BY <1>1, ItemFacts DEF ItemAlone
    <3> QED BY <1>1, <1>3, <1>4, <3>1 DEF Unknown
  <2>2. CalmInv => server[f.item].v = 0
    BY <1>1, <1>4, OnlyOne DEF CalmFlight, IsRead
  <2> QED BY <1>1, <1>2, <1>3, <1>4, <2>1, <2>2, ErasedKeeps DEF KeptInv, SameInv, history
<1>5. CASE f.out = "unavailable" /\ Unavailable(f) /\ UNCHANGED <<info, asked>>
  BY <1>1, <1>2, <1>5, UnavailableKeeps DEF StaysBut, Unavailable, history
<1>6. CASE f.kind = "del" /\ f.out = "error" /\ Failed(f) /\ UNCHANGED <<info, asked>>
  <2>1. KeptInv /\ f.op = 0 /\ ~offline /\ f.item \notin asked => Settled(f.item)
    BY <1>6, PlayedBack
  <2> QED BY <1>2, <1>6, <2>1, FailedKeeps DEF StaysBut, Failed, history
<1>7. CASE Prompt(f, "del") /\ HeadDone(f) /\ UNCHANGED <<row, meta, told>>
  BY <1>1, <1>2, <1>7, PromptKeeps DEF HeadDone, cache, history
<1>8. CASE DeleteDone(f)
  BY <1>4, <1>5, <1>6, <1>8 DEF DeleteDone, Ready, history
<1>9. CASE HeadDone(f)
  BY <1>4, <1>5, <1>7, <1>9 DEF HeadDone
<1> QED BY <1>8, <1>9

-----------------------------------------------------------------------------
(* The cache's own callbacks.                                                *)

LEMMA RowIs ==
    ASSUME DataInv, NEW i \in Items, NEW r, row' = [row EXCEPT ![i] = r]
    PROVE  row'[i] = r /\ \A j \in Items : j # i => row'[j] = row[j]
BY DEF DataInv, RowsOk

LEMMA FlagIs ==
    ASSUME DataInv, NEW i \in Items, NEW fl, row[i].v # 0, row' = SetFlag(i, fl)
    PROVE  /\ row'[i].v = row[i].v /\ row'[i].flag = fl
           /\ \A j \in Items : j # i => row'[j] = row[j]
BY DEF DataInv, RowsOk, SetFlag

\* The row of an edit's item, when its errand changes that row only.
RowOnly(f) ==
    /\ UNCHANGED <<server, changes, stored, asked, edits, offline, left, info, meta>>
    /\ \A i \in Items : i # f.item => row'[i] = row[i]
    /\ Heard(f)

LEMMA EditsRow ==
    ASSUME Alone, NEW f \in flights, RowOnly(f), f.kind = "flag", f.out = "ok",
           f.then \in {"store", "cache", "mark", "erase"},
           row'[f.item].v = (IF f.then \in {"store", "cache"} THEN f.v ELSE row[f.item].v),
           row'[f.item].flag = (IF f.then \in {"store", "cache"} THEN f.flag
                                ELSE IF f.then = "erase" THEN "deleted"
                                ELSE IF f.flag = "created" THEN "created" ELSE "modified"),
           f.then = "erase" => f.flag # "created",
           f.then = "store" => told' = told /\ \E g \in flights' : g.item = f.item /\ Marking(g)
    PROVE  ItemKeeps(f.item)
<1>1. PICK i, e : i = f.item /\ e = f.op
  OBVIOUS
<1>2. /\ FlightAlone(f) /\ f.flag = row[i].flag /\ e # 0 /\ i \in Items /\ f.v \in Int /\ f.v # 0
      /\ Kind(f) = (IF f.then = "erase" THEN "delete" ELSE "modify")
      /\ row[i].v # 0 /\ f.flag \in {"none", "created", "modified"} /\ Visible(i)
  <2>1. Is(f, f.then) => /\ f.flag = row[f.item].flag /\ f.op # 0 /\ f.item \in Items
                         /\ f.v \in Ver(Len(edits)) /\ f.v # 0
                         /\ Kind(f) = (IF f.then = "erase" THEN "delete" ELSE "modify")
                         /\ row[f.item].v # 0 /\ f.flag \in {"none", "created", "modified"}
    BY FlagFacts
  <2>2. Is(f, f.then)
    BY OnlyOne DEF Is, Ready, Free
  <2> QED BY <1>1, <2>1, <2>2, OnlyOne DEF Ver, Visible
<1>3. /\ UNCHANGED <<server, changes, stored, asked, edits>>
      /\ meta'[i] = meta[i] /\ info'[i] = info[i]
  BY DEF RowOnly
<1>4. e = Newest(i) /\ e \in 1..Len(edits) /\ e \in Int /\ edits[e].kind = Kind(f)
  <2>1. DataInv
    BY OnlyOne
  <2> QED BY <1>1, <1>2, <2>1, OwnEdit, EditCount DEF Kind
<1>5. /\ f.then # "cache" => f.v = e
      /\ f.then = "mark" => row[i].v = e
      /\ f.then = "cache" => f.flag = "none"
  BY <1>1, <1>2 DEF FlightAlone, EditAlone, Recaching, Marking
<1>6. /\ f.then # "erase" /\ f.then # "cache" => row'[i].v = e
      /\ row'[i].v # 0 /\ row'[i].flag \in {"none", "created", "modified", "deleted"}
      /\ row'[i].flag = "created" <=> row[i].flag = "created"
      /\ row'[i].flag = "modified" =>
           f.then \in {"store", "mark"} \/ (row[i].flag = "modified" /\ row'[i].v = row[i].v)
      /\ row'[i].flag = "none" => row[i].flag = "none"
      /\ row'[i].flag = "deleted" <=> f.then = "erase"
  BY <1>1, <1>2, <1>5
<1>7. ItemAlone(i)'
  <2>1. ItemAlone(i)
    BY <1>2, ItemFacts
  <2>2. e > 0
    BY <1>4
  <2>3. i \notin asked /\ e \in stored /\ f.then \in {"store", "mark"} => Behind(i)
    BY <1>1, <1>2 DEF FlightAlone, EditAlone, Recaching
  <2>4. row'[i].flag \in {"created", "modified"} =>
           row'[i].v > 0 /\ edits[row'[i].v].item = i
    <3>1. edits[e].item = i
      BY <1>1, <1>2, OwnEdit
    <3>2. f.then = "cache" => row'[i].flag = "none"
      BY <1>1, <1>5
    <3>3. row'[i].flag \in {"created", "modified"} => row'[i].v = e
      BY <1>6, <3>2
    <3> QED BY <2>2, <3>1, <3>3
  <2>5. row'[i].v # 0 /\ row'[i].flag # "created" => meta'[i] > 0
    BY <1>2, <1>3, <1>6, <2>1 DEF ItemAlone
  <2>6. i \notin asked /\ row'[i].flag = "modified" /\ row'[i].v \in stored => Behind(i)
    BY <1>6, <2>1, <2>3 DEF ItemAlone
  <2> QED BY <1>3, <2>1, <2>4, <2>5, <2>6 DEF ItemAlone, Behind
<1>8. ASSUME CalmInv PROVE CalmItem(i)'
  BY <1>2, <1>6, <1>8, ItemFacts DEF CalmItem
<1>9. ASSUME KeptInv PROVE KeptItem(i)' /\ KeptStep(i)
  <2>1. KeptItem(i) /\ CalmItem(i) /\ KeptFlight(f)
    BY <1>2, <1>9, ItemFacts, OnlyOne
  <2>2. Newest(i)' = Newest(i) /\ NewestOk(i)' = NewestOk(i)
    BY <1>3, SameNewest
  <2>3. ASSUME i \notin asked PROVE NewestKept(i)'
    <3>1. CASE f.then = "store"
      <4>1. told'[e] = "wait"
        BY <1>1, <1>2, <2>1, <3>1 DEF KeptFlight
      <4> QED BY <1>4, <2>2, <4>1 DEF NewestKept
    <3>2. CASE f.then = "cache"
      <4>1. e \in stored
        BY <1>1, <1>2, <2>1, <2>3, <3>2 DEF KeptFlight, Carried, Recaching
      <4>2. edits[e].kind = "modify"
        BY <1>2, <1>4, <3>2
      <4> QED BY <1>3, <1>4, <2>2, <4>1, <4>2 DEF NewestKept
    <3>3. CASE f.then = "mark"
      <4>1. edits[e].kind = "modify" /\ row'[i].v = e /\ row'[i].flag = "modified"
        BY <1>1, <1>2, <1>4, <1>6, <2>1, <3>3 DEF CalmItem
      <4> QED BY <1>3, <1>4, <2>2, <4>1 DEF NewestKept
    <3>4. CASE f.then = "erase"
      <4>1. ~Visible(i)' /\ edits[e].kind = "delete"
        BY <1>2, <1>4, <1>6, <3>4 DEF Visible
      <4> QED BY <1>3, <1>4, <2>2, <4>1 DEF NewestKept
    <3> QED BY <3>1, <3>2, <3>3, <3>4
  <2>4. row'[i].flag = "deleted" => DeletedBy(1..Len(edits), i)
    <3>1. edits[e].item = i
      BY <1>1, <1>2, OwnEdit
    <3> QED BY <1>2, <1>4, <1>6, <3>1 DEF DeletedBy
  <2>5. KeptItem(i)'
    BY <1>2, <1>3, <1>6, <2>1, <2>2, <2>3, <2>4 DEF KeptItem, DeletedBy
  <2> QED BY <1>6, <2>5 DEF KeptStep
<1>10. ASSUME SameInv PROVE SameItem(i)'
  <2>1. SameItem(i) /\ SameFlight(f) /\ flights = {f} /\ CalmItem(i)
    BY <1>2, <1>10, ItemFacts, OnlyOne
  <2>2. CASE f.then = "store"
    BY <1>1, <2>2 DEF SameItem
  <2>3. CASE f.then = "cache"
    BY <1>1, <1>3, <2>1, <2>3 DEF SameItem, SameFlight, Recaching
  <2>4. CASE f.then \in {"mark", "erase"}
    BY <1>1, <1>2, <2>1, <2>4 DEF SameItem
  <2> QED BY <2>2, <2>3, <2>4
<1> QED BY <1>1, <1>7, <1>8, <1>9, <1>10 DEF ItemKeeps

LEMMA EraseKeeps ==
    ASSUME Alone, NEW f \in flights, DeleteOfflineItem(f)
    PROVE  Keeps
<1>1. /\ f.kind = "flag" /\ f.then = "erase" /\ f.out = "ok" /\ f.flag = row[f.item].flag
      /\ f.op # 0 /\ f.item \in Items /\ row[f.item].v # 0 /\ DataInv
  BY FlagFacts, OnlyOne DEF DeleteOfflineItem
<1>2. /\ Done(f) /\ Heard(f)
      /\ UNCHANGED <<server, changes, stored, asked, edits, offline, left, info>>
  BY <1>1, TellsHeard DEF DeleteOfflineItem, Tells, collection, history
<1>3. Calls(f)
  BY <1>2 DEF Calls, LeftStays
<1>4. CASE f.flag = "created"
  <2>1. row' = [row EXCEPT ![f.item] = NoRow] /\ meta' = [meta EXCEPT ![f.item] = Unknown]
    BY <1>4 DEF DeleteOfflineItem
  <2>2. row'[f.item] = NoRow /\ \A i \in Items : i # f.item => Untouched(i)
    BY <1>1, <1>2, <2>1, RowIs DEF DataInv, Untouched
  <2>3. ItemAlone(f.item)'
    BY <1>1, <1>2, <2>2, ItemFacts DEF ItemAlone, NoRow
  <2>4. ~CalmInv
    BY <1>1, <1>4, ItemFacts DEF CalmItem
  <2>5. ItemKeeps(f.item)
    BY <2>3, <2>4 DEF ItemKeeps, KeptInv, SameInv
  <2> QED BY <1>2, <1>3, <2>2, <2>5, CallEnds
<1>5. CASE f.flag # "created"
  <2>1. row' = SetFlag(f.item, "deleted") /\ meta' = meta
    BY <1>5 DEF DeleteOfflineItem
  <2>2. /\ row'[f.item].v = row[f.item].v /\ row'[f.item].flag = "deleted"
        /\ \A i \in Items : i # f.item => row'[i] = row[i]
    BY <1>1, <2>1, FlagIs
  <2>3. RowOnly(f) /\ \A i \in Items : i # f.item => Untouched(i)
    BY <1>2, <2>1, <2>2 DEF RowOnly, Untouched
  <2>4. ItemKeeps(f.item)
    BY <1>1, <1>5, <2>2, <2>3, EditsRow
  <2> QED BY <1>2, <1>3, <2>3, <2>4, CallEnds
<1> QED BY <1>4, <1>5

LEMMA MarkKeeps ==
    ASSUME Alone, NEW f \in flights, MarkModified(f)
    PROVE  Keeps
<1>1. /\ f.kind = "flag" /\ f.then = "mark" /\ f.out = "ok" /\ f.flag = row[f.item].flag
      /\ f.op # 0 /\ f.item \in Items /\ row[f.item].v # 0 /\ DataInv
      /\ f.flag \in {"none", "created", "modified"}
  BY FlagFacts, OnlyOne DEF MarkModified
<1>2. /\ Done(f) /\ Heard(f) /\ meta' = meta
      /\ UNCHANGED <<server, changes, stored, asked, edits, offline, left, info>>
  BY <1>1, TellsHeard DEF MarkModified, Tells, collection, history
<1>3. Calls(f)
  BY <1>2 DEF Calls, LeftStays
<1>4. /\ row'[f.item].v = row[f.item].v
      /\ row'[f.item].flag = (IF f.flag = "created" THEN "created" ELSE "modified")
      /\ \A i \in Items : i # f.item => row'[i] = row[i]
  <2>1. CASE f.flag = "created"
    BY <1>1, <2>1 DEF MarkModified
  <2>2. CASE f.flag # "created"
    <3>1. row' = SetFlag(f.item, "modified")
      BY <1>1, <2>2 DEF MarkModified
    <3> QED BY <1>1, <2>2, <3>1, FlagIs
  <2> QED BY <2>1, <2>2
<1>5. RowOnly(f) /\ \A i \in Items : i # f.item => Untouched(i)
  BY <1>2, <1>4 DEF RowOnly, Untouched
<1>6. ItemKeeps(f.item)
  BY <1>1, <1>4, <1>5, EditsRow
<1> QED BY <1>2, <1>3, <1>5, <1>6, CallEnds

LEMMA StoreKeeps ==
    ASSUME Alone, NEW f \in flights, DoModifyItem(f)
    PROVE  Keeps
<1>1. PICK then \in {"store", "cache"} :
        /\ Is(f, then)
        /\ \/ /\ then = "store" /\ told' = told
              /\ Becomes(f, ReadFlag(Turn(f, "flag"), "mark"))
           \/ then = "cache" /\ Done(f) /\ Tell(f, "ok")
  BY DEF DoModifyItem
<1>2. /\ f.kind = "flag" /\ f.then = then /\ f.out = "ok" /\ f.flag = row[f.item].flag
      /\ f.op # 0 /\ f.item \in Items /\ row[f.item].v # 0 /\ f.v # 0 /\ Kind(f) = "modify"
      /\ f.flag \in {"none", "created", "modified"}
      /\ DataInv /\ FlightsInv /\ FlightAlone(f)
  BY <1>1, FlagFacts, OnlyOne
<1>3. /\ Heard(f) /\ meta' = meta
      /\ UNCHANGED <<server, changes, stored, asked, edits, offline, left, info>>
  BY <1>1, <1>2, TellsHeard DEF DoModifyItem, Tells, collection, history
<1>4. Calls(f)
  BY <1>3 DEF Calls, LeftStays
<1>5. /\ row'[f.item].v = f.v /\ row'[f.item].flag = f.flag
      /\ \A i \in Items : i # f.item => row'[i] = row[i]
  <2>1. PICK r : r = [v |-> f.v, flag |-> f.flag]
    OBVIOUS
  <2>2. row' = [row EXCEPT ![f.item] = r]
    BY <2>1 DEF DoModifyItem
  <2>3. row'[f.item] = r /\ \A i \in Items : i # f.item => row'[i] = row[i]
    BY <1>2, <2>2, RowIs
  <2> QED BY <2>1, <2>3
<1>6. RowOnly(f) /\ \A i \in Items : i # f.item => Untouched(i)
  BY <1>3, <1>5 DEF RowOnly, Untouched
<1>7. CASE then = "cache"
  <2>1. ItemKeeps(f.item)
    BY <1>2, <1>5, <1>6, <1>7, EditsRow
  <2> QED BY <1>1, <1>4, <1>6, <1>7, <2>1, CallEnds
<1>8. CASE then = "store"
  <2>1. PICK g : g = ReadFlag(Turn(f, "flag"), "mark")
    OBVIOUS
  <2>2. "mark" \in Then
    BY DEF Then
  <2>3. Becomes(f, g) /\ Follows(f, g) /\ g.kind = "flag" /\ g.then = "mark" /\ told' = told
    BY <1>1, <1>2, <1>8, <2>1, <2>2, FlagFields
  <2>4. /\ g.op = f.op /\ g.item = f.item /\ g.v = f.v /\ g.out = "wait" /\ Marking(g)
        /\ ~IsRead(g) /\ ~Recaching(g) /\ ~IsSync(g)
    BY <2>3 DEF Follows, IsRead, Recaching, IsSync, Marking
  <2>5. ItemKeeps(f.item)
    BY <1>2, <1>5, <1>6, <1>8, <2>3, <2>4, EditsRow DEF Becomes
  <2>6. EditAlone(g)'
    <3>1. EditAlone(f) /\ ~Recaching(f)
      BY <1>2, <1>8 DEF FlightAlone, Recaching
    <3>2. Visible(f.item)'
      BY <1>2, <1>5 DEF Visible
    <3> QED BY <1>2, <1>3, <1>5, <2>3, <2>4, <3>1, <3>2 DEF EditAlone, Kind, Behind
  <2>7. FlightAlone(g)'
    BY <1>2, <2>3, <2>4, <2>6 DEF FlightAlone, ReadAlone, PlayAlone, PutAlone
  <2>8. ASSUME CalmInv PROVE CalmFlight(g)'
    BY <1>2, <1>3, <2>3, <2>4, <2>8, OnlyOne DEF CalmFlight, Kind
  <2>9. ASSUME KeptInv PROVE KeptFlight(g)'
    BY <1>2, <1>3, <2>3, <2>4, <2>9, OnlyOne DEF KeptFlight
  <2>10. SameFlight(g)'
    BY <2>3, <2>4 DEF SameFlight
  <2>11. FlightKeeps(g)
    BY <2>7, <2>8, <2>9, <2>10 DEF FlightKeeps
  <2> QED BY <1>4, <1>6, <2>3, <2>5, <2>11, CallTurns
<1> QED BY <1>7, <1>8

-----------------------------------------------------------------------------
(* The answer of the provider's multiget of one item.                        *)

\* What the answer says; the flag of an edit's item is "none" all the while.
LEMMA FetchFacts ==
    ASSUME Alone, NEW f \in flights, f.kind = "fetch"
    PROVE  /\ f.item \in Items /\ Request(f) /\ Lasts(f) /\ FlightAlone(f) /\ DataInv /\ FlightsInv
           /\ row[f.item] \in [v : Ver(Len(edits)), flag : Flags]
           /\ Fetched(f).v \in Ver(Len(edits)) /\ Fetched(f).v \in Int /\ Fetched(f).tag \in Nat
           /\ f.op # 0 /\ Kind(f) # "add" => Visible(f.item) /\ row[f.item].flag = "none"
           /\ f.op = 0 => row[f.item].v = f.v /\ row[f.item].flag = f.phase /\ f.v # 0
           /\ f.out = "ok" /\ CalmInv => f.data = server
           /\ f.out = "ok" => /\ Fetched(f).tag <= changes
                              /\ Fetched(f).v # 0 => Fetched(f).tag > 0
           /\ KeptInv => Carried(f)
           /\ SameInv => ~Erases(f) /\ server[f.item].v = f.v
<1>1. /\ FlightAlone(f) /\ DataInv /\ FlightsInv /\ f.item \in Items /\ f.v # 0
      /\ f \in FlightRec(Len(edits))
  BY OnlyOne, FlightFacts
<1>2. Request(f) /\ Lasts(f) /\ (f.out = "ok" => IsRead(f)) /\ ~IsSync(f) /\ ~Recaching(f)
  BY DEF Request, Lasts, Marking, Recaching, IsRead, IsSync
<1>3. /\ Fetched(f).v \in Ver(Len(edits)) /\ Fetched(f).v \in Int /\ Fetched(f).tag \in Nat
      /\ row[f.item] \in [v : Ver(Len(edits)), flag : Flags]
  BY <1>1 DEF FlightRec, Res, Ver, Fetched, DataInv, RowsOk
<1>4. f.op # 0 /\ Kind(f) # "add" => Visible(f.item) /\ row[f.item].flag = "none"
  BY <1>1 DEF FlightAlone, EditAlone
<1>5. f.op = 0 => row[f.item].v = f.v /\ row[f.item].flag = f.phase
  BY <1>1, <1>2 DEF FlightAlone, PlayAlone
<1>6. f.out = "ok" => Fetched(f).tag <= changes /\ (Fetched(f).v # 0 => Fetched(f).tag > 0)
  BY <1>1, <1>2 DEF FlightAlone, ReadAlone, Fetched
<1>7. f.out = "ok" /\ CalmInv => f.data = server
  BY <1>2, OnlyOne DEF CalmFlight
<1>8. KeptInv => Carried(f)
  BY OnlyOne DEF KeptFlight
<1>9. SameInv => ~Erases(f) /\ server[f.item].v = f.v
  BY OnlyOne DEF SameFlight
<1> QED BY <1>1, <1>2, <1>3, <1>4, <1>5, <1>6, <1>7, <1>8, <1>9

\* The ETag that the provider records on it.
Records(f) ==
    /\ f.kind = "fetch" /\ f.out = "ok" /\ Fetched(f).v # 0
    /\ info' = [info EXCEPT ![f.item] = Fetched(f).tag]
    /\ UNCHANGED <<server, changes, stored, asked, token, offline, edits, left>>

\* An item that was added is now on the server: its row is made.
LEMMA AddedKeeps ==
    ASSUME Alone, NEW f \in flights, Records(f), f.op # 0, Kind(f) = "add",
           Done(f), Tell(f, "ok"), meta' = [meta EXCEPT ![f.item] = Fetched(f).tag],
           row' = [row EXCEPT ![f.item] = [v |-> Fetched(f).v, flag |-> "none"]]
    PROVE  Keeps
<1>1. /\ f.item \in Items /\ DataInv /\ Fetched(f).v # 0 /\ Fetched(f).tag > 0
      /\ Fetched(f).tag <= changes /\ Fetched(f).tag \in Nat
  BY FetchFacts DEF Records
<1>2. PICK r : r = [v |-> Fetched(f).v, flag |-> "none"]
  OBVIOUS
<1>3. row'[f.item] = r /\ \A i \in Items : i # f.item => row'[i] = row[i]
  <2>1. row' = [row EXCEPT ![f.item] = r]
    BY <1>2
  <2> QED BY <1>1, <2>1, RowIs
<1>4. /\ meta'[f.item] = Fetched(f).tag /\ info'[f.item] = Fetched(f).tag
      /\ \A i \in Items : i # f.item => meta'[i] = meta[i] /\ info'[i] = info[i]
  BY <1>1 DEF DataInv, Records
<1>5. Calls(f)
  BY <1>1, TellsHeard DEF Calls, LeftStays, Records, Tells
<1>6. ItemAlone(f.item)'
  BY <1>1, <1>2, <1>3, <1>4, ItemFacts DEF ItemAlone, Records
<1>7. ~CalmInv
  BY OnlyOne DEF CalmFlight
<1>8. ItemKeeps(f.item)
  BY <1>6, <1>7 DEF ItemKeeps, KeptInv, SameInv
<1>9. \A i \in Items : i # f.item => Untouched(i)
  BY <1>3, <1>4 DEF Untouched
<1> QED BY <1>5, <1>8, <1>9, CallEnds

\* An item that was modified: its row is about to be written.
LEMMA ModifiedKeeps ==
    ASSUME Alone, NEW f \in flights, Records(f), f.op # 0, Kind(f) = "modify",
           Becomes(f, [ReadFlag(Turn(f, "flag"), "cache") EXCEPT !.v = Fetched(f).v]),
           told' = told, row' = row, meta' = [meta EXCEPT ![f.item] = Fetched(f).tag]
    PROVE  Keeps
<1>1. PICK d, i : d = Fetched(f) /\ i = f.item
  OBVIOUS
<1>2. /\ i \in Items /\ DataInv /\ FlightsInv /\ d.v # 0 /\ d.tag > 0 /\ d.v \in Ver(Len(edits))
      /\ d.tag <= changes /\ d.tag \in Nat /\ Visible(i) /\ row[i].flag = "none"
      /\ FlightAlone(f) /\ f.kind = "fetch" /\ Lasts(f)
  BY <1>1, FetchFacts DEF Records
<1>3. PICK g : g = [ReadFlag(Turn(f, "flag"), "cache") EXCEPT !.v = d.v]
  OBVIOUS
<1>4. /\ Becomes(f, g) /\ g.kind = "flag" /\ g.then = "cache" /\ g.v = d.v /\ g.op = f.op
      /\ g.item = i /\ g.out = "wait"
  BY <1>1, <1>2, <1>3, RecacheFields
<1>5. Recaching(g) /\ ~Marking(g) /\ ~IsRead(g) /\ ~IsSync(g)
  BY <1>4 DEF Recaching, Marking, IsRead, IsSync
<1>6. /\ UNCHANGED <<server, changes, stored, asked, edits, offline, row>>
      /\ meta'[i] = d.tag /\ info'[i] = d.tag
      /\ \A j \in Items : j # i => Untouched(j)
  BY <1>1, <1>2 DEF DataInv, Records, Untouched
<1>7. Calls(f)
  BY DEF Calls, LeftStays, Records, Heard
<1>8. ItemAlone(i)'
  BY <1>2, <1>6, ItemFacts DEF ItemAlone
<1>9. ASSUME CalmInv PROVE CalmItem(i)' /\ f.data = server
  BY <1>2, <1>6, <1>9, ItemFacts, FetchFacts DEF CalmItem, Records
<1>10. ASSUME KeptInv PROVE KeptItem(i)' /\ KeptStep(i)
  <2>1. KeptItem(i) /\ Newest(i)' = Newest(i) /\ NewestOk(i)' = NewestOk(i)
    BY <1>2, <1>6, <1>10, ItemFacts, SameNewest
  <2> QED BY <1>6, <2>1 DEF KeptItem, KeptStep, NewestKept, DeletedBy, Visible
<1>11. ASSUME SameInv PROVE SameItem(i)' /\ server[i].v = d.v
  <2>1. d = server[i]
    BY <1>1, <1>9, <1>11 DEF Fetched, SameInv
  <2> QED BY <1>4, <1>5, <1>6, <2>1 DEF SameItem, Becomes
<1>12. ItemKeeps(i)
  BY <1>8, <1>9, <1>10, <1>11 DEF ItemKeeps
<1>13. EditAlone(g)'
  BY <1>1, <1>2, <1>4, <1>5, <1>6 DEF FlightAlone, EditAlone, Kind, Visible
<1>14. FlightAlone(g)'
  BY <1>2, <1>4, <1>5, <1>13 DEF FlightAlone, ReadAlone, PlayAlone, PutAlone
<1>15. ASSUME CalmInv PROVE CalmFlight(g)'
  BY <1>4, <1>5, <1>6, <1>15, OnlyOne DEF CalmFlight, Kind
<1>16. ASSUME KeptInv PROVE KeptFlight(g)'
  <2>1. KeptFlight(f) /\ Carried(f)
    BY <1>2, <1>16, FetchFacts, OnlyOne
  <2>2. Carried(g)'
    BY <1>1, <1>4, <1>6, <2>1 DEF Carried, Kind
  <2> QED BY <1>4, <1>5, <1>6, <2>1, <2>2 DEF KeptFlight
<1>17. ASSUME SameInv PROVE SameFlight(g)'
  BY <1>4, <1>5, <1>6, <1>11, <1>17 DEF SameFlight
<1>18. FlightKeeps(g)
  BY <1>14, <1>15, <1>16, <1>17 DEF FlightKeeps
<1> QED BY <1>1, <1>3, <1>4, <1>6, <1>7, <1>12, <1>18, CallTurns

\* An item of the journal that was played back: its flag is reset.
LEMMA ResetKeeps ==
    ASSUME Alone, NEW f \in flights, Records(f), f.op = 0, ~Erases(f), PopNext(f),
           told' = told, row' = SetFlag(f.item, "none"),
           meta' = [meta EXCEPT ![f.item] = Fetched(f).tag]
    PROVE  Keeps
<1>1. PICK d, i : d = Fetched(f) /\ i = f.item
  OBVIOUS
<1>2. /\ i \in Items /\ DataInv /\ FlightsInv /\ d.v # 0 /\ d.tag > 0
      /\ d.tag <= changes /\ d.tag \in Nat /\ Request(f)
      /\ row[i].v = f.v /\ row[i].flag = f.phase /\ f.v # 0 /\ f.phase # "deleted"
  BY <1>1, FetchFacts DEF Records, Erases
<1>3. /\ row'[i].v = row[i].v /\ row'[i].flag = "none"
      /\ \A j \in Items : j # i => row'[j] = row[j]
  BY <1>1, <1>2, FlagIs
<1>4. /\ UNCHANGED <<server, changes, stored, asked, edits>>
      /\ meta'[i] = d.tag /\ info'[i] = d.tag
      /\ \A j \in Items : j # i => Untouched(j)
  BY <1>1, <1>2, <1>3 DEF DataInv, Records, Untouched
<1>5. Calls(f)
  BY DEF Calls, LeftStays, Records, Heard
<1>6. ItemAlone(i)'
  BY <1>2, <1>3, <1>4, ItemFacts DEF ItemAlone
<1>7. CalmItem(i)'
  BY <1>3 DEF CalmItem
<1>8. ASSUME KeptInv PROVE KeptItem(i)' /\ KeptStep(i)
  <2>1. KeptItem(i) /\ Newest(i)' = Newest(i) /\ NewestOk(i)' = NewestOk(i)
    BY <1>2, <1>4, <1>8, ItemFacts, SameNewest
  <2>2. i \notin asked => row[i].v \in stored
    BY <1>1, <1>2, <1>8, FetchFacts DEF Carried, Records
  <2>3. i \notin asked => NewestKept(i)'
    <3>1. i \notin asked => NewestKept(i)
      BY <2>1 DEF KeptItem
    <3>2. Visible(i)
      BY <1>2 DEF Visible
    <3> QED BY <1>4, <2>1, <2>2, <3>1, <3>2 DEF NewestKept
  <2>4. KeptItem(i)'
    BY <1>3, <1>4, <2>1, <2>3 DEF KeptItem, DeletedBy
  <2> QED BY <2>2, <2>4 DEF KeptStep
<1>9. ASSUME SameInv PROVE SameItem(i)'
  <2>1. server[i].v = f.v
    BY <1>1, <1>9, FetchFacts DEF Records
  <2> QED BY <1>2, <1>3, <1>4, <2>1 DEF SameItem
<1>10. ItemKeeps(i)
  BY <1>6, <1>7, <1>8, <1>9 DEF ItemKeeps
<1>11. PICK g : g = Turn(f, "pop")
  OBVIOUS
<1>12. Becomes(f, g) /\ Follows(f, g) /\ g.kind = "pop"
  BY <1>2, <1>11, PopFields DEF PopNext
<1>13. Settled(i)'
  BY <1>3 DEF Settled
<1>14. FlightKeeps(g)
  BY <1>1, <1>2, <1>4, <1>5, <1>12, <1>13, PopGoesOn
<1> QED BY <1>1, <1>4, <1>5, <1>10, <1>12, <1>14, CallTurns

LEMMA FetchKeeps ==
    ASSUME Alone, NEW f \in flights, FetchDone(f)
    PROVE  Keeps
<1>1. /\ f.kind = "fetch" /\ f.item \in Items /\ Request(f) /\ DataInv /\ FlightAlone(f)
  BY FetchFacts DEF FetchDone, Ready
<1>2. CASE f.out \in {"unavailable", "error"} /\ Failed(f) /\ UNCHANGED info
  <2>1. KeptInv /\ f.op = 0 /\ ~offline /\ f.item \notin asked => Settled(f.item)
    BY <1>1, <1>2, PlayedBack
  <2> QED BY <1>1, <1>2, <2>1, FailedKeeps DEF StaysBut, FetchDone
<1>3. ASSUME f.out = "ok", Fetched(f).v # 0,
             info' = [info EXCEPT ![f.item] = Fetched(f).tag],
             Succeeded(f, Fetched(f).v, [meta EXCEPT ![f.item] = Fetched(f).tag])
      PROVE  Keeps
  <2>1. Records(f)
    BY <1>1, <1>3 DEF Records, FetchDone, collection, history
  <2>2. PICK v, m : v = Fetched(f).v /\ m = [meta EXCEPT ![f.item] = Fetched(f).tag]
    OBVIOUS
  <2>3. Succeeded(f, v, m)
    BY <1>3, <2>2
  <2>4. CASE Erases(f)
    <3>1. /\ \A i \in Items \ {f.item} : m[i] = meta[i] /\ info'[i] = info[i]
          /\ m \in [Items -> Int] /\ info' \in [Items -> Int] /\ info'[f.item] <= changes
      <4>1. Fetched(f).tag \in Nat /\ Fetched(f).tag <= changes
        BY <1>1, <1>3, FetchFacts
      <4> QED BY <1>1, <1>3, <2>2, <4>1 DEF DataInv
    <3>2. ASSUME KeptInv, f.item \notin asked PROVE server[f.item].v = 0
      BY <1>1, <2>4, <3>2, FetchFacts DEF Carried, Erases
    <3>3. ~SameInv
      BY <1>1, <2>4, FetchFacts
    <3> QED BY <1>1, <2>3, <2>4, <3>1, <3>2, <3>3, ErasedKeeps DEF FetchDone
  <2>5. CASE ~Erases(f) /\ f.op # 0 /\ Kind(f) = "add"
    BY <2>1, <2>2, <2>3, <2>5, AddedKeeps DEF Succeeded
  <2>6. CASE ~Erases(f) /\ f.op # 0 /\ Kind(f) = "modify"
    BY <2>1, <2>2, <2>3, <2>6, ModifiedKeeps DEF Succeeded
  <2>7. CASE ~Erases(f) /\ f.op = 0
    BY <2>1, <2>2, <2>3, <2>7, ResetKeeps DEF Succeeded
  <2> QED BY <2>3, <2>4, <2>5, <2>6, <2>7 DEF Succeeded
<1> QED BY <1>2, <1>3 DEF FetchDone

-----------------------------------------------------------------------------
(* Items that are gone from the server.                                      *)

Gone(i) == row'[i] = NoRow /\ info'[i] = Unknown /\ meta'[i] = Unknown

LEMMA GoneKeeps ==
    ASSUME Alone, NEW i \in Items, Gone(i),
           UNCHANGED <<server, changes, stored, asked, edits, told>>,
           CalmInv => server[i].v = 0,
           KeptInv /\ i \notin asked /\ row[i].flag = "modified" => row[i].v \in stored
    PROVE  ItemKeeps(i)
<1>1. /\ row'[i].v = 0 /\ row'[i].flag = "none" /\ info'[i] = -1
      /\ UNCHANGED <<server, changes, stored, asked, edits, told>>
  BY DEF Gone, NoRow, Unknown
<1>2. ItemAlone(i)'
  BY <1>1, ItemFacts DEF ItemAlone
<1>3. CalmItem(i)'
  BY <1>1 DEF CalmItem
<1>4. ASSUME KeptInv PROVE KeptItem(i)' /\ KeptStep(i)
  <2>1. KeptItem(i) /\ CalmItem(i) /\ server[i].v = 0 /\ row[i].flag \in Flags
        /\ (row[i].v = 0 => row[i].flag = "none")
    BY <1>4, ItemFacts DEF KeptInv
  <2>2. Newest(i)' = Newest(i) /\ NewestOk(i)' = NewestOk(i) /\ ~Visible(i)'
    BY <1>1, SameNewest DEF Visible
  <2>3. i \notin asked => NewestKept(i)'
    <3>1. i \notin asked => NewestKept(i)
      BY <2>1 DEF KeptItem
    <3> QED BY <1>1, <1>4, <2>2, <3>1 DEF NewestKept
  <2>4. KeptItem(i)'
    BY <1>1, <2>1, <2>2, <2>3 DEF KeptItem
  <2>5. KeptStep(i)
    BY <1>4, <2>1 DEF KeptStep, KeptItem, CalmItem, Flags
  <2> QED BY <2>4, <2>5
<1>5. ASSUME SameInv PROVE SameItem(i)'
  BY <1>1, <1>5 DEF SameItem, SameInv
<1> QED BY <1>2, <1>3, <1>4, <1>5 DEF ItemKeeps

LEMMA TargetsAre ==
    ASSUME NEW gone, DeleteTargets(gone)
    PROVE  \A i \in Items : IF i \in gone /\ row[i].v # 0 /\ info[i] # Unknown
                            THEN Gone(i) ELSE Untouched(i)
BY DEF DeleteTargets, Dropped, Gone, Untouched

LEMMA FetchGoneKeeps ==
    ASSUME Alone, NEW f \in flights, FetchGone(f)
    PROVE  Keeps
<1>1. /\ f.kind = "fetch" /\ f.item \in Items /\ Request(f) /\ DataInv /\ FlightAlone(f)
      /\ Lasts(f) /\ Done(f) /\ f.out = "ok" /\ Fetched(f).v = 0
  BY FetchFacts DEF FetchGone, Ready
<1>2. UNCHANGED <<server, changes, stored, asked, edits, told, offline, left>>
  BY DEF FetchGone, collection, history, users
<1>3. Calls(f)
  BY <1>2 DEF Calls, LeftStays, Heard
<1>4. \A i \in Items : IF i = f.item /\ row[i].v # 0 /\ info[i] # Unknown
                       THEN Gone(i) ELSE Untouched(i)
  <2>1. PICK S : S = {f.item}
    OBVIOUS
  <2>2. DeleteTargets(S)
    BY <2>1 DEF FetchGone
  <2> QED BY <2>1, <2>2, TargetsAre
<1>5. CalmInv => server[f.item].v = 0
  BY <1>1, FetchFacts DEF Fetched
<1>6. KeptInv /\ f.item \notin asked /\ row[f.item].flag = "modified" => row[f.item].v \in stored
  <2>1. CASE f.op = 0
    BY <1>1, <2>1, FetchFacts DEF Carried
  <2>2. CASE f.op # 0
    BY <1>1, <2>2, FetchFacts, OnlyOne DEF CalmFlight
  <2> QED BY <2>1, <2>2
<1>7. ItemKeeps(f.item)
  BY <1>1, <1>2, <1>3, <1>4, <1>5, <1>6, GoneKeeps, ItemStays
<1> QED BY <1>1, <1>3, <1>4, <1>7, CallEnds

-----------------------------------------------------------------------------
(* The playback, phase by phase and item by item.                            *)

\* The playback and the sync change nothing but what is under way.
Idle == UNCHANGED <<collection, cache, info, offline, users, left, history>>

LEMMA IdleQuiet ==
    ASSUME NEW f, Idle
    PROVE  Quiet(f) /\ UNCHANGED <<server, row, info, stored, asked, edits, told, offline>>
BY DEF Idle, Quiet, Heard, collection, cache, users, history

LEMMA FreshFields ==
    ASSUME NEW k
    PROVE  /\ Flight(k).kind = k /\ Flight(k).op = 0 /\ Flight(k).out = "wait"
           /\ Flight(k).phase = "none" /\ Flight(k).todo = {}
BY DEF Flight

LEMMA SyncFields ==
    ASSUME DataInv, NEW c \in Int
    PROVE  LET g == [Flight("sync") EXCEPT !.cond = c] IN
           g.kind = "sync" /\ g.op = 0 /\ g.out = "wait" /\ g.phase = "none"
<1>1. PICK h, g : h = Flight("sync") /\ g = [h EXCEPT !.cond = c]
  OBVIOUS
<1>2. "sync" \in FlightKinds
  BY DEF FlightKinds
<1>3. h \in FlightRec(Len(edits))
  BY <1>1, <1>2, FreshFlight, EditCount
<1>4. h.kind = "sync" /\ h.op = 0 /\ h.out = "wait" /\ h.phase = "none"
  BY <1>1, FreshFields
<1>5. g.kind = "sync" /\ g.op = 0 /\ g.out = "wait" /\ g.phase = "none"
  BY <1>1, <1>3, <1>4 DEF FlightRec
<1> QED BY <1>1, <1>5

\* A sync that begins finds the journal settled.
LEMMA SyncBegins ==
    ASSUME NEW g, g.kind \in {"sync", "get"}, g.op = 0, g.phase = "none",
           g.out = "wait",
           KeptInv => (\A i \in Items \ asked : Settled(i))'
    PROVE  FlightKeeps(g)
<1>1. ~IsRead(g) /\ IsSync(g) /\ ~Recaching(g)
  BY DEF IsRead, IsSync, Recaching
<1>2. FlightAlone(g)'
  BY <1>1 DEF FlightAlone, ReadAlone, EditAlone, PlayAlone, PutAlone
<1>3. CalmFlight(g)'
  BY <1>1 DEF CalmFlight
<1>4. KeptInv => KeptFlight(g)'
  BY <1>1 DEF KeptFlight
<1>5. SameFlight(g)'
  BY <1>1 DEF SameFlight
<1> QED BY <1>2, <1>3, <1>4, <1>5 DEF FlightKeeps

LEMMA SynchronizeKeeps ==
    ASSUME Alone, NEW f \in flights, f.kind \in {"list", "pop"}, Synchronize(flights \ {f}), Idle,
           KeptInv /\ ~offline => \A i \in Items \ asked : Settled(i)
    PROVE  Keeps
<1>1. DataInv /\ Lasts(f) /\ Quiet(f)
  BY OnlyOne, IdleQuiet DEF Lasts, Marking, Recaching
<1>2. CASE syncing \/ offline
  BY <1>1, <1>2, QuietEnds DEF Synchronize, Done
<1>3. CASE ~syncing /\ ~offline
  <2>1. PICK g : g = [Flight("sync") EXCEPT !.cond = token]
    OBVIOUS
  <2>2. g.kind = "sync" /\ g.op = 0 /\ g.out = "wait" /\ g.phase = "none"
    BY <1>1, <2>1, SyncFields DEF DataInv
  <2>3. KeptInv => (\A i \in Items \ asked : Settled(i))'
    BY <1>3, IdleQuiet DEF Settled
  <2>4. FlightKeeps(g)
    BY <2>2, <2>3, SyncBegins
  <2> QED BY <1>1, <1>3, <2>1, <2>4, QuietTurns DEF Synchronize, Becomes
<1> QED BY <1>2, <1>3

LEMMA ListFields ==
    ASSUME DataInv, NEW p \in 0..MaxPlaybacks, NEW phase \in Phases
    PROVE  LET g == List(p, phase) IN
           /\ g.kind = "list" /\ g.op = 0 /\ g.out = "wait" /\ g.phase = phase /\ g.todo = {}
<1>1. PICK h, g : h = Flight("list") /\ g = List(p, phase)
  OBVIOUS
<1>2. "list" \in FlightKinds
  BY DEF FlightKinds
<1>3. h \in FlightRec(Len(edits))
  BY <1>1, <1>2, FreshFlight, EditCount
<1>4. h.kind = "list" /\ h.op = 0 /\ h.out = "wait" /\ h.todo = {}
  BY <1>1, FreshFields
<1>5. g = [h EXCEPT !.play = p, !.phase = phase]
  BY <1>1 DEF List
<1>6. g.kind = "list" /\ g.op = 0 /\ g.out = "wait" /\ g.phase = phase /\ g.todo = {}
  BY <1>3, <1>4, <1>5 DEF FlightRec
<1> QED BY <1>1, <1>6

\* A phase begins; the one before has been played back.
LEMMA ListBegins ==
    ASSUME NEW g, g.kind = "list", g.op = 0, g.out = "wait", g.phase \in Phases \ {"none"},
           g.todo = {}, KeptInv /\ ~offline' => PlayKept(g)'
    PROVE  FlightKeeps(g)
<1>1. ~IsRead(g) /\ ~IsSync(g) /\ ~Recaching(g) /\ ~Request(g)
  BY DEF IsRead, IsSync, Recaching, Request
<1>2. FlightAlone(g)'
  BY <1>1 DEF FlightAlone, ReadAlone, EditAlone, PlayAlone, PutAlone
<1>3. CalmFlight(g)'
  BY <1>1 DEF CalmFlight
<1>4. KeptInv => KeptFlight(g)'
  BY <1>1 DEF KeptFlight
<1>5. SameFlight(g)'
  BY <1>1 DEF SameFlight
<1> QED BY <1>2, <1>3, <1>4, <1>5 DEF FlightKeeps

LEMMA PhaseKeeps ==
    ASSUME Alone, NEW f \in flights, NextPhase(f)
    PROVE  Keeps
<1>1. /\ f.kind = "pop" /\ f.todo = {} /\ Idle /\ Quiet(f) /\ Lasts(f) /\ DataInv
      /\ f.op = 0 /\ f.play \in 0..MaxPlaybacks /\ ~IsSync(f) /\ ~Request(f)
  <2>1. f.kind = "pop" /\ f.todo = {} /\ Idle /\ DataInv /\ FlightsInv
    BY OnlyOne DEF NextPhase, Popping, Idle
  <2>2. f.op = 0 /\ f.play \in 0..MaxPlaybacks
    BY <2>1, FlightFacts DEF FlightRec
  <2> QED BY <2>1, <2>2, IdleQuiet DEF Lasts, Marking, Recaching, IsSync, Request
<1>2. KeptInv /\ ~offline => PlayKept(f) /\ \A i : ~Pending(f, i)
  <2>1. \A i : ~Pending(f, i)
    BY <1>1 DEF Pending
  <2> QED BY <1>1, <2>1, OnlyOne DEF KeptFlight
<1>3. CASE f.phase = "deleted" /\ Synchronize(flights \ {f})
  <2>1. PlaysModified(f) /\ PlaysDeleted(f)
    BY <1>1, <1>3 DEF PlaysModified, PlaysDeleted
  <2>2. KeptInv /\ ~offline => \A i \in Items \ asked : Settled(i)
    BY <1>2, <2>1 DEF PlayKept, Settled
  <2> QED BY <1>1, <1>3, <2>2, SynchronizeKeeps
<1>4. ASSUME NEW ph \in {"modified", "deleted"}, Becomes(f, List(f.play, ph)),
             ph = "deleted" => f.phase = "modified"
      PROVE  Keeps
  <2>1. PICK g : g = List(f.play, ph)
    OBVIOUS
  <2>2. ph \in Phases /\ ph # "none"
    BY DEF Phases
  <2>3. g.kind = "list" /\ g.op = 0 /\ g.out = "wait" /\ g.phase = ph /\ g.todo = {}
    BY <1>1, <2>1, <2>2, ListFields
  <2>4. ASSUME KeptInv, ~offline' PROVE PlayKept(g)'
    <3>1. ~PlaysDeleted(g) /\ (PlaysModified(g) => PlaysModified(f))
      BY <1>1, <1>4, <2>3 DEF PlaysModified, PlaysDeleted
    <3>2. PlayKept(f) /\ \A i : ~Pending(f, i)
      BY <1>1, <1>2, <2>4, IdleQuiet
    <3>3. \A i \in Items \ asked : row[i].flag = "modified" /\ PlaysModified(g) => row[i].v \in stored
      BY <3>1, <3>2 DEF PlayKept
    <3> QED BY <1>1, <3>1, <3>3, IdleQuiet DEF PlayKept, PlaysModified, PlaysDeleted, Pending, Request
  <2>5. FlightKeeps(g)
    BY <2>2, <2>3, <2>4, ListBegins
  <2> QED BY <1>1, <1>4, <2>1, <2>5, QuietTurns
<1> QED BY <1>3, <1>4 DEF NextPhase

\* The list of a phase.
LEMMA ListKeeps ==
    ASSUME Alone, NEW f \in flights, ListDone(f)
    PROVE  Keeps
<1>1. /\ f.kind = "list" /\ Idle /\ Quiet(f) /\ Lasts(f) /\ DataInv /\ FlightsInv
      /\ f.op = 0 /\ f \in FlightRec(Len(edits)) /\ ~IsSync(f) /\ ~Request(f) /\ f.todo = {}
      /\ f.phase # "none"
  <2>1. f.kind = "list" /\ Idle /\ DataInv /\ FlightsInv /\ FlightAlone(f)
    BY OnlyOne DEF ListDone, Idle
  <2>2. f.op = 0 /\ f \in FlightRec(Len(edits)) /\ ~IsSync(f)
    BY <2>1, FlightFacts DEF IsSync
  <2>3. f.todo = {} /\ f.phase # "none"
    BY <2>1, <2>2 DEF FlightAlone, PlayAlone
  <2> QED BY <2>1, <2>2, <2>3, IdleQuiet DEF Lasts, Marking, Recaching, Request
<1>2. CASE offline /\ Synchronize(flights \ {f})
  BY <1>1, <1>2, SynchronizeKeeps
<1>3. ASSUME ~offline,
             Becomes(f, [Turn(f, "pop") EXCEPT
                !.todo = {[item |-> i, v |-> row[i].v] :
                              i \in {j \in Items : row[j].v # 0 /\ row[j].flag = f.phase}}])
      PROVE  Keeps
  <2>1. PICK S : S = {[item |-> i, v |-> row[i].v] :
                              i \in {j \in Items : row[j].v # 0 /\ row[j].flag = f.phase}}
    OBVIOUS
  <2>2. PICK h, g : h = Turn(f, "pop") /\ g = [h EXCEPT !.todo = S]
    OBVIOUS
  <2>3. h \in FlightRec(Len(edits)) /\ Follows(f, h) /\ h.kind = "pop"
    <3>1. Len(edits) \in Nat /\ "pop" \in FlightKinds
      BY <1>1, EditCount DEF FlightKinds
    <3> QED BY <1>1, <2>2, <3>1, TurnedFlight, PopFields
  <2>4. /\ g.kind = "pop" /\ g.op = 0 /\ g.phase = f.phase /\ g.todo = S /\ g.out = "wait"
    BY <1>1, <2>2, <2>3 DEF FlightRec, Follows
  <2>5. ~IsRead(g) /\ ~IsSync(g) /\ ~Recaching(g) /\ ~Request(g)
    BY <2>4 DEF IsRead, IsSync, Recaching, Request
  <2>6. \A t \in S : t.item \in Items /\ row[t.item].v = t.v /\ row[t.item].flag = f.phase
    BY <2>1
  <2>7. UNCHANGED <<server, row, info, stored, asked, edits, told, offline>>
    BY <1>1, IdleQuiet
  <2>8. PlayAlone(g)'
    BY <1>1, <2>4, <2>5, <2>6, <2>7 DEF PlayAlone
  <2>9. FlightAlone(g)'
    BY <2>4, <2>5, <2>8 DEF FlightAlone, ReadAlone, EditAlone, PutAlone
  <2>10. ASSUME CalmInv PROVE CalmFlight(g)'
    <3>1. f.phase = "created" => S = {}
      BY <2>1, <2>10 DEF CalmInv, CalmItem
    <3> QED BY <2>4, <2>5, <3>1 DEF CalmFlight
  <2>11. ASSUME KeptInv PROVE KeptFlight(g)'
    <3>1. PlayKept(f) /\ \A i : ~Pending(f, i)
      BY <1>1, <1>3, <2>11, OnlyOne DEF KeptFlight, Pending
    <3>2. ASSUME NEW i \in Items, row[i].flag = f.phase PROVE Pending(g, i)
      <4>1. row[i].v # 0
        BY <1>1, <3>2 DEF DataInv, RowsOk
      <4>2. [item |-> i, v |-> row[i].v] \in S
        BY <2>1, <3>2, <4>1
      <4> QED BY <2>4, <4>2 DEF Pending
    <3>3. ASSUME NEW i \in Items \ asked
          PROVE  /\ row[i].flag = "modified" /\ PlaysModified(g) =>
                       row[i].v \in stored \/ Pending(g, i)
                 /\ row[i].flag = "deleted" /\ PlaysDeleted(g) =>
                       server[i].v = 0 \/ Pending(g, i)
      <4>1. /\ PlaysModified(g) => PlaysModified(f) \/ f.phase = "modified"
            /\ PlaysDeleted(g) => f.phase = "deleted"
        BY <2>4 DEF PlaysModified, PlaysDeleted
      <4> QED BY <3>1, <3>2, <3>3, <4>1 DEF PlayKept
    <3>4. PlayKept(g)'
      BY <2>7, <3>3 DEF PlayKept, PlaysModified, PlaysDeleted, Pending, Request
    <3> QED BY <2>4, <2>5, <3>4 DEF KeptFlight
  <2>12. SameFlight(g)'
    BY <2>4, <2>5 DEF SameFlight
  <2>13. FlightKeeps(g)
    BY <2>9, <2>10, <2>11, <2>12 DEF FlightKeeps
  <2>14. Becomes(f, g)
    BY <1>3, <2>1, <2>2
  <2> QED BY <1>1, <2>13, <2>14, QuietTurns
<1> QED BY <1>2, <1>3 DEF ListDone

\* The request for the next item of a phase.
Plays(f, t, g) ==
    /\ g.op = 0 /\ g.item = t.item /\ g.v = t.v /\ g.phase = f.phase /\ g.out = "wait"
    /\ g.todo = f.todo \ {t}

Taken(f, t) == [Turn(f, "put") EXCEPT !.item = t.item, !.v = t.v, !.todo = @ \ {t}]

PutPlays(f, t, h, c) == Plays(f, t, h) /\ h.kind = "put" /\ h.cond = c
DelPlays(f, t, h)    == Plays(f, t, h) /\ h.kind = "del"

LEMMA PlaysFields ==
    ASSUME DataInv, FlightsInv, NEW f \in flights, f.op = 0, NEW t \in f.todo, NEW c \in Int,
           NEW g, g = Taken(f, t), NEW h, h = [g EXCEPT !.cond = c],
           NEW k, k = [g EXCEPT !.kind = "del", !.cond = c]
    PROVE  PutPlays(f, t, h, c) /\ DelPlays(f, t, k)
<1>1. PICK n, s, td : n = Len(edits) /\ s = Turn(f, "put") /\ td = s.todo \ {t}
  OBVIOUS
<1>2. n \in Nat /\ f \in FlightRec(n) /\ "put" \in FlightKinds
  BY <1>1, FlightFacts DEF FlightKinds
<1>3. t.item \in Items /\ t.v \in Ver(n)
  BY <1>2 DEF FlightRec
<1>4. /\ s \in FlightRec(n) /\ s.kind = "put" /\ s.op = 0 /\ s.phase = f.phase
      /\ s.todo = f.todo /\ s.out = "wait"
  BY <1>1, <1>2, TurnedFlight
<1>5. PICK i, v : i = t.item /\ v = t.v
  OBVIOUS
<1>6. g = [s EXCEPT !.item = i, !.v = v, !.todo = td]
  BY <1>1, <1>5 DEF Taken
<1>7. td \in SUBSET [item : Items, v : Ver(n) \ {0}]
  BY <1>1, <1>4 DEF FlightRec
<1>8. /\ g \in FlightRec(n) /\ g.kind = "put" /\ g.op = 0 /\ g.phase = f.phase
      /\ g.item = i /\ g.v = v /\ g.todo = td /\ g.out = "wait"
  BY <1>3, <1>4, <1>5, <1>6, <1>7 DEF FlightRec
<1>9. h = [g EXCEPT !.cond = c] /\ k = [g EXCEPT !.kind = "del", !.cond = c]
  OBVIOUS
<1>10. /\ h.op = 0 /\ h.phase = f.phase /\ h.item = i /\ h.v = v /\ h.todo = td
       /\ h.out = "wait" /\ h.kind = "put" /\ h.cond = c
  BY <1>8, <1>9 DEF FlightRec
<1>11. /\ k.op = 0 /\ k.phase = f.phase /\ k.item = i /\ k.v = v /\ k.todo = td
       /\ k.out = "wait" /\ k.kind = "del"
  BY <1>8, <1>9 DEF FlightRec
<1>12. td = f.todo \ {t}
  BY <1>1, <1>4
<1> QED BY <1>5, <1>10, <1>11, <1>12 DEF Plays, PutPlays, DelPlays

LEMMA PlayBegins ==
    ASSUME Alone, NEW f \in flights, f.kind = "pop", Idle, NEW t \in f.todo, NEW g,
           Plays(f, t, g), Becomes(f, g), g.kind \in {"put", "del"},
           g.kind = "put" => f.phase # "deleted" /\ g.cond = IF f.phase = "created"
                                                            THEN Unknown ELSE info[t.item]
    PROVE  Keeps
<1>1. /\ DataInv /\ FlightsInv /\ FlightAlone(f) /\ f \in FlightRec(Len(edits)) /\ f.op = 0
      /\ ~IsSync(f) /\ ~Request(f) /\ Lasts(f) /\ Quiet(f)
  BY OnlyOne, FlightFacts, IdleQuiet DEF IsSync, Request, Lasts, Marking, Recaching
<1>2. /\ g.op = 0 /\ g.item = t.item /\ g.v = t.v /\ g.phase = f.phase /\ g.out = "wait"
      /\ g.todo = f.todo \ {t} /\ ~IsRead(g) /\ ~IsSync(g) /\ ~Recaching(g) /\ Request(g)
  BY DEF Plays, IsRead, IsSync, Recaching, Request
<1>3. UNCHANGED <<server, row, info, stored, asked, edits, told, offline>>
  BY IdleQuiet
<1>4. f.todo \in SUBSET [item : Items, v : Ver(Len(edits)) \ {0}]
  BY <1>1 DEF FlightRec
<1>5. /\ f.phase # "none"
      /\ \A u \in f.todo : u.item \in Items /\ row[u.item].v = u.v /\ row[u.item].flag = f.phase
  BY <1>1, <1>4 DEF FlightAlone, PlayAlone
<1>6. \A u \in f.todo \ {t} : u.item # t.item
  <2>1. SUFFICES ASSUME NEW u \in f.todo, u.item = t.item PROVE u = t
    OBVIOUS
  <2>2. u.v = t.v
    BY <1>5, <2>1
  <2> QED BY <1>4, <2>1, <2>2
<1>7. PlayAlone(g)'
  BY <1>2, <1>3, <1>5, <1>6 DEF PlayAlone
<1>8. PutAlone(g)'
  <2>1. CASE g.kind = "put" /\ f.phase = "created"
    BY <1>2, <2>1 DEF PutAlone
  <2>2. CASE g.kind = "put" /\ f.phase # "created"
    <3>1. f.phase = "modified"
      BY <1>1, <1>5, <2>2 DEF FlightRec, Phases
    <3>2. t.item \in Items /\ row[t.item].v # 0 /\ row[t.item].flag = "modified"
      BY <1>4, <1>5, <3>1
    <3>3. info[t.item] > 0
      BY <3>2, KnownEtag
    <3> QED BY <1>2, <1>3, <2>2, <3>1, <3>3 DEF PutAlone
  <2>3. CASE g.kind # "put"
    BY <2>3 DEF PutAlone
  <2> QED BY <2>1, <2>2, <2>3
<1>9. FlightAlone(g)'
  BY <1>2, <1>7, <1>8 DEF FlightAlone, ReadAlone, EditAlone
<1>10. ASSUME CalmInv PROVE CalmFlight(g)'
  <2>1. CalmFlight(f)
    BY <1>10, OnlyOne
  <2>2. f.phase # "created"
    BY <1>1, <2>1 DEF CalmFlight
  <2> QED BY <1>2, <2>2 DEF CalmFlight
<1>11. ASSUME KeptInv PROVE KeptFlight(g)'
  <2>1. ASSUME ~offline PROVE PlayKept(g)'
    <3>1. PlayKept(f)
      BY <1>1, <1>11, <2>1, OnlyOne DEF KeptFlight
    <3>2. \A i : Pending(f, i) => Pending(g, i)
      BY <1>1, <1>2 DEF Pending
    <3>3. /\ PlaysModified(g) => PlaysModified(f)
          /\ PlaysDeleted(g) => PlaysDeleted(f)
      BY <1>2 DEF PlaysModified, PlaysDeleted
    <3> QED BY <1>3, <3>1, <3>2, <3>3 DEF PlayKept, PlaysModified, PlaysDeleted, Pending, Request
  <2> QED BY <1>2, <1>3, <2>1 DEF KeptFlight
<1>12. SameFlight(g)'
  BY <1>2 DEF SameFlight
<1>13. FlightKeeps(g)
  BY <1>9, <1>10, <1>11, <1>12 DEF FlightKeeps
<1> QED BY <1>1, <1>13, QuietTurns

LEMMA PopKeeps ==
    ASSUME Alone, NEW f \in flights, PopItemQueue(f)
    PROVE  Keeps
<1>1. f.kind = "pop" /\ Idle /\ DataInv /\ FlightsInv /\ f.op = 0
  BY OnlyOne, FlightFacts DEF PopItemQueue, Popping, Idle
<1>2. PICK t \in f.todo :
        LET g == [Turn(f, "put") EXCEPT !.item = t.item, !.v = t.v, !.todo = @ \ {t}]
            known == info[t.item] # Unknown
        IN \/ f.phase = "created" /\ Becomes(f, [g EXCEPT !.cond = Unknown])
           \/ f.phase = "modified" /\ known /\ Becomes(f, [g EXCEPT !.cond = info[t.item]])
           \/ f.phase = "deleted" /\ known
              /\ Becomes(f, [g EXCEPT !.kind = "del", !.cond = info[t.item]])
           \/ f.phase \in {"modified", "deleted"} /\ ~known
              /\ Becomes(f, [g EXCEPT !.kind = "pop"])
  BY DEF PopItemQueue
<1>3. t.item \in Items /\ t.v # 0 /\ t.v \in Ver(Len(edits))
  BY <1>1, FlightFacts DEF FlightRec
<1>4. row[t.item].v = t.v /\ row[t.item].flag = f.phase
  BY <1>1, OnlyOne DEF FlightAlone, PlayAlone, IsSync
<1>5. f.phase # "created" => info[t.item] > 0
  BY <1>3, <1>4, KnownEtag
<1>6. info[t.item] \in Int /\ Unknown \in Int /\ (f.phase # "created" => info[t.item] # Unknown)
  BY <1>1, <1>3, <1>5 DEF DataInv, Unknown
<1>7. PICK g : g = Taken(f, t)
  OBVIOUS
<1>8. ASSUME NEW c \in Int, NEW h, h = [g EXCEPT !.cond = c],
             NEW k, k = [g EXCEPT !.kind = "del", !.cond = c]
      PROVE  PutPlays(f, t, h, c) /\ DelPlays(f, t, k)
  BY <1>1, <1>7, <1>8, PlaysFields
<1>9. CASE f.phase = "created" /\ Becomes(f, [g EXCEPT !.cond = Unknown])
  <2>1. PICK c, h : c = Unknown /\ h = [g EXCEPT !.cond = c]
    OBVIOUS
  <2>2. PutPlays(f, t, h, c)
    BY <1>6, <1>8, <2>1
  <2>3. Plays(f, t, h) /\ h.kind = "put" /\ h.cond = Unknown /\ Becomes(f, h)
    BY <1>9, <2>1, <2>2 DEF PutPlays
  <2> QED BY <1>1, <1>9, <2>3, PlayBegins
<1>10. CASE f.phase = "modified" /\ Becomes(f, [g EXCEPT !.cond = info[t.item]])
  <2>1. PICK c, h : c = info[t.item] /\ h = [g EXCEPT !.cond = c]
    OBVIOUS
  <2>2. PutPlays(f, t, h, c)
    BY <1>6, <1>8, <2>1
  <2>3. Plays(f, t, h) /\ h.kind = "put" /\ h.cond = info[t.item] /\ Becomes(f, h)
    BY <1>10, <2>1, <2>2 DEF PutPlays
  <2> QED BY <1>1, <1>10, <2>3, PlayBegins
<1>11. CASE Becomes(f, [g EXCEPT !.kind = "del", !.cond = info[t.item]])
  <2>1. PICK c, h : c = info[t.item] /\ h = [g EXCEPT !.kind = "del", !.cond = c]
    OBVIOUS
  <2>2. DelPlays(f, t, h)
    BY <1>6, <1>8, <2>1
  <2>3. Plays(f, t, h) /\ h.kind = "del" /\ Becomes(f, h)
    BY <1>11, <2>1, <2>2 DEF DelPlays
  <2> QED BY <1>1, <2>3, PlayBegins
<1> QED BY <1>2, <1>6, <1>7, <1>9, <1>10, <1>11 DEF Taken

-----------------------------------------------------------------------------
(* The sync's answers, which concern many items at once.                     *)

LEMMA SyncFacts ==
    ASSUME Alone, NEW f \in flights, f.kind \in {"sync", "get"}
    PROVE  /\ Lasts(f) /\ IsSync(f) /\ DataInv /\ f \in FlightRec(Len(edits)) /\ Len(edits) \in Nat
           /\ \A i \in Items : f.data[i].v \in Int /\ f.data[i].tag \in Nat
           /\ f.out = "ok" => \A i \in Items : /\ f.data[i].tag <= changes
                                               /\ f.data[i].v # 0 => f.data[i].tag > 0
           /\ f.out = "ok" /\ CalmInv => f.data = server
           /\ KeptInv => \A i \in Items \ asked : Settled(i)
<1>1. /\ FlightAlone(f) /\ DataInv /\ f \in FlightRec(Len(edits)) /\ Len(edits) \in Nat
      /\ Lasts(f) /\ IsSync(f) /\ (f.out = "ok" => IsRead(f))
  BY OnlyOne, FlightFacts DEF Lasts, Marking, Recaching, IsSync, IsRead
<1>2. \A i \in Items : f.data[i].v \in Int /\ f.data[i].tag \in Nat
  BY <1>1 DEF FlightRec, Res, Ver
<1>3. f.out = "ok" => \A i \in Items : /\ f.data[i].tag <= changes
                                       /\ f.data[i].v # 0 => f.data[i].tag > 0
  BY <1>1 DEF FlightAlone, ReadAlone
<1>4. f.out = "ok" /\ CalmInv => f.data = server
  BY <1>1, OnlyOne DEF CalmFlight
<1>5. KeptInv => \A i \in Items \ asked : Settled(i)
  BY <1>1, OnlyOne DEF KeptFlight
<1> QED BY <1>1, <1>2, <1>3, <1>4, <1>5

\* What the sync leaves as it is.
Synced(f) == UNCHANGED <<server, changes, stored, asked, edits, told, offline, left>>

LEMMA UntouchedKeeps ==
    ASSUME Alone, NEW f \in flights, f.kind \in {"sync", "get"}, Synced(f),
           NEW i \in Items, Untouched(i)
    PROVE  ItemKeeps(i)
<1>1. Calls(f) /\ Lasts(f)
  BY SyncFacts DEF Synced, Calls, LeftStays, Heard
<1>2. told'[f.op] = told[f.op]
  BY DEF Synced
<1> QED BY <1>1, <1>2, ItemStays

\* An item whose new version has been fetched.
News(f, i) ==
    /\ f.data[i].v # 0
    /\ row'[i] = [v |-> f.data[i].v, flag |-> "none"]
    /\ meta'[i] = f.data[i].tag /\ info'[i] = f.data[i].tag

LEMMA NewsKeep ==
    ASSUME Alone, NEW f \in flights, f.kind \in {"sync", "get"}, f.out = "ok", Synced(f),
           NEW i \in Items, News(f, i)
    PROVE  ItemKeeps(i)
<1>1. PICK d : d = f.data[i]
  OBVIOUS
<1>2. /\ d.v # 0 /\ row'[i].v = d.v /\ row'[i].flag = "none" /\ meta'[i] = d.tag
      /\ info'[i] = d.tag /\ d.tag <= changes /\ d.tag > 0 /\ d.tag \in Nat
      /\ UNCHANGED <<server, changes, stored, asked, edits, told>>
  BY <1>1, SyncFacts DEF News, Synced
<1>3. CalmInv => server[i] = d
  BY <1>1, SyncFacts
<1>4. ItemAlone(i)'
  BY <1>2, ItemFacts DEF ItemAlone
<1>5. CalmItem(i)'
  BY <1>2 DEF CalmItem
<1>6. ASSUME KeptInv PROVE KeptItem(i)' /\ KeptStep(i)
  <2>1. /\ KeptItem(i) /\ CalmItem(i) /\ row[i].flag \in Flags /\ server[i].v # 0
        /\ (i \notin asked => Settled(i))
    BY <1>2, <1>3, <1>6, ItemFacts, SyncFacts DEF KeptInv
  <2>2. i \notin asked => row[i].v # 0 /\ row[i].flag # "deleted"
    BY <2>1 DEF KeptItem, Settled
  <2>3. Newest(i)' = Newest(i) /\ NewestOk(i)' = NewestOk(i)
    BY <1>2, SameNewest
  <2>4. i \notin asked => NewestKept(i)'
    <3>1. i \notin asked => NewestKept(i) /\ Visible(i)
      BY <2>1, <2>2 DEF KeptItem, Visible
    <3> QED BY <1>2, <2>1, <2>3, <3>1 DEF NewestKept, Settled
  <2>5. KeptItem(i)'
    BY <1>2, <2>1, <2>3, <2>4 DEF KeptItem
  <2>6. KeptStep(i)
    BY <2>1, <2>2 DEF KeptStep, Settled, CalmItem, Flags
  <2> QED BY <2>5, <2>6
<1>7. ASSUME SameInv PROVE SameItem(i)'
  BY <1>2, <1>3, <1>7 DEF SameItem, SameInv
<1> QED BY <1>4, <1>5, <1>6, <1>7 DEF ItemKeeps

LEMMA SyncedKeeps ==
    ASSUME Alone, NEW f \in flights, f.kind \in {"sync", "get"}, Synced(f),
           \A i \in Items : ItemKeeps(i),
           \/ flights' = {}
           \/ \E g : flights' = {g} /\ FlightKeeps(g)
    PROVE  Keeps
<1>1. LeftStays /\ \A i \in Items : OnceStep(i)
  BY DEF LeftStays, Synced, OnceStep
<1>2. \A g, h \in flights' : g = h
  OBVIOUS
<1> QED BY <1>1, <1>2, AllKeep

LEMMA SyncDoneKeeps ==
    ASSUME Alone, NEW f \in flights, SyncDone(f)
    PROVE  Keeps
<1>1. /\ f.kind = "sync" /\ f.out = "ok" /\ Synced(f) /\ flights = {f} /\ DataInv
  BY OnlyOne DEF SyncDone, Ready, Synced, collection, users, history
<1>2. PICK S : /\ S = (IF token = Unknown THEN {i \in Items : f.data[i].v = 0}
                       ELSE {i \in Reported(f) : f.data[i].v = 0})
               /\ DeleteTargets(S)
  BY DEF SyncDone
<1>3. \A i \in S : i \in Items /\ f.data[i].v = 0
  BY <1>2 DEF Reported
<1>4. \A i \in Items : IF i \in S /\ row[i].v # 0 /\ info[i] # Unknown
                       THEN Gone(i) ELSE Untouched(i)
  BY <1>2, TargetsAre
<1>5. ASSUME NEW i \in Items PROVE ItemKeeps(i)
  <2>1. CASE Untouched(i)
    BY <1>1, <2>1, UntouchedKeeps
  <2>2. CASE Gone(i) /\ i \in S
    <3>1. CalmInv => server[i].v = 0
      BY <1>1, <1>3, <2>2, SyncFacts
    <3>2. KeptInv /\ i \notin asked /\ row[i].flag = "modified" => row[i].v \in stored
      BY <1>1, SyncFacts DEF Settled
    <3> QED BY <1>1, <2>2, <3>1, <3>2, GoneKeeps DEF Synced
  <2> QED BY <1>4, <2>1, <2>2
<1>6. CASE Done(f)
  BY <1>1, <1>5, <1>6, SyncedKeeps DEF Done
<1>7. ASSUME NEW need \in SUBSET Items,
             Becomes(f, [Flight("get") EXCEPT !.need = need, !.upto = f.upto])
      PROVE  Keeps
  <2>1. PICK h, u, g : h = Flight("get") /\ u = f.upto /\ g = [h EXCEPT !.need = need, !.upto = u]
    OBVIOUS
  <2>2. h \in FlightRec(Len(edits)) /\ u \in Nat
    <3>1. Len(edits) \in Nat /\ "get" \in FlightKinds /\ f \in FlightRec(Len(edits))
      BY <1>1, SyncFacts DEF FlightKinds
    <3> QED BY <2>1, <3>1, FreshFlight DEF FlightRec
  <2>3. h.kind = "get" /\ h.op = 0 /\ h.phase = "none" /\ h.out = "wait"
    BY <2>1, FreshFields
  <2>4. g.kind = "get" /\ g.op = 0 /\ g.phase = "none" /\ g.out = "wait"
    BY <2>1, <2>2, <2>3 DEF FlightRec
  <2>5. ASSUME KeptInv PROVE (\A i \in Items \ asked : Settled(i))'
    <3>1. SUFFICES ASSUME NEW i \in Items \ asked PROVE Settled(i)'
      BY <1>1 DEF Synced
    <3>2. Settled(i)
      BY <1>1, <2>5, <3>1, SyncFacts
    <3> QED BY <1>1, <1>4, <3>1, <3>2 DEF Settled, Gone, Untouched, NoRow, Synced
  <2>6. FlightKeeps(g)
    BY <2>4, <2>5, SyncBegins
  <2>7. flights' = {g}
    BY <1>1, <1>7, <2>1 DEF Becomes
  <2> QED BY <1>1, <1>5, <2>6, <2>7, SyncedKeeps
<1>8. PICK need : /\ need = {i \in Reported(f) : f.data[i].v # 0 /\ f.data[i].tag # info[i]}
                  /\ \/ Done(f)
                     \/ Becomes(f, [Flight("get") EXCEPT !.need = need, !.upto = f.upto])
  BY DEF SyncDone
<1>9. need \in SUBSET Items
  BY <1>8 DEF Reported
<1> QED BY <1>6, <1>7, <1>8, <1>9

LEMMA SyncAgainKeeps ==
    ASSUME Alone, NEW f \in flights, SyncAgain(f) \/ MultigetFailed(f)
    PROVE  Keeps
<1>1. /\ f.kind \in {"sync", "get"} /\ Synced(f) /\ flights = {f} /\ DataInv
      /\ \A i \in Items : Untouched(i)
  BY OnlyOne DEF SyncAgain, MultigetFailed, Ready, Synced, Untouched, collection, users, history
<1>2. \A i \in Items : ItemKeeps(i)
  BY <1>1, UntouchedKeeps
<1>3. CASE MultigetFailed(f)
  BY <1>1, <1>2, <1>3, SyncedKeeps DEF MultigetFailed, Done
<1>4. CASE SyncAgain(f)
  <2>1. PICK c, g : c = Unknown /\ g = [Flight("sync") EXCEPT !.cond = c]
    OBVIOUS
  <2>2. c \in Int
    BY <2>1 DEF Unknown
  <2>3. g.kind = "sync" /\ g.op = 0 /\ g.out = "wait" /\ g.phase = "none"
    BY <1>1, <2>1, <2>2, SyncFields
  <2>4. KeptInv => (\A i \in Items \ asked : Settled(i))'
    BY <1>1, SyncFacts DEF Settled, Synced, Untouched
  <2>5. FlightKeeps(g)
    BY <2>3, <2>4, SyncBegins
  <2>6. flights' = {g}
    BY <1>1, <1>4, <2>1 DEF SyncAgain, Becomes
  <2> QED BY <1>1, <1>2, <2>5, <2>6, SyncedKeeps
<1> QED BY <1>3, <1>4

LEMMA MultigetKeeps ==
    ASSUME Alone, NEW f \in flights, MultigetDone(f)
    PROVE  Keeps
<1>1. /\ f.kind = "get" /\ f.out = "ok" /\ Synced(f) /\ flights = {f} /\ Done(f)
  BY OnlyOne DEF MultigetDone, Ready, Synced, collection, users, history
<1>2. PICK news, gone :
        /\ news = {i \in f.need : f.data[i].v # 0 /\ f.data[i].tag # info[i]}
        /\ gone = Dropped({i \in f.need : f.data[i].v = 0})
        /\ row'  = [i \in Items |->
                      IF i \in news THEN [v |-> f.data[i].v, flag |-> "none"]
                      ELSE IF i \in gone THEN NoRow ELSE row[i]]
        /\ meta' = [i \in Items |-> IF i \in news THEN f.data[i].tag
                                    ELSE IF i \in gone THEN Unknown ELSE meta[i]]
        /\ info' = [i \in Items |-> IF i \in news THEN f.data[i].tag
                                    ELSE IF i \in gone THEN Unknown ELSE info[i]]
  BY DEF MultigetDone
<1>3. ASSUME NEW i \in Items PROVE ItemKeeps(i)
  <2>1. CASE i \in news
    <3>1. News(f, i)
      BY <1>2, <1>3, <2>1 DEF News
    <3> QED BY <1>1, <3>1, NewsKeep
  <2>2. CASE i \notin news /\ i \in gone
    <3>1. Gone(i) /\ f.data[i].v = 0
      BY <1>2, <1>3, <2>2 DEF Gone, Dropped
    <3>2. CalmInv => server[i].v = 0
      BY <1>1, <3>1, SyncFacts
    <3>3. KeptInv /\ i \notin asked /\ row[i].flag = "modified" => row[i].v \in stored
      BY <1>1, SyncFacts DEF Settled
    <3> QED BY <1>1, <3>1, <3>2, <3>3, GoneKeeps DEF Synced
  <2>3. CASE i \notin news /\ i \notin gone
    <3>1. Untouched(i)
      BY <1>2, <1>3, <2>3 DEF Untouched
    <3> QED BY <1>1, <3>1, UntouchedKeeps
  <2> QED BY <2>1, <2>2, <2>3
<1> QED BY <1>1, <1>3, SyncedKeeps DEF Done

-----------------------------------------------------------------------------
(* The server.                                                               *)

\* The request that is answered stays what it is.
Answered(f, g) ==
    /\ g.kind = f.kind /\ g.op = f.op /\ g.item = f.item /\ g.v = f.v /\ g.phase = f.phase
    /\ g.todo = f.todo /\ g.cond = f.cond

LEMMA AnswerFields ==
    ASSUME DataInv, FlightsInv, NEW f \in flights, NEW o \in Outs
    PROVE  /\ Answered(f, [f EXCEPT !.out = o])
           /\ [f EXCEPT !.out = o].out = o
BY FlightFacts DEF FlightRec, Answered

ReadAnswer(f, d, u) == [f EXCEPT !.out = "ok", !.data = d, !.upto = u]

LEMMA ReadFields ==
    ASSUME DataInv, FlightsInv, NEW f \in flights, NEW d, NEW u,
           NEW g, g = ReadAnswer(f, d, u)
    PROVE  Answered(f, g) /\ g.out = "ok" /\ g.data = d
<1>1. f \in FlightRec(Len(edits))
  BY FlightFacts
<1> QED BY <1>1 DEF FlightRec, Answered, ReadAnswer

\* What a request leaves as it is.
Served == UNCHANGED <<row, meta, info, offline, edits, told, asked>> /\ LeftStays

Requesting(f) == Request(f) \/ f.kind \in {"sync", "get"}

\* An answer to a request that changed nothing on the server.
LEMMA RepliedKeeps ==
    ASSUME Alone, NEW f \in flights, Requesting(f), NEW g, Answered(f, g), Becomes(f, g),
           Served, UNCHANGED <<server, changes, stored>>,
           IsRead(g) => g.data = server,
           g.out # "ok" \/ IsRead(g) \/ (g.kind = "del" /\ server[f.item].v = 0),
           KeptInv => g.out # "error" /\ (g.out = "unavailable" => offline)
    PROVE  Keeps
<1>1. /\ FlightAlone(f) /\ ~Recaching(f) /\ ~Recaching(g) /\ Lasts(f) /\ Calls(f)
      /\ f.kind \notin {"flag", "list", "pop"}
  BY OnlyOne DEF Requesting, Request, Recaching, Marking, Lasts, Calls, Served, Answered, Heard
<1>2. \A i \in Items : Untouched(i) /\ ItemKeeps(i)
  <2>1. \A i \in Items : Untouched(i)
    BY DEF Untouched, Served
  <2> QED BY <1>1, <2>1, ItemStays DEF Served
<1>3. ReadAlone(g)'
  <2>1. ASSUME IsRead(g), NEW i \in Items
        PROVE  g.data[i].tag <= changes /\ (g.data[i].v # 0 => g.data[i].tag > 0)
    BY <2>1, ItemFacts DEF ItemAlone
  <2> QED BY <2>1 DEF ReadAlone, IsRead
<1>4. EditAlone(g)' /\ PlayAlone(g)' /\ PutAlone(g)'
  <2>1. EditAlone(g)'
    BY <1>1 DEF FlightAlone, EditAlone, Answered, Served, Kind, Visible, Behind, Request
  <2>2. PlayAlone(g)'
    BY <1>1 DEF FlightAlone, PlayAlone, Answered, Served, Request, IsSync
  <2>3. PutAlone(g)'
    BY <1>1 DEF FlightAlone, PutAlone, Answered, Served, Kind
  <2> QED BY <2>1, <2>2, <2>3
<1>5. FlightAlone(g)'
  BY <1>3, <1>4 DEF FlightAlone
<1>6. ASSUME CalmInv PROVE CalmFlight(g)'
  <2>1. CalmFlight(f)
    BY <1>6, OnlyOne
  <2>2. IsRead(g) => g.kind # "del"
    BY DEF IsRead
  <2> QED BY <2>1, <2>2 DEF CalmFlight, Answered, Served, Kind, IsRead
<1>7. ASSUME KeptInv PROVE KeptFlight(g)'
  <2>1. KeptFlight(f)
    BY <1>7, OnlyOne
  <2>2. ASSUME f.op = 0, ~IsSync(f), ~offline PROVE PlayKept(g)'
    <3>1. PlayKept(f)
      BY <2>1, <2>2 DEF KeptFlight
    <3> QED BY <3>1 DEF PlayKept, PlaysModified, PlaysDeleted, Pending, Request, Answered, Served
  <2>3. g.kind = "put" => g.out # "ok"
    BY DEF IsRead
  <2>4. g.kind = "fetch" => Carried(g)'
    BY <2>1 DEF KeptFlight, Carried, Kind, Answered, Served
  <2>5. IsSync(g) => (\A i \in Items \ asked : Settled(i))'
    BY <2>1 DEF KeptFlight, Settled, IsSync, Answered, Served
  <2>6. g.op = f.op /\ (IsSync(g) <=> IsSync(f)) /\ offline' = offline /\ told' = told
    BY DEF Answered, Served, IsSync
  <2> QED BY <1>1, <1>7, <2>1, <2>2, <2>3, <2>4, <2>5, <2>6 DEF KeptFlight
<1>8. ASSUME SameInv PROVE SameFlight(g)'
  <2>1. SameFlight(f)
    BY <1>8, OnlyOne
  <2> QED BY <1>1, <2>1 DEF SameFlight, Answered, Served, Erases, Kind, IsRead
<1>9. FlightKeeps(g)
  BY <1>5, <1>6, <1>7, <1>8 DEF FlightKeeps
<1> QED BY <1>1, <1>2, <1>9, CallTurns

\* A write of the item whose flight asks for it.
Written(f, E) ==
    /\ server' = [server EXCEPT ![f.item] = [v |-> IF f.kind = "put" THEN f.v ELSE 0,
                                             tag |-> changes + 1]]
    /\ changes' = changes + 1 /\ stored' = stored \cup E
    /\ f.kind = "put" => Matches(f) /\ E = {f.v} \cap Nat
    /\ f.kind = "del" => E = Deletes(f)

LEMMA PutFacts ==
    ASSUME Alone, NEW f \in flights, f.kind = "put"
    PROVE  /\ f.v \in 1..Len(edits) /\ edits[f.v].item = f.item
           /\ f.op # 0 => f.v = f.op
           /\ f.op = 0 => row[f.item].v = f.v /\ row[f.item].flag = f.phase
                          /\ f.phase \in {"created", "modified"}
<1>1. /\ FlightAlone(f) /\ DataInv /\ f.item \in Items /\ f.v \in Int /\ f.v <= Len(edits)
      /\ Len(edits) \in Nat /\ f.phase \in Phases
      /\ ~Recaching(f) /\ Request(f) /\ ~IsSync(f)
  BY OnlyOne, FlightFacts DEF FlightRec, Recaching, Request, IsSync
<1>2. CASE f.op # 0
  BY <1>1, <1>2, OwnEdit DEF FlightAlone, EditAlone
<1>3. CASE f.op = 0
  <2>1. row[f.item].v = f.v /\ row[f.item].flag = f.phase /\ f.phase \in {"created", "modified"}
    BY <1>1, <1>3 DEF FlightAlone, PlayAlone, Phases
  <2>2. f.v > 0 /\ edits[f.v].item = f.item
    BY <1>1, <2>1, ItemFacts DEF ItemAlone
  <2> QED BY <1>1, <1>3, <2>1, <2>2
<1> QED BY <1>2, <1>3

\* A version that is stored is refused when it is sent again, as its item has another ETag.
LEMMA WrittenOnce ==
    ASSUME Alone, NEW f \in flights, f.kind = "put", Matches(f), f.item \notin asked,
           server[f.item].v # 0
    PROVE  f.v \notin stored
<1>1. /\ FlightAlone(f) /\ f.item \in Items /\ ~Recaching(f) /\ info[f.item] \in Int
  BY OnlyOne, FlightFacts, ItemFacts DEF Recaching
<1>2. f.cond # Unknown
  BY DEF Matches, Unknown, NoEtag
<1>3. f.cond = info[f.item] /\ f.cond > 0 /\ IF f.op = 0 THEN f.phase = "modified" ELSE Kind(f) = "modify"
  BY <1>1, <1>2 DEF FlightAlone, PutAlone
<1>4. server[f.item].tag = info[f.item]
  BY <1>1, <1>3 DEF Matches, NoEtag
<1>5. ~Behind(f.item)
  BY <1>4 DEF Behind
<1>6. CASE f.op = 0
  <2>1. row[f.item].v = f.v /\ row[f.item].flag = "modified"
    BY <1>3, <1>6, PutFacts
  <2> QED BY <1>1, <1>5, <2>1, ItemFacts DEF ItemAlone
<1>7. CASE f.op # 0
  BY <1>1, <1>3, <1>5, <1>7, PutFacts DEF FlightAlone, EditAlone
<1> QED BY <1>6, <1>7

\* The edits that a write stores are those of its item.
LEMMA WritesOwn ==
    ASSUME Alone, NEW f \in flights, f.kind \in {"put", "del"}, NEW E, Written(f, E)
    PROVE  \A e \in E : e \in 1..Len(edits) /\ edits[e].item = f.item
<1>1. CASE f.kind = "put"
  BY <1>1, PutFacts DEF Written
<1>2. CASE f.kind = "del"
  BY <1>2, OwnEdit DEF Written, Deletes
<1> QED BY <1>1, <1>2

LEMMA WrittenFacts ==
    ASSUME Alone, NEW f \in flights, f.kind \in {"put", "del"}, NEW E, Written(f, E)
    PROVE  /\ f.item \in Items /\ changes \in Nat /\ changes' = changes + 1
           /\ server'[f.item].v = (IF f.kind = "put" THEN f.v ELSE 0)
           /\ server'[f.item].tag = changes + 1
           /\ \A i \in Items : i # f.item => server'[i] = server[i]
           /\ stored \subseteq stored'
           /\ \A i \in Items : i # f.item => \A e \in stored' :
                 edits[e].item = i => e \in stored
<1>1. f.item \in Items /\ DataInv
  BY OnlyOne, FlightFacts
<1>2. \A i \in Items : i # f.item => \A e \in stored' : edits[e].item = i => e \in stored
  BY WritesOwn DEF Written
<1> QED BY <1>1, <1>2 DEF DataInv, Written

\* The other items.
LEMMA OthersKeep ==
    ASSUME Alone, NEW f \in flights, f.kind \in {"put", "del"}, NEW E, Written(f, E), Served,
           NEW i \in Items, i # f.item
    PROVE  ItemKeeps(i)
<1>1. /\ changes \in Nat /\ changes' = changes + 1 /\ server'[i] = server[i]
      /\ stored \subseteq stored' /\ \A e \in stored' : edits[e].item = i => e \in stored
      /\ UNCHANGED <<row, meta, info, edits, told, asked>>
  BY WrittenFacts DEF Served
<1>2. ItemAlone(i)'
  <2>1. ItemAlone(i) /\ server[i].tag \in Nat /\ info[i] \in Int
    BY ItemFacts
  <2>2. row[i].flag = "modified" /\ row[i].v \in stored' => row[i].v \in stored
    BY <1>1, <2>1 DEF ItemAlone
  <2> QED BY <1>1, <2>1, <2>2 DEF ItemAlone, Behind
<1>3. ASSUME CalmInv PROVE CalmItem(i)'
  BY <1>1, <1>3, ItemFacts DEF CalmItem
<1>4. ASSUME KeptInv PROVE KeptItem(i)' /\ KeptStep(i)
  <2>1. KeptItem(i)
    BY <1>4, ItemFacts
  <2>2. Newest(i)' = Newest(i) /\ NewestOk(i)' = NewestOk(i)
    BY <1>1, SameNewest
  <2>3. NewestKept(i) => NewestKept(i)'
    BY <1>1, <2>2 DEF NewestKept, Visible
  <2>4. DeletedBy(stored, i) => DeletedBy(stored, i)'
    BY <1>1 DEF DeletedBy
  <2> QED BY <1>1, <2>1, <2>2, <2>3, <2>4 DEF KeptItem, KeptStep, DeletedBy
<1>5. ASSUME SameInv PROVE SameItem(i)'
  <2>1. SameItem(i) /\ flights = {f}
    BY <1>5, ItemFacts, OnlyOne
  <2> QED BY <1>1, <2>1 DEF SameItem, Marking, Recaching
<1> QED BY <1>2, <1>3, <1>4, <1>5 DEF ItemKeeps

\* The item that is written.
LEMMA WrittenItemKeeps ==
    ASSUME Alone, NEW f \in flights, f.kind \in {"put", "del"}, NEW E, Written(f, E), Served
    PROVE  ItemKeeps(f.item)
<1>1. PICK i : i = f.item
  OBVIOUS
<1>2. /\ i \in Items /\ changes \in Nat /\ changes' = changes + 1
      /\ server'[i].v = (IF f.kind = "put" THEN f.v ELSE 0) /\ server'[i].tag = changes + 1
      /\ stored \subseteq stored'
      /\ UNCHANGED <<row, meta, info, edits, told, asked>>
  BY <1>1, WrittenFacts DEF Served
<1>3. f.kind = "put" => f.v > 0
  BY PutFacts
<1>4. FlightAlone(f) /\ DataInv /\ FlightsInv /\ Request(f) /\ ~IsSync(f)
  BY OnlyOne DEF Request, IsSync
<1>5. ItemAlone(i)'
  <2>1. ItemAlone(i) /\ info[i] \in Int
    BY <1>2, ItemFacts
  <2>2. Behind(i)'
    BY <1>2, <2>1 DEF Behind, ItemAlone
  <2>3. info[i] <= changes'
    BY <1>2, <2>1 DEF ItemAlone
  <2> QED BY <1>2, <2>1, <2>2, <2>3 DEF ItemAlone
<1>6. ASSUME CalmInv PROVE CalmItem(i)'
  BY <1>2, <1>6, ItemFacts DEF CalmItem
<1>7. ASSUME KeptInv PROVE KeptItem(i)' /\ KeptStep(i)
  <2>1. KeptItem(i) /\ CalmFlight(f)
    BY <1>2, <1>7, ItemFacts, OnlyOne
  <2>2. Newest(i)' = Newest(i) /\ NewestOk(i)' = NewestOk(i)
    BY <1>2, SameNewest
  <2>3. NewestKept(i) => NewestKept(i)'
    BY <1>2, <2>2 DEF NewestKept, Visible
  <2>4. f.kind = "put" => row[i].v # 0
    <3>1. CASE f.kind = "put" /\ f.op = 0
      BY <1>1, <1>3, <3>1, PutFacts
    <3>2. CASE f.kind = "put" /\ f.op # 0
      BY <1>1, <1>4, <2>1, <3>2 DEF FlightAlone, EditAlone, CalmFlight, Visible
    <3> QED BY <3>1, <3>2
  <2>5. f.kind = "del" /\ i \notin asked => DeletedBy(stored, i)'
    <3>1. CASE f.kind = "del" /\ f.op # 0
      <4>1. f.op \in stored' /\ edits[f.op].kind = "delete" /\ edits[f.op].item = i
        BY <1>1, <1>4, <3>1, FlightFacts, OwnEdit DEF Written, Deletes, Erases, Kind
      <4> QED BY <1>2, <4>1 DEF DeletedBy
    <3>2. CASE f.kind = "del" /\ f.op = 0 /\ i \notin asked
      <4>1. row[i].flag = "deleted"
        <5>1. f.phase = "deleted"
          BY <1>4, <3>2, FlightFacts DEF Erases
        <5> QED BY <1>1, <1>4, <3>2, <5>1 DEF FlightAlone, PlayAlone
      <4>2. PICK e \in 1..Len(edits) : edits[e].item = i /\ edits[e].kind = "delete"
        BY <2>1, <3>2, <4>1 DEF KeptItem, DeletedBy
      <4>3. e \in stored'
        BY <1>1, <3>2, <4>2 DEF Written, Deletes
      <4> QED BY <1>2, <4>2, <4>3 DEF DeletedBy
    <3> QED BY <3>1, <3>2
  <2>6. KeptItem(i)'
    BY <1>2, <1>3, <2>1, <2>2, <2>3, <2>4, <2>5 DEF KeptItem, DeletedBy
  <2> QED BY <1>2, <2>6 DEF KeptStep
<1>8. ASSUME SameInv PROVE SameItem(i)'
  <2>1. ItemAlone(i) /\ info[i] \in Int
    BY <1>2, ItemFacts
  <2>2. info[i] # server'[i].tag
    BY <1>2, <2>1 DEF ItemAlone
  <2> QED BY <1>2, <2>2 DEF SameItem
<1> QED BY <1>1, <1>5, <1>6, <1>7, <1>8 DEF ItemKeeps

LEMMA WrittenKeeps ==
    ASSUME Alone, NEW f \in flights, f.kind \in {"put", "del"}, NEW E, Written(f, E), Served,
           NEW g, Answered(f, g), Becomes(f, g), g.out \in {"ok", "unavailable"}
    PROVE  Keeps
<1>1. /\ FlightAlone(f) /\ DataInv /\ FlightsInv /\ Request(f) /\ ~IsSync(f) /\ flights' = {g}
      /\ ~IsRead(g) /\ ~Recaching(f) /\ ~Recaching(g) /\ ~IsSync(g)
  BY OnlyOne DEF Request, IsSync, IsRead, Recaching, Becomes, Answered
<1>2. /\ f.item \in Items /\ changes \in Nat /\ changes' = changes + 1
      /\ server'[f.item].v = (IF f.kind = "put" THEN f.v ELSE 0)
      /\ server'[f.item].tag = changes + 1 /\ stored \subseteq stored'
      /\ UNCHANGED <<row, meta, info, edits, told, asked, offline>>
      /\ \A i \in Items : i # f.item => server'[i] = server[i]
  BY WrittenFacts DEF Served
<1>3. \A i \in Items : ItemKeeps(i)
  BY OthersKeep, WrittenItemKeeps
<1>4. ASSUME NEW i \in Items PROVE OnceStep(i)
  <2>1. CASE i # f.item
    BY <1>2, <2>1 DEF OnceStep
  <2>2. CASE i = f.item /\ f.kind = "put"
    <3>1. Matches(f)
      BY <2>2 DEF Written
    <3> QED BY <1>2, <2>2, <3>1, WrittenOnce DEF OnceStep
  <2>3. CASE i = f.item /\ f.kind = "del"
    BY <1>2, <2>3 DEF OnceStep
  <2> QED BY <2>1, <2>2, <2>3
<1>5. Behind(f.item)'
  <2>1. ItemAlone(f.item) /\ info[f.item] \in Int
    BY <1>2, ItemFacts
  <2> QED BY <1>2, <2>1 DEF Behind, ItemAlone
<1>6. EditAlone(g)' /\ PlayAlone(g)' /\ PutAlone(g)'
  <2>1. EditAlone(g)'
    BY <1>1, <1>2, <1>5 DEF FlightAlone, EditAlone, Answered, Kind, Visible, Request
  <2>2. PlayAlone(g)'
    BY <1>1, <1>2 DEF FlightAlone, PlayAlone, Answered, Request, IsSync
  <2>3. PutAlone(g)'
    BY <1>1, <1>2 DEF FlightAlone, PutAlone, Answered, Kind
  <2> QED BY <2>1, <2>2, <2>3
<1>7. FlightAlone(g)'
  BY <1>1, <1>6 DEF FlightAlone, ReadAlone, IsRead
<1>8. ASSUME CalmInv PROVE CalmFlight(g)'
  <2>1. CalmFlight(f)
    BY <1>8, OnlyOne
  <2> QED BY <1>1, <1>2, <2>1 DEF CalmFlight, Answered, Kind, IsRead
<1>9. ASSUME KeptInv PROVE KeptFlight(g)'
  <2>1. KeptFlight(f) /\ CalmFlight(f)
    BY <1>9, OnlyOne
  <2>2. g.kind = "put" => Carried(g)'
    <3>1. CASE f.kind = "put"
      <4>1. f.v \in stored'
        BY <3>1, PutFacts DEF Written
      <4>2. CASE f.op = 0
        BY <1>1, <2>1, <3>1, <4>1, <4>2, PutFacts DEF Carried, Answered, CalmFlight
      <4>3. CASE f.op # 0
        <5>1. Kind(f) \in {"add", "modify", "delete"}
          <6>1. f.op \in 1..Len(edits)
            BY <4>3, OwnEdit
          <6>2. edits[f.op] \in [kind : Kinds, item : Items, base : Int]
            BY <1>1, <6>1, ElementOfSeq DEF DataInv
          <6> QED BY <6>2, ConstantsAssumption DEF Kind
        <5>2. Kind(f) = "modify"
          BY <1>1, <2>1, <3>1, <4>3, <5>1 DEF FlightAlone, EditAlone, CalmFlight
        <5> QED BY <1>2, <3>1, <4>1, <4>3, <5>2, PutFacts DEF Carried, Answered, Kind
      <4> QED BY <4>2, <4>3
    <3> QED BY <3>1 DEF Answered
  <2>3. ASSUME f.op = 0, ~offline PROVE PlayKept(g)'
    <3>1. PlayKept(f)
      BY <1>1, <2>1, <2>3 DEF KeptFlight
    <3>2. Pending(g, f.item) /\ \A i : Pending(f, i) => Pending(g, i)
      BY <1>1 DEF Pending, Answered, Request
    <3>3. ASSUME NEW i \in Items \ asked
          PROVE  /\ row[i].flag = "modified" /\ PlaysModified(f) =>
                       row[i].v \in stored' \/ Pending(g, i)
                 /\ row[i].flag = "deleted" /\ PlaysDeleted(f) =>
                       server'[i].v = 0 \/ Pending(g, i)
      BY <1>2, <3>1, <3>2 DEF PlayKept
    <3> QED BY <1>2, <3>3 DEF PlayKept, PlaysModified, PlaysDeleted, Pending, Request, Answered
  <2>4. g.kind = "del" => server'[g.item].v = 0
    BY <1>2 DEF Answered
  <2> QED BY <1>1, <1>2, <2>1, <2>2, <2>3, <2>4 DEF KeptFlight, Answered
<1>10. ASSUME SameInv PROVE SameFlight(g)'
  BY <1>1, <1>2 DEF SameFlight, Answered
<1>11. FlightKeeps(g)
  BY <1>7, <1>8, <1>9, <1>10 DEF FlightKeeps
<1>12. LeftStays
  BY DEF Served
<1> QED BY <1>1, <1>3, <1>4, <1>11, <1>12, AllKeep

LEMMA FaultLeft ==
    ASSUME DataInv, left' = left \/ left' = [left EXCEPT !.faults = @ - 1]
    PROVE  LeftStays
BY DEF DataInv, LeftStays

LEMMA RefusedKeeps ==
    ASSUME Alone, NEW f \in flights, Requesting(f), NEW o \in Outs, Answer(f, o),
           Served, UNCHANGED <<server, changes, stored>>,
           o # "ok" \/ (f.kind = "del" /\ server[f.item].v = 0),
           KeptInv => o # "error" /\ (o = "unavailable" => offline)
    PROVE  Keeps
<1>1. PICK g : g = [f EXCEPT !.out = o]
  OBVIOUS
<1>2. Answered(f, g) /\ g.out = o
  BY <1>1, AnswerFields, OnlyOne
<1>3. Becomes(f, g)
  BY <1>1 DEF Answer
<1>4. ~IsRead(g) /\ (g.kind = f.kind)
  BY <1>2 DEF IsRead, Answered
<1> QED BY <1>2, <1>3, <1>4, RepliedKeeps

LEMMA FailsKeeps ==
    ASSUME Alone, NEW f \in flights, Requesting(f), Fails(f),
           UNCHANGED <<row, meta, info, offline, edits, told, asked>>
    PROVE  Keeps
<1>1. PICK o \in {"unavailable", "error"} :
        /\ Answer(f, o)
        /\ \/ offline /\ o = "unavailable" /\ left' = left
           \/ /\ Faults \cap {"unavailable", "error"} # {}
              /\ left' = [left EXCEPT !.faults = @ - 1]
  BY DEF Fails, Fault
<1>2. Served /\ UNCHANGED <<server, changes, stored>>
  BY <1>1, FaultLeft, OnlyOne DEF Served, Fails, collection
<1>3. KeptInv => o # "error" /\ (o = "unavailable" => offline)
  BY <1>1 DEF KeptInv
<1>4. o \in Outs /\ o # "ok"
  BY DEF Outs
<1> QED BY <1>1, <1>2, <1>3, <1>4, RefusedKeeps

LEMMA SucceedsKeeps ==
    ASSUME Alone, NEW f \in flights, f.kind \in {"put", "del"}, NEW v, NEW E, Succeeds(f, v, E),
           f.kind = "put" => v = f.v /\ Matches(f) /\ E = {f.v} \cap Nat,
           f.kind = "del" => v = 0 /\ E = Deletes(f),
           UNCHANGED <<row, meta, info, offline, edits, told, asked>>
    PROVE  Keeps
<1>1. PICK o \in {"ok", "unavailable"} :
        Answer(f, o) /\ (left' = left \/ left' = [left EXCEPT !.faults = @ - 1])
  BY DEF Succeeds, Fault
<1>2. Served
  BY <1>1, FaultLeft, OnlyOne DEF Served
<1>3. Written(f, E)
  BY DEF Succeeds, Change, Written
<1>4. PICK g : g = [f EXCEPT !.out = o]
  OBVIOUS
<1>5. o \in Outs
  BY DEF Outs
<1>6. Answered(f, g) /\ g.out = o
  BY <1>4, <1>5, AnswerFields, OnlyOne
<1>7. Becomes(f, g)
  BY <1>1, <1>4 DEF Answer
<1> QED BY <1>2, <1>3, <1>6, <1>7, WrittenKeeps

LEMMA ServeWriteKeeps ==
    ASSUME Alone, NEW f \in flights, ServePut(f) \/ ServeDelete(f)
    PROVE  Keeps
<1>1. /\ f.kind \in {"put", "del"} /\ Requesting(f) /\ DataInv
      /\ UNCHANGED <<row, meta, info, offline, edits, told, asked>>
  BY OnlyOne DEF ServePut, ServeDelete, Asked, Requesting, Request, cache, users
<1>2. CASE Fails(f)
  BY <1>1, <1>2, FailsKeeps
<1>3. ASSUME NEW o \in {"ok", "conflict"}, Refuses(f, o),
             o = "ok" => f.kind = "del" /\ server[f.item].v = 0
      PROVE  Keeps
  <2>1. /\ Answer(f, o) /\ Served /\ UNCHANGED <<server, changes, stored>> /\ o \in Outs
        /\ o # "error" /\ o # "unavailable" /\ (o # "ok" \/ (f.kind = "del" /\ server[f.item].v = 0))
    BY <1>1, <1>3 DEF Refuses, Served, LeftStays, collection, Outs
  <2> QED BY <1>1, <2>1, RefusedKeeps
<1>4. CASE ServePut(f)
  <2>1. f.kind = "put"
    BY <1>4 DEF ServePut, Asked
  <2>2. CASE Matches(f) /\ Succeeds(f, f.v, {f.v} \cap Nat)
    <3>1. PICK v, E : v = f.v /\ E = {f.v} \cap Nat
      OBVIOUS
    <3> QED BY <1>1, <2>1, <2>2, <3>1, SucceedsKeeps
  <2> QED BY <1>2, <1>3, <1>4, <2>2 DEF ServePut
<1>5. CASE ServeDelete(f)
  <2>1. f.kind = "del"
    BY <1>5 DEF ServeDelete, Asked
  <2>2. CASE Succeeds(f, 0, Deletes(f))
    <3>1. PICK v, E : v = 0 /\ E = Deletes(f)
      OBVIOUS
    <3> QED BY <1>1, <2>1, <2>2, <3>1, SucceedsKeeps
  <2> QED BY <1>2, <1>3, <1>5, <2>1, <2>2 DEF ServeDelete
<1> QED BY <1>4, <1>5

LEMMA ServeReadKeeps ==
    ASSUME Alone, NEW f \in flights, ServeRead(f)
    PROVE  Keeps
<1>1. /\ f.kind \in {"head", "fetch", "sync", "get"} /\ Requesting(f) /\ DataInv /\ FlightsInv
      /\ UNCHANGED <<row, meta, info, offline, edits, told, asked>>
  BY OnlyOne DEF ServeRead, Asked, Requesting, Request, cache, users
<1>2. CASE Fails(f)
  BY <1>1, <1>2, FailsKeeps
<1>3. CASE Fault(f, "token", "token") /\ UNCHANGED <<collection, stored>>
  <2>1. PICK o : o = "token"
    OBVIOUS
  <2>2. /\ Answer(f, o) /\ Served /\ UNCHANGED <<server, changes, stored>> /\ o \in Outs
        /\ o \notin {"error", "unavailable", "ok"}
    BY <1>1, <1>3, <2>1, FaultLeft DEF Fault, Served, collection, Outs
  <2> QED BY <1>1, <2>2, RefusedKeeps
<1>4. ASSUME NEW u, Becomes(f, [f EXCEPT !.out = "ok", !.data = server, !.upto = u]),
             UNCHANGED <<collection, left, stored>>
      PROVE  Keeps
  <2>1. PICK d, g : d = server /\ g = ReadAnswer(f, d, u)
    OBVIOUS
  <2>2. Answered(f, g) /\ g.out = "ok" /\ g.data = d
    BY <1>1, <2>1, ReadFields
  <2>3. Becomes(f, g) /\ Served /\ UNCHANGED <<server, changes, stored>>
    BY <1>1, <1>4, <2>1 DEF Served, LeftStays, collection, ReadAnswer
  <2>4. IsRead(g)
    BY <1>1, <2>2 DEF IsRead, Answered
  <2> QED BY <1>1, <2>1, <2>2, <2>3, <2>4, RepliedKeeps
<1>5. CASE /\ Becomes(f, [f EXCEPT !.out = "ok", !.data = server,
                                   !.upto = IF f.kind = "sync" THEN changes ELSE @])
           /\ UNCHANGED <<collection, left, stored>>
  <2>1. PICK u : u = IF f.kind = "sync" THEN changes ELSE f.upto
    OBVIOUS
  <2>2. Becomes(f, [f EXCEPT !.out = "ok", !.data = server, !.upto = u])
    BY <1>5, <2>1
  <2> QED BY <1>4, <1>5, <2>2
<1> QED BY <1>2, <1>3, <1>5 DEF ServeRead

-----------------------------------------------------------------------------
(* The user's edits, which begin when nothing is under way.                  *)

Edited(k, i, status, S, n) ==
    /\ flights = {} /\ flights' = S /\ k \in Kinds /\ n \in Nat
    /\ Len(edits') = n + 1 /\ edits'[n + 1].kind = k /\ edits'[n + 1].item = i
    /\ \A e \in 1..n : edits'[e] = edits[e] /\ told'[e] = told[e]
    /\ told'[n + 1] = status /\ stored \subseteq 1..n
    /\ UNCHANGED <<server, changes, meta, info, offline, left, stored, asked>>

LEMMA EditFacts ==
    ASSUME Alone, NEW k, NEW i \in Items, NEW status, status \in {"ok", "wait"}, NEW S,
           Edit(k, i, status, S), NEW n, n = Len(edits)
    PROVE  Edited(k, i, status, S, n)
<1>1. DataInv /\ n \in Nat
  BY EditCount DEF Alone, CachedInv
<1>2. PICK b, e : b = Base(i) /\ e = [kind |-> k, item |-> i, base |-> b]
  OBVIOUS
<1>3. /\ flights = {} /\ flights' = flights \cup S /\ k \in Kinds
      /\ edits' = Append(edits, e) /\ told' = Append(told, status)
      /\ UNCHANGED <<server, changes, meta, info, offline, left, stored, asked>>
  BY <1>2 DEF Edit, Alone, collection, history
<1>4. /\ Len(edits') = n + 1 /\ edits'[n + 1] = e /\ \A d \in 1..n : edits'[d] = edits[d]
  <2>1. e \in [kind : Kinds, item : Items, base : Int]
    BY <1>1, <1>2, <1>3, BaseIsInt
  <2> QED BY <1>1, <1>3, <2>1, AppendProperties DEF DataInv
<1>5. told'[n + 1] = status /\ \A d \in 1..n : told'[d] = told[d]
  <2>1. PICK q, T : q = told /\ T = {"wait", "ok", "failed", "cut"}
    OBVIOUS
  <2>2. q \in Seq(T) /\ status \in T /\ Len(q) = n
    BY <1>1, <2>1 DEF DataInv
  <2>3. Append(q, status)[n + 1] = status /\ \A d \in 1..n : Append(q, status)[d] = q[d]
    BY <1>1, <2>2, AppendProperties
  <2> QED BY <1>3, <2>1, <2>3
<1>6. stored \subseteq 1..n
  BY <1>1 DEF DataInv
<1>7. edits'[n + 1].kind = k /\ edits'[n + 1].item = i
  BY <1>2, <1>4
<1>8. flights = {} /\ flights' = S
  BY <1>3 DEF Alone, Edit
<1> QED BY <1>1, <1>3, <1>4, <1>5, <1>6, <1>7, <1>8 DEF Edited

LEMMA NewestAfter ==
    ASSUME NEW n \in Nat, n = Len(edits), NEW i, Len(edits') = n + 1,
           edits'[n + 1].item = i, \A e \in 1..n : edits'[e] = edits[e]
    PROVE  /\ Newest(i)' = n + 1
           /\ \A j : j # i => Newest(j)' = Newest(j) /\ (NewestOk(j) => NewestOk(j)')
<1>1. Newest(i)' = n + 1
  <2>1. PICK m, S : m = n + 1 /\ S = {e \in 1..m : edits'[e].item = i}
    OBVIOUS
  <2>2. m \in Nat /\ S \in SUBSET (1..m) /\ m \in S
    BY <2>1
  <2>3. (IF S = {} THEN 0 ELSE CHOOSE e \in S : \A d \in S : d <= e) = m
    BY <2>2, LastIsNewest
  <2> QED BY <2>1, <2>3 DEF Newest
<1>2. ASSUME NEW j, j # i PROVE Newest(j)' = Newest(j) /\ (NewestOk(j) => NewestOk(j)')
  <2>1. PICK S, T : S = {e \in 1..n : edits[e].item = j} /\ T = {e \in 1..(n + 1) : edits'[e].item = j}
    OBVIOUS
  <2>2. \A e : e \in S <=> e \in T
    BY <1>2, <2>1
  <2>3. S = T
    BY <2>2
  <2>4. Newest(j) = (IF S = {} THEN 0 ELSE CHOOSE e \in S : \A d \in S : d <= e)
    BY <2>1 DEF Newest
  <2>5. Newest(j)' = (IF T = {} THEN 0 ELSE CHOOSE e \in T : \A d \in T : d <= e)
    BY <2>1 DEF Newest
  <2>6. Newest(j)' = Newest(j)
    BY <2>3, <2>4, <2>5
  <2> QED BY <2>6 DEF NewestOk
<1> QED BY <1>1, <1>2

\* An item whose row an edit leaves as it is, for now.
LEMMA EditedItemKeeps ==
    ASSUME Alone, NEW k, NEW i \in Items, NEW status, status \in {"ok", "wait"}, NEW S,
           Edit(k, i, status, S), NEW j \in Items, row'[j] = row[j],
           j = i => status = "wait"
    PROVE  ItemKeeps(j)
<1>1. PICK n : n = Len(edits)
  OBVIOUS
<1>2. /\ flights = {} /\ n \in Nat /\ Len(edits') = n + 1 /\ edits'[n + 1].item = i
      /\ \A e \in 1..n : edits'[e] = edits[e] /\ told'[e] = told[e]
      /\ told'[n + 1] = status /\ stored \subseteq 1..n
      /\ UNCHANGED <<server, changes, meta, info, stored, asked>>
  <2>1. Edited(k, i, status, S, n)
    BY <1>1, EditFacts
  <2> QED BY <2>1 DEF Edited
<1>3. row[j].v \in Int /\ row[j].v <= n
  <2>1. DataInv
    BY DEF Alone, CachedInv
  <2> QED BY <1>1, <2>1 DEF DataInv, RowsOk, Ver
<1>4. ItemAlone(j)'
  <2>1. ItemAlone(j)
    BY ItemFacts
  <2>2. row[j].v > 0 => edits'[row[j].v] = edits[row[j].v]
    BY <1>2, <1>3
  <2> QED BY <1>2, <2>1, <2>2 DEF ItemAlone, Behind
<1>5. ASSUME CalmInv PROVE CalmItem(j)'
  BY <1>5, ItemFacts DEF CalmItem
<1>6. ASSUME KeptInv PROVE KeptItem(j)' /\ KeptStep(j)
  <2>1. KeptItem(j)
    BY <1>6, ItemFacts
  <2>2. NewestOk(j)' /\ (NewestKept(j) => NewestKept(j)')
    <3>1. /\ Newest(i)' = n + 1
          /\ j # i => Newest(j)' = Newest(j) /\ (NewestOk(j) => NewestOk(j)')
      BY <1>1, <1>2, NewestAfter
    <3>2. CASE j = i
      BY <1>2, <3>1, <3>2 DEF NewestOk, NewestKept
    <3>3. CASE j # i
      <4>1. Newest(j)' = Newest(j) /\ NewestOk(j) /\ NewestOk(j)'
        BY <2>1, <3>1, <3>3 DEF KeptItem
      <4>2. Newest(j) # 0 => /\ edits'[Newest(j)] = edits[Newest(j)]
                             /\ told'[Newest(j)] = told[Newest(j)]
        BY <1>1, <1>2, <4>1 DEF NewestOk
      <4> QED BY <1>2, <4>1, <4>2 DEF NewestKept, Visible
    <3> QED BY <3>2, <3>3
  <2>3. DeletedBy(stored, j) => DeletedBy(stored, j)'
    BY <1>2 DEF DeletedBy
  <2>4. DeletedBy(1..Len(edits), j) => DeletedBy(1..Len(edits), j)'
    BY <1>1, <1>2 DEF DeletedBy
  <2>5. KeptItem(j)'
    BY <1>2, <2>1, <2>2, <2>3, <2>4 DEF KeptItem
  <2> QED BY <2>5 DEF KeptStep
<1>7. ASSUME SameInv PROVE SameItem(j)'
  BY <1>2, <1>7, ItemFacts DEF SameItem
<1> QED BY <1>4, <1>5, <1>6, <1>7 DEF ItemKeeps

LEMMA EditedKeeps ==
    ASSUME Alone, NEW k, NEW i \in Items, NEW status, status \in {"ok", "wait"}, NEW S,
           Edit(k, i, status, S), \A j \in Items : ItemKeeps(j),
           S = {} \/ \E g : S = {g} /\ FlightKeeps(g)
    PROVE  Keeps
<1>1. PICK n : n = Len(edits)
  OBVIOUS
<1>2. flights' = S /\ UNCHANGED <<server, stored, left>>
  <2>1. Edited(k, i, status, S, n)
    BY <1>1, EditFacts
  <2> QED BY <2>1 DEF Edited
<1>3. LeftStays /\ \A j \in Items : OnceStep(j)
  BY <1>2 DEF LeftStays, OnceStep
<1>4. \A g, h \in flights' : g = h
  BY <1>2
<1>5. \A g \in flights' : FlightKeeps(g)
  BY <1>2
<1> QED BY <1>3, <1>4, <1>5, AllKeep

LEMMA NewFields ==
    ASSUME DataInv, NEW i \in Items, NEW k \in FlightKinds, NEW n, n = Len(edits) + 1
    PROVE  /\ New(k, i) \in FlightRec(n) /\ New(k, i).kind = k
           /\ New(k, i).item = i /\ New(k, i).v = n /\ New(k, i).op = n
           /\ New(k, i).out = "wait" /\ New(k, i).phase = "none"
<1>1. n \in Nat /\ n \in 0..n
  BY EditCount
<1>2. PICK h, g : h = Flight(k) /\ g = New(k, i)
  OBVIOUS
<1>3. h \in FlightRec(n) /\ h.out = "wait" /\ h.phase = "none"
  BY <1>1, <1>2, FreshFlight, FreshFields
<1>4. g = [h EXCEPT !.op = n, !.item = i, !.v = n]
  BY <1>2 DEF New
<1>5. g.out = "wait" /\ g.phase = "none"
  BY <1>3, <1>4 DEF FlightRec
<1> QED BY <1>2, <1>5, NewFlight

\* A modification and a deletion read the item's flag first.
LEMMA ReadsKeeps ==
    ASSUME Alone, NEW i \in Items, Visible(i), NEW k \in {"modify", "delete"}, NEW then \in Then,
           then \in (IF k = "delete" THEN {"delete", "erase"} ELSE {"modify", "store"}),
           NEW S, S = {ReadFlag(New("flag", i), then)}, Edit(k, i, "wait", S), row' = row
    PROVE  Keeps
<1>1. PICK n, st : n = Len(edits) /\ st = "wait"
  OBVIOUS
<1>2. st \in {"ok", "wait"} /\ Edit(k, i, st, S)
  BY <1>1
<1>3. /\ flights = {} /\ flights' = S /\ n \in Nat /\ Len(edits') = n + 1
      /\ edits'[n + 1].kind = k /\ edits'[n + 1].item = i
      /\ told'[n + 1] = st /\ stored \subseteq 1..n
      /\ UNCHANGED <<server, changes, meta, info, offline, stored, asked>>
  <2>1. Edited(k, i, st, S, n)
    BY <1>1, <1>2, EditFacts
  <2> QED BY <2>1 DEF Edited
<1>4. \A j \in Items : ItemKeeps(j)
  BY <1>1, <1>2, EditedItemKeeps
<1>5. PICK m, h, g : m = n + 1 /\ h = New("flag", i) /\ g = ReadFlag(h, then)
  OBVIOUS
<1>6. /\ g.kind = "flag" /\ g.then = then /\ g.item = i /\ g.v = m /\ g.op = m /\ g.out = "wait"
  <2>1. DataInv /\ "flag" \in FlightKinds
    BY DEF Alone, CachedInv, FlightKinds
  <2>2. /\ h \in FlightRec(m) /\ h.kind = "flag" /\ h.item = i /\ h.v = m /\ h.op = m
        /\ h.out = "wait"
    BY <1>1, <1>5, <2>1, NewFields
  <2> QED BY <1>5, <2>2 DEF ReadFlag, FlightRec
<1>7. m \in Nat /\ m # 0 /\ m \notin stored /\ Kind(g)' = k
  BY <1>3, <1>5, <1>6 DEF Kind
<1>8. ~IsRead(g) /\ ~Recaching(g) /\ ~Marking(g) /\ ~IsSync(g)
  BY <1>6 DEF IsRead, Recaching, Marking, IsSync
<1>9. EditAlone(g)'
  BY <1>3, <1>5, <1>6, <1>7, <1>8 DEF EditAlone, Visible
<1>10. FlightAlone(g)'
  BY <1>6, <1>7, <1>8, <1>9 DEF FlightAlone, ReadAlone, PlayAlone, PutAlone
<1>11. CalmFlight(g)'
  BY <1>6, <1>7, <1>8 DEF CalmFlight
<1>12. KeptFlight(g)'
  BY <1>1, <1>3, <1>5, <1>6, <1>7, <1>8 DEF KeptFlight
<1>13. SameFlight(g)'
  BY <1>6, <1>8 DEF SameFlight
<1>14. FlightKeeps(g) /\ S = {g}
  BY <1>5, <1>10, <1>11, <1>12, <1>13 DEF FlightKeeps
<1> QED BY <1>2, <1>4, <1>14, EditedKeeps

\* What the theorems about the journal leave out: the item is added.
LEMMA AddKeeps ==
    ASSUME Alone, NEW i \in Items, AddItem(i)
    PROVE  Keeps
<1>1. PICK n, m, k : n = Len(edits) /\ m = n + 1 /\ k = "add"
  OBVIOUS
<1>2. DataInv /\ n \in Nat
  BY <1>1, EditCount DEF Alone, CachedInv
<1>3. CASE /\ Edit("add", i, "ok", {})
           /\ row' = [row EXCEPT ![i] = [v |-> Len(edits) + 1, flag |-> "created"]]
  <2>1. PICK S, st, r : S = {} /\ st = "ok" /\ r = [v |-> m, flag |-> "created"]
    OBVIOUS
  <2>2. st \in {"ok", "wait"} /\ Edit(k, i, st, S) /\ row' = [row EXCEPT ![i] = r]
    BY <1>1, <1>3, <2>1
  <2>3. /\ k \in Kinds /\ edits'[m].item = i
        /\ UNCHANGED <<server, changes, meta, info, stored, asked>>
    <3>1. Edited(k, i, st, S, n)
      BY <1>1, <2>2, EditFacts
    <3> QED BY <1>1, <3>1 DEF Edited
  <2>4. row'[i] = r /\ \A j \in Items : j # i => row'[j] = row[j]
    BY <1>2, <2>2, RowIs
  <2>5. ItemAlone(i)'
    BY <1>1, <1>2, <2>1, <2>3, <2>4, ItemFacts DEF ItemAlone
  <2>6. ~CalmInv
    BY <1>1, <2>3 DEF CalmInv
  <2>7. ItemKeeps(i)
    BY <2>5, <2>6 DEF ItemKeeps, KeptInv, SameInv
  <2>8. \A j \in Items : ItemKeeps(j)
    BY <2>2, <2>4, <2>7, EditedItemKeeps
  <2> QED BY <2>1, <2>2, <2>8, EditedKeeps
<1>4. CASE /\ Edit("add", i, "wait", {[New("put", i) EXCEPT !.cond = Unknown]})
           /\ UNCHANGED row
  <2>1. PICK h, c, g, S, st : /\ h = New("put", i) /\ c = Unknown /\ g = [h EXCEPT !.cond = c]
                              /\ S = {g} /\ st = "wait"
    OBVIOUS
  <2>2. st \in {"ok", "wait"} /\ Edit(k, i, st, S) /\ row' = row
    BY <1>1, <1>4, <2>1
  <2>3. /\ k \in Kinds /\ edits'[m].item = i /\ edits'[m].kind = k /\ Len(edits') = m
        /\ stored \subseteq 1..n /\ UNCHANGED <<server, changes, meta, info, stored, asked>>
    <3>1. Edited(k, i, st, S, n)
      BY <1>1, <2>2, EditFacts
    <3> QED BY <1>1, <3>1 DEF Edited
  <2>4. /\ g.kind = "put" /\ g.item = i /\ g.v = m /\ g.op = m /\ g.out = "wait" /\ g.cond = c
    <3>1. "put" \in FlightKinds
      BY DEF FlightKinds
    <3>2. /\ h \in FlightRec(m) /\ h.kind = "put" /\ h.item = i /\ h.v = m /\ h.op = m
          /\ h.out = "wait"
      BY <1>1, <1>2, <2>1, <3>1, NewFields
    <3> QED BY <2>1, <3>2 DEF FlightRec
  <2>5. m # 0 /\ Kind(g)' = "add" /\ ~IsRead(g) /\ ~Recaching(g) /\ Request(g)
    BY <1>1, <1>2, <2>3, <2>4 DEF Kind, IsRead, Recaching, Request
  <2>6. FlightAlone(g)'
    BY <2>1, <2>3, <2>4, <2>5 DEF FlightAlone, ReadAlone, EditAlone, PlayAlone, PutAlone
  <2>7. ~CalmInv
    BY <1>1, <2>3 DEF CalmInv
  <2>8. FlightKeeps(g)
    BY <2>6, <2>7 DEF FlightKeeps, KeptInv, SameInv
  <2>9. \A j \in Items : ItemKeeps(j)
    BY <2>1, <2>2, EditedItemKeeps
  <2> QED BY <2>1, <2>2, <2>8, <2>9, EditedKeeps
<1> QED BY <1>3, <1>4 DEF AddItem

LEMMA UserKeeps ==
    ASSUME Alone, UserEdits
    PROVE  Keeps
<1>1. PICK i \in Items : AddItem(i) \/ ModifyItem(i) \/ DeleteItem(i)
  BY DEF UserEdits
<1>2. CASE ModifyItem(i)
  <2>1. PICK then, S, k : /\ then = (IF offline THEN "store" ELSE "modify") /\ k = "modify"
                          /\ S = {ReadFlag(New("flag", i), then)}
    OBVIOUS
  <2>2. Edit(k, i, "wait", S) /\ Visible(i) /\ row' = row
    BY <1>2, <2>1 DEF ModifyItem
  <2>3. then \in Then /\ then \in (IF k = "delete" THEN {"delete", "erase"} ELSE {"modify", "store"})
    BY <2>1 DEF Then
  <2> QED BY <2>1, <2>2, <2>3, ReadsKeeps
<1>3. CASE DeleteItem(i)
  <2>1. PICK then, S, k : /\ then = (IF offline THEN "erase" ELSE "delete") /\ k = "delete"
                          /\ S = {ReadFlag(New("flag", i), then)}
    OBVIOUS
  <2>2. Edit(k, i, "wait", S) /\ Visible(i) /\ row' = row
    BY <1>3, <2>1 DEF DeleteItem
  <2>3. then \in Then /\ then \in (IF k = "delete" THEN {"delete", "erase"} ELSE {"modify", "store"})
    BY <2>1 DEF Then
  <2> QED BY <2>1, <2>2, <2>3, ReadsKeeps
<1> QED BY <1>1, <1>2, <1>3, AddKeeps

-----------------------------------------------------------------------------
(* The network, the program and the other clients.                          *)

Rest == UNCHANGED <<server, changes, row, meta, edits, stored, asked>>

LEMMA RestingItemKeeps ==
    ASSUME Alone, NEW i \in Items, Rest, info' = info, told' = told, flights \subseteq flights'
    PROVE  ItemKeeps(i)
<1>1. UNCHANGED <<server, changes, row, meta, info, edits, told, stored, asked>>
  BY DEF Rest
<1>2. ItemAlone(i)'
  BY <1>1, ItemFacts DEF ItemAlone, Behind
<1>3. CalmInv => CalmItem(i)'
  BY <1>1, ItemFacts DEF CalmItem
<1>4. KeptInv => KeptItem(i)' /\ KeptStep(i)
  <2>1. Newest(i)' = Newest(i) /\ NewestOk(i)' = NewestOk(i)
    BY <1>1, SameNewest
  <2>2. NewestKept(i)' = NewestKept(i)
    BY <1>1, <2>1 DEF NewestKept, Visible
  <2> QED BY <1>1, <2>1, <2>2, ItemFacts DEF KeptItem, DeletedBy, KeptStep
<1>5. SameInv => SameItem(i)'
  BY <1>1, ItemFacts DEF SameItem
<1> QED BY <1>2, <1>3, <1>4, <1>5 DEF ItemKeeps

LEMMA RestingFlightKeeps ==
    ASSUME Alone, NEW g \in flights, Rest, info' = info, told' = told, offline' \in {offline, TRUE}
    PROVE  FlightKeeps(g)
<1>1. /\ UNCHANGED <<server, changes, row, meta, info, edits, told, stored, asked>>
      /\ ~offline' => ~offline
  <2>1. offline' = offline \/ offline'
    OBVIOUS
  <2>2. ~offline' => ~offline
    BY <2>1, Zenon
  <2> QED BY <2>2 DEF Rest
<1>2. FlightAlone(g)'
  <2>1. FlightAlone(g)
    BY OnlyOne
  <2>2. Kind(g)' = Kind(g) /\ \A i \in Items : Visible(i)' = Visible(i) /\ Behind(i)' = Behind(i)
    BY <1>1 DEF Kind, Visible, Behind
  <2>3. Behind(g.item)' = Behind(g.item) /\ Visible(g.item)' = Visible(g.item)
    BY <1>1 DEF Behind, Visible
  <2>4. ReadAlone(g)' /\ PlayAlone(g)' /\ PutAlone(g)'
    BY <1>1, <2>1, <2>2 DEF FlightAlone, ReadAlone, PlayAlone, PutAlone
  <2>5. EditAlone(g)'
    BY <1>1, <2>1, <2>2, <2>3 DEF FlightAlone, EditAlone
  <2> QED BY <2>4, <2>5 DEF FlightAlone
<1>3. CalmInv => CalmFlight(g)'
  BY <1>1, OnlyOne DEF CalmFlight, Kind
<1>4. ASSUME KeptInv PROVE KeptFlight(g)'
  <2>1. KeptFlight(g)
    BY <1>4, OnlyOne
  <2>2. Carried(g)' = Carried(g)
    BY <1>1 DEF Carried, Kind
  <2>3. \A i : Settled(i)' = Settled(i) /\ Pending(g, i)' = Pending(g, i)
    BY <1>1 DEF Settled, Pending
  <2>4. PlayKept(g)' = PlayKept(g)
    BY <1>1, <2>3 DEF PlayKept, PlaysModified, PlaysDeleted
  <2> QED BY <1>1, <2>1, <2>2, <2>3, <2>4 DEF KeptFlight
<1>5. SameInv => SameFlight(g)'
  BY <1>1, OnlyOne DEF SameFlight, Erases, Kind
<1> QED BY <1>2, <1>3, <1>4, <1>5 DEF FlightKeeps

\* Nothing but the network changes, and a playback may begin.
LEMMA RestKeeps ==
    ASSUME Alone, Rest, info' = info, told' = told, LeftStays,
           \/ flights' = flights /\ offline' \in {offline, TRUE}
           \/ flights = {} /\ (Playback \/ flights' = flights)
    PROVE  Keeps
<1>1. \A i \in Items : OnceStep(i)
  BY DEF Rest, OnceStep
<1>2. \A g, h \in flights : g = h
  BY DEF Alone, AloneInv
<1>3. CASE flights' = flights /\ offline' \in {offline, TRUE}
  <2>1. \A i \in Items : ItemKeeps(i)
    BY <1>3, RestingItemKeeps
  <2>2. \A g \in flights' : FlightKeeps(g)
    BY <1>3, RestingFlightKeeps
  <2> QED BY <1>1, <1>2, <1>3, <2>1, <2>2, AllKeep
<1>4. CASE flights = {} /\ flights' = flights
  <2>1. \A i \in Items : ItemKeeps(i)
    BY <1>4, RestingItemKeeps
  <2> QED BY <1>1, <1>4, <2>1, AllKeep
<1>5. ASSUME flights = {}, NEW p \in 1..MaxPlaybacks, flights' = flights \cup {List(p, "created")}
      PROVE  Keeps
  <2>1. PICK g, phase : g = List(p, phase) /\ phase = "created"
    OBVIOUS
  <2>2. p \in 0..MaxPlaybacks /\ phase \in Phases /\ DataInv
    BY <2>1, ConstantsAssumption DEF Phases, Alone, CachedInv
  <2>3. g.kind = "list" /\ g.op = 0 /\ g.out = "wait" /\ g.phase = phase /\ g.todo = {}
    BY <2>1, <2>2, ListFields
  <2>4. PlayKept(g)'
    BY <2>1, <2>3 DEF PlayKept, PlaysModified, PlaysDeleted
  <2>5. FlightKeeps(g)
    BY <2>1, <2>3, <2>4, ListBegins DEF Phases
  <2>6. flights' = {g}
    BY <1>5, <2>1
  <2>7. \A i \in Items : ItemKeeps(i)
    BY <1>5, RestingItemKeeps
  <2> QED BY <1>1, <2>5, <2>6, <2>7, AllKeep
<1> QED BY <1>3, <1>4, <1>5 DEF Playback

LEMMA NetworkKeeps ==
    ASSUME Alone, GoOffline \/ GoOnline \/ Refresh \/ UNCHANGED vars
    PROVE  Keeps
<1>1. Rest /\ info' = info /\ told' = told
  BY DEF GoOffline, GoOnline, Refresh, vars, Rest, collection, cache, users, history
<1>2. LeftStays
  <2>1. left' = left \/ left' = [left EXCEPT !.toggles = @ - 1]
    BY DEF GoOffline, GoOnline, Refresh, vars
  <2>2. left \in [toggles : Nat, restarts : Nat, foreign : Nat, faults : Nat]
    BY DEF Alone, CachedInv, DataInv
  <2> QED BY <2>1, <2>2 DEF LeftStays
<1>3. CASE GoOffline \/ UNCHANGED vars
  <2>1. flights' = flights /\ offline' \in {offline, TRUE}
    BY <1>3 DEF GoOffline, vars
  <2> QED BY <1>1, <1>2, <2>1, RestKeeps
<1>4. CASE GoOnline \/ Refresh
  <2>1. flights = {} /\ (Playback \/ flights' = flights)
    BY <1>4 DEF GoOnline, Refresh, Alone
  <2> QED BY <1>1, <1>2, <2>1, RestKeeps
<1> QED BY <1>3, <1>4

LEMMA RestartKeeps ==
    ASSUME Alone, Restart
    PROVE  Keeps
<1>1. /\ UNCHANGED <<server, changes, row, meta, edits, stored, asked>> /\ flights' = {}
      /\ left.restarts > 0 /\ left' = [left EXCEPT !.restarts = @ - 1]
  BY DEF Restart, collection, cache, history
<1>2. LeftStays /\ ~SameInv
  <2>1. left \in [toggles : Nat, restarts : Nat, foreign : Nat, faults : Nat]
    BY DEF Alone, CachedInv, DataInv
  <2>2. left.restarts # 0
    BY <1>1, <2>1
  <2>3. LeftStays
    BY <1>1, <2>1 DEF LeftStays
  <2> QED BY <2>2, <2>3 DEF SameInv
<1>3. \A i \in Items : info'[i] \in {meta[i], 0, -1} /\ (meta[i] # -1 => info'[i] = meta[i])
  BY DEF Restart, NoEtag, Unknown
<1>4. \A e \in 1..Len(edits) : told'[e] = "ok" => told[e] = "ok"
  <2>1. DataInv
    BY DEF Alone, CachedInv
  <2>2. told' = [e \in 1..Len(edits) |-> IF told[e] = "wait" THEN "cut" ELSE told[e]]
    BY <2>1 DEF DataInv, Restart
  <2> QED BY <2>2
<1>5. ASSUME NEW i \in Items PROVE ItemKeeps(i)
  <2>1. /\ ItemAlone(i) /\ meta[i] \in Int /\ info[i] \in Int /\ changes \in Nat
        /\ (meta[i] # -1 => info[i] = meta[i])
    BY ItemFacts DEF Unknown
  <2>2. info'[i] <= changes'
    BY <1>1, <1>3, <2>1 DEF ItemAlone
  <2>3. row[i].flag = "modified" => info'[i] = info[i]
    BY <1>3, <2>1 DEF ItemAlone
  <2>4. ItemAlone(i)'
    BY <1>1, <2>1, <2>2, <2>3 DEF ItemAlone, Behind
  <2>5. CalmInv => CalmItem(i)'
    BY <1>1, ItemFacts DEF CalmItem
  <2>6. ASSUME KeptInv PROVE KeptItem(i)' /\ KeptStep(i)
    <3>1. KeptItem(i)
      BY <2>6, ItemFacts
    <3>2. Newest(i)' = Newest(i) /\ NewestOk(i)' = NewestOk(i)
      BY <1>1, SameNewest
    <3>3. NewestKept(i) => NewestKept(i)'
      <4>1. PICK e : e = Newest(i)
        OBVIOUS
      <4>2. e # 0 => e \in 1..Len(edits)
        BY <3>1, <4>1 DEF KeptItem, NewestOk
      <4>3. e # 0 /\ told'[e] = "ok" => told[e] = "ok"
        BY <1>4, <4>2
      <4> QED BY <1>1, <3>2, <4>1, <4>3 DEF NewestKept, Visible
    <3> QED BY <1>1, <3>1, <3>2, <3>3 DEF KeptItem, DeletedBy, KeptStep
  <2> QED BY <1>2, <2>4, <2>5, <2>6 DEF ItemKeeps
<1>6. \A i \in Items : OnceStep(i)
  BY <1>1 DEF OnceStep
<1> QED BY <1>1, <1>2, <1>5, <1>6, AllKeep

\* What the theorems about the journal leave out: another client writes.
LEMMA ForeignKeeps ==
    ASSUME Alone, NEW i \in Items, ForeignWrite(i)
    PROVE  Keeps
<1>1. /\ UNCHANGED <<row, meta, info, offline, flights, edits, told, stored, asked>>
      /\ left.foreign > 0 /\ left' = [left EXCEPT !.foreign = @ - 1]
  BY DEF ForeignWrite, cache, users, history
<1>2. /\ left \in [toggles : Nat, restarts : Nat, foreign : Nat, faults : Nat]
      /\ server \in [Items -> Res(Len(edits))] /\ changes \in Nat
  BY DEF Alone, CachedInv, DataInv
<1>3. LeftStays /\ ~CalmInv
  BY <1>1, <1>2 DEF LeftStays, CalmInv
<1>4. PICK v \in {0, -(changes + 1)} : Change(i, v)
  BY DEF ForeignWrite
<1>5. /\ changes' = changes + 1 /\ server'[i].v = v /\ server'[i].tag = changes + 1
      /\ \A j \in Items : j # i => server'[j] = server[j]
  BY <1>2, <1>4 DEF Change
<1>6. ASSUME NEW j \in Items
      PROVE  ItemAlone(j)' /\ (Behind(j) => Behind(j)') /\ OnceStep(j)
  <2>1. ItemAlone(j) /\ server[j].tag \in Nat /\ info[j] \in Int
    BY ItemFacts
  <2>2. Behind(j) => Behind(j)'
    BY <1>1, <1>2, <1>5, <2>1 DEF ItemAlone, Behind
  <2>3. ItemAlone(j)'
    <3>1. /\ server'[j].tag <= changes' /\ info'[j] <= changes'
          /\ server'[j].v # 0 => server'[j].tag > 0
      BY <1>1, <1>2, <1>5, <2>1 DEF ItemAlone
    <3> QED BY <1>1, <2>1, <2>2, <3>1 DEF ItemAlone
  <2>4. OnceStep(j)
    BY <1>2, <1>4, <1>5 DEF OnceStep
  <2> QED BY <2>2, <2>3, <2>4
<1>7. ASSUME NEW g \in flights PROVE FlightAlone(g)'
  <2>1. FlightAlone(g)
    BY OnlyOne
  <2>2. ReadAlone(g)'
    <3>1. ASSUME IsRead(g), NEW j \in Items
          PROVE  g.data[j].tag <= changes' /\ (g.data[j].v # 0 => g.data[j].tag > 0)
      <4>1. g.data \in [Items -> Res(Len(edits))]
        BY OnlyOne DEF FlightsInv, Typed, FlightRec
      <4>2. g.data[j].tag \in Nat
        BY <4>1 DEF Res
      <4> QED BY <1>2, <1>5, <2>1, <3>1, <4>2 DEF FlightAlone, ReadAlone
    <3> QED BY <3>1 DEF ReadAlone, IsRead
  <2>3. PlayAlone(g)' /\ PutAlone(g)'
    BY <1>1, <2>1 DEF FlightAlone, PlayAlone, PutAlone, Kind
  <2>4. EditAlone(g)'
    <3>1. Kind(g)' = Kind(g) /\ Visible(g.item)' = Visible(g.item)
      BY <1>1 DEF Kind, Visible
    <3>2. g.op # 0 => g.item \in Items
      <4>1. DataInv
        BY OnlyOne
      <4>2. g.op # 0 => g.op \in 1..Len(edits) /\ edits[g.op].item = g.item
        BY OwnEdit
      <4>3. \A e \in 1..Len(edits) : edits[e].item \in Items
        <5>1. PICK q, E : q = edits /\ E = [kind : Kinds, item : Items, base : Int]
          OBVIOUS
        <5>2. q \in Seq(E)
          BY <4>1, <5>1 DEF DataInv
        <5>3. \A e \in 1..Len(q) : q[e] \in E
          BY <5>2, ElementOfSeq
        <5> QED BY <5>1, <5>3
      <4> QED BY <4>2, <4>3
    <3>3. g.op # 0 => (Behind(g.item) => Behind(g.item)')
      BY <1>6, <3>2
    <3> QED BY <1>1, <2>1, <3>1, <3>3 DEF FlightAlone, EditAlone
  <2> QED BY <2>2, <2>3, <2>4 DEF FlightAlone
<1>8. \A j \in Items : ItemKeeps(j)
  BY <1>3, <1>6 DEF ItemKeeps, KeptInv, SameInv
<1>9. \A g \in flights' : FlightKeeps(g)
  BY <1>1, <1>3, <1>7 DEF FlightKeeps, KeptInv, SameInv
<1>10. \A g, h \in flights' : g = h
  BY <1>1 DEF Alone, AloneInv
<1> QED BY <1>3, <1>6, <1>8, <1>9, <1>10, AllKeep

-----------------------------------------------------------------------------
(* Every step.                                                               *)

LEMMA CallbackKeeps ==
    ASSUME Alone, NEW f \in flights, Callback(f)
    PROVE  Keeps
<1>1. CASE EditOffline(f) \/ EditOnline(f) \/ EditThrows(f)
  BY <1>1, EditKeeps
<1>2. CASE DoModifyItem(f) \/ MarkModified(f) \/ DeleteOfflineItem(f)
  BY <1>2, StoreKeeps, MarkKeeps, EraseKeeps
<1>3. CASE PutDone(f) \/ PutConflicts(f) \/ DeleteDone(f) \/ HeadDone(f)
  BY <1>3, PutKeeps, DeleteKeeps
<1>4. CASE DeleteConflicts(f) \/ FetchDone(f) \/ FetchGone(f)
  BY <1>4, DeleteConflictsKeeps, FetchKeeps, FetchGoneKeeps
<1>5. CASE FetchUnchanged(f) \/ SyncFailed(f)
  BY <1>5, NobodyIsTold
<1>6. CASE ListDone(f) \/ SyncDone(f) \/ SyncAgain(f) \/ MultigetDone(f) \/ MultigetFailed(f)
  BY <1>6, ListKeeps, SyncDoneKeeps, SyncAgainKeeps, MultigetKeeps
<1> QED BY <1>1, <1>2, <1>3, <1>4, <1>5, <1>6 DEF Callback

LEMMA AloneNext ==
    ASSUME Alone, [Next]_vars
    PROVE  Keeps
<1>1. CASE Database \/ Callbacks
  BY <1>1, DbReadKeeps, CallbackKeeps DEF Database, Callbacks
<1>2. CASE Serve
  BY <1>2, ServeWriteKeeps, ServeReadKeeps DEF Serve, ServeOne
<1>3. CASE PopQueue
  BY <1>3, PopKeeps, PhaseKeeps DEF PopQueue, PopOne
<1>4. CASE UserEdits
  BY <1>4, UserKeeps
<1>5. CASE GoOffline \/ GoOnline \/ Refresh \/ UNCHANGED vars
  BY <1>5, NetworkKeeps
<1>6. CASE Restart \/ \E i \in Items : ForeignWrite(i)
  BY <1>6, RestartKeeps, ForeignKeeps
<1> QED BY <1>1, <1>2, <1>3, <1>4, <1>5, <1>6 DEF Next

LEMMA JournalInit ==
    ASSUME Init, Single
    PROVE  /\ Alone
           /\ Journal => KeptInv
           /\ Coherence => SameInv
<1>1. /\ flights = {} /\ changes = 1 /\ stored = {} /\ asked = {} /\ edits = <<>>
      /\ info = meta /\ left.foreign = MaxForeign /\ left.restarts = MaxRestarts
  BY DEF Init
<1>2. ASSUME NEW i \in Items
      PROVE  /\ i \in Existing => /\ server[i] = [v |-> -1, tag |-> 1] /\ meta[i] = 1
                                  /\ row[i] = [v |-> -1, flag |-> "none"]
             /\ i \notin Existing => /\ server[i] = [v |-> 0, tag |-> 0] /\ meta[i] = -1
                                     /\ row[i] = [v |-> 0, flag |-> "none"]
  BY DEF Init, NoRow, Unknown
<1>3. ASSUME NEW i \in Items
      PROVE  /\ row[i].flag = "none" /\ row[i].v = server[i].v /\ server[i].tag <= 1
             /\ info[i] <= 1 /\ (server[i].v # 0 => server[i].tag > 0 /\ meta[i] > 0)
  BY <1>1, <1>2
<1>4. CachedInv
  BY CachedInit
<1>5. AloneInv
  <2>1. ASSUME NEW i \in Items PROVE ItemAlone(i)
    BY <1>1, <1>3 DEF ItemAlone
  <2> QED BY <1>1, <2>1 DEF AloneInv
<1>6. ASSUME "add" \notin Kinds, MaxForeign = 0 PROVE CalmInv
  BY <1>1, <1>3, <1>6 DEF CalmInv, CalmItem
<1>7. ASSUME Journal PROVE KeptInv
  <2>1. ASSUME NEW i \in Items PROVE KeptItem(i)
    <3>1. Newest(i) = 0
      <4>1. Len(edits) = 0
        BY <1>1, EmptySeq
      <4>2. {e \in 1..Len(edits) : edits[e].item = i} = {}
        BY <4>1
      <4> QED BY <4>2 DEF Newest
    <3> QED BY <1>3, <3>1 DEF KeptItem, NewestOk, NewestKept
  <2> QED BY <1>1, <1>6, <1>7, <2>1 DEF KeptInv, Journal
<1>8. ASSUME Coherence PROVE SameInv
  <2>1. ASSUME NEW i \in Items PROVE SameItem(i)
    BY <1>3 DEF SameItem
  <2> QED BY <1>1, <1>6, <1>8, <2>1 DEF SameInv, Coherence
<1> QED BY <1>4, <1>5, <1>7, <1>8 DEF Alone, Single

LEMMA AloneLasts ==
    ASSUME Alone, [Next]_vars
    PROVE  Alone'
<1>1. CachedInv'
  BY CachedNext DEF Alone
<1> QED BY <1>1, AloneNext DEF Alone, Keeps

\* What the invariant says of the journal, once no errand is taken into account.
LEMMA EditIsKept ==
    ASSUME Alone, KeptInv, NEW i \in Items, NEW e, e = Newest(i), e # 0, told[e] = "ok"
    PROVE  /\ e \in stored \/ i \in asked \/ edits[e].kind = "delete"
                \/ (row[i].v = e /\ row[i].flag = "modified")
           /\ edits[e].kind = "delete" => ~Visible(i) \/ i \in asked
BY ItemFacts DEF KeptItem, NewestKept

\* An edit that its user was told has been made is not lost, whatever fails and however
\* often the network or the program stops: the server has it, or the user was asked, or
\* the row, with its flag, still has it (modifyOfflineItem, playbackOfflineItems).
THEOREM NoEditIsLost == ASSUME Single, Journal PROVE Spec => []EditsAreKept
<1>1. Init => Alone /\ KeptInv
  BY JournalInit
<1>2. Alone /\ KeptInv /\ [Next]_vars => Alone' /\ KeptInv'
  BY AloneNext, AloneLasts DEF Keeps
<1>3. Alone /\ KeptInv => EditsAreKept
  BY EditIsKept DEF EditsAreKept
<1> QED BY <1>1, <1>2, <1>3, PTL DEF Spec

\* What its user has deleted stays so: the sync does not bring back an item whose deletion
\* waits in the journal, and the playback does not forget it (deleteOfflineItem).
THEOREM DeletedStaysDeleted == ASSUME Single, Journal PROVE Spec => []NoResurrection
<1>1. Init => Alone /\ KeptInv
  BY JournalInit
<1>2. Alone /\ KeptInv /\ [Next]_vars => Alone' /\ KeptInv'
  BY AloneNext, AloneLasts DEF Keeps
<1>3. Alone /\ KeptInv => NoResurrection
  BY EditIsKept DEF NoResurrection
<1> QED BY <1>1, <1>2, <1>3, PTL DEF Spec

\* A step takes an item out of the journal only when the server has carried the edit out
\* or the user was asked (resetItemOfflineFlag, and the deletion of the row).
THEOREM JournalLetsGo == ASSUME Single, Journal PROVE Spec => JournalKept
<1>1. Init => Alone /\ KeptInv
  BY JournalInit
<1>2. Alone /\ KeptInv /\ [Next]_vars => Alone' /\ KeptInv'
  BY AloneNext, AloneLasts DEF Keeps
<1>3. Alone /\ KeptInv /\ [Next]_vars
        => [\A i \in Items : row[i].flag # "none" /\ row'[i].flag = "none" =>
              \/ row[i].v \in stored \/ i \in asked
              \/ row[i].flag = "created" /\ row'[i].v = 0
              \/ row[i].flag = "deleted" /\
                   \E e \in stored : edits[e].item = i /\ edits[e].kind = "delete"]_vars
  BY AloneNext DEF Keeps, KeptStep, DeletedBy
<1> QED BY <1>1, <1>2, <1>3, PTL DEF Spec, JournalKept

\* The retry of a request whose answer was lost never writes a version over itself or over
\* a later one, whoever writes and whatever fails: it carries the ETag of before, which the
\* server refuses (If-Match and If-None-Match of doModifyItem and doAdoptItem).
THEOREM NeverAppliedTwice == ASSUME Single PROVE Spec => AppliedOnce
<1>1. Init => Alone
  BY JournalInit
<1>2. Alone /\ [Next]_vars => Alone'
  BY AloneLasts
<1>3. Alone /\ [Next]_vars
        => [\A i \in Items :
              server'[i].tag # server[i].tag /\ server[i].v # 0 /\ server'[i].v > 0
                  => server'[i].v \notin stored \/ i \in asked]_vars
  BY AloneNext DEF Keeps, OnceStep
<1> QED BY <1>1, <1>2, <1>3, PTL DEF Spec, AppliedOnce

\* An item out of the journal whose ETag is the server's is in the cache as it is on the
\* server, once nothing is under way for it, whatever fails: otherwise no sync would fetch
\* it (the ETags that sync-collection and multiget answers are compared with).
THEOREM CacheIsCoherent == ASSUME Single, Coherence PROVE Spec => []CacheCoherent
<1>1. Init => Alone /\ SameInv
  BY JournalInit
<1>2. Alone /\ SameInv /\ [Next]_vars => Alone' /\ SameInv'
  BY AloneNext, AloneLasts DEF Keeps
<1>3. Alone /\ SameInv => CacheCoherent
  BY DEF SameInv, SameItem, CacheCoherent, Busy
<1> QED BY <1>1, <1>2, <1>3, PTL DEF Spec

=============================================================================
