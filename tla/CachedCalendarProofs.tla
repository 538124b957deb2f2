------------------------ MODULE CachedCalendarProofs ------------------------
(***************************************************************************)
(* The cached CalDAV calendar, proved for any number of items, edits,       *)
(* playbacks and faults and for every interleaving: the state keeps its     *)
(* types, the ETags in the database are those in memory, and the sync       *)
(* token never goes back.  With other clients of the server, too, no        *)
(* version is overwritten unseen, and the token passes over no change.      *)
(***************************************************************************)
EXTENDS CachedCalendar, SequenceTheorems, TLAPS

\* Versions of items when n edits have been made.
Ver(n) == {v \in Int : v <= n}
Res(n) == [v : Ver(n), tag : Nat]

FlightRec(n) ==
    [kind : FlightKinds, op : 0..n, play : 0..MaxPlaybacks, phase : Phases,
     todo : SUBSET [item : Items, v : Ver(n) \ {0}], item : Items \cup {NoItem}, v : Ver(n),
     cond : Int, then : Then, out : Outs, flag : Flags, data : [Items -> Res(n)],
     upto : Nat, need : SUBSET Items]

\* What a flight must know to be what it is: requests have an item and its version; the
\* flag is read for edits only and playbacks belong to none; and what deletes on the
\* server stands for a deletion.
ErrandOk(f, es) ==
    /\ f.kind \in {"put", "del", "head", "fetch", "flag"} => f.item \in Items /\ f.v # 0
    /\ f.kind \in {"list", "pop"} => f.op = 0
    /\ f.kind = "flag" => f.op # 0 /\ (f.then = "delete" => es[f.op].kind = "delete")
    /\ f.kind \in {"del", "head"} =>
         IF f.op # 0 THEN es[f.op].kind = "delete" ELSE f.phase = "deleted"

Typed(f) == f \in FlightRec(Len(edits)) /\ ErrandOk(f, edits)

RowsOk(r, n) ==
    /\ r \in [Items -> [v : Ver(n), flag : Flags]]
    /\ \A i \in Items : r[i].v = 0 => r[i].flag = "none"

DataInv ==
    /\ server \in [Items -> Res(Len(edits))] /\ changes \in Nat
    /\ RowsOk(row, Len(edits))
    /\ meta \in [Items -> Int] /\ info \in [Items -> Int] /\ token \in Int
    /\ offline \in BOOLEAN /\ syncing \in BOOLEAN
    /\ edits \in Seq([kind : Kinds, item : Items, base : Int])
    /\ told \in Seq({"wait", "ok", "failed", "cut"}) /\ Len(told) = Len(edits)
    /\ left \in [toggles : Nat, restarts : Nat, foreign : Nat, faults : Nat]
    /\ stored \subseteq 1..Len(edits) /\ asked \subseteq Items

FlightsInv == \A f \in flights : Typed(f)

\* One sync at a time: as long as its request or its multiget is under way, nothing else
\* moves the token, and what it has learnt is newer than the token it asked with.
IsSync(f) == f.kind \in {"sync", "get"}
Learnt(f) == f.kind = "get" \/ (f.kind = "sync" /\ f.out = "ok")

SyncInv ==
    /\ token <= changes
    /\ \A f \in flights : IsSync(f) => syncing
    /\ \A f, g \in flights : IsSync(f) /\ IsSync(g) => f = g
    /\ \A f \in flights : Learnt(f) => token <= f.upto /\ f.upto <= changes

CachedInv == DataInv /\ FlightsInv /\ MetaIsInfo /\ SyncInv

-----------------------------------------------------------------------------
(* Flights.                                                                  *)

LEMMA EditCount == ASSUME DataInv PROVE Len(edits) \in Nat
BY LenProperties DEF DataInv

LEMMA FreshFlight ==
    ASSUME NEW n \in Nat, NEW k \in FlightKinds
    PROVE  /\ Flight(k) \in FlightRec(n)
           /\ Flight(k).kind = k /\ Flight(k).op = 0 /\ Flight(k).out = "wait"
<1>1. PICK d : d = [i \in Items |-> [v |-> 0, tag |-> 0]]
  OBVIOUS
<1>2. d \in [Items -> Res(n)]
  BY <1>1 DEF Res, Ver
<1>3. 0 \in 0..MaxPlaybacks /\ 0 \in 0..n /\ 0 \in Ver(n)
  BY ConstantsAssumption DEF Ver
<1>4. Flight(k) = [kind |-> k, op |-> 0, play |-> 0, phase |-> "none", todo |-> {},
                   item |-> NoItem, v |-> 0, cond |-> 0, then |-> "none", out |-> "wait",
                   flag |-> "none", data |-> d, upto |-> 0, need |-> {}]
  BY <1>1 DEF Flight
<1> QED BY <1>2, <1>3, <1>4 DEF FlightRec, Phases, Then, Outs, Flags

LEMMA TurnedFlight ==
    ASSUME NEW n \in Nat, NEW f \in FlightRec(n), NEW k \in FlightKinds
    PROVE  /\ Turn(f, k) \in FlightRec(n)
           /\ Turn(f, k).kind = k /\ Turn(f, k).op = f.op /\ Turn(f, k).phase = f.phase
           /\ Turn(f, k).item = f.item /\ Turn(f, k).v = f.v /\ Turn(f, k).todo = f.todo
           /\ Turn(f, k).out = "wait"
<1>1. PICK h : h = Flight(k)
  OBVIOUS
<1>2. h \in FlightRec(n) /\ h.kind = k /\ h.out = "wait"
  BY <1>1, FreshFlight
<1>3. Turn(f, k) = [h EXCEPT !.op = f.op, !.play = f.play, !.phase = f.phase,
                             !.todo = f.todo, !.item = f.item, !.v = f.v]
  BY <1>1 DEF Turn
<1> QED BY <1>2, <1>3 DEF FlightRec

-----------------------------------------------------------------------------
(* How a step changes what is under way.                                     *)

\* A callback ends its errand, or turns it into something that is not a sync.
Turns(f) ==
    \/ flights' = flights \ {f}
    \/ \E g : Typed(g) /\ ~IsSync(g) /\ flights' = (flights \ {f}) \cup {g}

NoNewSync == \A g \in flights' : IsSync(g) => g \in flights

LEMMA TurnsTyped ==
    ASSUME FlightsInv, edits' = edits, NEW f, Turns(f)
    PROVE  FlightsInv' /\ NoNewSync
<1>1. \A g : Typed(g)' <=> Typed(g)
  BY DEF Typed
<1>2. CASE flights' = flights \ {f}
  BY <1>1, <1>2 DEF FlightsInv, NoNewSync
<1>3. CASE \E g : Typed(g) /\ ~IsSync(g) /\ flights' = (flights \ {f}) \cup {g}
  BY <1>1, <1>3 DEF FlightsInv, NoNewSync
<1> QED BY <1>2, <1>3 DEF Turns

\* The token and the syncs stay; the server may go on.
LEMMA SyncStays ==
    ASSUME DataInv, FlightsInv, SyncInv, NoNewSync, token' = token, syncing' = syncing,
           changes' \in Nat, changes <= changes'
    PROVE  SyncInv'
<1>1. ASSUME NEW f \in flights', Learnt(f) PROVE token <= f.upto /\ f.upto <= changes'
  <2>1. f \in flights
    BY <1>1 DEF Learnt, IsSync, NoNewSync
  <2>2. f.upto \in Nat /\ token \in Int /\ changes \in Nat
    BY <2>1 DEF FlightsInv, Typed, FlightRec, DataInv
  <2> QED BY <1>1, <2>1, <2>2 DEF SyncInv
<1>2. token <= changes'
  BY DEF SyncInv, DataInv
<1> QED BY <1>1, <1>2 DEF SyncInv, NoNewSync, IsSync, Learnt

LEMMA DataStays ==
    ASSUME DataInv, MetaIsInfo,
           UNCHANGED <<collection, cache, info, offline, syncing, users, left, history>>
    PROVE  DataInv' /\ MetaIsInfo'
BY DEF DataInv, RowsOk, MetaIsInfo, collection, cache, users, history

\* A callback that changes no data.
LEMMA TurnsOnly ==
    ASSUME CachedInv, NEW f, Turns(f),
           UNCHANGED <<collection, cache, info, offline, syncing, users, left, history>>
    PROVE  CachedInv'
<1>1. DataInv /\ FlightsInv /\ MetaIsInfo /\ SyncInv
  BY DEF CachedInv
<1>2. edits' = edits /\ token' = token /\ syncing' = syncing /\ changes' = changes
  BY DEF users, cache, collection
<1>3. FlightsInv' /\ NoNewSync
  BY <1>1, <1>2, TurnsTyped
<1>4. DataInv' /\ MetaIsInfo'
  BY <1>1, DataStays
<1>5. SyncInv'
  BY <1>1, <1>2, <1>3, SyncStays DEF DataInv
<1> QED BY <1>3, <1>4, <1>5 DEF CachedInv

LEMMA ToldType ==
    ASSUME NEW S, NEW q \in Seq(S), NEW k, NEW s \in S
    PROVE  [q EXCEPT ![k] = s] \in Seq(S) /\ Len([q EXCEPT ![k] = s]) = Len(q)
<1>1. Len(q) \in Nat /\ q \in [1..Len(q) -> S]
  BY LenProperties, ElementOfSeq
<1>2. [q EXCEPT ![k] = s] \in [1..Len(q) -> S]
  BY <1>1
<1> QED BY <1>1, <1>2

\* A callback that changes rows, metadata and ETags, and may tell a listener.
LEMMA TurnsRows ==
    ASSUME CachedInv, NEW f, Turns(f), RowsOk(row', Len(edits)),
           meta' \in [Items -> Int], info' \in [Items -> Int], MetaIsInfo',
           told' = told \/ \E s \in {"ok", "failed"} : f \in flights /\ Tell(f, s),
           UNCHANGED <<collection, token, offline, syncing, edits, left, stored>>,
           asked' \subseteq Items
    PROVE  CachedInv'
<1>1. DataInv /\ FlightsInv /\ MetaIsInfo /\ SyncInv
  BY DEF CachedInv
<1>2. edits' = edits /\ token' = token /\ syncing' = syncing /\ changes' = changes
  BY DEF collection
<1>3. FlightsInv' /\ NoNewSync
  BY <1>1, <1>2, TurnsTyped
<1>4. told' \in Seq({"wait", "ok", "failed", "cut"}) /\ Len(told') = Len(told)
  <2>1. told \in Seq({"wait", "ok", "failed", "cut"})
    BY <1>1 DEF DataInv
  <2>2. CASE told' = told
    BY <2>1, <2>2
  <2>3. ASSUME NEW s \in {"ok", "failed"}, f \in flights, Tell(f, s)
        PROVE  told' \in Seq({"wait", "ok", "failed", "cut"}) /\ Len(told') = Len(told)
    <3>1. PICK q, k, S : q = told /\ k = f.op /\ S = {"wait", "ok", "failed", "cut"}
      OBVIOUS
    <3>2. q \in Seq(S) /\ s \in S
      BY <2>1, <3>1
    <3>3. [q EXCEPT ![k] = s] \in Seq(S) /\ Len([q EXCEPT ![k] = s]) = Len(q)
      BY <3>2, ToldType
    <3>4. told' = [q EXCEPT ![k] = s]
      BY <2>3, <3>1 DEF Tell
    <3> QED BY <3>1, <3>3, <3>4
  <2> QED BY <2>2, <2>3
<1>5. DataInv'
  BY <1>1, <1>4 DEF DataInv, collection
<1>6. changes' \in Nat /\ changes <= changes'
  BY <1>1, <1>2 DEF DataInv
<1>7. SyncInv'
  BY <1>1, <1>2, <1>3, <1>6, SyncStays
<1> QED BY <1>3, <1>5, <1>7 DEF CachedInv


-----------------------------------------------------------------------------
(* What a callback turns its errand into.                                    *)

LEMMA FlightFacts ==
    ASSUME DataInv, FlightsInv, NEW f \in flights
    PROVE  /\ Len(edits) \in Nat /\ f \in FlightRec(Len(edits))
           /\ f.kind \in {"put", "del", "head", "fetch", "flag"} =>
                 /\ f.item \in Items
                 /\ f.v \in Int /\ f.v # 0 /\ f.v <= Len(edits)
           /\ f.kind \in {"list", "pop"} => f.op = 0
           /\ f.kind = "flag" => f.op # 0 /\ (f.then = "delete" => Kind(f) = "delete")
           /\ f.kind \in {"del", "head"} => Erases(f)
           /\ f.op \in 0..Len(edits)
BY EditCount DEF FlightsInv, Typed, ErrandOk, FlightRec, Ver, Kind, Erases

LEMMA RequestTyped ==
    ASSUME DataInv, FlightsInv, NEW f \in flights,
           NEW k \in {"put", "del", "head", "fetch"}, NEW c \in Int,
           f.item \in Items, f.v # 0, k \in {"del", "head"} => Erases(f)
    PROVE  /\ Typed(Turn(f, k)) /\ ~IsSync(Turn(f, k))
           /\ Typed([Turn(f, k) EXCEPT !.cond = c])
           /\ ~IsSync([Turn(f, k) EXCEPT !.cond = c])
<1>1. PICK n, g : n = Len(edits) /\ g = Turn(f, k)
  OBVIOUS
<1>2. n \in Nat /\ f \in FlightRec(n) /\ k \in FlightKinds
  BY <1>1, FlightFacts DEF FlightKinds
<1>3. /\ g \in FlightRec(n) /\ g.kind = k /\ g.op = f.op /\ g.phase = f.phase
      /\ g.item = f.item /\ g.v = f.v
  BY <1>1, <1>2, TurnedFlight
<1>4. ErrandOk(g, edits)
  BY <1>3 DEF ErrandOk, Erases, Kind
<1>5. PICK h : h = [g EXCEPT !.cond = c]
  OBVIOUS
<1>6. /\ h \in FlightRec(n) /\ h.kind = k /\ h.op = f.op /\ h.phase = f.phase
      /\ h.item = f.item /\ h.v = f.v
  BY <1>3, <1>5 DEF FlightRec
<1>7. ErrandOk(h, edits)
  BY <1>6 DEF ErrandOk, Erases, Kind
<1> QED BY <1>1, <1>3, <1>4, <1>5, <1>6, <1>7 DEF Typed, IsSync

LEMMA FlagTyped ==
    ASSUME DataInv, FlightsInv, NEW f \in flights, NEW then \in Then,
           f.item \in Items, f.v # 0, f.op # 0, then = "delete" => Kind(f) = "delete",
           NEW v \in Ver(Len(edits)), v # 0
    PROVE  /\ Typed(ReadFlag(Turn(f, "flag"), then))
           /\ ~IsSync(ReadFlag(Turn(f, "flag"), then))
           /\ Typed([ReadFlag(Turn(f, "flag"), then) EXCEPT !.v = v])
           /\ ~IsSync([ReadFlag(Turn(f, "flag"), then) EXCEPT !.v = v])
<1>1. PICK n, t : n = Len(edits) /\ t = Turn(f, "flag")
  OBVIOUS
<1>2. n \in Nat /\ f \in FlightRec(n) /\ "flag" \in FlightKinds
  BY <1>1, FlightFacts DEF FlightKinds
<1>3. /\ t \in FlightRec(n) /\ t.op = f.op
      /\ t.item = f.item /\ t.v = f.v
  BY <1>1, <1>2, TurnedFlight
<1>4. PICK g : g = ReadFlag(t, then)
  OBVIOUS
<1>5. /\ g \in FlightRec(n) /\ g.kind = "flag" /\ g.op = f.op /\ g.item = f.item /\ g.v = f.v
      /\ g.then = then
  BY <1>2, <1>3, <1>4 DEF FlightRec, ReadFlag
<1>6. ErrandOk(g, edits)
  BY <1>5 DEF ErrandOk, Kind
<1>7. PICK h : h = [g EXCEPT !.v = v]
  OBVIOUS
<1>8. /\ h \in FlightRec(n) /\ h.kind = "flag" /\ h.op = f.op /\ h.item = f.item /\ h.v = v
      /\ h.then = then
  BY <1>1, <1>5, <1>7 DEF FlightRec
<1>9. ErrandOk(h, edits)
  BY <1>8 DEF ErrandOk, Kind
<1> QED BY <1>1, <1>4, <1>5, <1>6, <1>7, <1>8, <1>9 DEF Typed, IsSync

LEMMA PopTyped ==
    ASSUME DataInv, FlightsInv, NEW f \in flights, f.op = 0
    PROVE  Typed(Turn(f, "pop")) /\ ~IsSync(Turn(f, "pop"))
<1>1. PICK n, g : n = Len(edits) /\ g = Turn(f, "pop")
  OBVIOUS
<1>2. n \in Nat /\ f \in FlightRec(n) /\ "pop" \in FlightKinds
  BY <1>1, FlightFacts DEF FlightKinds
<1>3. g \in FlightRec(n) /\ g.kind = "pop" /\ g.op = f.op
  BY <1>1, <1>2, TurnedFlight
<1>4. ErrandOk(g, edits)
  BY <1>3 DEF ErrandOk
<1> QED BY <1>1, <1>3, <1>4 DEF Typed, IsSync

LEMMA ListTyped ==
    ASSUME DataInv, NEW p \in 0..MaxPlaybacks, NEW ph \in Phases
    PROVE  Typed(List(p, ph)) /\ ~IsSync(List(p, ph))
<1>1. PICK n, h, g : n = Len(edits) /\ h = Flight("list") /\ g = List(p, ph)
  OBVIOUS
<1>2. n \in Nat /\ "list" \in FlightKinds
  BY <1>1, EditCount DEF FlightKinds
<1>3. h \in FlightRec(n) /\ h.kind = "list" /\ h.op = 0
  BY <1>1, <1>2, FreshFlight
<1>4. g = [h EXCEPT !.play = p, !.phase = ph]
  BY <1>1 DEF List
<1>5. g \in FlightRec(n) /\ g.kind = "list" /\ g.op = 0
  BY <1>3, <1>4 DEF FlightRec
<1>6. ErrandOk(g, edits)
  BY <1>5 DEF ErrandOk
<1> QED BY <1>1, <1>5, <1>6 DEF Typed, IsSync

\* An answer is written on the flight.
LEMMA AnswerTyped ==
    ASSUME DataInv, FlightsInv, NEW f \in flights, NEW o \in Outs, NEW fl \in Flags,
           NEW d \in [Items -> Res(Len(edits))], NEW u \in Nat
    PROVE  /\ Typed([f EXCEPT !.out = o])
           /\ Typed([f EXCEPT !.flag = fl, !.out = o])
           /\ Typed([f EXCEPT !.out = o, !.data = d, !.upto = u])
<1>1. f \in FlightRec(Len(edits)) /\ ErrandOk(f, edits)
  BY DEF FlightsInv, Typed
<1>2. [f EXCEPT !.out = o] \in FlightRec(Len(edits))
  BY <1>1 DEF FlightRec
<1>3. [f EXCEPT !.flag = fl, !.out = o] \in FlightRec(Len(edits))
  BY <1>1 DEF FlightRec
<1>4. [f EXCEPT !.out = o, !.data = d, !.upto = u] \in FlightRec(Len(edits))
  BY <1>1 DEF FlightRec
<1>5. /\ ErrandOk([f EXCEPT !.out = o], edits)
      /\ ErrandOk([f EXCEPT !.flag = fl, !.out = o], edits)
      /\ ErrandOk([f EXCEPT !.out = o, !.data = d, !.upto = u], edits)
  BY <1>1 DEF ErrandOk, FlightRec
<1> QED BY <1>2, <1>3, <1>4, <1>5 DEF Typed


-----------------------------------------------------------------------------
(* The callbacks that turn an errand and change nothing else.                *)

LEMMA FlagStep ==
    ASSUME CachedInv, NEW f \in flights, EditOffline(f) \/ EditOnline(f) \/ EditThrows(f)
    PROVE  CachedInv'
<1>1. DataInv /\ FlightsInv /\ f.kind = "flag"
  BY DEF CachedInv, EditOffline, EditOnline, Onto, EditThrows, Is, Ready
<1>2. /\ f.item \in Items /\ f.v \in Ver(Len(edits)) /\ f.v # 0 /\ f.op # 0
      /\ f.then = "delete" => Kind(f) = "delete"
  BY <1>1, FlightFacts DEF Ver
<1>3. Turns(f)
  <2>1. CASE EditOffline(f)
    <3>1. ASSUME NEW then \in {"store", "erase"}, Becomes(f, ReadFlag(Turn(f, "flag"), then))
          PROVE  Turns(f)
      <4>1. then \in Then /\ then # "delete"
        BY DEF Then
      <4>2. PICK g : g = ReadFlag(Turn(f, "flag"), then)
        OBVIOUS
      <4>3. Typed(g) /\ ~IsSync(g)
        BY <1>1, <1>2, <4>1, <4>2, FlagTyped
      <4>4. flights' = (flights \ {f}) \cup {g}
        BY <3>1, <4>2 DEF Becomes
      <4> QED BY <4>3, <4>4 DEF Turns
    <3>2. \E then \in {"store", "erase"} : Becomes(f, ReadFlag(Turn(f, "flag"), then))
      BY <2>1 DEF EditOffline
    <3> QED BY <3>1, <3>2
  <2>2. CASE EditOnline(f)
    <3>1. info[f.item] \in Int
      BY <1>1, <1>2 DEF DataInv
    <3>2. PICK k, g : /\ k \in {"put", "del"} /\ g = [Turn(f, k) EXCEPT !.cond = info[f.item]]
                      /\ flights' = (flights \ {f}) \cup {g}
                      /\ k = "del" => f.then = "delete"
      <4>1. CASE Is(f, "modify") /\ Becomes(f, [Turn(f, "put") EXCEPT !.cond = info[f.item]])
        <5>1. PICK k, h : k = "put" /\ h = [Turn(f, k) EXCEPT !.cond = info[f.item]]
          OBVIOUS
        <5>2. flights' = (flights \ {f}) \cup {h} /\ k \in {"put", "del"} /\ k # "del"
          BY <4>1, <5>1 DEF Becomes
        <5> QED BY <5>1, <5>2
      <4>2. CASE Is(f, "delete") /\ Becomes(f, [Turn(f, "del") EXCEPT !.cond = info[f.item]])
        BY <4>2 DEF Becomes, Is
      <4> QED BY <2>2, <4>1, <4>2 DEF EditOnline, Onto
    <3>3. k \in {"del", "head"} => Erases(f)
      BY <1>2, <3>2 DEF Erases
    <3>4. Typed(g) /\ ~IsSync(g)
      BY <1>1, <1>2, <3>1, <3>2, <3>3, RequestTyped
    <3> QED BY <3>2, <3>4 DEF Turns
  <2>3. CASE EditThrows(f)
    BY <2>3 DEF EditThrows, Done, Turns
  <2> QED BY <2>1, <2>2, <2>3
<1>4. UNCHANGED <<collection, cache, info, offline, syncing, users, left, history>>
  BY DEF EditOffline, EditOnline, EditThrows
<1> QED BY <1>3, <1>4, TurnsOnly

LEMMA DbReadStep ==
    ASSUME CachedInv, NEW f \in flights, DbRead(f)
    PROVE  CachedInv'
<1>1. DataInv /\ FlightsInv /\ f.kind = "flag"
  BY DEF CachedInv, DbRead
<1>2. f.item \in Items
  BY <1>1, FlightFacts
<1>3. PICK fl, g : /\ fl = row[f.item].flag
                   /\ g = [f EXCEPT !.flag = fl, !.out = "ok"]
  OBVIOUS
<1>4. fl \in Flags /\ "ok" \in Outs
  BY <1>1, <1>2, <1>3 DEF DataInv, RowsOk, Outs
<1>5. PICK d : d = [i \in Items |-> [v |-> 0, tag |-> 0]]
  OBVIOUS
<1>6. d \in [Items -> Res(Len(edits))]
  BY <1>1, <1>5, EditCount DEF Res, Ver
<1>7. Typed([f EXCEPT !.flag = fl, !.out = "ok"])
  BY <1>1, <1>4, <1>6, AnswerTyped
<1>8. g.kind = "flag"
  BY <1>1, <1>3, FlightFacts DEF FlightRec
<1>9. Turns(f)
  BY <1>3, <1>7, <1>8 DEF DbRead, Becomes, Turns, IsSync
<1>10. UNCHANGED <<collection, cache, info, offline, syncing, users, left, history>>
  BY DEF DbRead
<1> QED BY <1>9, <1>10, TurnsOnly

LEMMA FetchUnchangedStep ==
    ASSUME CachedInv, NEW f \in flights, FetchUnchanged(f) \/ DeleteConflicts(f)
    PROVE  CachedInv'
<1>1. DataInv /\ FlightsInv /\ f.kind \in {"fetch", "del"}
  BY DEF CachedInv, FetchUnchanged, DeleteConflicts, Ready
<1>2. Turns(f)
  <2>1. CASE FetchUnchanged(f)
    BY <2>1 DEF FetchUnchanged, Done, Turns
  <2>2. CASE DeleteConflicts(f)
    <3>1. f.item \in Items /\ f.v # 0 /\ Erases(f)
      BY <1>1, <2>2, FlightFacts DEF DeleteConflicts, Ready
    <3>3. Typed(Turn(f, "head")) /\ ~IsSync(Turn(f, "head"))
      <4>1. NoEtag \in Int /\ ("head" \in {"del", "head"} => Erases(f))
        BY <3>1 DEF NoEtag
      <4> QED BY <1>1, <3>1, <4>1, RequestTyped
    <3> QED BY <2>2, <3>3 DEF DeleteConflicts, Becomes, Turns
  <2> QED BY <2>1, <2>2
<1>3. UNCHANGED <<collection, cache, info, offline, syncing, users, left, history>>
  BY DEF FetchUnchanged, DeleteConflicts
<1> QED BY <1>2, <1>3, TurnsOnly

\* promptOverwrite, after a PUT, a DELETE or its HEAD.
LEMMA PromptTurns ==
    ASSUME CachedInv, NEW f \in flights, f.kind \in {"put", "head"},
           NEW k \in {"put", "del"}, k = "del" => f.kind = "head", Prompt(f, k)
    PROVE  Turns(f) /\ asked' \subseteq Items
<1>1. DataInv /\ FlightsInv
  BY DEF CachedInv
<1>2. f.item \in Items /\ f.v # 0 /\ (k \in {"del", "head"} => Erases(f))
  BY <1>1, FlightFacts
<1>3. NoEtag \in Int
  BY DEF NoEtag
<1>4. CASE Becomes(f, [Turn(f, k) EXCEPT !.cond = NoEtag])
  <2>1. PICK g : g = [Turn(f, k) EXCEPT !.cond = NoEtag]
    OBVIOUS
  <2>2. Typed(g) /\ ~IsSync(g)
    BY <1>1, <1>2, <1>3, <2>1, RequestTyped
  <2> QED BY <1>1, <1>2, <1>4, <2>1, <2>2 DEF Turns, Becomes, DataInv, Prompt
<1>5. CASE Becomes(f, Turn(f, "fetch"))
  <2>1. Typed(Turn(f, "fetch")) /\ ~IsSync(Turn(f, "fetch"))
    BY <1>1, <1>2, <1>3, RequestTyped
  <2> QED BY <1>1, <1>2, <1>5, <2>1 DEF Turns, Becomes, DataInv, Prompt
<1> QED BY <1>4, <1>5 DEF Prompt


-----------------------------------------------------------------------------
(* The callbacks that change the cache.                                      *)

LEMMA OneRow ==
    ASSUME NEW n \in Nat, NEW r, RowsOk(r, n), NEW i \in Items, NEW v \in Ver(n),
           NEW fl \in Flags, v = 0 => fl = "none"
    PROVE  RowsOk([r EXCEPT ![i] = [v |-> v, flag |-> fl]], n)
BY DEF RowsOk

LEMMA RowGone ==
    ASSUME NEW n \in Nat, NEW r, RowsOk(r, n), NEW i \in Items
    PROVE  RowsOk([r EXCEPT ![i] = NoRow], n)
<1>1. 0 \in Ver(n) /\ "none" \in Flags
  BY DEF Ver, Flags
<1> QED BY <1>1, OneRow DEF NoRow

LEMMA FlagSet ==
    ASSUME DataInv, NEW i \in Items, NEW fl \in Flags
    PROVE  RowsOk(SetFlag(i, fl), Len(edits))
BY DEF DataInv, RowsOk, SetFlag

Tells(f) == told' = told \/ \E s \in {"ok", "failed"} : Tell(f, s)

\* What a callback does to the rows, to its flight and to its listener.
Reports(f) == Turns(f) /\ RowsOk(row', Len(edits)) /\ Tells(f)

LEMMA DoneTurns == ASSUME NEW f, Done(f) PROVE Turns(f)
BY DEF Done, Turns

LEMMA PopTurns ==
    ASSUME DataInv, FlightsInv, NEW f \in flights, f.op = 0, PopNext(f) PROVE Turns(f)
BY PopTyped DEF PopNext, Becomes, Turns

LEMMA FlagTurns ==
    ASSUME DataInv, FlightsInv, NEW f \in flights, f.item \in Items, f.v # 0, f.op # 0,
           NEW then \in Then, then # "delete", NEW v \in Ver(Len(edits)), v # 0,
           \/ Becomes(f, ReadFlag(Turn(f, "flag"), then))
           \/ Becomes(f, [ReadFlag(Turn(f, "flag"), then) EXCEPT !.v = v])
    PROVE  Turns(f)
<1>1. PICK g, h : /\ g = ReadFlag(Turn(f, "flag"), then)
                  /\ h = [ReadFlag(Turn(f, "flag"), then) EXCEPT !.v = v]
  OBVIOUS
<1>2. Typed(g) /\ ~IsSync(g)
  BY <1>1, FlagTyped
<1>3. Typed(h) /\ ~IsSync(h)
  BY <1>1, FlagTyped
<1> QED BY <1>1, <1>2, <1>3 DEF Becomes, Turns

Requests == {"put", "del", "head", "fetch", "flag"}

LEMMA FailureIsReported ==
    ASSUME DataInv, FlightsInv, NEW f \in flights, f.kind \in Requests, Failed(f)
    PROVE  Reports(f) /\ row' = row /\ meta' = meta
<1>1. row' = row /\ meta' = meta
  BY DEF Failed
<1>2. Turns(f)
  BY DoneTurns, PopTurns DEF Failed
<1>3. Tells(f)
  BY DEF Failed, Tells
<1>4. RowsOk(row', Len(edits))
  BY <1>1 DEF DataInv
<1> QED BY <1>1, <1>2, <1>3, <1>4 DEF Reports

LEMMA UnavailableIsReported ==
    ASSUME DataInv, FlightsInv, NEW f \in flights, f.kind \in Requests, Unavailable(f)
    PROVE  Reports(f) /\ meta' = meta
<1>1. /\ f.item \in Items /\ f.v \in Ver(Len(edits)) /\ f.v # 0 /\ Len(edits) \in Nat
  BY FlightFacts DEF Requests, Ver
<1>2. RowsOk(row, Len(edits))
  BY DEF DataInv
<1>3. CASE /\ f.op # 0 /\ Kind(f) = "add" /\ Done(f) /\ Tell(f, "ok")
           /\ row' = [row EXCEPT ![f.item] = [v |-> f.v, flag |-> "created"]]
           /\ UNCHANGED meta
  <2>1. PICK n, r, i, v : n = Len(edits) /\ r = row /\ i = f.item /\ v = f.v
    OBVIOUS
  <2>2. "created" \in Flags /\ (v = 0 => "created" = "none")
    BY <1>1, <2>1 DEF Flags
  <2>3. n \in Nat /\ RowsOk(r, n) /\ i \in Items /\ v \in Ver(n)
    BY <1>1, <1>2, <2>1
  <2>4. RowsOk([r EXCEPT ![i] = [v |-> v, flag |-> "created"]], n)
    BY <2>2, <2>3, OneRow
  <2>5. Turns(f)
    BY <1>3, DoneTurns
  <2>6. Tells(f)
    BY <1>3 DEF Tells
  <2> QED BY <1>3, <2>1, <2>4, <2>5, <2>6 DEF Reports
<1>4. CASE /\ f.op # 0 /\ Kind(f) # "add"
           /\ Becomes(f, ReadFlag(Turn(f, "flag"),
                                  IF Kind(f) = "modify" THEN "store" ELSE "erase"))
           /\ UNCHANGED <<row, meta, told>>
  <2>1. PICK then : then = IF Kind(f) = "modify" THEN "store" ELSE "erase"
    OBVIOUS
  <2>2. then \in Then /\ then # "delete"
    BY <2>1 DEF Then
  <2>3. Turns(f)
    BY <1>1, <1>4, <2>1, <2>2, FlagTurns
  <2> QED BY <1>2, <1>4, <2>3 DEF Reports, Tells
<1>5. CASE f.op = 0 /\ PopNext(f) /\ UNCHANGED <<row, meta, told>>
  <2>1. Turns(f)
    BY <1>5, PopTurns
  <2> QED BY <1>2, <1>5, <2>1 DEF Reports, Tells
<1> QED BY <1>3, <1>4, <1>5 DEF Unavailable

LEMMA SuccessIsReported ==
    ASSUME DataInv, FlightsInv, NEW f \in flights, f.kind \in Requests,
           NEW v, NEW m, m \in [Items -> Int], ~Erases(f) => v \in Ver(Len(edits)) /\ v # 0,
           Succeeded(f, v, m)
    PROVE  /\ Reports(f) /\ meta' \in [Items -> Int]
           /\ meta' = IF Erases(f) THEN [m EXCEPT ![f.item] = Unknown] ELSE m
<1>1. f.item \in Items /\ f.v # 0 /\ Len(edits) \in Nat /\ RowsOk(row, Len(edits))
  BY FlightFacts DEF Requests, DataInv
<1>2. /\ meta' = IF Erases(f) THEN [m EXCEPT ![f.item] = Unknown] ELSE m
  BY DEF Succeeded
<1>3. meta' \in [Items -> Int]
  <2>1. PICK i, u : i = f.item /\ u = Unknown
    OBVIOUS
  <2>2. u \in Int
    BY <2>1 DEF Unknown
  <2>3. [m EXCEPT ![i] = u] \in [Items -> Int]
    BY <2>2
  <2> QED BY <1>2, <2>1, <2>3
<1>4. CASE Erases(f)
  <2>1. row' = [row EXCEPT ![f.item] = NoRow]
    BY <1>4 DEF Succeeded
  <2>2. RowsOk(row', Len(edits))
    <3>1. PICK n, r, i : n = Len(edits) /\ r = row /\ i = f.item
      OBVIOUS
    <3>2. RowsOk([r EXCEPT ![i] = NoRow], n)
      BY <1>1, <3>1, RowGone
    <3> QED BY <2>1, <3>1, <3>2
  <2>3. \/ f.op # 0 /\ Done(f) /\ Tell(f, "ok")
        \/ f.op = 0 /\ PopNext(f) /\ UNCHANGED told
    BY <1>4 DEF Succeeded
  <2>4. Turns(f)
    BY <2>3, DoneTurns, PopTurns
  <2> QED BY <1>2, <1>3, <2>2, <2>3, <2>4 DEF Reports, Tells
<1>5. CASE ~Erases(f)
  <2>1. v \in Ver(Len(edits)) /\ v # 0
    BY <1>5
  <2>2. CASE /\ f.op # 0 /\ Kind(f) = "add" /\ Done(f) /\ Tell(f, "ok")
             /\ row' = [row EXCEPT ![f.item] = [v |-> v, flag |-> "none"]]
    <3>1. PICK n, r, i : n = Len(edits) /\ r = row /\ i = f.item
      OBVIOUS
    <3>2. "none" \in Flags
      BY DEF Flags
    <3>3. n \in Nat /\ RowsOk(r, n) /\ i \in Items /\ v \in Ver(n)
      BY <1>1, <2>1, <3>1
    <3>4. RowsOk([r EXCEPT ![i] = [v |-> v, flag |-> "none"]], n)
      BY <3>2, <3>3, OneRow
    <3>5. Turns(f)
      BY <2>2, DoneTurns
    <3> QED BY <1>2, <1>3, <2>2, <3>1, <3>4, <3>5 DEF Reports, Tells
  <2>3. CASE /\ f.op # 0 /\ Kind(f) = "modify"
             /\ Becomes(f, [ReadFlag(Turn(f, "flag"), "cache") EXCEPT !.v = v])
             /\ UNCHANGED <<row, told>>
    <3>1. "cache" \in Then /\ "cache" # "delete"
      BY DEF Then
    <3>2. Turns(f)
      BY <1>1, <2>1, <2>3, <3>1, FlagTurns
    <3> QED BY <1>1, <1>2, <1>3, <2>3, <3>2 DEF Reports, Tells
  <2>4. CASE /\ f.op = 0 /\ PopNext(f) /\ row' = SetFlag(f.item, "none") /\ UNCHANGED told
    <3>1. "none" \in Flags
      BY DEF Flags
    <3>2. RowsOk(row', Len(edits))
      BY <1>1, <2>4, <3>1, FlagSet
    <3>3. Turns(f)
      BY <2>4, PopTurns
    <3> QED BY <1>2, <1>3, <2>4, <3>2, <3>3 DEF Reports, Tells
  <2> QED BY <1>5, <2>2, <2>3, <2>4 DEF Succeeded
<1> QED BY <1>4, <1>5


\* Whatever a callback reports, the rest of the state stays.
LEMMA ReportStep ==
    ASSUME CachedInv, NEW f \in flights, Reports(f),
           meta' \in [Items -> Int], info' \in [Items -> Int], MetaIsInfo',
           UNCHANGED <<collection, token, offline, syncing, edits, left, stored>>,
           asked' \subseteq Items
    PROVE  CachedInv'
<1>1. told' = told \/ \E s \in {"ok", "failed"} : f \in flights /\ Tell(f, s)
  BY DEF Reports, Tells
<1> QED BY <1>1, TurnsRows DEF Reports

\* Metadata and ETags that stay agree as before.
LEMMA SameEtags ==
    ASSUME CachedInv, UNCHANGED <<meta, info>>
    PROVE  meta' \in [Items -> Int] /\ info' \in [Items -> Int] /\ MetaIsInfo'
BY DEF CachedInv, DataInv, MetaIsInfo

LEMMA AskedStays == ASSUME CachedInv, UNCHANGED asked PROVE asked' \subseteq Items
BY DEF CachedInv, DataInv

LEMMA PutStep ==
    ASSUME CachedInv, NEW f \in flights, PutDone(f) \/ PutConflicts(f)
    PROVE  CachedInv'
<1>1. DataInv /\ FlightsInv /\ f.kind = "put" /\ f.kind \in Requests
  BY DEF CachedInv, PutDone, PutConflicts, Ready, Requests
<1>2. CASE PutDone(f)
  <2>1. Reports(f) /\ meta' = meta
    <3>1. CASE Unavailable(f)
      BY <1>1, <3>1, UnavailableIsReported
    <3>2. CASE Failed(f)
      BY <1>1, <3>2, FailureIsReported
    <3>3. CASE Becomes(f, Turn(f, "fetch")) /\ UNCHANGED <<row, meta, told>>
      <4>1. NoEtag \in Int /\ f.item \in Items /\ f.v # 0
        BY <1>1, FlightFacts DEF NoEtag
      <4>2. Typed(Turn(f, "fetch")) /\ ~IsSync(Turn(f, "fetch"))
        BY <1>1, <4>1, RequestTyped
      <4> QED BY <1>1, <3>3, <4>2 DEF Reports, Becomes, Turns, Tells, DataInv
    <3> QED BY <1>2, <3>1, <3>2, <3>3 DEF PutDone
  <2>2. UNCHANGED <<collection, token, info, offline, syncing, edits, left, stored, asked>>
    BY <1>2 DEF PutDone, history
  <2> QED BY <2>1, <2>2, SameEtags, AskedStays, ReportStep
<1>3. CASE PutConflicts(f)
  <2>1. Turns(f) /\ asked' \subseteq Items
    BY <1>1, <1>3, PromptTurns DEF PutConflicts
  <2>2. /\ UNCHANGED <<collection, token, info, offline, syncing, edits, left, stored>>
        /\ UNCHANGED <<row, meta, told>>
    BY <1>3 DEF PutConflicts, cache, users
  <2>3. Reports(f)
    BY <1>1, <2>1, <2>2 DEF Reports, Tells, DataInv
  <2> QED BY <2>1, <2>2, <2>3, SameEtags, ReportStep
<1> QED BY <1>2, <1>3

\* An item leaves the metadata: its ETag may be forgotten in memory or kept.
LEMMA EtagGone ==
    ASSUME CachedInv, NEW i \in Items, meta' = [meta EXCEPT ![i] = Unknown],
           info' = info \/ info' = [info EXCEPT ![i] = Unknown]
    PROVE  meta' \in [Items -> Int] /\ info' \in [Items -> Int] /\ MetaIsInfo'
BY DEF CachedInv, DataInv, MetaIsInfo, Unknown

LEMMA DeleteStep ==
    ASSUME CachedInv, NEW f \in flights, DeleteDone(f) \/ HeadDone(f)
    PROVE  CachedInv'
<1>1. DataInv /\ FlightsInv /\ f.kind \in {"del", "head"} /\ f.kind \in Requests
  BY DEF CachedInv, DeleteDone, HeadDone, Ready, Requests
<1>2. f.item \in Items /\ Erases(f)
  BY <1>1, FlightFacts
<1>3. meta \in [Items -> Int]
  BY <1>1 DEF DataInv
<1>4. ASSUME Succeeded(f, 0, meta) PROVE Reports(f) /\ meta' = [meta EXCEPT ![f.item] = Unknown]
  <2>1. PICK m : m = meta
    OBVIOUS
  <2>2. Succeeded(f, 0, m) /\ m \in [Items -> Int]
    BY <1>3, <1>4, <2>1
  <2>3. Reports(f) /\ meta' = [m EXCEPT ![f.item] = Unknown]
    BY <1>1, <1>2, <2>2, SuccessIsReported
  <2> QED BY <2>1, <2>3
<1>5. CASE DeleteDone(f)
  <2>1. UNCHANGED <<collection, token, offline, syncing, edits, left, stored, asked>>
    BY <1>5 DEF DeleteDone, history
  <2>2. CASE Succeeded(f, 0, meta) /\ info' = [info EXCEPT ![f.item] = Unknown]
    <3>1. Reports(f) /\ meta' = [meta EXCEPT ![f.item] = Unknown]
      BY <1>4, <2>2
    <3>2. meta' \in [Items -> Int] /\ info' \in [Items -> Int] /\ MetaIsInfo'
      BY <1>2, <2>2, <3>1, EtagGone
    <3> QED BY <2>1, <3>1, <3>2, AskedStays, ReportStep
  <2>3. CASE Unavailable(f) /\ UNCHANGED info
    <3>1. Reports(f) /\ meta' = meta
      BY <1>1, <2>3, UnavailableIsReported
    <3> QED BY <2>1, <2>3, <3>1, SameEtags, AskedStays, ReportStep
  <2>4. CASE Failed(f) /\ UNCHANGED info
    <3>1. Reports(f) /\ meta' = meta
      BY <1>1, <2>4, FailureIsReported
    <3> QED BY <2>1, <2>4, <3>1, SameEtags, AskedStays, ReportStep
  <2> QED BY <1>5, <2>2, <2>3, <2>4 DEF DeleteDone
<1>6. CASE HeadDone(f)
  <2>1. UNCHANGED <<collection, token, info, offline, syncing, edits, left, stored>>
    BY <1>6 DEF HeadDone
  <2>2. CASE Succeeded(f, 0, meta) /\ UNCHANGED asked
    <3>1. Reports(f) /\ meta' = [meta EXCEPT ![f.item] = Unknown]
      BY <1>4, <2>2
    <3>2. meta' \in [Items -> Int] /\ info' \in [Items -> Int] /\ MetaIsInfo'
      BY <1>2, <2>1, <3>1, EtagGone
    <3> QED BY <2>1, <2>2, <3>1, <3>2, AskedStays, ReportStep
  <2>3. CASE Unavailable(f) /\ UNCHANGED asked
    <3>1. Reports(f) /\ meta' = meta
      BY <1>1, <2>3, UnavailableIsReported
    <3> QED BY <2>1, <2>3, <3>1, SameEtags, AskedStays, ReportStep
  <2>4. CASE Prompt(f, "del") /\ UNCHANGED <<row, meta, told>>
    <3>1. f.kind = "head"
      BY <1>6 DEF HeadDone, Ready
    <3>2. Turns(f) /\ asked' \subseteq Items
      BY <2>4, <3>1, PromptTurns
    <3>3. Reports(f)
      BY <1>1, <2>4, <3>2 DEF Reports, Tells, DataInv
    <3> QED BY <2>1, <2>4, <3>2, <3>3, SameEtags, ReportStep
  <2> QED BY <1>6, <2>2, <2>3, <2>4 DEF HeadDone
<1> QED BY <1>5, <1>6


\* A fetched item's ETag is stored with the item and entered in memory; an item that has
\* been deleted meanwhile keeps only the entry.
LEMMA FetchedEtag ==
    ASSUME CachedInv, NEW i \in Items, NEW t \in Nat, info' = [info EXCEPT ![i] = t],
           \/ meta' = [meta EXCEPT ![i] = t]
           \/ meta' = [[meta EXCEPT ![i] = t] EXCEPT ![i] = Unknown]
    PROVE  meta' \in [Items -> Int] /\ info' \in [Items -> Int] /\ MetaIsInfo'
BY DEF CachedInv, DataInv, MetaIsInfo, Unknown

LEMMA FetchStep ==
    ASSUME CachedInv, NEW f \in flights, FetchDone(f)
    PROVE  CachedInv'
<1>1. DataInv /\ FlightsInv /\ f.kind = "fetch" /\ f.kind \in Requests
  BY DEF CachedInv, FetchDone, Ready, Requests
<1>2. f.item \in Items /\ f \in FlightRec(Len(edits))
  BY <1>1, FlightFacts
<1>3. UNCHANGED <<collection, token, offline, syncing, edits, left, stored, asked>>
  BY DEF FetchDone, history
<1>4. CASE /\ Fetched(f).v # 0 /\ info' = [info EXCEPT ![f.item] = Fetched(f).tag]
           /\ Succeeded(f, Fetched(f).v, [meta EXCEPT ![f.item] = Fetched(f).tag])
  <2>1. PICK i, v, t, m : /\ i = f.item /\ v = Fetched(f).v /\ t = Fetched(f).tag
                          /\ m = [meta EXCEPT ![f.item] = Fetched(f).tag]
    OBVIOUS
  <2>2. v \in Ver(Len(edits)) /\ v # 0 /\ t \in Nat
    BY <1>2, <1>4, <2>1 DEF Fetched, FlightRec, Res
  <2>3. m \in [Items -> Int]
    BY <1>1, <1>2, <2>1, <2>2 DEF DataInv
  <2>4. Succeeded(f, v, m)
    BY <1>4, <2>1
  <2>5. /\ Reports(f)
        /\ meta' = IF Erases(f) THEN [m EXCEPT ![f.item] = Unknown] ELSE m
    BY <1>1, <2>2, <2>3, <2>4, SuccessIsReported
  <2>6. \/ meta' = [meta EXCEPT ![i] = t]
        \/ meta' = [[meta EXCEPT ![i] = t] EXCEPT ![i] = Unknown]
    BY <2>1, <2>5
  <2>7. i \in Items /\ info' = [info EXCEPT ![i] = t]
    BY <1>2, <1>4, <2>1
  <2>8. meta' \in [Items -> Int] /\ info' \in [Items -> Int] /\ MetaIsInfo'
    BY <2>2, <2>6, <2>7, FetchedEtag
  <2> QED BY <1>3, <2>5, <2>8, AskedStays, ReportStep
<1>5. CASE Failed(f) /\ UNCHANGED info
  <2>1. Reports(f) /\ meta' = meta
    BY <1>1, <1>5, FailureIsReported
  <2> QED BY <1>3, <1>5, <2>1, SameEtags, AskedStays, ReportStep
<1> QED BY <1>4, <1>5 DEF FetchDone

\* Items that are gone from the server lose row, metadata and ETag together.
LEMMA TargetsGone ==
    ASSUME CachedInv, NEW gone, DeleteTargets(gone)
    PROVE  /\ RowsOk(row', Len(edits))
           /\ meta' \in [Items -> Int] /\ info' \in [Items -> Int] /\ MetaIsInfo'
<1>1. DataInv /\ MetaIsInfo /\ Len(edits) \in Nat
  BY EditCount DEF CachedInv
<1>2. RowsOk(row', Len(edits))
  BY <1>1 DEF DataInv, RowsOk, DeleteTargets, NoRow, Ver, Flags
<1>3. meta' \in [Items -> Int] /\ info' \in [Items -> Int]
  BY <1>1 DEF DataInv, DeleteTargets, Unknown
<1>4. MetaIsInfo'
  BY <1>1 DEF DataInv, DeleteTargets, MetaIsInfo, Unknown
<1> QED BY <1>2, <1>3, <1>4

LEMMA FetchGoneStep ==
    ASSUME CachedInv, NEW f \in flights, FetchGone(f)
    PROVE  CachedInv'
<1>1. /\ RowsOk(row', Len(edits))
      /\ meta' \in [Items -> Int] /\ info' \in [Items -> Int] /\ MetaIsInfo'
  BY TargetsGone DEF FetchGone
<1>2. /\ UNCHANGED <<collection, token, offline, syncing, edits, told, left, stored, asked>>
      /\ Turns(f)
  BY DoneTurns DEF FetchGone, users, history
<1> QED BY <1>1, <1>2, AskedStays, ReportStep DEF Reports, Tells

\* The edits of the cache that wait for the flag of their row.
LEMMA OfflineStep ==
    ASSUME CachedInv, NEW f \in flights,
           DoModifyItem(f) \/ MarkModified(f) \/ DeleteOfflineItem(f)
    PROVE  CachedInv'
<1>1. DataInv /\ FlightsInv /\ f.kind = "flag"
  BY DEF CachedInv, DoModifyItem, MarkModified, DeleteOfflineItem, Is, Ready
<1>2. /\ f.item \in Items /\ f.v \in Ver(Len(edits)) /\ f.v # 0 /\ f.op # 0
      /\ f.flag \in Flags /\ Len(edits) \in Nat /\ RowsOk(row, Len(edits))
  BY <1>1, FlightFacts DEF Ver, FlightRec, DataInv
<1>3. UNCHANGED <<collection, token, info, offline, syncing, edits, left, stored, asked>>
  BY DEF DoModifyItem, MarkModified, DeleteOfflineItem, history
<1>4. PICK n, r, i, v, fl : /\ n = Len(edits) /\ r = row /\ i = f.item /\ v = f.v
                            /\ fl = f.flag
  OBVIOUS
<1>5. CASE DoModifyItem(f)
  <2>1. RowsOk([r EXCEPT ![i] = [v |-> v, flag |-> fl]], n)
    <3>1. n \in Nat /\ RowsOk(r, n) /\ i \in Items /\ v \in Ver(n) /\ v # 0 /\ fl \in Flags
      BY <1>2, <1>4
    <3> QED BY <3>1, OneRow
  <2>2. RowsOk(row', Len(edits))
    BY <1>4, <1>5, <2>1 DEF DoModifyItem
  <2>3. Turns(f) /\ Tells(f)
    <3>1. CASE Becomes(f, ReadFlag(Turn(f, "flag"), "mark")) /\ UNCHANGED told
      <4>1. "mark" \in Then /\ "mark" # "delete"
        BY DEF Then
      <4>2. Turns(f)
        BY <1>1, <1>2, <3>1, <4>1, FlagTurns
      <4> QED BY <3>1, <4>2 DEF Tells
    <3>2. CASE Done(f) /\ Tell(f, "ok")
      BY <3>2, DoneTurns DEF Tells
    <3> QED BY <1>5, <3>1, <3>2 DEF DoModifyItem
  <2>4. meta' = meta
    BY <1>5 DEF DoModifyItem
  <2> QED BY <1>3, <2>2, <2>3, <2>4, SameEtags, AskedStays, ReportStep DEF Reports
<1>6. CASE MarkModified(f)
  <2>1. "modified" \in Flags
    BY DEF Flags
  <2>2. row' = row \/ row' = SetFlag(f.item, "modified")
    BY <1>6 DEF MarkModified
  <2>3. RowsOk(row', Len(edits))
    BY <1>1, <1>2, <2>1, <2>2, FlagSet
  <2>4. Turns(f) /\ Tells(f)
    BY <1>6, DoneTurns DEF MarkModified, Tells
  <2>5. meta' = meta
    BY <1>6 DEF MarkModified
  <2> QED BY <1>3, <2>3, <2>4, <2>5, SameEtags, AskedStays, ReportStep DEF Reports
<1>7. CASE DeleteOfflineItem(f)
  <2>1. Turns(f) /\ Tells(f)
    BY <1>7, DoneTurns DEF DeleteOfflineItem, Tells
  <2>2. CASE f.flag = "created"
    <3>1. RowsOk([r EXCEPT ![i] = NoRow], n)
      <4>1. n \in Nat /\ RowsOk(r, n) /\ i \in Items
        BY <1>2, <1>4
      <4> QED BY <4>1, RowGone
    <3>2. RowsOk(row', Len(edits))
      BY <1>4, <1>7, <2>2, <3>1 DEF DeleteOfflineItem
    <3>3. meta' = [meta EXCEPT ![f.item] = Unknown]
      BY <1>7, <2>2 DEF DeleteOfflineItem
    <3>4. meta' \in [Items -> Int] /\ info' \in [Items -> Int] /\ MetaIsInfo'
      BY <1>2, <1>3, <3>3, EtagGone
    <3> QED BY <1>3, <2>1, <3>2, <3>4, AskedStays, ReportStep DEF Reports
  <2>3. CASE f.flag # "created"
    <3>1. "deleted" \in Flags
      BY DEF Flags
    <3>2. row' = SetFlag(f.item, "deleted") /\ meta' = meta
      BY <1>7, <2>3 DEF DeleteOfflineItem
    <3>3. RowsOk(row', Len(edits))
      BY <1>1, <1>2, <3>1, <3>2, FlagSet
    <3> QED BY <1>3, <2>1, <3>2, <3>3, SameEtags, AskedStays, ReportStep DEF Reports
  <2> QED BY <2>2, <2>3
<1> QED BY <1>5, <1>6, <1>7


-----------------------------------------------------------------------------
(* The playback and the sync.                                                *)

LEMMA SyncTyped ==
    ASSUME DataInv, NEW c \in Int, NEW u \in Nat, NEW need \in SUBSET Items
    PROVE  /\ Typed([Flight("sync") EXCEPT !.cond = c])
           /\ [Flight("sync") EXCEPT !.cond = c].kind = "sync"
           /\ [Flight("sync") EXCEPT !.cond = c].out = "wait"
           /\ Typed([Flight("get") EXCEPT !.need = need, !.upto = u])
           /\ [Flight("get") EXCEPT !.need = need, !.upto = u].kind = "get"
           /\ [Flight("get") EXCEPT !.need = need, !.upto = u].upto = u
<1>1. PICK n, g, h : n = Len(edits) /\ g = Flight("sync") /\ h = Flight("get")
  OBVIOUS
<1>2. n \in Nat /\ "sync" \in FlightKinds /\ "get" \in FlightKinds
  BY <1>1, EditCount DEF FlightKinds
<1>3. /\ g \in FlightRec(n) /\ g.kind = "sync" /\ g.op = 0 /\ g.out = "wait"
      /\ h \in FlightRec(n) /\ h.kind = "get" /\ h.op = 0
  BY <1>1, <1>2, FreshFlight
<1>4. PICK a, b : a = [g EXCEPT !.cond = c] /\ b = [h EXCEPT !.need = need, !.upto = u]
  OBVIOUS
<1>5. a \in FlightRec(n) /\ a.kind = "sync" /\ a.out = "wait"
  BY <1>3, <1>4 DEF FlightRec
<1>6. b \in FlightRec(n) /\ b.kind = "get" /\ b.upto = u
  BY <1>3, <1>4 DEF FlightRec
<1>7. ErrandOk(a, edits) /\ ErrandOk(b, edits)
  BY <1>5, <1>6 DEF ErrandOk
<1> QED BY <1>1, <1>4, <1>5, <1>6, <1>7 DEF Typed

\* A playback ends and a sync begins, unless one is under way.
LEMMA SynchronizeStep ==
    ASSUME CachedInv, NEW f \in flights, ~IsSync(f), Synchronize(flights \ {f}),
           UNCHANGED <<collection, cache, info, offline, users, left, history>>
    PROVE  CachedInv'
<1>1. DataInv /\ FlightsInv /\ MetaIsInfo /\ SyncInv
  BY DEF CachedInv
<1>2. CASE syncing \/ offline
  <2>1. Turns(f) /\ UNCHANGED syncing
    BY <1>2 DEF Synchronize, Turns
  <2> QED BY <2>1, TurnsOnly
<1>3. CASE ~(syncing \/ offline)
  <2>1. PICK g : g = [Flight("sync") EXCEPT !.cond = token]
    OBVIOUS
  <2>2. token \in Int
    BY <1>1 DEF DataInv
  <2>3. Typed(g) /\ g.kind = "sync" /\ g.out = "wait"
    BY <1>1, <2>1, <2>2, SyncTyped
  <2>4. flights' = (flights \ {f}) \cup {g} /\ syncing' = TRUE
    BY <1>3, <2>1 DEF Synchronize
  <2>5. \A h \in flights : ~IsSync(h)
    BY <1>1, <1>3 DEF SyncInv
  <2>6. DataInv' /\ MetaIsInfo'
    BY <1>1, <2>4 DEF DataInv, RowsOk, MetaIsInfo, collection, cache, users, history
  <2>7. FlightsInv'
    BY <1>1, <2>3, <2>4 DEF FlightsInv, Typed, users
  <2>8. \A h \in flights' : IsSync(h) => h = g
    BY <2>4, <2>5
  <2>9. \A h \in flights' : ~Learnt(h)
    BY <2>3, <2>8 DEF Learnt, IsSync
  <2>10. SyncInv'
    BY <1>1, <2>4, <2>8, <2>9 DEF SyncInv, cache, collection
  <2> QED BY <2>6, <2>7, <2>10 DEF CachedInv
<1> QED BY <1>2, <1>3

LEMMA ListStep ==
    ASSUME CachedInv, NEW f \in flights, ListDone(f)
    PROVE  CachedInv'
<1>1. DataInv /\ FlightsInv /\ f.kind = "list" /\ ~IsSync(f)
  BY DEF CachedInv, ListDone, IsSync
<1>2. UNCHANGED <<collection, cache, info, offline, users, left, history>>
  BY DEF ListDone
<1>3. CASE Synchronize(flights \ {f})
  BY <1>1, <1>2, <1>3, SynchronizeStep
<1>4. CASE /\ UNCHANGED syncing
           /\ Becomes(f, [Turn(f, "pop") EXCEPT
                !.todo = {[item |-> i, v |-> row[i].v] :
                              i \in {j \in Items : row[j].v # 0 /\ row[j].flag = f.phase}}])
  <2>1. PICK n, g, S : /\ n = Len(edits) /\ g = Turn(f, "pop")
                       /\ S = {[item |-> i, v |-> row[i].v] :
                              i \in {j \in Items : row[j].v # 0 /\ row[j].flag = f.phase}}
    OBVIOUS
  <2>2. n \in Nat /\ f \in FlightRec(n) /\ "pop" \in FlightKinds /\ f.op = 0
    BY <1>1, <2>1, FlightFacts DEF FlightKinds
  <2>3. g \in FlightRec(n) /\ g.kind = "pop" /\ g.op = 0
    BY <2>1, <2>2, TurnedFlight
  <2>4. S \in SUBSET [item : Items, v : Ver(n) \ {0}]
    BY <1>1, <2>1 DEF DataInv, RowsOk
  <2>5. PICK h : h = [g EXCEPT !.todo = S]
    OBVIOUS
  <2>6. h \in FlightRec(n) /\ h.kind = "pop" /\ h.op = 0
    BY <2>3, <2>4, <2>5 DEF FlightRec
  <2>7. ErrandOk(h, edits)
    BY <2>6 DEF ErrandOk
  <2>8. Turns(f)
    BY <1>4, <2>1, <2>5, <2>6, <2>7 DEF Turns, Becomes, Typed, IsSync
  <2> QED BY <1>2, <1>4, <2>8, TurnsOnly
<1> QED BY <1>3, <1>4 DEF ListDone

\* popItemQueue sends the next item of its phase, or skips it.
LEMMA PopItemStep ==
    ASSUME CachedInv, NEW f \in flights, PopItemQueue(f)
    PROVE  CachedInv'
<1>1. DataInv /\ FlightsInv /\ f.kind = "pop"
  BY DEF CachedInv, PopItemQueue, Popping
<1>2. PICK t \in f.todo :
        LET g == [Turn(f, "put") EXCEPT !.item = t.item, !.v = t.v, !.todo = @ \ {t}]
            known == info[t.item] # Unknown
        IN \/ f.phase = "created" /\ Becomes(f, [g EXCEPT !.cond = Unknown])
           \/ f.phase = "modified" /\ known /\ Becomes(f, [g EXCEPT !.cond = info[t.item]])
           \/ f.phase = "deleted" /\ known
              /\ Becomes(f, [g EXCEPT !.kind = "del", !.cond = info[t.item]])
           \/ f.phase \in {"modified", "deleted"} /\ ~known
              /\ Becomes(f, [g EXCEPT !.kind = "pop"])
  BY DEF PopItemQueue
<1>3. PICK n, s, g, c : /\ n = Len(edits) /\ s = Turn(f, "put")
                        /\ g = [s EXCEPT !.item = t.item, !.v = t.v, !.todo = @ \ {t}]
                        /\ c = info[t.item]
  OBVIOUS
<1>4. n \in Nat /\ f \in FlightRec(n) /\ f.op = 0 /\ "put" \in FlightKinds
  BY <1>1, <1>3, FlightFacts DEF FlightKinds
<1>5. t.item \in Items /\ t.v \in Ver(n) \ {0}
  BY <1>4 DEF FlightRec
<1>6. c \in Int
  BY <1>1, <1>3, <1>5 DEF DataInv
<1>7. s \in FlightRec(n) /\ s.kind = "put" /\ s.op = 0 /\ s.phase = f.phase
  BY <1>3, <1>4, TurnedFlight
<1>8. /\ g \in FlightRec(n) /\ g.kind = "put" /\ g.op = 0 /\ g.phase = f.phase
      /\ g.item = t.item /\ g.v = t.v
  <2>1. PICK i, v, td : i = t.item /\ v = t.v /\ td = s.todo \ {t}
    OBVIOUS
  <2>2. i \in Items /\ v \in Ver(n) /\ td \in SUBSET [item : Items, v : Ver(n) \ {0}]
    BY <1>5, <1>7, <2>1 DEF FlightRec
  <2>3. g = [s EXCEPT !.item = i, !.v = v, !.todo = td]
    BY <1>3, <2>1
  <2> QED BY <1>7, <2>1, <2>2, <2>3 DEF FlightRec
<1>9. Turns(f)
  <2>1. ASSUME NEW d \in Int, Becomes(f, [g EXCEPT !.cond = d]) PROVE Turns(f)
    <3>1. PICK h : h = [g EXCEPT !.cond = d]
      OBVIOUS
    <3>2. /\ h \in FlightRec(n) /\ h.kind = "put" /\ h.item = t.item /\ h.v = t.v
      BY <1>8, <3>1 DEF FlightRec
    <3>3. ErrandOk(h, edits)
      BY <1>5, <3>2 DEF ErrandOk
    <3> QED BY <1>3, <2>1, <3>1, <3>2, <3>3 DEF Turns, Becomes, Typed, IsSync
  <2>2. ASSUME f.phase = "deleted", Becomes(f, [g EXCEPT !.kind = "del", !.cond = c])
        PROVE  Turns(f)
    <3>1. PICK h : h = [g EXCEPT !.kind = "del", !.cond = c]
      OBVIOUS
    <3>2. /\ h \in FlightRec(n) /\ h.kind = "del" /\ h.item = t.item /\ h.v = t.v
          /\ h.op = 0 /\ h.phase = "deleted"
      BY <1>6, <1>8, <2>2, <3>1 DEF FlightRec, FlightKinds
    <3>3. ErrandOk(h, edits)
      BY <1>5, <3>2 DEF ErrandOk
    <3> QED BY <1>3, <2>2, <3>1, <3>2, <3>3 DEF Turns, Becomes, Typed, IsSync
  <2>3. ASSUME Becomes(f, [g EXCEPT !.kind = "pop"]) PROVE Turns(f)
    <3>1. PICK h : h = [g EXCEPT !.kind = "pop"]
      OBVIOUS
    <3>2. h \in FlightRec(n) /\ h.kind = "pop" /\ h.op = 0
      BY <1>8, <3>1 DEF FlightRec, FlightKinds
    <3>3. ErrandOk(h, edits)
      BY <3>2 DEF ErrandOk
    <3> QED BY <1>3, <2>3, <3>1, <3>2, <3>3 DEF Turns, Becomes, Typed, IsSync
  <2>4. Unknown \in Int
    BY DEF Unknown
  <2> QED BY <1>2, <1>3, <1>6, <2>1, <2>2, <2>3, <2>4
<1>10. UNCHANGED <<collection, cache, info, offline, syncing, users, left, history>>
  BY DEF PopItemQueue
<1> QED BY <1>9, <1>10, TurnsOnly

LEMMA NextPhaseStep ==
    ASSUME CachedInv, NEW f \in flights, NextPhase(f)
    PROVE  CachedInv'
<1>1. DataInv /\ FlightsInv /\ f.kind = "pop" /\ ~IsSync(f)
  BY DEF CachedInv, NextPhase, Popping, IsSync
<1>2. UNCHANGED <<collection, cache, info, offline, users, left, history>>
  BY DEF NextPhase
<1>3. CASE Synchronize(flights \ {f})
  BY <1>1, <1>2, <1>3, SynchronizeStep
<1>4. ASSUME NEW ph \in Phases, Becomes(f, List(f.play, ph)), UNCHANGED syncing
      PROVE  CachedInv'
  <2>1. PICK p, g : p = f.play /\ g = List(f.play, ph)
    OBVIOUS
  <2>2. p \in 0..MaxPlaybacks
    BY <1>1, <2>1, FlightFacts DEF FlightRec
  <2>3. Typed(g) /\ ~IsSync(g)
    BY <1>1, <2>1, <2>2, ListTyped
  <2>4. Turns(f)
    BY <1>4, <2>1, <2>3 DEF Turns, Becomes
  <2> QED BY <1>2, <1>4, <2>4, TurnsOnly
<1>5. "modified" \in Phases /\ "deleted" \in Phases
  BY DEF Phases
<1> QED BY <1>3, <1>4, <1>5 DEF NextPhase


-----------------------------------------------------------------------------
(* The server.                                                               *)

Left == [toggles : Nat, restarts : Nat, foreign : Nat, faults : Nat]

\* A step of the server or of another client.
LEMMA ServerStep ==
    ASSUME CachedInv, FlightsInv', NoNewSync,
           \/ UNCHANGED collection
           \/ \E i \in Items, v \in Ver(Len(edits)) : Change(i, v),
           left' \in Left, stored' \subseteq 1..Len(edits),
           UNCHANGED <<cache, info, offline, syncing, users, asked>>
    PROVE  CachedInv'
<1>1. DataInv /\ FlightsInv /\ MetaIsInfo /\ SyncInv
  BY DEF CachedInv
<1>2. /\ server' \in [Items -> Res(Len(edits))] /\ changes' \in Nat /\ changes <= changes'
  <2>1. CASE UNCHANGED collection
    BY <1>1, <2>1 DEF DataInv, collection
  <2>2. ASSUME NEW i \in Items, NEW v \in Ver(Len(edits)), Change(i, v)
        PROVE  server' \in [Items -> Res(Len(edits))] /\ changes' \in Nat /\ changes <= changes'
    BY <1>1, <2>2 DEF DataInv, Change, Res
  <2> QED BY <2>1, <2>2
<1>3. edits' = edits /\ token' = token /\ syncing' = syncing
  BY DEF users, cache
<1>4. DataInv'
  BY <1>1, <1>2, <1>3 DEF DataInv, RowsOk, cache, users, Left
<1>5. MetaIsInfo'
  BY <1>1 DEF MetaIsInfo, cache
<1>6. SyncInv'
  BY <1>1, <1>2, <1>3, SyncStays
<1> QED BY <1>4, <1>5, <1>6 DEF CachedInv

\* A request that is not a sync's is answered.
LEMMA AnsweredTurns ==
    ASSUME DataInv, FlightsInv, NEW f \in flights, ~IsSync(f), NEW o \in Outs,
           NEW d \in [Items -> Res(Len(edits))], NEW u \in Nat,
           Answer(f, o) \/ Becomes(f, [f EXCEPT !.out = o, !.data = d, !.upto = u])
    PROVE  Turns(f)
<1>1. PICK g, h : g = [f EXCEPT !.out = o] /\ h = [f EXCEPT !.out = o, !.data = d, !.upto = u]
  OBVIOUS
<1>2. "none" \in Flags
  BY DEF Flags
<1>3. Typed(g) /\ Typed(h)
  BY <1>1, <1>2, AnswerTyped
<1>4. g.kind = f.kind /\ h.kind = f.kind
  BY <1>1, FlightFacts DEF FlightRec
<1> QED BY <1>1, <1>3, <1>4 DEF Turns, Answer, Becomes, IsSync

LEMMA WriteAnswered ==
    ASSUME CachedInv, NEW f \in flights, ~IsSync(f), NEW o \in Outs, Answer(f, o)
    PROVE  Turns(f)
<1>1. DataInv /\ FlightsInv /\ 0 \in Nat
  BY DEF CachedInv
<1>2. PICK d : d = server
  OBVIOUS
<1>3. d \in [Items -> Res(Len(edits))]
  BY <1>1, <1>2 DEF DataInv
<1> QED BY <1>1, <1>3, AnsweredTurns

LEMMA FaultLeaves ==
    ASSUME CachedInv, NEW f, NEW k, NEW o, Fault(f, k, o)
    PROVE  left' \in Left /\ Answer(f, o)
<1>1. left \in Left /\ left.faults > 0 /\ left' = [left EXCEPT !.faults = @ - 1]
  BY DEF CachedInv, DataInv, Fault, Left
<1>2. left.faults - 1 \in Nat
  BY <1>1 DEF Left
<1>3. left' \in Left
  BY <1>1, <1>2 DEF Left
<1> QED BY <1>3 DEF Fault

LEMMA OutsAre ==
    /\ "ok" \in Outs /\ "unavailable" \in Outs /\ "error" \in Outs /\ "conflict" \in Outs
    /\ "token" \in Outs
BY DEF Outs

LEMMA FailsAnswer ==
    ASSUME CachedInv, NEW f, Fails(f)
    PROVE  /\ left' \in Left /\ (Answer(f, "unavailable") \/ Answer(f, "error"))
           /\ UNCHANGED <<collection, stored>>
BY FaultLeaves DEF Fails, CachedInv, DataInv, Left

LEMMA SucceedsAnswer ==
    ASSUME CachedInv, NEW f, NEW v, NEW S, Succeeds(f, v, S)
    PROVE  /\ left' \in Left /\ (Answer(f, "unavailable") \/ Answer(f, "ok"))
           /\ Change(f.item, v) /\ stored' = stored \cup S
BY FaultLeaves DEF Succeeds, CachedInv, DataInv, Left

LEMMA WriteStep ==
    ASSUME CachedInv, NEW f \in flights, ServePut(f) \/ ServeDelete(f)
    PROVE  CachedInv'
<1>1. /\ DataInv /\ FlightsInv /\ ~IsSync(f) /\ f.kind \in {"put", "del"}
      /\ UNCHANGED <<cache, info, offline, syncing, users, asked>> /\ edits' = edits
  BY DEF CachedInv, ServePut, ServeDelete, Asked, IsSync, users
<1>2. /\ f.item \in Items /\ f.v \in Ver(Len(edits)) /\ f.v # 0 /\ Len(edits) \in Nat
      /\ f.op \in 0..Len(edits)
  BY <1>1, FlightFacts DEF Ver
<1>3. stored \subseteq 1..Len(edits) /\ left \in Left
  BY <1>1 DEF DataInv, Left
<1>4. ASSUME NEW o \in Outs, Answer(f, o) PROVE FlightsInv' /\ NoNewSync
  <2>1. Turns(f)
    BY <1>1, <1>4, WriteAnswered
  <2> QED BY <1>1, <2>1, TurnsTyped
<1>5. CASE Fails(f)
  BY <1>1, <1>3, <1>4, <1>5, FailsAnswer, OutsAre, ServerStep
<1>6. CASE \E o \in {"ok", "conflict"} : Refuses(f, o)
  BY <1>1, <1>3, <1>4, <1>6, OutsAre, ServerStep DEF Refuses
<1>7. ASSUME NEW v \in Ver(Len(edits)), NEW S \in SUBSET (1..Len(edits)), Succeeds(f, v, S)
      PROVE  CachedInv'
  <2>1. /\ left' \in Left /\ (Answer(f, "unavailable") \/ Answer(f, "ok"))
        /\ Change(f.item, v) /\ stored' = stored \cup S
    BY <1>7, SucceedsAnswer
  <2>2. stored' \subseteq 1..Len(edits)
    BY <1>3, <2>1
  <2>3. FlightsInv' /\ NoNewSync
    BY <1>4, <2>1, OutsAre
  <2> QED BY <1>1, <1>2, <2>1, <2>2, <2>3, ServerStep
<1>8. CASE ServePut(f) /\ Succeeds(f, f.v, {f.v} \cap Nat)
  <2>1. PICK v, S : v = f.v /\ S = {f.v} \cap Nat
    OBVIOUS
  <2>2. v \in Ver(Len(edits)) /\ S \in SUBSET (1..Len(edits))
    BY <1>2, <2>1 DEF Ver
  <2> QED BY <1>7, <1>8, <2>1, <2>2
<1>9. CASE ServeDelete(f) /\ Succeeds(f, 0, Deletes(f))
  <2>1. PICK S : S = Deletes(f)
    OBVIOUS
  <2>2. 0 \in Ver(Len(edits)) /\ S \in SUBSET (1..Len(edits))
    BY <1>2, <2>1 DEF Ver, Deletes
  <2> QED BY <1>7, <1>9, <2>1, <2>2
<1> QED BY <1>5, <1>6, <1>8, <1>9 DEF ServePut, ServeDelete

LEMMA ReadStep ==
    ASSUME CachedInv, NEW f \in flights, ServeRead(f)
    PROVE  CachedInv'
<1>1. /\ DataInv /\ FlightsInv /\ MetaIsInfo /\ SyncInv
      /\ UNCHANGED <<cache, info, offline, syncing, users, asked, collection, stored>>
      /\ f.kind \in {"head", "fetch", "sync", "get"} /\ f.out = "wait"
  BY FailsAnswer DEF CachedInv, ServeRead, Asked
<1>2. left' \in Left
  BY FailsAnswer, FaultLeaves DEF ServeRead, CachedInv, DataInv, Left
<1>3. PICK d, u : d = server /\ u = IF f.kind = "sync" THEN changes ELSE f.upto
  OBVIOUS
<1>4. d \in [Items -> Res(Len(edits))] /\ u \in Nat /\ f.upto \in Nat
  BY <1>1, <1>3, FlightFacts DEF DataInv, FlightRec
<1>5. PICK g : /\ flights' = (flights \ {f}) \cup {g}
               /\ \/ g = [f EXCEPT !.out = "unavailable"] \/ g = [f EXCEPT !.out = "error"]
                  \/ g = [f EXCEPT !.out = "token"]
                  \/ g = [f EXCEPT !.out = "ok", !.data = d, !.upto = u]
  <2>1. CASE Fails(f)
    BY <2>1, FailsAnswer DEF Answer, Becomes
  <2>2. CASE Fault(f, "token", "token")
    BY <2>2 DEF Fault, Answer, Becomes
  <2>3. CASE Becomes(f, [f EXCEPT !.out = "ok", !.data = server,
                                   !.upto = IF f.kind = "sync" THEN changes ELSE @])
    <3>1. flights' = (flights \ {f}) \cup {[f EXCEPT !.out = "ok", !.data = d, !.upto = u]}
      BY <1>3, <2>3 DEF Becomes
    <3> QED BY <3>1
  <2> QED BY <2>1, <2>2, <2>3 DEF ServeRead
<1>6. /\ Typed(g) /\ g.kind = f.kind
      /\ (g.out # "ok" /\ g.upto = f.upto) \/ (g.out = "ok" /\ g.upto = u)
  <2>1. "none" \in Flags
    BY DEF Flags
  <2>2. Typed(g)
    <3>1. ASSUME NEW o \in Outs
          PROVE  /\ Typed([f EXCEPT !.out = o])
                 /\ Typed([f EXCEPT !.out = o, !.data = d, !.upto = u])
      BY <1>1, <1>4, <2>1, AnswerTyped
    <3> QED BY <1>5, <3>1, OutsAre
  <2>3. f \in FlightRec(Len(edits))
    BY <1>1, FlightFacts
  <2> QED BY <1>5, <2>2, <2>3 DEF FlightRec
<1>7. edits' = edits /\ token' = token /\ changes' = changes /\ syncing' = syncing
  BY <1>1 DEF users, cache, collection
<1>8. FlightsInv'
  BY <1>1, <1>5, <1>6, <1>7 DEF FlightsInv, Typed
<1>9. DataInv' /\ MetaIsInfo'
  BY <1>1, <1>2 DEF DataInv, RowsOk, MetaIsInfo, collection, cache, users, Left
<1>10. SyncInv'
  <2>1. CASE f.kind \in {"head", "fetch"}
    <3>1. NoNewSync
      BY <1>5, <1>6, <2>1 DEF NoNewSync, IsSync
    <3>2. changes' \in Nat /\ changes <= changes'
      BY <1>1, <1>7 DEF DataInv
    <3> QED BY <1>1, <1>7, <3>1, <3>2, SyncStays
  <2>2. CASE f.kind \in {"sync", "get"}
    <3>1. syncing /\ \A h \in flights' : IsSync(h) => h = g
      BY <1>1, <1>5, <2>2 DEF SyncInv, IsSync
    <3>2. Learnt(g) => token <= g.upto /\ g.upto <= changes
      <4>1. CASE g.kind = "sync" /\ g.out = "ok"
        BY <1>1, <1>3, <1>6, <4>1 DEF SyncInv, DataInv
      <4>2. CASE g.kind = "get"
        BY <1>1, <1>3, <1>6, <4>2 DEF SyncInv, Learnt
      <4> QED BY <4>1, <4>2 DEF Learnt
    <3>3. token <= changes
      BY <1>1 DEF SyncInv
    <3>4. \A h \in flights' : Learnt(h) => IsSync(h)
      BY DEF Learnt, IsSync
    <3> QED BY <1>7, <3>1, <3>2, <3>3, <3>4 DEF SyncInv
  <2> QED BY <1>1, <2>1, <2>2
<1> QED BY <1>8, <1>9, <1>10 DEF CachedInv


-----------------------------------------------------------------------------
(* The sync's callbacks.  They alone move the token.                         *)

LEMMA SyncStep ==
    ASSUME CachedInv, NEW f \in flights, IsSync(f), RowsOk(row', Len(edits)),
           meta' \in [Items -> Int], info' \in [Items -> Int], MetaIsInfo',
           UNCHANGED <<collection, offline, users, left, history>>,
           token' \in Int, token' <= changes, syncing' \in BOOLEAN,
           \/ flights' = flights \ {f}
           \/ /\ syncing' = syncing
              /\ \E g : /\ Typed(g) /\ IsSync(g) /\ flights' = (flights \ {f}) \cup {g}
                        /\ Learnt(g) => token' <= g.upto /\ g.upto <= changes
    PROVE  CachedInv'
<1>1. /\ DataInv /\ FlightsInv /\ SyncInv /\ edits' = edits /\ changes' = changes
      /\ \A h \in flights : IsSync(h) => h = f
  BY DEF CachedInv, SyncInv, users, collection
<1>2. DataInv'
  BY <1>1 DEF DataInv, collection, users, history
<1>3. \A h : Learnt(h) => IsSync(h)
  BY DEF Learnt, IsSync
<1>4. CASE flights' = flights \ {f}
  <2>1. \A h \in flights' : ~IsSync(h)
    BY <1>1, <1>4
  <2>2. FlightsInv'
    BY <1>1, <1>4 DEF FlightsInv, Typed
  <2>3. SyncInv'
    BY <1>1, <1>3, <2>1 DEF SyncInv
  <2> QED BY <1>2, <2>2, <2>3 DEF CachedInv
<1>5. ASSUME NEW g, Typed(g), IsSync(g), flights' = (flights \ {f}) \cup {g},
             Learnt(g) => token' <= g.upto /\ g.upto <= changes, syncing' = syncing
      PROVE  CachedInv'
  <2>1. \A h \in flights' : IsSync(h) => h = g
    BY <1>1, <1>5
  <2>2. FlightsInv'
    BY <1>1, <1>5 DEF FlightsInv, Typed
  <2>3. syncing'
    BY <1>1, <1>5 DEF SyncInv
  <2>4. SyncInv'
    BY <1>1, <1>3, <1>5, <2>1, <2>3 DEF SyncInv
  <2> QED BY <1>2, <2>2, <2>4 DEF CachedInv
<1> QED BY <1>4, <1>5

TokenStep == token' < token => token' = Unknown

LEMMA SyncDoneStep ==
    ASSUME CachedInv, NEW f \in flights, SyncDone(f)
    PROVE  CachedInv' /\ TokenStep
<1>1. DataInv /\ FlightsInv /\ SyncInv /\ IsSync(f) /\ Learnt(f) /\ f.out = "ok"
  BY DEF CachedInv, SyncDone, Ready, IsSync, Learnt
<1>2. f.upto \in Nat /\ token <= f.upto /\ f.upto <= changes /\ token \in Int /\ changes \in Nat
  BY <1>1, FlightFacts DEF FlightRec, SyncInv, DataInv
<1>3. /\ RowsOk(row', Len(edits))
      /\ meta' \in [Items -> Int] /\ info' \in [Items -> Int] /\ MetaIsInfo'
  BY TargetsGone DEF SyncDone
<1>4. UNCHANGED <<collection, offline, users, left, history>>
  BY DEF SyncDone
<1>5. PICK need : need = {i \in Reported(f) : f.data[i].v # 0 /\ f.data[i].tag # info[i]}
  OBVIOUS
<1>6. need \in SUBSET Items
  BY <1>5 DEF Reported
<1>7. CASE Done(f) /\ token' = f.upto /\ syncing' = FALSE
  <2>1. flights' = flights \ {f} /\ token' \in Int /\ token' <= changes
    BY <1>2, <1>7 DEF Done
  <2>2. CachedInv'
    <3>1. syncing' \in BOOLEAN
      BY <1>7
    <3> QED BY <1>1, <1>3, <1>4, <2>1, <3>1, SyncStep
  <2> QED BY <1>2, <1>7, <2>2 DEF TokenStep
<1>8. CASE /\ Becomes(f, [Flight("get") EXCEPT !.need = need, !.upto = f.upto])
           /\ UNCHANGED <<token, syncing>>
  <2>1. PICK g, u : u = f.upto /\ g = [Flight("get") EXCEPT !.need = need, !.upto = u]
    OBVIOUS
  <2>2. 0 \in Int /\ u \in Nat
    BY <1>2, <2>1
  <2>3. Typed(g) /\ g.kind = "get" /\ g.upto = u
    <3>1. /\ Typed([Flight("get") EXCEPT !.need = need, !.upto = u])
          /\ [Flight("get") EXCEPT !.need = need, !.upto = u].kind = "get"
          /\ [Flight("get") EXCEPT !.need = need, !.upto = u].upto = u
      BY <1>1, <1>6, <2>2, SyncTyped
    <3> QED BY <2>1, <3>1
  <2>4. IsSync(g) /\ token' <= g.upto /\ g.upto <= changes
    BY <1>2, <1>8, <2>1, <2>3 DEF IsSync
  <2>5. flights' = (flights \ {f}) \cup {g}
    BY <1>8, <2>1 DEF Becomes
  <2>6. token' \in Int /\ token' <= changes /\ syncing' \in BOOLEAN
    BY <1>1, <1>2, <1>8 DEF DataInv
  <2>7. CachedInv'
    BY <1>1, <1>3, <1>4, <1>8, <2>3, <2>4, <2>5, <2>6, SyncStep
  <2> QED BY <1>2, <1>8, <2>7 DEF TokenStep
<1> QED BY <1>5, <1>7, <1>8 DEF SyncDone

LEMMA RowsStay == ASSUME CachedInv, row' = row PROVE RowsOk(row', Len(edits))
BY DEF CachedInv, DataInv

LEMMA SyncEndsStep ==
    ASSUME CachedInv, NEW f \in flights, SyncFailed(f) \/ SyncAgain(f)
    PROVE  CachedInv' /\ TokenStep
<1>1. DataInv /\ FlightsInv /\ SyncInv /\ IsSync(f)
  BY DEF CachedInv, SyncFailed, SyncAgain, Ready, IsSync
<1>2. token <= changes /\ token \in Int /\ changes \in Nat /\ syncing \in BOOLEAN
  BY <1>1 DEF SyncInv, DataInv
<1>3. UNCHANGED <<collection, row, meta, info, offline, users, left, history>>
  BY DEF SyncFailed, SyncAgain, cache
<1>4. /\ RowsOk(row', Len(edits))
      /\ meta' \in [Items -> Int] /\ info' \in [Items -> Int] /\ MetaIsInfo'
  BY <1>3, RowsStay, SameEtags
<1>5. CASE SyncFailed(f)
  <2>1. flights' = flights \ {f} /\ token' = token /\ syncing' \in BOOLEAN
    BY <1>5 DEF SyncFailed, Done, cache
  <2>2. CachedInv'
    BY <1>1, <1>2, <1>3, <1>4, <2>1, SyncStep
  <2> QED BY <1>2, <2>1, <2>2 DEF TokenStep
<1>6. CASE SyncAgain(f)
  <2>1. PICK g, c : c = Unknown /\ g = [Flight("sync") EXCEPT !.cond = c]
    OBVIOUS
  <2>2. c \in Int /\ 0 \in Nat /\ {} \in SUBSET Items
    BY <2>1 DEF Unknown
  <2>3. Typed(g) /\ g.kind = "sync" /\ g.out = "wait"
    BY <1>1, <2>1, <2>2, SyncTyped
  <2>4. IsSync(g) /\ ~Learnt(g)
    BY <2>3 DEF IsSync, Learnt
  <2>5. /\ flights' = (flights \ {f}) \cup {g} /\ token' = Unknown /\ syncing' = syncing
    BY <1>6, <2>1 DEF SyncAgain, Becomes
  <2>6. token' \in Int /\ token' <= changes /\ syncing' \in BOOLEAN
    BY <1>2, <2>5 DEF Unknown
  <2>7. CachedInv'
    BY <1>1, <1>3, <1>4, <2>3, <2>4, <2>5, <2>6, SyncStep
  <2> QED BY <2>5, <2>7 DEF TokenStep
<1> QED BY <1>5, <1>6

LEMMA MultigetStep ==
    ASSUME CachedInv, NEW f \in flights, MultigetDone(f) \/ MultigetFailed(f)
    PROVE  CachedInv' /\ TokenStep
<1>1. DataInv /\ FlightsInv /\ MetaIsInfo /\ SyncInv /\ IsSync(f) /\ Learnt(f)
  BY DEF CachedInv, MultigetDone, MultigetFailed, Ready, IsSync, Learnt
<1>2. /\ f.upto \in Nat /\ token <= f.upto /\ f.upto <= changes
      /\ token \in Int /\ changes \in Nat /\ f.need \subseteq Items
      /\ f.data \in [Items -> Res(Len(edits))] /\ Len(edits) \in Nat
  BY <1>1, FlightFacts DEF FlightRec, SyncInv, DataInv
<1>3. /\ UNCHANGED <<collection, offline, syncing, users, left, history>>
      /\ flights' = flights \ {f} /\ token' = f.upto
  BY DEF MultigetDone, MultigetFailed, Done
<1>4. /\ RowsOk(row', Len(edits))
      /\ meta' \in [Items -> Int] /\ info' \in [Items -> Int] /\ MetaIsInfo'
  <2>1. CASE MultigetDone(f)
    <3>1. PICK news, gone :
            /\ news = {i \in f.need : f.data[i].v # 0 /\ f.data[i].tag # info[i]}
            /\ gone = Dropped({i \in f.need : f.data[i].v = 0})
      OBVIOUS
    <3>2. /\ row'  = [i \in Items |->
                        IF i \in news THEN [v |-> f.data[i].v, flag |-> "none"]
                        ELSE IF i \in gone THEN NoRow ELSE row[i]]
          /\ meta' = [i \in Items |-> IF i \in news THEN f.data[i].tag
                                      ELSE IF i \in gone THEN Unknown ELSE meta[i]]
          /\ info' = [i \in Items |-> IF i \in news THEN f.data[i].tag
                                      ELSE IF i \in gone THEN Unknown ELSE info[i]]
      BY <2>1, <3>1 DEF MultigetDone
    <3>3. RowsOk(row, Len(edits)) /\ meta \in [Items -> Int] /\ info \in [Items -> Int]
      BY <1>1 DEF DataInv
    <3>4. \A i \in Items : f.data[i].v \in Ver(Len(edits)) /\ f.data[i].tag \in Nat
      BY <1>2 DEF Res
    <3>5. RowsOk(row', Len(edits))
      BY <1>2, <3>2, <3>3, <3>4 DEF RowsOk, NoRow, Ver, Flags
    <3>6. meta' \in [Items -> Int] /\ info' \in [Items -> Int]
      BY <3>2, <3>3, <3>4 DEF Unknown
    <3>7. MetaIsInfo'
      BY <1>1, <3>2, <3>3, <3>4 DEF MetaIsInfo, Unknown
    <3> QED BY <3>5, <3>6, <3>7
  <2>2. CASE MultigetFailed(f)
    BY <2>2, RowsStay, SameEtags DEF MultigetFailed
  <2> QED BY <2>1, <2>2
<1>5. token' \in Int /\ token' <= changes /\ syncing' \in BOOLEAN
  BY <1>1, <1>2, <1>3 DEF DataInv
<1>6. CachedInv'
  BY <1>1, <1>3, <1>4, <1>5, SyncStep
<1> QED BY <1>2, <1>3, <1>6 DEF TokenStep


-----------------------------------------------------------------------------
(* The users' edits.                                                         *)

LEMMA MoreEdits ==
    ASSUME NEW n \in Nat
    PROVE  /\ Res(n) \subseteq Res(n + 1) /\ FlightRec(n) \subseteq FlightRec(n + 1)
           /\ \A r : RowsOk(r, n) => RowsOk(r, n + 1)
           /\ \A d \in [Items -> Res(n)] : d \in [Items -> Res(n + 1)]
<1>1. Ver(n) \subseteq Ver(n + 1) /\ 0..n \subseteq 0..(n + 1)
  BY DEF Ver
<1>2. Res(n) \subseteq Res(n + 1)
  BY <1>1 DEF Res
<1>3. \A d \in [Items -> Res(n)] : d \in [Items -> Res(n + 1)]
  BY <1>2
<1>4. [item : Items, v : Ver(n) \ {0}] \subseteq [item : Items, v : Ver(n + 1) \ {0}]
  BY <1>1
<1>5. ASSUME NEW f \in FlightRec(n) PROVE f \in FlightRec(n + 1)
  <2>1. /\ f.op \in 0..(n + 1) /\ f.v \in Ver(n + 1) /\ f.data \in [Items -> Res(n + 1)]
        /\ f.todo \in SUBSET [item : Items, v : Ver(n + 1) \ {0}]
    BY <1>1, <1>3, <1>4 DEF FlightRec
  <2> QED BY <2>1 DEF FlightRec
<1>6. \A r : RowsOk(r, n) => RowsOk(r, n + 1)
  BY <1>1 DEF RowsOk
<1> QED BY <1>2, <1>3, <1>5, <1>6

LEMMA BaseIsInt ==
    ASSUME DataInv, NEW i \in Items PROVE Base(i) \in Int
<1>1. row[i].v \in Int /\ row[i].v <= Len(edits)
  BY DEF DataInv, RowsOk, Ver
<1>2. CASE row[i].v > 0
  <2>1. edits[row[i].v] \in [kind : Kinds, item : Items, base : Int]
    <3>1. PICK j, q, S : j = row[i].v /\ q = edits /\ S = [kind : Kinds, item : Items, base : Int]
      OBVIOUS
    <3>2. q \in Seq(S) /\ j \in 1..Len(q)
      BY <1>1, <1>2, <3>1, EditCount DEF DataInv
    <3>3. q[j] \in S
      BY <3>2, ElementOfSeq
    <3> QED BY <3>1, <3>3
  <2> QED BY <1>2, <2>1 DEF Base
<1>3. CASE ~(row[i].v > 0)
  BY <1>1, <1>3 DEF Base
<1> QED BY <1>2, <1>3

\* What a new edit sends or reads first.
LEMMA NewFlight ==
    ASSUME DataInv, NEW i \in Items, NEW k \in FlightKinds, NEW n, n = Len(edits) + 1
    PROVE  /\ New(k, i) \in FlightRec(n) /\ New(k, i).kind = k
           /\ New(k, i).item = i /\ New(k, i).v = n /\ New(k, i).op = n
<1>1. n \in Nat /\ n # 0 /\ n \in Ver(n) /\ n \in 0..n
  BY EditCount DEF Ver
<1>2. PICK h, g : h = Flight(k) /\ g = New(k, i)
  OBVIOUS
<1>3. h \in FlightRec(n) /\ h.kind = k
  BY <1>1, <1>2, FreshFlight
<1>4. g = [h EXCEPT !.op = n, !.item = i, !.v = n]
  BY <1>2 DEF New
<1>5. g \in FlightRec(n) /\ g.kind = k /\ g.op = n /\ g.item = i /\ g.v = n
  BY <1>1, <1>3, <1>4 DEF FlightRec
<1> QED BY <1>2, <1>5

EditFlight(g, k, i, n) ==
    /\ g \in FlightRec(n) /\ g.kind \in {"put", "flag"}
    /\ g.item = i /\ g.v = n /\ g.op = n
    /\ g.kind = "flag" /\ g.then = "delete" => k = "delete"

LEMMA EditStep ==
    ASSUME CachedInv, NEW k, NEW i \in Items, NEW status \in {"ok", "wait"}, NEW S,
           Edit(k, i, status, S), RowsOk(row', Len(edits) + 1),
           \A g \in S : EditFlight(g, k, i, Len(edits) + 1)
    PROVE  CachedInv'
<1>1. DataInv /\ FlightsInv /\ MetaIsInfo /\ SyncInv
  BY DEF CachedInv
<1>2. PICK n, b, e : n = Len(edits) /\ b = Base(i) /\ e = [kind |-> k, item |-> i, base |-> b]
  OBVIOUS
<1>3. /\ n \in Nat /\ k \in Kinds /\ b \in Int /\ edits' = Append(edits, e)
      /\ told' = Append(told, status) /\ flights' = flights \cup S
      /\ UNCHANGED <<server, changes, meta, token, info, offline, syncing, left, stored, asked>>
  BY <1>1, <1>2, BaseIsInt, EditCount DEF Edit, collection, history
<1>4. e \in [kind : Kinds, item : Items, base : Int]
  BY <1>2, <1>3
<1>5. /\ edits' \in Seq([kind : Kinds, item : Items, base : Int]) /\ Len(edits') = n + 1
      /\ edits'[n + 1] = e /\ \A j \in 1..n : edits'[j] = edits[j]
  BY <1>1, <1>2, <1>3, <1>4, AppendProperties DEF DataInv
<1>6. /\ told' \in Seq({"wait", "ok", "failed", "cut"}) /\ Len(told') = n + 1
  <2>1. PICK q, T : q = told /\ T = {"wait", "ok", "failed", "cut"}
    OBVIOUS
  <2>2. q \in Seq(T) /\ status \in T /\ Len(q) = n
    BY <1>1, <1>2, <2>1 DEF DataInv
  <2>3. Append(q, status) \in Seq(T) /\ Len(Append(q, status)) = n + 1
    BY <2>2, AppendProperties
  <2> QED BY <1>3, <2>1, <2>3
<1>7. DataInv'
  <2>1. server' \in [Items -> Res(n + 1)]
    BY <1>1, <1>2, <1>3, MoreEdits DEF DataInv
  <2>2. stored' \subseteq 1..(n + 1)
    BY <1>1, <1>2, <1>3 DEF DataInv
  <2> QED BY <1>1, <1>2, <1>3, <1>5, <1>6, <2>1, <2>2 DEF DataInv
<1>8. FlightsInv'
  <2>1. ASSUME NEW f \in flights PROVE f \in FlightRec(n + 1) /\ ErrandOk(f, edits')
    <3>1. f \in FlightRec(n) /\ ErrandOk(f, edits)
      BY <1>1, <1>2 DEF FlightsInv, Typed
    <3>2. f.op \in 0..n
      BY <3>1 DEF FlightRec
    <3>3. f.op # 0 => edits'[f.op] = edits[f.op]
      BY <1>3, <1>5, <3>2
    <3> QED BY <1>3, <3>1, <3>3, MoreEdits DEF ErrandOk
  <2>2. ASSUME NEW g \in S PROVE g \in FlightRec(n + 1) /\ ErrandOk(g, edits')
    <3>1. /\ g \in FlightRec(n + 1) /\ g.kind \in {"put", "flag"}
          /\ g.item = i /\ g.v = n + 1 /\ g.op = n + 1
          /\ g.kind = "flag" /\ g.then = "delete" => k = "delete"
      BY <1>2 DEF EditFlight
    <3>2. edits'[g.op].kind = k /\ n + 1 # 0
      BY <1>2, <1>3, <1>5, <3>1
    <3> QED BY <3>1, <3>2 DEF ErrandOk
  <2> QED BY <1>3, <1>5, <2>1, <2>2 DEF FlightsInv, Typed
<1>9. MetaIsInfo'
  BY <1>1, <1>3 DEF MetaIsInfo
<1>10. SyncInv'
  <2>1. NoNewSync
    BY <1>3 DEF NoNewSync, IsSync, EditFlight
  <2>2. changes' \in Nat /\ changes <= changes'
    BY <1>1, <1>3 DEF DataInv
  <2> QED BY <1>1, <1>3, <2>1, <2>2, SyncStays
<1> QED BY <1>7, <1>8, <1>9, <1>10 DEF CachedInv

LEMMA UserStep ==
    ASSUME CachedInv, NEW i \in Items, AddItem(i) \/ ModifyItem(i) \/ DeleteItem(i)
    PROVE  CachedInv'
<1>1. DataInv /\ Len(edits) \in Nat /\ RowsOk(row, Len(edits))
  BY EditCount DEF CachedInv, DataInv
<1>2. RowsOk(row, Len(edits) + 1)
  <2>1. PICK n, r : n = Len(edits) /\ r = row
    OBVIOUS
  <2>2. n \in Nat /\ RowsOk(r, n)
    BY <1>1, <2>1
  <2>3. RowsOk(r, n + 1)
    BY <2>2, MoreEdits
  <2> QED BY <2>1, <2>3
<1>3. CASE /\ Edit("add", i, "ok", {})
           /\ row' = [row EXCEPT ![i] = [v |-> Len(edits) + 1, flag |-> "created"]]
  <2>1. PICK n, r : n = Len(edits) + 1 /\ r = row
    OBVIOUS
  <2>2. n \in Nat /\ RowsOk(r, n) /\ n \in Ver(n) /\ n # 0 /\ "created" \in Flags
    BY <1>1, <1>2, <2>1 DEF Ver, Flags
  <2>3. RowsOk([r EXCEPT ![i] = [v |-> n, flag |-> "created"]], n)
    BY <2>2, OneRow
  <2>4. RowsOk(row', Len(edits) + 1)
    BY <1>3, <2>1, <2>3
  <2>5. PICK S, k, st : S = {} /\ k = "add" /\ st = "ok"
    OBVIOUS
  <2>6. /\ \A g \in S : EditFlight(g, k, i, Len(edits) + 1)
        /\ st \in {"ok", "wait"} /\ Edit(k, i, st, S)
    BY <1>3, <2>5
  <2> QED BY <2>4, <2>6, EditStep
<1>4. CASE /\ Edit("add", i, "wait", {[New("put", i) EXCEPT !.cond = Unknown]})
           /\ UNCHANGED row
  <2>1. PICK n, g, c : /\ n = Len(edits) + 1 /\ c = Unknown
                       /\ g = [New("put", i) EXCEPT !.cond = c]
    OBVIOUS
  <2>2. PICK h, k : h = New("put", i) /\ k = "put"
    OBVIOUS
  <2>3. g \in FlightRec(n) /\ g.kind = "put" /\ g.item = i /\ g.v = n /\ g.op = n
    <3>1. k \in FlightKinds /\ c \in Int
      BY <2>1, <2>2 DEF FlightKinds, Unknown
    <3>2. h \in FlightRec(n) /\ h.kind = k /\ h.item = i /\ h.v = n /\ h.op = n
      BY <1>1, <2>1, <2>2, <3>1, NewFlight
    <3> QED BY <2>1, <2>2, <3>1, <3>2 DEF FlightRec
  <2>4. Edit("add", i, "wait", {g}) /\ RowsOk(row', Len(edits) + 1)
    BY <1>2, <1>4, <2>1
  <2>5. \A d \in {g} : EditFlight(d, "add", i, Len(edits) + 1)
    BY <2>1, <2>3 DEF EditFlight
  <2>6. "wait" \in {"ok", "wait"}
    OBVIOUS
  <2> QED BY <2>4, <2>5, <2>6, EditStep
<1>5. ASSUME NEW k \in {"modify", "delete"}, NEW then \in Then, then = "delete" => k = "delete",
             Edit(k, i, "wait", {ReadFlag(New("flag", i), then)}), UNCHANGED row
      PROVE  CachedInv'
  <2>1. PICK n, g : n = Len(edits) + 1 /\ g = ReadFlag(New("flag", i), then)
    OBVIOUS
  <2>2. /\ g \in FlightRec(n) /\ g.kind = "flag" /\ g.then = then
        /\ g.item = i /\ g.v = n /\ g.op = n
    <3>1. PICK h, m : h = New("flag", i) /\ m = "flag"
      OBVIOUS
    <3>2. m \in FlightKinds
      BY <3>1 DEF FlightKinds
    <3>3. h \in FlightRec(n) /\ h.kind = m /\ h.item = i /\ h.v = n /\ h.op = n
      BY <1>1, <2>1, <3>1, <3>2, NewFlight
    <3> QED BY <1>5, <2>1, <3>1, <3>2, <3>3 DEF ReadFlag, FlightRec
  <2>3. Edit(k, i, "wait", {g}) /\ RowsOk(row', Len(edits) + 1)
    BY <1>2, <1>5, <2>1
  <2>4. \A h \in {g} : EditFlight(h, k, i, Len(edits) + 1)
    BY <1>5, <2>1, <2>2 DEF EditFlight
  <2>5. "wait" \in {"ok", "wait"}
    OBVIOUS
  <2> QED BY <2>3, <2>4, <2>5, EditStep
<1>6. CASE ModifyItem(i)
  <2>1. PICK then : then = IF offline THEN "store" ELSE "modify"
    OBVIOUS
  <2>2. then \in Then /\ then # "delete"
    BY <2>1 DEF Then
  <2>3. Edit("modify", i, "wait", {ReadFlag(New("flag", i), then)}) /\ UNCHANGED row
    BY <1>6, <2>1 DEF ModifyItem
  <2> QED BY <1>5, <2>2, <2>3
<1>7. CASE DeleteItem(i)
  <2>1. PICK then : then = IF offline THEN "erase" ELSE "delete"
    OBVIOUS
  <2>2. then \in Then
    BY <2>1 DEF Then
  <2>3. Edit("delete", i, "wait", {ReadFlag(New("flag", i), then)}) /\ UNCHANGED row
    BY <1>7, <2>1 DEF DeleteItem
  <2> QED BY <1>5, <2>2, <2>3
<1> QED BY <1>3, <1>4, <1>6, <1>7 DEF AddItem


-----------------------------------------------------------------------------
(* The network, the timer and the end of the program.                        *)

LEMMA NetworkStep ==
    ASSUME CachedInv, FlightsInv', NoNewSync, offline' \in BOOLEAN, left' \in Left,
           UNCHANGED <<collection, cache, info, syncing, users, history>>
    PROVE  CachedInv'
<1>1. DataInv /\ FlightsInv /\ MetaIsInfo /\ SyncInv
  BY DEF CachedInv
<1>2. /\ token' = token /\ syncing' = syncing /\ changes' = changes
      /\ changes' \in Nat /\ changes <= changes'
  BY <1>1 DEF cache, collection, DataInv
<1>3. SyncInv'
  BY <1>1, <1>2, SyncStays
<1>4. DataInv' /\ MetaIsInfo'
  BY <1>1 DEF DataInv, RowsOk, MetaIsInfo, collection, cache, users, history, Left
<1> QED BY <1>3, <1>4 DEF CachedInv

LEMMA PlaybackTyped ==
    ASSUME DataInv, FlightsInv, edits' = edits, Playback \/ UNCHANGED flights
    PROVE  FlightsInv' /\ NoNewSync
<1>1. CASE UNCHANGED flights
  BY <1>1 DEF FlightsInv, Typed, NoNewSync
<1>2. ASSUME NEW p \in 1..MaxPlaybacks, flights' = flights \cup {List(p, "created")}
      PROVE  FlightsInv' /\ NoNewSync
  <2>1. p \in 0..MaxPlaybacks /\ "created" \in Phases
    BY ConstantsAssumption DEF Phases
  <2>2. PICK g : g = List(p, "created")
    OBVIOUS
  <2>3. Typed(g) /\ ~IsSync(g)
    BY <2>1, <2>2, ListTyped
  <2> QED BY <1>2, <2>2, <2>3 DEF FlightsInv, Typed, NoNewSync
<1> QED BY <1>1, <1>2 DEF Playback

LEMMA EnvironmentStep ==
    ASSUME CachedInv, GoOffline \/ GoOnline \/ Refresh
    PROVE  CachedInv'
<1>1. DataInv /\ FlightsInv /\ left \in Left /\ offline \in BOOLEAN
  BY DEF CachedInv, DataInv, Left
<1>2. UNCHANGED <<collection, cache, info, syncing, users, history>> /\ edits' = edits
  BY DEF GoOffline, GoOnline, Refresh, users
<1>3. Playback \/ UNCHANGED flights
  BY DEF GoOffline, GoOnline, Refresh
<1>4. FlightsInv' /\ NoNewSync
  BY <1>1, <1>2, <1>3, PlaybackTyped
<1>5. left' \in Left
  <2>1. CASE left.toggles > 0 /\ left' = [left EXCEPT !.toggles = @ - 1]
    <3>1. left.toggles - 1 \in Nat
      BY <1>1, <2>1 DEF Left
    <3> QED BY <1>1, <2>1, <3>1 DEF Left
  <2>2. CASE left' = left
    BY <1>1, <2>2
  <2> QED BY <2>1, <2>2 DEF GoOffline, GoOnline, Refresh
<1>6. offline' \in BOOLEAN
  BY <1>1 DEF GoOffline, GoOnline, Refresh
<1> QED BY <1>2, <1>4, <1>5, <1>6, NetworkStep

LEMMA ForeignStep ==
    ASSUME CachedInv, NEW i \in Items, ForeignWrite(i)
    PROVE  CachedInv'
<1>1. DataInv /\ FlightsInv /\ left \in Left /\ Len(edits) \in Nat /\ changes \in Nat
      /\ stored \subseteq 1..Len(edits)
  BY EditCount DEF CachedInv, DataInv, Left
<1>2. PICK v \in {0, -(changes + 1)} : Change(i, v)
  BY DEF ForeignWrite
<1>3. v \in Ver(Len(edits))
  BY <1>1, <1>2 DEF Ver
<1>4. left' \in Left
  <2>1. left.foreign > 0 /\ left' = [left EXCEPT !.foreign = @ - 1]
    BY DEF ForeignWrite
  <2>2. left.foreign - 1 \in Nat
    BY <1>1, <2>1 DEF Left
  <2> QED BY <1>1, <2>1, <2>2 DEF Left
<1>5. UNCHANGED <<cache, info, offline, syncing, flights, users, history>> /\ edits' = edits
  BY DEF ForeignWrite, users
<1>6. FlightsInv' /\ NoNewSync
  BY <1>1, <1>5, PlaybackTyped
<1>7. stored' \subseteq 1..Len(edits) /\ UNCHANGED <<cache, info, offline, syncing, users, asked>>
  BY <1>1, <1>5 DEF history
<1> QED BY <1>2, <1>3, <1>4, <1>6, <1>7, ServerStep

LEMMA RestartStep ==
    ASSUME CachedInv, Restart
    PROVE  CachedInv'
<1>1. DataInv /\ MetaIsInfo /\ SyncInv /\ left \in Left
  BY DEF CachedInv, DataInv, Left
<1>2. /\ UNCHANGED <<server, changes, row, meta, token, offline, edits, stored, asked>>
      /\ flights' = {} /\ syncing' = FALSE
  BY DEF Restart, collection, cache, history
<1>3. left' \in Left
  <2>1. left.restarts > 0 /\ left' = [left EXCEPT !.restarts = @ - 1]
    BY DEF Restart
  <2>2. left.restarts - 1 \in Nat
    BY <1>1, <2>1 DEF Left
  <2> QED BY <1>1, <2>1, <2>2 DEF Left
<1>4. info' \in [Items -> Int] /\ MetaIsInfo'
  BY <1>1, <1>2 DEF Restart, DataInv, MetaIsInfo, NoEtag, Unknown
<1>5. told' \in Seq({"wait", "ok", "failed", "cut"}) /\ Len(told') = Len(told)
  <2>1. PICK q, S : q = told /\ S = {"wait", "ok", "failed", "cut"}
    OBVIOUS
  <2>2. q \in Seq(S) /\ Len(q) \in Nat
    BY <1>1, <2>1, LenProperties DEF DataInv
  <2>3. \A e \in 1..Len(q) : q[e] \in S
    BY <2>2, ElementOfSeq
  <2>4. told' = [e \in 1..Len(q) |-> IF q[e] = "wait" THEN "cut" ELSE q[e]]
    BY <2>1 DEF Restart
  <2>5. told' \in [1..Len(q) -> S]
    BY <2>1, <2>3, <2>4
  <2> QED BY <2>1, <2>2, <2>5
<1>6. DataInv'
  BY <1>1, <1>2, <1>3, <1>4, <1>5 DEF DataInv, RowsOk, Left
<1>7. FlightsInv' /\ SyncInv'
  BY <1>1, <1>2 DEF FlightsInv, SyncInv
<1> QED BY <1>4, <1>6, <1>7 DEF CachedInv

-----------------------------------------------------------------------------
(* Every step.                                                               *)

LEMMA TokenStays == ASSUME DataInv, token' = token PROVE TokenStep
BY DEF DataInv, TokenStep

LEMMA CallbackStep ==
    ASSUME CachedInv, NEW f \in flights, Callback(f)
    PROVE  CachedInv' /\ TokenStep
<1>1. CASE SyncDone(f) \/ SyncFailed(f) \/ SyncAgain(f) \/ MultigetDone(f) \/ MultigetFailed(f)
  BY <1>1, SyncDoneStep, SyncEndsStep, MultigetStep
<1>2. CASE EditOffline(f) \/ EditOnline(f) \/ EditThrows(f)
  BY <1>2, FlagStep, TokenStays DEF EditOffline, EditOnline, EditThrows, cache, CachedInv
<1>3. CASE DoModifyItem(f) \/ MarkModified(f) \/ DeleteOfflineItem(f)
  BY <1>3, OfflineStep, TokenStays DEF DoModifyItem, MarkModified, DeleteOfflineItem, CachedInv
<1>4. CASE PutDone(f) \/ PutConflicts(f)
  BY <1>4, PutStep, TokenStays DEF PutDone, PutConflicts, cache, CachedInv
<1>5. CASE DeleteDone(f) \/ HeadDone(f)
  BY <1>5, DeleteStep, TokenStays DEF DeleteDone, HeadDone, CachedInv
<1>6. CASE DeleteConflicts(f) \/ FetchUnchanged(f)
  BY <1>6, FetchUnchangedStep, TokenStays DEF DeleteConflicts, FetchUnchanged, cache, CachedInv
<1>7. CASE FetchDone(f)
  BY <1>7, FetchStep, TokenStays DEF FetchDone, CachedInv
<1>8. CASE FetchGone(f)
  BY <1>8, FetchGoneStep, TokenStays DEF FetchGone, CachedInv
<1>9. CASE ListDone(f)
  BY <1>9, ListStep, TokenStays DEF ListDone, cache, CachedInv
<1> QED BY <1>1, <1>2, <1>3, <1>4, <1>5, <1>6, <1>7, <1>8, <1>9 DEF Callback

LEMMA CachedNext ==
    ASSUME CachedInv, [Next]_vars
    PROVE  CachedInv' /\ TokenStep
<1>1. DataInv
  BY DEF CachedInv
<1>2. CASE UserEdits
  BY <1>1, <1>2, UserStep, TokenStays DEF UserEdits, AddItem, ModifyItem, DeleteItem, Edit
<1>3. CASE Database
  BY <1>1, <1>3, DbReadStep, TokenStays DEF Database, DbRead, cache
<1>4. CASE Serve
  BY <1>1, <1>4, WriteStep, ReadStep, TokenStays
     DEF Serve, ServeOne, ServePut, ServeDelete, ServeRead, cache
<1>5. CASE Callbacks
  BY <1>5, CallbackStep DEF Callbacks
<1>6. CASE PopQueue
  BY <1>1, <1>6, PopItemStep, NextPhaseStep, TokenStays
     DEF PopQueue, PopOne, PopItemQueue, NextPhase, cache
<1>7. CASE GoOffline \/ GoOnline \/ Refresh
  BY <1>1, <1>7, EnvironmentStep, TokenStays DEF GoOffline, GoOnline, Refresh, cache
<1>8. CASE \E i \in Items : ForeignWrite(i)
  BY <1>1, <1>8, ForeignStep, TokenStays DEF ForeignWrite, cache
<1>9. CASE Restart
  BY <1>1, <1>9, RestartStep, TokenStays DEF Restart, cache
<1>10. CASE UNCHANGED vars
  <2>1. /\ UNCHANGED <<collection, cache, info, syncing, users, history, flights>>
        /\ edits' = edits /\ offline' = offline /\ left' = left /\ token' = token
    BY <1>10 DEF vars, users, cache
  <2>2. FlightsInv' /\ NoNewSync
    BY <1>1, <2>1, PlaybackTyped DEF CachedInv
  <2>3. offline' \in BOOLEAN /\ left' \in Left
    BY <1>1, <2>1 DEF DataInv, Left
  <2> QED BY <1>1, <2>1, <2>2, <2>3, NetworkStep, TokenStays
<1> QED BY <1>2, <1>3, <1>4, <1>5, <1>6, <1>7, <1>8, <1>9, <1>10 DEF Next

LEMMA CachedInit == ASSUME Init PROVE CachedInv
<1>1. edits = <<>> /\ told = <<>> /\ Len(edits) = 0 /\ Len(told) = 0
  BY EmptySeq DEF Init
<1>2. /\ edits \in Seq([kind : Kinds, item : Items, base : Int])
      /\ told \in Seq({"wait", "ok", "failed", "cut"})
  BY <1>1, EmptySeq
<1>3. server \in [Items -> Res(0)] /\ RowsOk(row, 0)
  BY DEF Init, Res, RowsOk, Ver, Flags, NoRow
<1>4. meta \in [Items -> Int] /\ info = meta
  BY DEF Init, Unknown
<1>5. left \in Left
  BY ConstantsAssumption DEF Init, Left
<1>6. DataInv
  <2>1. /\ changes \in Nat /\ token \in Int /\ stored = {} /\ asked = {}
    BY DEF Init
  <2>2. info \in [Items -> Int]
    BY <1>4
  <2>3. offline \in BOOLEAN /\ syncing \in BOOLEAN
    BY DEF Init
  <2> QED BY <1>1, <1>2, <1>3, <1>4, <1>5, <2>1, <2>2, <2>3 DEF DataInv, Left
<1>7. FlightsInv /\ MetaIsInfo /\ SyncInv
  BY <1>4 DEF Init, FlightsInv, MetaIsInfo, SyncInv
<1> QED BY <1>6, <1>7 DEF CachedInv

\* Whatever edits, playbacks, syncs, other clients, restarts and failures interleave, the
\* state keeps its types: a row that is gone has no journal flag, and the ETags that a
\* restart would read from the database (fetchCachedMetaData) are those in memory.
THEOREM CachedTypeCorrect == Spec => []TypeOK
<1>1. CachedInv => TypeOK
  <2> SUFFICES ASSUME CachedInv PROVE TypeOK
    OBVIOUS
  <2>1. DataInv /\ FlightsInv /\ MetaIsInfo
    BY DEF CachedInv
  <2>2. Ver(Len(edits)) \subseteq Int
    BY DEF Ver
  <2>3. Res(Len(edits)) \subseteq Resources
    BY <2>2 DEF Res, Resources
  <2>4. ASSUME NEW f \in flights
        PROVE  f \in [kind : FlightKinds, op : 0..Len(edits), play : 0..MaxPlaybacks,
                      phase : Phases, todo : SUBSET [item : Items, v : Int],
                      item : Items \cup {NoItem}, v : Int, cond : Int, then : Then,
                      out : Outs, flag : Flags, data : [Items -> Resources], upto : Nat,
                      need : SUBSET Items]
    <3>1. f \in FlightRec(Len(edits))
      BY <2>1 DEF FlightsInv, Typed
    <3>2. /\ f.todo \subseteq [item : Items, v : Int] /\ f.v \in Int
          /\ f.data \in [Items -> Resources]
      BY <2>2, <2>3, <3>1 DEF FlightRec
    <3> QED BY <3>1, <3>2 DEF FlightRec
  <2>5. /\ server \in [Items -> Resources] /\ row \in [Items -> [v : Int, flag : Flags]]
        /\ \A i \in Items : row[i].v = 0 => row[i].flag = "none"
    BY <2>1, <2>2, <2>3 DEF DataInv, RowsOk
  <2> QED BY <2>1, <2>4, <2>5 DEF TypeOK, DataInv
<1> QED BY <1>1, CachedInit, CachedNext, PTL DEF Spec

\* The sync token is never replaced by an older one, although syncs, playbacks and edits
\* overlap: mSyncQueue lets one sync through at a time, and its token is the newest that
\* the server has told (onEndDocument and onStopRequest of the sync's handlers).
THEOREM TokenNeverGoesBack == Spec => TokenForward
<1>1. CachedInv /\ [Next]_vars => [token' < token => token' = Unknown]_token
  BY CachedNext DEF TokenStep
<1>2. Init => CachedInv
  BY CachedInit
<1>3. CachedInv /\ [Next]_vars => CachedInv'
  BY CachedNext
<1> QED BY <1>1, <1>2, <1>3, PTL DEF Spec, TokenForward

-----------------------------------------------------------------------------
(* The cached CalDAV calendar and other clients of its server: nobody's      *)
(* version is overwritten unseen, and the sync token passes over no change.  *)


\* The scenario of the run that checks this, for which it holds: the program stays online
\* or stays offline, so that nothing is in the journal that a playback would send; an edit
\* is not begun while an errand is under way; and requests reach the server, which may
\* answer some of them with an error.
Undisturbed ==
    ~Overlap /\ MaxToggles = 0 /\ MaxRestarts = 0 /\ Faults \subseteq {"error", "token"}

\* What a request has read is as old as it says: an ETag names one version, and where the
\* server differs it has moved on beyond what the provider knows.
IsRead(f) == f.kind \in {"head", "fetch", "sync", "get"} /\ f.out = "ok"

ReadOk(f) ==
    \A i \in Items :
        /\ f.data[i].tag <= changes
        /\ f.data[i].v # 0 => f.data[i].tag > 0
        /\ server[i].tag \in {f.data[i].tag, info[i]} => f.data[i] = server[i]

\* The journal is empty, so every request is for an edit, and the flags read are "none".
OnlineFlight(f) ==
    /\ f.out # "unavailable"
    /\ f.kind = "list" => f.phase # "none"
    /\ f.kind = "pop" => f.todo = {}
    /\ f.kind \in {"put", "del", "head", "fetch", "flag"} => f.op # 0
    /\ f.kind = "flag" => f.flag = "none" /\ f.then \in {"modify", "delete", "cache"}
    /\ f.kind = "put" \/ (f.kind = "flag" /\ f.then = "modify") => Kind(f) # "delete"
    /\ f.kind = "put" => f.cond <= changes
    /\ f.kind = "fetch" => Kind(f) # "delete" \/ f.item \in asked
    /\ IsRead(f) => ReadOk(f)

EtagsOk ==
    \A i \in Items : /\ server[i].tag <= changes /\ info[i] <= changes /\ info[i] # NoEtag
                     /\ server[i].v # 0 => server[i].tag > 0

CalmOnline ==
    /\ \A f, g \in flights : f = g
    /\ \A f \in flights : OnlineFlight(f)
    /\ \A i \in Items : row[i].flag = "none"
    /\ EtagsOk

OnlineInv == left.toggles = 0 /\ left.restarts = 0 /\ (~offline => CalmOnline)

\* Another client's version whose ETag the provider knows is the one in the cache, or the
\* one about to get there, and the one that an edit under way was made from.
Recaching(f) == f.kind = "flag" /\ f.then = "cache"
Theirs(i)    == info[i] = server[i].tag /\ server[i].v < 0

SeenFlight(f) ==
    f.item \in Items \ asked =>
        /\ f.kind = "flag" /\ f.then = "modify" /\ Theirs(f.item) =>
             edits[f.v].base = server[f.item].v
        /\ Recaching(f) /\ Theirs(f.item) => f.v = server[f.item].v
        /\ f.kind = "put" => f.cond # NoEtag
        /\ f.kind = "put" /\ f.cond = server[f.item].tag /\ server[f.item].v < 0 =>
             edits[f.v].base = server[f.item].v

SeenOnline ==
    /\ \A f \in flights : SeenFlight(f)
    /\ \A i \in Items \ asked : Theirs(i) =>
          row[i].v = server[i].v \/ \E f \in flights : f.item = i /\ Recaching(f)

SeenInv == ~offline => SeenOnline

\* The changes up to the token are covered, and those up to the new token will be when the
\* items still needed have come.
Covered(i) ==
    info[i] = server[i].tag \/ (server[i].v = 0 /\ (row[i].v = 0 \/ info[i] = Unknown))

ReadUpTo(f) == IF IsSync(f) THEN f.upto ELSE token

CoverFlight(f) ==
    /\ f.out # "error"
    /\ f.kind = "sync" => f.cond = token
    /\ f.kind = "del" /\ f.out = "ok" /\ server[f.item].tag <= token => server[f.item].v = 0
    /\ Recaching(f) /\ server[f.item].tag <= token => info[f.item] = server[f.item].tag
    /\ f.kind = "get" => \A i \in Items \ f.need : server[i].tag <= f.upto => Covered(i)
    /\ IsRead(f) =>
         \A i \in Items : server[i].tag <= ReadUpTo(f) => f.data[i] = server[i]

CoverOnline ==
    /\ \A f \in flights : CoverFlight(f)
    /\ \A i \in Items : server[i].tag <= token => Covered(i)

CoverOffline ==
    /\ \A f \in flights : ~IsSync(f) /\ (f.out = "ok" => f.kind = "flag")
    /\ \A i \in Items : server[i].tag <= token =>
          info[i] = server[i].tag \/ (server[i].v = 0 /\ info[i] = Unknown)

CoverInv == IF offline THEN CoverOffline ELSE CoverOnline

\* What a step does online, with the one flight that there is.
Online == CachedInv /\ Undisturbed /\ ~offline /\ CalmOnline
StaysOnline  ==
    /\ CalmOnline'
    /\ SeenOnline => SeenOnline'
    /\ "error" \notin Faults /\ CoverOnline => CoverOnline'

FlightStaysOnline(f, g) ==
    /\ OnlineFlight(g)'
    /\ SeenFlight(f) => SeenFlight(g)'
    /\ "error" \notin Faults /\ CoverFlight(f) => CoverFlight(g)'

LEMMA OneOnline ==
    ASSUME Online, NEW f \in flights
    PROVE  flights = {f} /\ OnlineFlight(f) /\ DataInv /\ FlightsInv /\ SyncInv
BY DEF Online, CalmOnline, CachedInv

\* The errand ends, and nothing else changes.
LEMMA ErrandEnds ==
    ASSUME Online, NEW f \in flights, Done(f), ~Recaching(f),
           UNCHANGED <<server, changes, row, info, token, edits>>, asked \subseteq asked'
    PROVE  StaysOnline
<1>1. flights = {f} /\ flights' = {}
  BY OneOnline DEF Done
<1>2. CalmOnline'
  BY <1>1 DEF Online, CalmOnline, EtagsOk
<1>3. ASSUME SeenOnline PROVE SeenOnline'
  BY <1>1, <1>3 DEF SeenOnline, Theirs
<1>4. ASSUME CoverOnline PROVE CoverOnline'
  BY <1>1, <1>4 DEF CoverOnline, Covered
<1> QED BY <1>2, <1>3, <1>4 DEF StaysOnline

\* The errand goes on with another request, and nothing else changes.
LEMMA ErrandTurns ==
    ASSUME Online, NEW f \in flights, NEW g, Becomes(f, g), FlightStaysOnline(f, g), ~Recaching(f),
           UNCHANGED <<server, changes, row, info, token, edits>>, asked \subseteq asked'
    PROVE  StaysOnline
<1>1. flights = {f} /\ flights' = {g}
  BY OneOnline DEF Becomes
<1>2. CalmOnline'
  BY <1>1 DEF Online, CalmOnline, EtagsOk, FlightStaysOnline
<1>3. ASSUME SeenOnline PROVE SeenOnline'
  <2>1. SeenFlight(f)
    BY <1>1, <1>3 DEF SeenOnline
  <2>2. \A i \in Items \ asked' : Theirs(i)' => row'[i].v = server'[i].v
    BY <1>1, <1>3 DEF SeenOnline, Theirs
  <2> QED BY <1>1, <2>1, <2>2 DEF SeenOnline, FlightStaysOnline
<1>4. ASSUME CoverOnline, "error" \notin Faults PROVE CoverOnline'
  BY <1>1, <1>4 DEF CoverOnline, Covered, FlightStaysOnline
<1> QED BY <1>2, <1>3, <1>4 DEF StaysOnline

\* The fields of the requests that an errand goes on with.
LEMMA OnlineRequestFields ==
    ASSUME Online, NEW f \in flights, NEW k \in FlightKinds, NEW c \in Int
    PROVE  LET g == [Turn(f, k) EXCEPT !.cond = c]
               h == Turn(f, k) IN
           /\ g.kind = k /\ g.op = f.op /\ g.item = f.item /\ g.v = f.v /\ g.cond = c
           /\ g.out = "wait" /\ g.flag = "none" /\ g.then = "none"
           /\ h.kind = k /\ h.op = f.op /\ h.item = f.item /\ h.v = f.v /\ h.cond = 0
           /\ h.out = "wait" /\ h.flag = "none" /\ h.then = "none"
<1>1. PICK n, e, h : n = Len(edits) /\ e = Flight(k) /\ h = Turn(f, k)
  OBVIOUS
<1>2. n \in Nat /\ f \in FlightRec(n)
  BY <1>1, OneOnline, FlightFacts
<1>3. e \in FlightRec(n) /\ e.cond = 0 /\ e.flag = "none" /\ e.then = "none"
  BY <1>1, <1>2, FreshFlight DEF Flight
<1>4. h = [e EXCEPT !.op = f.op, !.play = f.play, !.phase = f.phase,
                    !.todo = f.todo, !.item = f.item, !.v = f.v]
  BY <1>1 DEF Turn
<1>5. /\ h \in FlightRec(n) /\ h.kind = k /\ h.op = f.op /\ h.item = f.item /\ h.v = f.v
      /\ h.out = "wait"
  BY <1>1, <1>2, TurnedFlight
<1>6. h.cond = 0 /\ h.flag = "none" /\ h.then = "none"
  BY <1>3, <1>4 DEF FlightRec
<1>7. PICK g : g = [h EXCEPT !.cond = c]
  OBVIOUS
<1>8. /\ g.kind = k /\ g.op = f.op /\ g.item = f.item /\ g.v = f.v /\ g.cond = c
      /\ g.out = "wait" /\ g.flag = "none" /\ g.then = "none"
  BY <1>5, <1>6, <1>7 DEF FlightRec
<1> QED BY <1>1, <1>5, <1>6, <1>7, <1>8

-----------------------------------------------------------------------------
(* Online: the callbacks that only go on with another request.               *)

QuietOnline == UNCHANGED <<server, changes, row, info, token, edits>>

LEMMA OnlineFacts ==
    ASSUME Online, NEW f \in flights, f.kind \in {"put", "del", "head", "fetch", "flag"}
    PROVE  /\ f.item \in Items /\ f.op # 0 /\ f.v # 0 /\ f.v \in Int
           /\ info[f.item] \in Int /\ info[f.item] # NoEtag /\ info[f.item] <= changes
           /\ server[f.item].v \in Int /\ server[f.item].tag \in Nat /\ changes \in Nat
           /\ server[f.item].tag <= changes /\ row[f.item].flag = "none"
<1>1. DataInv /\ FlightsInv /\ OnlineFlight(f)
  BY OneOnline
<1>2. f.item \in Items /\ f.v # 0 /\ f.v \in Int
  BY <1>1, FlightFacts
<1>3. f.op # 0
  BY <1>1 DEF OnlineFlight
<1>4. info[f.item] \in Int /\ server[f.item] \in Res(Len(edits)) /\ changes \in Nat
  BY <1>1, <1>2 DEF DataInv
<1>5. server[f.item].v \in Int /\ server[f.item].tag \in Nat
  BY <1>4 DEF Res, Ver
<1>6. /\ info[f.item] # NoEtag /\ info[f.item] <= changes /\ server[f.item].tag <= changes
      /\ row[f.item].flag = "none"
  BY <1>2 DEF Online, CalmOnline, EtagsOk
<1> QED BY <1>2, <1>3, <1>4, <1>5, <1>6

LEMMA OnlineDbRead ==
    ASSUME Online, NEW f \in flights, DbRead(f), ~Recaching(f)
    PROVE  StaysOnline
<1>1. f.kind = "flag" /\ OnlineFlight(f) /\ f \in FlightRec(Len(edits))
  BY OneOnline, FlightFacts DEF DbRead
<1>2. PICK g : g = [f EXCEPT !.flag = row[f.item].flag, !.out = "ok"]
  OBVIOUS
<1>3. /\ g.kind = "flag" /\ g.op = f.op /\ g.item = f.item /\ g.v = f.v /\ g.then = f.then
      /\ g.out = "ok" /\ g.flag = row[f.item].flag
  BY <1>1, <1>2 DEF FlightRec
<1>4. Becomes(f, g) /\ QuietOnline /\ asked' = asked
  BY <1>2 DEF DbRead, QuietOnline, collection, cache, users, history
<1>5. OnlineFlight(g)'
  BY <1>1, <1>3, <1>4, OnlineFacts DEF OnlineFlight, Kind, QuietOnline, IsRead
<1>6. SeenFlight(f) => SeenFlight(g)'
  BY <1>1, <1>3, <1>4 DEF SeenFlight, Theirs, Recaching, QuietOnline
<1>7. CoverFlight(f) => CoverFlight(g)'
  BY <1>1, <1>3, <1>4 DEF CoverFlight, Recaching, QuietOnline, IsRead
<1> QED BY <1>4, <1>5, <1>6, <1>7, ErrandTurns DEF FlightStaysOnline, QuietOnline

LEMMA OnlineEdit ==
    ASSUME Online, NEW f \in flights, EditOffline(f) \/ EditOnline(f) \/ EditThrows(f)
    PROVE  StaysOnline
<1>1. f.kind = "flag" /\ OnlineFlight(f) /\ f.then \in {"modify", "delete"}
  BY OneOnline DEF EditOffline, EditOnline, EditThrows, Onto, Is, Ready
<1>2. ~Recaching(f) /\ ~Offline(f)
  BY <1>1 DEF Recaching, OnlineFlight, Offline
<1>3. QuietOnline /\ asked' = asked
  BY DEF EditOffline, EditOnline, EditThrows, QuietOnline, collection, cache, users, history
<1>4. CASE EditThrows(f)
  BY <1>2, <1>3, <1>4, ErrandEnds DEF EditThrows, QuietOnline
<1>5. CASE EditOnline(f)
  <2>1. PICK k, c, g : /\ k \in {"put", "del"} /\ c = info[f.item]
                       /\ g = [Turn(f, k) EXCEPT !.cond = c]
                       /\ Becomes(f, g) /\ (k = "put" => f.then = "modify")
    <3>1. CASE Is(f, "modify") /\ Becomes(f, [Turn(f, "put") EXCEPT !.cond = info[f.item]])
      BY <3>1 DEF Is
    <3>2. CASE Is(f, "delete") /\ Becomes(f, [Turn(f, "del") EXCEPT !.cond = info[f.item]])
      <4>1. PICK k, h : k = "del" /\ h = [Turn(f, k) EXCEPT !.cond = info[f.item]]
        OBVIOUS
      <4>2. Becomes(f, h) /\ k \in {"put", "del"} /\ k # "put"
        BY <3>2, <4>1
      <4> QED BY <4>1, <4>2
    <3> QED BY <1>5, <3>1, <3>2 DEF EditOnline, Onto
  <2>2. /\ c \in Int /\ c # NoEtag /\ c <= changes /\ f.op # 0 /\ f.item \in Items
        /\ k \in FlightKinds
    BY <1>1, <2>1, OnlineFacts DEF FlightKinds
  <2>3. /\ g.kind = k /\ g.op = f.op /\ g.item = f.item /\ g.v = f.v /\ g.cond = c
        /\ g.out = "wait"
    BY <2>1, <2>2, OnlineRequestFields
  <2>4. OnlineFlight(g)'
    BY <1>1, <1>3, <2>1, <2>2, <2>3 DEF OnlineFlight, Kind, QuietOnline, IsRead
  <2>5. SeenFlight(f) => SeenFlight(g)'
    BY <1>1, <1>3, <2>1, <2>2, <2>3 DEF SeenFlight, Theirs, Recaching, QuietOnline
  <2>6. CoverFlight(f) => CoverFlight(g)'
    BY <2>1, <2>3 DEF CoverFlight, Recaching, IsRead
  <2> QED BY <1>2, <1>3, <2>1, <2>4, <2>5, <2>6, ErrandTurns DEF FlightStaysOnline, QuietOnline
<1>6. CASE EditOffline(f)
  BY <1>2, <1>6 DEF EditOffline
<1> QED BY <1>4, <1>5, <1>6

\* The errand goes on with a request that knows nothing yet.
LEMMA RequestKeeps ==
    ASSUME Online, NEW f \in flights, NEW g, QuietOnline, asked \subseteq asked',
           g.kind \in {"put", "del", "head", "fetch"}, g.op = f.op, g.item = f.item,
           g.out = "wait", f.op # 0, Becomes(f, g), ~Recaching(f),
           g.kind = "put" => Kind(f) # "delete" /\ g.cond <= changes /\ f.item \in asked',
           g.kind = "fetch" => Kind(f) # "delete" \/ f.item \in asked'
    PROVE  StaysOnline
<1>1. OnlineFlight(g)'
  BY DEF OnlineFlight, Kind, QuietOnline, IsRead
<1>2. SeenFlight(g)'
  BY DEF SeenFlight, Recaching
<1>3. CoverFlight(g)'
  BY DEF CoverFlight, Recaching, IsRead
<1> QED BY <1>1, <1>2, <1>3, ErrandTurns DEF FlightStaysOnline, QuietOnline

LEMMA OnlinePrompt ==
    ASSUME Online, NEW f \in flights, NEW k \in {"put", "del"}, Prompt(f, k), QuietOnline,
           f.kind \in {"put", "del", "head"}, k = "put" => f.kind = "put"
    PROVE  StaysOnline
<1>1. /\ f.op # 0 /\ f.item \in Items /\ changes \in Nat /\ ~Recaching(f)
      /\ f.kind = "put" => Kind(f) # "delete"
  BY OnlineFacts, OneOnline DEF Recaching, OnlineFlight
<1>2. asked \subseteq asked' /\ f.item \in asked'
  BY DEF Prompt
<1>3. k \in FlightKinds /\ "fetch" \in FlightKinds /\ NoEtag \in Int
  BY DEF FlightKinds, NoEtag
<1>4. CASE Becomes(f, [Turn(f, k) EXCEPT !.cond = NoEtag])
  <2>1. PICK c, g : c = NoEtag /\ g = [Turn(f, k) EXCEPT !.cond = c]
    OBVIOUS
  <2>2. /\ g.kind = k /\ g.op = f.op /\ g.item = f.item /\ g.cond = 0 /\ g.out = "wait"
        /\ Becomes(f, g)
    BY <1>3, <1>4, <2>1, OnlineRequestFields DEF NoEtag
  <2> QED BY <1>1, <1>2, <2>2, RequestKeeps
<1>5. CASE Becomes(f, Turn(f, "fetch"))
  <2>1. PICK g : g = Turn(f, "fetch")
    OBVIOUS
  <2>2. /\ g.kind = "fetch" /\ g.op = f.op /\ g.item = f.item /\ g.out = "wait"
        /\ Becomes(f, g)
    BY <1>3, <1>5, <2>1, OnlineRequestFields
  <2> QED BY <1>1, <1>2, <2>2, RequestKeeps
<1> QED BY <1>4, <1>5 DEF Prompt

LEMMA OnlineFailed ==
    ASSUME Online, NEW f \in flights, Failed(f), QuietOnline, asked' = asked,
           f.kind \in {"put", "del", "head", "fetch"}
    PROVE  StaysOnline
<1>1. f.op # 0 /\ ~Recaching(f)
  BY OnlineFacts DEF Recaching
<1>2. Done(f)
  BY <1>1 DEF Failed
<1> QED BY <1>1, <1>2, ErrandEnds DEF QuietOnline

LEMMA OnlinePut ==
    ASSUME Online, NEW f \in flights, PutDone(f) \/ PutConflicts(f)
    PROVE  StaysOnline
<1>1. f.kind = "put" /\ OnlineFlight(f)
  BY OneOnline DEF PutDone, PutConflicts, Ready
<1>2. /\ f.op # 0 /\ ~Recaching(f) /\ Kind(f) # "delete" /\ f.out # "unavailable"
      /\ "fetch" \in FlightKinds
  BY <1>1 DEF OnlineFlight, Recaching, FlightKinds
<1>3. CASE PutConflicts(f)
  <2>1. Prompt(f, "put") /\ QuietOnline
    BY <1>3 DEF PutConflicts, QuietOnline, collection, cache, users
  <2> QED BY <1>1, <2>1, OnlinePrompt
<1>4. CASE PutDone(f)
  <2>1. asked' = asked /\ UNCHANGED <<server, changes, token, info, edits>>
    BY <1>4 DEF PutDone, collection, history
  <2>2. CASE f.out = "ok" /\ Becomes(f, Turn(f, "fetch")) /\ UNCHANGED <<row, meta, told>>
    <3>1. PICK g : g = Turn(f, "fetch")
      OBVIOUS
    <3>2. /\ g.kind = "fetch" /\ g.op = f.op /\ g.item = f.item /\ g.out = "wait"
          /\ Becomes(f, g)
      BY <1>2, <2>2, <3>1, OnlineRequestFields
    <3> QED BY <1>2, <2>1, <2>2, <3>2, RequestKeeps DEF QuietOnline
  <2>3. CASE Failed(f)
    BY <1>1, <2>1, <2>3, OnlineFailed DEF Failed, QuietOnline
  <2> QED BY <1>2, <1>4, <2>2, <2>3 DEF PutDone
<1> QED BY <1>3, <1>4

LEMMA OnlineDeleteConflicts ==
    ASSUME Online, NEW f \in flights, DeleteConflicts(f)
    PROVE  StaysOnline
<1>1. f.kind = "del" /\ QuietOnline /\ asked' = asked /\ ~Recaching(f) /\ "head" \in FlightKinds
  BY DEF DeleteConflicts, Ready, QuietOnline, collection, cache, users, history, Recaching,
         FlightKinds
<1>2. f.op # 0
  BY <1>1, OnlineFacts
<1>3. PICK g : g = Turn(f, "head")
  OBVIOUS
<1>4. /\ g.kind = "head" /\ g.op = f.op /\ g.item = f.item /\ g.out = "wait"
      /\ Becomes(f, g)
  BY <1>1, <1>3, OnlineRequestFields DEF DeleteConflicts
<1> QED BY <1>1, <1>2, <1>4, RequestKeeps

LEMMA OnlineFetchUnchanged ==
    ASSUME Online, NEW f \in flights, FetchUnchanged(f) \/ SyncFailed(f)
    PROVE  StaysOnline
<1>1. /\ Done(f) /\ ~Recaching(f) /\ asked' = asked
      /\ UNCHANGED <<server, changes, row, info, token, edits>>
  BY DEF FetchUnchanged, SyncFailed, Ready, Recaching, collection, cache, users, history
<1> QED BY <1>1, ErrandEnds

-----------------------------------------------------------------------------
(* Online: the callbacks that settle an item, which leave it as row r with   *)
(* ETag e.                                                                   *)

SeenAs(i, r, e) == i \notin asked /\ e = server[i].tag /\ server[i].v < 0 => r.v = server[i].v

CoveredAs(i, r, e) ==
    server[i].tag <= token => e = server[i].tag \/ (server[i].v = 0 /\ (r.v = 0 \/ e = Unknown))

LEMMA ItemSettles ==
    ASSUME Online, NEW f \in flights, f.item \in Items, Done(f), NEW r, NEW e \in Int,
           r.flag = "none", e <= changes, e # NoEtag,
           row' = [row EXCEPT ![f.item] = r], info' = [info EXCEPT ![f.item] = e],
           UNCHANGED <<server, changes, token, asked>>,
           SeenFlight(f) => SeenAs(f.item, r, e),
           CoverFlight(f) => CoveredAs(f.item, r, e)
    PROVE  StaysOnline
<1>1. flights = {f} /\ flights' = {} /\ DataInv
  BY OneOnline DEF Done
<1>2. /\ row'[f.item] = r /\ info'[f.item] = e
      /\ \A i \in Items : i # f.item => row'[i] = row[i] /\ info'[i] = info[i]
  BY <1>1 DEF DataInv, RowsOk
<1>3. CalmOnline'
  BY <1>1, <1>2 DEF Online, CalmOnline, EtagsOk
<1>4. ASSUME SeenOnline PROVE SeenOnline'
  <2>1. SeenAs(f.item, r, e)
    BY <1>1, <1>4 DEF SeenOnline
  <2>2. ASSUME NEW i \in Items \ asked, Theirs(i)' PROVE row'[i].v = server[i].v
    BY <1>1, <1>2, <1>4, <2>1, <2>2 DEF SeenOnline, SeenAs, Theirs
  <2> QED BY <1>1, <2>2 DEF SeenOnline
<1>5. ASSUME CoverOnline PROVE CoverOnline'
  <2>1. CoveredAs(f.item, r, e)
    BY <1>1, <1>5 DEF CoverOnline
  <2>2. ASSUME NEW i \in Items, server[i].tag <= token PROVE Covered(i)'
    BY <1>1, <1>2, <1>5, <2>1, <2>2 DEF CoverOnline, CoveredAs, Covered
  <2> QED BY <1>1, <2>2 DEF CoverOnline
<1> QED BY <1>3, <1>4, <1>5 DEF StaysOnline

LEMMA OnlineModifyItem ==
    ASSUME Online, NEW f \in flights, DoModifyItem(f) \/ MarkModified(f) \/ DeleteOfflineItem(f)
    PROVE  StaysOnline
<1>1. /\ f.kind = "flag" /\ DataInv /\ OnlineFlight(f)
      /\ f.then \in {"store", "cache", "mark", "erase"}
  BY OneOnline DEF DoModifyItem, MarkModified, DeleteOfflineItem, Is, Ready
<1>2. f.then = "cache" /\ f.flag = "none"
  BY <1>1 DEF OnlineFlight
<1>3. DoModifyItem(f) /\ Done(f) /\ Recaching(f)
  BY <1>1, <1>2 DEF DoModifyItem, MarkModified, DeleteOfflineItem, Is, Recaching
<1>4. PICK r, e : r = [v |-> f.v, flag |-> f.flag] /\ e = info[f.item]
  OBVIOUS
<1>5. /\ f.item \in Items /\ e \in Int /\ e <= changes /\ e # NoEtag
      /\ r.flag = "none" /\ r.v = f.v
  BY <1>1, <1>2, <1>4, OnlineFacts
<1>6. row' = [row EXCEPT ![f.item] = r]
  BY <1>3, <1>4 DEF DoModifyItem
<1>7. info' = [info EXCEPT ![f.item] = e]
  BY <1>1, <1>3, <1>4, <1>5 DEF DoModifyItem, DataInv
<1>8. UNCHANGED <<server, changes, token, asked>>
  BY <1>3 DEF DoModifyItem, collection, history
<1>9. SeenFlight(f) => SeenAs(f.item, r, e)
  BY <1>3, <1>4, <1>5 DEF SeenFlight, SeenAs, Theirs
<1>10. CoverFlight(f) => CoveredAs(f.item, r, e)
  BY <1>3, <1>4 DEF CoverFlight, CoveredAs
<1> QED BY <1>3, <1>5, <1>6, <1>7, <1>8, <1>9, <1>10, ItemSettles

LEMMA OnlineDelete ==
    ASSUME Online, NEW f \in flights, DeleteDone(f)
    PROVE  StaysOnline
<1>1. f.kind = "del" /\ DataInv /\ OnlineFlight(f) /\ ~Recaching(f)
  BY OneOnline DEF DeleteDone, Ready, Recaching
<1>2. /\ f.op # 0 /\ f.item \in Items /\ f.out # "unavailable" /\ Erases(f)
      /\ server[f.item].tag \in Nat /\ changes \in Nat
  BY <1>1, OnlineFacts, OneOnline, FlightFacts DEF OnlineFlight
<1>3. UNCHANGED <<server, changes, token, edits, asked>>
  BY DEF DeleteDone, collection, history
<1>4. CASE Failed(f) /\ UNCHANGED info
  BY <1>1, <1>3, <1>4, OnlineFailed DEF Failed, QuietOnline
<1>5. CASE f.out = "ok" /\ Succeeded(f, 0, meta) /\ info' = [info EXCEPT ![f.item] = Unknown]
  <2>1. PICK r, e : r = NoRow /\ e = Unknown
    OBVIOUS
  <2>2. /\ r.v = 0 /\ r.flag = "none" /\ e \in Int /\ e = -1 /\ e # NoEtag /\ e <= changes
        /\ e # server[f.item].tag
    BY <1>2, <2>1 DEF NoRow, Unknown, NoEtag
  <2>3. row' = [row EXCEPT ![f.item] = r] /\ Done(f)
    BY <1>2, <1>5, <2>1 DEF Succeeded
  <2>4. SeenAs(f.item, r, e)
    BY <2>2 DEF SeenAs
  <2>5. CoverFlight(f) => CoveredAs(f.item, r, e)
    BY <1>1, <1>5, <2>2 DEF CoverFlight, CoveredAs
  <2> QED BY <1>2, <1>3, <1>5, <2>1, <2>2, <2>3, <2>4, <2>5, ItemSettles
<1> QED BY <1>2, <1>4, <1>5 DEF DeleteDone

\* What has been read of the item itself.
LEMMA ReadFacts ==
    ASSUME Online, NEW f \in flights, f.kind \in {"head", "fetch"}, f.out = "ok"
    PROVE  /\ f.data[f.item].tag \in Nat /\ f.data[f.item].v \in Int
           /\ f.data[f.item].v <= Len(edits)
           /\ f.data[f.item].tag <= changes
           /\ f.data[f.item].v # 0 => f.data[f.item].tag > 0
           /\ server[f.item].tag \in {f.data[f.item].tag, info[f.item]} =>
                 f.data[f.item] = server[f.item]
           /\ CoverFlight(f) =>
                 (server[f.item].tag <= token => f.data[f.item] = server[f.item])
<1>1. /\ f.item \in Items /\ f \in FlightRec(Len(edits)) /\ ReadOk(f) /\ IsRead(f)
      /\ ReadUpTo(f) = token
  BY OneOnline, OnlineFacts, FlightFacts DEF OnlineFlight, IsRead, ReadUpTo, IsSync
<1>2. f.data[f.item] \in Res(Len(edits))
  BY <1>1 DEF FlightRec
<1>3. CoverFlight(f) => (server[f.item].tag <= token => f.data[f.item] = server[f.item])
  BY <1>1 DEF CoverFlight
<1> QED BY <1>1, <1>2, <1>3 DEF Res, Ver, ReadOk

LEMMA OnlineHead ==
    ASSUME Online, NEW f \in flights, HeadDone(f)
    PROVE  StaysOnline
<1>1. f.kind = "head" /\ DataInv /\ OnlineFlight(f) /\ ~Recaching(f)
  BY OneOnline DEF HeadDone, Ready, Recaching
<1>2. /\ f.op # 0 /\ f.item \in Items /\ f.out # "unavailable" /\ Erases(f)
  BY <1>1, OnlineFacts, OneOnline, FlightFacts DEF OnlineFlight
<1>3. UNCHANGED <<server, changes, token, info, edits>>
  BY DEF HeadDone, collection
<1>4. CASE Prompt(f, "del") /\ UNCHANGED <<row, meta, told>>
  BY <1>1, <1>3, <1>4, OnlinePrompt DEF QuietOnline
<1>5. CASE /\ f.out = "ok" /\ f.data[f.item].v = 0 /\ Succeeded(f, 0, meta)
           /\ UNCHANGED asked
  <2>1. PICK r, e : r = NoRow /\ e = info[f.item]
    OBVIOUS
  <2>2. /\ r.v = 0 /\ r.flag = "none" /\ e \in Int /\ e # NoEtag /\ e <= changes
    BY <1>1, <2>1, OnlineFacts DEF NoRow
  <2>3. row' = [row EXCEPT ![f.item] = r] /\ Done(f)
    BY <1>2, <1>5, <2>1 DEF Succeeded
  <2>4. info' = [info EXCEPT ![f.item] = e]
    BY <1>1, <1>2, <1>3, <2>1 DEF DataInv
  <2>5. SeenAs(f.item, r, e)
    <3>1. e = server[f.item].tag => f.data[f.item] = server[f.item]
      BY <1>1, <1>5, <2>1, ReadFacts
    <3>2. f.data[f.item] = server[f.item] => ~(server[f.item].v < 0)
      BY <1>5
    <3> QED BY <3>1, <3>2 DEF SeenAs
  <2>6. CoverFlight(f) => CoveredAs(f.item, r, e)
    BY <1>1, <1>5, <2>2, ReadFacts DEF CoveredAs
  <2> QED BY <1>2, <1>3, <1>5, <2>2, <2>3, <2>4, <2>5, <2>6, ItemSettles
<1> QED BY <1>2, <1>4, <1>5 DEF HeadDone

\* The item has been fetched for a modification: the row will follow.
LEMMA ItemRecached ==
    ASSUME Online, NEW f \in flights, f.item \in Items, NEW g, Becomes(f, g), NEW e \in Int,
           e <= changes, e # NoEtag, ~Recaching(f),
           g.op # 0, g.item = f.item, g.kind = "flag", g.then = "cache", g.flag = "none",
           g.out = "wait", info' = [info EXCEPT ![f.item] = e],
           UNCHANGED <<row, server, changes, token, asked>>,
           server[f.item].tag = e => g.v = server[f.item].v,
           CoverFlight(f) => (server[f.item].tag <= token => e = server[f.item].tag)
    PROVE  StaysOnline
<1>1. flights = {f} /\ flights' = {g} /\ DataInv
  BY OneOnline DEF Becomes
<1>2. /\ info'[f.item] = e
      /\ \A i \in Items : i # f.item => info'[i] = info[i]
  BY <1>1 DEF DataInv
<1>3. CalmOnline'
  <2>1. OnlineFlight(g)'
    BY DEF OnlineFlight, IsRead
  <2> QED BY <1>1, <1>2, <2>1 DEF Online, CalmOnline, EtagsOk
<1>4. ASSUME SeenOnline PROVE SeenOnline'
  <2>1. SeenFlight(g)'
    BY <1>2 DEF SeenFlight, Theirs, Recaching
  <2>2. ASSUME NEW i \in Items \ asked, Theirs(i)', i # f.item PROVE row'[i].v = server[i].v
    BY <1>1, <1>2, <1>4, <2>2 DEF SeenOnline, Theirs
  <2>3. g.item = f.item /\ Recaching(g)'
    BY DEF Recaching
  <2> QED BY <1>1, <2>1, <2>2, <2>3 DEF SeenOnline
<1>5. ASSUME CoverOnline PROVE CoverOnline'
  <2>1. server[f.item].tag <= token => e = server[f.item].tag
    BY <1>1, <1>5 DEF CoverOnline
  <2>2. CoverFlight(g)'
    BY <1>2, <2>1 DEF CoverFlight, IsRead, Recaching
  <2>3. ASSUME NEW i \in Items, server[i].tag <= token PROVE Covered(i)'
    BY <1>1, <1>2, <1>5, <2>1, <2>3 DEF CoverOnline, Covered
  <2> QED BY <1>1, <2>2, <2>3 DEF CoverOnline
<1> QED BY <1>3, <1>4, <1>5 DEF StaysOnline

LEMMA OnlineFetch ==
    ASSUME Online, NEW f \in flights, FetchDone(f)
    PROVE  StaysOnline
<1>1. f.kind = "fetch" /\ DataInv /\ FlightsInv /\ OnlineFlight(f) /\ ~Recaching(f)
  BY OneOnline DEF FetchDone, Ready, Recaching
<1>2. /\ f.op # 0 /\ f.item \in Items /\ f.out # "unavailable"
      /\ Kind(f) # "delete" \/ f.item \in asked
  BY <1>1, OnlineFacts, OneOnline DEF OnlineFlight
<1>3. UNCHANGED <<server, changes, token, edits, asked>>
  BY DEF FetchDone, collection, history
<1>4. CASE Failed(f) /\ UNCHANGED info
  BY <1>1, <1>3, <1>4, OnlineFailed DEF Failed, QuietOnline
<1>5. ASSUME f.out = "ok", Fetched(f).v # 0, info' = [info EXCEPT ![f.item] = Fetched(f).tag],
             Succeeded(f, Fetched(f).v, [meta EXCEPT ![f.item] = Fetched(f).tag])
      PROVE  StaysOnline
  <2>1. PICK d, e : d = f.data[f.item] /\ e = d.tag
    OBVIOUS
  <2>2. /\ e \in Int /\ e # NoEtag /\ e <= changes /\ d.v \in Int /\ d.v <= Len(edits)
        /\ e = server[f.item].tag => d = server[f.item]
        /\ CoverFlight(f) => (server[f.item].tag <= token => d = server[f.item])
    BY <1>1, <1>5, <2>1, ReadFacts DEF Fetched, NoEtag
  <2>3. info' = [info EXCEPT ![f.item] = e] /\ Fetched(f).v = d.v
    BY <1>5, <2>1 DEF Fetched
  <2>4. ASSUME NEW r, r.flag = "none", row' = [row EXCEPT ![f.item] = r], Done(f),
               r.v = d.v \/ f.item \in asked
        PROVE  StaysOnline
    <3>1. SeenAs(f.item, r, e)
      BY <2>2, <2>4 DEF SeenAs
    <3>2. CoverFlight(f) => CoveredAs(f.item, r, e)
      BY <2>1, <2>2 DEF CoveredAs
    <3> QED BY <1>2, <1>3, <2>2, <2>3, <2>4, <3>1, <3>2, ItemSettles
  <2>5. CASE Erases(f)
    <3>1. f.item \in asked /\ Done(f) /\ row' = [row EXCEPT ![f.item] = NoRow]
      BY <1>2, <1>5, <2>5 DEF Erases, Succeeded
    <3>2. PICK r : r = NoRow
      OBVIOUS
    <3>3. r.flag = "none"
      BY <3>2 DEF NoRow
    <3> QED BY <2>4, <3>1, <3>2, <3>3
  <2>6. CASE ~Erases(f) /\ Kind(f) = "add" /\ Done(f)
             /\ row' = [row EXCEPT ![f.item] = [v |-> d.v, flag |-> "none"]]
    <3>1. PICK r : r = [v |-> d.v, flag |-> "none"]
      OBVIOUS
    <3>2. r.flag = "none" /\ r.v = d.v /\ row' = [row EXCEPT ![f.item] = r]
      BY <2>6, <3>1
    <3> QED BY <2>4, <2>6, <3>2
  <2>7. CASE /\ ~Erases(f) /\ UNCHANGED row
             /\ Becomes(f, [ReadFlag(Turn(f, "flag"), "cache") EXCEPT !.v = d.v])
    <3>1. PICK n, h : n = Len(edits) /\ h = Turn(f, "flag")
      OBVIOUS
    <3>2. n \in Nat /\ f \in FlightRec(n) /\ "flag" \in FlightKinds /\ d.v \in Int
      BY <1>1, <2>2, <3>1, FlightFacts DEF FlightKinds
    <3>3. h \in FlightRec(n) /\ h.op = f.op /\ h.item = f.item /\ h.out = "wait"
      BY <3>1, <3>2, TurnedFlight
    <3>4. 0 \in Int
      OBVIOUS
    <3>5. h.flag = "none"
      BY <3>1, <3>2, <3>4, OnlineRequestFields
    <3>6. PICK g : g = [ReadFlag(h, "cache") EXCEPT !.v = d.v]
      OBVIOUS
    <3>7. /\ g.op = f.op /\ g.item = f.item /\ g.kind = "flag" /\ g.then = "cache"
          /\ g.flag = "none" /\ g.out = "wait" /\ g.v = d.v
      BY <3>3, <3>5, <3>6 DEF FlightRec, ReadFlag
    <3>8. Becomes(f, g)
      BY <2>7, <3>1, <3>6
    <3>9. server[f.item].tag = e => g.v = server[f.item].v
      BY <2>2, <3>7
    <3>10. CoverFlight(f) => (server[f.item].tag <= token => e = server[f.item].tag)
      BY <2>1, <2>2
    <3> QED BY <1>1, <1>2, <1>3, <2>2, <2>3, <2>7, <3>7, <3>8, <3>9, <3>10, ItemRecached
  <2> QED BY <1>2, <1>5, <2>3, <2>5, <2>6, <2>7 DEF Succeeded
<1> QED BY <1>2, <1>4, <1>5 DEF FetchDone

\* Items that are gone are dropped.
LEMMA ItemsDropped ==
    ASSUME Online, NEW D \in SUBSET Items, DeleteTargets(D)
    PROVE  /\ \A i \in Items : row'[i].flag = "none"
           /\ \A i \in Items : \/ i \in D /\ row'[i].v = 0 /\ info'[i] = Unknown
                               \/ row'[i] = row[i] /\ info'[i] = info[i]
           /\ \A i \in D : row'[i].v = 0 \/ info'[i] = Unknown
<1>1. \A i \in Items : row[i].flag = "none"
  BY DEF Online, CalmOnline
<1> QED BY <1>1 DEF DeleteTargets, Dropped, NoRow

LEMMA OnlineFetchGone ==
    ASSUME Online, NEW f \in flights, FetchGone(f)
    PROVE  StaysOnline
<1>1. f.kind = "fetch" /\ f.out = "ok" /\ f.data[f.item].v = 0 /\ DataInv
  BY OneOnline DEF FetchGone, Ready, Fetched
<1>2. /\ f.item \in Items /\ changes \in Nat /\ server[f.item].tag \in Nat
      /\ info[f.item] \in Int /\ info[f.item] # NoEtag /\ info[f.item] <= changes
  BY <1>1, OnlineFacts
<1>3. UNCHANGED <<server, changes, token, asked>> /\ Done(f)
  BY DEF FetchGone, collection, history
<1>4. PICK i, r, e : i = f.item /\ r = row'[i] /\ e = info'[i]
  OBVIOUS
<1>5. DeleteTargets({i}) /\ {i} \in SUBSET Items
  BY <1>2, <1>4 DEF FetchGone
<1>6. /\ r.flag = "none" /\ (r.v = 0 \/ e = Unknown)
      /\ (r.v = 0 /\ e = Unknown) \/ (r = row[i] /\ e = info[i])
  BY <1>4, <1>5, ItemsDropped
<1>7. row' = [row EXCEPT ![i] = r] /\ info' = [info EXCEPT ![i] = e]
  BY <1>1, <1>4, <1>5 DEF DeleteTargets, Dropped, DataInv, RowsOk
<1>8. e \in Int /\ e # NoEtag /\ e <= changes
  BY <1>2, <1>4, <1>6 DEF Unknown, NoEtag
<1>9. SeenAs(i, r, e)
  <2>1. e = server[i].tag => e = info[i]
    BY <1>2, <1>4, <1>6 DEF Unknown
  <2>2. e = server[i].tag => server[i].v = 0
    BY <1>1, <1>4, <2>1, ReadFacts
  <2> QED BY <2>2 DEF SeenAs
<1>10. CoverFlight(f) => CoveredAs(i, r, e)
  BY <1>1, <1>4, <1>6, ReadFacts DEF CoveredAs
<1> QED BY <1>2, <1>3, <1>4, <1>6, <1>7, <1>8, <1>9, <1>10, ItemSettles

-----------------------------------------------------------------------------
(* Online: the playback, which finds no journal, and the sync.               *)

LEMMA OnlineNewFields ==
    ASSUME Online, NEW k \in FlightKinds
    PROVE  /\ Flight(k) \in FlightRec(Len(edits)) /\ Flight(k).kind = k
           /\ Flight(k).out = "wait" /\ Flight(k).item = NoItem
<1>1. PICK n, h : n = Len(edits) /\ h = Flight(k)
  OBVIOUS
<1>2. n \in Nat
  BY <1>1, EditCount DEF Online, CachedInv
<1>3. h \in FlightRec(n) /\ h.kind = k /\ h.out = "wait"
  BY <1>1, <1>2, FreshFlight
<1>4. h.item = NoItem
  BY <1>1 DEF Flight
<1> QED BY <1>1, <1>3, <1>4

\* A flight of no item, which has read nothing yet.
LEMMA AnonymousKeeps ==
    ASSUME NEW g, g.kind \in {"list", "pop", "sync"}, g.item \notin Items,
           g.kind = "list" => g.phase # "none", g.kind = "pop" => g.todo = {},
           g.out = "wait", g.kind = "sync" => g.cond = token'
    PROVE  OnlineFlight(g)' /\ SeenFlight(g)' /\ CoverFlight(g)'
<1>1. OnlineFlight(g)'
  BY DEF OnlineFlight, IsRead
<1>2. SeenFlight(g)'
  BY DEF SeenFlight
<1>3. CoverFlight(g)'
  BY DEF CoverFlight, IsRead, Recaching
<1> QED BY <1>1, <1>2, <1>3

LEMMA OnlineListFields ==
    ASSUME Online, NEW p \in 0..MaxPlaybacks, NEW ph \in Phases
    PROVE  List(p, ph).kind = "list" /\ List(p, ph).phase = ph
           /\ List(p, ph).out = "wait" /\ List(p, ph).item = NoItem
<1>1. PICK n, h : n = Len(edits) /\ h = Flight("list")
  OBVIOUS
<1>2. h \in FlightRec(n) /\ h.kind = "list" /\ h.out = "wait" /\ h.item = NoItem
  BY <1>1, OnlineNewFields DEF FlightKinds
<1> QED BY <1>1, <1>2 DEF List, FlightRec

LEMMA OnlineSyncFields ==
    ASSUME Online, NEW c \in Int
    PROVE  LET g == [Flight("sync") EXCEPT !.cond = c] IN
           g.kind = "sync" /\ g.cond = c /\ g.out = "wait" /\ g.item = NoItem
<1>1. PICK n, h : n = Len(edits) /\ h = Flight("sync")
  OBVIOUS
<1>2. h \in FlightRec(n) /\ h.kind = "sync" /\ h.out = "wait" /\ h.item = NoItem
  BY <1>1, OnlineNewFields DEF FlightKinds
<1> QED BY <1>1, <1>2 DEF FlightRec

LEMMA OnlineSynchronize ==
    ASSUME Online, NEW f \in flights, Synchronize(flights \ {f}), QuietOnline, asked' = asked,
           ~Recaching(f)
    PROVE  StaysOnline
<1>1. asked \subseteq asked' /\ UNCHANGED <<server, changes, row, info, token, edits>>
  BY DEF QuietOnline
<1>2. CASE flights' = flights \ {f}
  BY <1>1, <1>2, ErrandEnds DEF Done
<1>3. CASE flights' = (flights \ {f}) \cup {[Flight("sync") EXCEPT !.cond = token]}
  <2>1. token \in Int /\ NoItem \notin Items
    BY ConstantsAssumption DEF Online, CachedInv, DataInv
  <2>2. PICK g : g = [Flight("sync") EXCEPT !.cond = token]
    OBVIOUS
  <2>3. g.kind = "sync" /\ g.cond = token' /\ g.out = "wait" /\ g.item \notin Items
    BY <1>1, <2>1, <2>2, OnlineSyncFields
  <2>4. OnlineFlight(g)' /\ SeenFlight(g)' /\ CoverFlight(g)'
    BY <2>3, AnonymousKeeps
  <2>5. Becomes(f, g)
    BY <1>3, <2>2 DEF Becomes
  <2> QED BY <1>1, <2>4, <2>5, ErrandTurns DEF FlightStaysOnline
<1> QED BY <1>2, <1>3 DEF Synchronize, Online

LEMMA OnlineListDone ==
    ASSUME Online, NEW f \in flights, ListDone(f)
    PROVE  StaysOnline
<1>1. /\ f.kind = "list" /\ f.phase # "none" /\ DataInv /\ FlightsInv /\ ~offline
      /\ \A i \in Items : row[i].flag = "none"
  BY OneOnline DEF ListDone, OnlineFlight, Online, CalmOnline
<1>2. PICK n, h : n = Len(edits) /\ h = Turn(f, "pop")
  OBVIOUS
<1>3. n \in Nat /\ f \in FlightRec(n) /\ "pop" \in FlightKinds
  BY <1>1, <1>2, FlightFacts DEF FlightKinds
<1>4. /\ h \in FlightRec(n) /\ h.kind = "pop" /\ h.out = "wait" /\ h.item = f.item
      /\ h.op = f.op
  BY <1>2, <1>3, TurnedFlight
<1>5. PICK t : t = {[item |-> i, v |-> row[i].v] :
                      i \in {j \in Items : row[j].v # 0 /\ row[j].flag = f.phase}}
  OBVIOUS
<1>6. t = {}
  BY <1>1, <1>5
<1>7. PICK g : g = [h EXCEPT !.todo = t]
  OBVIOUS
<1>8. /\ g.kind = "pop" /\ g.out = "wait" /\ g.item = f.item /\ g.op = f.op /\ g.todo = {}
  BY <1>4, <1>6, <1>7 DEF FlightRec
<1>9. Becomes(f, g)
  BY <1>1, <1>2, <1>5, <1>7 DEF ListDone
<1>10. OnlineFlight(g)' /\ SeenFlight(g)' /\ CoverFlight(g)'
  <2>1. OnlineFlight(g)'
    BY <1>8 DEF OnlineFlight, IsRead
  <2>2. SeenFlight(g)'
    BY <1>8 DEF SeenFlight, Recaching
  <2>3. CoverFlight(g)'
    BY <1>8 DEF CoverFlight, IsRead, Recaching
  <2> QED BY <2>1, <2>2, <2>3
<1>11. /\ UNCHANGED <<server, changes, row, info, token, edits>>
       /\ asked \subseteq asked' /\ ~Recaching(f)
  BY <1>1 DEF ListDone, collection, cache, users, history, Recaching
<1> QED BY <1>9, <1>10, <1>11, ErrandTurns DEF FlightStaysOnline

LEMMA OnlinePop ==
    ASSUME Online, NEW f \in flights, PopItemQueue(f) \/ NextPhase(f)
    PROVE  StaysOnline
<1>1. f.kind = "pop" /\ f.todo = {} /\ f.play \in 0..MaxPlaybacks /\ ~Recaching(f)
  BY OneOnline, FlightFacts DEF PopItemQueue, NextPhase, Popping, OnlineFlight, FlightRec, Recaching
<1>2. NextPhase(f)
  BY <1>1 DEF PopItemQueue
<1>3. QuietOnline /\ asked' = asked
  BY <1>2 DEF NextPhase, QuietOnline, collection, cache, users, history
<1>4. CASE \E ph \in {"modified", "deleted"} : Becomes(f, List(f.play, ph))
  <2>1. PICK p, ph, g : /\ p = f.play /\ ph \in {"modified", "deleted"}
                        /\ g = List(p, ph) /\ Becomes(f, g)
    BY <1>4
  <2>2. ph \in Phases /\ ph # "none" /\ p \in 0..MaxPlaybacks /\ NoItem \notin Items
    BY <1>1, <2>1, ConstantsAssumption DEF Phases
  <2>3. g.kind = "list" /\ g.phase # "none" /\ g.out = "wait" /\ g.item \notin Items
    BY <2>1, <2>2, OnlineListFields
  <2>4. OnlineFlight(g)' /\ SeenFlight(g)' /\ CoverFlight(g)'
    BY <2>3, AnonymousKeeps
  <2> QED BY <1>1, <1>3, <2>1, <2>4, ErrandTurns DEF FlightStaysOnline, QuietOnline
<1>5. CASE Synchronize(flights \ {f})
  BY <1>1, <1>3, <1>5, OnlineSynchronize
<1> QED BY <1>2, <1>4, <1>5 DEF NextPhase

LEMMA OnlineSyncAgain ==
    ASSUME Online, NEW f \in flights, SyncAgain(f)
    PROVE  StaysOnline
<1>1. flights = {f} /\ DataInv /\ token' = Unknown /\ Unknown \in Int /\ ~Recaching(f)
  BY OneOnline DEF SyncAgain, Unknown, Ready, Recaching
<1>2. PICK g : g = [Flight("sync") EXCEPT !.cond = Unknown]
  OBVIOUS
<1>3. g.kind = "sync" /\ g.cond = token' /\ g.out = "wait" /\ g.item \notin Items
  BY <1>1, <1>2, OnlineSyncFields, ConstantsAssumption
<1>4. OnlineFlight(g)' /\ SeenFlight(g)' /\ CoverFlight(g)'
  BY <1>3, AnonymousKeeps
<1>5. flights' = {g} /\ UNCHANGED <<server, changes, row, info, edits, asked>>
  BY <1>1, <1>2 DEF SyncAgain, Becomes, collection, users, history
<1>6. CalmOnline'
  BY <1>4, <1>5 DEF Online, CalmOnline, EtagsOk
<1>7. ASSUME SeenOnline PROVE SeenOnline'
  BY <1>1, <1>4, <1>5, <1>7 DEF SeenOnline, Theirs
<1>8. \A i \in Items : server[i].tag \in Nat
  BY <1>1 DEF DataInv, Res
<1>9. CoverOnline'
  BY <1>1, <1>4, <1>5, <1>8 DEF CoverOnline, Unknown
<1> QED BY <1>6, <1>7, <1>9 DEF StaysOnline

\* What a sync or its multiget has read of an item.
LEMMA SyncReads ==
    ASSUME Online, NEW f \in flights, IsSync(f), f.out = "ok", NEW i \in Items
    PROVE  /\ f.data[i].tag \in Nat /\ f.data[i].tag <= changes
           /\ f.data[i].v \in Int /\ f.data[i].v <= Len(edits)
           /\ f.data[i].v # 0 => f.data[i].tag > 0
           /\ server[i].tag \in {f.data[i].tag, info[i]} => f.data[i] = server[i]
           /\ f.upto \in Nat /\ token \in Int /\ token <= f.upto /\ server[i].tag \in Nat
           /\ server[i].v # 0 => server[i].tag > 0
           /\ CoverOnline => (server[i].tag <= f.upto => f.data[i] = server[i])
           /\ CoverOnline => (server[i].tag <= token => Covered(i))
<1>1. /\ f \in FlightRec(Len(edits)) /\ IsRead(f) /\ ReadOk(f) /\ ReadUpTo(f) = f.upto
      /\ DataInv /\ SyncInv /\ Learnt(f)
  BY OneOnline, FlightFacts DEF OnlineFlight, IsRead, ReadUpTo, IsSync, Learnt
<1>2. f.data[i] \in Res(Len(edits)) /\ server[i] \in Res(Len(edits)) /\ f.upto \in Nat
  BY <1>1 DEF FlightRec, DataInv
<1>3. f.data[i].tag \in Nat /\ f.data[i].v \in Int /\ f.data[i].v <= Len(edits)
      /\ server[i].tag \in Nat
  BY <1>2 DEF Res, Ver
<1>4. /\ f.data[i].tag <= changes /\ (f.data[i].v # 0 => f.data[i].tag > 0)
      /\ server[i].tag \in {f.data[i].tag, info[i]} => f.data[i] = server[i]
      /\ server[i].v # 0 => server[i].tag > 0
  BY <1>1 DEF ReadOk, Online, CalmOnline, EtagsOk
<1>5. token \in Int /\ token <= f.upto
  BY <1>1 DEF SyncInv, DataInv
<1>6. CoverOnline => CoverFlight(f)
  BY DEF CoverOnline
<1>7. CoverOnline => (server[i].tag <= f.upto => f.data[i] = server[i])
  BY <1>1, <1>6 DEF CoverFlight
<1>8. CoverOnline => (server[i].tag <= token => Covered(i))
  BY DEF CoverOnline
<1> QED BY <1>2, <1>3, <1>4, <1>5, <1>7, <1>8

\* The items that the answer to sync-collection says are gone, and those it asks to fetch.
GoneItems(f) == IF token = Unknown THEN {i \in Items : f.data[i].v = 0}
                ELSE {i \in Reported(f) : f.data[i].v = 0}
NeedItems(f) == {i \in Reported(f) : f.data[i].v # 0 /\ f.data[i].tag # info[i]}

LEMMA SyncCovers ==
    ASSUME Online, NEW f \in flights, f.kind = "sync", f.out = "ok", CoverOnline,
           DeleteTargets(GoneItems(f)), UNCHANGED server, NEW i \in Items,
           server[i].tag <= f.upto,
           i \notin NeedItems(f) \/ server[i].tag <= token
    PROVE  Covered(i)'
<1>1. /\ f.cond = token /\ f.data[i] = server[i] /\ IsSync(f)
      /\ server[i].tag <= token => Covered(i)
      /\ server[i].tag \in Nat /\ token \in Int
      /\ server[i].v # 0 => server[i].tag > 0
  <2>1. IsSync(f)
    BY DEF IsSync
  <2>2. f.cond = token
    BY DEF CoverOnline, CoverFlight
  <2> QED BY <2>1, <2>2, SyncReads
<1>2. GoneItems(f) \in SUBSET Items
  BY DEF GoneItems, Reported
<1>3. /\ \/ i \in GoneItems(f) /\ row'[i].v = 0 /\ info'[i] = Unknown
         \/ row'[i] = row[i] /\ info'[i] = info[i]
      /\ i \in GoneItems(f) => row'[i].v = 0 \/ info'[i] = Unknown
  BY <1>2, ItemsDropped
<1>4. CASE i \in GoneItems(f)
  <2>1. server[i].v = 0
    BY <1>1, <1>4 DEF GoneItems
  <2> QED BY <1>3, <1>4, <2>1 DEF Covered
<1>5. CASE i \notin GoneItems(f) /\ server[i].tag <= token
  BY <1>1, <1>3, <1>5 DEF Covered
<1>6. CASE i \notin GoneItems(f) /\ i \notin NeedItems(f) /\ ~(server[i].tag <= token)
  <2>1. CASE i \in Reported(f)
    <3>1. server[i].v # 0
      BY <1>1, <1>6, <2>1 DEF GoneItems
    <3>2. info[i] = server[i].tag
      BY <1>1, <1>6, <2>1, <3>1 DEF NeedItems
    <3> QED BY <1>3, <1>6, <3>2 DEF Covered
  <2>2. CASE i \notin Reported(f)
    <3>1. ~(server[i].tag > (IF token = Unknown THEN 0 ELSE token))
      BY <1>1, <2>2 DEF Reported
    <3>2. token = Unknown /\ server[i].tag = 0
      BY <1>1, <1>6, <3>1
    <3>3. server[i].v # 0
      BY <1>1, <1>6, <3>2 DEF GoneItems
    <3> QED BY <1>1, <3>2, <3>3
  <2> QED BY <2>1, <2>2
<1> QED BY <1>4, <1>5, <1>6

LEMMA OnlineSyncDone ==
    ASSUME Online, NEW f \in flights, SyncDone(f)
    PROVE  StaysOnline
<1>1. /\ flights = {f} /\ f.kind = "sync" /\ f.out = "ok" /\ IsSync(f) /\ ~Recaching(f)
      /\ DataInv /\ FlightsInv
  BY OneOnline DEF SyncDone, Ready, IsSync, Recaching
<1>2. /\ DeleteTargets(GoneItems(f)) /\ GoneItems(f) \in SUBSET Items
      /\ UNCHANGED <<server, changes, edits, asked>>
  BY DEF SyncDone, GoneItems, Reported, collection, users, history
<1>3. /\ \A i \in Items : row'[i].flag = "none"
      /\ \A i \in Items : \/ row'[i].v = 0 /\ info'[i] = Unknown
                          \/ row'[i] = row[i] /\ info'[i] = info[i]
  BY <1>2, ItemsDropped
<1>4. PICK n, h, nd, g : /\ n = Len(edits) /\ h = Flight("get") /\ nd = NeedItems(f)
                         /\ g = [h EXCEPT !.need = nd, !.upto = f.upto]
  OBVIOUS
<1>5. h \in FlightRec(n) /\ h.kind = "get" /\ h.out = "wait" /\ h.item = NoItem
  BY <1>4, OnlineNewFields DEF FlightKinds
<1>6. /\ g.kind = "get" /\ g.out = "wait" /\ g.item = NoItem /\ g.need = nd /\ g.upto = f.upto
  BY <1>4, <1>5 DEF FlightRec
<1>7. \/ nd = {} /\ flights' = {} /\ token' = f.upto
      \/ flights' = {g} /\ token' = token
  BY <1>1, <1>4 DEF SyncDone, NeedItems, Done, Becomes
<1>8. CalmOnline'
  <2>1. OnlineFlight(g)'
    BY <1>6 DEF OnlineFlight, IsRead
  <2>2. EtagsOk'
    <3>1. \A i \in Items : /\ server[i].tag <= changes /\ info[i] <= changes /\ info[i] # NoEtag
                           /\ server[i].v # 0 => server[i].tag > 0
      BY DEF Online, CalmOnline, EtagsOk
    <3>2. Unknown <= changes /\ Unknown # NoEtag
      BY <1>1 DEF DataInv, Unknown, NoEtag
    <3> QED BY <1>2, <1>3, <3>1, <3>2 DEF EtagsOk
  <2> QED BY <1>3, <1>7, <2>1, <2>2 DEF CalmOnline
<1>9. ASSUME SeenOnline PROVE SeenOnline'
  <2>1. SeenFlight(g)'
    BY <1>6, ConstantsAssumption DEF SeenFlight
  <2>2. ASSUME NEW i \in Items \ asked, Theirs(i)' PROVE row'[i].v = server'[i].v
    <3>1. server[i].tag \in Nat /\ server'[i] = server[i] /\ info'[i] = server[i].tag
      BY <1>1, <1>2, <2>2, SyncReads DEF Theirs
    <3>2. row'[i] = row[i] /\ info'[i] = info[i]
      BY <1>3, <3>1 DEF Unknown
    <3> QED BY <1>1, <1>9, <2>2, <3>1, <3>2 DEF SeenOnline, Theirs
  <2> QED BY <1>2, <1>7, <2>1, <2>2 DEF SeenOnline
<1>10. ASSUME CoverOnline PROVE CoverOnline'
  <2>1. ASSUME NEW i \in Items, server[i].tag <= f.upto, i \notin nd \/ server[i].tag <= token
        PROVE  Covered(i)'
    BY <1>1, <1>2, <1>4, <1>10, <2>1, SyncCovers
  <2>2. ASSUME NEW i \in Items, server[i].tag <= token PROVE server[i].tag <= f.upto
    BY <1>1, <2>2, SyncReads
  <2>3. CASE nd = {} /\ flights' = {} /\ token' = f.upto
    BY <1>2, <2>1, <2>3 DEF CoverOnline
  <2>4. CASE flights' = {g} /\ token' = token
    <3>1. \A i \in Items : server'[i].tag <= token' => Covered(i)'
      BY <1>2, <2>1, <2>2, <2>4
    <3>2. CoverFlight(g)'
      BY <1>2, <1>6, <2>1 DEF CoverFlight, IsRead, Recaching
    <3> QED BY <2>4, <3>1, <3>2 DEF CoverOnline
  <2> QED BY <1>7, <2>3, <2>4
<1> QED BY <1>8, <1>9, <1>10 DEF StaysOnline

LEMMA OnlineMultiget ==
    ASSUME Online, NEW f \in flights, MultigetDone(f)
    PROVE  StaysOnline
<1>1. /\ flights = {f} /\ flights' = {} /\ f.kind = "get" /\ f.out = "ok" /\ IsSync(f)
      /\ ~Recaching(f) /\ DataInv
  BY OneOnline DEF MultigetDone, Ready, Done, IsSync, Recaching
<1>2. UNCHANGED <<server, changes, asked>> /\ token' = f.upto
  BY DEF MultigetDone, collection, history
<1>3. PICK news, gone : /\ news = {i \in f.need : f.data[i].v # 0 /\ f.data[i].tag # info[i]}
                        /\ gone = Dropped({i \in f.need : f.data[i].v = 0})
  OBVIOUS
<1>4. /\ row' = [i \in Items |-> IF i \in news THEN [v |-> f.data[i].v, flag |-> "none"]
                                 ELSE IF i \in gone THEN NoRow ELSE row[i]]
      /\ info' = [i \in Items |-> IF i \in news THEN f.data[i].tag
                                  ELSE IF i \in gone THEN Unknown ELSE info[i]]
  BY <1>3 DEF MultigetDone
<1>5. \A i \in Items : /\ server[i].tag <= changes /\ info[i] <= changes /\ info[i] # NoEtag
                       /\ server[i].v # 0 => server[i].tag > 0
                       /\ row[i].flag = "none"
  BY DEF Online, CalmOnline, EtagsOk
<1>6. ASSUME NEW i \in Items
      PROVE  \/ /\ f.data[i].v # 0 /\ row'[i].v = f.data[i].v /\ row'[i].flag = "none"
                /\ info'[i] = f.data[i].tag
             \/ f.data[i].v = 0 /\ row'[i].v = 0 /\ row'[i].flag = "none" /\ info'[i] = Unknown
             \/ /\ row'[i] = row[i] /\ info'[i] = info[i]
                /\ i \in f.need => IF f.data[i].v # 0 THEN info[i] = f.data[i].tag
                                   ELSE row[i].v = 0 \/ info[i] = Unknown
  <2>1. CASE i \in news
    BY <1>3, <1>4, <2>1
  <2>2. CASE i \notin news /\ i \in gone
    BY <1>3, <1>4, <2>2 DEF Dropped, NoRow
  <2>3. CASE i \notin news /\ i \notin gone
    BY <1>3, <1>4, <2>3 DEF Dropped
  <2> QED BY <2>1, <2>2, <2>3
<1>7. CalmOnline'
  <2>1. ASSUME NEW i \in Items
        PROVE  info'[i] <= changes /\ info'[i] # NoEtag /\ row'[i].flag = "none"
    <3>1. Unknown <= changes /\ Unknown # NoEtag
      BY <1>1 DEF DataInv, Unknown, NoEtag
    <3>2. /\ f.data[i].tag <= changes /\ f.data[i].tag \in Nat
          /\ f.data[i].v # 0 => f.data[i].tag > 0
      BY <1>1, SyncReads
    <3>3. f.data[i].v # 0 => f.data[i].tag # NoEtag
      BY <3>2 DEF NoEtag
    <3> QED BY <1>5, <1>6, <3>1, <3>2, <3>3
  <2> QED BY <1>1, <1>2, <1>5, <2>1 DEF CalmOnline, EtagsOk
<1>8. ASSUME SeenOnline PROVE SeenOnline'
  <2>1. ASSUME NEW i \in Items \ asked, Theirs(i)' PROVE row'[i].v = server'[i].v
    <3>1. /\ server[i].tag \in Nat /\ server'[i] = server[i] /\ info'[i] = server[i].tag
          /\ server[i].tag = f.data[i].tag => f.data[i] = server[i]
      BY <1>1, <1>2, <2>1, SyncReads DEF Theirs
    <3>2. CASE row'[i] = row[i] /\ info'[i] = info[i]
      BY <1>1, <1>8, <2>1, <3>1, <3>2 DEF SeenOnline, Theirs
    <3>3. CASE row'[i].v = f.data[i].v /\ info'[i] = f.data[i].tag
      BY <3>1, <3>3
    <3> QED BY <1>6, <3>1, <3>2, <3>3 DEF Unknown
  <2> QED BY <1>1, <1>2, <2>1 DEF SeenOnline
<1>9. ASSUME CoverOnline PROVE CoverOnline'
  <2>1. ASSUME NEW i \in Items, server[i].tag <= f.upto PROVE Covered(i)'
    <3>1. f.data[i] = server[i] /\ server'[i] = server[i]
      BY <1>1, <1>2, <1>9, <2>1, SyncReads
    <3>2. i \notin f.need => Covered(i)
      BY <1>1, <1>9, <2>1 DEF CoverOnline, CoverFlight
    <3> QED BY <1>6, <3>1, <3>2 DEF Covered
  <2> QED BY <1>1, <1>2, <2>1 DEF CoverOnline
<1> QED BY <1>7, <1>8, <1>9 DEF StaysOnline

LEMMA OnlineMultigetFailed ==
    ASSUME Online, NEW f \in flights, MultigetFailed(f)
    PROVE  StaysOnline
<1>1. /\ flights = {f} /\ flights' = {} /\ ~Recaching(f) /\ OnlineFlight(f)
      /\ f.out \in {"unavailable", "error"}
  BY OneOnline DEF MultigetFailed, Ready, Done, Recaching
<1>2. UNCHANGED <<server, changes, row, info, asked>>
  BY DEF MultigetFailed, collection, history
<1>3. CalmOnline'
  BY <1>1, <1>2 DEF Online, CalmOnline, EtagsOk
<1>4. ASSUME SeenOnline PROVE SeenOnline'
  BY <1>1, <1>2, <1>4 DEF SeenOnline, Theirs
<1>5. ~CoverOnline
  BY <1>1 DEF CoverOnline, CoverFlight, OnlineFlight
<1> QED BY <1>3, <1>4, <1>5 DEF StaysOnline

-----------------------------------------------------------------------------
(* Online: the server's answers and other clients' changes.                  *)

LEMMA AnswerKeeps ==
    ASSUME Online, NEW f \in flights, NEW o \in {"ok", "error", "conflict", "token"},
           f.kind \in {"put", "del", "head", "fetch", "sync", "get"}, Answer(f, o), QuietOnline,
           asked' = asked, o = "error" => "error" \in Faults,
           o = "ok" => f.kind = "put" \/ (f.kind = "del" /\ server[f.item].v = 0)
    PROVE  StaysOnline
<1>1. OnlineFlight(f) /\ f \in FlightRec(Len(edits)) /\ ~Recaching(f)
  BY OneOnline, FlightFacts DEF Recaching
<1>2. PICK g : g = [f EXCEPT !.out = o]
  OBVIOUS
<1>3. /\ g.kind = f.kind /\ g.op = f.op /\ g.item = f.item /\ g.v = f.v /\ g.cond = f.cond
      /\ g.out = o /\ g.phase = f.phase /\ g.todo = f.todo /\ g.upto = f.upto
      /\ g.need = f.need
  BY <1>1, <1>2 DEF FlightRec
<1>4. ~IsRead(g)
  BY <1>3 DEF IsRead
<1>5. OnlineFlight(g)'
  BY <1>1, <1>3, <1>4 DEF OnlineFlight, Kind, QuietOnline
<1>6. SeenFlight(f) => SeenFlight(g)'
  BY <1>3 DEF SeenFlight, Recaching, QuietOnline
<1>7. ASSUME "error" \notin Faults, CoverFlight(f) PROVE CoverFlight(g)'
  <2>1. g.kind = "get" => \A i \in Items \ g.need : server'[i].tag <= g.upto => Covered(i)'
    BY <1>3, <1>7 DEF CoverFlight, Covered, QuietOnline
  <2> QED BY <1>3, <1>4, <1>7, <2>1 DEF CoverFlight, Recaching, QuietOnline
<1>8. Becomes(f, g)
  BY <1>2 DEF Answer
<1> QED BY <1>1, <1>5, <1>6, <1>7, <1>8, ErrandTurns DEF FlightStaysOnline, QuietOnline

\* The server changes item i: whatever is known of it is older, and f goes on as g.
LEMMA ChangeKeeps ==
    ASSUME Online, NEW i \in Items, NEW v \in Int, Change(i, v),
           UNCHANGED <<row, info, token, edits, asked>>,
           NEW f, NEW g,
           (flights = {f} /\ flights' = {g}) \/ (flights = {} /\ flights' = {}),
           g = f \/ (f.kind \in {"put", "del"} /\ g = [f EXCEPT !.out = "ok"] /\ f.item = i)
    PROVE  StaysOnline
<1>1. DataInv /\ FlightsInv /\ SyncInv /\ changes \in Nat /\ token \in Int /\ token <= changes
  BY DEF Online, CachedInv, DataInv, SyncInv
<1>2. /\ server'[i].tag = changes + 1 /\ server'[i].v = v /\ changes' = changes + 1
      /\ \A j \in Items : j # i => server'[j] = server[j]
  BY <1>1 DEF Change, DataInv
<1>3. \A j \in Items : info[j] \in Int /\ server[j].tag \in Nat
  BY <1>1 DEF DataInv, Res
<1>4. \A j \in Items : /\ server[j].tag <= changes /\ info[j] <= changes /\ info[j] # NoEtag
                       /\ server[j].v # 0 => server[j].tag > 0
  BY DEF Online, CalmOnline, EtagsOk
<1>5. EtagsOk'
  BY <1>1, <1>2, <1>3, <1>4 DEF EtagsOk
<1>6. ~Theirs(i)' /\ ~(server'[i].tag <= token)
      /\ \A j \in Items : j # i => /\ Theirs(j)' <=> Theirs(j)
                                   /\ Covered(j)' <=> Covered(j)
  BY <1>1, <1>2, <1>3, <1>4 DEF Theirs, Covered
<1>7. ASSUME f \in flights PROVE FlightStaysOnline(f, g)
  <2>1. OnlineFlight(f) /\ f \in FlightRec(Len(edits))
    BY <1>7, OneOnline, FlightFacts
  <2>2. /\ g.kind = f.kind /\ g.op = f.op /\ g.item = f.item /\ g.v = f.v /\ g.cond = f.cond
        /\ g.phase = f.phase /\ g.todo = f.todo /\ g.upto = f.upto
        /\ g.need = f.need /\ g.data = f.data /\ g.flag = f.flag /\ g.then = f.then
        /\ g.out \in {"ok", f.out} /\ (g.out = f.out \/ (f.kind \in {"put", "del"} /\ f.item = i))
    <3>1. CASE g = f
      BY <3>1
    <3>2. CASE f.kind \in {"put", "del"} /\ g = [f EXCEPT !.out = "ok"] /\ f.item = i
      BY <2>1, <3>2 DEF FlightRec
    <3> QED BY <3>1, <3>2
  <2>3. IsRead(g) <=> IsRead(f)
    BY <2>2 DEF IsRead
  <2>4. /\ f.cond \in Int /\ f.upto \in Nat
        /\ \A j \in Items : f.data[j].tag \in Nat
    BY <2>1 DEF FlightRec, Res
  <2>5. ReadOk(f) => ReadOk(g)'
    <3> SUFFICES ASSUME ReadOk(f), NEW j \in Items
                 PROVE  /\ f.data[j].tag <= changes'
                        /\ f.data[j].v # 0 => f.data[j].tag > 0
                        /\ server'[j].tag \in {f.data[j].tag, info[j]} => f.data[j] = server'[j]
      BY <2>2 DEF ReadOk
    <3>1. /\ f.data[j].tag <= changes
          /\ f.data[j].v # 0 => f.data[j].tag > 0
          /\ server[j].tag \in {f.data[j].tag, info[j]} => f.data[j] = server[j]
      BY DEF ReadOk
    <3> QED BY <1>1, <1>2, <1>3, <1>4, <2>4, <3>1
  <2>6. f.kind = "put" => f.cond <= changes
    BY <2>1 DEF OnlineFlight
  <2>7. OnlineFlight(g)'
    <3>1. f.kind = "put" => f.cond <= changes'
      BY <1>1, <1>2, <2>4, <2>6
    <3>2. IsRead(g) => ReadOk(g)'
      BY <2>1, <2>3, <2>5 DEF OnlineFlight
    <3>3. IsRead(g)' <=> IsRead(g)
      BY DEF IsRead
    <3> QED BY <2>1, <2>2, <3>1, <3>2, <3>3 DEF OnlineFlight, Kind
  <2>8. ASSUME SeenFlight(f) PROVE SeenFlight(g)'
    <3>1. f.item = i /\ f.kind = "put" => f.cond # server'[i].tag
      BY <1>1, <1>2, <2>4, <2>6
    <3>2. CASE f.item = i
      BY <1>6, <2>2, <2>8, <3>1, <3>2 DEF SeenFlight, Recaching
    <3>3. CASE f.item # i
      BY <1>2, <1>6, <2>2, <2>8, <3>3 DEF SeenFlight, Recaching
    <3> QED BY <3>2, <3>3
  <2>9. ASSUME CoverFlight(f) PROVE CoverFlight(g)'
    <3>1. g.out # "error" /\ (g.kind = "sync" => g.cond = token)
      BY <2>2, <2>9 DEF CoverFlight
    <3>2. /\ g.kind = "del" /\ g.out = "ok" /\ server'[g.item].tag <= token =>
               server'[g.item].v = 0
          /\ Recaching(g) /\ server'[g.item].tag <= token => info[g.item] = server'[g.item].tag
      <4>1. CASE g.item = i
        BY <1>6, <4>1
      <4>2. CASE g.item \in Items /\ g.item # i
        BY <1>2, <2>2, <2>9, <4>2 DEF CoverFlight, Recaching
      <4>3. g.kind \in {"del", "flag"} => g.item \in Items
        BY <1>1, <1>7, <2>2, FlightFacts
      <4> QED BY <4>1, <4>2, <4>3 DEF Recaching
    <3>3. IsSync(f) /\ Learnt(f) => f.upto <= changes
      BY <1>1, <1>7 DEF SyncInv
    <3>4. g.kind = "get" =>
            \A j \in Items \ g.need : server'[j].tag <= g.upto => Covered(j)'
      <4>1. ASSUME NEW j \in Items \ f.need, f.kind = "get", server'[j].tag <= f.upto
            PROVE  Covered(j)'
        <5>1. j # i
          BY <1>1, <1>2, <2>4, <3>3, <4>1 DEF IsSync, Learnt
        <5> QED BY <1>2, <1>6, <2>9, <4>1, <5>1 DEF CoverFlight
      <4> QED BY <2>2, <4>1
    <3>5. IsRead(f) => \A j \in Items : server'[j].tag <= ReadUpTo(f) => f.data[j] = server'[j]
      <4>1. ASSUME NEW j \in Items, IsRead(f), server'[j].tag <= ReadUpTo(f)
            PROVE  f.data[j] = server'[j]
        <5>1. j # i
          BY <1>1, <1>2, <2>4, <3>3, <4>1 DEF IsSync, Learnt, IsRead, ReadUpTo
        <5> QED BY <1>2, <2>9, <4>1, <5>1 DEF CoverFlight
      <4> QED BY <4>1
    <3>6. ReadUpTo(g)' = ReadUpTo(f) /\ (IsRead(g)' <=> IsRead(f)) /\ g.data = f.data
      BY <2>2, <2>3 DEF ReadUpTo, IsSync, IsRead
    <3> QED BY <3>1, <3>2, <3>4, <3>5, <3>6 DEF CoverFlight, Recaching
  <2> QED BY <2>7, <2>8, <2>9 DEF FlightStaysOnline
<1>8. CalmOnline'
  BY <1>5, <1>7 DEF Online, CalmOnline, FlightStaysOnline
<1>9. ASSUME SeenOnline PROVE SeenOnline'
  <2>1. \A h \in flights' : SeenFlight(h)'
    BY <1>7, <1>9 DEF SeenOnline, FlightStaysOnline
  <2>2. ASSUME NEW j \in Items \ asked, Theirs(j)'
        PROVE  row[j].v = server'[j].v \/ \E h \in flights' : h.item = j /\ Recaching(h)
    <3>1. j # i /\ Theirs(j) /\ server'[j] = server[j]
      BY <1>2, <1>6, <2>2
    <3>2. row[j].v = server[j].v \/ \E h \in flights : h.item = j /\ Recaching(h)
      BY <1>9, <3>1 DEF SeenOnline
    <3>3. ASSUME flights = {f}, f.item = j, Recaching(f) PROVE g = f
      BY <3>1, <3>3 DEF Recaching
    <3> QED BY <3>1, <3>2, <3>3
  <2> QED BY <2>1, <2>2 DEF SeenOnline, Recaching
<1>10. ASSUME CoverOnline, "error" \notin Faults PROVE CoverOnline'
  <2>1. \A h \in flights' : CoverFlight(h)'
    BY <1>7, <1>10 DEF CoverOnline, FlightStaysOnline
  <2>2. \A j \in Items : server'[j].tag <= token => Covered(j)'
    BY <1>2, <1>6, <1>10 DEF CoverOnline
  <2> QED BY <2>1, <2>2 DEF CoverOnline
<1> QED BY <1>8, <1>9, <1>10 DEF StaysOnline

\* A request is answered.
ForeignOk == \A i \in Items : server'[i].v > 0 /\ server[i].v < 0 =>
                 server[i].v = edits[server'[i].v].base \/ i \in asked

LEMMA SameServer == ASSUME DataInv, server' = server PROVE ForeignOk
<1>1. \A i \in Items : server[i].v \in Int
  BY DEF DataInv, Res, Ver
<1> QED BY <1>1 DEF ForeignOk

LEMMA OnlineFails ==
    ASSUME Online, NEW f \in flights, Fails(f), asked' = asked,
           UNCHANGED <<row, info, token, edits>>,
           f.kind \in {"put", "del", "head", "fetch", "sync", "get"}
    PROVE  StaysOnline /\ server' = server
<1>1. ~offline /\ "unavailable" \notin Faults
  BY DEF Online, Undisturbed
<1>2. Answer(f, "error") /\ "error" \in Faults /\ QuietOnline
  BY <1>1 DEF Fails, Fault, Reachable, QuietOnline, collection
<1> QED BY <1>2, AnswerKeeps DEF QuietOnline

LEMMA OnlineSucceeds ==
    ASSUME Online, NEW f \in flights, f.kind \in {"put", "del"},
           NEW v \in Int, NEW es, Succeeds(f, v, es),
           UNCHANGED <<row, info, token, edits, asked>>
    PROVE  StaysOnline
<1>1. flights = {f} /\ f.item \in Items
  BY OneOnline, OnlineFacts
<1>2. PICK g : g = [f EXCEPT !.out = "ok"]
  OBVIOUS
<1>3. Change(f.item, v) /\ Answer(f, "ok")
  BY DEF Succeeds, Fault, Online, Undisturbed
<1>4. flights' = {g}
  BY <1>1, <1>2, <1>3 DEF Answer, Becomes
<1> QED BY <1>1, <1>2, <1>3, <1>4, ChangeKeeps

LEMMA OnlineServePut ==
    ASSUME Online, NEW f \in flights, ServePut(f)
    PROVE  StaysOnline /\ (SeenOnline => ForeignOk)
<1>1. /\ f.kind = "put" /\ DataInv /\ OnlineFlight(f)
      /\ UNCHANGED <<row, info, token, edits, asked>>
  BY OneOnline DEF ServePut, Asked, cache, users
<1>2. /\ f.item \in Items /\ f.v \in Int /\ server[f.item].tag \in Nat
  BY <1>1, OnlineFacts
<1>3. CASE Fails(f)
  BY <1>1, <1>3, OnlineFails, SameServer
<1>4. CASE Refuses(f, "conflict")
  <2>1. Answer(f, "conflict") /\ QuietOnline
    BY <1>1, <1>4 DEF Refuses, collection, QuietOnline
  <2> QED BY <1>1, <2>1, AnswerKeeps, SameServer DEF QuietOnline
<1>5. ASSUME Matches(f), Succeeds(f, f.v, {f.v} \cap Nat)
      PROVE  StaysOnline /\ (SeenOnline => ForeignOk)
  <2>1. StaysOnline
    BY <1>1, <1>2, <1>5, OnlineSucceeds
  <2>2. server' = [server EXCEPT ![f.item] = [v |-> f.v, tag |-> changes + 1]]
    BY <1>5 DEF Succeeds, Change
  <2>3. ASSUME SeenOnline, NEW i \in Items, server'[i].v > 0, server[i].v < 0
        PROVE  server[i].v = edits[server'[i].v].base \/ i \in asked
    <3>1. server[i].v \in Int
      BY <1>1 DEF DataInv, Res, Ver
    <3>2. i = f.item /\ server'[i].v = f.v
      BY <1>1, <1>2, <2>2, <2>3, <3>1 DEF DataInv
    <3>3. SeenFlight(f)
      BY <2>3 DEF SeenOnline
    <3>4. f.cond = NoEtag \/ f.cond = server[i].tag
      BY <1>5, <2>3, <3>1, <3>2 DEF Matches
    <3> QED BY <1>1, <2>3, <3>2, <3>3, <3>4 DEF SeenFlight
  <2> QED BY <2>1, <2>3 DEF ForeignOk
<1> QED BY <1>3, <1>4, <1>5 DEF ServePut

LEMMA OnlineServeDelete ==
    ASSUME Online, NEW f \in flights, ServeDelete(f)
    PROVE  StaysOnline /\ ForeignOk
<1>1. /\ f.kind = "del" /\ DataInv
      /\ UNCHANGED <<row, info, token, edits, asked>>
  BY OneOnline DEF ServeDelete, Asked, cache, users
<1>2. CASE Fails(f)
  BY <1>1, <1>2, OnlineFails, SameServer
<1>3. ASSUME NEW o \in {"ok", "conflict"}, Refuses(f, o), o = "ok" => server[f.item].v = 0
      PROVE  StaysOnline /\ ForeignOk
  <2>1. Answer(f, o) /\ QuietOnline
    BY <1>1, <1>3 DEF Refuses, collection, QuietOnline
  <2> QED BY <1>1, <1>3, <2>1, AnswerKeeps, SameServer DEF QuietOnline
<1>4. CASE Succeeds(f, 0, Deletes(f))
  <2>1. StaysOnline
    <3>1. PICK v, es : v = 0 /\ es = Deletes(f)
      OBVIOUS
    <3> QED BY <1>1, <1>4, <3>1, OnlineSucceeds
  <2>2. server' = [server EXCEPT ![f.item] = [v |-> 0, tag |-> changes + 1]]
    BY <1>4 DEF Succeeds, Change
  <2>3. \A i \in Items : server[i].v \in Int
    BY <1>1 DEF DataInv, Res, Ver
  <2>4. \A i \in Items : server'[i].v \in {0, server[i].v}
    BY <1>1, <2>2 DEF DataInv
  <2> QED BY <2>1, <2>3, <2>4 DEF ForeignOk
<1> QED BY <1>2, <1>3, <1>4 DEF ServeDelete

LEMMA OnlineServeRead ==
    ASSUME Online, NEW f \in flights, ServeRead(f)
    PROVE  StaysOnline /\ ForeignOk
<1>1. /\ f.kind \in {"head", "fetch", "sync", "get"} /\ DataInv /\ OnlineFlight(f)
      /\ f \in FlightRec(Len(edits)) /\ ~Recaching(f)
      /\ UNCHANGED <<row, info, token, edits, asked>>
  BY OneOnline, FlightFacts DEF ServeRead, Asked, cache, users, Recaching
<1>2. CASE Fails(f)
  BY <1>1, <1>2, OnlineFails, SameServer
<1>3. CASE Fault(f, "token", "token") /\ UNCHANGED <<collection, stored>>
  <2>1. Answer(f, "token") /\ QuietOnline
    BY <1>1, <1>3 DEF Fault, collection, QuietOnline
  <2> QED BY <1>1, <2>1, AnswerKeeps, SameServer DEF QuietOnline
<1>4. ASSUME Becomes(f, [f EXCEPT !.out = "ok", !.data = server,
                                   !.upto = IF f.kind = "sync" THEN changes ELSE @]),
             UNCHANGED collection
      PROVE  StaysOnline /\ ForeignOk
  <2>1. PICK u, g : /\ u = IF f.kind = "sync" THEN changes ELSE f.upto
                    /\ g = [f EXCEPT !.out = "ok", !.data = server, !.upto = u]
    OBVIOUS
  <2>2. /\ g.kind = f.kind /\ g.op = f.op /\ g.item = f.item /\ g.v = f.v /\ g.cond = f.cond
        /\ g.out = "ok" /\ g.phase = f.phase /\ g.todo = f.todo /\ g.need = f.need
        /\ g.data = server /\ (f.kind = "get" => g.upto = f.upto)
    BY <1>1, <2>1 DEF FlightRec
  <2>3. Becomes(f, g) /\ QuietOnline
    BY <1>1, <1>4, <2>1 DEF QuietOnline, collection
  <2>4. ReadOk(g)'
    <3>1. EtagsOk
      BY DEF Online, CalmOnline
    <3> QED BY <2>2, <2>3, <3>1 DEF ReadOk, EtagsOk, QuietOnline
  <2>5. OnlineFlight(g)'
    BY <1>1, <2>2, <2>3, <2>4 DEF OnlineFlight, Kind, QuietOnline
  <2>6. SeenFlight(g)'
    BY <1>1, <2>2 DEF SeenFlight, Recaching
  <2>7. ASSUME CoverFlight(f) PROVE CoverFlight(g)'
    <3>1. g.kind = "get" => \A i \in Items \ g.need : server'[i].tag <= g.upto => Covered(i)'
      BY <2>2, <2>3, <2>7 DEF CoverFlight, Covered, QuietOnline
    <3> QED BY <1>1, <2>2, <2>3, <2>7, <3>1 DEF CoverFlight, Recaching, QuietOnline
  <2> QED BY <1>1, <2>3, <2>5, <2>6, <2>7, ErrandTurns, SameServer DEF FlightStaysOnline, QuietOnline
<1> QED BY <1>2, <1>3, <1>4 DEF ServeRead

LEMMA OnlineForeignWrite ==
    ASSUME Online, NEW i \in Items, ForeignWrite(i)
    PROVE  StaysOnline /\ ForeignOk
<1>1. /\ UNCHANGED <<row, info, token, edits, asked, flights>> /\ DataInv /\ changes \in Nat
  BY DEF ForeignWrite, cache, users, history, Online, CachedInv, DataInv
<1>2. PICK v \in {0, -(changes + 1)} : Change(i, v)
  BY DEF ForeignWrite
<1>3. v \in Int /\ v <= 0
  BY <1>1, <1>2
<1>4. PICK f : flights = {f} \/ flights = {}
  <2>1. ASSUME NEW f \in flights PROVE flights = {f}
    BY OneOnline
  <2> QED BY <2>1
<1>5. StaysOnline
  BY <1>1, <1>2, <1>3, <1>4, ChangeKeeps
<1>6. \A j \in Items : server'[j] = server[j] \/ server'[j].v = v
  BY <1>1, <1>2 DEF Change, DataInv
<1>7. \A j \in Items : server[j].v \in Int
  BY <1>1 DEF DataInv, Res, Ver
<1> QED BY <1>3, <1>5, <1>6, <1>7 DEF ForeignOk

-----------------------------------------------------------------------------
(* Online: the user's edits, which start when nothing is under way.          *)

\* The first request of an edit, as New makes it.
LEMMA NewEditFields ==
    ASSUME Online, NEW k \in FlightKinds, NEW i \in Items, NEW then, NEW c \in Int
    PROVE  LET g == [New(k, i) EXCEPT !.cond = c]
               h == ReadFlag(New(k, i), then) IN
           /\ g.kind = k /\ g.op = Len(edits) + 1 /\ g.item = i /\ g.v = Len(edits) + 1
           /\ g.cond = c /\ g.out = "wait"
           /\ h.kind = "flag" /\ h.op = Len(edits) + 1 /\ h.item = i /\ h.v = Len(edits) + 1
           /\ h.then = then /\ h.out = "wait" /\ h.flag = "none"
<1>1. PICK n, f, t : /\ n = Len(edits) /\ f = Flight(k)
                     /\ t = [f EXCEPT !.op = n + 1, !.item = i, !.v = n + 1]
  OBVIOUS
<1>2. f \in FlightRec(n) /\ f.kind = k /\ f.out = "wait"
  BY <1>1, OnlineNewFields
<1>3. f.flag = "none"
  BY <1>1 DEF Flight
<1>4. /\ t.op = n + 1 /\ t.item = i /\ t.v = n + 1 /\ t.kind = k /\ t.out = "wait"
      /\ t.flag = "none"
  BY <1>1, <1>2, <1>3 DEF FlightRec
<1>5. PICK g : g = [t EXCEPT !.cond = c]
  OBVIOUS
<1>6. /\ g.op = n + 1 /\ g.item = i /\ g.v = n + 1 /\ g.kind = k /\ g.out = "wait"
      /\ g.cond = c
  BY <1>1, <1>2, <1>4, <1>5 DEF FlightRec
<1>7. PICK h : h = [t EXCEPT !.kind = "flag", !.then = then]
  OBVIOUS
<1>8. /\ h.op = n + 1 /\ h.item = i /\ h.v = n + 1 /\ h.kind = "flag" /\ h.out = "wait"
      /\ h.flag = "none" /\ h.then = then
  BY <1>1, <1>2, <1>4, <1>7 DEF FlightRec
<1>9. t = New(k, i)
  BY <1>1 DEF New
<1> QED BY <1>1, <1>5, <1>6, <1>7, <1>8, <1>9 DEF ReadFlag

\* An edit of kind k begins with g.
LEMMA EditBegins ==
    ASSUME Online, NEW k, NEW i \in Items, NEW g, Edit(k, i, "wait", {g}), row' = row,
           g.op = Len(edits) + 1, g.item = i, g.v = Len(edits) + 1, g.out = "wait",
           g.kind \in {"put", "flag"},
           g.kind = "put" => k # "delete" /\ g.cond = Unknown,
           g.kind = "flag" => g.flag = "none" /\ g.then \in {"modify", "delete"},
           g.kind = "flag" /\ g.then = "modify" => k # "delete"
    PROVE  StaysOnline
<1>1. /\ flights = {} /\ flights' = {g} /\ DataInv
      /\ UNCHANGED <<server, changes, row, info, token, asked>>
  BY DEF Edit, Online, Undisturbed, CachedInv, collection, history
<1>2. PICK n, b, e : n = Len(edits) /\ b = Base(i) /\ e = [kind |-> k, item |-> i, base |-> b]
  OBVIOUS
<1>3. n \in Nat /\ edits' = Append(edits, e)
  BY <1>1, <1>2, EditCount DEF Edit
<1>4. e \in [kind : Kinds, item : Items, base : Int]
  BY <1>1, <1>2, BaseIsInt DEF Edit
<1>5. edits'[n + 1] = e /\ e.kind = k /\ e.base = b
  BY <1>1, <1>2, <1>3, <1>4, AppendProperties DEF DataInv
<1>6. /\ server[i].tag \in Nat /\ server[i].v \in Int /\ info[i] \in Int /\ changes \in Nat
      /\ row[i].v \in Int
  BY <1>1 DEF DataInv, RowsOk, Res, Ver
<1>7. OnlineFlight(g)'
  BY <1>1, <1>2, <1>3, <1>5, <1>6 DEF OnlineFlight, Kind, IsRead, Unknown
<1>8. CalmOnline'
  BY <1>1, <1>7 DEF Online, CalmOnline, EtagsOk
<1>9. ASSUME SeenOnline PROVE SeenOnline'
  <2>1. i \notin asked /\ Theirs(i) => b = server[i].v
    BY <1>1, <1>2, <1>6, <1>9 DEF SeenOnline, Theirs, Base
  <2>2. SeenFlight(g)'
    BY <1>1, <1>2, <1>5, <1>6, <2>1 DEF SeenFlight, Theirs, Recaching, Unknown, NoEtag
  <2>3. \A j \in Items \ asked' : Theirs(j)' => row'[j].v = server'[j].v
    BY <1>1, <1>9 DEF SeenOnline, Theirs
  <2> QED BY <1>1, <2>2, <2>3 DEF SeenOnline
<1>10. ASSUME CoverOnline PROVE CoverOnline'
  <2>1. CoverFlight(g)'
    BY DEF CoverFlight, Recaching, IsRead
  <2> QED BY <1>1, <1>10, <2>1 DEF CoverOnline, Covered
<1> QED BY <1>8, <1>9, <1>10 DEF StaysOnline

LEMMA OnlineUser ==
    ASSUME Online, NEW i \in Items, AddItem(i) \/ ModifyItem(i) \/ DeleteItem(i)
    PROVE  StaysOnline
<1>1. ~offline /\ "put" \in FlightKinds /\ "flag" \in FlightKinds /\ Unknown \in Int
  BY DEF Online, FlightKinds, Unknown
<1>2. CASE AddItem(i)
  <2>1. PICK g, c : c = Unknown /\ g = [New("put", i) EXCEPT !.cond = c]
    OBVIOUS
  <2>2. Edit("add", i, "wait", {g}) /\ row' = row
    BY <1>1, <1>2, <2>1 DEF AddItem
  <2>3. /\ g.kind = "put" /\ g.op = Len(edits) + 1 /\ g.item = i /\ g.v = Len(edits) + 1
        /\ g.cond = Unknown /\ g.out = "wait"
    BY <1>1, <2>1, NewEditFields
  <2> QED BY <2>2, <2>3, EditBegins
<1>3. ASSUME NEW k \in {"modify", "delete"}, row' = row,
             Edit(k, i, "wait", {ReadFlag(New("flag", i), k)})
      PROVE  StaysOnline
  <2>1. PICK g : g = ReadFlag(New("flag", i), k)
    OBVIOUS
  <2>2. /\ g.kind = "flag" /\ g.op = Len(edits) + 1 /\ g.item = i /\ g.v = Len(edits) + 1
        /\ g.then = k /\ g.out = "wait" /\ g.flag = "none"
    BY <1>1, <2>1, NewEditFields
  <2> QED BY <1>3, <2>1, <2>2, EditBegins
<1>4. CASE ModifyItem(i)
  <2>1. PICK k : k = "modify"
    OBVIOUS
  <2>2. row' = row /\ Edit(k, i, "wait", {ReadFlag(New("flag", i), k)})
    BY <1>1, <1>4, <2>1 DEF ModifyItem
  <2> QED BY <1>3, <2>1, <2>2
<1>5. CASE DeleteItem(i)
  <2>1. PICK k : k = "delete"
    OBVIOUS
  <2>2. row' = row /\ Edit(k, i, "wait", {ReadFlag(New("flag", i), k)})
    BY <1>1, <1>5, <2>1 DEF DeleteItem
  <2> QED BY <1>3, <2>1, <2>2
<1> QED BY <1>2, <1>4, <1>5

LEMMA OnlineRefresh ==
    ASSUME Online, Refresh
    PROVE  StaysOnline
<1>1. /\ flights = {} /\ UNCHANGED <<server, changes, row, info, token, asked>>
  BY DEF Refresh, Online, Undisturbed, collection, cache, history
<1>2. PICK p, ph, g : /\ p \in 1..MaxPlaybacks /\ ph = "created" /\ g = List(p, ph)
                      /\ flights' = {g}
  BY <1>1 DEF Refresh, Playback
<1>3. p \in 0..MaxPlaybacks /\ ph \in Phases /\ NoItem \notin Items
  BY <1>2, ConstantsAssumption DEF Phases
<1>4. g.kind = "list" /\ g.phase # "none" /\ g.out = "wait" /\ g.item \notin Items
  BY <1>2, <1>3, OnlineListFields
<1>5. OnlineFlight(g)' /\ SeenFlight(g)' /\ CoverFlight(g)'
  BY <1>4, AnonymousKeeps
<1>6. CalmOnline'
  BY <1>1, <1>2, <1>5 DEF Online, CalmOnline, EtagsOk
<1>7. ASSUME SeenOnline PROVE SeenOnline'
  BY <1>1, <1>2, <1>5, <1>7 DEF SeenOnline, Theirs
<1>8. ASSUME CoverOnline PROVE CoverOnline'
  BY <1>1, <1>2, <1>5, <1>8 DEF CoverOnline, Covered
<1> QED BY <1>6, <1>7, <1>8 DEF StaysOnline

-----------------------------------------------------------------------------
(* Online: every step.                                                       *)

LEMMA OnlineRecacheRead ==
    ASSUME Online, NEW f \in flights, DbRead(f), Recaching(f)
    PROVE  StaysOnline
<1>1. /\ flights = {f} /\ f.kind = "flag" /\ f.then = "cache" /\ OnlineFlight(f)
      /\ f \in FlightRec(Len(edits))
  BY OneOnline, FlightFacts DEF DbRead, Recaching
<1>2. PICK g : g = [f EXCEPT !.flag = row[f.item].flag, !.out = "ok"]
  OBVIOUS
<1>3. /\ g.kind = "flag" /\ g.op = f.op /\ g.item = f.item /\ g.v = f.v /\ g.then = f.then
      /\ g.out = "ok" /\ g.flag = row[f.item].flag
  BY <1>1, <1>2 DEF FlightRec
<1>4. flights' = {g} /\ QuietOnline /\ asked' = asked
  BY <1>1, <1>2 DEF DbRead, Becomes, QuietOnline, collection, cache, users, history
<1>5. OnlineFlight(g)'
  BY <1>1, <1>3, <1>4, OnlineFacts DEF OnlineFlight, Kind, QuietOnline, IsRead
<1>6. CalmOnline'
  BY <1>4, <1>5 DEF Online, CalmOnline, EtagsOk, QuietOnline
<1>7. ASSUME SeenOnline PROVE SeenOnline'
  <2>1. SeenFlight(g)'
    BY <1>1, <1>3, <1>4, <1>7 DEF SeenOnline, SeenFlight, Theirs, Recaching, QuietOnline
  <2>2. ASSUME NEW j \in Items \ asked, Theirs(j)'
        PROVE  row'[j].v = server'[j].v \/ (g.item = j /\ Recaching(g))
    BY <1>1, <1>3, <1>4, <1>7, <2>2 DEF SeenOnline, Theirs, Recaching, QuietOnline
  <2> QED BY <1>4, <2>1, <2>2 DEF SeenOnline, Recaching
<1>8. ASSUME CoverOnline PROVE CoverOnline'
  <2>1. CoverFlight(g)'
    BY <1>1, <1>3, <1>4, <1>8 DEF CoverOnline, CoverFlight, Recaching, QuietOnline, IsRead
  <2> QED BY <1>4, <1>8, <2>1 DEF CoverOnline, Covered, QuietOnline
<1> QED BY <1>6, <1>7, <1>8 DEF StaysOnline

LEMMA OnlineCallback ==
    ASSUME Online, NEW f \in flights, Callback(f)
    PROVE  StaysOnline
<1>1. CASE EditOffline(f) \/ EditOnline(f) \/ EditThrows(f)
  BY <1>1, OnlineEdit
<1>2. CASE DoModifyItem(f) \/ MarkModified(f) \/ DeleteOfflineItem(f)
  BY <1>2, OnlineModifyItem
<1>3. CASE PutDone(f) \/ PutConflicts(f)
  BY <1>3, OnlinePut
<1>4. CASE DeleteDone(f) \/ DeleteConflicts(f) \/ HeadDone(f)
  BY <1>4, OnlineDelete, OnlineDeleteConflicts, OnlineHead
<1>5. CASE FetchDone(f) \/ FetchGone(f)
  BY <1>5, OnlineFetch, OnlineFetchGone
<1>6. CASE FetchUnchanged(f) \/ SyncFailed(f)
  BY <1>6, OnlineFetchUnchanged
<1>7. CASE ListDone(f)
  BY <1>7, OnlineListDone
<1>8. CASE SyncDone(f) \/ SyncAgain(f)
  BY <1>8, OnlineSyncDone, OnlineSyncAgain
<1>9. CASE MultigetDone(f) \/ MultigetFailed(f)
  BY <1>9, OnlineMultiget, OnlineMultigetFailed
<1> QED BY <1>1, <1>2, <1>3, <1>4, <1>5, <1>6, <1>7, <1>8, <1>9 DEF Callback

LEMMA OnlineNext ==
    ASSUME Online, left.toggles = 0, left.restarts = 0, [Next]_vars
    PROVE  StaysOnline /\ (SeenOnline => ForeignOk)
<1>1. DataInv
  BY DEF Online, CachedInv
<1>2. CASE UserEdits
  BY <1>1, <1>2, OnlineUser, SameServer
     DEF UserEdits, AddItem, ModifyItem, DeleteItem, Edit, collection
<1>3. CASE Database
  BY <1>1, <1>3, OnlineDbRead, OnlineRecacheRead, SameServer DEF Database, DbRead, collection
<1>4. CASE Serve
  BY <1>4, OnlineServePut, OnlineServeDelete, OnlineServeRead DEF Serve, ServeOne
<1>5. CASE Callbacks
  <2>1. PICK f \in flights : Callback(f)
    BY <1>5 DEF Callbacks
  <2>2. server' = server
    BY <2>1 DEF Callback, EditOffline, EditOnline, EditThrows, DoModifyItem, MarkModified,
           DeleteOfflineItem, PutDone, PutConflicts, DeleteDone, DeleteConflicts, HeadDone,
           FetchDone, FetchUnchanged, FetchGone, ListDone, SyncDone, SyncFailed, SyncAgain,
           MultigetDone, MultigetFailed, collection
  <2> QED BY <1>1, <2>1, <2>2, OnlineCallback, SameServer
<1>6. CASE PopQueue
  BY <1>1, <1>6, OnlinePop, SameServer DEF PopQueue, PopOne, PopItemQueue, NextPhase, collection
<1>7. CASE Refresh
  BY <1>1, <1>7, OnlineRefresh, SameServer DEF Refresh, collection
<1>8. CASE \E i \in Items : ForeignWrite(i)
  BY <1>8, OnlineForeignWrite
<1>9. CASE GoOffline \/ GoOnline \/ Restart
  BY <1>9 DEF GoOffline, GoOnline, Restart
<1>10. CASE UNCHANGED vars
  <2>1. UNCHANGED <<server, changes, row, info, token, flights, edits, asked>>
    BY <1>10 DEF vars, collection, cache, users, history
  <2>2. CalmOnline'
    <3>1. ASSUME NEW f \in flights PROVE OnlineFlight(f)'
      BY <2>1, <3>1, OneOnline DEF OnlineFlight, Kind, IsRead, ReadOk
    <3> QED BY <2>1, <3>1 DEF Online, CalmOnline, EtagsOk
  <2>3. ASSUME SeenOnline PROVE SeenOnline'
    BY <2>1, <2>3 DEF SeenOnline, SeenFlight, Theirs, Recaching
  <2>4. ASSUME CoverOnline PROVE CoverOnline'
    <3>1. ASSUME NEW f \in flights PROVE CoverFlight(f)'
      BY <2>1, <2>4, <3>1 DEF CoverOnline, CoverFlight, Covered, Recaching, IsRead, ReadUpTo,
                              IsSync
    <3> QED BY <2>1, <2>4, <3>1 DEF CoverOnline, Covered
  <2> QED BY <1>1, <2>1, <2>2, <2>3, <2>4, SameServer DEF StaysOnline
<1> QED BY <1>2, <1>3, <1>4, <1>5, <1>6, <1>7, <1>8, <1>9, <1>10 DEF Next

\* Without restarts and with a network that stays as it is.
LEMMA NetworkStays ==
    ASSUME CachedInv, left.toggles = 0, left.restarts = 0, [Next]_vars
    PROVE  offline' = offline /\ left'.toggles = 0 /\ left'.restarts = 0
<1>1. left \in Left
  BY DEF CachedInv, DataInv, Left
<1>2. CASE left' = left /\ offline' = offline
  BY <1>2
<1>3. CASE /\ offline' = offline
           /\ \/ left' = [left EXCEPT !.faults = @ - 1]
              \/ left' = [left EXCEPT !.foreign = @ - 1]
  BY <1>1, <1>3 DEF Left
<1>4. CASE Serve
  BY <1>2, <1>3, <1>4 DEF Serve, ServeOne, ServePut, ServeDelete, ServeRead, Fails, Succeeds,
                      Refuses, Fault
<1>5. CASE Callbacks
  <2>1. PICK f \in flights : Callback(f)
    BY <1>5 DEF Callbacks
  <2>2. left' = left /\ offline' = offline
    BY <2>1 DEF Callback, EditOffline, EditOnline, EditThrows, DoModifyItem, MarkModified,
           DeleteOfflineItem, PutDone, PutConflicts, DeleteDone, DeleteConflicts, HeadDone,
           FetchDone, FetchUnchanged, FetchGone, ListDone, SyncDone, SyncFailed, SyncAgain,
           MultigetDone, MultigetFailed
  <2> QED BY <1>2, <2>2
<1>6. CASE UserEdits \/ Database \/ PopQueue \/ Refresh
  BY <1>2, <1>6 DEF UserEdits, AddItem, ModifyItem, DeleteItem, Edit, Database, DbRead,
                PopQueue, PopOne, PopItemQueue, NextPhase, Refresh
<1>7. CASE \E i \in Items : ForeignWrite(i)
  BY <1>3, <1>7 DEF ForeignWrite
<1>8. CASE GoOffline \/ GoOnline \/ Restart
  BY <1>8 DEF GoOffline, GoOnline, Restart
<1>9. CASE UNCHANGED vars
  BY <1>2, <1>9 DEF vars
<1> QED BY <1>4, <1>5, <1>6, <1>7, <1>8, <1>9 DEF Next

-----------------------------------------------------------------------------
(* Offline: nothing but the journal is written.                              *)

OfflineFlight(f) == ~IsSync(f) /\ (f.out = "ok" => f.kind = "flag")

Journals(f) == \/ flights' = flights \ {f}
               \/ \E g : OfflineFlight(g) /\ flights' = (flights \ {f}) \cup {g}

LEMMA OfflineTurns ==
    ASSUME CachedInv, NEW f \in flights, NEW k \in FlightKinds, k \notin {"sync", "get"}
    PROVE  /\ OfflineFlight(Turn(f, k))
           /\ \A c : OfflineFlight([Turn(f, k) EXCEPT !.cond = c])
           /\ \A s : OfflineFlight(ReadFlag(Turn(f, k), s))
<1>1. PICK n, g : n = Len(edits) /\ g = Turn(f, k)
  OBVIOUS
<1>2. n \in Nat /\ f \in FlightRec(n)
  BY <1>1, FlightFacts DEF CachedInv
<1>3. g \in FlightRec(n) /\ g.kind = k /\ g.out = "wait"
  BY <1>1, <1>2, TurnedFlight
<1>4. OfflineFlight(g)
  BY <1>3 DEF OfflineFlight, IsSync
<1>5. ASSUME NEW c PROVE OfflineFlight([g EXCEPT !.cond = c])
  BY <1>3 DEF OfflineFlight, IsSync, FlightRec
<1>6. ASSUME NEW s PROVE OfflineFlight(ReadFlag(g, s))
  BY <1>3 DEF OfflineFlight, IsSync, FlightRec, ReadFlag
<1> QED BY <1>1, <1>4, <1>5, <1>6

LEMMA OfflineRequest ==
    ASSUME CachedInv, NEW f \in flights, NEW g, Becomes(f, g),
           \/ \E k \in {"put", "del", "head", "fetch", "pop", "flag"} : g = Turn(f, k)
           \/ \E k \in {"put", "del"} : \E c : g = [Turn(f, k) EXCEPT !.cond = c]
           \/ \E s : g = ReadFlag(Turn(f, "flag"), s)
    PROVE  Journals(f)
<1>1. OfflineFlight(g)
  <2>1. CASE \E k \in {"put", "del", "head", "fetch", "pop", "flag"} : g = Turn(f, k)
    <3>1. PICK k \in {"put", "del", "head", "fetch", "pop", "flag"} : g = Turn(f, k)
      BY <2>1
    <3>2. k \in FlightKinds /\ k \notin {"sync", "get"}
      BY DEF FlightKinds
    <3> QED BY <3>1, <3>2, OfflineTurns
  <2>2. CASE \E k \in {"put", "del"} : \E c : g = [Turn(f, k) EXCEPT !.cond = c]
    <3>0. PICK k \in {"put", "del"} : \E c : g = [Turn(f, k) EXCEPT !.cond = c]
      BY <2>2
    <3>1. PICK c : g = [Turn(f, k) EXCEPT !.cond = c]
      BY <3>0
    <3>2. k \in FlightKinds /\ k \notin {"sync", "get"}
      BY <3>0 DEF FlightKinds
    <3> QED BY <3>1, <3>2, OfflineTurns
  <2>3. CASE \E s : g = ReadFlag(Turn(f, "flag"), s)
    <3>1. PICK s, k : g = ReadFlag(Turn(f, k), s) /\ k = "flag"
      BY <2>3
    <3>2. k \in FlightKinds /\ k \notin {"sync", "get"}
      BY <3>1 DEF FlightKinds
    <3> QED BY <3>1, <3>2, OfflineTurns
  <2> QED BY <2>1, <2>2, <2>3
<1> QED BY <1>1 DEF Becomes, Journals

\* Every callback of a flight that is not a sync, and has had no answer of the server.
LEMMA OfflineCallback ==
    ASSUME CachedInv, offline, NEW f \in flights, OfflineFlight(f), Callback(f)
    PROVE  Journals(f) /\ UNCHANGED <<server, info, token>>
<1>1. ~IsSync(f) /\ (f.out = "ok" => f.kind = "flag") /\ DataInv /\ FlightsInv
  BY DEF OfflineFlight, CachedInv
<1>2. CASE EditOffline(f)
  BY <1>2, OfflineRequest DEF EditOffline, collection, cache
<1>3. CASE EditOnline(f)
  BY <1>3, OfflineRequest DEF EditOnline, Onto, collection, cache
<1>4. CASE EditThrows(f) \/ MarkModified(f) \/ DeleteOfflineItem(f)
  BY <1>4 DEF EditThrows, MarkModified, DeleteOfflineItem, Done, Journals, collection, cache
<1>5. CASE DoModifyItem(f)
  <2>1. CASE Becomes(f, ReadFlag(Turn(f, "flag"), "mark"))
    BY <1>5, <2>1, OfflineRequest DEF DoModifyItem, collection
  <2>2. CASE Done(f)
    BY <1>5, <2>2 DEF DoModifyItem, Done, Journals, collection
  <2> QED BY <1>5, <2>1, <2>2 DEF DoModifyItem
<1>6. ASSUME Failed(f) \/ Unavailable(f) PROVE Journals(f)
  <2>1. CASE Done(f)
    BY <2>1 DEF Done, Journals
  <2>2. CASE Becomes(f, Turn(f, "pop"))
    <3>1. PICK g, k : k = "pop" /\ g = Turn(f, k)
      OBVIOUS
    <3> QED BY <2>2, <3>1, OfflineRequest
  <2>3. CASE \E s : Becomes(f, ReadFlag(Turn(f, "flag"), s))
    <3>1. PICK g, s : Becomes(f, g) /\ g = ReadFlag(Turn(f, "flag"), s)
      BY <2>3
    <3> QED BY <3>1, OfflineRequest
  <2> QED BY <1>6, <2>1, <2>2, <2>3 DEF Failed, Unavailable, PopNext
<1>7. ASSUME NEW k \in {"put", "del"}, Prompt(f, k) PROVE Journals(f)
  <2>1. CASE Becomes(f, [Turn(f, k) EXCEPT !.cond = NoEtag])
    <3>1. PICK g, c : c = NoEtag /\ g = [Turn(f, k) EXCEPT !.cond = c]
      OBVIOUS
    <3> QED BY <2>1, <3>1, OfflineRequest
  <2>2. CASE Becomes(f, Turn(f, "fetch"))
    <3>1. PICK g, j : j = "fetch" /\ g = Turn(f, j)
      OBVIOUS
    <3> QED BY <2>2, <3>1, OfflineRequest
  <2> QED BY <1>7, <2>1, <2>2 DEF Prompt
<1>8. CASE PutDone(f)
  BY <1>1, <1>6, <1>8 DEF PutDone, Ready, collection
<1>9. CASE PutConflicts(f)
  BY <1>7, <1>9 DEF PutConflicts, collection, cache
<1>10. CASE DeleteDone(f)
  BY <1>1, <1>6, <1>10 DEF DeleteDone, Ready, collection
<1>11. CASE DeleteConflicts(f)
  <2>1. PICK g, k : k = "head" /\ g = Turn(f, k)
    OBVIOUS
  <2> QED BY <1>11, <2>1, OfflineRequest DEF DeleteConflicts, collection, cache
<1>12. CASE HeadDone(f)
  BY <1>1, <1>6, <1>7, <1>12 DEF HeadDone, Ready, collection
<1>13. CASE FetchDone(f)
  BY <1>1, <1>6, <1>13 DEF FetchDone, Ready, collection
<1>14. CASE FetchUnchanged(f) \/ FetchGone(f)
  BY <1>1, <1>14 DEF FetchUnchanged, FetchGone, Ready
<1>15. CASE ListDone(f)
  BY <1>15 DEF ListDone, Synchronize, Journals, collection, cache
<1>16. CASE SyncDone(f) \/ SyncFailed(f) \/ SyncAgain(f) \/ MultigetDone(f) \/ MultigetFailed(f)
  BY <1>1, <1>16 DEF SyncDone, SyncFailed, SyncAgain, MultigetDone, MultigetFailed, Ready, IsSync
<1> QED BY <1>2, <1>3, <1>4, <1>5, <1>8, <1>9, <1>10, <1>11, <1>12, <1>13, <1>14, <1>15, <1>16
        DEF Callback

\* The playback's loop, which may still be running.
LEMMA OfflinePop ==
    ASSUME CachedInv, offline, NEW f \in flights, PopItemQueue(f) \/ NextPhase(f)
    PROVE  Journals(f) /\ UNCHANGED <<server, info, token>>
<1>1. UNCHANGED <<server, info, token>>
  BY DEF PopItemQueue, NextPhase, collection, cache
<1>2. /\ f \in FlightRec(Len(edits)) /\ Len(edits) \in Nat /\ f.play \in 0..MaxPlaybacks
      /\ DataInv
  BY FlightFacts DEF CachedInv, FlightRec
<1>3. CASE PopItemQueue(f)
  <2>1. PICK n, h : n = Len(edits) /\ h = Turn(f, "put")
    OBVIOUS
  <2>2. h \in FlightRec(n) /\ h.kind = "put" /\ h.out = "wait"
    BY <1>2, <2>1, TurnedFlight DEF FlightKinds
  <2>3. ASSUME NEW i, NEW v, NEW d, NEW c, NEW k \in {"put", "del", "pop"}
        PROVE  LET g == [h EXCEPT !.item = i, !.v = v, !.todo = d] IN
               /\ OfflineFlight([g EXCEPT !.cond = c])
               /\ OfflineFlight([g EXCEPT !.kind = k])
               /\ OfflineFlight([g EXCEPT !.kind = k, !.cond = c])
    BY <2>2 DEF OfflineFlight, IsSync, FlightRec
  <2>5. CASE \E g : OfflineFlight(g) /\ Becomes(f, g)
    BY <1>1, <2>5 DEF Becomes, Journals
  <2>6. PICK t \in f.todo : PopItemQueue(f)!2!(t)
    BY <1>3 DEF PopItemQueue
  <2>7. PICK g : g = [h EXCEPT !.item = t.item, !.v = t.v, !.todo = @ \ {t}]
    OBVIOUS
  <2>8. \/ \E c : Becomes(f, [g EXCEPT !.cond = c])
        \/ \E c : Becomes(f, [g EXCEPT !.kind = "del", !.cond = c])
        \/ Becomes(f, [g EXCEPT !.kind = "pop"])
    BY <2>1, <2>6, <2>7
  <2> QED BY <1>1, <2>2, <2>3, <2>5, <2>7, <2>8
<1>4. CASE NextPhase(f)
  <2>1. CASE \E ph \in {"modified", "deleted"} : Becomes(f, List(f.play, ph))
    <3>1. PICK ph \in {"modified", "deleted"} : Becomes(f, List(f.play, ph))
      BY <2>1
    <3>2. PICK n, h, g : n = Len(edits) /\ h = Flight("list") /\ g = List(f.play, ph)
      OBVIOUS
    <3>3. h \in FlightRec(n) /\ h.kind = "list" /\ h.out = "wait"
      BY <1>2, <3>2, FreshFlight DEF FlightKinds
    <3>4. OfflineFlight(g)
      BY <3>2, <3>3 DEF OfflineFlight, IsSync, FlightRec, List
    <3> QED BY <1>1, <3>1, <3>2, <3>4 DEF Becomes, Journals
  <2>2. CASE Synchronize(flights \ {f})
    BY <1>1, <2>2 DEF Synchronize, Journals
  <2> QED BY <1>4, <2>1, <2>2 DEF NextPhase
<1> QED BY <1>3, <1>4

LEMMA OfflineNext ==
    ASSUME CachedInv, Undisturbed, offline, left.toggles = 0, left.restarts = 0, [Next]_vars
    PROVE  (CoverOffline => CoverOffline') /\ ForeignOk
<1>1. DataInv /\ token \in Int /\ changes \in Nat /\ token <= changes
  BY DEF CachedInv, DataInv, SyncInv
<1>2. ASSUME UNCHANGED <<server, info, token>>,
             CoverOffline => \A f \in flights' : OfflineFlight(f)
      PROVE  (CoverOffline => CoverOffline') /\ ForeignOk
  <2>1. CoverOffline => CoverOffline'
    BY <1>2 DEF CoverOffline, OfflineFlight, IsSync
  <2> QED BY <1>1, <1>2, <2>1, SameServer
<1>3. CoverOffline => \A f \in flights : OfflineFlight(f)
  BY DEF CoverOffline, OfflineFlight
<1>4. ASSUME NEW f \in flights, Journals(f), UNCHANGED <<server, info, token>>
      PROVE  (CoverOffline => CoverOffline') /\ ForeignOk
  BY <1>2, <1>3, <1>4 DEF Journals
<1>5. CASE UserEdits
  <2>1. PICK i \in Items : AddItem(i) \/ ModifyItem(i) \/ DeleteItem(i)
    BY <1>5 DEF UserEdits
  <2>2. UNCHANGED <<server, info, token>>
    BY <2>1 DEF AddItem, ModifyItem, DeleteItem, Edit, collection
  <2>3. \A s : OfflineFlight(ReadFlag(New("flag", i), s))
    <3>1. PICK n, h, g : /\ n = Len(edits) /\ h = Flight("flag")
                         /\ g = [h EXCEPT !.op = n + 1, !.item = i, !.v = n + 1]
      OBVIOUS
    <3>2. h \in FlightRec(n)
      BY <1>1, <3>1, EditCount, FreshFlight DEF FlightKinds
    <3>3. \A s : OfflineFlight([g EXCEPT !.kind = "flag", !.then = s])
      BY <3>1, <3>2 DEF OfflineFlight, IsSync, FlightRec
    <3>4. g = New("flag", i)
      BY <3>1 DEF New
    <3> QED BY <3>3, <3>4 DEF ReadFlag
  <2>4. flights' = flights \/ \E s : flights' = flights \cup {ReadFlag(New("flag", i), s)}
    <3>1. CASE AddItem(i)
      BY <3>1 DEF AddItem, Edit
    <3>2. CASE ModifyItem(i) \/ DeleteItem(i)
      BY <3>2 DEF ModifyItem, DeleteItem, Edit
    <3> QED BY <2>1, <3>1, <3>2
  <2> QED BY <1>2, <1>3, <2>2, <2>3, <2>4
<1>6. CASE Database
  <2>1. PICK f \in flights : DbRead(f)
    BY <1>6 DEF Database
  <2>2. f \in FlightRec(Len(edits)) /\ f.kind = "flag"
    BY <2>1, FlightFacts DEF CachedInv, DbRead
  <2>3. PICK g : g = [f EXCEPT !.flag = row[f.item].flag, !.out = "ok"]
    OBVIOUS
  <2>4. OfflineFlight(g)
    BY <2>2, <2>3 DEF OfflineFlight, IsSync, FlightRec
  <2>5. Journals(f) /\ UNCHANGED <<server, info, token>>
    BY <2>1, <2>3, <2>4 DEF DbRead, Becomes, Journals, collection, cache
  <2> QED BY <1>4, <2>5
<1>7. CASE Serve
  <2>1. PICK f \in flights : ServeOne(f)
    BY <1>7 DEF Serve
  <2>2. Answer(f, "unavailable") /\ UNCHANGED <<server, info, token>>
    BY <2>1 DEF ServeOne, ServePut, ServeDelete, ServeRead, Fails, Succeeds, Refuses,
                Reachable, collection, cache
  <2>3. PICK g : g = [f EXCEPT !.out = "unavailable"]
    OBVIOUS
  <2>4. f \in FlightRec(Len(edits))
    BY FlightFacts DEF CachedInv
  <2>5. ASSUME OfflineFlight(f) PROVE OfflineFlight(g)
    BY <2>3, <2>4, <2>5 DEF OfflineFlight, IsSync, FlightRec
  <2> QED BY <1>2, <1>3, <2>2, <2>3, <2>5 DEF Answer, Becomes
<1>8. CASE Callbacks
  <2>1. PICK f \in flights : Callback(f)
    BY <1>8 DEF Callbacks
  <2>2. CASE OfflineFlight(f)
    BY <1>4, <2>1, <2>2, OfflineCallback
  <2>3. CASE ~OfflineFlight(f)
    <3>1. server' = server
      BY <2>1 DEF Callback, EditOffline, EditOnline, EditThrows, DoModifyItem, MarkModified,
             DeleteOfflineItem, PutDone, PutConflicts, DeleteDone, DeleteConflicts, HeadDone,
             FetchDone, FetchUnchanged, FetchGone, ListDone, SyncDone, SyncFailed, SyncAgain,
             MultigetDone, MultigetFailed, collection
    <3> QED BY <1>1, <1>3, <2>3, <3>1, SameServer
  <2> QED BY <2>2, <2>3
<1>9. CASE PopQueue
  BY <1>4, <1>9, OfflinePop DEF PopQueue, PopOne
<1>10. CASE \E i \in Items : ForeignWrite(i)
  <2>1. PICK i \in Items, v \in {0, -(changes + 1)} : ForeignWrite(i) /\ Change(i, v)
    BY <1>10 DEF ForeignWrite
  <2>2. /\ server'[i].tag = changes + 1 /\ server'[i].v \in Int /\ server'[i].v <= 0
        /\ \A j \in Items : j # i => server'[j] = server[j]
    BY <1>1, <2>1 DEF Change, DataInv
  <2>3. \A j \in Items : server[j].v \in Int
    BY <1>1 DEF DataInv, Res, Ver
  <2>4. ForeignOk
    BY <1>1, <2>1, <2>2, <2>3 DEF ForeignOk
  <2>5. UNCHANGED <<info, token, flights>>
    BY <2>1 DEF ForeignWrite, cache
  <2>6. CoverOffline => CoverOffline'
    BY <1>1, <2>2, <2>5 DEF CoverOffline, IsSync
  <2> QED BY <2>4, <2>6
<1>11. CASE GoOffline \/ GoOnline \/ Restart \/ Refresh
  BY <1>11 DEF GoOffline, GoOnline, Restart, Refresh
<1>12. CASE UNCHANGED vars
  BY <1>2, <1>3, <1>12 DEF vars, collection, cache
<1> QED BY <1>5, <1>6, <1>7, <1>8, <1>9, <1>10, <1>11, <1>12 DEF Next

-----------------------------------------------------------------------------
(* What other clients' changes come to.                                      *)

LEMMA CalmInit ==
    ASSUME Init, Undisturbed
    PROVE  OnlineInv /\ SeenInv /\ CoverInv
<1>1. /\ server = [i \in Items |-> IF i \in Existing THEN [v |-> -1, tag |-> 1]
                                                     ELSE [v |-> 0, tag |-> 0]]
      /\ row  = [i \in Items |-> IF i \in Existing THEN [v |-> -1, flag |-> "none"]
                                                   ELSE NoRow]
      /\ info = [i \in Items |-> IF i \in Existing THEN 1 ELSE Unknown]
      /\ changes = 1 /\ token = 1 /\ flights = {}
  BY DEF Init
<1>2. left.toggles = 0 /\ left.restarts = 0
  BY DEF Init, Undisturbed
<1>3. CalmOnline
  BY <1>1 DEF CalmOnline, EtagsOk, NoRow, Unknown, NoEtag
<1>4. SeenOnline
  BY <1>1 DEF SeenOnline, Theirs, Unknown
<1>5. CoverOnline /\ CoverOffline
  BY <1>1 DEF CoverOnline, CoverOffline, Covered, NoRow, Unknown
<1> QED BY <1>2, <1>3, <1>4, <1>5 DEF OnlineInv, SeenInv, CoverInv

LEMMA CalmNext ==
    ASSUME Undisturbed, CachedInv, OnlineInv, [Next]_vars
    PROVE  /\ OnlineInv'
           /\ SeenInv => SeenInv' /\ ForeignOk
           /\ "error" \notin Faults /\ CoverInv => CoverInv'
<1>1. /\ left.toggles = 0 /\ left.restarts = 0 /\ offline' = offline
      /\ left'.toggles = 0 /\ left'.restarts = 0
  BY NetworkStays DEF OnlineInv
<1>2. CASE offline
  BY <1>1, <1>2, OfflineNext DEF OnlineInv, SeenInv, CoverInv
<1>3. CASE ~offline
  <2>1. Online
    BY <1>3 DEF Online, OnlineInv
  <2>2. StaysOnline /\ (SeenOnline => ForeignOk)
    BY <1>1, <2>1, OnlineNext
  <2> QED BY <1>1, <1>3, <2>2 DEF StaysOnline, OnlineInv, SeenInv, CoverInv
<1> QED BY <1>2, <1>3

\* With any number of other clients, and whatever is tried again or declined, a user's
\* write replaces another client's version only if it was made from that version or the
\* user was asked (If-Match in doModifyItem and promptOverwrite): for a program that
\* stays online or offline, and edits that do not overlap other errands.  The server may
\* fail with an error and may invalidate tokens.
THEOREM ForeignEditsAreKept == ASSUME Undisturbed PROVE Spec => ForeignKept
<1>1. CachedInv /\ OnlineInv /\ SeenInv /\ [Next]_vars =>
        [\A i \in Items : server'[i].v > 0 /\ server[i].v < 0 =>
            server[i].v = edits[server'[i].v].base \/ i \in asked]_vars
  BY CalmNext DEF ForeignOk
<1>2. Init => CachedInv /\ OnlineInv /\ SeenInv
  BY CachedInit, CalmInit
<1>3. CachedInv /\ OnlineInv /\ SeenInv /\ [Next]_vars => (CachedInv /\ OnlineInv /\ SeenInv)'
  BY CachedNext, CalmNext
<1> QED BY <1>1, <1>2, <1>3, PTL DEF Spec, ForeignKept

\* The sync token passes over no change of another client (onEndDocument stores it after
\* the deletions and, with items to fetch, onStopRequest of their multiget): for a program
\* that stays online or offline, edits that do not overlap other errands, and a server
\* that fails only by invalidating tokens, since the token is stored although a multiget
\* has failed.
THEOREM TokenPassesOverNothing ==
    ASSUME Undisturbed, "error" \notin Faults PROVE Spec => []TokenCovers
<1>1. CoverInv => TokenCovers
  BY DEF CoverInv, CoverOnline, CoverOffline, Covered, TokenCovers
<1>2. Init => CachedInv /\ OnlineInv /\ CoverInv
  BY CachedInit, CalmInit
<1>3. CachedInv /\ OnlineInv /\ CoverInv /\ [Next]_vars => (CachedInv /\ OnlineInv /\ CoverInv)'
  BY CachedNext, CalmNext
<1> QED BY <1>1, <1>2, <1>3, PTL DEF Spec
=============================================================================
