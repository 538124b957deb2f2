------------------------- MODULE IcsCalendarProofs -------------------------
(***************************************************************************)
(* What is proved of the ICS calendar for all values of the constants:     *)
(* its types, and that no listener is told an outcome twice, in every      *)
(* scenario, the ones in which the lock is lost included; and where it is  *)
(* not lost, what the lock is for; that the provider implements the        *)
(* abstract CalendarPromise, and that a PUT with an If header overwrites no *)
(* version that its writer has not seen.                                   *)
(***************************************************************************)
EXTENDS IcsCalendar, SequenceTheorems, TLAPS

\* The empty calendar and absent items are values of their types.
LEMMA NothingIsContent == Nothing \in Content /\ Absent \in Version
BY DEF Nothing, Content, Absent, Version

\* A new flight has its type when its request exists.
LEMMA FlightHasType ==
    ASSUME NEW k \in Locking \cup {"read"}, NEW id \in Ids
    PROVE  Flight(k, id) \in FlightType
BY NothingIsContent DEF Flight, FlightType, Forms

\* Telling the modifications their outcome lengthens answers, not the list.
LEMMA NotifiedType ==
    ASSUME TypeOK, NEW err \in Status
    PROVE  /\ Notified(err) \in Seq(Seq(Status))
           /\ Len(Notified(err)) = Len(answers)
<1>1. DOMAIN answers = 1..Len(answers) /\ Len(answers) \in Nat
  BY LenProperties DEF TypeOK
<1>2. ASSUME NEW id \in DOMAIN answers
      PROVE  (IF id \in ModOps
              THEN Append(answers[id], Told(CHOOSE m \in mods : m.op = id, err))
              ELSE answers[id]) \in Seq(Status)
  <2>1. answers[id] \in Seq(Status)
    BY <1>1, <1>2, ElementOfSeq DEF TypeOK
  <2>2. ASSUME id \in ModOps
        PROVE  Told(CHOOSE m \in mods : m.op = id, err) \in Status
    <3>1. (CHOOSE m \in mods : m.op = id) \in mods
      BY <2>2 DEF ModOps
    <3> QED BY <3>1 DEF Told, TypeOK
  <2> QED BY <2>1, <2>2
<1>3. Notified(err) \in [1..Len(answers) -> Seq(Status)]
  BY <1>1, <1>2, Zenon DEF Notified
<1> QED BY <1>1, <1>3

\* The file after a write.
LEMMA Rewritten ==
    ASSUME TypeOK, NEW c \in Content, NEW d \in Forms
    PROVE  [remote EXCEPT !.content = c, !.ver = @ + 1, !.form = d] \in FileType
<1>1. remote \in FileType
  BY DEF TypeOK
<1>2. remote.ver + 1 \in Nat
  BY <1>1 DEF FileType
<1> QED BY <1>1, <1>2 DEF FileType

LEMMA TypeInit == Init => TypeOK
<1> SUFFICES ASSUME Init PROVE TypeOK
  OBVIOUS
<1>1. remote \in FileType
  <2>1. \A held : [i \in Items |-> IF i \in held THEN [w |-> -1, g |-> 0] ELSE Absent]
           \in Content
    BY DEF Content, Version, Absent
  <2>2. \E at \in Transports :
           /\ remote.at = at /\ remote.ver \in {0, 1} /\ remote.form = "good"
           /\ remote = [at |-> at, content |-> remote.content, ver |-> remote.ver,
                        form |-> "good"]
           /\ remote.content \in Content
    <3>1. PICK at \in Transports, held \in SUBSET Existing :
             remote = [at      |-> at,
                       content |-> [i \in Items |-> IF i \in held
                                                   THEN [w |-> -1, g |-> 0]
                                                   ELSE Absent],
                       ver     |-> IF held = {} THEN 0 ELSE 1,
                       form    |-> "good"]
      BY DEF Init
    <3>2. /\ remote.at = at /\ remote.form = "good" /\ remote.ver \in {0, 1}
          /\ remote = [at |-> at, content |-> remote.content, ver |-> remote.ver,
                       form |-> "good"]
      BY <3>1
    <3>3. remote.content \in Content
      BY <2>1, <3>1
    <3> QED BY <3>2, <3>3
  <2> QED BY <2>2, ConstantsAssumption DEF ConstantsAssumption, FileType, Forms
<1>2. mem \in Content /\ stamp \in Nat
  BY <1>1, NothingIsContent DEF Init, FileType
<1>3. \A S : <<>> \in Seq(S) /\ Len(<<>>) = 0
  BY EmptySeq
<1>4. drain \in DrainType
  BY DEF Init, Idle, DrainType, Calls
<1> QED
  BY <1>1, <1>2, <1>3, <1>4 DEF Init, TypeOK

\* One more request: every set of request numbers only grows.
LEMMA OneMoreRequest ==
    ASSUME TypeOK, NEW r \in RequestType, ops' = Append(ops, r)
    PROVE  /\ ops' \in Seq(RequestType)
           /\ Len(ops') = Len(ops) + 1 /\ Len(ops) \in Nat
           /\ Ids' = 1..(Len(ops) + 1)
           /\ Ids \subseteq Ids' /\ Len(ops) + 1 \in Ids'
           /\ FlightType \subseteq FlightType' /\ DrainType \subseteq DrainType'
           /\ \A id \in Ids : IsEdit(id) => IsEdit(id)'
           /\ queue \in Seq(Ids')
           /\ Append(queue, Len(ops) + 1) \in Seq(Ids')
<1>1. /\ ops' \in Seq(RequestType)
      /\ Len(ops') = Len(ops) + 1 /\ Len(ops) \in Nat
  BY AppendProperties, LenProperties DEF TypeOK
<1>2. Ids' = 1..(Len(ops) + 1) /\ Ids \subseteq Ids' /\ Len(ops) + 1 \in Ids'
  BY <1>1 DEF Ids
<1>3. FlightType \subseteq FlightType' /\ DrainType \subseteq DrainType'
  BY <1>2 DEF FlightType, DrainType
<1>6. \A id \in Ids : IsEdit(id) => IsEdit(id)'
  BY <1>1, AppendProperties DEF TypeOK, Ids, IsEdit
<1>4. queue \in Seq(Ids')
  BY <1>2, SeqMonotonic DEF TypeOK
<1>5. Append(queue, Len(ops) + 1) \in Seq(Ids')
  BY <1>2, <1>4, AppendProperties
<1> QED BY <1>1, <1>2, <1>3, <1>4, <1>5, <1>6

\* The modifications still are edits when requests have been added.
LEMMA StillEdits ==
    ASSUME TypeOK, mods' \subseteq mods, \A id \in Ids : IsEdit(id) => IsEdit(id)'
    PROVE  \A m \in mods' : IsEdit(m.op)'
BY DEF TypeOK

LEMMA PushType ==
    ASSUME TypeOK, NEW r \in RequestType, Push(r)
    PROVE  TypeOK'
<1>1. ops' = Append(ops, r) BY DEF Push
<1>2. /\ answers' \in Seq(Seq(Status)) /\ Len(answers') = Len(answers) + 1
  BY EmptySeq, AppendProperties DEF Push, TypeOK
<1>3. drain' \in DrainType'
  BY DEF Push, Idle, Drain, DrainType, Calls
<1>4. Status' = Status BY DEF Status
<1>5. mods' = mods BY DEF Push
<1>6. \A id \in Ids : IsEdit(id) => IsEdit(id)'
  BY <1>1, OneMoreRequest
<1>7. \A m \in mods' : IsEdit(m.op)'
  BY <1>5, <1>6, StillEdits
<1> QED
  BY <1>1, <1>2, <1>3, <1>4, <1>7, OneMoreRequest DEF Push, TypeOK

LEMMA ViewType == TypeOK => View \in Content
<1> SUFFICES ASSUME TypeOK PROVE View \in Content
  OBVIOUS
<1>1. CASE Parsing
  <2>1. (CHOOSE f \in flights : f.kind = "parse") \in FlightType
    BY <1>1 DEF TypeOK, Parsing
  <2> QED BY <1>1, <2>1 DEF View, FlightType
<1>2. CASE ~Parsing
  BY <1>2 DEF View, TypeOK
<1> QED BY <1>1, <1>2

LEMMA RequestsType == TypeOK /\ Requests => TypeOK'
<1> SUFFICES ASSUME TypeOK, Requests PROVE TypeOK'
  OBVIOUS
<1>1. View \in Content
  BY ViewType
<1>2. \A i \in Items : View[i] \in Version
  BY <1>1 DEF Content
<1>3. ASSUME NEW k \in OpKinds, NEW i \in Items \cup {NoItem},
             NEW v \in Version, Enqueue(Request(k, i, v, FALSE))
      PROVE  TypeOK'
  BY <1>3, PushType DEF Enqueue, Request, RequestType
<1>4. ASSUME NEW i \in Items, AdoptItem(i) \/ GetItem(i) PROVE TypeOK'
  BY <1>3, <1>4, NothingIsContent DEF AdoptItem, GetItem, OpKinds, EditKinds
<1>5. ASSUME NEW i \in Items, ModifyItem(i) \/ DeleteItem(i) PROVE TypeOK'
  BY <1>2, <1>3, <1>5 DEF ModifyItem, DeleteItem, OpKinds, EditKinds
<1>6. CASE GetItems \/ Refresh
  BY <1>3, <1>6, NothingIsContent DEF GetItems, Refresh, OpKinds, EditKinds
<1> QED BY <1>4, <1>5, <1>6 DEF Requests

\* While no request is added, what is made of request numbers is fixed, and the
\* modifications still are edits.
LEMMA SameRequests ==
    ASSUME UNCHANGED ops
    PROVE  /\ Ids' = Ids /\ FlightType' = FlightType /\ DrainType' = DrainType
           /\ TypeOK /\ mods' \subseteq mods => \A m \in mods' : IsEdit(m.op)'
<1>1. \A id \in Ids : IsEdit(id) => IsEdit(id)'
  BY DEF IsEdit
<1>2. TypeOK /\ mods' \subseteq mods => \A m \in mods' : IsEdit(m.op)'
  BY <1>1, StillEdits
<1> QED BY <1>2 DEF Ids, FlightType, DrainType

\* What unlock leaves behind, in doWriteICS's catch block as well.
LEMMA UnlockType ==
    ASSUME TypeOK, NEW err \in Status, NEW put \in {0} \cup Ids,
           Unlock(err, put) \/ (err = "failed" /\ WriteGivenUp), UNCHANGED ops
    PROVE  /\ mods' \subseteq [op : Ids, status : Status] /\ locked' \in BOOLEAN
           /\ \A m \in mods' : IsEdit(m.op)'
           /\ drain' \in DrainType
           /\ answers' \in Seq(Seq(Status)) /\ Len(answers') = Len(ops)
<1>1. mods' = {} /\ locked' = FALSE /\ answers' = Notified(err)
  BY DEF Unlock, WriteGivenUp
<1>2. drain' \in DrainType
  <2>1. CASE Unlock(err, put)
    BY <2>1 DEF Unlock, Drain, DrainType, Calls
  <2>2. CASE WriteGivenUp
    BY <2>2 DEF WriteGivenUp, Drain, DrainThen, DrainType, Calls
  <2> QED BY <2>1, <2>2
<1> QED BY <1>1, <1>2, NotifiedType DEF TypeOK

\* The GET for the refresh at the head of the queue.
LEMMA GetType ==
    ASSUME TypeOK, NEW id \in Ids
    PROVE  Get(id) \in FlightType
<1>1. Flight("get", id) \in FlightType
  BY FlightHasType DEF Locking, Reading
<1>2. ops[id].force \in BOOLEAN /\ stamp \in Nat
  <2>1. ops[id] \in RequestType
    BY ElementOfSeq DEF TypeOK, Ids
  <2> QED BY <2>1 DEF RequestType, TypeOK
<1> DEFINE cond == IF Http /\ ~ops[id].force THEN stamp ELSE 0
<1>3. cond \in Nat
  BY <1>2
<1>4. Get(id) = [Flight("get", id) EXCEPT !.force = ops[id].force, !.cond = cond]
  BY DEF Get
<1> HIDE DEF cond
<1> QED BY <1>1, <1>2, <1>3, <1>4 DEF FlightType

\* The PROPFIND that an exception brings about.
LEMMA EtagAskedType == TypeOK => EtagAsked \subseteq FlightType
<1>1. TypeOK /\ drain.put # 0 => Flight("etag", drain.put) \in FlightType
  BY FlightHasType DEF TypeOK, DrainType, Locking, Writing
<1> QED BY <1>1 DEF EtagAsked

LEMMA ProcessQueueType == TypeOK /\ ProcessQueue => TypeOK'
<1> SUFFICES ASSUME TypeOK, ProcessQueue PROVE TypeOK'
  OBVIOUS
<1>fr. ASSUME ForceRefresh PROVE TypeOK'
  <2>1. Forced \in RequestType
    BY NothingIsContent DEF Forced, Request, RequestType, OpKinds
  <2> QED BY <1>fr, <2>1, PushType DEF ForceRefresh
<1> SUFFICES ASSUME ~ForceRefresh PROVE TypeOK'
  BY <1>fr
<1>same. UNCHANGED ops
  BY DEF ProcessQueue, ApplyAdd, ApplyModify, ApplyDelete, DeleteThrows,
         ServeGetItem, ServeGetItems, WriteIcs, WriteIcsThrows, DoRefresh,
         NothingToDo, UnlockFollows, Applied, client
<1>ids. /\ Ids' = Ids /\ FlightType' = FlightType /\ Status' = Status
        /\ DrainType' = DrainType
        /\ mods' = mods => \A m \in mods' : IsEdit(m.op)'
  BY <1>same, SameRequests DEF Status
<1>hd. queue # <<>> => /\ Head(queue) \in Ids /\ Tail(queue) \in Seq(Ids)
                       /\ ops[Head(queue)] \in RequestType
  BY HeadTailProperties, ElementOfSeq DEF TypeOK, Ids
<1>1. ASSUME NEW k, Next1(k), NEW v, mem' \in Content,
             NEW status \in {"ok", "mismatch"}, Applied(v, status), k \in EditKinds
      PROVE  TypeOK'
  <2>1. mods' \subseteq [op : Ids, status : Status]
    BY <1>1, <1>hd DEF Applied, TypeOK, Next1, Status
  <2>4. \A m \in mods' : IsEdit(m.op)'
    <3>1. ops[Head(queue)].kind \in EditKinds
      BY <1>1 DEF Next1
    <3>2. \A m \in mods : ops[m.op].kind \in EditKinds
      BY DEF TypeOK, IsEdit
    <3>3. \A m \in mods' : ops[m.op].kind \in EditKinds
      BY <1>1, <3>1, <3>2 DEF Applied
    <3> QED BY <1>same, <3>3 DEF IsEdit
  <2>2. drain' \in DrainType
    BY <1>1, <1>hd DEF Applied, TypeOK, Next1, DrainType
  <2>3. readOnly' \in BOOLEAN
    BY <1>1 DEF Applied, TypeOK
  <2> QED
    BY <1>1, <1>ids, <1>hd, <2>1, <2>2, <2>3, <2>4 DEF Applied, TypeOK, Next1, client
<1>2. ASSUME NEW i, NEW v \in Version
      PROVE  [mem EXCEPT ![i] = v] \in Content
  BY DEF TypeOK, Content
<1>3. ASSUME NEW i PROVE [mem EXCEPT ![i] = mem[i]] \in Content
  BY DEF TypeOK, Content
<1>4. ASSUME ApplyAdd PROVE TypeOK'
  <2>1. Next1("add") /\ Applied([w |-> Head(queue), g |-> 0], "ok")
    BY <1>4 DEF ApplyAdd
  <2>2. [w |-> Head(queue), g |-> 0] \in Version
    BY <2>1, <1>hd DEF Next1, Version, Ids
  <2>3. mem' \in Content
    BY <2>1, <2>2, <1>2 DEF Applied
  <2> QED BY <2>1, <2>3, <1>1 DEF EditKinds
<1>5. ASSUME ApplyModify PROVE TypeOK'
  <2>1. Next1("modify") /\ Op1.base \in Version /\ Head(queue) \in Int
    BY <1>5, <1>hd DEF ApplyModify, Next1, RequestType, Op1, Ids
  <2>2. CASE mem[Op1.item] = Op1.base /\
             Applied([w |-> Head(queue), g |-> mem[Op1.item].g + 1], "ok")
    <3>1. [w |-> Head(queue), g |-> mem[Op1.item].g + 1] \in Version
      BY <2>1, <2>2 DEF Version
    <3>2. mem' \in Content BY <2>2, <3>1, <1>2 DEF Applied
    <3> QED BY <2>1, <2>2, <3>2, <1>1 DEF EditKinds
  <2>3. CASE Applied(mem[Op1.item], "mismatch")
    <3>1. mem' \in Content BY <2>3, <1>3 DEF Applied
    <3> QED BY <2>1, <2>3, <3>1, <1>1 DEF EditKinds
  <2> QED BY <1>5, <2>2, <2>3 DEF ApplyModify
<1>6. ASSUME ApplyDelete PROVE TypeOK'
  <2>1. Next1("delete")
    BY <1>6 DEF ApplyDelete
  <2>2. CASE Applied(Absent, "ok")
    <3>1. mem' \in Content BY <2>2, <1>2, NothingIsContent DEF Applied
    <3> QED BY <2>1, <2>2, <3>1, <1>1 DEF EditKinds
  <2>3. CASE Applied(mem[Op1.item], "mismatch")
    <3>1. mem' \in Content BY <2>3, <1>3 DEF Applied
    <3> QED BY <2>1, <2>3, <3>1, <1>1 DEF EditKinds
  <2> QED BY <1>6, <2>2, <2>3 DEF ApplyDelete
<1>7. Idle \in DrainType /\ Ended \in DrainType
  BY DEF Idle, Ended, DrainType, TypeOK, Calls
<1>8. ASSUME DeleteThrows PROVE TypeOK'
  <2>1. CASE ~InDoWriteIcs
    <3>1. flights' \subseteq FlightType
      BY <1>8, <2>1, EtagAskedType DEF DeleteThrows, TypeOK
    <3> QED BY <1>7, <1>8, <2>1, <1>ids, <1>hd, <3>1 DEF DeleteThrows, Next1, TypeOK
  <2>2. CASE InDoWriteIcs
    <3>1. WriteGivenUp /\ "failed" \in Status
      BY <1>8, <2>2 DEF DeleteThrows, Status
    <3>2. /\ mods' \subseteq [op : Ids, status : Status] /\ locked' \in BOOLEAN
          /\ \A m \in mods' : IsEdit(m.op)'
          /\ drain' \in DrainType
          /\ answers' \in Seq(Seq(Status)) /\ Len(answers') = Len(ops)
      BY <1>same, <3>1, UnlockType
    <3>3. readOnly' \in BOOLEAN
      BY <3>1 DEF WriteGivenUp
    <3> QED
      BY <1>8, <2>2, <1>ids, <1>hd, <3>2, <3>3 DEF DeleteThrows, Next1, TypeOK
  <2> QED BY <2>1, <2>2
<1>9. ASSUME ServeGetItem PROVE TypeOK'
  <2>1. Head(queue) \in 1..Len(answers) /\ answers[Head(queue)] \in Seq(Status)
    BY <1>9, <1>hd, ElementOfSeq DEF ServeGetItem, Next1, TypeOK, Ids
  <2>2. Append(answers[Head(queue)], "ok") \in Seq(Status)
    BY <2>1, AppendProperties DEF Status
  <2>3. answers' \in Seq(Seq(Status)) /\ Len(answers') = Len(answers)
    BY <1>9, <2>1, <2>2, ExceptSeq DEF ServeGetItem, TypeOK
  <2> QED BY <1>9, <1>ids, <1>hd, <2>3 DEF ServeGetItem, Next1, TypeOK
<1>10. ASSUME ServeGetItems PROVE TypeOK'
  <2>1. flights' \subseteq FlightType
    <3>1. Flight("read", Head(queue)) \in FlightType
      BY <1>10, <1>hd, FlightHasType DEF ServeGetItems, Next1
    <3> QED BY <1>10, <3>1 DEF ServeGetItems, TypeOK
  <2> QED BY <1>10, <1>ids, <1>hd, <2>1 DEF ServeGetItems, Next1, TypeOK, client
<1>11. ASSUME WriteIcs PROVE TypeOK'
  <2>1. flights' \subseteq FlightType
    <3>1. Flight("backup", drain.last) \in FlightType
      BY <1>11, FlightHasType DEF WriteIcs, TypeOK, DrainType, Locking, Writing
    <3> QED BY <1>11, <3>1 DEF WriteIcs, TypeOK
  <2> QED BY <1>7, <1>11, <1>ids, <2>1 DEF WriteIcs, TypeOK, client
<1>12. ASSUME DoRefresh PROVE TypeOK'
  <2>1. flights' \subseteq FlightType
    BY <1>12, <1>hd, GetType DEF DoRefresh, Next1, TypeOK
  <2> QED BY <1>7, <1>12, <1>ids, <1>hd, <2>1 DEF DoRefresh, Next1, TypeOK, client
<1>13. ASSUME NothingToDo PROVE TypeOK'
  BY <1>7, <1>13, <1>ids DEF NothingToDo, TypeOK, client
<1>14. ASSUME WriteIcsThrows PROVE TypeOK'
  <2>1. flights' \subseteq FlightType
    <3> DEFINE got == IF queue = <<>> THEN {} ELSE {Get(Head(queue))}
    <3>1. got \subseteq FlightType
      BY <1>hd, GetType
    <3>2. flights' \subseteq flights \cup got \cup EtagAsked
      BY <1>14 DEF WriteIcsThrows
    <3> HIDE DEF got
    <3> QED BY <3>1, <3>2, EtagAskedType DEF TypeOK
  <2>2. queue' \in Seq(Ids)
    BY <1>14, <1>hd, EmptySeq DEF WriteIcsThrows
  <2>3. "failed" \in Status
    BY DEF Status
  <2>4. mods' = {} /\ answers' = Notified("failed") /\ locked' \in BOOLEAN
        /\ readOnly' \in BOOLEAN
    BY <1>14 DEF WriteIcsThrows, WriteGivenUp, TypeOK
  <2>5. drain' \in DrainType
    BY <1>7, <1>14 DEF WriteIcsThrows, WriteGivenUp, Drain, DrainThen, DrainType, Calls
  <2>6. answers' \in Seq(Seq(Status)) /\ Len(answers') = Len(ops)
    BY <2>3, <2>4, NotifiedType DEF TypeOK
  <2> QED BY <1>14, <1>ids, <2>1, <2>2, <2>4, <2>5, <2>6 DEF WriteIcsThrows, TypeOK
<1>15. ASSUME UnlockFollows PROVE TypeOK'
  <2>1. /\ mods' \subseteq [op : Ids, status : Status] /\ locked' \in BOOLEAN
        /\ \A m \in mods' : IsEdit(m.op)'
        /\ drain' \in DrainType
        /\ answers' \in Seq(Seq(Status)) /\ Len(answers') = Len(ops)
    BY <1>15, <1>same, UnlockType DEF UnlockFollows, Status
  <2> QED BY <1>15, <1>ids, <2>1 DEF UnlockFollows, TypeOK
<1> QED
  BY <1>4, <1>5, <1>6, <1>8, <1>9, <1>10, <1>11, <1>12, <1>13, <1>14, <1>15
  DEF ProcessQueue

LEMMA ServeType == TypeOK /\ Serve => TypeOK'
<1> SUFFICES ASSUME TypeOK, Serve PROVE TypeOK'
  OBVIOUS
<1>1. PICK f \in flights : ServeGet(f) \/ ServePut(f)
  BY DEF Serve
<1>2. f \in FlightType
  BY <1>1 DEF TypeOK
<1>3. CASE ServeGet(f)
  <2>1. /\ Ids' = Ids /\ FlightType' = FlightType /\ DrainType' = DrainType
        /\ \A m \in mods' : IsEdit(m.op)'
    BY <1>3, SameRequests DEF ServeGet, client
  <2>2. PICK g : Becomes(f, g) /\ g \in FlightType
    <3>1. \A o \in {"wait", "ok", "304", "404", "throw", "fail", "error"} :
             [f EXCEPT !.out = o] \in FlightType
      BY <1>2 DEF FlightType
    <3>2. [f EXCEPT !.out = "ok", !.data = remote.content, !.ver = remote.ver,
                    !.form = remote.form] \in FlightType
      <4>1. remote.content \in Content /\ remote.ver \in Nat /\ remote.form \in Forms
        BY DEF TypeOK, FileType
      <4> QED BY <1>2, <4>1 DEF FlightType
    <3>3. GetFaults \subseteq {"fail", "error"}
      BY ConstantsAssumption DEF ConstantsAssumption
    <3> QED BY <1>3, <3>1, <3>2, <3>3 DEF ServeGet
  <2>3. flights' \subseteq FlightType
    BY <2>2 DEF Becomes, TypeOK
  <2> QED BY <1>3, <2>1, <2>3 DEF ServeGet, client, TypeOK
<1>4. CASE ServePut(f)
  <2>1. /\ Ids' = Ids /\ FlightType' = FlightType /\ DrainType' = DrainType
        /\ \A m \in mods' : IsEdit(m.op)'
    BY <1>4, SameRequests DEF ServePut, client
  <2>2. PICK g : Becomes(f, g) /\ g \in FlightType
    <3>1. [f EXCEPT !.out = "error"] \in FlightType
      BY <1>2 DEF FlightType
    <3>2. [f EXCEPT !.out = "ok", !.ver = remote.ver + 1] \in FlightType
      <4>1. remote.ver + 1 \in Nat
        BY DEF TypeOK, FileType
      <4> QED BY <1>2, <4>1 DEF FlightType
    <3> QED BY <1>4, <3>1, <3>2 DEF ServePut
  <2>3. flights' \subseteq FlightType
    BY <2>2 DEF Becomes, TypeOK
  <2>4. /\ remote' \in FileType
        /\ stored' \subseteq Ids
    <3>1. "good" \in Forms
      BY DEF Forms
    <3>2. f.data \in Content /\ f.carries \subseteq Ids
      BY <1>2 DEF FlightType
    <3>3. CASE Commit(f)
      <4>1. remote' \in FileType
        BY <3>1, <3>2, <3>3, Rewritten DEF Commit
      <4> QED BY <3>2, <3>3, <4>1 DEF Commit, TypeOK
    <3>4. CASE UNCHANGED <<remote, stored>>
      BY <3>4 DEF TypeOK
    <3> QED BY <1>4, <3>3, <3>4 DEF ServePut
  <2> QED BY <1>4, <2>1, <2>3, <2>4 DEF ServePut, client, TypeOK
<1> QED BY <1>1, <1>3, <1>4

LEMMA ForceRefreshType ==
    ASSUME TypeOK, NEW err \in Status, NEW f, ForceRefreshAndUnlock(err),
           Done(f), readOnly' = TRUE,
           UNCHANGED <<mem, stamp, disabled, remote, foreign, stored>>
    PROVE  TypeOK'
<1>1. Request("refresh", NoItem, Absent, TRUE) \in RequestType
  BY NothingIsContent DEF Request, RequestType, OpKinds
<1>2. ops' = Append(ops, Request("refresh", NoItem, Absent, TRUE))
  BY DEF ForceRefreshAndUnlock, Forced
<1>3. /\ answers' \in Seq(Seq(Status)) /\ Len(answers') = Len(answers) + 1
  <2> DEFINE told == Notified(err)
  <2>1. told \in Seq(Seq(Status)) /\ Len(told) = Len(answers)
    BY NotifiedType
  <2>2. <<>> \in Seq(Status)
    BY EmptySeq
  <2>3. answers' = Append(told, <<>>)
    BY DEF ForceRefreshAndUnlock
  <2> HIDE DEF told
  <2> QED BY <2>1, <2>2, <2>3, AppendProperties
<1>4. drain' \in DrainType'
  BY DEF ForceRefreshAndUnlock, Drain, DrainType, Calls
<1>5. flights' \subseteq FlightType'
  BY <1>1, <1>2, OneMoreRequest DEF Done, TypeOK
<1>6. stored \subseteq Ids' /\ queue' \in Seq(Ids')
  BY <1>1, <1>2, OneMoreRequest DEF ForceRefreshAndUnlock, TypeOK
<1>7. Len(ops') = Len(ops) + 1 /\ ops' \in Seq(RequestType)
  BY <1>1, <1>2, OneMoreRequest
<1>8. Status' = Status /\ RequestType' = RequestType /\ Content' = Content
  BY DEF Status, RequestType, Content
<1> QED
  BY <1>3, <1>4, <1>5, <1>6, <1>7, <1>8 DEF ForceRefreshAndUnlock, TypeOK

LEMMA CallbacksType == TypeOK /\ Callbacks => TypeOK'
<1> SUFFICES ASSUME TypeOK, NEW f \in flights, Callback(f) PROVE TypeOK'
  BY DEF Callbacks
<1>1. f \in FlightType /\ f.id \in Ids /\ f.data \in Content /\ f.ver \in Nat
  BY DEF TypeOK, FlightType
<1>2. Stamp(f) \in Nat
  BY <1>1 DEF Stamp, TypeOK, FileType
<1>4. ASSUME NEW err \in Status, NEW put \in {0} \cup Ids,
             Unlock(err, put) \/ (err = "failed" /\ WriteGivenUp),
             Done(f), mem' \in Content, stamp' \in Nat, readOnly' \in BOOLEAN,
             disabled' \in BOOLEAN, UNCHANGED <<ops, queue, remote, foreign, stored>>
      PROVE  TypeOK'
  <2>1. Ids' = Ids /\ FlightType' = FlightType /\ DrainType' = DrainType
    BY <1>4, SameRequests
  <2>2. /\ mods' \subseteq [op : Ids, status : Status] /\ locked' \in BOOLEAN
        /\ \A m \in mods' : IsEdit(m.op)'
        /\ drain' \in DrainType
        /\ answers' \in Seq(Seq(Status)) /\ Len(answers') = Len(ops)
    BY <1>4, UnlockType
  <2>3. flights' \subseteq FlightType
    BY <1>4 DEF Done, TypeOK
  <2> QED BY <1>4, <2>1, <2>2, <2>3 DEF TypeOK
<1>5. ASSUME NEW g \in FlightType, Becomes(f, g), mem' \in Content, stamp' \in Nat,
             UNCHANGED <<client, queue, mods, locked, drain, readOnly, disabled,
                         remote, foreign, stored>>
      PROVE  TypeOK'
  <2>1. /\ Ids' = Ids /\ FlightType' = FlightType /\ DrainType' = DrainType
        /\ \A m \in mods' : IsEdit(m.op)'
    BY <1>5, SameRequests DEF client
  <2>2. flights' \subseteq FlightType
    BY <1>5 DEF Becomes, TypeOK
  <2> QED BY <1>5, <2>1, <2>2 DEF client, TypeOK
<1>6. "ok" \in Status /\ "failed" \in Status
  BY DEF Status
<1>7. CASE KeepOldData(f)
  BY <1>4, <1>6, <1>7 DEF KeepOldData, TypeOK
<1>8. CASE LoadEmpty(f)
  BY <1>2, <1>4, <1>6, <1>8, NothingIsContent DEF LoadEmpty, TypeOK
<1>9. CASE DecodingFails(f)
  BY <1>2, <1>4, <1>6, <1>9 DEF DecodingFails, TypeOK
<1>10. CASE StartParsing(f)
  <2>1. View \in Content BY ViewType
  <2>2. [f EXCEPT !.kind = "parse", !.shown = View] \in FlightType
    BY <1>1, <2>1 DEF FlightType, Locking, Reading
  <2> QED BY <1>2, <1>5, <1>10, <2>2, NothingIsContent DEF StartParsing
<1>11. CASE OnParsingComplete(f)
  <2>1. [i \in Items |-> IF f.form = "good" /\ f.data[i] # Absent
                         THEN f.data[i] ELSE mem[i]] \in Content
    BY <1>1 DEF TypeOK, Content
  <2> QED BY <1>4, <1>6, <1>11, <2>1 DEF OnParsingComplete, TypeOK
<1>12. CASE BackupDone(f)
  <2>1. [f EXCEPT !.kind = "collect"] \in FlightType
    BY <1>1 DEF FlightType, Locking, Writing
  <2> QED BY <1>5, <1>12, <2>1 DEF BackupDone, TypeOK
<1>13. CASE OpeningThrows(f)
  BY <1>4, <1>6, <1>13 DEF OpeningThrows, WriteGivenUp, TypeOK
<1>14. CASE StartPut(f)
  <2> DEFINE cond == IF Http THEN stamp ELSE 0
             sent == ModOps \cup ({mem[i].w : i \in Items} \cap Ids)
  <2>1. cond \in Nat /\ mem \in Content
    BY DEF TypeOK
  <2>2. sent \subseteq Ids
    BY DEF TypeOK, ModOps
  <2>3. [f EXCEPT !.kind = "put", !.data = mem, !.carries = sent, !.cond = cond]
           \in FlightType
    BY <1>1, <2>1, <2>2 DEF FlightType, Locking, Writing
  <2> QED BY <1>5, <1>14, <2>3 DEF StartPut, TypeOK
<1>15. CASE RefusePut(f)
  BY <1>1, <1>4, <1>6, <1>15 DEF RefusePut, TypeOK
<1>16. CASE PutFailed(f)
  <2>1. CASE ForceRefreshAndUnlock("failed")
    BY <1>6, <1>16, <2>1, ForceRefreshType DEF PutFailed
  <2>2. CASE ~ForceRefreshAndUnlock("failed")
    <3>1. Forced \in RequestType
      BY NothingIsContent DEF Forced, Request, RequestType, OpKinds
    <3>2. ops' = Append(ops, Forced)
      BY <1>16, <2>2 DEF PutFailed
    <3>3. /\ answers' \in Seq(Seq(Status)) /\ Len(answers') = Len(answers) + 1
      <4>1. answers' = Append(answers, <<>>)
        BY <1>16, <2>2 DEF PutFailed
      <4>2. answers \in Seq(Seq(Status)) /\ <<>> \in Seq(Status)
        BY EmptySeq DEF TypeOK
      <4> QED BY <4>1, <4>2, AppendProperties
    <3>4. drain' \in DrainType'
      BY <1>16, <2>2 DEF PutFailed, Drain, DrainThen, DrainType, Calls
    <3>5. flights' \subseteq FlightType'
      BY <1>16, <3>1, <3>2, OneMoreRequest DEF PutFailed, Done, TypeOK
    <3>6. /\ stored \subseteq Ids' /\ queue' \in Seq(Ids')
          /\ mods \subseteq [op : Ids', status : Status]
      BY <1>16, <2>2, <3>1, <3>2, OneMoreRequest DEF PutFailed, TypeOK
    <3>7. Len(ops') = Len(ops) + 1 /\ ops' \in Seq(RequestType)
      BY <3>1, <3>2, OneMoreRequest
    <3>8. mods' = mods /\ \A id \in Ids : IsEdit(id) => IsEdit(id)'
      BY <1>16, <2>2, <3>1, <3>2, OneMoreRequest DEF PutFailed
    <3>9. \A m \in mods' : IsEdit(m.op)'
      BY <3>8, StillEdits
    <3>10. Status' = Status /\ RequestType' = RequestType /\ Content' = Content
      BY DEF Status, RequestType, Content
    <3> QED
      BY <1>16, <2>2, <3>3, <3>4, <3>5, <3>6, <3>7, <3>8, <3>9, <3>10
      DEF PutFailed, TypeOK
  <2> QED BY <2>1, <2>2
<1>17. CASE PutSucceeded(f)
  BY <1>1, <1>2, <1>4, <1>6, <1>17 DEF PutSucceeded, TypeOK
<1>18. CASE AskForEtag(f)
  <2>1. Flight("etag", f.id) \in FlightType
    BY <1>1, FlightHasType DEF Locking, Writing
  <2> QED BY <1>5, <1>18, <2>1 DEF AskForEtag, TypeOK
<1>19. CASE EtagReply(f)
  BY <1>4, <1>6, <1>19 DEF EtagReply, TypeOK
<1>20. CASE EtagReplyThrows(f)
  <2>1. /\ Ids' = Ids /\ FlightType' = FlightType /\ DrainType' = DrainType
        /\ \A m \in mods' : IsEdit(m.op)'
    BY <1>20, SameRequests DEF EtagReplyThrows, client
  <2> QED BY <1>20, <2>1 DEF EtagReplyThrows, Done, client, TypeOK
<1>21. CASE GetItemsPosted(f)
  <2>1. /\ Ids' = Ids /\ FlightType' = FlightType /\ DrainType' = DrainType
        /\ \A m \in mods' : IsEdit(m.op)'
    BY <1>21, SameRequests DEF GetItemsPosted
  <2>2. f.id \in 1..Len(answers) /\ answers[f.id] \in Seq(Status)
    BY <1>1, ElementOfSeq DEF TypeOK, Ids
  <2>3. Append(answers[f.id], "ok") \in Seq(Status)
    BY <1>6, <2>2, AppendProperties
  <2>4. answers' \in Seq(Seq(Status)) /\ Len(answers') = Len(answers)
    BY <1>21, <2>2, <2>3, ExceptSeq DEF GetItemsPosted, TypeOK
  <2> QED BY <1>21, <2>1, <2>4 DEF GetItemsPosted, Done, TypeOK
<1> QED
  BY <1>7, <1>8, <1>9, <1>10, <1>11, <1>12, <1>13, <1>14, <1>15, <1>16, <1>17,
     <1>18, <1>19, <1>20, <1>21 DEF Callback

LEMMA TypeNext == TypeOK /\ [Next]_vars => TypeOK'
<1> SUFFICES ASSUME TypeOK, [Next]_vars PROVE TypeOK'
  OBVIOUS
<1>1. ASSUME NEW i \in Items, ForeignWrite(i) PROVE TypeOK'
  <2>1. /\ Ids' = Ids /\ FlightType' = FlightType /\ DrainType' = DrainType
        /\ \A m \in mods' : IsEdit(m.op)'
    BY <1>1, SameRequests DEF ForeignWrite, client
  <2>2. remote' \in FileType
    <3>1. remote.content[i].g \in Nat /\ remote.content \in Content
      BY DEF TypeOK, FileType, Content, Version
    <3>2. {Absent, [w |-> -(foreign + 2), g |-> remote.content[i].g]} \subseteq Version
      BY <3>1, NothingIsContent DEF TypeOK, Version
    <3>3. Damage \cup {"good"} \subseteq Forms
      BY ConstantsAssumption DEF ConstantsAssumption, Forms
    <3>4. \A v \in Version : [remote.content EXCEPT ![i] = v] \in Content
      BY <3>1 DEF Content
    <3>5. PICK v \in Version, d \in Forms :
             remote' = [remote EXCEPT !.content = [@ EXCEPT ![i] = v], !.ver = @ + 1,
                                      !.form = d]
      BY <1>1, <3>2, <3>3 DEF ForeignWrite
    <3> QED BY <3>4, <3>5, Rewritten
  <2>3. foreign' \in Nat
    BY <1>1 DEF ForeignWrite, TypeOK
  <2> QED BY <1>1, <2>1, <2>2, <2>3 DEF ForeignWrite, client, TypeOK
<1>2. CASE ClearReadOnly \/ EnableCalendar \/ UNCHANGED vars
  <2>1. /\ Ids' = Ids /\ FlightType' = FlightType /\ DrainType' = DrainType
        /\ \A m \in mods' : IsEdit(m.op)'
    BY <1>2, SameRequests DEF ClearReadOnly, EnableCalendar, vars, client
  <2> QED BY <1>2, <2>1 DEF ClearReadOnly, EnableCalendar, vars, client, TypeOK
<1> QED
  BY <1>1, <1>2, RequestsType, ProcessQueueType, ServeType, CallbacksType DEF Next

\* Every variable of the ICS calendar keeps its type, whatever requests, faults,
\* damage and other writers there are.
THEOREM TypeCorrect == Spec => []TypeOK
BY TypeInit, TypeNext, PTL DEF Spec

-----------------------------------------------------------------------------
(* No listener is told an outcome twice.  OneHome is inductive together     *)
(* with TypeOK once a posted read has one flight only.                      *)

ReadsAreDistinct ==
    \A f, g \in flights : f.kind = "read" /\ g.kind = "read" /\ f.id = g.id => f = g

HomeInv == TypeOK /\ OneHome /\ ReadsAreDistinct

\* Telling the modifications their outcome gives each its first answer.
LEMMA NotifiedOnce ==
    ASSUME HomeInv, NEW err \in Status, NEW id \in Ids
    PROVE  /\ Len(Notified(err)[id]) <= 1
           /\ id \notin ModOps => Notified(err)[id] = answers[id]
<1>1. DOMAIN answers = Ids
  BY LenProperties DEF HomeInv, TypeOK, Ids
<1>2. CASE id \in ModOps
  <2>1. answers[id] = <<>>
    BY <1>2 DEF HomeInv, OneHome
  <2>2. Notified(err)[id] = Append(<<>>, Told(CHOOSE m \in mods : m.op = id, err))
    BY <1>1, <1>2, <2>1 DEF Notified
  <2> QED BY <1>2, <2>2
<1>3. CASE id \notin ModOps
  BY <1>1, <1>3 DEF Notified, HomeInv, OneHome
<1> QED BY <1>2, <1>3

\* unlock: the modifications leave their list with an answer each; the queue is as
\* before or has lost an entry, and the posted reads are as before.
LEMMA UnlockHome ==
    ASSUME HomeInv, NEW err \in Status,
           \A g \in flights' : g.kind = "read" => g \in flights,
           mods' = {}, answers' = Notified(err), UNCHANGED ops,
           \A id : Queued(id)' => Queued(id),
           \A j, k \in 1..Len(queue') : queue'[j] = queue'[k] => j = k
    PROVE  OneHome' /\ ReadsAreDistinct'
<1>1. Ids' = Ids /\ ModOps' = {}
  BY DEF Ids, ModOps
<1>2. \A id : Posted(id)' => Posted(id)
  BY DEF Posted
<1>3. \A id \in Ids : /\ Len(answers'[id]) <= 1
                      /\ id \notin ModOps => answers'[id] = answers[id]
  BY NotifiedOnce
<1>4. ReadsAreDistinct'
  BY DEF HomeInv, ReadsAreDistinct
<1> QED BY <1>1, <1>2, <1>3, <1>4 DEF HomeInv, OneHome

\* The same with the queue as it was.
LEMMA UnlockKeepsQueue ==
    ASSUME HomeInv, NEW err \in Status, flights' \subseteq flights,
           mods' = {}, answers' = Notified(err), UNCHANGED <<ops, queue>>
    PROVE  OneHome' /\ ReadsAreDistinct'
<1>1. \A id : Queued(id)' => Queued(id)
  BY DEF Queued
<1>2. \A j, k \in 1..Len(queue') : queue'[j] = queue'[k] => j = k
  BY DEF HomeInv, OneHome
<1> QED BY <1>1, <1>2, UnlockHome

\* A new request goes to the queue's tail; what the others have been told either
\* stays, or is new and takes them off the list of modifications.
LEMMA OneMoreHome ==
    ASSUME HomeInv, NEW r \in RequestType, ops' = Append(ops, r),
           queue' = Append(queue, Len(ops) + 1),
           NEW told \in Seq(Seq(Status)), Len(told) = Len(ops),
           answers' = Append(told, <<>>), mods' \subseteq mods,
           flights' \subseteq flights,
           \A id \in Ids : /\ Len(told[id]) <= 1
                           /\ \/ told[id] = answers[id]
                              \/ id \in ModOps /\ id \notin ModOps'
    PROVE  OneHome' /\ ReadsAreDistinct'
<1>0. PICK n : n = Len(ops) + 1
  OBVIOUS
<1>1. n \in Nat /\ Ids' = Ids \cup {n} /\ n \notin Ids
  BY <1>0, OneMoreRequest DEF HomeInv, Ids
<1>2. /\ Len(queue) \in Nat /\ Len(queue') = Len(queue) + 1
      /\ \A k \in 1..Len(queue) : queue'[k] = queue[k] /\ queue[k] \in Ids
      /\ queue'[Len(queue) + 1] = n
  <2>1. queue \in Seq(Nat) /\ Len(queue) \in Nat
    BY SeqMonotonic, LenProperties DEF HomeInv, TypeOK, Ids
  <2>2. \A k \in 1..Len(queue) : queue[k] \in Ids
    BY ElementOfSeq DEF HomeInv, TypeOK
  <2> QED BY <1>0, <1>1, <2>1, <2>2, AppendProperties
<1>3. \A j, k \in 1..Len(queue') : queue'[j] = queue'[k] => j = k
  BY <1>1, <1>2 DEF HomeInv, OneHome
<1>4. \A id \in Ids : (Queued(id)' <=> Queued(id)) /\ (Posted(id)' => Posted(id))
  BY <1>1, <1>2 DEF Queued, Posted
<1>5. ~Posted(n)' /\ n \notin ModOps' /\ ModOps' \subseteq ModOps
  <2>1. ModOps \subseteq Ids /\ ModOps' \subseteq ModOps
    BY DEF ModOps, HomeInv, TypeOK
  <2>2. \A g \in flights : g.id \in Ids
    BY DEF HomeInv, TypeOK, FlightType
  <2> QED BY <1>1, <2>1, <2>2 DEF Posted
<1>6. answers'[n] = <<>> /\ \A id \in Ids : answers'[id] = told[id]
  BY <1>0, AppendProperties, EmptySeq, LenProperties DEF HomeInv, TypeOK, Ids
<1>7. ReadsAreDistinct'
  BY DEF HomeInv, ReadsAreDistinct
<1>8. \A id \in Ids' :
         /\ Len(answers'[id]) <= 1
         /\ Queued(id)' => id \notin ModOps' /\ ~Posted(id)' /\ answers'[id] = <<>>
         /\ id \in ModOps' => ~Posted(id)' /\ answers'[id] = <<>>
         /\ Posted(id)' => answers'[id] = <<>>
  <2>1. ASSUME NEW id \in Ids
        PROVE  /\ Len(answers'[id]) <= 1
               /\ Queued(id)' => id \notin ModOps' /\ ~Posted(id)' /\ answers'[id] = <<>>
               /\ id \in ModOps' => ~Posted(id)' /\ answers'[id] = <<>>
               /\ Posted(id)' => answers'[id] = <<>>
    <3>1. /\ Queued(id) => id \notin ModOps /\ ~Posted(id) /\ answers[id] = <<>>
          /\ id \in ModOps => ~Posted(id) /\ answers[id] = <<>>
          /\ Posted(id) => answers[id] = <<>>
      BY DEF HomeInv, OneHome
    <3>2. /\ answers'[id] = told[id] /\ Len(told[id]) <= 1
          /\ (Queued(id)' <=> Queued(id)) /\ (Posted(id)' => Posted(id))
      BY <1>4, <1>6
    <3>3. id \notin ModOps => told[id] = answers[id]
      OBVIOUS
    <3>4. id \in ModOps' => told[id] = answers[id] /\ id \in ModOps
      BY <1>5
    <3> QED BY <3>1, <3>2, <3>3, <3>4
  <2>2. n \notin ModOps' /\ ~Posted(n)' /\ answers'[n] = <<>>
    BY <1>5, <1>6
  <2>3. \A s : s = <<>> => Len(s) <= 1
    OBVIOUS
  <2> QED BY <1>1, <2>1, <2>2, <2>3
<1>9. \A m, k \in mods' : m.op = k.op => m = k
  BY DEF HomeInv, OneHome
<1> QED BY <1>3, <1>7, <1>8, <1>9 DEF OneHome

LEMMA PushHome ==
    ASSUME HomeInv, NEW r \in RequestType, Push(r)
    PROVE  OneHome' /\ ReadsAreDistinct'
<1>1. /\ ops' = Append(ops, r) /\ queue' = Append(queue, Len(ops) + 1)
      /\ answers' = Append(answers, <<>>) /\ mods' = mods /\ flights' = flights
  BY DEF Push
<1>2. /\ answers \in Seq(Seq(Status)) /\ Len(answers) = Len(ops)
      /\ \A id \in Ids : Len(answers[id]) <= 1
  BY DEF HomeInv, TypeOK, OneHome
<1> QED BY <1>1, <1>2, OneMoreHome

\* forceRefresh's request is one.
LEMMA ForcedType == Forced \in RequestType
BY NothingIsContent DEF Forced, Request, RequestType, OpKinds

LEMMA RequestsHome == HomeInv /\ Requests => OneHome' /\ ReadsAreDistinct'
<1> SUFFICES ASSUME HomeInv, Requests PROVE OneHome' /\ ReadsAreDistinct'
  OBVIOUS
<1>1. PICK r : Push(r)
  BY DEF Requests, AdoptItem, ModifyItem, DeleteItem, GetItem, GetItems, Refresh,
         Enqueue
<1>2. r \in RequestType
  <2>1. TypeOK' /\ RequestType' = RequestType
    BY RequestsType DEF HomeInv, RequestType, Version, OpKinds, EditKinds
  <2>2. ops' = Append(ops, r) /\ Append(ops, r) \in Seq(RequestType)
    BY <1>1, <2>1 DEF Push, TypeOK
  <2>3. Len(ops) \in Nat /\ Len(Append(ops, r)) = Len(ops) + 1
        /\ Append(ops, r)[Len(ops) + 1] = r
    BY AppendProperties, LenProperties DEF HomeInv, TypeOK
  <2> QED BY <2>2, <2>3, ElementOfSeq
<1> QED BY <1>1, <1>2, PushHome

\* processQueue shifts the head off the queue.
LEMMA Shift ==
    ASSUME HomeInv, queue # <<>>, queue' = Tail(queue)
    PROVE  /\ Head(queue) \in Ids
           /\ Queued(Head(queue))
           /\ \A id : Queued(id)' => Queued(id) /\ id # Head(queue)
           /\ \A j, k \in 1..Len(queue') : queue'[j] = queue'[k] => j = k
<1>1. /\ Len(queue) \in Nat /\ Len(queue) # 0 /\ Head(queue) = queue[1]
      /\ Head(queue) \in Ids
      /\ Len(queue') = Len(queue) - 1
      /\ \A k \in 1..Len(queue') : queue'[k] = queue[k + 1]
  BY HeadTailProperties, LenProperties, EmptySeq DEF HomeInv, TypeOK
<1>2. \A j, k \in 1..Len(queue) : queue[j] = queue[k] => j = k
  BY DEF HomeInv, OneHome
<1>3. \A k \in 1..Len(queue') : k + 1 \in 1..Len(queue) /\ k + 1 # 1 /\ k \in Nat
  BY <1>1
<1>4. Queued(Head(queue))
  BY <1>1 DEF Queued
<1>5. ASSUME NEW id, Queued(id)' PROVE Queued(id) /\ id # Head(queue)
  <2>1. PICK k \in 1..Len(queue') : queue'[k] = id
    BY <1>5 DEF Queued
  <2>2. queue[k + 1] = id
    BY <1>1, <2>1
  <2>3. 1 \in 1..Len(queue)
    BY <1>1
  <2>4. queue[k + 1] # queue[1]
    BY <1>2, <1>3, <2>3
  <2> QED BY <1>1, <1>3, <2>2, <2>4 DEF Queued
<1>6. \A j, k \in 1..Len(queue') : queue'[j] = queue'[k] => j = k
  <2> SUFFICES ASSUME NEW j \in 1..Len(queue'), NEW k \in 1..Len(queue'),
                      queue'[j] = queue'[k]
               PROVE  j = k
    OBVIOUS
  <2>1. queue[j + 1] = queue[k + 1]
    BY <1>1
  <2>2. j + 1 = k + 1
    BY <1>2, <1>3, <2>1
  <2> QED BY <1>3, <2>2
<1> QED BY <1>1, <1>4, <1>5, <1>6

\* The head request leaves the queue for at most one other place; nothing else
\* moves.
LEMMA HeadLeaves ==
    ASSUME HomeInv, NEW h, queue # <<>>, h = Head(queue), queue' = Tail(queue),
           UNCHANGED ops,
           \A m, n \in mods' : m.op = n.op => m = n,
           \A id \in Ids \ {h} : /\ id \in ModOps' => id \in ModOps
                                 /\ Posted(id)' => Posted(id)
                                 /\ answers'[id] = answers[id],
           Len(answers'[h]) <= 1,
           h \in ModOps' => ~Posted(h)' /\ answers'[h] = <<>>,
           Posted(h)' => answers'[h] = <<>>
    PROVE  OneHome'
<1>1. Ids' = Ids
  BY SameRequests
<1>2. /\ \A id : Queued(id)' => Queued(id) /\ id # h
      /\ \A j, k \in 1..Len(queue') : queue'[j] = queue'[k] => j = k
  BY Shift
<1>3. \A id \in Ids :
         /\ Len(answers'[id]) <= 1
         /\ Queued(id)' => id \notin ModOps' /\ ~Posted(id)' /\ answers'[id] = <<>>
         /\ id \in ModOps' => ~Posted(id)' /\ answers'[id] = <<>>
         /\ Posted(id)' => answers'[id] = <<>>
  BY <1>2 DEF HomeInv, OneHome
<1> QED BY <1>1, <1>2, <1>3 DEF OneHome

\* A step that tells nobody anything and posts no read.
LEMMA StaysHome ==
    ASSUME HomeInv, UNCHANGED <<ops, answers, queue, mods>>,
           \A g \in flights' : g.kind = "read" => g \in flights
    PROVE  OneHome' /\ ReadsAreDistinct'
<1>1. Ids' = Ids /\ ModOps' = ModOps
  BY SameRequests DEF ModOps
<1>2. \A id : (Queued(id)' <=> Queued(id)) /\ (Posted(id)' => Posted(id))
  BY DEF Queued, Posted
<1>3. ReadsAreDistinct'
  BY DEF HomeInv, ReadsAreDistinct
<1> QED BY <1>1, <1>2, <1>3 DEF HomeInv, OneHome

LEMMA ProcessQueueHome == HomeInv /\ ProcessQueue => OneHome' /\ ReadsAreDistinct'
<1> SUFFICES ASSUME HomeInv, ProcessQueue PROVE OneHome' /\ ReadsAreDistinct'
  OBVIOUS
<1>0. PICK h : h = Head(queue)
  OBVIOUS
<1>1. queue # <<>> => /\ h \in Ids /\ h \notin ModOps /\ ~Posted(h)
                      /\ answers[h] = <<>>
  <2>1. queue # <<>> => Head(queue) \in Ids /\ Queued(Head(queue))
    <3> SUFFICES ASSUME queue # <<>> PROVE Head(queue) \in Ids /\ Queued(Head(queue))
      OBVIOUS
    <3>1. /\ Len(queue) \in Nat /\ Len(queue) # 0 /\ Head(queue) = queue[1]
          /\ Head(queue) \in Ids
      BY HeadTailProperties, LenProperties, EmptySeq DEF HomeInv, TypeOK
    <3> QED BY <3>1 DEF Queued
  <2> QED BY <1>0, <2>1 DEF HomeInv, OneHome
<1>2. ASSUME NEW v, NEW status, queue # <<>>, Applied(v, status)
      PROVE  OneHome' /\ ReadsAreDistinct'
  <2>0. mods' = mods \cup {[op |-> h, status |-> status]}
    BY <1>0, <1>2 DEF Applied
  <2>1. ModOps' = ModOps \cup {h}
    <3>1. ModOps' = {m.op : m \in mods'} /\ [op |-> h, status |-> status].op = h
      BY DEF ModOps
    <3> QED BY <2>0, <3>1 DEF ModOps
  <2>2. \A m, n \in mods' : m.op = n.op => m = n
    BY <1>1, <1>2, <2>0 DEF ModOps, HomeInv, OneHome
  <2>3. \A id : (Posted(id)' <=> Posted(id)) /\ answers' = answers
    BY <1>2 DEF Applied, Posted, client
  <2>4. ReadsAreDistinct'
    BY <1>2 DEF Applied, HomeInv, ReadsAreDistinct
  <2>5. Len(answers'[h]) <= 1
    BY <1>1, <1>2, <2>3, EmptySeq
  <2>6. OneHome'
    BY <1>0, <1>1, <1>2, <2>1, <2>2, <2>3, <2>5, HeadLeaves DEF Applied, client
  <2> QED BY <2>4, <2>6
<1>3. CASE ApplyAdd \/ ApplyModify \/ ApplyDelete
  BY <1>2, <1>3 DEF ApplyAdd, ApplyModify, ApplyDelete, Next1
<1>4. ASSUME queue # <<>>, queue' = Tail(queue), UNCHANGED <<client, mods>>,
             \A g \in flights' : g.kind = "read" => g \in flights
      PROVE  OneHome' /\ ReadsAreDistinct'
  <2>1. \A id : Posted(id)' => Posted(id)
    BY <1>4 DEF Posted
  <2>2. ModOps' = ModOps /\ answers' = answers /\ ops' = ops
    BY <1>4 DEF ModOps, client
  <2>3. ReadsAreDistinct'
    BY <1>4 DEF HomeInv, ReadsAreDistinct
  <2>4. Len(answers'[h]) <= 1
    BY <1>1, <1>4, <2>2, EmptySeq
  <2>5. \A m, n \in mods' : m.op = n.op => m = n
    BY <1>4 DEF HomeInv, OneHome
  <2>6. OneHome'
    BY <1>0, <1>1, <1>4, <2>1, <2>2, <2>4, <2>5, HeadLeaves
  <2> QED BY <2>3, <2>6
<1>noread. /\ \A id : Get(id).kind = "get"
           /\ \A g \in EtagAsked : g.kind = "etag"
  <2>1. \A id : Get(id).kind = Flight("get", id).kind
    BY DEF Get, Flight
  <2>2. \A id : Flight("get", id).kind = "get" /\ Flight("etag", id).kind = "etag"
    BY DEF Flight
  <2> QED BY <2>1, <2>2 DEF EtagAsked
<1>5. CASE DeleteThrows
  <2>1. CASE ~InDoWriteIcs
    <3>1. \A g \in flights' : g.kind = "read" => g \in flights
      BY <1>5, <2>1, <1>noread DEF DeleteThrows
    <3> QED BY <1>4, <1>5, <2>1, <3>1 DEF DeleteThrows, Next1, client
  <2>2. CASE InDoWriteIcs
    <3>1. /\ queue # <<>> /\ queue' = Tail(queue) /\ UNCHANGED <<ops, flights>>
          /\ mods' = {} /\ answers' = Notified("failed")
      BY <1>5, <2>2 DEF DeleteThrows, Next1, WriteGivenUp
    <3>2. "failed" \in Status
      BY DEF Status
    <3> QED BY <3>1, <3>2, Shift, UnlockHome
  <2> QED BY <2>1, <2>2
<1>6. CASE DoRefresh
  <2>1. \A g \in flights' : g.kind = "read" => g \in flights
    BY <1>6, <1>noread DEF DoRefresh
  <2> QED BY <1>4, <1>6, <2>1 DEF DoRefresh, Next1
<1>11. CASE WriteIcsThrows
  <2>1. /\ mods' = {} /\ answers' = Notified("failed") /\ UNCHANGED ops
        /\ queue' = (IF queue = <<>> THEN <<>> ELSE Tail(queue))
    BY <1>11 DEF WriteIcsThrows, WriteGivenUp
  <2>2. \A g \in flights' : g.kind = "read" => g \in flights
    BY <1>11, <1>noread DEF WriteIcsThrows
  <2>3. "failed" \in Status
    BY DEF Status
  <2>4. CASE queue # <<>>
    BY <2>1, <2>2, <2>3, <2>4, Shift, UnlockHome
  <2>5. CASE queue = <<>>
    <3>1. queue' = <<>> /\ Len(queue') = 0
      BY <2>1, <2>5, EmptySeq
    <3>2. \A id : Queued(id)' => Queued(id)
      BY <3>1 DEF Queued
    <3>3. \A j, k \in 1..Len(queue') : queue'[j] = queue'[k] => j = k
      BY <3>1
    <3> QED BY <2>1, <2>2, <2>3, <3>2, <3>3, UnlockHome
  <2> QED BY <2>4, <2>5
<1>12. CASE ForceRefresh
  BY <1>12, ForcedType, PushHome DEF ForceRefresh
<1>13. CASE UnlockFollows
  <2>1. mods' = {} /\ answers' = Notified("failed") /\ UNCHANGED <<ops, queue>>
        /\ flights' \subseteq flights /\ "failed" \in Status
    BY <1>13 DEF UnlockFollows, Unlock, Status
  <2> QED BY <2>1, UnlockKeepsQueue
<1>7. CASE ServeGetItem
  <2>1. answers' = [answers EXCEPT ![h] = Append(answers[h], "ok")] /\ queue # <<>>
    BY <1>0, <1>7 DEF ServeGetItem, Next1
  <2>2. h \in DOMAIN answers
    BY <1>1, <2>1, LenProperties DEF HomeInv, TypeOK, Ids
  <2>3. answers'[h] = <<"ok">> /\ \A id \in Ids \ {h} : answers'[id] = answers[id]
    BY <1>1, <2>1, <2>2
  <2>4. ModOps' = ModOps /\ \A id : Posted(id)' <=> Posted(id)
    BY <1>7 DEF ServeGetItem, ModOps, Posted
  <2>5. ReadsAreDistinct'
    BY <1>7 DEF ServeGetItem, HomeInv, ReadsAreDistinct
  <2>6. \A m, n \in mods' : m.op = n.op => m = n
    BY <1>7 DEF ServeGetItem, HomeInv, OneHome
  <2>7. queue' = Tail(queue) /\ ops' = ops
    BY <1>7 DEF ServeGetItem
  <2>8. Len(answers'[h]) <= 1
    BY <2>3
  <2>9. OneHome'
    BY <1>0, <1>1, <2>1, <2>3, <2>4, <2>6, <2>7, <2>8, HeadLeaves
  <2> QED BY <2>5, <2>9
<1>8. CASE ServeGetItems
  <2>1. /\ queue # <<>> /\ queue' = Tail(queue) /\ mods' = mods /\ ops' = ops
        /\ answers' = answers /\ flights' = flights \cup {Flight("read", h)}
    BY <1>0, <1>8 DEF ServeGetItems, Next1, client
  <2>2. Flight("read", h).kind = "read" /\ Flight("read", h).id = h
    BY DEF Flight
  <2>3. \A id \in Ids \ {h} : Posted(id)' => Posted(id)
    BY <2>1, <2>2 DEF Posted
  <2>4. ReadsAreDistinct'
    BY <1>1, <2>1, <2>2 DEF HomeInv, ReadsAreDistinct, Posted
  <2>5. ModOps' = ModOps /\ \A m, n \in mods' : m.op = n.op => m = n
    BY <2>1 DEF ModOps, HomeInv, OneHome
  <2>6. Len(answers'[h]) <= 1
    BY <1>1, <2>1, EmptySeq
  <2>7. OneHome'
    BY <1>0, <1>1, <2>1, <2>3, <2>5, <2>6, HeadLeaves
  <2> QED BY <2>4, <2>7
<1>9. CASE WriteIcs
  <2>1. \A g \in flights' : g.kind = "read" => g \in flights
    BY <1>9 DEF WriteIcs, Flight
  <2> QED BY <1>9, <2>1, StaysHome DEF WriteIcs, client
<1>10. CASE NothingToDo
  BY <1>10, StaysHome DEF NothingToDo, client
<1> QED
  BY <1>3, <1>5, <1>6, <1>7, <1>8, <1>9, <1>10, <1>11, <1>12, <1>13 DEF ProcessQueue

LEMMA ServeHome == HomeInv /\ Serve => OneHome' /\ ReadsAreDistinct'
<1> SUFFICES ASSUME HomeInv, NEW f \in flights, ServeGet(f) \/ ServePut(f)
             PROVE  OneHome' /\ ReadsAreDistinct'
  BY DEF Serve
<1>1. f \in FlightType /\ f.kind \in {"get", "put"}
  BY DEF HomeInv, TypeOK, ServeGet, ServePut, Ready
<1>2. \A g \in flights' : g.kind = "read" => g \in flights
  <2>1. PICK g : Becomes(f, g) /\ g.kind # "read"
    <3>1. ASSUME NEW o PROVE [f EXCEPT !.out = o].kind # "read"
      BY <1>1 DEF FlightType
    <3>2. ASSUME NEW o, NEW v PROVE [f EXCEPT !.out = o, !.ver = v].kind # "read"
      BY <1>1 DEF FlightType
    <3>3. ASSUME NEW o, NEW c, NEW v, NEW m
          PROVE  [f EXCEPT !.out = o, !.data = c, !.ver = v, !.form = m].kind # "read"
      BY <1>1 DEF FlightType
    <3>4. CASE ServeGet(f)
      <4>1. \/ \E o : Becomes(f, [f EXCEPT !.out = o])
            \/ \E o, c, v, m : Becomes(f, [f EXCEPT !.out = o, !.data = c, !.ver = v,
                                                    !.form = m])
        BY <3>4, Zenon DEF ServeGet
      <4>2. CASE \E o : Becomes(f, [f EXCEPT !.out = o])
        <5>1. PICK o : Becomes(f, [f EXCEPT !.out = o])
          BY <4>2
        <5> QED BY <3>1, <5>1
      <4>3. CASE \E o, c, v, m : Becomes(f, [f EXCEPT !.out = o, !.data = c,
                                                     !.ver = v, !.form = m])
        <5>1. PICK o, c, v, m : Becomes(f, [f EXCEPT !.out = o, !.data = c,
                                                     !.ver = v, !.form = m])
          BY <4>3
        <5>2. [f EXCEPT !.out = o, !.data = c, !.ver = v, !.form = m].kind # "read"
          BY <3>3
        <5> QED BY <5>1, <5>2, Zenon
      <4> QED BY <4>1, <4>2, <4>3
    <3>5. CASE ServePut(f)
      <4>1. \/ \E o : Becomes(f, [f EXCEPT !.out = o])
            \/ \E o, v : Becomes(f, [f EXCEPT !.out = o, !.ver = v])
        BY <3>5, Zenon DEF ServePut
      <4>2. CASE \E o : Becomes(f, [f EXCEPT !.out = o])
        <5>1. PICK o : Becomes(f, [f EXCEPT !.out = o])
          BY <4>2
        <5> QED BY <3>1, <5>1
      <4>3. CASE \E o, v : Becomes(f, [f EXCEPT !.out = o, !.ver = v])
        <5>1. PICK o, v : Becomes(f, [f EXCEPT !.out = o, !.ver = v])
          BY <4>3
        <5> QED BY <3>2, <5>1
      <4> QED BY <4>1, <4>2, <4>3
    <3> QED BY <3>4, <3>5
  <2> QED BY <2>1 DEF Becomes
<1> QED BY <1>2, StaysHome DEF ServeGet, ServePut, client

LEMMA CallbacksHome == HomeInv /\ Callbacks => OneHome' /\ ReadsAreDistinct'
<1> SUFFICES ASSUME HomeInv, NEW f \in flights, Callback(f)
             PROVE  OneHome' /\ ReadsAreDistinct'
  BY DEF Callbacks
<1>1. f \in FlightType /\ f.id \in Ids
  BY DEF HomeInv, TypeOK, FlightType
<1>2. "ok" \in Status /\ "failed" \in Status
  BY DEF Status
<1>3. CASE \/ KeepOldData(f) \/ LoadEmpty(f) \/ DecodingFails(f)
           \/ OnParsingComplete(f) \/ RefusePut(f) \/ OpeningThrows(f)
           \/ PutSucceeded(f) \/ EtagReply(f)
  <2>1. PICK err \in Status : /\ Done(f) /\ mods' = {} /\ answers' = Notified(err)
                              /\ UNCHANGED <<ops, queue>>
    BY <1>2, <1>3 DEF KeepOldData, LoadEmpty, DecodingFails, OnParsingComplete,
       RefusePut, OpeningThrows, PutSucceeded, EtagReply, Unlock, WriteGivenUp
  <2>2. flights' \subseteq flights
    BY <2>1 DEF Done
  <2> QED BY <2>1, <2>2, UnlockKeepsQueue
<1>4. ASSUME NEW g, Becomes(f, g), g.kind # "read",
             UNCHANGED <<ops, answers, queue, mods>>
      PROVE  OneHome' /\ ReadsAreDistinct'
  BY <1>4, StaysHome DEF Becomes
<1>5. CASE StartParsing(f)
  <2>1. [f EXCEPT !.kind = "parse", !.shown = View].kind = "parse"
    BY <1>1 DEF FlightType
  <2> QED BY <1>4, <1>5, <2>1 DEF StartParsing, client
<1>6. CASE BackupDone(f)
  <2>1. [f EXCEPT !.kind = "collect"].kind = "collect"
    BY <1>1 DEF FlightType
  <2> QED BY <1>4, <1>6, <2>1 DEF BackupDone, client
<1>7. CASE StartPut(f)
  <2>1. PICK g : Becomes(f, g) /\ g.kind = "put"
    <3>1. ASSUME NEW d, NEW c, NEW e
          PROVE  [f EXCEPT !.kind = "put", !.data = d, !.carries = c, !.cond = e].kind
                    = "put"
      BY <1>1 DEF FlightType
    <3>2. \E d, c, e : Becomes(f, [f EXCEPT !.kind = "put", !.data = d, !.carries = c,
                                            !.cond = e])
      BY <1>7, Zenon DEF StartPut
    <3> QED BY <3>1, <3>2
  <2> QED BY <1>4, <1>7, <2>1 DEF StartPut, client
<1>8. CASE AskForEtag(f)
  <2>1. Flight("etag", f.id).kind = "etag"
    BY DEF Flight
  <2> QED BY <1>4, <1>8, <2>1 DEF AskForEtag, client
<1>9. CASE EtagReplyThrows(f)
  BY <1>9, StaysHome DEF EtagReplyThrows, Done, client
<1>10. CASE PutFailed(f)
  <2>1. flights' \subseteq flights
    BY <1>10 DEF PutFailed, Done
  <2>2. PICK told : /\ told = answers \/ (told = Notified("failed") /\ mods' = {})
                    /\ answers' = Append(told, <<>>)
    BY <1>10 DEF PutFailed, ForceRefreshAndUnlock
  <2>3. mods' \subseteq mods
    BY <1>10 DEF PutFailed, ForceRefreshAndUnlock
  <2>4. told \in Seq(Seq(Status)) /\ Len(told) = Len(ops)
    BY <1>2, <2>2, NotifiedType DEF HomeInv, TypeOK
  <2>5. CASE told = answers
    <3>1. \A id \in Ids : Len(told[id]) <= 1 /\ told[id] = answers[id]
      BY <2>5 DEF HomeInv, OneHome
    <3> QED
      BY <1>10, <2>1, <2>2, <2>3, <2>4, <3>1, ForcedType, OneMoreHome
      DEF PutFailed, ForceRefreshAndUnlock
  <2>6. CASE told = Notified("failed") /\ mods' = {}
    <3>1. ModOps' = {}
      BY <2>6 DEF ModOps
    <3>2. \A id \in Ids : /\ Len(told[id]) <= 1
                          /\ \/ told[id] = answers[id]
                             \/ id \in ModOps /\ id \notin ModOps'
      BY <1>2, <2>6, <3>1, NotifiedOnce
    <3> QED
      BY <1>10, <2>1, <2>2, <2>3, <2>4, <3>2, ForcedType, OneMoreHome
      DEF PutFailed, ForceRefreshAndUnlock
  <2> QED BY <2>2, <2>5, <2>6
<1>11. CASE GetItemsPosted(f)
  <2>1. PICK id : id = f.id
    OBVIOUS
  <2>2. /\ answers' = [answers EXCEPT ![id] = Append(answers[id], "ok")]
        /\ flights' = flights \ {f} /\ f.kind = "read"
        /\ UNCHANGED <<ops, queue, mods>>
    BY <1>11, <2>1 DEF GetItemsPosted, Done, Ready
  <2>3. Posted(id) /\ id \in Ids /\ id \in DOMAIN answers
    BY <1>1, <2>1, <2>2, LenProperties DEF Posted, HomeInv, TypeOK, Ids
  <2>4. ~Queued(id) /\ id \notin ModOps /\ answers[id] = <<>>
    BY <2>3 DEF HomeInv, OneHome
  <2>5. answers'[id] = <<"ok">> /\ \A k \in Ids \ {id} : answers'[k] = answers[k]
    BY <2>2, <2>3, <2>4
  <2>6. /\ ~Posted(id)' /\ \A k : Posted(k)' => Posted(k)
    BY <2>1, <2>2 DEF Posted, HomeInv, ReadsAreDistinct
  <2>7. Ids' = Ids /\ ModOps' = ModOps /\ \A k : Queued(k)' <=> Queued(k)
    BY <2>2 DEF Ids, ModOps, Queued
  <2>8. ReadsAreDistinct'
    BY <2>2 DEF HomeInv, ReadsAreDistinct
  <2>9. \A k \in Ids :
          /\ Len(answers'[k]) <= 1
          /\ Queued(k)' => k \notin ModOps' /\ ~Posted(k)' /\ answers'[k] = <<>>
          /\ k \in ModOps' => ~Posted(k)' /\ answers'[k] = <<>>
          /\ Posted(k)' => answers'[k] = <<>>
    <3>1. Len(answers'[id]) <= 1
      BY <2>5
    <3> QED BY <2>4, <2>5, <2>6, <2>7, <3>1 DEF HomeInv, OneHome
  <2> QED BY <2>2, <2>7, <2>8, <2>9 DEF HomeInv, OneHome
<1> QED
  BY <1>3, <1>5, <1>6, <1>7, <1>8, <1>9, <1>10, <1>11 DEF Callback

LEMMA HomeInit == Init => HomeInv
<1> SUFFICES ASSUME Init PROVE HomeInv
  OBVIOUS
<1>1. /\ Len(ops) = 0 /\ Len(queue) = 0 /\ mods = {} /\ flights = {}
  BY EmptySeq DEF Init
<1> QED BY <1>1, TypeInit DEF HomeInv, OneHome, ReadsAreDistinct, Ids

LEMMA HomeNext == HomeInv /\ [Next]_vars => HomeInv'
<1> SUFFICES ASSUME HomeInv, [Next]_vars PROVE OneHome' /\ ReadsAreDistinct'
  BY TypeNext DEF HomeInv
<1>1. CASE \/ \E i \in Items : ForeignWrite(i)
           \/ ClearReadOnly \/ EnableCalendar \/ UNCHANGED vars
  BY <1>1, StaysHome DEF ForeignWrite, ClearReadOnly, EnableCalendar, vars, client
<1> QED
  BY <1>1, RequestsHome, ProcessQueueHome, ServeHome, CallbacksHome DEF Next

\* A request's listener is told at most one outcome, and while the request
\* waits it waits in one place and has been told nothing.
THEOREM AtMostOneAnswer == Spec => []OneHome
<1>1. HomeInv => OneHome
  BY DEF HomeInv
<1> QED BY HomeInit, HomeNext, <1>1, PTL DEF Spec

-----------------------------------------------------------------------------
(* The lock: it is held by one chain of callbacks at a time, edits that are *)
(* not written yet are being written, and no request is forgotten.  Each    *)
(* theorem names the least it needs of the scenario; TLC shows what happens *)
(* without.                                                                  *)

\* The lock is lost when an exception leaves processQueue inside a try block that takes
\* it for something else: in onAfterPut, for a missing ETag header, and the ETag is asked
\* for without the lock; in doWriteICS, for a failure of the upload, and the lock is
\* given back once more.  Inside onAfterPut a delete of an item that is gone throws, and
\* so does a backup that fails; inside doWriteICS only the backup does harm.  And when
\* the answer that has the ETag cannot be read, nobody unlocks.
LockIsKept ==
    /\ "file" \in Transports => "disk" \notin WriteFaults
    /\ "http" \in Transports =>
          IF PutEtag THEN "delete" \notin Kinds /\ "disk" \notin WriteFaults
                     ELSE "garbled" \notin WriteFaults

\* What a scenario fixes: the place of the file and the kinds of requests.
Scenario ==
    /\ remote.at \in Transports
    /\ \A id \in Ids : ops[id].kind \in Kinds \cup {"refresh"}

\* processQueue runs inside onAfterPut's try block only when the PUT's answer had an
\* ETag, and an ETag is only asked for when it had none.  A PUT that fails has the lock.
EtagInv ==
    /\ drain.put # 0 => ~Http \/ PutEtag
    /\ drain.then # "unlock"
    /\ \A f \in flights : f.kind = "etag" => Http /\ ~PutEtag

LockInv == TypeOK /\ Scenario /\ EtagInv /\ LockIsOneFlight

-----------------------------------------------------------------------------
(* What a callback may be: the end of a chain, a link of it, or a posted    *)
(* read.                                                                    *)

\* The chain ends with unlock, and the queue is processed.
Ends(f) ==
    /\ f.kind \in Locking /\ Done(f)
    /\ mods' = {} /\ locked' = FALSE /\ drain'.on /\ drain'.last = 0
    /\ drain'.put # 0 => ~Http \/ PutEtag
    /\ drain'.then # "unlock"

\* The chain goes on; a write is never taken for a read.
Continues(f) ==
    /\ UNCHANGED <<client, queue, mods, locked, drain>>
    /\ f.kind \in Locking
    /\ \E g : /\ Becomes(f, g)
              /\ IF f.kind \in Reading THEN g.kind \in Reading ELSE g.kind \in Writing
              /\ g.kind = "etag" => Http /\ ~PutEtag

LEMMA CallbackShape ==
    ASSUME TypeOK, NEW f \in flights, Callback(f)
    PROVE  /\ AtRest
           /\ \/ Ends(f) \/ Continues(f)
              \/ EtagReplyThrows(f) \/ GetItemsPosted(f)
              \/ PutFailed(f) /\ ~locked
<1>1. f \in FlightType
  BY DEF TypeOK
<1>2. AtRest
  BY DEF Callback, KeepOldData, LoadEmpty, DecodingFails, StartParsing, OnParsingComplete,
         BackupDone, StartPut, RefusePut, OpeningThrows, PutFailed,
         PutSucceeded, AskForEtag, EtagReply, EtagReplyThrows, GetItemsPosted, Ready
<1>3. CASE \/ KeepOldData(f) \/ LoadEmpty(f) \/ DecodingFails(f) \/ OnParsingComplete(f)
           \/ EtagReply(f)
  <2>1. PICK err : Unlock(err, 0) /\ Done(f)
    BY <1>3 DEF KeepOldData, LoadEmpty, DecodingFails, OnParsingComplete, EtagReply
  <2>2. f.kind \in Locking
    BY <1>3 DEF KeepOldData, LoadEmpty, DecodingFails, OnParsingComplete,
       EtagReply, Ready, Locking, Reading, Writing
  <2> QED BY <1>2, <2>1, <2>2 DEF Unlock, Drain, Ends
<1>4. CASE PutSucceeded(f)
  <2>1. /\ Unlock("ok", IF Http THEN f.id ELSE 0) /\ Done(f) /\ f.kind = "put"
        /\ ~Http \/ PutEtag
    BY <1>4 DEF PutSucceeded, Ready
  <2> QED BY <1>2, <2>1 DEF Unlock, Drain, Ends, Locking, Writing
<1>10. CASE RefusePut(f)
  <2>1. Unlock("failed", f.id) /\ Done(f) /\ f.kind = "collect" /\ ~Http
    BY <1>10 DEF RefusePut, Ready, ChangedRemotely
  <2> QED BY <1>2, <2>1 DEF Unlock, Drain, Ends, Locking, Writing
<1>5. CASE OpeningThrows(f)
  <2>1. WriteGivenUp /\ Done(f) /\ f.kind = "collect"
    BY <1>5 DEF OpeningThrows, Ready
  <2> QED BY <1>2, <2>1 DEF WriteGivenUp, DrainThen, Drain, Ends, Locking, Writing
<1>11. CASE PutFailed(f) /\ locked
  <2>1. ForceRefreshAndUnlock("failed") /\ Done(f) /\ f.kind = "put"
    BY <1>11 DEF PutFailed, Ready
  <2> QED BY <1>2, <2>1 DEF ForceRefreshAndUnlock, Drain, Ends, Locking, Writing
<1>6. CASE StartParsing(f)
  <2>1. PICK v : /\ Becomes(f, [f EXCEPT !.kind = "parse", !.shown = v]) /\ f.kind = "get"
                 /\ UNCHANGED <<client, queue, mods, locked, drain>>
    BY <1>6 DEF StartParsing, Ready
  <2>2. [f EXCEPT !.kind = "parse", !.shown = v].kind = "parse"
    BY <1>1 DEF FlightType
  <2> QED BY <1>2, <2>1, <2>2 DEF Continues, Locking, Reading
<1>7. CASE BackupDone(f)
  <2>1. /\ Becomes(f, [f EXCEPT !.kind = "collect"]) /\ f.kind = "backup"
        /\ UNCHANGED <<client, queue, mods, locked, drain>>
    BY <1>7 DEF BackupDone, Ready
  <2>2. [f EXCEPT !.kind = "collect"].kind = "collect"
    BY <1>1 DEF FlightType
  <2> QED BY <1>2, <2>1, <2>2 DEF Continues, Locking, Reading, Writing
<1>8. CASE StartPut(f)
  <2>1. PICK d, c, e : Becomes(f, [f EXCEPT !.kind = "put", !.data = d, !.carries = c,
                                            !.cond = e])
    BY <1>8, Zenon DEF StartPut
  <2>2. [f EXCEPT !.kind = "put", !.data = d, !.carries = c, !.cond = e].kind = "put"
    BY <1>1 DEF FlightType
  <2>3. UNCHANGED <<client, queue, mods, locked, drain>> /\ f.kind = "collect"
    BY <1>8 DEF StartPut, Ready
  <2>4. "put" \in Writing /\ "collect" \in Writing /\ "collect" \notin Reading
        /\ "collect" \in Locking
    BY DEF Writing, Reading, Locking
  <2>5. PICK g : Becomes(f, g) /\ g.kind = "put"
    BY <2>1, <2>2
  <2> QED BY <1>2, <2>3, <2>4, <2>5 DEF Continues
<1>9. CASE AskForEtag(f)
  <2>1. /\ Becomes(f, Flight("etag", f.id)) /\ f.kind = "put" /\ Http /\ ~PutEtag
        /\ UNCHANGED <<client, queue, mods, locked, drain>>
    BY <1>9 DEF AskForEtag, Ready
  <2>2. Flight("etag", f.id).kind = "etag"
    BY DEF Flight
  <2> QED BY <1>2, <2>1, <2>2 DEF Continues, Locking, Reading, Writing
<1> QED BY <1>2, <1>3, <1>4, <1>5, <1>6, <1>7, <1>8, <1>9, <1>10, <1>11 DEF Callback

\* The remote side answers a GET: the flight stays what it is, and one that is answered
\* with the file has its items, its version and its form.
LEMMA ServeGetShape ==
    ASSUME TypeOK, NEW f \in flights, ServeGet(f)
    PROVE  /\ UNCHANGED <<client, queue, mods, locked, drain, mem, stamp, remote, stored>>
           /\ f.kind = "get" /\ AtRest
           /\ \E g : /\ Becomes(f, g) /\ g.kind = "get" /\ g.id = f.id
                     /\ g.carries = f.carries /\ g.shown = f.shown /\ g.cond = f.cond
                     /\ \/ g.ver = f.ver /\ g.data = f.data /\ g.form = f.form
                        \/ g.ver = remote.ver /\ g.data = remote.content /\ g.form = remote.form
                     /\ g.out = "ok" => /\ g.ver = remote.ver /\ g.data = remote.content
                                        /\ g.form = remote.form /\ remote.ver # 0
<1>1. f \in FlightType /\ f.kind = "get" /\ AtRest
  BY DEF TypeOK, ServeGet, Ready
<1>2. UNCHANGED <<client, queue, mods, locked, drain, mem, stamp, remote, stored>>
  BY DEF ServeGet
<1>3. CASE \E o \in {"304", "404", "throw", "fail", "error"} : Becomes(f, [f EXCEPT !.out = o])
  <2>1. PICK o \in {"304", "404", "throw", "fail", "error"} : Becomes(f, [f EXCEPT !.out = o])
    BY <1>3
  <2>2. PICK g : g = [f EXCEPT !.out = o]
    OBVIOUS
  <2>3. /\ g.kind = "get" /\ g.id = f.id /\ g.carries = f.carries /\ g.shown = f.shown
        /\ g.cond = f.cond /\ g.ver = f.ver /\ g.data = f.data /\ g.form = f.form /\ g.out # "ok"
    BY <1>1, <2>2 DEF FlightType
  <2>4. Becomes(f, g)
    BY <2>1, <2>2
  <2> QED BY <1>1, <1>2, <2>3, <2>4
<1>4. CASE /\ Becomes(f, [f EXCEPT !.out = "ok", !.data = remote.content,
                                   !.ver = remote.ver, !.form = remote.form])
           /\ remote.ver # 0
  <2>1. PICK g : g = [f EXCEPT !.out = "ok", !.data = remote.content,
                               !.ver = remote.ver, !.form = remote.form]
    OBVIOUS
  <2>2. /\ g.kind = "get" /\ g.id = f.id /\ g.carries = f.carries /\ g.shown = f.shown
        /\ g.cond = f.cond /\ g.ver = remote.ver /\ g.data = remote.content /\ g.form = remote.form
    BY <1>1, <2>1 DEF FlightType
  <2> QED BY <1>1, <1>2, <1>4, <2>1, <2>2
<1> QED
  <2>1. GetFaults \subseteq {"fail", "error"}
    BY ConstantsAssumption DEF ConstantsAssumption
  <2>2. \/ \E o \in {"304", "404", "throw", "fail", "error"} : Becomes(f, [f EXCEPT !.out = o])
        \/ /\ Becomes(f, [f EXCEPT !.out = "ok", !.data = remote.content,
                                   !.ver = remote.ver, !.form = remote.form])
           /\ remote.ver # 0
    <3>1. CASE Becomes(f, [f EXCEPT !.out = IF Http THEN "404" ELSE "throw"])
      BY <3>1
    <3>2. CASE \E o \in GetFaults : Becomes(f, [f EXCEPT !.out = o])
      BY <2>1, <3>2
    <3> QED BY <3>1, <3>2, Zenon DEF ServeGet
  <2> QED BY <1>3, <1>4, <2>2

\* It answers a PUT: either the file is what the PUT sent, which needs an If header to
\* name its version, or nothing has happened and the answer is an error.
LEMMA ServePutShape ==
    ASSUME TypeOK, NEW f \in flights, ServePut(f)
    PROVE  /\ UNCHANGED <<client, queue, mods, locked, drain, mem, stamp>>
           /\ f.kind = "put" /\ f.out = "wait" /\ AtRest
           /\ \E g : /\ Becomes(f, g) /\ g.kind = "put" /\ g.id = f.id
                     /\ g.carries = f.carries /\ g.shown = f.shown
                     /\ g.cond = f.cond /\ g.data = f.data /\ g.form = f.form
                     /\ \/ /\ g.out = "error" /\ g.ver = f.ver /\ UNCHANGED <<remote, stored>>
                        \/ /\ f.cond \in {0, remote.ver} /\ Commit(f)
                           /\ \/ g.out = "error" /\ g.ver = f.ver
                              \/ g.out = "ok" /\ g.ver = remote.ver + 1
<1>1. f \in FlightType /\ f.kind = "put" /\ f.out = "wait" /\ AtRest
  BY DEF TypeOK, ServePut, Ready
<1>2. UNCHANGED <<client, queue, mods, locked, drain, mem, stamp>>
  BY DEF ServePut
<1>3. CASE /\ Becomes(f, [f EXCEPT !.out = "error"])
           /\ \/ UNCHANGED <<remote, stored>>
              \/ f.cond \in {0, remote.ver} /\ Commit(f)
  <2>1. PICK g : g = [f EXCEPT !.out = "error"]
    OBVIOUS
  <2>2. /\ g.kind = "put" /\ g.id = f.id /\ g.carries = f.carries /\ g.shown = f.shown
        /\ g.cond = f.cond /\ g.data = f.data /\ g.form = f.form
        /\ g.out = "error" /\ g.ver = f.ver
    BY <1>1, <2>1 DEF FlightType
  <2> QED BY <1>1, <1>2, <1>3, <2>1, <2>2
<1>4. CASE /\ Becomes(f, [f EXCEPT !.out = "ok", !.ver = remote.ver + 1])
           /\ f.cond \in {0, remote.ver} /\ Commit(f)
  <2>1. PICK g : g = [f EXCEPT !.out = "ok", !.ver = remote.ver + 1]
    OBVIOUS
  <2>2. /\ g.kind = "put" /\ g.id = f.id /\ g.carries = f.carries /\ g.shown = f.shown
        /\ g.cond = f.cond /\ g.data = f.data /\ g.form = f.form
        /\ g.out = "ok" /\ g.ver = remote.ver + 1
    BY <1>1, <2>1 DEF FlightType
  <2> QED BY <1>1, <1>2, <1>4, <2>1, <2>2
<1> QED BY <1>3, <1>4, Zenon DEF ServePut

\* The remote side answers, in short.
LEMMA ServeShape ==
    ASSUME TypeOK, NEW f \in flights, ServeGet(f) \/ ServePut(f)
    PROVE  /\ UNCHANGED <<client, queue, mods, locked, drain, mem, stamp>>
           /\ remote'.at = remote.at /\ AtRest
           /\ f.kind \in {"get", "put"}
           /\ \E g : Becomes(f, g) /\ g.kind = f.kind
<1>1. CASE ServeGet(f)
  BY <1>1, ServeGetShape
<1>2. CASE ServePut(f)
  <2>1. remote \in FileType
    BY DEF TypeOK
  <2>2. Commit(f) => remote'.at = remote.at
    BY <2>1 DEF Commit, FileType
  <2> QED BY <1>2, <2>2, ServePutShape
<1> QED BY <1>1, <1>2

-----------------------------------------------------------------------------
(* The lock.                                                                *)

\* A step of the loop of processQueue takes the lock and ends the loop, or leaves the
\* lock and whoever holds it alone; an exception leaves the loop, or its caller goes on
\* once it has ended.
Takes(k) ==
    /\ locked' = TRUE /\ drain' = Ended
    /\ \E g : g.kind = k /\ flights' = flights \cup {g}

LeavesLock ==
    /\ locked' = locked /\ drain'.put \in {0, drain.put} /\ drain'.then = drain.then
    /\ flights \subseteq flights'
    /\ \A g \in flights' : g \in flights \/ g.kind = "read"

LEMMA EndedShape ==
    ASSUME TypeOK
    PROVE  ~Ended.on /\ Ended.put = 0 /\ Ended.last = 0 /\ Ended.then = drain.then
BY DEF Ended, Idle, TypeOK, DrainType

LEMMA GetKind == \A id : Get(id).kind = "get"
BY DEF Get, Flight

LEMMA LoopShape ==
    ASSUME TypeOK, ProcessQueue
    PROVE  /\ remote' = remote /\ stored' = stored
           /\ \/ ops' = ops /\ (drain.on \/ UnlockFollows)
              \/ ForceRefresh
           /\ \/ DoRefresh /\ Takes("get")
              \/ WriteIcs /\ Takes("backup")
              \/ DeleteThrows \/ WriteIcsThrows \/ ForceRefresh \/ UnlockFollows
              \/ ~WriteIcs /\ ~DoRefresh /\ LeavesLock
<1>1. /\ remote' = remote /\ stored' = stored
      /\ (ops' = ops /\ (drain.on \/ UnlockFollows)) \/ ForceRefresh
  <2>1. CASE ApplyAdd \/ ApplyModify \/ ApplyDelete
    BY <2>1 DEF ApplyAdd, ApplyModify, ApplyDelete, Applied, Next1, client
  <2>2. CASE DeleteThrows \/ WriteIcsThrows
    BY <2>2 DEF DeleteThrows, WriteIcsThrows, Next1
  <2>3. CASE ServeGetItem \/ ServeGetItems \/ WriteIcs \/ DoRefresh \/ NothingToDo
    BY <2>3 DEF ServeGetItem, ServeGetItems, WriteIcs, DoRefresh, NothingToDo, Next1, client
  <2>4. CASE ForceRefresh \/ UnlockFollows
    BY <2>4 DEF ForceRefresh, UnlockFollows, Push
  <2> QED BY <2>1, <2>2, <2>3, <2>4 DEF ProcessQueue
<1>2. CASE DoRefresh
  BY <1>1, <1>2, GetKind DEF DoRefresh, Takes
<1>3. CASE WriteIcs
  BY <1>1, <1>3 DEF WriteIcs, Takes, Flight
<1>4. CASE ServeGetItems /\ ~WriteIcs /\ ~DoRefresh
  <2>1. /\ locked' = locked /\ drain' = drain
        /\ flights' = flights \cup {Flight("read", Head(queue))}
    BY <1>4 DEF ServeGetItems
  <2>2. Flight("read", Head(queue)).kind = "read"
    BY DEF Flight
  <2>3. LeavesLock
    BY <2>1, <2>2 DEF LeavesLock
  <2> QED BY <1>1, <1>4, <2>3
<1>5. CASE /\ ApplyAdd \/ ApplyModify \/ ApplyDelete \/ ServeGetItem \/ NothingToDo
           /\ ~WriteIcs /\ ~DoRefresh
  <2>1. /\ locked' = locked /\ flights' = flights /\ drain'.put \in {0, drain.put}
        /\ drain'.then = drain.then
    <3>1. CASE ServeGetItem \/ NothingToDo
      BY <3>1, EndedShape DEF ServeGetItem, NothingToDo
    <3>2. ASSUME NEW v, NEW status, Applied(v, status)
          PROVE  /\ locked' = locked /\ flights' = flights /\ drain'.put \in {0, drain.put}
                 /\ drain'.then = drain.then
      BY <3>2 DEF Applied, TypeOK, DrainType
    <3> QED BY <1>5, <3>1, <3>2 DEF ApplyAdd, ApplyModify, ApplyDelete
  <2> QED BY <1>1, <1>5, <2>1 DEF LeavesLock
<1> QED BY <1>1, <1>2, <1>3, <1>4, <1>5 DEF ProcessQueue

\* A client makes a request of a kind that clients make.
LEMMA RequestsShape ==
    ASSUME TypeOK, Requests
    PROVE  \E r \in RequestType : Enqueue(r) /\ r.kind \in Kinds /\ r.force = FALSE
<1>1. PICK k, i, v : Enqueue(Request(k, i, v, FALSE)) /\ k \in Kinds
  <2>1. CASE \E i \in Items : AdoptItem(i)
    BY <2>1 DEF AdoptItem, Edit
  <2>2. CASE \E i \in Items : ModifyItem(i)
    BY <2>2 DEF ModifyItem, Edit
  <2>3. CASE \E i \in Items : DeleteItem(i)
    BY <2>3 DEF DeleteItem, Edit
  <2>4. CASE \E i \in Items : GetItem(i)
    BY <2>4 DEF GetItem
  <2>5. CASE GetItems \/ Refresh
    BY <2>5 DEF GetItems, Refresh
  <2> QED BY <2>1, <2>2, <2>3, <2>4, <2>5 DEF Requests
<1>2. PICK r : r = Request(k, i, v, FALSE)
  OBVIOUS
<1>3. Enqueue(r) /\ r.kind \in Kinds /\ r.force = FALSE
  BY <1>1, <1>2 DEF Request
<1>4. r \in RequestType
  <2>1. TypeOK' /\ RequestType' = RequestType
    BY RequestsType DEF RequestType, Version, OpKinds, EditKinds
  <2>2. ops' = Append(ops, r) /\ Append(ops, r) \in Seq(RequestType)
    BY <1>3, <2>1 DEF Enqueue, Push, TypeOK
  <2>3. Len(ops) \in Nat /\ Len(Append(ops, r)) = Len(ops) + 1
        /\ Append(ops, r)[Len(ops) + 1] = r
    BY AppendProperties, LenProperties DEF TypeOK
  <2> QED BY <2>2, <2>3, ElementOfSeq
<1> QED BY <1>3, <1>4

LEMMA ScenarioNext == TypeOK /\ Scenario /\ [Next]_vars => Scenario'
<1> SUFFICES ASSUME TypeOK, Scenario, [Next]_vars PROVE Scenario'
  OBVIOUS
<1>1. remote'.at = remote.at
  <2>1. ASSUME NEW i \in Items, ForeignWrite(i) PROVE remote'.at = remote.at
    BY <2>1 DEF ForeignWrite, TypeOK, FileType
  <2>2. CASE Callbacks
    BY <2>2 DEF Callbacks, Callback, KeepOldData, LoadEmpty, DecodingFails, StartParsing,
       OnParsingComplete, BackupDone, StartPut, RefusePut, OpeningThrows,
       PutFailed, PutSucceeded, AskForEtag, EtagReply, EtagReplyThrows, GetItemsPosted
  <2>3. CASE Requests
    BY <2>3 DEF Requests, AdoptItem, ModifyItem, DeleteItem, GetItem, GetItems, Refresh,
       Enqueue, Push
  <2>4. CASE ClearReadOnly \/ EnableCalendar \/ UNCHANGED vars
    BY <2>4 DEF ClearReadOnly, EnableCalendar, vars
  <2> QED BY <2>1, <2>2, <2>3, <2>4, ServeShape, LoopShape DEF Next, Serve
<1>2. ASSUME NEW r \in RequestType, ops' = Append(ops, r), r.kind \in Kinds \cup {"refresh"}
      PROVE  \A id \in Ids' : ops'[id].kind \in Kinds \cup {"refresh"}
  <2>1. /\ Ids' = 1..(Len(ops) + 1) /\ Len(ops) \in Nat
        /\ \A id \in Ids : ops'[id] = ops[id]
        /\ ops'[Len(ops) + 1] = r
    BY <1>2, OneMoreRequest, AppendProperties DEF TypeOK, Ids
  <2> QED BY <1>2, <2>1 DEF Scenario, Ids
<1>3. CASE ops' = ops
  BY <1>1, <1>3 DEF Scenario, Ids
<1>4. CASE Requests
  <2>1. PICK r \in RequestType : Enqueue(r) /\ r.kind \in Kinds
    BY <1>4, RequestsShape
  <2>2. ops' = Append(ops, r)
    BY <2>1 DEF Enqueue, Push
  <2> QED BY <1>1, <1>2, <2>1, <2>2 DEF Scenario
<1>5. ASSUME ops' = Append(ops, Forced) PROVE Scenario'
  <2>1. Forced.kind = "refresh"
    BY DEF Forced, Request
  <2> QED BY <1>1, <1>2, <1>5, <2>1, ForcedType DEF Scenario
<1>6. ASSUME NEW f \in flights, Callback(f)
      PROVE  ops' = ops \/ ops' = Append(ops, Forced)
  BY <1>6 DEF Callback, KeepOldData, LoadEmpty, DecodingFails, StartParsing, client,
     OnParsingComplete, BackupDone, StartPut, RefusePut, OpeningThrows, PutFailed,
     ForceRefreshAndUnlock, PutSucceeded, AskForEtag, EtagReply, EtagReplyThrows,
     GetItemsPosted
<1>7. CASE Callbacks
  BY <1>3, <1>5, <1>6, <1>7 DEF Callbacks
<1>10. CASE ProcessQueue
  <2>1. ForceRefresh => ops' = Append(ops, Forced)
    BY DEF ForceRefresh, Push
  <2> QED BY <1>3, <1>5, <1>10, <2>1, LoopShape
<1>8. CASE Serve
  BY <1>3, <1>8, ServeShape DEF Serve, client
<1>9. CASE \/ \E i \in Items : ForeignWrite(i)
           \/ ClearReadOnly \/ EnableCalendar \/ UNCHANGED vars
  BY <1>3, <1>9 DEF ForeignWrite, ClearReadOnly, EnableCalendar, vars, client
<1> QED BY <1>4, <1>7, <1>8, <1>9, <1>10 DEF Next

\* One flight at a time: the lock is taken, passed on, released, or left alone.
LEMMA LockTaken ==
    ASSUME LockIsOneFlight, ~locked, NEW g, g.kind \in Locking,
           flights' = flights \cup {g}, locked' = TRUE, ~drain'.on
    PROVE  LockIsOneFlight'
BY DEF LockIsOneFlight

LEMMA LockPassed ==
    ASSUME LockIsOneFlight, NEW f \in flights, NEW g, f.kind \in Locking,
           g.kind \in Locking, Becomes(f, g), UNCHANGED <<locked, drain>>
    PROVE  LockIsOneFlight'
BY DEF LockIsOneFlight, Becomes

LEMMA LockReleased ==
    ASSUME LockIsOneFlight, NEW f \in flights, f.kind \in Locking, Done(f), locked' = FALSE
    PROVE  LockIsOneFlight'
BY DEF LockIsOneFlight, Done

LEMMA LockLeft ==
    ASSUME LockIsOneFlight, locked' = locked, drain'.on => ~locked,
           \A g : g.kind \in Locking => (g \in flights' <=> g \in flights)
    PROVE  LockIsOneFlight'
<1>1. {f \in flights' : f.kind \in Locking} = {f \in flights : f.kind \in Locking}
  OBVIOUS
<1> QED BY <1>1 DEF LockIsOneFlight

LEMMA PushLock ==
    ASSUME LockInv, NEW r, Push(r)
    PROVE  LockIsOneFlight' /\ EtagInv'
<1>1. /\ flights' = flights /\ locked' = locked /\ remote' = remote
      /\ drain'.put = 0 /\ drain'.then = "nothing"
      /\ drain'.on => ~locked
  BY DEF Push, Idle, Drain
<1>2. LockIsOneFlight'
  BY <1>1, LockLeft DEF LockInv
<1>3. EtagInv'
  BY <1>1 DEF LockInv, EtagInv, Http
<1> QED BY <1>2, <1>3

\* Where the lock is kept, an exception leaves it and its holder as they are, and
\* nobody goes on to unlock.
LEMMA ExceptionLock ==
    ASSUME LockIsKept, LockInv, DeleteThrows \/ WriteIcsThrows
    PROVE  LockIsOneFlight' /\ EtagInv'
<1>1. drain.on /\ ~locked /\ remote' = remote
  BY DEF DeleteThrows, WriteIcsThrows, Next1, LockInv, LockIsOneFlight
<1>2. DrainThen("forceRefresh").put = 0 /\ DrainThen("forceRefresh").then = "forceRefresh"
  BY DEF DrainThen, Drain
<1>3. Http /\ drain.put # 0 => PutEtag /\ "delete" \notin Kinds /\ "disk" \notin WriteFaults
  <2>1. SUFFICES ASSUME Http, drain.put # 0
                 PROVE  PutEtag /\ "delete" \notin Kinds /\ "disk" \notin WriteFaults
    OBVIOUS
  <2>2. PutEtag /\ "http" \in Transports
    BY <2>1 DEF LockInv, Scenario, EtagInv, Http
  <2> QED BY <2>2, Zenon DEF LockIsKept
<1>4. ~Http => "disk" \notin WriteFaults
  <2>1. remote.at \in {"http", "file"} /\ remote.at \in Transports
    BY DEF LockInv, TypeOK, FileType, Scenario
  <2> QED BY <2>1 DEF LockIsKept, Http
<1>5. CASE DeleteThrows
  <2>1. "delete" \in Kinds
    <3>1. Head(queue) \in Ids /\ ops[Head(queue)].kind = "delete"
      BY <1>5, HeadTailProperties DEF DeleteThrows, Next1, LockInv, TypeOK
    <3> QED BY <3>1 DEF LockInv, Scenario
  <2>2. EtagAsked = {}
    BY <1>3, <2>1 DEF EtagAsked
  <2>3. /\ flights' = flights /\ locked' = FALSE
        /\ drain' = Idle \/ drain' = DrainThen("forceRefresh")
    BY <1>1, <1>5, <2>2 DEF DeleteThrows, WriteGivenUp, LockInv, TypeOK
  <2>4. LockIsOneFlight'
    BY <1>1, <2>3, LockLeft DEF LockInv, TypeOK
  <2>5. EtagInv'
    BY <1>1, <1>2, <2>3 DEF Idle, LockInv, EtagInv, Http
  <2> QED BY <2>4, <2>5
<1>6. CASE WriteIcsThrows
  <2>1. drain.put = 0 /\ Http
    BY <1>3, <1>4, <1>6 DEF WriteIcsThrows
  <2>2. EtagAsked = {} /\ ~InDoWriteIcs
    BY <2>1 DEF EtagAsked, InDoWriteIcs
  <2>3. /\ drain' = Idle /\ locked' = (queue # <<>>)
        /\ flights' = IF queue = <<>> THEN flights ELSE flights \cup {Get(Head(queue))}
    BY <1>6, <2>2 DEF WriteIcsThrows
  <2>4. EtagInv'
    BY <1>1, <2>3, GetKind DEF Idle, LockInv, EtagInv, Http
  <2>5. CASE queue = <<>>
    <3>1. flights' = flights /\ locked' = FALSE
      BY <2>3, <2>5
    <3> QED BY <1>1, <2>3, <2>4, <3>1, LockLeft DEF Idle, LockInv, TypeOK
  <2>6. CASE queue # <<>>
    <3>1. flights' = flights \cup {Get(Head(queue))} /\ locked' = TRUE /\ ~drain'.on
      BY <2>3, <2>6 DEF Idle
    <3>2. Get(Head(queue)).kind \in Locking
      BY GetKind DEF Locking, Reading
    <3> QED BY <1>1, <2>4, <3>1, <3>2, LockTaken DEF LockInv
  <2> QED BY <2>5, <2>6
<1> QED BY <1>5, <1>6

LEMMA LoopLock ==
    ASSUME LockIsKept, LockInv, ProcessQueue
    PROVE  LockIsOneFlight' /\ EtagInv'
<1>1. /\ remote' = remote
      /\ \/ drain.on /\ (Takes("get") \/ Takes("backup") \/ LeavesLock)
         \/ DeleteThrows \/ WriteIcsThrows \/ ForceRefresh
  BY LoopShape DEF LockInv, EtagInv, UnlockFollows
<1>2. "read" \notin Locking /\ "get" \in Locking /\ "backup" \in Locking
  BY DEF Locking, Reading, Writing
<1>3. ASSUME NEW k \in {"get", "backup"}, drain.on, Takes(k) PROVE LockIsOneFlight' /\ EtagInv'
  <2>1. PICK g : g.kind = k /\ flights' = flights \cup {g}
    BY <1>3 DEF Takes
  <2>2. ~locked /\ locked' = TRUE /\ ~drain'.on /\ drain'.put = 0 /\ drain'.then = drain.then
    BY <1>3, EndedShape DEF Takes, LockInv, LockIsOneFlight
  <2>3. LockIsOneFlight'
    BY <1>2, <2>1, <2>2, LockTaken DEF LockInv
  <2>4. EtagInv'
    BY <1>1, <2>1, <2>2 DEF LockInv, EtagInv, Http
  <2> QED BY <2>3, <2>4
<1>4. CASE drain.on /\ LeavesLock
  <2>1. LockIsOneFlight'
    <3>1. ~locked
      BY <1>4 DEF LockInv, LockIsOneFlight
    <3>2. \A g : g.kind \in Locking => (g \in flights' <=> g \in flights)
      BY <1>2, <1>4 DEF LeavesLock
    <3> QED BY <1>4, <3>1, <3>2, LockLeft DEF LeavesLock, LockInv
  <2>2. EtagInv'
    BY <1>1, <1>4 DEF LeavesLock, LockInv, EtagInv, Http
  <2> QED BY <2>1, <2>2
<1>5. CASE ForceRefresh
  <2>1. PICK r : Push(r)
    BY <1>5 DEF ForceRefresh
  <2> QED BY <2>1, PushLock
<1> QED BY <1>1, <1>3, <1>4, <1>5, ExceptionLock

\* Where the lock is kept, every answer that has an ETag can be read.
LEMMA EtagsAreRead ==
    ASSUME LockIsKept, LockInv, NEW f \in flights
    PROVE  ~EtagReplyThrows(f)
<1>1. SUFFICES ASSUME EtagReplyThrows(f) PROVE FALSE
  OBVIOUS
<1>2. "garbled" \in WriteFaults /\ f.kind = "etag"
  BY <1>1 DEF EtagReplyThrows, Ready
<1>3. "http" \in Transports /\ ~PutEtag
  BY <1>2 DEF LockInv, EtagInv, Scenario, Http
<1> QED BY <1>2, <1>3, Zenon DEF LockIsKept

LEMMA CallbackLock ==
    ASSUME LockIsKept, LockInv, NEW f \in flights, Callback(f)
    PROVE  LockIsOneFlight' /\ EtagInv'
<1>1. /\ ~drain.on /\ drain.then # "unlock" /\ remote'.at = remote.at
      /\ \/ Ends(f) \/ Continues(f) \/ EtagReplyThrows(f) \/ GetItemsPosted(f)
  <2>1. remote' = remote
    BY DEF Callback, KeepOldData, LoadEmpty, DecodingFails, StartParsing,
       OnParsingComplete, BackupDone, StartPut, RefusePut, OpeningThrows,
       PutFailed, PutSucceeded, AskForEtag, EtagReply, EtagReplyThrows, GetItemsPosted
  <2>2. ~(PutFailed(f) /\ ~locked)
    BY DEF PutFailed, Ready, LockInv, LockIsOneFlight, Locking, Writing
  <2> QED BY <2>1, <2>2, CallbackShape DEF LockInv, AtRest
<1>2. Http' = Http
  BY <1>1 DEF Http
<1>3. CASE Ends(f)
  <2>1. LockIsOneFlight'
    BY <1>3, LockReleased DEF Ends, LockInv
  <2>2. EtagInv'
    BY <1>2, <1>3 DEF Ends, Done, LockInv, EtagInv
  <2> QED BY <2>1, <2>2
<1>4. CASE Continues(f)
  <2>1. PICK g : /\ Becomes(f, g) /\ g.kind \in Locking
                 /\ g.kind = "etag" => Http /\ ~PutEtag
    BY <1>4 DEF Continues, Locking
  <2>2. LockIsOneFlight'
    BY <1>4, <2>1, LockPassed DEF Continues, LockInv
  <2>3. EtagInv'
    BY <1>2, <1>4, <2>1 DEF Continues, Becomes, LockInv, EtagInv
  <2> QED BY <2>2, <2>3
<1>5. ~EtagReplyThrows(f)
  BY EtagsAreRead
<1>6. CASE GetItemsPosted(f)
  <2>1. /\ f.kind = "read" /\ flights' = flights \ {f} /\ UNCHANGED <<locked, drain>>
    BY <1>6 DEF GetItemsPosted, Ready, Done
  <2>2. \A g : g.kind \in Locking => (g \in flights' <=> g \in flights)
    BY <2>1 DEF Locking, Reading, Writing
  <2>3. LockIsOneFlight'
    BY <1>1, <2>1, <2>2, LockLeft DEF LockInv
  <2>4. EtagInv'
    BY <1>2, <2>1 DEF LockInv, EtagInv
  <2> QED BY <2>3, <2>4
<1> QED BY <1>1, <1>3, <1>4, <1>5, <1>6

LEMMA LockNext ==
    ASSUME LockIsKept, LockInv, [Next]_vars
    PROVE  LockInv'
<1>1. TypeOK' /\ Scenario'
  BY TypeNext, ScenarioNext DEF LockInv
<1>2. CASE Requests
  <2>1. PICK r : Push(r)
    BY <1>2, RequestsShape DEF LockInv, Enqueue
  <2> QED BY <1>1, <2>1, PushLock DEF LockInv
<1>3. CASE Serve
  <2>1. PICK f \in flights : ServeGet(f) \/ ServePut(f)
    BY <1>3 DEF Serve
  <2>2. PICK g : /\ Becomes(f, g) /\ g.kind = f.kind /\ f.kind \in {"get", "put"}
                 /\ UNCHANGED <<locked, drain>> /\ remote'.at = remote.at
    BY <2>1, ServeShape DEF LockInv
  <2>3. LockIsOneFlight'
    BY <2>2, LockPassed DEF LockInv, Locking, Reading, Writing
  <2>4. EtagInv'
    BY <2>2 DEF LockInv, EtagInv, Http, Becomes
  <2> QED BY <1>1, <2>3, <2>4 DEF LockInv
<1>4. CASE \/ \E i \in Items : ForeignWrite(i)
           \/ ClearReadOnly \/ EnableCalendar \/ UNCHANGED vars
  <2>1. UNCHANGED <<flights, locked, drain>> /\ remote'.at = remote.at
    BY <1>4 DEF ForeignWrite, ClearReadOnly, EnableCalendar, vars, LockInv, TypeOK, FileType
  <2> QED BY <1>1, <2>1 DEF LockInv, LockIsOneFlight, EtagInv, Http
<1> QED
  BY <1>1, <1>2, <1>3, <1>4, LoopLock, CallbackLock DEF Next, Callbacks, LockInv

LEMMA LockInit == Init => LockInv
<1> SUFFICES ASSUME Init PROVE LockInv
  OBVIOUS
<1>1. TypeOK /\ Len(ops) = 0
  BY TypeInit, EmptySeq DEF Init
<1>2. remote.at \in Transports
  BY DEF Init
<1> QED
  BY <1>1, <1>2 DEF Init, Idle, LockInv, Scenario, EtagInv, LockIsOneFlight, Ids

\* The lock is held by one chain of callbacks at a time and given back at its end,
\* and the queue is never processed while it is held: no two downloads, parsers or
\* uploads ever work on the memory calendar at once.
THEOREM LockHolds == ASSUME LockIsKept PROVE Spec => []LockIsOneFlight
<1>1. LockInv /\ [Next]_vars => LockInv'
  BY LockNext
<1>2. LockInv => LockIsOneFlight
  BY DEF LockInv
<1> QED BY LockInit, <1>1, <1>2, PTL DEF Spec

-----------------------------------------------------------------------------
(* Edits that are not written yet.  While the loop runs it remembers that   *)
(* there is something to write, and afterwards a write is under way, unless *)
(* the caller of processQueue goes on to tell all edits that they failed.   *)

WriteInv ==
    mods # {} => \/ drain.on /\ drain.last # 0
                 \/ drain.then = "unlock"
                 \/ \E f \in flights : f.kind \in Writing

LEMMA NoDeletes ==
    ASSUME "delete" \notin Kinds, TypeOK, Scenario
    PROVE  \A id \in Ids : ops[id].kind # "delete"
BY DEF Scenario

LEMMA LoopWrites ==
    ASSUME "delete" \notin Kinds, TypeOK, Scenario, WriteInv, ProcessQueue
    PROVE  WriteInv'
<1>hd. queue # <<>> => Head(queue) \in Ids /\ Head(queue) # 0
  BY HeadTailProperties DEF TypeOK, Ids
<1>1. ASSUME NEW v, NEW status, queue # <<>>, drain.on, Applied(v, status)
      PROVE  WriteInv'
  <2>1. drain'.on /\ drain'.last = Head(queue)
    BY <1>1 DEF Applied, TypeOK, DrainType
  <2> QED BY <1>1, <1>hd, <2>1 DEF WriteInv
<1>2. CASE ApplyAdd \/ ApplyModify \/ ApplyDelete
  BY <1>1, <1>2 DEF ApplyAdd, ApplyModify, ApplyDelete, Next1
<1>3. CASE DeleteThrows
  BY <1>hd, <1>3, NoDeletes DEF DeleteThrows, Next1
<1>4. CASE ServeGetItem \/ ServeGetItems
  BY <1>4 DEF ServeGetItem, ServeGetItems, Next1, WriteInv
<1>5. CASE WriteIcs
  <2>1. PICK g : g.kind = "backup" /\ flights' = flights \cup {g}
    BY <1>5 DEF WriteIcs, Flight
  <2> QED BY <2>1 DEF WriteInv, Writing
<1>6. CASE DoRefresh \/ NothingToDo
  <2>1. mods' = mods /\ flights \subseteq flights' /\ drain.last = 0 /\ drain' = Ended
    BY <1>6 DEF DoRefresh, NothingToDo, Next1
  <2>2. mods # {} => drain.then = "unlock" \/ \E f \in flights : f.kind \in Writing
    BY <2>1 DEF WriteInv
  <2> QED BY <2>1, <2>2, EndedShape DEF WriteInv
<1>7. CASE WriteIcsThrows \/ UnlockFollows
  BY <1>7 DEF WriteIcsThrows, WriteGivenUp, UnlockFollows, Unlock, WriteInv
<1>8. CASE ForceRefresh
  <2>1. mods' = mods /\ flights' = flights /\ ~drain.on /\ drain.then # "unlock"
    BY <1>8 DEF ForceRefresh, Push
  <2> QED BY <2>1 DEF WriteInv
<1> QED BY <1>2, <1>3, <1>4, <1>5, <1>6, <1>7, <1>8 DEF ProcessQueue

LEMMA CallbackWrites ==
    ASSUME TypeOK, WriteInv, NEW f \in flights, Callback(f), ~EtagReplyThrows(f)
    PROVE  WriteInv'
<1>1. /\ AtRest
      /\ \/ Ends(f) \/ Continues(f) \/ EtagReplyThrows(f) \/ GetItemsPosted(f)
         \/ PutFailed(f) /\ ~locked
  BY CallbackShape
<1>2. mods # {} => \E g \in flights : g.kind \in Writing
  BY <1>1 DEF AtRest, WriteInv
<1>3. CASE Ends(f)
  BY <1>3 DEF Ends, WriteInv
<1>4. CASE Continues(f)
  <2>1. PICK g : /\ Becomes(f, g) /\ UNCHANGED <<mods, drain>>
                 /\ IF f.kind \in Reading THEN g.kind \in Reading ELSE g.kind \in Writing
    BY <1>4 DEF Continues
  <2>2. f.kind \in Reading => f.kind \notin Writing
    BY DEF Reading, Writing
  <2>3. (\E h \in flights : h.kind \in Writing) => \E h \in flights' : h.kind \in Writing
    BY <2>1, <2>2 DEF Becomes
  <2> QED BY <1>2, <2>1, <2>3 DEF WriteInv
<1>6. CASE GetItemsPosted(f)
  <2>1. /\ flights' = flights \ {f} /\ f.kind = "read" /\ "read" \notin Writing
        /\ UNCHANGED <<mods, drain>>
    BY <1>6 DEF GetItemsPosted, Ready, Done, Writing
  <2> QED BY <1>2, <2>1 DEF WriteInv
<1>7. CASE PutFailed(f) /\ ~locked
  <2>1. drain' = DrainThen("unlock")
    BY <1>7 DEF PutFailed
  <2> QED BY <2>1 DEF WriteInv, DrainThen, Drain
<1> QED BY <1>1, <1>3, <1>4, <1>6, <1>7

LEMMA WriteNext ==
    ASSUME "delete" \notin Kinds, \A f \in flights : ~EtagReplyThrows(f),
           TypeOK, Scenario, WriteInv, [Next]_vars
    PROVE  WriteInv'
<1>1. CASE Requests
  <2>1. PICK r : Enqueue(r)
    BY <1>1, RequestsShape
  <2>2. flights' = flights /\ mods' = mods /\ AtRest
    BY <2>1 DEF Enqueue, Push
  <2> QED BY <2>2 DEF AtRest, WriteInv
<1>2. CASE Serve
  <2>1. PICK f \in flights : ServeGet(f) \/ ServePut(f)
    BY <1>2 DEF Serve
  <2>2. PICK g : Becomes(f, g) /\ g.kind = f.kind /\ UNCHANGED <<mods, drain>>
    BY <2>1, ServeShape
  <2> QED BY <2>2 DEF Becomes, WriteInv
<1>3. CASE \/ \E i \in Items : ForeignWrite(i)
           \/ ClearReadOnly \/ EnableCalendar \/ UNCHANGED vars
  <2>1. UNCHANGED <<flights, mods, drain>>
    BY <1>3 DEF ForeignWrite, ClearReadOnly, EnableCalendar, vars
  <2> QED BY <2>1 DEF WriteInv
<1> QED BY <1>1, <1>2, <1>3, LoopWrites, CallbackWrites DEF Next, Callbacks

\* Edits that are applied and not acknowledged are on their way to the file, never in
\* the reach of a refresh, as long as no delete throws and every answer that has an ETag
\* can be read: a lock that is lost does no harm here, every unlock tells the edits.
THEOREM EditsAreWritten ==
    ASSUME "delete" \notin Kinds, "garbled" \notin WriteFaults
    PROVE  Spec => []UnsavedEditsAreBeingWritten
<1> DEFINE I == TypeOK /\ Scenario /\ WriteInv
<1>1. Init => I
  BY LockInit DEF Init, LockInv, WriteInv
<1>2. I /\ [Next]_vars => I'
  BY TypeNext, ScenarioNext, WriteNext DEF EtagReplyThrows
<1>3. I => UnsavedEditsAreBeingWritten
  BY DEF WriteInv, UnsavedEditsAreBeingWritten, AtRest
<1> HIDE DEF I
<1> QED BY <1>1, <1>2, <1>3, PTL DEF Spec

\* Where the lock is kept, a download and a list of edits that are not written exclude
\* each other.
LEMMA ReadersHaveNoEdits ==
    ASSUME LockInv, WriteInv, NEW f \in flights, f.kind \in Reading
    PROVE  mods = {}
<1>1. f.kind \in Locking /\ f.kind \notin Writing
  BY DEF Locking, Reading, Writing
<1>2. ~drain.on
  BY <1>1 DEF LockInv, LockIsOneFlight
<1>3. SUFFICES ASSUME mods # {} PROVE FALSE
  OBVIOUS
<1>4. PICK g \in flights : g.kind \in Writing
  BY <1>2, <1>3 DEF WriteInv, LockInv, EtagInv
<1> QED BY <1>1, <1>4 DEF LockInv, LockIsOneFlight, Locking

\* When nothing is under way and the loop has nothing to write, every edit has been
\* answered.
LEMMA UnlockedHasNoEdits ==
    ASSUME LockInv, WriteInv, ~locked, ~drain.on \/ drain.last = 0
    PROVE  mods = {}
BY DEF LockInv, EtagInv, LockIsOneFlight, WriteInv, Locking

-----------------------------------------------------------------------------
(* No request is forgotten: in every scenario, a request that is neither a  *)
(* refresh nor a delete waits somewhere until it has been answered.         *)

Remembered(id) == Queued(id) \/ id \in ModOps \/ Posted(id) \/ answers[id] # <<>>

OnlyDeletesForgotten ==
    \A id \in Ids : ops[id].kind \notin {"refresh", "delete"} => Remembered(id)

\* Everything that waits goes on waiting.
LEMMA WaitsOn ==
    ASSUME OnlyDeletesForgotten, UNCHANGED <<ops, answers, queue, mods>>,
           \A g \in flights : g.kind = "read" => g \in flights'
    PROVE  OnlyDeletesForgotten'
<1>1. Ids' = Ids /\ ModOps' = ModOps
  BY SameRequests DEF ModOps
<1>2. \A id : (Queued(id) => Queued(id)') /\ (Posted(id) => Posted(id)')
  BY DEF Queued, Posted
<1> QED BY <1>1, <1>2 DEF OnlyDeletesForgotten, Remembered

\* The head leaves the queue; the others wait on.
LEMMA QueuedBehind ==
    ASSUME TypeOK, queue # <<>>, queue' = Tail(queue), NEW id, Queued(id), id # Head(queue)
    PROVE  Queued(id)'
<1>1. /\ Len(queue) \in Nat /\ Len(queue) # 0 /\ Head(queue) = queue[1]
      /\ Len(queue') = Len(queue) - 1
      /\ \A k \in 1..Len(queue') : queue'[k] = queue[k + 1]
  BY HeadTailProperties, LenProperties, EmptySeq DEF TypeOK
<1>2. PICK k \in 1..Len(queue) : queue[k] = id
  BY DEF Queued
<1>3. k # 1
  BY <1>1, <1>2
<1>4. k - 1 \in 1..Len(queue') /\ queue'[k - 1] = queue[(k - 1) + 1] /\ (k - 1) + 1 = k
  BY <1>1, <1>3
<1> QED BY <1>2, <1>4 DEF Queued

LEMMA OthersWait ==
    ASSUME TypeOK, OnlyDeletesForgotten, queue # <<>>, queue' = Tail(queue), ops' = ops,
           NEW h, h = Head(queue),
           \A id \in Ids \ {h} : /\ id \in ModOps => id \in ModOps'
                                 /\ Posted(id) => Posted(id)'
                                 /\ answers'[id] = answers[id],
           ops[h].kind \notin {"refresh", "delete"} => Remembered(h)'
    PROVE  OnlyDeletesForgotten'
<1>2. ASSUME NEW id, Queued(id), id # h PROVE Queued(id)'
  BY <1>2, QueuedBehind
<1>3. Ids' = Ids
  BY SameRequests
<1>4. ASSUME NEW id \in Ids, id # h, Remembered(id) PROVE Remembered(id)'
  BY <1>2, <1>4 DEF Remembered
<1> QED BY <1>3, <1>4 DEF OnlyDeletesForgotten

\* unlock answers every modification; the rest waits on.
LEMMA UnlockAnswers ==
    ASSUME TypeOK, NEW err \in Status, NEW id \in Ids
    PROVE  /\ id \in ModOps => Notified(err)[id] # <<>>
           /\ answers[id] # <<>> => Notified(err)[id] # <<>>
<1>1. DOMAIN answers = Ids /\ answers[id] \in Seq(Status)
  BY LenProperties, ElementOfSeq DEF TypeOK, Ids
<1>2. CASE id \in ModOps
  <2>1. PICK a : Notified(err)[id] = Append(answers[id], a) /\ a \in Status
    <3>1. (CHOOSE m \in mods : m.op = id) \in mods
      BY <1>2 DEF ModOps
    <3>2. Told(CHOOSE m \in mods : m.op = id, err) \in Status
      BY <3>1 DEF Told, TypeOK
    <3> QED BY <1>1, <1>2, <3>2 DEF Notified
  <2>2. Append(answers[id], a) # <<>>
    BY <1>1, <2>1, AppendProperties
  <2> QED BY <2>1, <2>2
<1>3. CASE id \notin ModOps
  BY <1>1, <1>3 DEF Notified
<1> QED BY <1>2, <1>3

\* A request is pushed: it waits in the queue, and so do the others, or they have been
\* told.
LEMMA OneMoreWaits ==
    ASSUME TypeOK, OnlyDeletesForgotten, NEW r \in RequestType, ops' = Append(ops, r),
           queue' = Append(queue, Len(ops) + 1),
           NEW told \in Seq(Seq(Status)), Len(told) = Len(ops),
           answers' = Append(told, <<>>),
           \A id \in Ids : /\ id \in ModOps => id \in ModOps' \/ told[id] # <<>>
                           /\ answers[id] # <<>> => told[id] # <<>>
                           /\ Posted(id) => Posted(id)'
    PROVE  OnlyDeletesForgotten'
<1>1. /\ Ids' = Ids \cup {Len(ops) + 1} /\ Len(ops) \in Nat
      /\ \A id \in Ids : ops'[id] = ops[id] /\ answers'[id] = told[id]
      /\ Len(queue) \in Nat
      /\ Len(queue') = Len(queue) + 1 /\ queue'[Len(queue) + 1] = Len(ops) + 1
      /\ \A k \in 1..Len(queue) : queue'[k] = queue[k]
  <2>1. Len(ops') = Len(ops) + 1 /\ Len(ops) \in Nat
    BY OneMoreRequest
  <2>2. /\ \A id \in 1..Len(ops) : ops'[id] = ops[id] /\ answers'[id] = told[id]
    BY <2>1, AppendProperties DEF TypeOK
  <2>3. queue \in Seq(Ids') /\ Len(ops) + 1 \in Ids'
    BY OneMoreRequest
  <2>4. /\ Len(queue) \in Nat
        /\ Len(queue') = Len(queue) + 1 /\ queue'[Len(queue) + 1] = Len(ops) + 1
        /\ \A k \in 1..Len(queue) : queue'[k] = queue[k]
    BY <2>1, <2>3, AppendProperties, LenProperties
  <2> QED BY <2>1, <2>2, <2>4 DEF Ids
<1>0. PICK n : n = Len(ops) + 1
  OBVIOUS
<1>2. Queued(n)'
  <2>1. Len(queue) + 1 \in 1..Len(queue')
    BY <1>1
  <2> QED BY <1>0, <1>1, <2>1 DEF Queued
<1>3. ASSUME NEW id \in Ids, Remembered(id) PROVE Remembered(id)'
  <2>1. ASSUME Queued(id) PROVE Queued(id)'
    <3>1. PICK k \in 1..Len(queue) : queue[k] = id
      BY <2>1 DEF Queued
    <3>2. k \in 1..Len(queue') /\ queue'[k] = id
      BY <1>1, <3>1
    <3> QED BY <3>2 DEF Queued
  <2> QED BY <1>1, <1>3, <2>1 DEF Remembered
<1>4. Remembered(n)'
  BY <1>2 DEF Remembered
<1>5. ASSUME NEW id \in Ids', ops'[id].kind \notin {"refresh", "delete"}
      PROVE  Remembered(id)'
  <2>1. CASE id \in Ids
    BY <1>1, <1>3, <1>5, <2>1 DEF OnlyDeletesForgotten
  <2>2. CASE id \notin Ids
    BY <1>0, <1>1, <1>4, <1>5, <2>2
  <2> QED BY <2>1, <2>2
<1> QED BY <1>5 DEF OnlyDeletesForgotten

\* unlock, which may take a refresh or the delete that throws off the queue as well.
LEMMA UnlockRemembers ==
    ASSUME TypeOK, OnlyDeletesForgotten, NEW err \in Status, answers' = Notified(err),
           ops' = ops, \A g \in flights : g.kind = "read" => g \in flights',
           \/ queue' = queue
           \/ /\ queue # <<>> /\ queue' = Tail(queue)
              /\ ops[Head(queue)].kind \in {"refresh", "delete"}
    PROVE  OnlyDeletesForgotten'
<1>1. Ids' = Ids /\ \A id : Posted(id) => Posted(id)'
  BY SameRequests DEF Posted
<1>2. ASSUME NEW id \in Ids, ops[id].kind \notin {"refresh", "delete"}, Queued(id)
      PROVE  Queued(id)'
  <2>1. CASE queue' = queue
    BY <1>2, <2>1 DEF Queued
  <2>2. CASE /\ queue # <<>> /\ queue' = Tail(queue)
             /\ ops[Head(queue)].kind \in {"refresh", "delete"}
    BY <1>2, <2>2, QueuedBehind
  <2> QED BY <2>1, <2>2
<1>3. ASSUME NEW id \in Ids, ops[id].kind \notin {"refresh", "delete"}, Remembered(id)
      PROVE  Remembered(id)'
  BY <1>1, <1>2, <1>3, UnlockAnswers DEF Remembered
<1> QED BY <1>1, <1>3 DEF OnlyDeletesForgotten

\* A request is pushed, and nothing else happens to what waits.
LEMMA PushRemembers ==
    ASSUME TypeOK, OnlyDeletesForgotten, NEW r \in RequestType, ops' = Append(ops, r),
           answers' = Append(answers, <<>>), queue' = Append(queue, Len(ops) + 1),
           mods' = mods, \A g \in flights : g.kind = "read" => g \in flights'
    PROVE  OnlyDeletesForgotten'
<1>1. ModOps' = ModOps /\ \A id : Posted(id) => Posted(id)'
  BY DEF ModOps, Posted
<1>2. answers \in Seq(Seq(Status)) /\ Len(answers) = Len(ops)
  BY DEF TypeOK
<1> QED BY <1>1, <1>2, OneMoreWaits

LEMMA ForceRefreshRemembers ==
    ASSUME TypeOK, OnlyDeletesForgotten, NEW f \in flights,
           f.kind # "read", Done(f), ForceRefreshAndUnlock("failed")
    PROVE  OnlyDeletesForgotten'
<1>1. Forced \in RequestType /\ "failed" \in Status
  BY ForcedType DEF Status
<1>2. Notified("failed") \in Seq(Seq(Status)) /\ Len(Notified("failed")) = Len(ops)
  BY <1>1, NotifiedType DEF TypeOK
<1>3. \A id \in Ids : /\ id \in ModOps => Notified("failed")[id] # <<>>
                      /\ answers[id] # <<>> => Notified("failed")[id] # <<>>
                      /\ Posted(id) => Posted(id)'
  BY <1>1, UnlockAnswers DEF Posted, Done
<1> QED BY <1>1, <1>2, <1>3, OneMoreWaits DEF ForceRefreshAndUnlock

LEMMA CallbackRemembers ==
    ASSUME TypeOK, OnlyDeletesForgotten, NEW f \in flights, Callback(f)
    PROVE  OnlyDeletesForgotten'
<1>1. f.id \in Ids
  BY DEF TypeOK, FlightType
<1>2. "ok" \in Status /\ "failed" \in Status
  BY DEF Status
<1>3. CASE \/ KeepOldData(f) \/ LoadEmpty(f) \/ DecodingFails(f) \/ OnParsingComplete(f)
           \/ RefusePut(f) \/ OpeningThrows(f) \/ PutSucceeded(f) \/ EtagReply(f)
  <2>1. PICK err \in {"ok", "failed"} : answers' = Notified(err)
    BY <1>3 DEF KeepOldData, LoadEmpty, DecodingFails, OnParsingComplete, OpeningThrows,
       RefusePut, PutSucceeded, EtagReply, Unlock, WriteGivenUp
  <2>2. Done(f) /\ f.kind # "read" /\ UNCHANGED <<ops, queue>>
    BY <1>3 DEF KeepOldData, LoadEmpty, DecodingFails, OnParsingComplete, OpeningThrows,
       RefusePut, PutSucceeded, EtagReply, Ready
  <2>3. \A g \in flights : g.kind = "read" => g \in flights'
    BY <2>2 DEF Done
  <2> QED BY <1>2, <2>1, <2>2, <2>3, UnlockRemembers
<1>4. CASE PutFailed(f)
  <2>1. Done(f) /\ f.kind = "put"
    BY <1>4 DEF PutFailed, Ready
  <2>2. CASE ForceRefreshAndUnlock("failed")
    BY <2>1, <2>2, ForceRefreshRemembers
  <2>3. CASE ~ForceRefreshAndUnlock("failed")
    <3>1. /\ ops' = Append(ops, Forced) /\ answers' = Append(answers, <<>>)
          /\ queue' = Append(queue, Len(ops) + 1) /\ mods' = mods
      BY <1>4, <2>3 DEF PutFailed
    <3>2. \A g \in flights : g.kind = "read" => g \in flights'
      BY <2>1 DEF Done
    <3> QED BY <3>1, <3>2, ForcedType, PushRemembers
  <2> QED BY <2>2, <2>3
<1>5. CASE Continues(f)
  <2>1. \A g \in flights : g.kind = "read" => g \in flights'
    BY <1>5 DEF Continues, Becomes, Locking, Reading, Writing
  <2> QED BY <1>5, <2>1, WaitsOn DEF Continues, client
<1>6. CASE EtagReplyThrows(f)
  <2>1. \A g \in flights : g.kind = "read" => g \in flights'
    BY <1>6 DEF EtagReplyThrows, Ready, Done
  <2> QED BY <1>6, <2>1, WaitsOn DEF EtagReplyThrows, client
<1>7. CASE GetItemsPosted(f)
  <2>1. /\ answers' = [answers EXCEPT ![f.id] = Append(@, "ok")]
        /\ UNCHANGED <<ops, queue, mods>> /\ flights' = flights \ {f}
    BY <1>7 DEF GetItemsPosted, Done
  <2>2. DOMAIN answers = Ids /\ answers[f.id] \in Seq(Status)
    BY <1>1, LenProperties, ElementOfSeq DEF TypeOK, Ids
  <2>3. answers'[f.id] # <<>> /\ \A id \in Ids \ {f.id} : answers'[id] = answers[id]
    BY <1>1, <1>2, <2>1, <2>2, AppendProperties
  <2>4. /\ Ids' = Ids /\ ModOps' = ModOps
        /\ \A id : Queued(id) => Queued(id)'
        /\ \A id : Posted(id) /\ id # f.id => Posted(id)'
    BY <2>1 DEF Ids, ModOps, Queued, Posted
  <2>5. ASSUME NEW id \in Ids, Remembered(id) PROVE Remembered(id)'
    BY <2>3, <2>4, <2>5 DEF Remembered
  <2> QED BY <2>1, <2>4, <2>5 DEF OnlyDeletesForgotten
<1>8. CASE StartParsing(f) \/ BackupDone(f) \/ StartPut(f) \/ AskForEtag(f)
  <2>1. ~Ends(f)
    BY <1>8 DEF Ends, StartParsing, BackupDone, StartPut, AskForEtag, Ready, AtRest
  <2>2. ~EtagReplyThrows(f) /\ ~GetItemsPosted(f) /\ ~PutFailed(f)
    BY <1>8 DEF EtagReplyThrows, GetItemsPosted, PutFailed, StartParsing, BackupDone,
       StartPut, AskForEtag, Ready
  <2> QED BY <1>5, <2>1, <2>2, CallbackShape
<1> QED BY <1>3, <1>4, <1>6, <1>7, <1>8 DEF Callback

LEMMA LoopRemembers ==
    ASSUME TypeOK, OnlyDeletesForgotten, ProcessQueue
    PROVE  OnlyDeletesForgotten'
<1>0. PICK h : h = Head(queue)
  OBVIOUS
<1>1. queue # <<>> => h \in Ids
  BY <1>0, HeadTailProperties DEF TypeOK
<1>2. ASSUME NEW v, NEW status, queue # <<>>, Applied(v, status)
      PROVE  OnlyDeletesForgotten'
  <2>1. /\ queue' = Tail(queue) /\ UNCHANGED <<ops, answers, flights>>
        /\ mods' = mods \cup {[op |-> h, status |-> status]}
    BY <1>0, <1>2 DEF Applied, client
  <2>2. ModOps \subseteq ModOps' /\ h \in ModOps'
    <3>1. PICK m : m = [op |-> h, status |-> status]
      OBVIOUS
    <3>2. mods' = mods \cup {m} /\ m.op = h
      BY <2>1, <3>1
    <3> QED BY <3>2 DEF ModOps
  <2>3. \A id : Posted(id) => Posted(id)'
    BY <2>1 DEF Posted
  <2> QED BY <1>0, <1>2, <2>1, <2>2, <2>3, OthersWait DEF Remembered
<1>3. CASE ApplyAdd \/ ApplyModify \/ ApplyDelete
  BY <1>2, <1>3 DEF ApplyAdd, ApplyModify, ApplyDelete, Next1
<1>4. CASE DeleteThrows
  <2>1. /\ queue' = Tail(queue) /\ ops' = ops /\ queue # <<>>
        /\ ops[h].kind = "delete" /\ flights \subseteq flights'
    BY <1>0, <1>4 DEF DeleteThrows, Next1, client
  <2>2. CASE UNCHANGED <<answers, mods>>
    <3>1. ModOps' = ModOps /\ \A id : Posted(id) => Posted(id)'
      BY <2>1, <2>2 DEF ModOps, Posted
    <3> QED BY <1>0, <2>1, <2>2, <3>1, OthersWait
  <2>3. CASE WriteGivenUp
    <3>1. answers' = Notified("failed") /\ "failed" \in Status
      BY <2>3 DEF WriteGivenUp, Status
    <3> QED BY <1>0, <2>1, <3>1, UnlockRemembers
  <2> QED BY <1>4, <2>2, <2>3 DEF DeleteThrows
<1>9. CASE WriteIcsThrows
  <2>1. /\ answers' = Notified("failed") /\ "failed" \in Status /\ ops' = ops
        /\ flights \subseteq flights'
        /\ queue' = IF queue = <<>> THEN <<>> ELSE Tail(queue)
        /\ queue # <<>> => IsRefresh(Head(queue))
    BY <1>9 DEF WriteIcsThrows, WriteGivenUp, Status
  <2> QED BY <2>1, UnlockRemembers DEF IsRefresh
<1>10. CASE UnlockFollows
  <2>1. answers' = Notified("failed") /\ "failed" \in Status
        /\ UNCHANGED <<ops, queue, flights>>
    BY <1>10 DEF UnlockFollows, Unlock, Status
  <2> QED BY <2>1, UnlockRemembers
<1>11. CASE ForceRefresh
  <2>1. Push(Forced)
    BY <1>11 DEF ForceRefresh
  <2> QED BY <2>1, ForcedType, PushRemembers DEF Push
<1>5. CASE ServeGetItem
  <2>1. /\ queue' = Tail(queue) /\ UNCHANGED <<ops, mods, flights>> /\ queue # <<>>
        /\ answers' = [answers EXCEPT ![h] = Append(@, "ok")]
    BY <1>0, <1>5 DEF ServeGetItem, Next1
  <2>2. ModOps' = ModOps /\ \A id : Posted(id) => Posted(id)'
    BY <2>1 DEF ModOps, Posted
  <2>3. DOMAIN answers = Ids /\ answers[h] \in Seq(Status) /\ "ok" \in Status
    BY <1>1, <2>1, LenProperties, ElementOfSeq DEF TypeOK, Ids, Status
  <2>4. answers'[h] # <<>> /\ \A id \in Ids \ {h} : answers'[id] = answers[id]
    BY <1>1, <2>1, <2>3, AppendProperties
  <2> QED BY <1>0, <2>1, <2>2, <2>4, OthersWait DEF Remembered
<1>6. CASE ServeGetItems
  <2>1. /\ queue' = Tail(queue) /\ UNCHANGED <<ops, answers, mods>> /\ queue # <<>>
        /\ flights' = flights \cup {Flight("read", h)}
    BY <1>0, <1>6 DEF ServeGetItems, Next1, client
  <2>2. Flight("read", h).kind = "read" /\ Flight("read", h).id = h
    BY DEF Flight
  <2>3. ModOps' = ModOps /\ Posted(h)' /\ \A id : Posted(id) => Posted(id)'
    BY <2>1, <2>2 DEF ModOps, Posted
  <2> QED BY <1>0, <2>1, <2>3, OthersWait DEF Remembered
<1>7. CASE WriteIcs \/ NothingToDo
  <2>1. UNCHANGED <<ops, answers, queue, mods>> /\ flights \subseteq flights'
    BY <1>7 DEF WriteIcs, NothingToDo, client
  <2> QED BY <2>1, WaitsOn
<1>8. CASE DoRefresh
  <2>1. /\ queue' = Tail(queue) /\ UNCHANGED <<ops, answers, mods>> /\ queue # <<>>
        /\ ops[h].kind = "refresh" /\ flights \subseteq flights'
    BY <1>0, <1>8 DEF DoRefresh, Next1, client
  <2>2. ModOps' = ModOps /\ \A id : Posted(id) => Posted(id)'
    BY <2>1 DEF ModOps, Posted
  <2> QED BY <1>0, <2>1, <2>2, OthersWait
<1> QED BY <1>3, <1>4, <1>5, <1>6, <1>7, <1>8, <1>9, <1>10, <1>11 DEF ProcessQueue

LEMMA RemembersNext == TypeOK /\ OnlyDeletesForgotten /\ [Next]_vars => OnlyDeletesForgotten'
<1> SUFFICES ASSUME TypeOK, OnlyDeletesForgotten, [Next]_vars PROVE OnlyDeletesForgotten'
  OBVIOUS
<1>1. CASE Requests
  <2>1. PICK r \in RequestType : Enqueue(r)
    BY <1>1, RequestsShape
  <2> QED BY <2>1, PushRemembers DEF Enqueue, Push
<1>2. CASE Serve
  <2>1. PICK f \in flights : ServeGet(f) \/ ServePut(f)
    BY <1>2 DEF Serve
  <2>2. \A g \in flights : g.kind = "read" => g \in flights'
    BY <2>1, ServeShape DEF Becomes
  <2> QED BY <2>1, <2>2, ServeShape, WaitsOn DEF client
<1>3. CASE \/ \E i \in Items : ForeignWrite(i)
           \/ ClearReadOnly \/ EnableCalendar \/ UNCHANGED vars
  <2>1. UNCHANGED <<ops, answers, queue, mods, flights>>
    BY <1>3 DEF ForeignWrite, ClearReadOnly, EnableCalendar, vars, client
  <2> QED BY <2>1, WaitsOn
<1> QED BY <1>1, <1>2, <1>3, LoopRemembers, CallbackRemembers DEF Next, Callbacks

\* In every scenario, whatever fails: the one request that may be dropped without an
\* answer is a delete, the one that throws.
THEOREM OnlyDeletesAreForgotten == Spec => []OnlyDeletesForgotten
<1>1. Init => OnlyDeletesForgotten
  BY EmptySeq DEF Init, OnlyDeletesForgotten, Ids
<1> QED BY <1>1, RemembersNext, TypeInit, TypeNext, PTL DEF Spec

\* Where clients make no deletes, every request that is not a refresh waits somewhere
\* until its listener has been told the outcome.
THEOREM EveryRequestRemembered ==
    ASSUME "delete" \notin Kinds PROVE Spec => []NothingForgotten
<1>1. TypeOK /\ Scenario /\ OnlyDeletesForgotten => NothingForgotten
  BY NoDeletes DEF OnlyDeletesForgotten, NothingForgotten, Remembered, IsRefresh
<1>2. Init => TypeOK /\ Scenario
  BY LockInit DEF LockInv
<1>3. TypeOK /\ Scenario /\ [Next]_vars => (TypeOK /\ Scenario)'
  BY TypeNext, ScenarioNext
<1> QED BY <1>1, <1>2, <1>3, OnlyDeletesAreForgotten, PTL DEF Spec

-----------------------------------------------------------------------------
(* What the calendar promises its clients and other writers: a client that *)
(* is told its edit has succeeded finds it in the file, the provider       *)
(* implements CalendarPromise, and a PUT with an If header keeps what      *)
(* others have written.  All need what is proved of the lock: where it is  *)
(* lost, or where edits stay behind unwritten, a refresh reports edits as  *)
(* successful that are in no file.                                         *)

\* What an item's version is called after was made by a client.
Made(c) == \A i \in Items : c[i].w > 0 => c[i].w \in ClientIds

\* Whose requests are where: the provider makes refreshes only, so that applied edits,
\* what is in a file, in the memory calendar or under way come from clients (or from
\* other writers), and no modification fails before it is written.
OwnInv ==
    /\ \A id \in Ids : ops[id].force => IsRefresh(id)
    /\ ModOps \subseteq ClientIds
    /\ \A m \in mods : m.status # "failed"
    /\ stored \subseteq ClientIds
    /\ Made(mem) /\ Made(remote.content)
    /\ \A f \in flights : Made(f.data) /\ f.carries \subseteq ClientIds

LEMMA NothingIsMade == Made(Nothing)
BY DEF Made, Nothing, Absent

\* One request more: it is a client's unless it is forced.
LEMMA ClientsGrow ==
    ASSUME TypeOK, NEW r \in RequestType, ops' = Append(ops, r)
    PROVE  /\ Ids' = Ids \cup {Len(ops) + 1} /\ Len(ops) + 1 \notin Ids
           /\ \A id \in Ids : ops'[id] = ops[id]
           /\ ops'[Len(ops) + 1] = r
           /\ ClientIds \subseteq ClientIds'
           /\ r.force => ClientIds' = ClientIds
           /\ ~r.force => ClientIds' = ClientIds \cup {Len(ops) + 1}
<1>1. Len(ops') = Len(ops) + 1 /\ Len(ops) \in Nat
  BY OneMoreRequest
<1>2. Ids' = Ids \cup {Len(ops) + 1} /\ Len(ops) + 1 \notin Ids
  BY <1>1 DEF Ids
<1>3. /\ \A id \in Ids : ops'[id] = ops[id]
      /\ ops'[Len(ops) + 1] = r
  BY <1>1, AppendProperties DEF TypeOK, Ids
<1>4. ClientIds' = {id \in Ids' : ~ops'[id].force}
  BY DEF ClientIds
<1> QED BY <1>2, <1>3, <1>4 DEF ClientIds

LEMMA SameClients == ops' = ops => ClientIds' = ClientIds /\ Ids' = Ids
BY DEF ClientIds, Ids

\* What clients have made stays theirs.
LEMMA StaysMade ==
    ASSUME ClientIds \subseteq ClientIds', NEW c, Made(c)
    PROVE  Made(c)'
BY DEF Made

\* A callback moves contents around: the memory calendar, what a flight has loaded,
\* nothing; a PUT carries the edits that are applied.
LEMMA CallbackContents ==
    ASSUME TypeOK, NEW f \in flights, Callback(f)
    PROVE  /\ UNCHANGED <<remote, stored>> /\ mods' \subseteq mods
           /\ \A i \in Items : mem'[i] \in {mem[i], Absent, f.data[i]}
           /\ \A g \in flights' :
                 \/ g \in flights
                 \/ /\ g.data \in {mem, Nothing, f.data}
                    /\ g.carries \subseteq
                         f.carries \cup ModOps \cup ({mem[i].w : i \in Items} \cap Ids)
<1>1. f \in FlightType
  BY DEF TypeOK
<1>2. CASE \/ KeepOldData(f) \/ LoadEmpty(f) \/ DecodingFails(f) \/ OnParsingComplete(f)
           \/ RefusePut(f) \/ PutSucceeded(f) \/ EtagReply(f)
           \/ OpeningThrows(f) \/ PutFailed(f) \/ EtagReplyThrows(f) \/ GetItemsPosted(f)
  <2>1. flights' = flights \ {f}
    BY <1>2 DEF KeepOldData, LoadEmpty, DecodingFails, OnParsingComplete,
       RefusePut, PutSucceeded, EtagReply, OpeningThrows, PutFailed, EtagReplyThrows,
       GetItemsPosted, Done
  <2>2. UNCHANGED <<remote, stored>>
        /\ \A i \in Items : mem'[i] \in {mem[i], Absent, f.data[i]}
    <3>1. CASE OnParsingComplete(f)
      <4>1. /\ UNCHANGED <<remote, stored>>
            /\ mem' = [i \in Items |-> IF f.form = "good" /\ f.data[i] # Absent
                                       THEN f.data[i] ELSE mem[i]]
        BY <3>1 DEF OnParsingComplete
      <4> QED BY <4>1
    <3>2. CASE ~OnParsingComplete(f)
      <4>1. UNCHANGED <<remote, stored>> /\ mem' \in {mem, Nothing}
        BY <1>2, <3>2 DEF KeepOldData, LoadEmpty, DecodingFails, RefusePut, PutSucceeded,
           EtagReply, OpeningThrows, PutFailed, EtagReplyThrows, GetItemsPosted
      <4> QED BY <4>1 DEF Nothing
    <3> QED BY <3>1, <3>2
  <2>3. mods' \in {{}, mods}
    BY <1>2 DEF KeepOldData, LoadEmpty, DecodingFails, OnParsingComplete,
       RefusePut, PutSucceeded, EtagReply, OpeningThrows, PutFailed, EtagReplyThrows,
       GetItemsPosted, Unlock, WriteGivenUp, ForceRefreshAndUnlock
  <2> QED BY <2>1, <2>2, <2>3
<1>3. CASE StartParsing(f)
  <2>1. PICK g : g = [f EXCEPT !.kind = "parse", !.shown = View]
    OBVIOUS
  <2>2. g.data = f.data /\ g.carries = f.carries
    BY <1>1, <2>1 DEF FlightType
  <2>3. UNCHANGED <<remote, stored, mods>> /\ mem' = Nothing
        /\ flights' = (flights \ {f}) \cup {g}
    BY <1>3, <2>1 DEF StartParsing, Becomes
  <2> QED BY <2>2, <2>3 DEF Nothing
<1>4. CASE BackupDone(f)
  <2>1. PICK g : g = [f EXCEPT !.kind = "collect"]
    OBVIOUS
  <2>2. g.data = f.data /\ g.carries = f.carries
    BY <1>1, <2>1 DEF FlightType
  <2> QED BY <1>4, <2>1, <2>2 DEF BackupDone, Becomes
<1>5. CASE StartPut(f)
  <2>1. PICK c : c = ModOps \cup ({mem[i].w : i \in Items} \cap Ids)
    OBVIOUS
  <2>2. PICK e : Becomes(f, [f EXCEPT !.kind = "put", !.data = mem, !.carries = c,
                                      !.cond = e])
    BY <1>5, <2>1, Zenon DEF StartPut
  <2>3. PICK g : g = [f EXCEPT !.kind = "put", !.data = mem, !.carries = c, !.cond = e]
    OBVIOUS
  <2>4. g.data = mem /\ g.carries = c
    BY <1>1, <2>3 DEF FlightType
  <2>5. UNCHANGED <<remote, stored, mods, mem>>
    BY <1>5 DEF StartPut
  <2> QED BY <2>1, <2>2, <2>3, <2>4, <2>5 DEF Becomes
<1>6. CASE AskForEtag(f)
  <2>1. Flight("etag", f.id).data = Nothing /\ Flight("etag", f.id).carries = {}
    BY DEF Flight
  <2> QED BY <1>6, <2>1 DEF AskForEtag, Becomes
<1> QED BY <1>2, <1>3, <1>4, <1>5, <1>6 DEF Callback

\* A request that is no refresh is a client's.
LEMMA OwnRequests ==
    ASSUME OwnInv, NEW id \in Ids, ops[id].kind # "refresh"
    PROVE  id \in ClientIds
BY DEF OwnInv, IsRefresh, ClientIds

\* The provider's own request is a refresh.
LEMMA ForcedGrows ==
    ASSUME TypeOK, OwnInv, ops' = Append(ops, Forced)
    PROVE  /\ ClientIds' = ClientIds
           /\ \A id \in Ids' : ops'[id].force => IsRefresh(id)'
<1>1. Forced.kind = "refresh" /\ Forced.force
  BY DEF Forced, Request
<1> QED BY <1>1, ForcedType, ClientsGrow DEF OwnInv, IsRefresh

LEMMA CallbackOwns ==
    ASSUME TypeOK, OwnInv, NEW f \in flights, Callback(f)
    PROVE  OwnInv'
<1>1. /\ ClientIds \subseteq ClientIds'
      /\ \A id \in Ids' : ops'[id].force => IsRefresh(id)'
  <2>1. ops' = ops \/ ops' = Append(ops, Forced)
    BY DEF Callback, KeepOldData, LoadEmpty, DecodingFails, StartParsing, client,
       OnParsingComplete, BackupDone, StartPut, RefusePut, OpeningThrows, PutFailed,
       ForceRefreshAndUnlock, PutSucceeded, AskForEtag, EtagReply, EtagReplyThrows,
       GetItemsPosted
  <2>2. CASE ops' = ops
    BY <2>2, SameClients DEF OwnInv, IsRefresh
  <2>3. CASE ops' = Append(ops, Forced)
    BY <2>3, ForcedGrows
  <2> QED BY <2>1, <2>2, <2>3
<1>2. /\ UNCHANGED <<remote, stored>> /\ mods' \subseteq mods
      /\ \A i \in Items : mem'[i] \in {mem[i], Absent, f.data[i]}
  BY CallbackContents
<1>3. \A c : Made(c) => Made(c)'
  BY <1>1, StaysMade
<1>4. Made(mem) /\ Made(Nothing) /\ Made(f.data) /\ Made(remote.content)
  BY NothingIsMade DEF OwnInv
<1>5. Made(mem)' /\ Made(remote.content)'
  BY <1>1, <1>2, <1>4 DEF Made, Absent
<1>6. ModOps' \subseteq ClientIds' /\ stored' \subseteq ClientIds'
      /\ \A m \in mods' : m.status # "failed"
  BY <1>1, <1>2 DEF OwnInv, ModOps
<1>7. ASSUME NEW g \in flights' PROVE Made(g.data)' /\ g.carries \subseteq ClientIds'
  <2>1. CASE g \in flights
    BY <1>1, <1>3, <2>1 DEF OwnInv
  <2>2. CASE g \notin flights
    <3>1. /\ g.data \in {mem, Nothing, f.data}
          /\ g.carries \subseteq
               f.carries \cup ModOps \cup ({mem[i].w : i \in Items} \cap Ids)
      BY <2>2, CallbackContents
    <3>2. {mem[i].w : i \in Items} \cap Ids \subseteq ClientIds
      BY <1>4, EmptySeq, LenProperties DEF Made, Ids, TypeOK
    <3> QED BY <1>1, <1>3, <1>4, <3>1, <3>2 DEF OwnInv
  <2> QED BY <2>1, <2>2
<1> QED BY <1>1, <1>5, <1>6, <1>7 DEF OwnInv

LEMMA LoopOwns ==
    ASSUME TypeOK, OwnInv, ProcessQueue
    PROVE  OwnInv'
<1>0. PICK h : h = Head(queue)
  OBVIOUS
<1>1. queue # <<>> => h \in Ids
  BY <1>0, HeadTailProperties DEF TypeOK
<1>2. /\ remote' = remote /\ stored' = stored /\ ClientIds' = ClientIds
      /\ \A id \in Ids' : ops'[id].force => IsRefresh(id)'
  <2>1. CASE ops' = ops
    BY <2>1, LoopShape, SameClients DEF OwnInv, IsRefresh
  <2>2. CASE ForceRefresh
    BY <2>2, LoopShape, ForcedGrows DEF ForceRefresh, Push
  <2> QED BY <2>1, <2>2, LoopShape
<1>3. \A c : Made(c) => Made(c)'
  BY <1>2, StaysMade
<1>4. ASSUME NEW g \in flights', g \notin flights PROVE Made(g.data)' /\ g.carries = {}
  <2>1. Nothing = g.data /\ g.carries = {}
    <3>1. CASE ServeGetItems \/ WriteIcs
      BY <1>4, <3>1 DEF ServeGetItems, WriteIcs, Flight
    <3>2. CASE DeleteThrows \/ WriteIcsThrows \/ DoRefresh
      <4>1. (\E id : g = Get(id)) \/ g \in EtagAsked
        BY <1>4, <3>2 DEF DeleteThrows, WriteIcsThrows, DoRefresh
      <4>2. \A id : Get(id).data = Nothing /\ Get(id).carries = {}
        BY DEF Get, Flight
      <4>3. g \in EtagAsked => g = Flight("etag", drain.put)
        BY DEF EtagAsked
      <4>4. \A id : Flight("etag", id).data = Nothing /\ Flight("etag", id).carries = {}
        BY DEF Flight
      <4> QED BY <4>1, <4>2, <4>3, <4>4
    <3>3. CASE \/ ApplyAdd \/ ApplyModify \/ ApplyDelete \/ ServeGetItem \/ NothingToDo
               \/ ForceRefresh \/ UnlockFollows
      BY <1>4, <3>3 DEF ApplyAdd, ApplyModify, ApplyDelete, ServeGetItem, NothingToDo,
         Applied, ForceRefresh, UnlockFollows, Push
    <3> QED BY <3>1, <3>2, <3>3 DEF ProcessQueue
  <2> QED BY <1>3, <2>1, NothingIsMade
<1>5. ASSUME NEW v, NEW status \in {"ok", "mismatch"}, queue # <<>>,
             ops[h].kind # "refresh", Applied(v, status),
             \/ v.w > 0 => v.w \in ClientIds
             \/ v = mem[Op1.item]
      PROVE  OwnInv'
  <2>1. h \in ClientIds
    BY <1>1, <1>5, OwnRequests
  <2>2. PICK m : m = [op |-> h, status |-> status]
    OBVIOUS
  <2>3. m.op = h /\ m.status = status /\ mods' = mods \cup {m} /\ flights' = flights
    BY <1>0, <1>5, <2>2 DEF Applied
  <2>4. Made(mem)'
    <3>1. mem' = [mem EXCEPT ![Op1.item] = v] /\ mem \in [Items -> Version] /\ Made(mem)
      BY <1>5 DEF Applied, OwnInv, TypeOK, Content
    <3>2. \A i \in Items : mem'[i] \in {v, mem[i]} /\ (i = Op1.item => mem'[i] = v)
                           /\ (i # Op1.item => mem'[i] = mem[i])
      BY <3>1
    <3> QED BY <1>2, <1>5, <3>1, <3>2 DEF Made
  <2>5. ModOps' \subseteq ClientIds /\ \A n \in mods' : n.status # "failed"
    BY <1>5, <2>1, <2>3 DEF ModOps, OwnInv
  <2> QED BY <1>2, <1>3, <2>3, <2>4, <2>5 DEF OwnInv, Made
<1>6. CASE ApplyAdd \/ ApplyModify \/ ApplyDelete
  <2>1. queue # <<>> /\ ops[h].kind # "refresh"
    BY <1>0, <1>6 DEF ApplyAdd, ApplyModify, ApplyDelete, Next1
  <2>2. h \in ClientIds /\ Absent.w = 0
    BY <1>1, <2>1, OwnRequests DEF Absent
  <2>3. \A x : [w |-> h, g |-> x].w = h
    OBVIOUS
  <2>4. CASE ApplyAdd
    <3>1. Applied([w |-> h, g |-> 0], "ok")
      BY <1>0, <2>4 DEF ApplyAdd
    <3> QED BY <1>5, <2>1, <2>2, <2>3, <3>1
  <2>5. CASE ApplyModify
    <3>1. \/ \E x : Applied([w |-> h, g |-> x], "ok")
          \/ Applied(mem[Op1.item], "mismatch")
      BY <1>0, <2>5 DEF ApplyModify
    <3> QED BY <1>5, <2>1, <2>2, <2>3, <3>1
  <2>6. CASE ApplyDelete
    <3>1. Applied(Absent, "ok") \/ Applied(mem[Op1.item], "mismatch")
      BY <2>6 DEF ApplyDelete
    <3> QED BY <1>5, <2>1, <2>2, <3>1
  <2> QED BY <1>6, <2>4, <2>5, <2>6
<1>7. CASE \/ DeleteThrows \/ WriteIcsThrows \/ ServeGetItem \/ ServeGetItems \/ WriteIcs
           \/ DoRefresh \/ NothingToDo \/ ForceRefresh \/ UnlockFollows
  <2>1. mem' = mem /\ mods' \subseteq mods
    BY <1>7 DEF DeleteThrows, WriteIcsThrows, WriteGivenUp, ServeGetItem, ServeGetItems,
       WriteIcs, DoRefresh, NothingToDo, ForceRefresh, Push, UnlockFollows, Unlock
  <2> QED BY <1>2, <1>3, <1>4, <2>1 DEF OwnInv, ModOps, Made
<1> QED BY <1>6, <1>7 DEF ProcessQueue

LEMMA OwnNext == TypeOK /\ OwnInv /\ [Next]_vars => OwnInv'
<1> SUFFICES ASSUME TypeOK, OwnInv, [Next]_vars PROVE OwnInv'
  OBVIOUS
<1>1. CASE Requests
  <2>1. PICK r \in RequestType : Enqueue(r) /\ r.force = FALSE
    BY <1>1, RequestsShape
  <2>2. ops' = Append(ops, r) /\ UNCHANGED <<mods, stored, mem, remote, flights>>
    BY <2>1 DEF Enqueue, Push
  <2>3. /\ ClientIds \subseteq ClientIds'
        /\ \A id \in Ids' : ops'[id].force => IsRefresh(id)'
    BY <2>1, <2>2, ClientsGrow DEF OwnInv, IsRefresh
  <2> QED BY <2>2, <2>3 DEF OwnInv, ModOps, Made
<1>2. CASE Serve
  <2>1. PICK f \in flights : ServeGet(f) \/ ServePut(f)
    BY <1>2 DEF Serve
  <2>2. UNCHANGED <<ops, mods, mem>> /\ ClientIds' = ClientIds /\ Ids' = Ids
    BY <2>1, ServeShape, SameClients DEF client
  <2>3. Made(remote.content) /\ Made(f.data) /\ f.carries \subseteq ClientIds
    BY DEF OwnInv
  <2>4. CASE ServeGet(f)
    <3>1. PICK g : /\ Becomes(f, g) /\ g.carries = f.carries
                   /\ g.data \in {f.data, remote.content}
                   /\ UNCHANGED <<remote, stored>>
      BY <2>4, ServeGetShape
    <3> QED BY <2>2, <2>3, <3>1 DEF OwnInv, ModOps, Made, IsRefresh, Becomes
  <2>5. CASE ServePut(f)
    <3>1. PICK g : /\ Becomes(f, g) /\ g.carries = f.carries /\ g.data = f.data
                   /\ Commit(f) \/ UNCHANGED <<remote, stored>>
      BY <2>5, ServePutShape
    <3>2. Made(remote'.content) /\ stored' \subseteq ClientIds
      BY <2>3, <3>1 DEF Commit, OwnInv, TypeOK, FileType
    <3> QED BY <2>2, <2>3, <3>1, <3>2 DEF OwnInv, ModOps, Made, IsRefresh, Becomes
  <2> QED BY <2>1, <2>4, <2>5
<1>3. ASSUME NEW i \in Items, ForeignWrite(i) PROVE OwnInv'
  <2>1. /\ UNCHANGED <<ops, mods, stored, mem, flights>>
        /\ ClientIds' = ClientIds /\ Ids' = Ids
    BY <1>3, SameClients DEF ForeignWrite, client
  <2>2. PICK v, d : /\ v.w \in Int /\ v.w <= 0
                    /\ remote' = [remote EXCEPT !.content = [@ EXCEPT ![i] = v],
                                                !.ver = @ + 1, !.form = d]
    <3>1. PICK v \in {Absent, [w |-> -(foreign + 2), g |-> remote.content[i].g]} :
            \E d : remote' = [remote EXCEPT !.content = [@ EXCEPT ![i] = v],
                                            !.ver = @ + 1, !.form = d]
      BY <1>3, Zenon DEF ForeignWrite
    <3>2. v.w \in Int /\ v.w <= 0
      BY DEF Absent, TypeOK
    <3> QED BY <3>1, <3>2
  <2>3. /\ remote'.content = [remote.content EXCEPT ![i] = v]
        /\ remote.content \in [Items -> Version]
    BY <2>2 DEF TypeOK, FileType, Content
  <2>4. Made(remote.content)'
    <3>1. \A j \in Items : remote'.content[j] = v \/ remote'.content[j] = remote.content[j]
      BY <2>3
    <3>2. remote.content \in [Items -> Version] /\ Made(remote.content)
      BY <2>3 DEF OwnInv
    <3>3. ASSUME NEW j \in Items, remote'.content[j].w > 0
          PROVE  remote'.content[j].w \in ClientIds
      <4>1. remote'.content[j] = remote.content[j]
        BY <2>2, <3>1, <3>3
      <4> QED BY <3>2, <3>3, <4>1 DEF Made
    <3> QED BY <2>1, <3>3 DEF Made
  <2> QED BY <2>1, <2>4 DEF OwnInv, ModOps, Made, IsRefresh
<1>4. CASE ClearReadOnly \/ EnableCalendar \/ UNCHANGED vars
  <2>1. UNCHANGED <<ops, mods, stored, mem, remote, flights>>
        /\ ClientIds' = ClientIds /\ Ids' = Ids
    BY <1>4, SameClients DEF ClearReadOnly, EnableCalendar, vars, client
  <2> QED BY <2>1 DEF OwnInv, ModOps, Made, IsRefresh
<1> QED BY <1>1, <1>2, <1>3, <1>4, LoopOwns, CallbackOwns DEF Next, Callbacks

LEMMA OwnInit == Init => OwnInv
<1> SUFFICES ASSUME Init PROVE OwnInv
  OBVIOUS
<1>1. Ids = {}
  BY EmptySeq DEF Init, Ids
<1>2. Made(remote.content)
  BY DEF Init, Made, Absent
<1> QED BY <1>1, <1>2, NothingIsMade DEF Init, OwnInv, ModOps

-----------------------------------------------------------------------------
(* An edit that is reported as successful is in the file: what a PUT        *)
(* carries is stored before anybody hears of it.                            *)

StoredInv ==
    /\ \A f \in flights :
         /\ f.kind = "read" => ~IsEdit(f.id) /\ ~IsRefresh(f.id)
         /\ f.kind \in {"backup", "collect"} => f.out = "wait"
         /\ f.kind = "put" => ModOps \subseteq f.carries
         /\ f.kind = "put" /\ f.out = "ok" => f.carries \subseteq stored
         /\ f.kind = "etag" => ModOps \subseteq stored
    /\ AckedIsStored

PromiseInv == LockInv /\ WriteInv /\ HomeInv /\ OwnInv /\ StoredInv

\* The chain has ended well, or it has failed, and unlock tells the modifications.
TellsOk(f) ==
    /\ \/ f.kind \in Reading \cup {"etag"}
       \/ f.kind = "put" /\ f.out = "ok"
    /\ Done(f) /\ mods' = {} /\ answers' = Notified("ok")
    /\ UNCHANGED <<ops, stored>>

TellsFailed(f) ==
    /\ Done(f) /\ mods' = {} /\ stored' = stored
    /\ \/ answers' = Notified("failed") /\ ops' = ops
       \/ ForceRefreshAndUnlock("failed")

\* The chain goes on: what is to be written is collected, sent, and stored before the
\* ETag is asked for.
GoesOn(f) ==
    /\ UNCHANGED <<ops, answers, mods, stored>>
    /\ \E g : /\ Becomes(f, g)
              /\ \/ g.kind = "parse"
                 \/ g.kind = "collect" /\ f.kind = "backup" /\ g.out = f.out
                 \/ /\ g.kind = "put" /\ f.kind = "collect" /\ g.out = f.out
                    /\ ModOps \subseteq g.carries
                 \/ g.kind = "etag" /\ f.kind = "put" /\ f.out = "ok"

LEMMA CallbackTells ==
    ASSUME TypeOK, NEW f \in flights, Callback(f)
    PROVE  \/ TellsOk(f) \/ TellsFailed(f) \/ GoesOn(f)
           \/ EtagReplyThrows(f) \/ GetItemsPosted(f)
           \/ PutFailed(f) /\ ~locked
<1>1. f \in FlightType
  BY DEF TypeOK
<1>2. CASE KeepOldData(f) \/ LoadEmpty(f) \/ DecodingFails(f) \/ OnParsingComplete(f)
  <2>1. f.kind \in Reading /\ Unlock("ok", 0) /\ Done(f) /\ UNCHANGED <<ops, stored>>
    BY <1>2 DEF KeepOldData, LoadEmpty, DecodingFails, OnParsingComplete, Ready, Reading
  <2>2. mods' = {} /\ answers' = Notified("ok")
    BY <2>1 DEF Unlock
  <2> QED BY <2>1, <2>2 DEF TellsOk
<1>3. CASE PutSucceeded(f) \/ EtagReply(f)
  <2>1. f.kind = "etag" \/ (f.kind = "put" /\ f.out = "ok")
    BY <1>3 DEF PutSucceeded, EtagReply, Ready
  <2>2. Unlock("ok", 0) \/ Unlock("ok", IF Http THEN f.id ELSE 0)
    BY <1>3 DEF PutSucceeded, EtagReply
  <2>3. Done(f) /\ UNCHANGED <<ops, stored>>
    BY <1>3 DEF PutSucceeded, EtagReply
  <2> QED BY <2>1, <2>2, <2>3 DEF TellsOk, Unlock
<1>4. CASE RefusePut(f) \/ OpeningThrows(f)
  BY <1>4 DEF RefusePut, OpeningThrows, TellsFailed, Unlock, WriteGivenUp
<1>5. CASE PutFailed(f) /\ locked
  BY <1>5 DEF PutFailed, TellsFailed, ForceRefreshAndUnlock
<1>6. CASE StartParsing(f)
  <2>1. PICK g : g = [f EXCEPT !.kind = "parse", !.shown = View]
    OBVIOUS
  <2>2. g.kind = "parse"
    BY <1>1, <2>1 DEF FlightType
  <2> QED BY <1>6, <2>1, <2>2 DEF StartParsing, GoesOn, client
<1>7. CASE BackupDone(f)
  <2>1. PICK g : g = [f EXCEPT !.kind = "collect"]
    OBVIOUS
  <2>2. g.kind = "collect" /\ g.out = f.out
    BY <1>1, <2>1 DEF FlightType
  <2> QED BY <1>7, <2>1, <2>2 DEF BackupDone, GoesOn, client, Ready
<1>8. CASE StartPut(f)
  <2>1. PICK c : c = ModOps \cup ({mem[i].w : i \in Items} \cap Ids)
    OBVIOUS
  <2>2. PICK e : Becomes(f, [f EXCEPT !.kind = "put", !.data = mem, !.carries = c,
                                      !.cond = e])
    BY <1>8, <2>1, Zenon DEF StartPut
  <2>3. PICK g : g = [f EXCEPT !.kind = "put", !.data = mem, !.carries = c, !.cond = e]
    OBVIOUS
  <2>4. g.kind = "put" /\ g.out = f.out /\ g.carries = c
    BY <1>1, <2>3 DEF FlightType
  <2>5. UNCHANGED <<ops, answers, mods, stored>> /\ f.kind = "collect"
    BY <1>8 DEF StartPut, client, Ready
  <2>6. Becomes(f, g) /\ ModOps \subseteq g.carries
    BY <2>1, <2>2, <2>3, <2>4
  <2> QED BY <2>4, <2>5, <2>6 DEF GoesOn
<1>9. CASE AskForEtag(f)
  <2>1. Flight("etag", f.id).kind = "etag"
    BY DEF Flight
  <2> QED BY <1>9, <2>1 DEF AskForEtag, GoesOn, client, Ready
<1> QED BY <1>2, <1>3, <1>4, <1>5, <1>6, <1>7, <1>8, <1>9 DEF Callback

\* unlock tells every modification one outcome, its first, and mixes no success with a
\* failed write; nobody else is told anything.
LEMMA UnlockTells ==
    ASSUME HomeInv, OwnInv, NEW err \in Status, NEW id \in Ids
    PROVE  /\ id \notin ModOps => Notified(err)[id] = answers[id]
           /\ id \in ModOps =>
                /\ answers[id] = <<>>
                /\ \E a \in Status : /\ Notified(err)[id] = <<a>>
                                     /\ err = "ok" => a # "failed"
                                     /\ err = "failed" => a # "ok"
<1>1. DOMAIN answers = Ids
  BY LenProperties DEF HomeInv, TypeOK, Ids
<1>2. CASE id \in ModOps
  <2>1. PICK m \in mods :
          /\ m.op = id
          /\ Notified(err)[id] = Append(answers[id], Told(m, err))
    <3>1. PICK m : m = CHOOSE n \in mods : n.op = id
      OBVIOUS
    <3>2. m \in mods /\ m.op = id
      BY <1>2, <3>1 DEF ModOps
    <3> QED BY <1>1, <1>2, <3>1, <3>2 DEF Notified
  <2>2. answers[id] = <<>>
    BY <1>2 DEF HomeInv, OneHome
  <2>3. /\ Told(m, err) \in Status
        /\ err = "ok" => Told(m, err) # "failed"
        /\ err = "failed" => Told(m, err) # "ok"
    BY <2>1 DEF Told, HomeInv, TypeOK, OwnInv, Status
  <2>4. Append(<<>>, Told(m, err)) = <<Told(m, err)>>
    OBVIOUS
  <2> QED BY <1>2, <2>1, <2>2, <2>3, <2>4
<1>3. CASE id \notin ModOps
  BY <1>1, <1>3 DEF Notified
<1> QED BY <1>2, <1>3

\* Nobody hears of a success when the write has failed.
LEMMA ToldFailed ==
    ASSUME HomeInv, OwnInv, NEW id \in Ids, Notified("failed")[id] = <<"ok">>
    PROVE  answers[id] = <<"ok">>
<1>1. "failed" \in Status
  BY DEF Status
<1>2. id \notin ModOps
  <2>1. SUFFICES ASSUME id \in ModOps PROVE FALSE
    OBVIOUS
  <2>2. PICK a : Notified("failed")[id] = <<a>> /\ a # "ok"
    BY <1>1, <2>1, UnlockTells
  <2> QED BY <2>2
<1> QED BY <1>1, <1>2, UnlockTells

\* A flight of a chain is the only one; when the loop runs there is none.
LEMMA OneChain ==
    ASSUME LockInv, NEW f \in flights, f.kind \in Locking
    PROVE  ~drain.on /\ \A g \in flights : g.kind \in Locking => g = f
BY DEF LockInv, LockIsOneFlight

LEMMA CallbackStores ==
    ASSUME LockIsKept, PromiseInv, NEW f \in flights, Callback(f)
    PROVE  StoredInv'
<1>1. TypeOK /\ LockInv /\ HomeInv /\ OwnInv /\ StoredInv /\ "ok" \in Status /\ "failed" \in Status
  BY DEF PromiseInv, LockInv, Status
<1>2. f.kind \in Locking \/ f.kind = "read"
  BY <1>1 DEF TypeOK, FlightType
<1>3. CASE TellsOk(f)
  <2>1. f.kind \in Locking /\ f.kind # "read"
    BY <1>3 DEF TellsOk, Locking, Reading, Writing
  <2>2. \A g \in flights' : g \in flights /\ g.kind = "read"
    BY <1>1, <1>3, <2>1, OneChain DEF TellsOk, Done, TypeOK, FlightType
  <2>3. ModOps \subseteq stored
    <3>1. CASE f.kind \in Reading
      BY <3>1, ReadersHaveNoEdits DEF PromiseInv, ModOps
    <3>2. CASE f.kind = "etag" \/ (f.kind = "put" /\ f.out = "ok")
      BY <1>1, <3>2 DEF StoredInv
    <3> QED BY <1>3, <3>1, <3>2 DEF TellsOk
  <2>4. ASSUME NEW id \in Ids', IsEdit(id)', answers'[id] = <<"ok">>
        PROVE  id \in stored
    <3>1. id \in Ids /\ IsEdit(id) /\ answers' = Notified("ok")
      BY <1>3, <2>4, SameRequests DEF TellsOk, IsEdit
    <3> QED BY <1>1, <2>3, <2>4, <3>1, UnlockTells DEF StoredInv, AckedIsStored
  <2>5. ops' = ops /\ stored' = stored
    BY <1>3 DEF TellsOk
  <2> QED BY <1>1, <2>2, <2>4, <2>5 DEF StoredInv, AckedIsStored, IsEdit, IsRefresh
<1>4. CASE TellsFailed(f)
  <2>1. /\ \A g \in flights' : g \in flights
        /\ ModOps' = {} /\ stored' = stored
    BY <1>4 DEF TellsFailed, Done, ModOps
  <2>2. /\ \A id \in Ids : ops'[id] = ops[id]
        /\ \A id \in Ids : answers'[id] = Notified("failed")[id]
        /\ \A id \in Ids' : id \in Ids \/ answers'[id] = <<>>
    <3>1. CASE answers' = Notified("failed") /\ ops' = ops
      BY <3>1, SameRequests
    <3>2. CASE ForceRefreshAndUnlock("failed")
      <4>3. ops' = Append(ops, Forced) /\ answers' = Append(Notified("failed"), <<>>)
        BY <3>2 DEF ForceRefreshAndUnlock
      <4>4. Notified("failed") \in Seq(Seq(Status)) /\ Len(Notified("failed")) = Len(ops)
        BY <1>1, NotifiedType DEF TypeOK
      <4>5. <<>> \in Seq(Status) /\ Len(ops) \in Nat
        BY EmptySeq, LenProperties DEF PromiseInv, LockInv, TypeOK
      <4>6. /\ \A id \in 1..Len(ops) : answers'[id] = Notified("failed")[id]
            /\ answers'[Len(ops) + 1] = <<>>
        BY <4>3, <4>4, <4>5, AppendProperties
      <4> QED BY <1>1, <4>3, <4>6, ForcedType, ClientsGrow DEF Ids
    <3> QED BY <1>4, <3>1, <3>2 DEF TellsFailed
  <2>3. Len(<<>>) = 0 /\ Len(<<"ok">>) = 1
    BY EmptySeq
  <2>4. ASSUME NEW id \in Ids', IsEdit(id)', answers'[id] = <<"ok">>
        PROVE  id \in stored
    <3>1. id \in Ids
      BY <2>2, <2>3, <2>4
    <3>2. IsEdit(id) /\ Notified("failed")[id] = <<"ok">>
      BY <2>2, <2>4, <3>1 DEF IsEdit
    <3> QED BY <1>1, <3>1, <3>2, ToldFailed DEF StoredInv, AckedIsStored
  <2>5. \A g \in flights : g.id \in Ids
    BY <1>1 DEF TypeOK, FlightType
  <2> QED BY <1>1, <2>1, <2>2, <2>4, <2>5 DEF StoredInv, AckedIsStored, IsEdit, IsRefresh
<1>5. CASE GoesOn(f)
  <2>1. PICK g : /\ Becomes(f, g)
                 /\ \/ g.kind = "parse"
                    \/ g.kind = "collect" /\ f.kind = "backup" /\ g.out = f.out
                    \/ /\ g.kind = "put" /\ f.kind = "collect" /\ g.out = f.out
                       /\ ModOps \subseteq g.carries
                    \/ g.kind = "etag" /\ f.kind = "put" /\ f.out = "ok"
    BY <1>5 DEF GoesOn
  <2>2. UNCHANGED <<ops, answers, mods, stored>> /\ Ids' = Ids /\ ModOps' = ModOps
    BY <1>5, SameRequests DEF GoesOn, ModOps
  <2>3. /\ g.kind # "read"
        /\ g.kind \in {"backup", "collect"} => g.out = "wait"
        /\ g.kind = "put" => ModOps \subseteq g.carries
        /\ g.kind = "put" /\ g.out = "ok" => g.carries \subseteq stored
        /\ g.kind = "etag" => ModOps \subseteq stored
    BY <1>1, <2>1 DEF StoredInv
  <2> QED BY <1>1, <2>1, <2>2, <2>3 DEF Becomes, StoredInv, AckedIsStored, IsEdit, IsRefresh
<1>6. ~EtagReplyThrows(f)
  BY <1>1, EtagsAreRead
<1>7. CASE GetItemsPosted(f)
  <2>1. /\ answers' = [answers EXCEPT ![f.id] = Append(@, "ok")]
        /\ UNCHANGED <<ops, mods, stored>> /\ flights' = flights \ {f} /\ f.kind = "read"
    BY <1>7 DEF GetItemsPosted, Done, Ready
  <2>2. Ids' = Ids /\ ModOps' = ModOps /\ ~IsEdit(f.id)
    BY <1>1, <2>1, SameRequests DEF ModOps, StoredInv
  <2>3. DOMAIN answers = Ids
    BY <1>1, LenProperties DEF TypeOK, Ids
  <2>4. \A id \in Ids : IsEdit(id) => answers'[id] = answers[id]
    BY <2>1, <2>2, <2>3
  <2> QED BY <1>1, <2>1, <2>2, <2>4 DEF StoredInv, AckedIsStored, IsEdit, IsRefresh
<1>8. ~(PutFailed(f) /\ ~locked)
  BY <1>1 DEF PutFailed, Ready, LockInv, LockIsOneFlight, Locking, Writing
<1> QED BY <1>1, <1>3, <1>4, <1>5, <1>6, <1>7, <1>8, CallbackTells

\* While the loop runs no chain is under way, and those that it answers itself are reads.
LEMMA PushStores ==
    ASSUME PromiseInv, NEW r \in RequestType, Push(r)
    PROVE  StoredInv'
<1>1. TypeOK /\ StoredInv
  BY DEF PromiseInv, LockInv
<1>2. /\ ops' = Append(ops, r) /\ answers' = Append(answers, <<>>)
      /\ UNCHANGED <<mods, stored, flights>> /\ ModOps' = ModOps
  BY DEF Push, ModOps
<1>3. /\ \A id \in Ids : ops'[id] = ops[id] /\ answers'[id] = answers[id]
      /\ \A id \in Ids' : id \in Ids \/ answers'[id] = <<>>
  <2>1. <<>> \in Seq(Status) /\ Len(ops) \in Nat
    BY <1>1, EmptySeq, LenProperties DEF TypeOK
  <2>2. /\ \A id \in 1..Len(ops) : answers'[id] = answers[id]
        /\ answers'[Len(ops) + 1] = <<>>
    BY <1>1, <1>2, <2>1, AppendProperties DEF TypeOK
  <2> QED BY <1>1, <1>2, <2>2, ClientsGrow DEF Ids
<1>4. <<>> # <<"ok">>
  BY EmptySeq
<1>5. \A g \in flights : g.id \in Ids
  BY <1>1 DEF TypeOK, FlightType
<1> QED BY <1>1, <1>2, <1>3, <1>4, <1>5 DEF StoredInv, AckedIsStored, IsEdit, IsRefresh

LEMMA LoopStores ==
    ASSUME "delete" \notin Kinds, PromiseInv, ProcessQueue, drain.on
    PROVE  StoredInv'
<1>0. PICK h : h = Head(queue)
  OBVIOUS
<1>1. /\ TypeOK /\ LockInv /\ StoredInv /\ drain.on
      /\ ops' = ops /\ stored' = stored /\ Ids' = Ids /\ HomeInv /\ OwnInv
  BY LoopShape, SameRequests DEF PromiseInv, LockInv, ForceRefresh
<1>2. queue # <<>> => h \in Ids
  BY <1>0, <1>1, HeadTailProperties DEF TypeOK
<1>3. \A g \in flights : g.kind = "read" /\ ~IsEdit(g.id) /\ ~IsRefresh(g.id)
  BY <1>1, OneChain DEF StoredInv, TypeOK, FlightType
<1>4. ASSUME \A g \in flights' : \/ g \in flights
                                 \/ g.kind = "get"
                                 \/ g.kind = "backup" /\ g.out = "wait"
                                 \/ g.kind = "read" /\ ~IsEdit(g.id) /\ ~IsRefresh(g.id),
             \A id \in Ids : IsEdit(id) /\ answers'[id] = <<"ok">> => answers[id] = <<"ok">>
      PROVE  StoredInv'
  BY <1>1, <1>3, <1>4 DEF StoredInv, AckedIsStored, IsEdit, IsRefresh
<1>5. CASE ApplyAdd \/ ApplyModify \/ ApplyDelete \/ NothingToDo
  <2>1. flights' = flights /\ answers' = answers
    BY <1>5 DEF ApplyAdd, ApplyModify, ApplyDelete, Applied, NothingToDo, client
  <2> QED BY <1>4, <2>1
<1>6. ~DeleteThrows
  BY <1>0, <1>1, <1>2, NoDeletes DEF DeleteThrows, Next1, LockInv
<1>7. CASE ServeGetItem
  <2>1. /\ flights' = flights /\ answers' = [answers EXCEPT ![h] = Append(@, "ok")]
        /\ ~IsEdit(h) /\ h \in Ids
    BY <1>0, <1>2, <1>7 DEF ServeGetItem, Next1, IsEdit, EditKinds
  <2>2. DOMAIN answers = Ids
    BY <1>1, LenProperties DEF TypeOK, Ids
  <2>3. \A id \in Ids : IsEdit(id) => answers'[id] = answers[id]
    BY <2>1, <2>2
  <2> QED BY <1>4, <2>1, <2>3
<1>8. CASE ServeGetItems
  <2>1. /\ flights' = flights \cup {Flight("read", h)} /\ answers' = answers
        /\ ~IsEdit(h) /\ ~IsRefresh(h)
    BY <1>0, <1>8 DEF ServeGetItems, Next1, IsEdit, IsRefresh, EditKinds, client
  <2>2. Flight("read", h).kind = "read" /\ Flight("read", h).id = h
    BY DEF Flight
  <2> QED BY <1>4, <2>1, <2>2
<1>9. CASE WriteIcs
  <2>1. flights' = flights \cup {Flight("backup", drain.last)} /\ answers' = answers
    BY <1>9 DEF WriteIcs, client
  <2>2. Flight("backup", drain.last).kind = "backup"
        /\ Flight("backup", drain.last).out = "wait"
    BY DEF Flight
  <2> QED BY <1>4, <2>1, <2>2
<1>10. CASE DoRefresh
  <2>1. answers' = answers
    BY <1>10 DEF DoRefresh, client
  <2>2. flights' = flights \cup {Get(h)}
    BY <1>0, <1>10 DEF DoRefresh
  <2> QED BY <1>4, <2>1, <2>2, GetKind
<1>11. CASE WriteIcsThrows
  <2>1. answers' = Notified("failed")
    BY <1>11 DEF WriteIcsThrows, WriteGivenUp
  <2>2. \A g \in flights' : g \in flights \/ g = Get(h) \/ g \in EtagAsked
    BY <1>0, <1>11 DEF WriteIcsThrows
  <2>3. ModOps' = {}
    BY <1>11 DEF WriteIcsThrows, WriteGivenUp, ModOps
  <2>4. \A g \in EtagAsked : g.kind = "etag"
    BY DEF EtagAsked, Flight
  <2>5. \A id \in Ids : answers'[id] = <<"ok">> => answers[id] = <<"ok">>
    BY <1>1, <2>1, ToldFailed
  <2>6. \A g \in flights' : \/ g.kind = "read" /\ ~IsEdit(g.id) /\ ~IsRefresh(g.id)
                            \/ g.kind \in {"get", "etag"}
    BY <1>3, <2>2, <2>4, GetKind
  <2> QED BY <1>1, <2>3, <2>5, <2>6 DEF StoredInv, AckedIsStored, IsEdit, IsRefresh
<1> QED
  BY <1>1, <1>5, <1>6, <1>7, <1>8, <1>9, <1>10, <1>11 DEF ProcessQueue, ForceRefresh, UnlockFollows

LEMMA ServeStores ==
    ASSUME PromiseInv, NEW f \in flights, ServeGet(f) \/ ServePut(f)
    PROVE  StoredInv'
<1>1. TypeOK /\ StoredInv
  BY DEF PromiseInv, LockInv
<1>2. /\ UNCHANGED <<ops, answers, mods>> /\ Ids' = Ids /\ ModOps' = ModOps
  BY <1>1, ServeShape, SameRequests DEF client, ModOps
<1>3. CASE ServeGet(f)
  <2>1. PICK g : Becomes(f, g) /\ g.kind = "get" /\ UNCHANGED stored
    BY <1>1, <1>3, ServeGetShape
  <2> QED BY <1>1, <1>2, <2>1 DEF StoredInv, AckedIsStored, IsEdit, IsRefresh, Becomes
<1>4. CASE ServePut(f)
  <2>1. PICK g : /\ Becomes(f, g) /\ g.kind = "put" /\ f.kind = "put" /\ g.carries = f.carries
                 /\ Commit(f) \/ (g.out = "error" /\ UNCHANGED stored)
    BY <1>1, <1>4, ServePutShape
  <2>2. stored \subseteq stored' /\ (g.out = "ok" => g.carries \subseteq stored')
    BY <2>1 DEF Commit
  <2> QED BY <1>1, <1>2, <2>1, <2>2 DEF StoredInv, AckedIsStored, IsEdit, IsRefresh, Becomes
<1> QED BY <1>3, <1>4

LEMMA StoredNext ==
    ASSUME LockIsKept, "delete" \notin Kinds, PromiseInv, [Next]_vars
    PROVE  StoredInv'
<1>1. TypeOK /\ StoredInv
  BY DEF PromiseInv, LockInv
<1>2. CASE Requests
  BY <1>1, <1>2, RequestsShape, PushStores DEF Enqueue
<1>4. CASE ProcessQueue
  <2>1. CASE drain.on
    BY <1>4, <2>1, LoopStores
  <2>2. CASE ForceRefresh
    BY <2>2, ForcedType, PushStores DEF ForceRefresh
  <2>3. ~UnlockFollows
    BY DEF UnlockFollows, PromiseInv, LockInv, EtagInv
  <2> QED BY <1>1, <1>4, <2>1, <2>2, <2>3, LoopShape
<1>3. CASE \/ \E i \in Items : ForeignWrite(i)
           \/ ClearReadOnly \/ EnableCalendar \/ UNCHANGED vars
  <2>1. UNCHANGED <<ops, answers, mods, stored, flights>> /\ ModOps' = ModOps /\ Ids' = Ids
    BY <1>3, SameRequests DEF ForeignWrite, ClearReadOnly, EnableCalendar, vars, client, ModOps
  <2> QED BY <1>1, <2>1 DEF StoredInv, AckedIsStored, IsEdit, IsRefresh
<1> QED
  BY <1>2, <1>3, <1>4, ServeStores, CallbackStores DEF Next, Serve, Callbacks

LEMMA PromiseInit == Init => PromiseInv
<1> SUFFICES ASSUME Init PROVE PromiseInv
  OBVIOUS
<1>1. LockInv /\ OwnInv
  BY LockInit, OwnInit
<1>2. Ids = {}
  BY EmptySeq DEF Init, Ids
<1>3. WriteInv
  BY DEF Init, WriteInv
<1>4. HomeInv
  BY HomeInit
<1>5. StoredInv
  BY <1>2 DEF Init, StoredInv, AckedIsStored
<1> QED BY <1>1, <1>3, <1>4, <1>5 DEF PromiseInv

LEMMA PromiseNext ==
    ASSUME LockIsKept, "delete" \notin Kinds, PromiseInv, [Next]_vars
    PROVE  PromiseInv'
<1>3. \A f \in flights : ~EtagReplyThrows(f)
  BY EtagsAreRead DEF PromiseInv
<1>1. LockInv' /\ WriteInv' /\ OwnInv' /\ StoredInv'
  BY <1>3, LockNext, WriteNext, OwnNext, StoredNext DEF PromiseInv, LockInv
<1>2. HomeInv'
  BY HomeNext DEF PromiseInv
<1> QED BY <1>1, <1>2 DEF PromiseInv

\* A client that is told that its edit has succeeded finds it in the file: some PUT that
\* carried it was accepted before anybody was told.
THEOREM AckedEditsAreStored ==
    ASSUME LockIsKept, "delete" \notin Kinds
    PROVE  Spec => []AckedIsStored
<1>1. PromiseInv /\ [Next]_vars => PromiseInv'
  BY PromiseNext
<1>2. PromiseInv => AckedIsStored
  BY DEF PromiseInv, StoredInv
<1> QED BY PromiseInit, <1>1, <1>2, PTL DEF Spec

-----------------------------------------------------------------------------
(* The provider implements CalendarPromise: every step of it is a request,  *)
(* a write, a set of answers, or nothing that a client can see.             *)

LEMMA PromiseStarts == Init => Promise!Init
<1> SUFFICES ASSUME Init PROVE Promise!Init
  OBVIOUS
<1>1. ClientIds = {}
  BY EmptySeq DEF Init, ClientIds, Ids
<1>2. \A s : s \in Seq({}) /\ Len(s) = 0 => s = <<>>
  BY EmptySeq
<1>3. /\ [id \in ClientIds |-> ops[id].kind] = <<>>
      /\ [id \in ClientIds |-> answers[id]] = <<>>
  BY <1>1
<1> QED BY <1>3 DEF Init, Promise!Init

\* The steps of the promise that the provider takes.
LEMMA PromiseStutters ==
    ASSUME UNCHANGED <<ops, answers, stored>>
    PROVE  UNCHANGED Promise!vars
BY SameClients DEF Promise!vars

LEMMA PromiseTells ==
    ASSUME TypeOK, NEW S \in SUBSET ClientIds, stored' = stored,
           ClientIds' = ClientIds, \A id \in Ids : ops'[id] = ops[id],
           \A id \in S : /\ answers[id] = <<>>
                         /\ \E a \in Status : answers'[id] = <<a>>
                         /\ IsEdit(id) /\ answers'[id] = <<"ok">> => id \in stored,
           \A id \in ClientIds \ S : answers'[id] = answers[id],
           ~ \E r, t \in S : answers'[r] = <<"ok">> /\ answers'[t] = <<"failed">>
    PROVE  Promise!Tell(S)
<1>1. ClientIds \subseteq Ids
  BY DEF ClientIds
<1>2. [id \in ClientIds |-> ops[id].kind]' = [id \in ClientIds |-> ops[id].kind]
  BY <1>1
<1>3. \A id \in ClientIds : /\ [x \in ClientIds |-> answers[x]][id] = answers[id]
                            /\ [x \in ClientIds |-> answers[x]]'[id] = answers'[id]
                            /\ [x \in ClientIds |-> ops[x].kind][id] = ops[id].kind
  OBVIOUS
<1>4. DOMAIN [id \in ClientIds |-> ops[id].kind] = ClientIds
  OBVIOUS
<1> QED BY <1>1, <1>2, <1>3, <1>4 DEF Promise!Tell, Promise!Answers, Status, IsEdit

LEMMA PromiseMakes ==
    ASSUME TypeOK, NEW r \in RequestType, r.force = FALSE, Enqueue(r)
    PROVE  Promise!Make
<1>1. PICK n : n = Len(ops) + 1
  OBVIOUS
<1>2. /\ ops' = Append(ops, r) /\ answers' = Append(answers, <<>>) /\ stored' = stored
  BY DEF Enqueue, Push
<1>3. /\ ClientIds' = ClientIds \cup {n} /\ n \notin Ids /\ ClientIds \subseteq Ids
      /\ \A id \in Ids : ops'[id] = ops[id]
      /\ ops'[n] = r
  BY <1>1, <1>2, ClientsGrow DEF ClientIds
<1>4. /\ \A id \in Ids : answers'[id] = answers[id]
      /\ answers'[n] = <<>>
  <2>1. <<>> \in Seq(Status) /\ Len(ops) \in Nat
    BY EmptySeq, LenProperties DEF TypeOK
  <2> QED BY <1>1, <1>2, <2>1, AppendProperties DEF TypeOK, Ids
<1>5. r.kind \in OpKinds
  BY DEF RequestType
<1>6. /\ DOMAIN [id \in ClientIds |-> ops[id].kind] = ClientIds
      /\ DOMAIN [id \in ClientIds |-> ops[id].kind]' = ClientIds \cup {n}
  BY <1>3
<1>7. [id \in ClientIds |-> ops[id].kind]'
        = [x \in DOMAIN [id \in ClientIds |-> ops[id].kind]' |->
             IF x = n THEN r.kind ELSE [id \in ClientIds |-> ops[id].kind][x]]
  BY <1>3
<1>8. [id \in ClientIds |-> answers[id]]'
        = [x \in DOMAIN [id \in ClientIds |-> ops[id].kind]' |->
             IF x = n THEN <<>> ELSE [id \in ClientIds |-> answers[id]][x]]
  BY <1>3, <1>4
<1>9. /\ n \in (DOMAIN [id \in ClientIds |-> ops[id].kind]')
                \ DOMAIN [id \in ClientIds |-> ops[id].kind]
      /\ DOMAIN [id \in ClientIds |-> ops[id].kind]'
           = DOMAIN [id \in ClientIds |-> ops[id].kind] \cup {n}
  BY <1>3, <1>6
<1> QED BY <1>2, <1>5, <1>7, <1>8, <1>9, Zenon DEF Promise!Make

LEMMA PromiseKeeps ==
    ASSUME OwnInv, OwnInv', UNCHANGED <<ops, answers>>, stored \subseteq stored'
    PROVE  Promise!Keep
<1>1. ClientIds' = ClientIds
  BY SameClients
<1>2. DOMAIN [id \in ClientIds |-> ops[id].kind] = ClientIds
  OBVIOUS
<1>3. stored' \subseteq ClientIds
  BY <1>1 DEF OwnInv
<1> QED BY <1>1, <1>2, <1>3 DEF Promise!Keep

\* One request of a client's is answered, which is no edit.
LEMMA PromiseTellsOne ==
    ASSUME TypeOK, OwnInv, NEW id \in Ids, ~IsEdit(id), ~IsRefresh(id), answers[id] = <<>>,
           answers' = [answers EXCEPT ![id] = Append(@, "ok")],
           UNCHANGED <<ops, stored>>
    PROVE  \E S \in SUBSET ClientIds : Promise!Tell(S)
<1>1. id \in ClientIds /\ ClientIds' = ClientIds /\ ClientIds \subseteq Ids
  BY OwnRequests, SameClients DEF IsRefresh, ClientIds
<1>2. DOMAIN answers = Ids
  BY LenProperties DEF TypeOK, Ids
<1>3. Append(<<>>, "ok") = <<"ok">> /\ <<"ok">> # <<"failed">> /\ "ok" \in Status
  BY DEF Status
<1>4. /\ answers'[id] = <<"ok">>
      /\ \A x \in ClientIds \ {id} : answers'[x] = answers[x]
  BY <1>1, <1>2, <1>3
<1>5. {id} \in SUBSET ClientIds
  BY <1>1
<1>6. Promise!Tell({id})
  <2>1. ~ \E r, t \in {id} : answers'[r] = <<"ok">> /\ answers'[t] = <<"failed">>
    BY <1>3, <1>4
  <2>2. \A x \in {id} : /\ answers[x] = <<>>
                        /\ \E a \in Status : answers'[x] = <<a>>
                        /\ IsEdit(x) /\ answers'[x] = <<"ok">> => x \in stored
    BY <1>3, <1>4
  <2> QED BY <1>1, <1>4, <1>5, <2>1, <2>2, PromiseTells
<1> QED BY <1>5, <1>6

\* unlock answers all modifications in one step.
LEMMA PromiseTellsAll ==
    ASSUME PromiseInv, NEW err \in {"ok", "failed"},
           \A id \in Ids : ops'[id] = ops[id] /\ answers'[id] = Notified(err)[id],
           ClientIds' = ClientIds, stored' = stored, err = "ok" => ModOps \subseteq stored
    PROVE  \E S \in SUBSET ClientIds : Promise!Tell(S)
<1>0. PICK S : S = ModOps
  OBVIOUS
<1>1. TypeOK /\ HomeInv /\ OwnInv /\ LockInv /\ StoredInv
  BY DEF PromiseInv, LockInv
<1>2. ModOps \in SUBSET ClientIds /\ ClientIds \subseteq Ids
  BY <1>1 DEF OwnInv, ClientIds
<1>3. /\ \A id \in Ids : ops'[id] = ops[id] /\ answers'[id] = Notified(err)[id]
      /\ ClientIds' = ClientIds /\ stored' = stored
      /\ err = "ok" => ModOps \subseteq stored
  OBVIOUS
<1>4. err \in Status
  BY DEF Status
<1>5. \A id \in ClientIds \ S : answers'[id] = answers[id]
  BY <1>0, <1>1, <1>2, <1>3, <1>4, UnlockTells
<1>6. ASSUME NEW id \in S
      PROVE  /\ answers[id] = <<>>
             /\ \E a \in Status : /\ answers'[id] = <<a>>
                                  /\ err = "ok" => a # "failed"
                                  /\ err = "failed" => a # "ok"
  <2>1. id \in Ids /\ id \in ModOps /\ answers'[id] = Notified(err)[id]
    BY <1>0, <1>2, <1>3
  <2> QED BY <1>1, <1>4, <2>1, UnlockTells
<1>7. ASSUME NEW id \in S, answers'[id] = <<"ok">> PROVE err # "failed"
  <2>1. PICK a : answers'[id] = <<a>> /\ (err = "failed" => a # "ok")
    BY <1>6
  <2> QED BY <1>7, <2>1
<1>8. ASSUME NEW id \in S, answers'[id] = <<"failed">> PROVE err # "ok"
  <2>1. PICK a : answers'[id] = <<a>> /\ (err = "ok" => a # "failed")
    BY <1>6
  <2> QED BY <1>8, <2>1
<1>9. \A id \in S : answers'[id] = <<"ok">> => id \in stored
  BY <1>0, <1>3, <1>7
<1>10. ~ \E r, t \in S : answers'[r] = <<"ok">> /\ answers'[t] = <<"failed">>
  BY <1>3, <1>7, <1>8
<1>11. \A id \in S : /\ answers[id] = <<>>
                     /\ \E a \in Status : answers'[id] = <<a>>
                     /\ IsEdit(id) /\ answers'[id] = <<"ok">> => id \in stored
  BY <1>6, <1>9
<1>12. S \in SUBSET ClientIds
  BY <1>0, <1>2
<1>13. stored' = stored /\ ClientIds' = ClientIds /\ \A id \in Ids : ops'[id] = ops[id]
  BY <1>3
<1>14. Promise!Tell(S)
  BY <1>1, <1>5, <1>10, <1>11, <1>12, <1>13, PromiseTells
<1> QED BY <1>12, <1>14

LEMMA PromiseUnlocks ==
    ASSUME PromiseInv, NEW f \in flights, TellsOk(f) \/ TellsFailed(f)
    PROVE  \E S \in SUBSET ClientIds : Promise!Tell(S)
<1>1. TypeOK /\ HomeInv /\ OwnInv /\ LockInv /\ StoredInv
  BY DEF PromiseInv, LockInv
<1>3. PICK err \in {"ok", "failed"} :
        /\ \A id \in Ids : ops'[id] = ops[id] /\ answers'[id] = Notified(err)[id]
        /\ ClientIds' = ClientIds /\ stored' = stored
        /\ err = "ok" => ModOps \subseteq stored
  <2>1. CASE TellsOk(f)
    <3>1. ModOps \subseteq stored
      <4>1. CASE f.kind \in Reading
        BY <4>1, ReadersHaveNoEdits DEF PromiseInv, ModOps
      <4>2. CASE f.kind = "etag" \/ (f.kind = "put" /\ f.out = "ok")
        BY <1>1, <4>2 DEF StoredInv
      <4> QED BY <2>1, <4>1, <4>2 DEF TellsOk
    <3> QED BY <2>1, <3>1, SameClients DEF TellsOk
  <2>2. CASE TellsFailed(f) /\ answers' = Notified("failed") /\ ops' = ops
    BY <2>2, SameClients DEF TellsFailed
  <2>3. CASE TellsFailed(f) /\ ForceRefreshAndUnlock("failed")
    <3>2. Forced \in RequestType /\ Forced.force
      BY ForcedType DEF Forced, Request
    <3>3. ops' = Append(ops, Forced) /\ answers' = Append(Notified("failed"), <<>>)
      BY <2>3 DEF ForceRefreshAndUnlock
    <3>4. Notified("failed") \in Seq(Seq(Status)) /\ Len(Notified("failed")) = Len(ops)
      BY <1>1, NotifiedType DEF TypeOK, Status
    <3>5. <<>> \in Seq(Status) /\ Len(ops) \in Nat
      BY <1>1, EmptySeq, LenProperties DEF TypeOK
    <3>6. \A id \in 1..Len(ops) : answers'[id] = Notified("failed")[id]
      BY <3>3, <3>4, <3>5, AppendProperties
    <3>7. ClientIds' = ClientIds /\ \A id \in Ids : ops'[id] = ops[id]
      BY <1>1, <3>2, <3>3, ClientsGrow
    <3>8. stored' = stored
      BY <2>3 DEF TellsFailed
    <3> QED BY <3>6, <3>7, <3>8 DEF Ids
  <2> QED BY <2>1, <2>2, <2>3 DEF TellsFailed
<1> QED BY <1>3, PromiseTellsAll

\* The provider's own request is nothing that a client can see.
LEMMA PromiseForces ==
    ASSUME TypeOK, ForceRefresh
    PROVE  \E S \in SUBSET ClientIds : Promise!Tell(S)
<1>1. /\ ops' = Append(ops, Forced) /\ answers' = Append(answers, <<>>)
      /\ stored' = stored
  BY DEF ForceRefresh, Push
<1>2. Forced.force
  BY DEF Forced, Request
<1>3. ClientIds' = ClientIds /\ \A id \in Ids : ops'[id] = ops[id]
  BY <1>1, <1>2, ForcedType, ClientsGrow
<1>4. \A id \in Ids : answers'[id] = answers[id]
  <2>1. <<>> \in Seq(Status) /\ Len(ops) \in Nat
    BY EmptySeq, LenProperties DEF TypeOK
  <2> QED BY <1>1, <2>1, AppendProperties DEF TypeOK, Ids
<1>5. PICK S : S = {}
  OBVIOUS
<1>6. /\ S \in SUBSET ClientIds
      /\ \A id \in S : /\ answers[id] = <<>>
                       /\ \E a \in Status : answers'[id] = <<a>>
                       /\ IsEdit(id) /\ answers'[id] = <<"ok">> => id \in stored
      /\ ~ \E p, t \in S : answers'[p] = <<"ok">> /\ answers'[t] = <<"failed">>
  BY <1>5
<1>7. \A id \in ClientIds \ S : answers'[id] = answers[id]
  BY <1>4 DEF ClientIds
<1>8. Promise!Tell(S)
  BY <1>1, <1>3, <1>6, <1>7, PromiseTells
<1> QED BY <1>6, <1>8

LEMMA PromiseLoop ==
    ASSUME "delete" \notin Kinds, PromiseInv, ProcessQueue
    PROVE  (\E S \in SUBSET ClientIds : Promise!Tell(S)) \/ UNCHANGED Promise!vars
<1>0. TypeOK /\ LockInv
  BY DEF PromiseInv, LockInv
<1>5. CASE ForceRefresh
  BY <1>0, <1>5, PromiseForces
<1>6. CASE WriteIcsThrows
  <2>1. answers' = Notified("failed") /\ ops' = ops /\ stored' = stored
    BY <1>6 DEF WriteIcsThrows, WriteGivenUp
  <2> QED BY <2>1, SameClients, PromiseTellsAll
<1>7. SUFFICES ASSUME ~ForceRefresh, ~WriteIcsThrows
               PROVE  (\E S \in SUBSET ClientIds : Promise!Tell(S)) \/ UNCHANGED Promise!vars
  BY <1>5, <1>6
<1>1. ops' = ops /\ stored' = stored
  BY <1>0, <1>7, LoopShape
<1>2. CASE answers' = answers
  BY <1>1, <1>2, PromiseStutters
<1>3. CASE ServeGetItem
  <2>1. PICK h : h = Head(queue)
    OBVIOUS
  <2>2. /\ queue # <<>> /\ answers' = [answers EXCEPT ![h] = Append(@, "ok")]
        /\ ops[h].kind = "get_item" /\ queue' = Tail(queue)
    BY <1>3, <2>1 DEF ServeGetItem, Next1
  <2>3. h \in Ids /\ answers[h] = <<>>
    BY <2>1, <2>2, Shift DEF PromiseInv, HomeInv, OneHome
  <2>4. ~IsEdit(h) /\ ~IsRefresh(h)
    BY <2>2 DEF IsEdit, IsRefresh, EditKinds
  <2> QED BY <1>1, <2>2, <2>3, <2>4, PromiseTellsOne DEF PromiseInv, LockInv
<1>4. ASSUME ~ServeGetItem PROVE answers' = answers
  <2>1. ~DeleteThrows
    <3>1. queue # <<>> => Head(queue) \in Ids
      BY <1>0, HeadTailProperties DEF TypeOK
    <3> QED BY <1>0, <3>1, NoDeletes DEF DeleteThrows, Next1, LockInv
  <2>2. ~UnlockFollows
    BY <1>0 DEF UnlockFollows, LockInv, EtagInv
  <2> QED BY <1>4, <1>7, <2>1, <2>2 DEF ProcessQueue, ApplyAdd, ApplyModify, ApplyDelete,
     ServeGetItems, WriteIcs, DoRefresh, NothingToDo, Applied, client
<1> QED BY <1>2, <1>3, <1>4

LEMMA PromiseCallback ==
    ASSUME LockIsKept, PromiseInv, NEW f \in flights, Callback(f)
    PROVE  (\E S \in SUBSET ClientIds : Promise!Tell(S)) \/ UNCHANGED Promise!vars
<1>1. TypeOK /\ HomeInv /\ OwnInv /\ LockInv /\ StoredInv
  BY DEF PromiseInv, LockInv
<1>2. CASE TellsOk(f) \/ TellsFailed(f)
  BY <1>2, PromiseUnlocks
<1>3. CASE GoesOn(f)
  BY <1>3, PromiseStutters DEF GoesOn
<1>4. ~EtagReplyThrows(f)
  BY <1>1, EtagsAreRead
<1>6. ~(PutFailed(f) /\ ~locked)
  BY <1>1 DEF PutFailed, Ready, LockInv, LockIsOneFlight, Locking, Writing
<1>5. CASE GetItemsPosted(f)
  <2>1. /\ answers' = [answers EXCEPT ![f.id] = Append(@, "ok")]
        /\ UNCHANGED <<ops, stored>> /\ f.kind = "read"
    BY <1>5 DEF GetItemsPosted, Ready
  <2>2. f.id \in Ids /\ ~IsEdit(f.id) /\ ~IsRefresh(f.id) /\ answers[f.id] = <<>>
    BY <1>1, <2>1 DEF TypeOK, FlightType, StoredInv, HomeInv, OneHome, Posted
  <2> QED BY <1>1, <2>1, <2>2, PromiseTellsOne
<1> QED BY <1>1, <1>2, <1>3, <1>4, <1>5, <1>6, CallbackTells

LEMMA PromiseStep ==
    ASSUME LockIsKept, "delete" \notin Kinds, PromiseInv, [Next]_vars
    PROVE  [Promise!Next]_(Promise!vars)
<1>1. TypeOK /\ OwnInv /\ OwnInv'
  BY PromiseNext DEF PromiseInv, LockInv
<1>2. DOMAIN [id \in ClientIds |-> ops[id].kind] = ClientIds
  OBVIOUS
<1>3. ASSUME NEW S \in SUBSET ClientIds, Promise!Tell(S) PROVE Promise!Next
  BY <1>2, <1>3 DEF Promise!Next
<1>4. CASE Requests
  <2>1. PICK r \in RequestType : Enqueue(r) /\ r.force = FALSE
    BY <1>1, <1>4, RequestsShape
  <2>2. Promise!Make
    BY <1>1, <2>1, PromiseMakes
  <2> QED BY <2>2 DEF Promise!Next
<1>5. CASE Serve
  <2>1. PICK f \in flights : ServeGet(f) \/ ServePut(f)
    BY <1>5 DEF Serve
  <2>2. UNCHANGED <<ops, answers>>
    BY <1>1, <2>1, ServeShape DEF client
  <2>3. stored \subseteq stored'
    <3>1. CASE ServeGet(f)
      BY <1>1, <3>1, ServeGetShape
    <3>2. CASE ServePut(f)
      BY <1>1, <3>2, ServePutShape DEF Commit
    <3> QED BY <2>1, <3>1, <3>2
  <2>4. Promise!Keep
    BY <1>1, <2>2, <2>3, PromiseKeeps
  <2> QED BY <2>4 DEF Promise!Next
<1>6. CASE \/ \E i \in Items : ForeignWrite(i)
           \/ ClearReadOnly \/ EnableCalendar \/ UNCHANGED vars
  <2>1. UNCHANGED <<ops, answers, stored>>
    BY <1>6 DEF ForeignWrite, ClearReadOnly, EnableCalendar, vars, client
  <2> QED BY <2>1, PromiseStutters
<1>7. CASE ProcessQueue
  BY <1>3, <1>7, PromiseLoop
<1>8. CASE Callbacks
  BY <1>3, <1>8, PromiseCallback DEF Callbacks
<1> QED BY <1>4, <1>5, <1>6, <1>7, <1>8 DEF Next

\* The provider implements what calICalendar.idl promises its clients: one answer each,
\* success only for what is in the file, one outcome for what is written together.
THEOREM ProviderKeepsPromise ==
    ASSUME LockIsKept, "delete" \notin Kinds
    PROVE  Spec => KeepsPromise
<1>1. PromiseInv /\ [Next]_vars => PromiseInv'
  BY PromiseNext
<1>2. PromiseInv /\ [Next]_vars => [Promise!Next]_(Promise!vars)
  BY PromiseStep
<1> QED
  BY PromiseInit, PromiseStarts, <1>1, <1>2, PTL DEF Spec, KeepsPromise, Promise!Spec

-----------------------------------------------------------------------------
(* What the If header of a PUT protects: a PUT that names an ETag takes      *)
(* nothing from the file that another writer has put there, but what a       *)
(* client has edited.  The ETag is that of the file the memory calendar was  *)
(* made from, and edits since were made to those very versions.              *)

\* Another writer leaves the file readable, or damaged in such a way that the memory
\* calendar is never taken for what it holds: with a file that is not UTF-8 or does not
\* parse, the memory calendar has the ETag of a file whose items it has lost.
FileIsRead == Damage \subseteq {"component"}

\* What a flight has got, or has sent, when the file is on an HTTP server.
GotInv(f) ==
    /\ f.kind = "get" /\ f.out = "ok" /\ f.ver = remote.ver => f.data = remote.content
    /\ f.kind = "parse" /\ stamp = remote.ver => f.data = remote.content
    /\ f.kind = "put" =>
         /\ f.data = mem
         /\ f.out = "ok" /\ f.ver = remote.ver => f.data = remote.content
         /\ f.cond # 0 /\ f.cond = remote.ver => KeepsForeign(remote.content, f.data)

\* The versions of the file are numbered upwards, and a flight knows none that is not
\* there yet; what is parsed goes into an empty memory calendar.
FlightInv(f) ==
    /\ f.ver <= remote.ver /\ f.cond <= remote.ver /\ f.form \in {"good", "component"}
    /\ f.kind = "put" /\ f.cond # 0 => Http
    /\ f.kind \in {"backup", "collect"} => f.out = "wait"
    /\ f.kind = "parse" => mem = Nothing
    /\ Http => GotInv(f)

HeaderInv ==
    /\ stamp <= remote.ver /\ remote.form \in {"good", "component"}
    /\ \A f \in flights : FlightInv(f)
    /\ Http /\ stamp # 0 /\ stamp = remote.ver /\ ~Parsing =>
         KeepsForeign(remote.content, mem)

\* Requests stay what they are.
OpsStay == \A id \in Ids : id \in Ids' /\ ops'[id] = ops[id]

LEMMA SameOpsStay == ops' = ops => OpsStay
BY DEF OpsStay, Ids

LEMMA MoreOpsStay ==
    ASSUME TypeOK, NEW r \in RequestType, ops' = Append(ops, r)
    PROVE  OpsStay
<1>1. Len(ops) \in Nat /\ Ids' = 1..(Len(ops) + 1)
  BY OneMoreRequest
<1> QED BY <1>1, AppendProperties DEF TypeOK, OpsStay, Ids

LEMMA KeepsItself == \A c : KeepsForeign(c, c)
BY DEF KeepsForeign

LEMMA StillKeeps ==
    ASSUME OpsStay, NEW old, NEW new, KeepsForeign(old, new)
    PROVE  KeepsForeign(old, new)'
<1>1. ASSUME NEW i \in Items, new[i] # old[i]
      PROVE  /\ new[i].w >= 0
             /\ \E id \in Ids' : /\ IsEdit(id)' /\ ops'[id].item = i
                                 /\ new[i] = Absent => ops'[id].kind = "delete"
                                 /\ \/ ops'[id].kind # "modify" \/ old[i].w > 0
                                    \/ ops'[id].base = old[i]
  <2>1. PICK id \in Ids : /\ IsEdit(id) /\ ops[id].item = i
                          /\ new[i] = Absent => ops[id].kind = "delete"
                          /\ \/ ops[id].kind # "modify" \/ old[i].w > 0
                             \/ ops[id].base = old[i]
    BY <1>1 DEF KeepsForeign
  <2>2. id \in Ids' /\ ops'[id] = ops[id]
    BY DEF OpsStay
  <2> QED BY <1>1, <2>1, <2>2 DEF KeepsForeign, IsEdit
<1> QED BY <1>1 DEF KeepsForeign

\* Nothing that the invariant speaks of changes, but for flights that come and go.
LEMMA FlightStays ==
    ASSUME OpsStay, UNCHANGED <<remote, mem, stamp>>, NEW f, FlightInv(f)
    PROVE  FlightInv(f)'
<1>1. PICK c : c = remote.content
  OBVIOUS
<1>2. KeepsForeign(c, f.data) => KeepsForeign(c, f.data)'
  BY StillKeeps
<1> QED BY <1>1, <1>2 DEF FlightInv, GotInv, Http

LEMMA HeaderStays ==
    ASSUME HeaderInv, OpsStay, UNCHANGED <<remote, mem, stamp>>,
           \A g \in flights' : g \in flights \/ FlightInv(g),
           Parsing => Parsing'
    PROVE  HeaderInv'
<1>1. PICK c, m : c = remote.content /\ m = mem
  OBVIOUS
<1>2. KeepsForeign(c, m) => KeepsForeign(c, m)'
  BY StillKeeps
<1>3. \A g \in flights' : FlightInv(g)'
  BY FlightStays DEF HeaderInv
<1> QED BY <1>1, <1>2, <1>3 DEF HeaderInv, Http

\* An edit that is applied is made to the version that it names.
LEMMA EditKeeps ==
    ASSUME TypeOK, NEW old, KeepsForeign(old, mem), ApplyAdd \/ ApplyModify \/ ApplyDelete
    PROVE  KeepsForeign(old, mem')
<1>0. PICK h : h = Head(queue)
  OBVIOUS
<1>1. /\ queue # <<>> /\ h \in Ids /\ ops[h].kind \in EditKinds /\ Op1 = ops[h]
      /\ h >= 0 /\ h # 0
  <2>1. queue # <<>> /\ ops[h].kind \in EditKinds
    BY <1>0 DEF ApplyAdd, ApplyModify, ApplyDelete, Next1, EditKinds
  <2>2. h \in Ids
    BY <1>0, <2>1, HeadTailProperties DEF TypeOK
  <2>3. h >= 0 /\ h # 0
    BY <2>2, LenProperties DEF Ids, TypeOK
  <2> QED BY <1>0, <2>1, <2>2, <2>3 DEF Op1
<1>2. PICK j : j = ops[h].item
  OBVIOUS
<1>3. mem \in [Items -> Version]
  BY DEF TypeOK, Content
<1>4. ASSUME mem' = [mem EXCEPT ![j] = mem[j]] PROVE mem' = mem
  BY <1>3, <1>4
<1>5. ASSUME NEW v, mem' = [mem EXCEPT ![j] = v], v.w >= 0,
             v = Absent => ops[h].kind = "delete",
             ops[h].kind = "modify" => ops[h].base = mem[j] /\ mem[j] # Absent
      PROVE  KeepsForeign(old, mem')
  <2>1. SUFFICES ASSUME NEW i \in Items, mem'[i] # old[i]
                 PROVE  /\ mem'[i].w >= 0
                        /\ \E id \in Ids :
                             /\ IsEdit(id) /\ ops[id].item = i
                             /\ mem'[i] = Absent => ops[id].kind = "delete"
                             /\ \/ ops[id].kind # "modify" \/ old[i].w > 0
                                \/ ops[id].base = old[i]
    BY DEF KeepsForeign
  <2>2. CASE i # j
    <3>1. mem'[i] = mem[i]
      BY <1>3, <1>5, <2>2
    <3> QED BY <2>1, <3>1 DEF KeepsForeign
  <2>3. CASE i = j /\ (ops[h].kind # "modify" \/ mem[i] = old[i])
    <3>1. mem'[i] = v /\ IsEdit(h)
      BY <1>1, <1>3, <1>5, <2>3 DEF IsEdit
    <3> QED BY <1>1, <1>2, <1>5, <2>3, <3>1
  <2>4. CASE i = j /\ ops[h].kind = "modify" /\ mem[i] # old[i]
    <3>1. mem'[i] = v
      BY <1>3, <1>5, <2>4
    <3>2. v # Absent
      BY <1>5, <2>4
    <3>3. PICK id \in Ids : /\ IsEdit(id) /\ ops[id].item = i
                            /\ \/ ops[id].kind # "modify" \/ old[i].w > 0
                               \/ ops[id].base = old[i]
      BY <2>4 DEF KeepsForeign
    <3> QED BY <1>5, <3>1, <3>2, <3>3
  <2> QED BY <2>2, <2>3, <2>4
<1>6. /\ Absent.w >= 0
      /\ \A x : [w |-> h, g |-> x].w >= 0 /\ [w |-> h, g |-> x] # Absent
  BY <1>1 DEF Absent
<1>7. CASE ApplyAdd
  <2>1. ops[h].kind = "add" /\ mem' = [mem EXCEPT ![j] = [w |-> h, g |-> 0]]
    BY <1>0, <1>1, <1>2, <1>7 DEF ApplyAdd, Applied, Next1
  <2>2. PICK v : v = [w |-> h, g |-> 0]
    OBVIOUS
  <2>3. mem' = [mem EXCEPT ![j] = v] /\ v.w >= 0 /\ v # Absent
    BY <1>6, <2>1, <2>2
  <2> QED BY <1>5, <2>1, <2>3
<1>8. CASE ApplyModify
  <2>1. /\ ops[h].kind = "modify"
        /\ \/ /\ mem[j] # Absent /\ mem[j] = ops[h].base
              /\ \E x : mem' = [mem EXCEPT ![j] = [w |-> h, g |-> x]]
           \/ mem' = [mem EXCEPT ![j] = mem[j]]
    BY <1>0, <1>1, <1>2, <1>8 DEF ApplyModify, Applied, Next1
  <2>2. CASE mem' = [mem EXCEPT ![j] = mem[j]]
    BY <1>4, <2>2
  <2>3. ASSUME mem[j] # Absent, mem[j] = ops[h].base,
               NEW x, mem' = [mem EXCEPT ![j] = [w |-> h, g |-> x]]
        PROVE  KeepsForeign(old, mem')
    <3>1. PICK v : v = [w |-> h, g |-> x]
      OBVIOUS
    <3>2. mem' = [mem EXCEPT ![j] = v] /\ v.w >= 0 /\ v # Absent
      BY <1>6, <2>3, <3>1
    <3> QED BY <1>5, <2>3, <3>2
  <2> QED BY <2>1, <2>2, <2>3
<1>9. CASE ApplyDelete
  <2>1. /\ ops[h].kind = "delete"
        /\ \/ mem' = [mem EXCEPT ![j] = Absent]
           \/ mem' = [mem EXCEPT ![j] = mem[j]]
    BY <1>0, <1>1, <1>2, <1>9 DEF ApplyDelete, Applied, Next1
  <2> QED BY <1>4, <1>5, <1>6, <2>1
<1> QED BY <1>7, <1>8, <1>9

\* A flight that has just taken off has got nothing.
LEMMA FreshFlight ==
    ASSUME TypeOK, HeaderInv, NEW g, g.ver = 0, g.cond \in {0, stamp}, g.form = "good",
           g.out = "wait", g.kind \notin {"put", "parse"}
    PROVE  FlightInv(g)
<1>1. remote.ver \in Nat /\ stamp \in Nat
  BY DEF TypeOK, FileType
<1> QED BY <1>1 DEF FlightInv, GotInv, HeaderInv

LEMMA LoopHeader ==
    ASSUME LockInv, HeaderInv, ProcessQueue
    PROVE  HeaderInv'
<1>0. TypeOK /\ OpsStay /\ remote' = remote
  <2>1. ForceRefresh => ops' = Append(ops, Forced)
    BY DEF ForceRefresh, Push
  <2> QED BY <2>1, LoopShape, SameOpsStay, MoreOpsStay, ForcedType DEF LockInv
<1>1. \A k, id : LET g == Flight(k, id) IN
        /\ g.kind = k /\ g.ver = 0 /\ g.cond = 0 /\ g.form = "good" /\ g.out = "wait"
  BY DEF Flight
<1>2. CASE ApplyAdd \/ ApplyModify \/ ApplyDelete
  <2>1. flights' = flights /\ stamp' = stamp
    BY <1>2 DEF ApplyAdd, ApplyModify, ApplyDelete, Applied
  <2>0. drain.on
    BY <1>2 DEF ApplyAdd, ApplyModify, ApplyDelete, Next1
  <2>2. \A g \in flights : g.kind = "read"
    BY <1>0, <2>0 DEF LockInv, LockIsOneFlight, TypeOK, FlightType
  <2>3. \A g \in flights' : FlightInv(g)'
    BY <1>0, <2>1, <2>2 DEF HeaderInv, FlightInv, GotInv
  <2>4. PICK c, m : c = remote.content /\ m = mem'
    OBVIOUS
  <2>5. KeepsForeign(c, mem) => KeepsForeign(c, m)
    BY <1>0, <1>2, <2>4, EditKeeps
  <2>6. KeepsForeign(c, m) => KeepsForeign(c, m)'
    BY <1>0, StillKeeps
  <2>7. ~Parsing /\ Http' = Http
    BY <1>0, <2>2 DEF Parsing, Http
  <2> QED BY <1>0, <2>1, <2>3, <2>4, <2>5, <2>6, <2>7 DEF HeaderInv
<1>3. CASE \/ ServeGetItem \/ ServeGetItems \/ WriteIcs \/ NothingToDo
           \/ ForceRefresh \/ UnlockFollows
  <2>1. /\ UNCHANGED <<mem, stamp>> /\ flights \subseteq flights'
        /\ \A g \in flights' : \/ g \in flights
                               \/ \E k \in {"read", "backup"} : \E id : g = Flight(k, id)
    BY <1>3 DEF ServeGetItem, ServeGetItems, WriteIcs, NothingToDo, ForceRefresh, Push,
       UnlockFollows
  <2>2. ASSUME NEW g \in flights', g \notin flights PROVE FlightInv(g)
    <3>1. PICK k, id : k \in {"read", "backup"} /\ g = Flight(k, id)
      BY <2>1, <2>2
    <3> QED BY <1>0, <1>1, <3>1, FreshFlight
  <2>3. Parsing => Parsing'
    BY <2>1 DEF Parsing
  <2> QED BY <1>0, <2>1, <2>2, <2>3, HeaderStays
<1>4. CASE DoRefresh \/ DeleteThrows \/ WriteIcsThrows
  <2>1. /\ UNCHANGED <<mem, stamp>> /\ flights \subseteq flights'
        /\ \A g \in flights' : g \in flights \/ (\E id : g = Get(id)) \/ g \in EtagAsked
    BY <1>4 DEF DoRefresh, DeleteThrows, WriteIcsThrows
  <2>2. ASSUME NEW id PROVE FlightInv(Get(id))
    <3>1. PICK g : g = Get(id)
      OBVIOUS
    <3>2. /\ g.kind = "get" /\ g.ver = 0 /\ g.cond \in {0, stamp} /\ g.form = "good"
          /\ g.out = "wait"
      BY <3>1 DEF Get, Flight
    <3> QED BY <1>0, <3>1, <3>2, FreshFlight
  <2>3. ASSUME NEW g \in EtagAsked PROVE FlightInv(g)
    <3>1. g = Flight("etag", drain.put)
      BY DEF EtagAsked
    <3> QED BY <1>0, <1>1, <3>1, FreshFlight
  <2>4. Parsing => Parsing'
    BY <2>1 DEF Parsing
  <2> QED BY <1>0, <2>1, <2>2, <2>3, <2>4, HeaderStays
<1> QED BY <1>2, <1>3, <1>4 DEF ProcessQueue

LEMMA ServeHeader ==
    ASSUME LockInv, HeaderInv, NEW f \in flights, ServeGet(f) \/ ServePut(f)
    PROVE  HeaderInv'
<1>0. /\ TypeOK /\ OpsStay /\ UNCHANGED <<mem, stamp>> /\ FlightInv(f) /\ f \in FlightType
      /\ remote.ver \in Nat /\ stamp \in Nat /\ remote \in FileType
  BY ServeShape, SameOpsStay DEF LockInv, client, HeaderInv, TypeOK, FileType
<1>1. CASE ServeGet(f)
  <2>1. PICK g : /\ Becomes(f, g) /\ g.kind = "get" /\ f.kind = "get" /\ remote' = remote
                 /\ \/ g.ver = f.ver /\ g.form = f.form
                    \/ g.ver = remote.ver /\ g.form = remote.form
                 /\ g.out = "ok" => g.ver = remote.ver /\ g.data = remote.content
                 /\ g.cond = f.cond
    BY <1>0, <1>1, ServeGetShape
  <2>2. FlightInv(g)
    BY <1>0, <2>1 DEF FlightInv, GotInv, HeaderInv
  <2>3. Parsing => Parsing'
    BY <2>1 DEF Parsing, Becomes
  <2> QED BY <1>0, <2>1, <2>2, <2>3, HeaderStays DEF Becomes
<1>2. CASE ServePut(f)
  <2>1. PICK g : /\ Becomes(f, g) /\ g.kind = "put" /\ f.kind = "put"
                 /\ g.cond = f.cond /\ g.data = f.data /\ g.form = f.form
                 /\ \/ /\ g.out = "error" /\ g.ver = f.ver /\ UNCHANGED <<remote, stored>>
                    \/ /\ f.cond \in {0, remote.ver} /\ Commit(f)
                       /\ \/ g.out = "error" /\ g.ver = f.ver
                          \/ g.out = "ok" /\ g.ver = remote.ver + 1
    BY <1>0, <1>2, ServePutShape
  <2>2. Parsing => Parsing'
    BY <2>1 DEF Parsing, Becomes
  <2>3. CASE UNCHANGED remote /\ g.out = "error" /\ g.ver = f.ver
    <3>1. FlightInv(g)
      BY <1>0, <2>1, <2>3 DEF FlightInv, GotInv
    <3> QED BY <1>0, <2>1, <2>2, <2>3, <3>1, HeaderStays DEF Becomes
  <2>4. CASE /\ Commit(f)
             /\ \/ g.out = "error" /\ g.ver = f.ver
                \/ g.out = "ok" /\ g.ver = remote.ver + 1
    <3>1. /\ remote'.content = f.data /\ remote'.ver = remote.ver + 1
          /\ remote'.form = "good" /\ Http' = Http
      BY <1>0, <2>4 DEF Commit, FileType, Http
    <3>2. \A x \in flights' : x = g \/ (x \in flights /\ x.kind = "read")
      BY <2>1 DEF Becomes, LockInv, LockIsOneFlight, TypeOK, FlightType, Locking, Writing
    <3>3. FlightInv(g)'
      BY <1>0, <2>1, <2>4, <3>1 DEF FlightInv, GotInv, FlightType
    <3>4. ASSUME NEW x \in flights', x # g PROVE FlightInv(x)'
      BY <1>0, <3>1, <3>2, <3>4 DEF FlightInv, GotInv, HeaderInv, TypeOK, FlightType
    <3> QED BY <1>0, <3>1, <3>3, <3>4 DEF HeaderInv
  <2> QED BY <2>1, <2>3, <2>4
<1> QED BY <1>1, <1>2

\* A flight of a chain is the only one besides posted reads, and those have nothing.
LEMMA OthersAreReads ==
    ASSUME LockInv, NEW f \in flights, f.kind \in Locking
    PROVE  \A x \in flights : x = f \/ x.kind = "read"
BY DEF LockInv, LockIsOneFlight, TypeOK, FlightType

LEMMA ReadsFly ==
    ASSUME HeaderInv, remote' = remote, NEW x \in flights, x.kind = "read"
    PROVE  FlightInv(x)'
BY DEF HeaderInv, FlightInv, GotInv

\* The chain ends, with whatever stamp and memory calendar it leaves.
LEMMA HeaderEnds ==
    ASSUME LockInv, HeaderInv, OpsStay, NEW f \in flights, f.kind \in Locking, Done(f),
           remote' = remote, stamp' <= remote.ver,
           Http /\ stamp' # 0 /\ stamp' = remote.ver => KeepsForeign(remote.content, mem')
    PROVE  HeaderInv'
<1>1. \A x \in flights' : FlightInv(x)'
  BY OthersAreReads, ReadsFly DEF Done
<1>2. PICK c, m : c = remote.content /\ m = mem'
  OBVIOUS
<1>3. KeepsForeign(c, m) => KeepsForeign(c, m)'
  BY StillKeeps
<1> QED BY <1>1, <1>2, <1>3 DEF HeaderInv, Http

LEMMA CallbackHeader ==
    ASSUME LockIsKept, LockInv, HeaderInv, NEW f \in flights, Callback(f)
    PROVE  HeaderInv'
<1>0. /\ TypeOK /\ FlightInv(f) /\ f \in FlightType /\ remote' = remote
      /\ remote.ver \in Nat /\ stamp \in Nat /\ f.ver \in Nat /\ f.ver <= remote.ver
  <2>1. remote' = remote
    BY DEF Callback, KeepOldData, LoadEmpty, DecodingFails, StartParsing,
       OnParsingComplete, BackupDone, StartPut, RefusePut, OpeningThrows,
       PutFailed, PutSucceeded, AskForEtag, EtagReply, EtagReplyThrows, GetItemsPosted
  <2> QED BY <2>1 DEF LockInv, HeaderInv, FlightInv, TypeOK, FileType, FlightType
<1>1. OpsStay
  <2>1. ops' = ops \/ ops' = Append(ops, Forced)
    BY DEF Callback, KeepOldData, LoadEmpty, DecodingFails, StartParsing, client,
       OnParsingComplete, BackupDone, StartPut, RefusePut, OpeningThrows, PutFailed,
       ForceRefreshAndUnlock, PutSucceeded, AskForEtag, EtagReply, EtagReplyThrows,
       GetItemsPosted
  <2> QED BY <1>0, <2>1, ForcedType, MoreOpsStay, SameOpsStay
<1>2. Http => (f.kind = "get" /\ f.out = "ok" /\ f.ver = remote.ver => f.data = remote.content)
  BY <1>0 DEF FlightInv, GotInv
<1>3. Stamp(f) <= remote.ver /\ (Http => Stamp(f) = f.ver)
  BY <1>0 DEF Stamp
<1>4. CASE \/ KeepOldData(f) \/ RefusePut(f) \/ OpeningThrows(f)
           \/ PutFailed(f) \/ EtagReplyThrows(f) \/ GetItemsPosted(f)
  <2>1. UNCHANGED <<mem, stamp>> /\ flights' = flights \ {f} /\ f.kind # "parse"
    BY <1>4 DEF KeepOldData, RefusePut, OpeningThrows, PutFailed,
       EtagReplyThrows, GetItemsPosted, Done, Ready
  <2>2. Parsing => Parsing'
    BY <2>1 DEF Parsing
  <2> QED BY <1>0, <1>1, <2>1, <2>2, HeaderStays
<1>5. CASE LoadEmpty(f)
  <2>1. /\ stamp' = Stamp(f) /\ mem' = Nothing /\ f.data = Nothing /\ Done(f)
        /\ f.kind = "get" /\ f.out = "ok"
    BY <1>5 DEF LoadEmpty, Ready
  <2>2. f.kind \in Locking
    BY <2>1 DEF Locking, Reading
  <2>3. Http /\ stamp' = remote.ver => KeepsForeign(remote.content, mem')
    BY <1>2, <1>3, <2>1, KeepsItself
  <2> QED BY <1>0, <1>1, <1>3, <2>1, <2>2, <2>3, HeaderEnds
<1>6. ~DecodingFails(f)
  BY <1>0 DEF DecodingFails, FlightInv
<1>7. CASE StartParsing(f)
  <2>1. PICK g : g = [f EXCEPT !.kind = "parse", !.shown = View]
    OBVIOUS
  <2>2. /\ g.kind = "parse" /\ g.data = f.data /\ g.ver = f.ver /\ g.cond = f.cond
        /\ g.form = f.form
    BY <1>0, <2>1 DEF FlightType
  <2>3. /\ stamp' = Stamp(f) /\ Becomes(f, g) /\ f.kind = "get" /\ f.out = "ok"
        /\ mem' = Nothing
    BY <1>7, <2>1 DEF StartParsing, Ready
  <2>4. f.kind \in Locking
    BY <2>3 DEF Locking, Reading
  <2>5. FlightInv(g)'
    BY <1>0, <1>2, <1>3, <2>2, <2>3 DEF FlightInv, GotInv, Http
  <2>6. \A x \in flights' : FlightInv(x)'
    BY <1>0, <2>3, <2>4, <2>5, OthersAreReads, ReadsFly DEF Becomes
  <2>7. Parsing'
    BY <2>2, <2>3 DEF Parsing, Becomes
  <2> QED BY <1>0, <1>3, <2>3, <2>6, <2>7 DEF HeaderInv
<1>8. CASE OnParsingComplete(f)
  <2>0. /\ mem' = [i \in Items |-> IF f.form = "good" /\ f.data[i] # Absent
                                  THEN f.data[i] ELSE mem[i]]
        /\ f.form = "good" /\ mem = Nothing /\ f.data \in Content
    BY <1>0, <1>8 DEF OnParsingComplete, Ready, FlightInv, FlightType
  <2>1. /\ mem' = f.data /\ Done(f) /\ stamp' = stamp /\ f.kind = "parse"
    <3>1. mem' = f.data
      BY <2>0 DEF Nothing, Content
    <3> QED BY <1>8, <3>1 DEF OnParsingComplete, Ready
  <2>2. f.kind \in Locking
    BY <2>1 DEF Locking, Reading
  <2>3. Http /\ stamp' = remote.ver => KeepsForeign(remote.content, mem')
    BY <1>0, <2>1, KeepsItself DEF FlightInv, GotInv
  <2>4. stamp' <= remote.ver
    BY <2>1 DEF HeaderInv
  <2> QED BY <1>0, <1>1, <2>1, <2>2, <2>3, <2>4, HeaderEnds
<1>9. CASE BackupDone(f)
  <2>1. PICK g : g = [f EXCEPT !.kind = "collect"]
    OBVIOUS
  <2>2. /\ g.kind = "collect" /\ g.ver = f.ver /\ g.cond = f.cond /\ g.form = f.form
        /\ g.out = f.out
    BY <1>0, <2>1 DEF FlightType
  <2>3. /\ UNCHANGED <<mem, stamp>> /\ Becomes(f, g) /\ f.kind = "backup"
    BY <1>9, <2>1 DEF BackupDone, Ready
  <2>4. FlightInv(g)
    BY <1>0, <2>2, <2>3 DEF FlightInv, GotInv
  <2>5. Parsing => Parsing'
    BY <2>3 DEF Parsing, Becomes
  <2> QED BY <1>0, <1>1, <2>3, <2>4, <2>5, HeaderStays DEF Becomes
<1>10. CASE StartPut(f)
  <2>1. PICK c : Becomes(f, [f EXCEPT !.kind = "put", !.data = mem, !.carries = c,
                                      !.cond = IF Http THEN stamp ELSE 0])
    BY <1>10, Zenon DEF StartPut
  <2>2. PICK g : g = [f EXCEPT !.kind = "put", !.data = mem, !.carries = c,
                               !.cond = IF Http THEN stamp ELSE 0]
    OBVIOUS
  <2>3. /\ g.kind = "put" /\ g.ver = f.ver /\ g.form = f.form /\ g.out = f.out
        /\ g.data = mem /\ g.cond = IF Http THEN stamp ELSE 0
    BY <1>0, <2>2 DEF FlightType
  <2>4. /\ UNCHANGED <<mem, stamp>> /\ f.kind = "collect" /\ Becomes(f, g)
    BY <1>10, <2>1, <2>2 DEF StartPut, Ready
  <2>5. ~Parsing
    BY <2>4, OthersAreReads DEF Parsing, Locking, Writing
  <2>6. FlightInv(g)
    <3>1. f.out = "wait" /\ stamp <= remote.ver
      BY <1>0, <2>4 DEF FlightInv, HeaderInv
    <3>2. Http => (stamp # 0 /\ stamp = remote.ver => KeepsForeign(remote.content, mem))
      BY <2>5 DEF HeaderInv
    <3> QED BY <1>0, <2>3, <3>1, <3>2 DEF FlightInv, GotInv
  <2> QED BY <1>0, <1>1, <2>4, <2>5, <2>6, HeaderStays DEF Becomes
<1>11. CASE PutSucceeded(f)
  <2>1. /\ stamp' = Stamp(f) /\ mem' = mem /\ Done(f) /\ f.kind = "put" /\ f.out = "ok"
    BY <1>11 DEF PutSucceeded, Ready
  <2>2. f.kind \in Locking
    BY <2>1 DEF Locking, Writing
  <2>3. Http /\ stamp' = remote.ver => KeepsForeign(remote.content, mem')
    BY <1>0, <1>3, <2>1, KeepsItself DEF FlightInv, GotInv
  <2> QED BY <1>0, <1>1, <1>3, <2>1, <2>2, <2>3, HeaderEnds
<1>12. CASE AskForEtag(f)
  <2>1. PICK g : g = Flight("etag", f.id)
    OBVIOUS
  <2>2. g.kind = "etag" /\ g.ver = 0 /\ g.cond = 0 /\ g.form = "good" /\ g.out = "wait"
    BY <2>1 DEF Flight
  <2>3. /\ UNCHANGED <<mem, stamp>> /\ Becomes(f, g) /\ f.kind = "put"
    BY <1>12, <2>1 DEF AskForEtag, Ready
  <2>4. FlightInv(g)
    BY <1>0, <2>2, FreshFlight
  <2>5. Parsing => Parsing'
    BY <2>3 DEF Parsing, Becomes
  <2> QED BY <1>0, <1>1, <2>3, <2>4, <2>5, HeaderStays DEF Becomes
<1>13. CASE EtagReply(f)
  <2>1. stamp' = 0 /\ Done(f) /\ f.kind = "etag"
    BY <1>13 DEF EtagReply, Ready
  <2>2. f.kind \in Locking
    BY <2>1 DEF Locking, Writing
  <2> QED BY <1>0, <1>1, <2>1, <2>2, HeaderEnds
<1> QED
  BY <1>4, <1>5, <1>6, <1>7, <1>8, <1>9, <1>10, <1>11, <1>12, <1>13 DEF Callback

LEMMA HeaderNext ==
    ASSUME LockIsKept, FileIsRead, LockInv, HeaderInv, [Next]_vars
    PROVE  HeaderInv'
<1>0. TypeOK
  BY DEF LockInv
<1>1. CASE Requests
  <2>1. PICK r \in RequestType : Enqueue(r)
    BY <1>0, <1>1, RequestsShape
  <2>2. UNCHANGED <<mem, stamp, remote, flights>> /\ ops' = Append(ops, r)
    BY <2>1 DEF Enqueue, Push
  <2>3. Parsing => Parsing'
    BY <2>2 DEF Parsing
  <2> QED BY <1>0, <2>2, <2>3, MoreOpsStay, HeaderStays
<1>2. ASSUME NEW i \in Items, ForeignWrite(i) PROVE HeaderInv'
  <2>1. PICK v, d : /\ remote' = [remote EXCEPT !.content = [@ EXCEPT ![i] = v],
                                                !.ver = @ + 1, !.form = d]
                    /\ d \in Damage \cup {"good"}
    BY <1>2, Zenon DEF ForeignWrite
  <2>2. /\ remote'.ver = remote.ver + 1 /\ remote'.form = d /\ remote'.at = remote.at
        /\ remote.ver \in Nat /\ stamp \in Nat
    BY <1>0, <2>1 DEF TypeOK, FileType
  <2>3. UNCHANGED <<mem, stamp, flights>> /\ d \in {"good", "component"} /\ Http' = Http
    BY <1>2, <2>1, <2>2 DEF ForeignWrite, FileIsRead, Http
  <2>4. ASSUME NEW f \in flights PROVE FlightInv(f)'
    <3>1. FlightInv(f) /\ f.ver \in Nat /\ f.cond \in Nat /\ stamp <= remote.ver
      BY <1>0 DEF HeaderInv, TypeOK, FlightType
    <3> QED BY <2>2, <2>3, <3>1 DEF FlightInv, GotInv
  <2> QED BY <2>2, <2>3, <2>4 DEF HeaderInv
<1>3. CASE ClearReadOnly \/ EnableCalendar \/ UNCHANGED vars
  <2>1. UNCHANGED <<mem, stamp, remote, flights, ops>>
    BY <1>3 DEF ClearReadOnly, EnableCalendar, vars, client
  <2>2. Parsing => Parsing'
    BY <2>1 DEF Parsing
  <2> QED BY <1>0, <2>1, <2>2, SameOpsStay, HeaderStays
<1> QED
  BY <1>1, <1>2, <1>3, LoopHeader, ServeHeader, CallbackHeader DEF Next, Serve, Callbacks

LEMMA HeaderInit == Init => HeaderInv
<1> SUFFICES ASSUME Init PROVE HeaderInv
  OBVIOUS
<1>1. remote.ver \in Nat /\ remote.form = "good" /\ stamp \in {0, remote.ver}
  BY DEF Init
<1>2. stamp # 0 => mem = remote.content
  BY DEF Init
<1> QED BY <1>1, <1>2, KeepsItself DEF Init, HeaderInv

\* A PUT that names an ETag never overwrites what another writer has put into the file,
\* unless a client has edited that very version.
THEOREM IfHeaderProtects ==
    ASSUME LockIsKept, FileIsRead
    PROVE  Spec => IfHeaderKeepsForeign
<1>1. LockInv /\ HeaderInv /\ [Next]_vars => (LockInv /\ HeaderInv)'
  BY LockNext, HeaderNext
<1>2. LockInv /\ HeaderInv /\ [Next]_vars =>
        [\A f \in flights : PutCommits(f) /\ f.cond # 0 =>
            KeepsForeign(remote.content, remote'.content)]_vars
  <2> SUFFICES ASSUME LockInv, HeaderInv, NEW f \in flights, PutCommits(f), f.cond # 0
               PROVE  KeepsForeign(remote.content, remote'.content)
    OBVIOUS
  <2>1. /\ f.kind = "put" /\ ServePut(f) /\ remote' # remote /\ TypeOK
    BY DEF PutCommits, LockInv
  <2>2. f.cond = remote.ver /\ Commit(f)
    BY <2>1, ServePutShape
  <2>3. remote'.content = f.data
    BY <2>1, <2>2 DEF Commit, TypeOK, FileType
  <2>4. Http /\ FlightInv(f)
    BY <2>1 DEF HeaderInv, FlightInv
  <2> QED BY <2>1, <2>2, <2>3, <2>4 DEF FlightInv, GotInv
<1> QED BY LockInit, HeaderInit, <1>1, <1>2, PTL DEF Spec, IfHeaderKeepsForeign

=============================================================================
