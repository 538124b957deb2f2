---------------------- MODULE TransactionManagerProofs ----------------------
(***************************************************************************)
(* What is proved of undo and redo, for any number of calendars, items,     *)
(* transactions and steps: the state keeps its types, and no item is lost.   *)
(***************************************************************************)
EXTENDS TransactionManager, SequenceTheorems, WellFoundedInduction, TLAPS

-----------------------------------------------------------------------------
(* Induction.  A set of numbers with 0 and every successor has them all.     *)

LEMMA NatSetInduction ==
    ASSUME NEW S, 0 \in S, \A n \in Nat : n \in S => n + 1 \in S
    PROVE  Nat \subseteq S
<1>1. PICK R : R = {ss \in Nat \X Nat : ss[1] < ss[2]}
  OBVIOUS
<1>2. IsWellFoundedOn(R, Nat)
  BY <1>1, NatLessThanWellFounded DEF OpToRel
<1> SUFFICES ASSUME NEW T, T = Nat \ S, T # {} PROVE FALSE
  OBVIOUS
<1>3. T \subseteq Nat
  OBVIOUS
<1>4. PICK x \in T : \A y \in T : ~(<<y, x>> \in R)
  BY <1>2, <1>3, WFMin
<1>5. x \in Nat /\ x # 0 /\ x - 1 \in Nat
  OBVIOUS
<1>6. x - 1 \in T
  <2>1. x - 1 \in S => (x - 1) + 1 \in S
    BY <1>5
  <2>2. (x - 1) + 1 = x
    BY <1>5
  <2> QED BY <1>5, <2>1, <2>2
<1>7. <<x - 1, x>> \in R
  BY <1>1, <1>5
<1> QED BY <1>4, <1>6, <1>7

LEMMA UpTo ==
    ASSUME NEW n \in Nat, NEW S, 0 \in S, \A j \in 1..n : j - 1 \in S => j \in S
    PROVE  \A j \in 0..n : j \in S
<1>1. PICK T : T = {j \in Nat : j <= n => j \in S}
  OBVIOUS
<1>2. 0 \in T
  BY <1>1
<1>3. \A j \in Nat : j \in T => j + 1 \in T
  <2> SUFFICES ASSUME NEW j \in Nat, j \in T, j + 1 <= n PROVE j + 1 \in S
    BY <1>1
  <2>1. j \in S
    BY <1>1
  <2>2. j + 1 \in 1..n /\ (j + 1) - 1 = j
    OBVIOUS
  <2> QED BY <2>1, <2>2
<1>4. Nat \subseteq T
  BY <1>2, <1>3, NatSetInduction
<1> QED BY <1>1, <1>4

-----------------------------------------------------------------------------
(* Types.                                                                    *)

Objects == [cal : Calendars \cup {0}, w : Int, g : Nat]
Kinds   == {"add", "modify", "delete"}
Ops     == [kind : Kinds, item : Items, new : Objects, old : Objects, txn : Nat, half : BOOLEAN]
Answers == [op : Ops, ok : BOOLEAN, detail : Objects]
Cals    == [id : Calendars, mItems : [Items -> Objects], queue : Seq(Ops), mods : Seq(Answers),
            locked : BOOLEAN, readOnly : BOOLEAN, threw : BOOLEAN]
Txns    == [item : Items, mAction : Kinds, mCalendar : Calendars,
            mOldCalendar : Calendars \cup {0}, mIsDoTransaction : BOOLEAN,
            mItem : Objects, mOldItem : Objects]

\* What becomes of the first operation.
Throws(k, op) == op.kind = "delete" /\ ~Exists(k.mItems[op.item])
Works(k, op) ==
    \/ op.kind = "add"
    \/ op.kind = "modify" /\ Exists(k.mItems[op.item]) /\ k.mItems[op.item] = op.old
    \/ op.kind = "delete" /\ k.mItems[op.item].g = op.old.g
Outcome(k, op) ==
    IF op.kind = "add" THEN [op.new EXCEPT !.cal = k.id]
    ELSE IF op.kind = "delete" THEN NoItem
    ELSE IF op.new.g = op.old.g THEN [op.new EXCEPT !.g = @ + 1] ELSE op.new

LEMMA OutcomeType ==
    ASSUME NEW k \in Cals, NEW op \in Ops
    PROVE  Outcome(k, op) \in Objects
<1>1. op.new \in Objects /\ op.old \in Objects /\ k.id \in Calendars
  BY DEF Ops, Cals
<1>2. PICK o : o = op.new
  OBVIOUS
<1>3. [o EXCEPT !.cal = k.id] \in Objects /\ [o EXCEPT !.g = @ + 1] \in Objects
  BY <1>1, <1>2 DEF Objects
<1>4. NoItem \in Objects
  BY DEF NoItem, Objects
<1> QED BY <1>1, <1>2, <1>3, <1>4 DEF Outcome

LEMMA StepIs ==
    ASSUME NEW k \in Cals, k.queue # <<>>, NEW op, op = Head(k.queue)
    PROVE  /\ op \in Ops /\ Tail(k.queue) \in Seq(Ops)
           /\ Step(k) = IF Throws(k, op) THEN [k EXCEPT !.queue = Tail(@), !.threw = TRUE]
                        ELSE Answered([k EXCEPT !.queue = Tail(@)], op, Works(k, op), Outcome(k, op))
<1>1. op \in Ops /\ Tail(k.queue) \in Seq(Ops)
  BY HeadTailProperties DEF Cals
<1>2. PICK r : r = [k EXCEPT !.queue = Tail(@)]
  OBVIOUS
<1>3. r.mItems = k.mItems /\ r.id = k.id
  BY <1>2 DEF Cals
<1>4. op.kind \in Kinds
  BY <1>1 DEF Ops
<1>5. CASE op.kind = "add"
  <2>1. Step(k) = AddItem(r, op)
    BY <1>2, <1>5 DEF Step
  <2>2. ~Throws(k, op) /\ Works(k, op)
    BY <1>5 DEF Throws, Works
  <2> QED BY <1>1, <1>2, <1>3, <1>5, <2>1, <2>2 DEF AddItem, Outcome
<1>6. CASE op.kind = "modify"
  <2>1. Step(k) = ModifyItem(r, op)
    BY <1>2, <1>6 DEF Step
  <2>2. ~Throws(k, op)
    BY <1>6 DEF Throws
  <2>3. Works(k, op) = (Exists(k.mItems[op.item]) /\ k.mItems[op.item] = op.old)
    BY <1>6 DEF Works
  <2>4. Outcome(k, op) = IF op.new.g = op.old.g THEN [op.new EXCEPT !.g = @ + 1] ELSE op.new
    BY <1>6 DEF Outcome
  <2> QED BY <1>1, <1>2, <1>3, <2>1, <2>2, <2>3, <2>4 DEF ModifyItem
<1>7. CASE op.kind = "delete"
  <2>1. Step(k) = DeleteItem(r, op)
    BY <1>2, <1>7 DEF Step
  <2>2. Throws(k, op) = ~Exists(k.mItems[op.item])
    BY <1>7 DEF Throws
  <2>3. Works(k, op) = (k.mItems[op.item].g = op.old.g) /\ Outcome(k, op) = NoItem
    BY <1>7 DEF Works, Outcome
  <2> QED BY <1>1, <1>2, <1>3, <2>1, <2>2, <2>3 DEF DeleteItem
<1> QED BY <1>1, <1>4, <1>5, <1>6, <1>7 DEF Kinds

\* What it leaves alone, and what it adds.
LEMMA StepFields ==
    ASSUME NEW k \in Cals, k.queue # <<>>, NEW op, op = Head(k.queue), NEW r, r = Step(k)
    PROVE  /\ r \in Cals /\ r.queue = Tail(k.queue)
           /\ r.id = k.id /\ r.locked = k.locked /\ r.readOnly = k.readOnly
           /\ Throws(k, op) => r.threw /\ r.mItems = k.mItems /\ r.mods = k.mods
           /\ ~Throws(k, op) =>
                /\ r.threw = k.threw
                /\ r.mods = Append(k.mods, [op |-> op, ok |-> Works(k, op), detail |-> Outcome(k, op)])
                /\ [op |-> op, ok |-> Works(k, op), detail |-> Outcome(k, op)] \in Answers
                /\ r.mItems = IF Works(k, op) THEN [k.mItems EXCEPT ![op.item] = Outcome(k, op)]
                              ELSE k.mItems
<1>1. op \in Ops /\ Tail(k.queue) \in Seq(Ops) /\ Outcome(k, op) \in Objects
  BY StepIs, OutcomeType
<1>2. Works(k, op) \in BOOLEAN
  BY DEF Works
<1>3. CASE Throws(k, op)
  <2>1. r = [k EXCEPT !.queue = Tail(@), !.threw = TRUE]
    BY <1>3, StepIs
  <2> QED BY <1>1, <1>3, <2>1 DEF Cals
<1>4. CASE ~Throws(k, op)
  <2>1. PICK b, d, m : b = Works(k, op) /\ d = Outcome(k, op) /\ m = [op |-> op, ok |-> b, detail |-> d]
    OBVIOUS
  <2>2. m \in Answers
    BY <1>1, <1>2, <2>1 DEF Answers
  <2>3. PICK x : x = [k EXCEPT !.queue = Tail(@)]
    OBVIOUS
  <2>4. x \in Cals /\ x.queue = Tail(k.queue) /\ x.mItems = k.mItems /\ x.mods = k.mods /\ x.id = k.id
        /\ x.locked = k.locked /\ x.readOnly = k.readOnly /\ x.threw = k.threw
    BY <1>1, <2>3 DEF Cals
  <2>5. r = Answered(x, op, b, d)
    BY <1>4, <2>1, <2>3, StepIs
  <2>6. r = [x EXCEPT !.mItems[op.item] = IF b THEN d ELSE @, !.mods = Append(@, m)]
    BY <2>5, <2>1 DEF Answered
  <2>7. Append(k.mods, m) \in Seq(Answers)
    BY <2>2, AppendProperties DEF Cals
  <2>8. op.item \in Items
    BY <1>1 DEF Ops
  <2>9. r.mItems = IF b THEN [k.mItems EXCEPT ![op.item] = d] ELSE k.mItems
    <3>1. r.mItems = [k.mItems EXCEPT ![op.item] = IF b THEN d ELSE k.mItems[op.item]]
      BY <2>4, <2>6 DEF Cals
    <3>2. k.mItems \in [Items -> Objects]
      BY DEF Cals
    <3> QED BY <3>1, <3>2, <2>8
  <2>10. r.mItems \in [Items -> Objects]
    BY <2>9, <2>8, <1>1, <2>1 DEF Cals
  <2>11. r.mods = Append(k.mods, m)
    BY <2>4, <2>6 DEF Cals
  <2>12. r \in Cals /\ r.queue = Tail(k.queue) /\ r.id = k.id /\ r.locked = k.locked
         /\ r.readOnly = k.readOnly /\ r.threw = k.threw
    <3>1. r.mods \in Seq(Answers)
      BY <2>7, <2>11
    <3>2. PICK f, g : f = r.mItems /\ g = r.mods
      OBVIOUS
    <3>3. r = [x EXCEPT !.mItems = f, !.mods = g]
      BY <2>4, <2>6, <3>2 DEF Cals
    <3> QED BY <3>1, <3>2, <3>3, <2>4, <2>10 DEF Cals
  <2> QED BY <1>4, <2>1, <2>2, <2>9, <2>11, <2>12
<1> QED BY <1>3, <1>4

\* The recursive definition of Worked has a solution.
LEMMA WorkedIs ==
    ASSUME NEW k, NEW n \in Nat, n = Len(k.queue)
    PROVE  \E w : /\ w[0] = [k EXCEPT !.threw = FALSE]
                  /\ \A j \in 1..n : w[j] = IF w[j - 1].threw THEN w[j - 1] ELSE Step(w[j - 1])
                  /\ Worked(k) = w[n]
<1> DEFINE w[j \in 0 .. Len(k.queue)] ==
             IF j = 0 THEN [k EXCEPT !.threw = FALSE]
             ELSE IF w[j - 1].threw THEN w[j - 1] ELSE Step(w[j - 1])
           After(x) == IF x.threw THEN x ELSE Step(x)
           IsRun(f, m) == f = [j \in 0 .. m |-> IF j = 0 THEN [k EXCEPT !.threw = FALSE]
                                                ELSE After(f[j - 1])]
<1>1. Worked(k) = w[n]
  BY DEF Worked
<1>2. ASSUME NEW m \in Nat, NEW f, IsRun(f, m)
      PROVE  \E g : IsRun(g, m + 1)
  <2> HIDE DEF After
  <2>1. PICK g : g = [j \in 0 .. m + 1 |-> IF j <= m THEN f[j] ELSE After(f[m])]
    OBVIOUS
  <2>2. \A j \in 0 .. m : f[j] = IF j = 0 THEN [k EXCEPT !.threw = FALSE] ELSE After(f[j - 1])
    BY <1>2
  <2>3. ASSUME NEW j \in 0 .. m + 1
        PROVE  g[j] = IF j = 0 THEN [k EXCEPT !.threw = FALSE] ELSE After(g[j - 1])
    <3>1. CASE j = 0
      <4>1. g[0] = f[0] /\ 0 \in 0 .. m
        BY <2>1
      <4>2. f[0] = [k EXCEPT !.threw = FALSE]
        BY <2>2, <4>1
      <4> QED BY <3>1, <4>1, <4>2
    <3>2. CASE j \in 1 .. m
      BY <2>1, <2>2, <3>2
    <3>3. CASE j = m + 1
      BY <2>1, <3>3
    <3> QED BY <3>1, <3>2, <3>3
  <2>4. g = [j \in 0 .. m + 1 |-> IF j = 0 THEN [k EXCEPT !.threw = FALSE] ELSE After(g[j - 1])]
    BY <2>1, <2>3
  <2> QED BY <2>4
<1>3. \E f : IsRun(f, n)
  <2>1. PICK S : S = {m \in Nat : \E f : IsRun(f, m)}
    OBVIOUS
  <2>2. 0 \in S
    <3>1. PICK f : f = [j \in 0 .. 0 |-> [k EXCEPT !.threw = FALSE]]
      OBVIOUS
    <3>2. IsRun(f, 0)
      BY <3>1
    <3> QED BY <2>1, <3>2
  <2>3. \A m \in Nat : m \in S => m + 1 \in S
    BY <1>2, <2>1
  <2> HIDE DEF IsRun
  <2> QED BY <2>1, <2>2, <2>3, NatSetInduction
<1>4. IsRun(w, n)
  <2>1. w = CHOOSE f : IsRun(f, n)
    OBVIOUS
  <2> HIDE DEF w, IsRun
  <2> QED BY <1>3, <2>1
<1> HIDE DEF w
<1>5. w[0] = [k EXCEPT !.threw = FALSE]
  <2>1. 0 \in 0 .. n
    OBVIOUS
  <2>2. \A j \in 0 .. n : w[j] = IF j = 0 THEN [k EXCEPT !.threw = FALSE] ELSE After(w[j - 1])
    <3> HIDE DEF After
    <3> QED BY <1>4
  <2> HIDE DEF After
  <2> QED BY <2>1, <2>2
<1>6. \A j \in 1..n : w[j] = After(w[j - 1])
  <2> HIDE DEF After
  <2> QED BY <1>4
<1> QED BY <1>1, <1>5, <1>6

\* A set of calendars that is closed under the steps has what comes of processing.
LEMMA WorkedStays ==
    ASSUME NEW k \in Cals, NEW G, [k EXCEPT !.threw = FALSE] \in G,
           \A x \in G \cap Cals : ~x.threw /\ x.queue # <<>> => Step(x) \in G
    PROVE  Worked(k) \in G /\ Worked(k) \in Cals
           /\ (~Worked(k).threw => Worked(k).queue = <<>>)
<1>1. PICK n : n = Len(k.queue)
  OBVIOUS
<1>2. n \in Nat
  BY <1>1, LenProperties DEF Cals
<1>3. PICK w : /\ w[0] = [k EXCEPT !.threw = FALSE]
               /\ \A j \in 1..n : w[j] = IF w[j - 1].threw THEN w[j - 1] ELSE Step(w[j - 1])
               /\ Worked(k) = w[n]
  BY <1>1, <1>2, WorkedIs
<1>4. PICK S : S = {j \in 0..n : /\ w[j] \in G /\ w[j] \in Cals
                                 /\ w[j].threw \/ Len(w[j].queue) = n - j}
  OBVIOUS
<1>5. 0 \in S
  <2>1. w[0] \in Cals /\ w[0].queue = k.queue
    BY <1>3 DEF Cals
  <2>2. 0 \in 0..n /\ n - 0 = n
    BY <1>2
  <2> QED BY <1>1, <1>3, <1>4, <2>1, <2>2
<1>6. ASSUME NEW j \in 1..n, j - 1 \in S PROVE j \in S
  <2>1. PICK x : x = w[j - 1]
    OBVIOUS
  <2>2. x \in G /\ x \in Cals /\ (x.threw \/ Len(x.queue) = n - (j - 1))
    BY <1>4, <1>6, <2>1
  <2>3. CASE x.threw
    BY <1>2, <1>3, <1>4, <2>1, <2>2, <2>3
  <2>4. CASE ~x.threw
    <3>1. w[j] = Step(x)
      BY <1>3, <2>1, <2>4
    <3>2. x.queue \in Seq(Ops)
      BY <2>2 DEF Cals
    <3>3. Len(x.queue) = n - (j - 1) /\ x.queue # <<>>
      BY <1>2, <2>2, <2>4, <3>2, EmptySeq
    <3>4. Step(x) \in G /\ Step(x) \in Cals /\ Step(x).queue = Tail(x.queue)
      BY <2>2, <2>4, <3>3, StepFields
    <3>5. Len(Tail(x.queue)) = n - j
      BY <1>2, <3>2, <3>3, HeadTailProperties
    <3>6. j \in 0..n
      BY <1>2
    <3> QED BY <1>4, <3>1, <3>4, <3>5, <3>6
  <2> QED BY <2>3, <2>4
<1>7. n \in S
  BY <1>2, <1>5, <1>6, UpTo
<1>8. Worked(k) \in G /\ Worked(k) \in Cals /\ (Worked(k).threw \/ Len(Worked(k).queue) = 0)
  BY <1>2, <1>3, <1>4, <1>7
<1>9. Worked(k).queue \in Seq(Ops)
  BY <1>8 DEF Cals
<1> QED BY <1>8, <1>9, EmptySeq

\* The same of processQueue, where being locked makes no difference.
Closed(G) ==
    /\ \A x \in G \cap Cals : ~x.threw /\ x.queue # <<>> => Step(x) \in G
    /\ \A x \in G \cap Cals : \A l \in BOOLEAN : [x EXCEPT !.locked = l] \in G

LEMMA ProcessStays ==
    ASSUME NEW k \in Cals, NEW G, Closed(G), [k EXCEPT !.threw = FALSE] \in G
    PROVE  ProcessQueue(k) \in G /\ ProcessQueue(k) \in Cals
<1>1. Worked(k) \in G /\ Worked(k) \in Cals
  BY WorkedStays DEF Closed
<1>2. PICK r, l : r = Worked(k) /\ l = (~Worked(k).threw /\ k.queue # <<>>)
  OBVIOUS
<1>3. ProcessQueue(k) = [r EXCEPT !.locked = l] /\ l \in BOOLEAN
  BY <1>2 DEF ProcessQueue
<1>4. [r EXCEPT !.locked = l] \in Cals
  BY <1>1, <1>2, <1>3 DEF Cals
<1> QED BY <1>1, <1>2, <1>3, <1>4 DEF Closed

LEMMA ProcessLocks ==
    ASSUME NEW k \in Cals
    PROVE  LET r == ProcessQueue(k) IN
           /\ r.locked => r.mods # <<>>
           /\ r.id = k.id /\ r.readOnly = k.readOnly
           /\ ~r.threw => r.queue = <<>>
<1>1. PICK G : G = {x \in Cals : /\ x.threw \/ x.mods # <<>> \/ x.queue = k.queue
                                 /\ x.id = k.id /\ x.readOnly = k.readOnly}
  OBVIOUS
<1>2. [k EXCEPT !.threw = FALSE] \in G
  BY <1>1 DEF Cals
<1>3. ASSUME NEW x \in G \cap Cals, ~x.threw, x.queue # <<>> PROVE Step(x) \in G
  <2>1. PICK r, op : r = Step(x) /\ op = Head(x.queue)
    OBVIOUS
  <2>2. r \in Cals /\ r.id = x.id /\ r.readOnly = x.readOnly
    <3>1. x \in Cals /\ x.queue # <<>>
      BY <1>3
    <3> HIDE <1>3
    <3> QED BY <2>1, <3>1, StepFields
  <2>3. r.threw \/ r.mods # <<>>
    <3>1. CASE Throws(x, op)
      <4>1. x \in Cals
        BY <1>3
      <4>2. Throws(x, op) => r.threw
        BY <1>3, <2>1, <4>1, StepFields
      <4> QED BY <3>1, <4>2
    <3>2. CASE ~Throws(x, op)
      <4>1. PICK m : m = [op |-> op, ok |-> Works(x, op), detail |-> Outcome(x, op)]
        OBVIOUS
      <4>2. r.mods = Append(x.mods, m) /\ m \in Answers
        BY ZenonT(40), <1>3, <2>1, <3>2, <4>1, StepFields
      <4> QED BY <4>2, AppendProperties DEF Cals
    <3> QED BY <3>1, <3>2
  <2> QED BY <1>1, <2>1, <2>2, <2>3
<1>4. Worked(k) \in G /\ Worked(k) \in Cals /\ (~Worked(k).threw => Worked(k).queue = <<>>)
  BY <1>2, <1>3, WorkedStays
<1>5. PICK w, l : w = Worked(k) /\ l = (~w.threw /\ k.queue # <<>>)
  OBVIOUS
<1>6. ProcessQueue(k) = [w EXCEPT !.locked = l]
  BY <1>5 DEF ProcessQueue
<1>7. PICK r : r = [w EXCEPT !.locked = l]
  OBVIOUS
<1>8. r.locked = l /\ r.mods = w.mods /\ r.id = w.id /\ r.readOnly = w.readOnly
      /\ r.threw = w.threw /\ r.queue = w.queue
  BY <1>4, <1>5, <1>7 DEF Cals
<1> QED BY <1>1, <1>4, <1>5, <1>6, <1>7, <1>8

\* What comes of an operation that is asked of a calendar.
LEMMA AskedStays ==
    ASSUME NEW k \in Cals, NEW op \in Ops, NEW G, Closed(G),
           k.readOnly => [k EXCEPT !.threw = TRUE] \in G,
           ~k.readOnly => [k EXCEPT !.queue = Append(@, op), !.threw = FALSE] \in G
    PROVE  Asked(k, op) \in G /\ Asked(k, op) \in Cals
<1>1. PICK q : q = Append(k.queue, op)
  OBVIOUS
<1>2. q \in Seq(Ops)
  BY <1>1, AppendProperties DEF Cals
<1>3. PICK x, y : x = [k EXCEPT !.queue = q] /\ y = [k EXCEPT !.queue = q, !.threw = FALSE]
  OBVIOUS
<1>4. x \in Cals /\ y \in Cals /\ y = [x EXCEPT !.threw = FALSE]
  BY <1>2, <1>3 DEF Cals
<1>5. [k EXCEPT !.threw = TRUE] \in Cals
  BY DEF Cals
<1>6. CASE k.readOnly
  BY <1>5, <1>6 DEF Asked
<1>7. CASE ~k.readOnly /\ k.locked
  <2>1. Asked(k, op) = y
    BY <1>1, <1>3, <1>7 DEF Asked
  <2> QED BY <1>1, <1>3, <1>4, <1>7, <2>1
<1>8. CASE ~k.readOnly /\ ~k.locked
  <2>1. Asked(k, op) = ProcessQueue(x)
    BY <1>1, <1>3, <1>8 DEF Asked
  <2>2. y \in G
    BY <1>1, <1>3, <1>8
  <2> QED BY <1>4, <2>1, <2>2, ProcessStays
<1> QED BY <1>6, <1>7, <1>8

LEMMA AskedLocks ==
    ASSUME NEW k \in Cals, NEW op \in Ops
    PROVE  LET r == Asked(k, op) IN
           /\ r \in Cals /\ r.id = k.id /\ r.readOnly = k.readOnly
           /\ k.locked => r.locked /\ r.mods = k.mods
           /\ r.locked => k.locked \/ r.mods # <<>>
           /\ ~r.threw => ~k.readOnly
<1>1. PICK q : q = Append(k.queue, op)
  OBVIOUS
<1>2. q \in Seq(Ops)
  BY <1>1, AppendProperties DEF Cals
<1>3. PICK x, y, z : x = [k EXCEPT !.queue = q] /\ y = [k EXCEPT !.queue = q, !.threw = FALSE]
                     /\ z = [k EXCEPT !.threw = TRUE]
  OBVIOUS
<1>4. x \in Cals /\ x.id = k.id /\ x.readOnly = k.readOnly
  BY <1>2, <1>3 DEF Cals
<1>5. y \in Cals /\ y.id = k.id /\ y.readOnly = k.readOnly /\ y.locked = k.locked /\ y.mods = k.mods
  BY <1>2, <1>3 DEF Cals
<1>6. z \in Cals /\ z.id = k.id /\ z.readOnly = k.readOnly /\ z.locked = k.locked /\ z.mods = k.mods
      /\ z.threw
  BY <1>3 DEF Cals
<1>7. CASE k.readOnly
  <2>1. Asked(k, op) = z
    BY <1>3, <1>7 DEF Asked
  <2> QED BY <1>6, <1>7, <2>1
<1>8. CASE ~k.readOnly /\ k.locked
  <2>1. Asked(k, op) = y
    BY <1>1, <1>3, <1>8 DEF Asked
  <2> QED BY <1>5, <1>8, <2>1
<1>9. CASE ~k.readOnly /\ ~k.locked
  <2>1. Asked(k, op) = ProcessQueue(x)
    BY <1>1, <1>3, <1>9 DEF Asked
  <2>2. PICK G : G = Cals
    OBVIOUS
  <2>3. Closed(G)
    <3>1. \A u \in G \cap Cals : u.queue # <<>> => Step(u) \in G
      BY <2>2, StepFields
    <3>2. \A u \in G \cap Cals : \A l \in BOOLEAN : [u EXCEPT !.locked = l] \in G
      BY <2>2 DEF Cals
    <3> QED BY <3>1, <3>2 DEF Closed
  <2>4. [x EXCEPT !.threw = FALSE] \in G
    BY <2>2, <1>4 DEF Cals
  <2>5. ProcessQueue(x) \in Cals
    BY <1>4, <2>3, <2>4, ProcessStays
  <2> QED BY <1>4, <1>9, <2>1, <2>5, ProcessLocks
<1> QED BY <1>7, <1>8, <1>9

-----------------------------------------------------------------------------
(* What an operation, a calendar and a transaction are like.  A modification *)
(* is made of two items of one calendar, only an addition can be the first   *)
(* half of a move, and only a modification has an old item and can be undone. *)

OpOk(op, ts) ==
    /\ op.txn \in 0..Len(ts)
    /\ op.txn # 0 => ts[op.txn].item = op.item
    /\ op.kind = "modify" => op.new.cal = op.old.cal
    /\ op.kind # "delete" => Exists(op.new)
    /\ op.half => op.kind = "add" /\ op.txn # 0

AnswerOk(m, c, ts) ==
    /\ OpOk(m.op, ts)
    /\ m.ok /\ m.op.kind # "delete" => Exists(m.detail) /\ m.detail.cal = c

CalOk(k, ts) ==
    /\ \A i \in Items : Exists(k.mItems[i]) => k.mItems[i].cal = k.id
    /\ \A p \in 1..Len(k.queue) : OpOk(k.queue[p], ts)
    /\ \A p \in 1..Len(k.mods) : AnswerOk(k.mods[p], k.id, ts)

TxnOk(t) ==
    /\ Exists(t.mItem)
    /\ IF t.mAction = "modify" THEN Exists(t.mOldItem)
       ELSE ~Exists(t.mOldItem) /\ t.mIsDoTransaction

\* Transactions go on to be of the same items and kinds.
SameItems(ts, us) ==
    Len(ts) <= Len(us)
    /\ \A n \in 1..Len(ts) : us[n].item = ts[n].item /\ us[n].mAction = ts[n].mAction

LEMMA OkStays ==
    ASSUME NEW ts \in Seq(Txns), NEW us \in Seq(Txns), SameItems(ts, us)
    PROVE  /\ \A op \in Ops : OpOk(op, ts) => OpOk(op, us)
           /\ \A k \in Cals : CalOk(k, ts) => CalOk(k, us)
<1>1. Len(ts) \in Nat /\ Len(us) \in Nat
  BY LenProperties
<1>2. ASSUME NEW op \in Ops, OpOk(op, ts) PROVE OpOk(op, us)
  <2>1. op.txn \in 0..Len(us)
    BY <1>1, <1>2 DEF OpOk, SameItems, Ops
  <2>2. op.txn # 0 => op.txn \in 1..Len(ts)
    BY <1>1, <1>2 DEF OpOk
  <2>3. op.txn # 0 => us[op.txn].item = op.item
    BY <1>2, <2>2 DEF OpOk, SameItems
  <2> QED BY <1>2, <2>1, <2>3 DEF OpOk
<1>3. ASSUME NEW k \in Cals, CalOk(k, ts) PROVE CalOk(k, us)
  <2>1. \A p \in 1..Len(k.queue) : k.queue[p] \in Ops
    BY ElementOfSeq DEF Cals
  <2>2. \A p \in 1..Len(k.mods) : k.mods[p].op \in Ops
    <3>1. PICK l : l = k.mods
      OBVIOUS
    <3>2. \A p \in 1..Len(l) : l[p] \in Answers
      BY <3>1, ElementOfSeq DEF Cals
    <3> QED BY <3>1, <3>2 DEF Answers
  <2> QED BY <1>2, <1>3, <2>1, <2>2 DEF CalOk, AnswerOk
<1> QED BY <1>2, <1>3

LEMMA StepOk ==
    ASSUME NEW k \in Cals, k.queue # <<>>, NEW ts, CalOk(k, ts)
    PROVE  CalOk(Step(k), ts)
<1>1. PICK op, r, q : op = Head(k.queue) /\ r = Step(k) /\ q = k.queue
  OBVIOUS
<1>2. q \in Seq(Ops) /\ Len(q) \in Nat /\ 1 \in 1..Len(q) /\ op = q[1]
  BY <1>1, LenProperties, EmptySeq DEF Cals
<1>3. op \in Ops /\ OpOk(op, ts)
  BY <1>1, <1>2, ElementOfSeq DEF CalOk
<1>4. r \in Cals /\ r.queue = Tail(q) /\ r.id = k.id
  BY <1>1, StepFields
<1>5. \A p \in 1..Len(r.queue) : OpOk(r.queue[p], ts)
  <2>1. Len(Tail(q)) = Len(q) - 1 /\ \A p \in 1..Len(Tail(q)) : Tail(q)[p] = q[p + 1]
    BY <1>1, <1>2, HeadTailProperties
  <2>2. \A p \in 1..Len(Tail(q)) : p + 1 \in 1..Len(q)
    BY <1>2, <2>1
  <2> QED BY <1>1, <1>4, <2>1, <2>2 DEF CalOk
<1>6. CASE Throws(k, op)
  <2>1. r.mItems = k.mItems /\ r.mods = k.mods
    BY <1>1, <1>6, StepFields
  <2> QED BY <1>1, <1>4, <1>5, <2>1 DEF CalOk
<1>7. CASE ~Throws(k, op)
  <2>1. PICK m : m = [op |-> op, ok |-> Works(k, op), detail |-> Outcome(k, op)]
    OBVIOUS
  <2>2. /\ r.mods = Append(k.mods, m) /\ m \in Answers
        /\ r.mItems = IF Works(k, op) THEN [k.mItems EXCEPT ![op.item] = Outcome(k, op)] ELSE k.mItems
    BY <1>1, <1>7, <2>1, StepFields
  <2>3. Works(k, op) /\ op.kind # "delete" => Exists(Outcome(k, op)) /\ Outcome(k, op).cal = k.id
    <3> SUFFICES ASSUME Works(k, op), op.kind # "delete"
                 PROVE  Exists(Outcome(k, op)) /\ Outcome(k, op).cal = k.id
      OBVIOUS
    <3>1. op.new \in Objects /\ op.old \in Objects /\ Exists(op.new) /\ op.item \in Items
      BY <1>3 DEF OpOk, Ops
    <3>2. CASE op.kind = "add"
      BY <3>1, <3>2 DEF Outcome, Objects, Exists
    <3>3. CASE op.kind = "modify"
      <4>1. Exists(k.mItems[op.item]) /\ k.mItems[op.item] = op.old /\ op.new.cal = op.old.cal
        BY <1>3, <3>3 DEF Works, OpOk
      <4>2. op.new.cal = k.id
        BY <3>1, <4>1 DEF CalOk
      <4> QED BY <3>1, <3>3, <4>2 DEF Outcome, Objects, Exists
    <3> QED BY <1>3, <3>2, <3>3 DEF Ops, Kinds
  <2>4. \A i \in Items : Exists(r.mItems[i]) => r.mItems[i].cal = k.id
    <3>1. op.item \in Items /\ k.mItems \in [Items -> Objects]
      BY <1>3 DEF Ops, Cals
    <3>2. ~Exists(Outcome(k, op)) \/ Outcome(k, op).cal = k.id \/ ~Works(k, op)
      <4>1. op.kind = "delete" => Outcome(k, op) = NoItem
        BY DEF Outcome
      <4> QED BY <2>3, <4>1 DEF NoItem, Exists
    <3> QED BY <2>2, <3>1, <3>2 DEF CalOk
  <2>5. \A p \in 1..Len(r.mods) : AnswerOk(r.mods[p], k.id, ts)
    <3>1. AnswerOk(m, k.id, ts)
      BY <1>3, <2>1, <2>3 DEF AnswerOk
    <3>2. PICK l : l = k.mods
      OBVIOUS
    <3>3. l \in Seq(Answers) /\ Len(l) \in Nat
      BY <3>2, LenProperties DEF Cals
    <3>4. Len(r.mods) = Len(l) + 1 /\ r.mods[Len(l) + 1] = m
          /\ \A p \in 1..Len(l) : r.mods[p] = l[p]
      BY <2>2, <3>2, <3>3, AppendProperties
    <3>5. \A p \in 1..Len(r.mods) : p \in 1..Len(l) \/ p = Len(l) + 1
      BY <3>3, <3>4
    <3> QED BY <3>1, <3>2, <3>4, <3>5 DEF CalOk
  <2> QED BY <1>1, <1>4, <1>5, <2>4, <2>5 DEF CalOk
<1> QED BY <1>6, <1>7

\* The calendars that are like that, for short.
OkCals(c, ts) == {k \in Cals : k.id = c /\ CalOk(k, ts)}

LEMMA OkClosed == ASSUME NEW c, NEW ts PROVE Closed(OkCals(c, ts))
<1>1. ASSUME NEW x \in Cals, x \in OkCals(c, ts), x.queue # <<>> PROVE Step(x) \in OkCals(c, ts)
  <2>1. CalOk(Step(x), ts)
    BY <1>1, StepOk DEF OkCals
  <2>2. Step(x) \in Cals /\ Step(x).id = x.id
    BY <1>1, StepFields
  <2> QED BY <1>1, <2>1, <2>2 DEF OkCals
<1>2. ASSUME NEW x \in Cals, x \in OkCals(c, ts), NEW l \in BOOLEAN
      PROVE  [x EXCEPT !.locked = l] \in OkCals(c, ts)
  <2>1. PICK y : y = [x EXCEPT !.locked = l]
    OBVIOUS
  <2>2. y \in Cals /\ y.id = x.id /\ y.mItems = x.mItems /\ y.queue = x.queue /\ y.mods = x.mods
    BY <2>1 DEF Cals
  <2> QED BY <1>2, <2>1, <2>2 DEF OkCals, CalOk
<1> QED BY <1>1, <1>2 DEF Closed

LEMMA ProcessOk ==
    ASSUME NEW c, NEW ts, NEW k \in OkCals(c, ts)
    PROVE  ProcessQueue(k) \in OkCals(c, ts)
<1>1. PICK x : x = [k EXCEPT !.threw = FALSE]
  OBVIOUS
<1>2. k \in Cals /\ x \in Cals /\ x.id = k.id /\ x.mItems = k.mItems /\ x.queue = k.queue /\ x.mods = k.mods
  BY <1>1 DEF OkCals, Cals
<1>3. x \in OkCals(c, ts)
  BY <1>2 DEF OkCals, CalOk
<1> QED BY <1>1, <1>2, <1>3, OkClosed, ProcessStays

LEMMA AskedOk ==
    ASSUME NEW c, NEW ts, NEW k \in OkCals(c, ts), NEW op \in Ops, OpOk(op, ts)
    PROVE  Asked(k, op) \in OkCals(c, ts)
<1>1. PICK q : q = Append(k.queue, op)
  OBVIOUS
<1>2. k \in Cals /\ k.queue \in Seq(Ops)
  BY DEF OkCals, Cals
<1>3. q \in Seq(Ops) /\ \A p \in 1..Len(q) : OpOk(q[p], ts)
  <2>1. PICK l : l = k.queue
    OBVIOUS
  <2>2. l \in Seq(Ops) /\ Len(l) \in Nat
    BY <1>2, <2>1, LenProperties
  <2>3. q \in Seq(Ops) /\ Len(q) = Len(l) + 1 /\ q[Len(l) + 1] = op /\ \A p \in 1..Len(l) : q[p] = l[p]
    BY <1>1, <2>1, <2>2, AppendProperties
  <2>4. \A p \in 1..Len(q) : p \in 1..Len(l) \/ p = Len(l) + 1
    BY <2>2, <2>3
  <2> QED BY <2>1, <2>3, <2>4 DEF OkCals, CalOk
<1>4. PICK y, z : y = [k EXCEPT !.queue = q, !.threw = FALSE] /\ z = [k EXCEPT !.threw = TRUE]
  OBVIOUS
<1>5. y \in Cals /\ y.id = k.id /\ y.mItems = k.mItems /\ y.queue = q /\ y.mods = k.mods
  BY <1>2, <1>3, <1>4 DEF Cals
<1>6. z \in Cals /\ z.id = k.id /\ z.mItems = k.mItems /\ z.queue = k.queue /\ z.mods = k.mods
  BY <1>2, <1>4 DEF Cals
<1>7. y \in OkCals(c, ts)
  BY <1>3, <1>5 DEF OkCals, CalOk
<1>8. z \in OkCals(c, ts)
  BY <1>6 DEF OkCals, CalOk
<1> QED BY <1>1, <1>2, <1>4, <1>7, <1>8, OkClosed, AskedStays

-----------------------------------------------------------------------------
(* The answers.                                                              *)

LEMMA UpdatedOk ==
    ASSUME NEW t \in Txns, NEW m \in Answers, NEW c, NEW ts, AnswerOk(m, c, ts), TxnOk(t),
           NEW u, u = Updated(t, m)
    PROVE  /\ u \in Txns /\ TxnOk(u) /\ u.item = t.item /\ u.mAction = t.mAction
           /\ u.mCalendar = t.mCalendar /\ u.mOldCalendar = t.mOldCalendar
           /\ u.mIsDoTransaction = t.mIsDoTransaction
           /\ m.op.kind = "delete" => u = t
           /\ u.mItem = IF m.ok /\ m.op.kind # "delete" /\ t.mIsDoTransaction THEN m.detail ELSE t.mItem
           /\ u.mOldItem = IF m.ok /\ m.op.kind # "delete" /\ ~t.mIsDoTransaction THEN m.detail
                           ELSE t.mOldItem
<1>1. PICK d : d = m.detail
  OBVIOUS
<1>2. d \in Objects /\ (m.ok /\ m.op.kind # "delete" => Exists(d))
  BY <1>1 DEF Answers, AnswerOk
<1>3. CASE ~m.ok \/ m.op.kind = "delete"
  BY <1>1, <1>3 DEF Updated
<1>4. CASE m.ok /\ m.op.kind # "delete" /\ t.mIsDoTransaction
  <2>1. u = [t EXCEPT !.mItem = d]
    BY <1>1, <1>4 DEF Updated
  <2> QED BY <1>1, <1>2, <1>4, <2>1 DEF Txns, TxnOk
<1>5. CASE m.ok /\ m.op.kind # "delete" /\ ~t.mIsDoTransaction
  <2>1. u = [t EXCEPT !.mOldItem = d]
    BY <1>1, <1>5 DEF Updated
  <2> QED BY <1>1, <1>2, <1>5, <2>1 DEF Txns, TxnOk
<1> QED BY <1>3, <1>4, <1>5

TellStates == [cals : [Calendars -> Cals], txns : Seq(Txns), failed : SUBSET Items]

\* The parts of Told.
Rest(s, c) == [s.cals EXCEPT ![c].mods = Tail(@)]
GoesOn(t, n) == Op("delete", t.item, NoItem, t.mOldItem, n, FALSE)
Goes(s, c) ==
    LET m == Head(s.cals[c].mods)
        t == Updated(s.txns[m.op.txn], m)
    IN  IF m.op.half /\ m.ok
        THEN [Rest(s, c) EXCEPT ![t.mOldItem.cal] = Asked(@, GoesOn(t, m.op.txn))]
        ELSE Rest(s, c)

Changed(s, c) == Updated(s.txns[Head(s.cals[c].mods).op.txn], Head(s.cals[c].mods))

LEMMA ToldIs ==
    ASSUME NEW s \in TellStates, NEW c
    PROVE  LET m == Head(s.cals[c].mods)
               u == Told(s, c) IN
           /\ m.op.txn = 0 => u = [cals |-> Rest(s, c), txns |-> s.txns, failed |-> s.failed]
           /\ m.op.txn # 0 /\ Threw(s.cals) =>
                u = [cals |-> Rest(s, c), txns |-> s.txns, failed |-> s.failed \cup {Changed(s, c).item}]
           /\ m.op.txn # 0 /\ ~Threw(s.cals) =>
                u = [cals |-> Goes(s, c), txns |-> [s.txns EXCEPT ![m.op.txn] = Changed(s, c)],
                     failed |-> IF m.ok /\ ~Threw(Goes(s, c)) THEN s.failed
                                ELSE s.failed \cup {Changed(s, c).item}]
<1>1. PICK m, n, u, t : /\ m = Head(s.cals[c].mods) /\ n = m.op.txn /\ u = Told(s, c)
                        /\ t = Changed(s, c)
  OBVIOUS
<1>2. t = Updated(s.txns[n], m)
  BY <1>1 DEF Changed
<1>3. CASE n = 0
  <2>1. u = [s EXCEPT !.cals = Rest(s, c)]
    BY <1>1, <1>3 DEF Told, Rest
  <2>2. u = [cals |-> Rest(s, c), txns |-> s.txns, failed |-> s.failed]
    BY <2>1 DEF TellStates
  <2> QED BY <1>1, <1>3, <2>2
<1>4. CASE n # 0 /\ Threw(s.cals)
  <2>1. u = [s EXCEPT !.cals = Rest(s, c), !.failed = @ \cup {t.item}]
    BY <1>1, <1>2, <1>4 DEF Told, Rest
  <2>2. u = [cals |-> Rest(s, c), txns |-> s.txns, failed |-> s.failed \cup {t.item}]
    BY <2>1 DEF TellStates
  <2> QED BY <1>1, <1>4, <2>2
<1>5. CASE n # 0 /\ ~Threw(s.cals)
  <2>1. u = [cals |-> Goes(s, c), txns |-> [s.txns EXCEPT ![n] = t],
             failed |-> IF m.ok /\ ~Threw(Goes(s, c)) THEN s.failed ELSE s.failed \cup {t.item}]
    BY <1>1, <1>2, <1>5 DEF Told, Rest, Goes, GoesOn
  <2> QED BY <1>1, <1>5, <2>1
<1> QED BY <1>1, <1>3, <1>4, <1>5

\* The calendar that answers has one less to tell.
LEMMA OneLess ==
    ASSUME NEW k \in Cals, NEW l, l = k.mods, l # <<>>
    PROVE  /\ l \in Seq(Answers) /\ Len(l) \in Nat /\ 1 \in 1..Len(l)
           /\ Tail(l) \in Seq(Answers) /\ Len(Tail(l)) = Len(l) - 1
           /\ Head(l) \in Answers /\ Head(l) = l[1]
           /\ \A p \in 1..Len(Tail(l)) : Tail(l)[p] = l[p + 1] /\ p + 1 \in 1..Len(l)
<1>1. l \in Seq(Answers) /\ Len(l) \in Nat
  BY LenProperties DEF Cals
<1>2. Len(l) # 0
  BY <1>1, EmptySeq
<1>3. Tail(l) \in Seq(Answers) /\ Head(l) \in Answers /\ Len(Tail(l)) = Len(l) - 1 /\ Head(l) = l[1]
      /\ \A p \in 1..Len(Tail(l)) : Tail(l)[p] = l[p + 1]
  BY <1>1, HeadTailProperties
<1> QED BY <1>1, <1>2, <1>3

LEMMA TailFields ==
    ASSUME NEW k \in Cals, k.mods # <<>>, NEW x, x = [k EXCEPT !.mods = Tail(@)]
    PROVE  /\ x \in Cals /\ x.mods = Tail(k.mods) /\ x.queue = k.queue /\ x.mItems = k.mItems
           /\ x.id = k.id /\ x.locked = k.locked /\ x.readOnly = k.readOnly /\ x.threw = k.threw
BY OneLess DEF Cals

LEMMA RestIs ==
    ASSUME NEW cs \in [Calendars -> Cals], NEW c \in Calendars, cs[c].mods # <<>>,
           NEW r, r = [cs EXCEPT ![c].mods = Tail(@)]
    PROVE  /\ r \in [Calendars -> Cals] /\ r[c] = [cs[c] EXCEPT !.mods = Tail(@)]
           /\ \A e \in Calendars : e # c => r[e] = cs[e]
<1>1. PICK k, x : k = cs[c] /\ x = [k EXCEPT !.mods = Tail(@)]
  OBVIOUS
<1>2. x \in Cals
  BY <1>1, TailFields
<1>3. r = [cs EXCEPT ![c] = x]
  BY <1>1
<1> QED BY <1>1, <1>2, <1>3

LEMMA RestOk ==
    ASSUME NEW c, NEW ts, NEW k \in OkCals(c, ts), k.mods # <<>>
    PROVE  [k EXCEPT !.mods = Tail(@)] \in OkCals(c, ts) /\ AnswerOk(Head(k.mods), c, ts)
<1>1. PICK l, x : l = k.mods /\ x = [k EXCEPT !.mods = Tail(@)]
  OBVIOUS
<1>2. k \in Cals /\ k.id = c /\ CalOk(k, ts)
  BY DEF OkCals
<1>3. /\ Head(l) = l[1] /\ 1 \in 1..Len(l)
      /\ \A p \in 1..Len(Tail(l)) : Tail(l)[p] = l[p + 1] /\ p + 1 \in 1..Len(l)
  BY <1>1, <1>2, OneLess
<1>4. x \in Cals /\ x.mods = Tail(l) /\ x.queue = k.queue /\ x.mItems = k.mItems /\ x.id = k.id
  BY <1>1, <1>2, TailFields
<1>5. \A p \in 1..Len(l) : AnswerOk(l[p], c, ts)
  BY <1>1, <1>2 DEF CalOk
<1>6. \A p \in 1..Len(x.mods) : AnswerOk(x.mods[p], x.id, ts)
  BY <1>2, <1>3, <1>4, <1>5
<1>7. CalOk(x, ts)
  BY <1>2, <1>4, <1>6 DEF CalOk
<1>8. AnswerOk(Head(l), c, ts)
  BY <1>3, <1>5
<1> QED BY <1>1, <1>2, <1>4, <1>7, <1>8 DEF OkCals

LEMMA OpHasType ==
    ASSUME NEW kind \in Kinds, NEW i \in Items, NEW new \in Objects, NEW old \in Objects,
           NEW n \in Nat, NEW half \in BOOLEAN, NEW op, op = Op(kind, i, new, old, n, half)
    PROVE  /\ op \in Ops /\ op.kind = kind /\ op.item = i /\ op.new = new /\ op.old = old
           /\ op.txn = n /\ op.half = half
BY DEF Op, Ops

LEMMA NoItemIs == NoItem \in Objects /\ ~Exists(NoItem)
BY DEF NoItem, Objects, Exists

LEMMA GoesOnOk ==
    ASSUME NEW ts \in Seq(Txns), NEW n \in 1..Len(ts), NEW t \in Txns, t.item = ts[n].item
    PROVE  GoesOn(t, n) \in Ops /\ OpOk(GoesOn(t, n), ts)
<1>1. PICK op : op = GoesOn(t, n)
  OBVIOUS
<1>2. Len(ts) \in Nat /\ n \in Nat /\ n \in 0..Len(ts)
  BY LenProperties
<1>3. t.item \in Items /\ t.mOldItem \in Objects
  BY DEF Txns
<1>4. op \in Ops /\ op.kind = "delete" /\ op.item = t.item /\ op.txn = n /\ op.half = FALSE
  <2>1. op = Op("delete", t.item, NoItem, t.mOldItem, n, FALSE) /\ "delete" \in Kinds /\ FALSE \in BOOLEAN
    BY <1>1 DEF GoesOn, Kinds
  <2> QED BY <1>2, <1>3, <2>1, NoItemIs DEF Op, Ops
<1> QED BY <1>1, <1>2, <1>4 DEF OpOk

\* While calendar c tells its listeners.
Telling(s, c) ==
    /\ s \in TellStates /\ s.cals[c].locked
    /\ \A e \in Calendars : s.cals[e] \in OkCals(e, s.txns)
    /\ \A n \in 1..Len(s.txns) : TxnOk(s.txns[n])
    /\ \A e \in Calendars \ {c} : s.cals[e].locked => s.cals[e].mods # <<>> \/ touched # {}
    /\ Threw(s.cals) => s.failed # {}
    /\ Len(s.txns) = Len(txns) /\ SameItems(txns, s.txns)

\* The answer that comes next.
LEMMA NextAnswer ==
    ASSUME NEW c \in Calendars, NEW s, Telling(s, c), s.cals[c].mods # <<>>,
           NEW m, m = Head(s.cals[c].mods), NEW n, n = m.op.txn
    PROVE  /\ m \in Answers /\ AnswerOk(m, c, s.txns) /\ OpOk(m.op, s.txns)
           /\ n \in 0..Len(s.txns) /\ (n # 0 => n \in 1..Len(s.txns))
           /\ n # 0 => /\ s.txns[n] \in Txns /\ TxnOk(s.txns[n]) /\ m.op.item = s.txns[n].item
<1>1. PICK cs, ts : cs = s.cals /\ ts = s.txns
  OBVIOUS
<1>2. cs \in [Calendars -> Cals] /\ ts \in Seq(Txns) /\ cs[c] \in OkCals(c, ts) /\ cs[c] \in Cals
  BY <1>1 DEF Telling, TellStates
<1>3. m \in Answers /\ AnswerOk(m, c, ts)
  <2>1. PICK k : k = cs[c]
    OBVIOUS
  <2>2. k \in Cals /\ k \in OkCals(c, ts) /\ k.mods # <<>> /\ m = Head(k.mods)
    BY <1>1, <1>2, <2>1
  <2>3. m \in Answers
    BY <2>2, OneLess
  <2> QED BY <2>2, <2>3, RestOk
<1>4. OpOk(m.op, ts) /\ Len(ts) \in Nat
  BY <1>2, <1>3, LenProperties DEF AnswerOk
<1>5. n \in 0..Len(ts) /\ (n # 0 => n \in 1..Len(ts))
  BY SMTT(30), <1>4 DEF OpOk
<1>6. n # 0 => ts[n] \in Txns /\ TxnOk(ts[n]) /\ m.op.item = ts[n].item
  BY <1>1, <1>2, <1>4, <1>5, ElementOfSeq DEF Telling, OpOk
<1> QED BY <1>1, <1>3, <1>4, <1>5, <1>6

LEMMA GoesIs ==
    ASSUME NEW c \in Calendars, NEW s, Telling(s, c), s.cals[c].mods # <<>>,
           Head(s.cals[c].mods).op.txn # 0, NEW g, g = Goes(s, c)
    PROVE  /\ g \in [Calendars -> Cals] /\ g[c].locked
           /\ Len(g[c].mods) = Len(s.cals[c].mods) - 1
           /\ \A e \in Calendars : g[e] \in OkCals(e, s.txns)
           /\ \A e \in Calendars \ {c} : g[e].locked => g[e].mods # <<>> \/ touched # {}
<1>1. PICK cs, ts, m, n, t, r : /\ cs = s.cals /\ ts = s.txns /\ m = Head(cs[c].mods) /\ n = m.op.txn
                                /\ t = Updated(ts[n], m) /\ r = Rest(s, c)
  OBVIOUS
<1>2. cs \in [Calendars -> Cals] /\ ts \in Seq(Txns) /\ r = [cs EXCEPT ![c].mods = Tail(@)]
  BY <1>1 DEF Telling, TellStates, Rest
<1>3. m \in Answers /\ AnswerOk(m, c, ts) /\ n \in 1..Len(ts) /\ ts[n] \in Txns /\ TxnOk(ts[n])
  BY <1>1, NextAnswer
<1>4. t \in Txns /\ t.item = ts[n].item
  <2>1. t = Updated(ts[n], m)
    BY <1>1
  <2> QED BY <1>3, <2>1, UpdatedOk
<1>5. GoesOn(t, n) \in Ops /\ OpOk(GoesOn(t, n), ts)
  BY <1>2, <1>3, <1>4, GoesOnOk
<1>6. PICK k, x : k = cs[c] /\ x = [k EXCEPT !.mods = Tail(@)]
  OBVIOUS
<1>7. /\ k \in Cals /\ k.locked /\ k.mods # <<>> /\ k \in OkCals(c, ts)
      /\ \A e \in Calendars : cs[e] \in OkCals(e, ts)
  BY <1>1, <1>6 DEF Telling, TellStates
<1>8. /\ r \in [Calendars -> Cals] /\ r[c].locked /\ Len(r[c].mods) = Len(k.mods) - 1
      /\ \A e \in Calendars : e # c => r[e] = cs[e]
      /\ \A e \in Calendars : r[e] \in OkCals(e, ts)
  <2>1. r \in [Calendars -> Cals] /\ r[c] = x /\ \A e \in Calendars : e # c => r[e] = cs[e]
    BY <1>2, <1>6, <1>7, RestIs
  <2>2. x.locked /\ x.mods = Tail(k.mods)
    BY <1>6, <1>7, TailFields
  <2>3. Len(Tail(k.mods)) = Len(k.mods) - 1
    BY <1>7, OneLess
  <2>4. x \in OkCals(c, ts)
    BY <1>6, <1>7, RestOk
  <2> QED BY <1>7, <2>1, <2>2, <2>3, <2>4
<1>9. \A e \in Calendars \ {c} : r[e].locked => r[e].mods # <<>> \/ touched # {}
  BY <1>1, <1>8 DEF Telling
<1>10. CASE ~(m.op.half /\ m.ok)
  <2>1. g = r
    BY <1>1, <1>10 DEF Goes
  <2> QED BY <1>1, <1>6, <1>8, <1>9, <2>1
<1>11. CASE m.op.half /\ m.ok
  <2>1. PICK d, a : d = t.mOldItem.cal /\ a = Asked(r[d], GoesOn(t, n))
    OBVIOUS
  <2>2. g = [r EXCEPT ![d] = a]
    BY <1>1, <1>11, <2>1 DEF Goes
  <2>3. CASE d \notin Calendars
    <3>1. g = r
      BY <1>8, <2>2, <2>3
    <3> QED BY <1>1, <1>6, <1>8, <1>9, <3>1
  <2>4. CASE d \in Calendars
    <3>1. r[d] \in Cals
      BY <1>8, <2>4
    <3>2. a \in Cals /\ (r[d].locked => a.locked /\ a.mods = r[d].mods)
          /\ (a.locked => r[d].locked \/ a.mods # <<>>)
      BY <1>5, <2>1, <3>1, AskedLocks
    <3>3. a \in OkCals(d, ts)
      BY <1>5, <1>8, <2>1, <2>4, AskedOk
    <3>4. g \in [Calendars -> Cals] /\ g[d] = a /\ \A e \in Calendars : e # d => g[e] = r[e]
      BY <1>8, <2>2, <2>4, <3>2
    <3>5. g[c].locked /\ g[c].mods = r[c].mods
      BY <1>8, <3>2, <3>4
    <3>6. \A e \in Calendars : g[e] \in OkCals(e, ts)
      BY <1>8, <3>3, <3>4
    <3>7. \A e \in Calendars \ {c} : g[e].locked => g[e].mods # <<>> \/ touched # {}
      BY <1>9, <3>2, <3>4
    <3> QED BY <1>1, <1>6, <1>8, <3>4, <3>5, <3>6, <3>7
  <2> QED BY <2>3, <2>4
<1> QED BY <1>10, <1>11

LEMMA ToldOk ==
    ASSUME NEW c \in Calendars, NEW s, Telling(s, c), s.cals[c].mods # <<>>, NEW u, u = Told(s, c)
    PROVE  Telling(u, c) /\ Len(u.cals[c].mods) = Len(s.cals[c].mods) - 1
<1>1. PICK cs, ts, fl, m, n, r, k :
         /\ cs = s.cals /\ ts = s.txns /\ fl = s.failed /\ m = Head(cs[c].mods) /\ n = m.op.txn
         /\ r = Rest(s, c) /\ k = cs[c]
  OBVIOUS
<1>2. /\ cs \in [Calendars -> Cals] /\ ts \in Seq(Txns) /\ fl \in SUBSET Items
      /\ k \in Cals /\ k \in OkCals(c, ts) /\ k.locked /\ k.mods # <<>>
      /\ r = [cs EXCEPT ![c].mods = Tail(@)] /\ Len(ts) \in Nat
  BY <1>1, LenProperties DEF Telling, TellStates, Rest
<1>3. s \in TellStates /\ n = Head(s.cals[c].mods).op.txn /\ m = Head(s.cals[c].mods)
  BY <1>1 DEF Telling
<1>4. m \in Answers /\ AnswerOk(m, c, ts) /\ n \in 0..Len(ts)
      /\ (n # 0 => n \in 1..Len(ts) /\ ts[n] \in Txns /\ TxnOk(ts[n]))
  BY <1>1, NextAnswer
<1>5. PICK t : t = Updated(ts[n], m)
  OBVIOUS
<1>6. n # 0 => t \in Txns /\ TxnOk(t) /\ t.item = ts[n].item /\ t.mAction = ts[n].mAction
  BY <1>4, <1>5, UpdatedOk
<1>7. /\ r \in [Calendars -> Cals] /\ r[c].locked /\ Len(r[c].mods) = Len(k.mods) - 1
      /\ \A e \in Calendars : e # c => r[e] = cs[e]
      /\ \A e \in Calendars : r[e] \in OkCals(e, ts) /\ (r[e].threw <=> cs[e].threw)
  <2>1. PICK x : x = [k EXCEPT !.mods = Tail(@)]
    OBVIOUS
  <2>2. r \in [Calendars -> Cals] /\ r[c] = x /\ \A e \in Calendars : e # c => r[e] = cs[e]
    <3>1. cs[c].mods # <<>>
      BY <1>1
    <3>2. r[c] = [cs[c] EXCEPT !.mods = Tail(@)] /\ r \in [Calendars -> Cals]
          /\ \A e \in Calendars : e # c => r[e] = cs[e]
      BY <1>2, <3>1, RestIs
    <3> QED BY <1>1, <2>1, <3>2
  <2>3. x.locked /\ x.mods = Tail(k.mods) /\ (x.threw <=> k.threw)
    BY <1>2, <2>1, TailFields
  <2>4. Len(Tail(k.mods)) = Len(k.mods) - 1
    BY <1>2, OneLess
  <2>5. x \in OkCals(c, ts)
    BY <1>2, <2>1, RestOk
  <2>6. \A e \in Calendars : cs[e] \in OkCals(e, ts)
    BY <1>1 DEF Telling
  <2> QED BY <1>1, <2>2, <2>3, <2>4, <2>5, <2>6
<1>8. Threw(r) = Threw(cs)
  BY <1>7 DEF Threw
<1>9. \A e \in Calendars \ {c} : r[e].locked => r[e].mods # <<>> \/ touched # {}
  BY <1>1, <1>7 DEF Telling
<1>10. /\ Threw(cs) => fl # {}
       /\ Len(ts) = Len(txns) /\ SameItems(txns, ts) /\ \A j \in 1..Len(ts) : TxnOk(ts[j])
  BY <1>1 DEF Telling
<1>11. CASE n = 0
  <2>1. u = [cals |-> Rest(s, c), txns |-> s.txns, failed |-> s.failed]
    BY <1>3, <1>11, ToldIs
  <2>2. u = [cals |-> r, txns |-> ts, failed |-> fl]
    BY <1>1, <2>1
  <2>3. u.cals = r /\ u.txns = ts /\ u.failed = fl /\ u \in TellStates
    BY <1>2, <1>7, <2>2 DEF TellStates
  <2> QED BY <1>1, <1>7, <1>8, <1>9, <1>10, <2>3 DEF Telling
<1>12. CASE n # 0 /\ Threw(cs)
  <2>1. u = [cals |-> Rest(s, c), txns |-> s.txns, failed |-> s.failed \cup {t.item}]
    <3>1. t = Changed(s, c) /\ Threw(s.cals)
      BY <1>1, <1>5, <1>12 DEF Changed
    <3> QED BY <1>3, <3>1, <1>12, ToldIs
  <2>2. t.item \in Items
    BY <1>6, <1>12 DEF Txns
  <2>3. u.cals = r /\ u.txns = ts /\ u.failed = fl \cup {t.item} /\ u \in TellStates
    <3>1. u = [cals |-> r, txns |-> ts, failed |-> fl \cup {t.item}]
      BY <1>1, <2>1
    <3>2. fl \cup {t.item} \in SUBSET Items
      BY <1>2, <2>2
    <3> QED BY <1>2, <1>7, <3>1, <3>2 DEF TellStates
  <2> QED BY <1>1, <1>7, <1>9, <1>10, <2>3 DEF Telling
<1>13. CASE n # 0 /\ ~Threw(cs)
  <2>1. PICK g, f, us : /\ g = Goes(s, c) /\ us = [ts EXCEPT ![n] = t]
                        /\ f = IF m.ok /\ ~Threw(g) THEN fl ELSE fl \cup {t.item}
    OBVIOUS
  <2>2. u = [cals |-> g, txns |-> us, failed |-> f]
    <3>1. t = Changed(s, c) /\ ~Threw(s.cals)
      BY <1>1, <1>5, <1>13 DEF Changed
    <3>2. u = [cals |-> Goes(s, c), txns |-> [s.txns EXCEPT ![n] = t],
               failed |-> IF m.ok /\ ~Threw(Goes(s, c)) THEN s.failed ELSE s.failed \cup {t.item}]
      BY <1>3, <3>1, <1>13, ToldIs
    <3> QED BY <1>1, <2>1, <3>2
  <2>3. /\ g \in [Calendars -> Cals] /\ g[c].locked /\ Len(g[c].mods) = Len(k.mods) - 1
        /\ \A e \in Calendars : g[e] \in OkCals(e, ts)
        /\ \A e \in Calendars \ {c} : g[e].locked => g[e].mods # <<>> \/ touched # {}
    BY <1>1, <1>2, <1>13, <2>1, GoesIs
  <2>4. t.item \in Items /\ f \in SUBSET Items /\ (Threw(g) => f # {})
    BY <1>2, <1>6, <1>13, <2>1 DEF Txns
  <2>5. us \in Seq(Txns) /\ Len(us) = Len(ts) /\ us[n] = t
        /\ \A j \in 1..Len(ts) : j # n => us[j] = ts[j]
    BY <1>2, <1>4, <1>6, <1>13, <2>1, ExceptSeq
  <2>6. u \in TellStates
    BY <2>2, <2>3, <2>4, <2>5 DEF TellStates
  <2>7. SameItems(ts, us) /\ SameItems(txns, us) /\ \A j \in 1..Len(us) : TxnOk(us[j])
    <3>1. \A j \in 1..Len(ts) : us[j].item = ts[j].item /\ us[j].mAction = ts[j].mAction
      BY <1>2, <1>4, <1>6, <1>13, <2>5
    <3>2. \A j \in 1..Len(us) : TxnOk(us[j])
      BY <1>2, <1>4, <1>6, <1>10, <1>13, <2>5
    <3> QED BY <1>2, <1>10, <2>5, <3>1, <3>2 DEF SameItems
  <2>8. \A e \in Calendars : g[e] \in OkCals(e, us)
    BY <1>2, <2>3, <2>5, <2>7, OkStays DEF OkCals
  <2> QED BY <1>1, <1>10, <2>2, <2>3, <2>4, <2>5, <2>6, <2>7, <2>8 DEF Telling
<1> QED BY <1>1, <1>11, <1>12, <1>13

Asking == [cals |-> cals, txns |-> txns, failed |-> {}]

LEMMA TellsIs ==
    ASSUME NEW c, NEW n \in Nat, n = Len(cals[c].mods)
    PROVE  \E w : /\ w[0] = Asking
                  /\ \A j \in 1..n : w[j] = Told(w[j - 1], c)
                  /\ Tells(c) = w[n]
<1> DEFINE s[j \in 0 .. Len(cals[c].mods)] ==
             IF j = 0 THEN [cals |-> cals, txns |-> txns, failed |-> {}] ELSE Told(s[j - 1], c)
           IsRun(f, m) == f = [j \in 0 .. m |-> IF j = 0 THEN Asking ELSE Told(f[j - 1], c)]
<1>1. Tells(c) = s[n]
  BY DEF Tells
<1>2. ASSUME NEW m \in Nat, NEW f, IsRun(f, m)
      PROVE  \E g : IsRun(g, m + 1)
  <2>1. PICK g : g = [j \in 0 .. m + 1 |-> IF j <= m THEN f[j] ELSE Told(f[m], c)]
    OBVIOUS
  <2>2. \A j \in 0 .. m : f[j] = IF j = 0 THEN Asking ELSE Told(f[j - 1], c)
    BY <1>2
  <2>3. ASSUME NEW j \in 0 .. m + 1
        PROVE  g[j] = IF j = 0 THEN Asking ELSE Told(g[j - 1], c)
    <3>1. CASE j = 0
      <4>1. g[0] = f[0] /\ 0 \in 0 .. m
        BY <2>1
      <4>2. f[0] = Asking
        BY <2>2, <4>1
      <4> QED BY <3>1, <4>1, <4>2
    <3>2. CASE j \in 1 .. m
      BY <2>1, <2>2, <3>2
    <3>3. CASE j = m + 1
      BY <2>1, <3>3
    <3> QED BY <3>1, <3>2, <3>3
  <2>4. g = [j \in 0 .. m + 1 |-> IF j = 0 THEN Asking ELSE Told(g[j - 1], c)]
    BY <2>1, <2>3
  <2> QED BY <2>4
<1>3. \E f : IsRun(f, n)
  <2>1. PICK S : S = {m \in Nat : \E f : IsRun(f, m)}
    OBVIOUS
  <2>2. 0 \in S
    <3>1. PICK f : f = [j \in 0 .. 0 |-> Asking]
      OBVIOUS
    <3>2. IsRun(f, 0)
      BY <3>1
    <3> QED BY <2>1, <3>2
  <2>3. \A m \in Nat : m \in S => m + 1 \in S
    <3> HIDE DEF IsRun
    <3> QED BY <1>2, <2>1
  <2> HIDE DEF IsRun
  <2> QED BY <2>1, <2>2, <2>3, NatSetInduction
<1>4. IsRun(s, n)
  <2>1. s = CHOOSE f : IsRun(f, n)
    BY DEF Asking
  <2> HIDE DEF s, IsRun
  <2> QED BY <1>3, <2>1
<1> HIDE DEF s
<1>5. \A j \in 0 .. n : s[j] = IF j = 0 THEN Asking ELSE Told(s[j - 1], c)
  BY <1>4
<1>6. s[0] = Asking
  <2>1. 0 \in 0 .. n
    OBVIOUS
  <2> QED BY <1>5, <2>1
<1>7. \A j \in 1..n : s[j] = Told(s[j - 1], c)
  BY <1>5
<1> QED BY <1>1, <1>6, <1>7

\* A set of states of telling that is closed under Told has what comes of it all.
LEMMA TellsStays ==
    ASSUME NEW c \in Calendars, Telling(Asking, c), NEW G, Asking \in G,
           \A s \in G : Telling(s, c) /\ s.cals[c].mods # <<>> => Told(s, c) \in G
    PROVE  Tells(c) \in G /\ Telling(Tells(c), c) /\ Tells(c).cals[c].mods = <<>>
<1>1. PICK n : n = Len(cals[c].mods)
  OBVIOUS
<1>2. cals[c].mods \in Seq(Answers) /\ Asking.cals = cals
  <2>1. Asking.cals = cals /\ Asking.cals \in [Calendars -> Cals]
    <3>1. Asking \in TellStates
      BY DEF Telling
    <3>2. Asking.cals \in [Calendars -> Cals]
      BY <3>1 DEF TellStates
    <3> QED BY <3>2 DEF Asking
  <2>2. cals[c] \in Cals
    BY <2>1
  <2> QED BY <2>1, <2>2 DEF Cals
<1>3. n \in Nat
  BY <1>1, <1>2, LenProperties
<1>4. PICK w : /\ w[0] = Asking
               /\ \A j \in 1..n : w[j] = Told(w[j - 1], c)
               /\ Tells(c) = w[n]
  BY <1>1, <1>3, TellsIs
<1>5. PICK S : S = {j \in 0..n : w[j] \in G /\ Telling(w[j], c) /\ Len(w[j].cals[c].mods) = n - j}
  OBVIOUS
<1>6. 0 \in S
  <2>1. 0 \in 0..n /\ n - 0 = n
    BY <1>3
  <2> QED BY <1>1, <1>2, <1>4, <1>5, <2>1
<1>7. ASSUME NEW j \in 1..n, j - 1 \in S PROVE j \in S
  <2>1. PICK x : x = w[j - 1]
    OBVIOUS
  <2>2. x \in G /\ Telling(x, c) /\ Len(x.cals[c].mods) = n - (j - 1)
    BY <1>5, <1>7, <2>1
  <2>3. x.cals[c].mods \in Seq(Answers)
    BY <2>2 DEF Telling, TellStates, Cals
  <2>4. x.cals[c].mods # <<>>
    BY <1>3, <2>2, <2>3, EmptySeq
  <2>5. Told(x, c) \in G /\ Telling(Told(x, c), c)
        /\ Len(Told(x, c).cals[c].mods) = Len(x.cals[c].mods) - 1
    BY <2>2, <2>4, ToldOk
  <2>6. w[j] = Told(x, c) /\ j \in 0..n
    BY <1>4, <1>3, <2>1
  <2>7. Len(Told(x, c).cals[c].mods) = n - j
    <3>1. PICK p, q : p = Len(x.cals[c].mods) /\ q = Len(Told(x, c).cals[c].mods)
      OBVIOUS
    <3>2. p = n - (j - 1) /\ q = p - 1
      BY <2>2, <2>5, <3>1
    <3> QED BY <1>3, <3>1, <3>2
  <2> QED BY <1>5, <2>5, <2>6, <2>7
<1>8. n \in S
  <2>1. \A j \in 1..n : j - 1 \in S => j \in S
    BY <1>7
  <2>2. \A j \in 0..n : j \in S
    BY <1>3, <1>6, <2>1, UpTo
  <2> QED BY <1>3, <2>2
<1>9. Tells(c) \in G /\ Telling(Tells(c), c) /\ Len(Tells(c).cals[c].mods) = 0
  BY <1>3, <1>4, <1>5, <1>8
<1>10. Tells(c).cals[c].mods \in Seq(Answers)
  BY <1>9 DEF Telling, TellStates, Cals
<1> QED BY <1>9, <1>10, EmptySeq

-----------------------------------------------------------------------------
(* The invariant.  The stacks are read as one line of transactions, from the *)
(* bottom of the undo stack to its top and on from the top of the redo stack  *)
(* to its bottom: undo and redo only move the point between them.             *)

CalsOk(cs, ts, th) ==
    /\ cs \in [Calendars -> Cals]
    /\ \A c \in Calendars : cs[c] \in OkCals(c, ts) /\ (cs[c].locked => cs[c].mods # <<>> \/ th # {})

Line(us, rs) ==
    [p \in 1..(Len(us) + Len(rs)) |-> IF p <= Len(us) THEN us[p] ELSE rs[Len(us) + Len(rs) + 1 - p]]

StacksOk(us, rs, ts) ==
    /\ us \in Seq(Nat) /\ rs \in Seq(Nat)
    /\ \A p \in DOMAIN Line(us, rs) : Line(us, rs)[p] \in 1..Len(ts)
    /\ \A p, q \in DOMAIN Line(us, rs) : Line(us, rs)[p] = Line(us, rs)[q] => p = q
    /\ \A p \in 1..Len(rs) : ts[rs[p]].mAction = "modify"

TxnsOk(ts) == ts \in Seq(Txns) /\ \A n \in 1..Len(ts) : TxnOk(ts[n])

Lefts == [steps : Nat, foreign : Nat, toggles : Nat, events : Nat]

ManagerInv ==
    /\ CalsOk(cals, txns, touched) /\ ~Threw(cals)
    /\ TxnsOk(txns) /\ StacksOk(undoStack, redoStack, txns)
    /\ left \in Lefts
    /\ overtaken \subseteq Items /\ touched \subseteq Items

LEMMA AskAtOk ==
    ASSUME NEW ts, NEW th, NEW cs, CalsOk(cs, ts, th), NEW d, NEW op \in Ops, OpOk(op, ts)
    PROVE  CalsOk([cs EXCEPT ![d] = Asked(@, op)], ts, th)
<1>1. CASE d \notin Calendars
  <2>1. [cs EXCEPT ![d] = Asked(@, op)] = cs
    BY <1>1 DEF CalsOk
  <2> QED BY <2>1
<1>2. CASE d \in Calendars
  <2>1. PICK k, a : k = cs[d] /\ a = Asked(k, op)
    OBVIOUS
  <2>2. k \in Cals /\ k \in OkCals(d, ts) /\ (k.locked => k.mods # <<>> \/ th # {})
    BY <1>2, <2>1 DEF CalsOk
  <2>3. a \in OkCals(d, ts)
    BY <2>1, <2>2, AskedOk
  <2>4. a \in Cals /\ (k.locked => a.mods = k.mods) /\ (a.locked => k.locked \/ a.mods # <<>>)
    BY <2>1, <2>2, AskedLocks
  <2>5. PICK r : r = [cs EXCEPT ![d] = a]
    OBVIOUS
  <2>6. r \in [Calendars -> Cals] /\ r[d] = a /\ \A e \in Calendars : e # d => r[e] = cs[e]
    BY <1>2, <2>4, <2>5 DEF CalsOk
  <2>7. CalsOk(r, ts, th)
    BY <2>2, <2>3, <2>4, <2>6 DEF CalsOk
  <2> QED BY <2>1, <2>5, <2>7
<1> QED BY <1>1, <1>2

LEMMA CalmOk ==
    ASSUME NEW ts, NEW th, NEW cs, CalsOk(cs, ts, th)
    PROVE  CalsOk(Calm(cs), ts, th) /\ ~Threw(Calm(cs))
<1>1. PICK r : r = Calm(cs)
  OBVIOUS
<1>2. ASSUME NEW c \in Calendars, NEW k, k = cs[c]
      PROVE  /\ r[c] \in Cals /\ r[c] \in OkCals(c, ts) /\ ~r[c].threw
             /\ (r[c].locked => r[c].mods # <<>> \/ th # {})
  <2>1. k \in Cals /\ k \in OkCals(c, ts) /\ (k.locked => k.mods # <<>> \/ th # {})
    BY <1>2 DEF CalsOk
  <2>2. r[c] = [k EXCEPT !.threw = FALSE]
    BY <1>1, <1>2 DEF Calm
  <2>3. PICK x : x = [k EXCEPT !.threw = FALSE]
    OBVIOUS
  <2>4. x \in Cals /\ x.id = k.id /\ x.mItems = k.mItems /\ x.queue = k.queue /\ x.mods = k.mods
        /\ (x.locked <=> k.locked) /\ ~x.threw
    BY <2>1, <2>3 DEF Cals
  <2>5. x \in OkCals(c, ts)
    BY <2>1, <2>4 DEF OkCals, CalOk
  <2> QED BY <2>1, <2>2, <2>3, <2>4, <2>5
<1>3. r \in [Calendars -> Cals]
  BY <1>1, <1>2 DEF Calm
<1> QED BY <1>1, <1>2, <1>3 DEF CalsOk, Threw

LEMMA LineFacts ==
    ASSUME NEW us \in Seq(Nat), NEW rs \in Seq(Nat)
    PROVE  /\ Len(us) \in Nat /\ Len(rs) \in Nat
           /\ DOMAIN Line(us, rs) = 1..(Len(us) + Len(rs))
           /\ \A p \in 1..Len(us) : Line(us, rs)[p] = us[p]
           /\ \A p \in 1..Len(rs) : Line(us, rs)[Len(us) + Len(rs) + 1 - p] = rs[p]
                                    /\ Len(us) + Len(rs) + 1 - p \in DOMAIN Line(us, rs)
BY SMTT(30), LenProperties DEF Line

LEMMA FrontIs ==
    ASSUME NEW us \in Seq(Nat), us # <<>>
    PROVE  /\ Front(us) \in Seq(Nat) /\ Len(us) \in Nat \ {0} /\ Len(Front(us)) = Len(us) - 1
           /\ \A p \in 1..(Len(us) - 1) : Front(us)[p] = us[p]
           /\ Last(us) = us[Len(us)] /\ Last(us) \in Nat
<1>1. Len(us) \in Nat \ {0}
  BY EmptySeq
<1>2. \A p \in 1..(Len(us) - 1) : us[p] \in Nat
  BY <1>1, ElementOfSeq
<1>3. us[Len(us)] \in Nat
  BY <1>1, ElementOfSeq
<1>4. Front(us) = SubSeq(us, 1, Len(us) - 1)
  BY DEF Front
<1>5. Front(us) \in Seq(Nat) /\ Len(Front(us)) = Len(us) - 1
      /\ \A p \in 1..(Len(us) - 1) : Front(us)[p] = us[p]
  <2>1. PICK k : k = Len(us) - 1
    OBVIOUS
  <2>2. k \in Nat /\ 1 \in Int /\ k \in Int /\ \A i \in 1..k : us[i] \in Nat
    BY <1>1, <1>2, <2>1
  <2>3. PICK a : a = SubSeq(us, 1, k)
    OBVIOUS
  <2>4. /\ a \in Seq(Nat) /\ Len(a) = (IF 1 <= k THEN k - 1 + 1 ELSE 0)
        /\ \A i \in 1..(k - 1 + 1) : a[i] = us[1 + i - 1]
    BY <2>2, <2>3, SubSeqProperties
  <2>5. Len(a) = k /\ \A i \in 1..k : a[i] = us[i]
    BY <2>2, <2>4
  <2> QED BY <1>4, <2>1, <2>3, <2>4, <2>5
<1> QED BY <1>1, <1>3, <1>5 DEF Last

\* Undo and redo leave the line alone.
LEMMA LineMoves ==
    ASSUME NEW us \in Seq(Nat), NEW rs \in Seq(Nat), us # <<>>
    PROVE  /\ Front(us) \in Seq(Nat) /\ Append(rs, Last(us)) \in Seq(Nat)
           /\ Len(Front(us)) = Len(us) - 1 /\ Len(Append(rs, Last(us))) = Len(rs) + 1
           /\ Line(Front(us), Append(rs, Last(us))) = Line(us, rs)
<1>1. PICK a, n, z : a = Front(us) /\ n = Len(us) /\ z = Last(us)
  OBVIOUS
<1>2. a \in Seq(Nat) /\ n \in Nat \ {0} /\ Len(a) = n - 1 /\ z = us[n] /\ z \in Nat
      /\ \A p \in 1..(n - 1) : a[p] = us[p]
  BY <1>1, FrontIs
<1>3. PICK b, m : b = Append(rs, z) /\ m = Len(rs)
  OBVIOUS
<1>4. b \in Seq(Nat) /\ m \in Nat /\ Len(b) = m + 1 /\ b[m + 1] = z /\ \A p \in 1..m : b[p] = rs[p]
  BY <1>2, <1>3, AppendProperties, LenProperties
<1>5. Line(a, b) = [p \in 1..(n + m) |-> IF p <= n - 1 THEN a[p] ELSE b[n + m + 1 - p]]
  <2>1. Len(a) + Len(b) = n + m
    BY <1>2, <1>4
  <2> QED BY <1>2, <2>1 DEF Line
<1>6. Line(us, rs) = [p \in 1..(n + m) |-> IF p <= n THEN us[p] ELSE rs[n + m + 1 - p]]
  BY <1>1, <1>3 DEF Line
<1>7. ASSUME NEW p \in 1..(n + m)
      PROVE  (IF p <= n - 1 THEN a[p] ELSE b[n + m + 1 - p])
               = (IF p <= n THEN us[p] ELSE rs[n + m + 1 - p])
  <2>1. CASE p <= n - 1
    BY <1>2, <1>4, <2>1
  <2>2. CASE p = n
    BY <1>2, <1>4, <2>2
  <2>3. CASE p > n
    <3>1. n + m + 1 - p \in 1..m
      BY <1>2, <1>4, <2>3
    <3> QED BY <1>2, <1>4, <2>3, <3>1
  <2> QED BY <1>2, <1>4, <2>1, <2>2, <2>3
<1>8. Line(a, b) = Line(us, rs)
  BY <1>5, <1>6, <1>7
<1> QED BY <1>1, <1>2, <1>3, <1>4, <1>8

LEMMA LineMovesBack ==
    ASSUME NEW us \in Seq(Nat), NEW rs \in Seq(Nat), rs # <<>>
    PROVE  /\ Front(rs) \in Seq(Nat) /\ Append(us, Last(rs)) \in Seq(Nat)
           /\ Len(Front(rs)) = Len(rs) - 1 /\ Len(Append(us, Last(rs))) = Len(us) + 1
           /\ Line(Append(us, Last(rs)), Front(rs)) = Line(us, rs)
<1>1. PICK a, n, z : a = Front(rs) /\ n = Len(rs) /\ z = Last(rs)
  OBVIOUS
<1>2. a \in Seq(Nat) /\ n \in Nat \ {0} /\ Len(a) = n - 1 /\ z = rs[n] /\ z \in Nat
      /\ \A p \in 1..(n - 1) : a[p] = rs[p]
  BY <1>1, FrontIs
<1>3. PICK b, m : b = Append(us, z) /\ m = Len(us)
  OBVIOUS
<1>4. b \in Seq(Nat) /\ m \in Nat /\ Len(b) = m + 1 /\ b[m + 1] = z /\ \A p \in 1..m : b[p] = us[p]
  BY <1>2, <1>3, AppendProperties, LenProperties
<1>5. Line(b, a) = [p \in 1..(n + m) |-> IF p <= m + 1 THEN b[p] ELSE a[n + m + 1 - p]]
  <2>1. Len(b) + Len(a) = n + m
    BY <1>2, <1>4
  <2> QED BY <1>4, <2>1 DEF Line
<1>6. Line(us, rs) = [p \in 1..(n + m) |-> IF p <= m THEN us[p] ELSE rs[n + m + 1 - p]]
  <2>1. Len(us) + Len(rs) = n + m
    BY <1>1, <1>2, <1>3, <1>4
  <2> QED BY <1>3, <2>1 DEF Line
<1>7. ASSUME NEW p \in 1..(n + m)
      PROVE  (IF p <= m + 1 THEN b[p] ELSE a[n + m + 1 - p])
               = (IF p <= m THEN us[p] ELSE rs[n + m + 1 - p])
  <2>1. CASE p <= m
    BY <1>2, <1>4, <2>1
  <2>2. CASE p = m + 1
    <3>1. n + m + 1 - p = n
      BY <1>2, <1>4, <2>2
    <3> QED BY <1>2, <1>4, <2>2, <3>1
  <2>3. CASE p > m + 1
    <3>1. n + m + 1 - p \in 1..(n - 1)
      BY <1>2, <1>4, <2>3
    <3> QED BY <1>2, <1>4, <2>3, <3>1
  <2> QED BY <1>2, <1>4, <2>1, <2>2, <2>3
<1>8. Line(b, a) = Line(us, rs)
  BY <1>5, <1>6, <1>7
<1> QED BY <1>1, <1>2, <1>3, <1>4, <1>8

\* A new transaction ends the line where it is done.
LEMMA LineGrows ==
    ASSUME NEW us \in Seq(Nat), NEW rs \in Seq(Nat), NEW z \in Nat
    PROVE  /\ Append(us, z) \in Seq(Nat) /\ Len(Append(us, z)) = Len(us) + 1
           /\ <<>> \in Seq(Nat) /\ Len(<<>>) = 0
           /\ DOMAIN Line(Append(us, z), <<>>) = 1..(Len(us) + 1)
           /\ Line(Append(us, z), <<>>)[Len(us) + 1] = z
           /\ \A p \in 1..Len(us) : Line(Append(us, z), <<>>)[p] = Line(us, rs)[p]
                                    /\ p \in DOMAIN Line(us, rs)
<1>1. PICK b, m : b = Append(us, z) /\ m = Len(us)
  OBVIOUS
<1>2. b \in Seq(Nat) /\ m \in Nat /\ Len(b) = m + 1 /\ b[m + 1] = z /\ \A p \in 1..m : b[p] = us[p]
  BY <1>1, AppendProperties, LenProperties
<1>3. <<>> \in Seq(Nat) /\ Len(<<>>) = 0
  BY EmptySeq
<1>4. PICK e : e = <<>> /\ e \in Seq(Nat) /\ Len(e) = 0
  BY <1>3
<1>5. DOMAIN Line(b, e) = 1..(m + 1) /\ \A p \in 1..(m + 1) : Line(b, e)[p] = b[p]
  <2>1. DOMAIN Line(b, e) = 1..(Len(b) + Len(e)) /\ \A p \in 1..Len(b) : Line(b, e)[p] = b[p]
    BY ZenonT(40), <1>2, <1>4, LineFacts
  <2>2. Len(b) + Len(e) = m + 1
    BY <1>2, <1>4
  <2> QED BY <1>2, <2>1, <2>2
<1>6. \A p \in 1..m : Line(us, rs)[p] = us[p] /\ p \in DOMAIN Line(us, rs)
  BY SMTT(30), <1>1, LineFacts
<1>7. Line(b, e)[m + 1] = z /\ \A p \in 1..m : Line(b, e)[p] = Line(us, rs)[p] /\ p \in DOMAIN Line(us, rs)
  BY <1>2, <1>5, <1>6
<1> QED BY <1>1, <1>2, <1>3, <1>4, <1>5, <1>7

-----------------------------------------------------------------------------
(* What a transaction asks.                                                  *)

\* The operations of a transaction.
DoOp(n, t) ==
    Op(IF IsMove(t) THEN "add" ELSE t.mAction, t.item, t.mItem,
       IF t.mAction = "delete" THEN t.mItem ELSE t.mOldItem, n, IsMove(t))
ModifyOp(n, t) == Op("modify", t.item, t.mOldItem, t.mItem, n, FALSE)
DeleteOp(n, t) == Op("delete", t.item, NoItem, t.mItem, n, FALSE)
AddOp(n, t)    == Op("add", t.item, t.mOldItem, NoItem, n, FALSE)

LEMMA DoIs ==
    ASSUME NEW n, NEW t
    PROVE  DoTransaction(n, t) = [cals EXCEPT ![t.mCalendar] = Asked(@, DoOp(n, t))]
BY DEF DoTransaction, DoOp

LEMMA TxnOpsOk ==
    ASSUME NEW ts \in Seq(Txns), NEW n \in 1..Len(ts), NEW t \in Txns, TxnOk(t), t.item = ts[n].item
    PROVE  /\ DoOp(n, t) \in Ops /\ OpOk(DoOp(n, t), ts)
           /\ DoOp(n, t).item = t.item /\ DoOp(n, t).txn = n /\ DoOp(n, t).new = t.mItem
           /\ DoOp(n, t).kind = IF IsMove(t) THEN "add" ELSE t.mAction
           /\ DoOp(n, t).old = IF t.mAction = "delete" THEN t.mItem ELSE t.mOldItem
           /\ (DoOp(n, t).half <=> IsMove(t))
           /\ DeleteOp(n, t) \in Ops /\ OpOk(DeleteOp(n, t), ts)
           /\ t.mAction = "modify" => /\ AddOp(n, t) \in Ops /\ OpOk(AddOp(n, t), ts)
                                      /\ ModifyOp(n, t) \in Ops
                                      /\ ~IsMove(t) => OpOk(ModifyOp(n, t), ts)
<1>1. Len(ts) \in Nat /\ n \in Nat /\ n \in 0..Len(ts) /\ n # 0
  BY LenProperties
<1>2. t.item \in Items /\ t.mItem \in Objects /\ t.mOldItem \in Objects /\ t.mAction \in Kinds
  BY DEF Txns
<1>3. PICK kind, old, half : /\ kind = IF IsMove(t) THEN "add" ELSE t.mAction
                             /\ old = IF t.mAction = "delete" THEN t.mItem ELSE t.mOldItem
                             /\ half = IsMove(t)
  OBVIOUS
<1>4. kind \in Kinds /\ old \in Objects /\ half \in BOOLEAN
  BY <1>2, <1>3 DEF IsMove, Kinds
<1>5. PICK op : op = DoOp(n, t)
  OBVIOUS
<1>6. op = [kind |-> kind, item |-> t.item, new |-> t.mItem, old |-> old, txn |-> n, half |-> half]
  BY <1>3, <1>5 DEF DoOp, Op
<1>7. op \in Ops /\ op.kind = kind /\ op.item = t.item /\ op.new = t.mItem /\ op.old = old /\ op.txn = n
      /\ (op.half <=> half)
  BY <1>1, <1>2, <1>4, <1>6 DEF Ops
<1>8. OpOk(op, ts)
  <2>1. op.kind = "modify" => op.new.cal = op.old.cal
    BY <1>3, <1>7 DEF IsMove
  <2>2. Exists(op.new)
    BY <1>7 DEF TxnOk
  <2>3. op.half => op.kind = "add" /\ op.txn # 0
    BY <1>1, <1>3, <1>7
  <2> QED BY <1>1, <1>7, <2>1, <2>2, <2>3 DEF OpOk
<1>9. PICK del, add, mod : del = DeleteOp(n, t) /\ add = AddOp(n, t) /\ mod = ModifyOp(n, t)
  OBVIOUS
<1>10. del \in Ops /\ OpOk(del, ts)
  <2>1. del = [kind |-> "delete", item |-> t.item, new |-> NoItem, old |-> t.mItem, txn |-> n, half |-> FALSE]
    BY <1>9 DEF DeleteOp, Op
  <2> QED BY <1>1, <1>2, <2>1, NoItemIs DEF Ops, Kinds, OpOk
<1>11. ASSUME t.mAction = "modify" PROVE add \in Ops /\ OpOk(add, ts)
  <2>1. add = [kind |-> "add", item |-> t.item, new |-> t.mOldItem, old |-> NoItem, txn |-> n, half |-> FALSE]
    BY <1>9 DEF AddOp, Op
  <2>2. Exists(t.mOldItem)
    BY <1>11 DEF TxnOk
  <2> QED BY <1>1, <1>2, <2>1, <2>2, NoItemIs DEF Ops, Kinds, OpOk
<1>12. ASSUME t.mAction = "modify" PROVE mod \in Ops /\ (~IsMove(t) => OpOk(mod, ts))
  <2>1. mod = [kind |-> "modify", item |-> t.item, new |-> t.mOldItem, old |-> t.mItem, txn |-> n, half |-> FALSE]
    BY <1>9 DEF ModifyOp, Op
  <2>2. Exists(t.mOldItem) /\ (~IsMove(t) => t.mItem.cal = t.mOldItem.cal)
    BY <1>12 DEF TxnOk, IsMove
  <2> QED BY <1>1, <1>2, <2>1, <2>2 DEF Ops, Kinds, OpOk
<1> QED BY <1>3, <1>5, <1>7, <1>8, <1>9, <1>10, <1>11, <1>12

\* The first of what an undo asks, and the second.
UndoFirst(n, t) == [cals EXCEPT ![t.mCalendar] = Asked(@, IF IsMove(t) THEN DeleteOp(n, t) ELSE ModifyOp(n, t))]

LEMMA UndoIs ==
    ASSUME NEW n, NEW t
    PROVE  UndoTransaction(n, t) =
             IF ~IsMove(t) \/ Threw(UndoFirst(n, t)) THEN UndoFirst(n, t)
             ELSE [UndoFirst(n, t) EXCEPT ![t.mOldCalendar] = Asked(@, AddOp(n, t))]
BY DEF UndoTransaction, UndoFirst, DeleteOp, ModifyOp, AddOp

LEMMA DoOk ==
    ASSUME NEW ts \in Seq(Txns), NEW th, CalsOk(cals, ts, th), NEW n \in 1..Len(ts),
           NEW t \in Txns, TxnOk(t), t.item = ts[n].item
    PROVE  CalsOk(DoTransaction(n, t), ts, th)
BY TxnOpsOk, AskAtOk, DoIs

LEMMA UndoOk ==
    ASSUME NEW ts \in Seq(Txns), NEW th, CalsOk(cals, ts, th), NEW n \in 1..Len(ts),
           NEW t \in Txns, TxnOk(t), t.item = ts[n].item, t.mAction = "modify"
    PROVE  CalsOk(UndoTransaction(n, t), ts, th)
<1>1. PICK op, f : op = (IF IsMove(t) THEN DeleteOp(n, t) ELSE ModifyOp(n, t)) /\ f = UndoFirst(n, t)
  OBVIOUS
<1>2. op \in Ops /\ OpOk(op, ts) /\ AddOp(n, t) \in Ops /\ OpOk(AddOp(n, t), ts)
  BY <1>1, TxnOpsOk
<1>3. f = [cals EXCEPT ![t.mCalendar] = Asked(@, op)]
  BY <1>1 DEF UndoFirst
<1>4. CalsOk(f, ts, th)
  BY <1>2, <1>3, AskAtOk
<1>5. CalsOk([f EXCEPT ![t.mOldCalendar] = Asked(@, AddOp(n, t))], ts, th)
  BY <1>2, <1>4, AskAtOk
<1> QED BY <1>1, <1>4, <1>5, UndoIs

-----------------------------------------------------------------------------
(* The invariant is kept.                                                    *)

LEMMA AsksKeep ==
    ASSUME ManagerInv, NEW t \in Txns, NEW cs, Asks(t, cs), CalsOk(cs, txns', touched)
    PROVE  /\ CalsOk(cals', txns', touched') /\ ~Threw(cals')
           /\ overtaken' \subseteq Items /\ touched' \subseteq Items
<1>1. cals' = Calm(cs) /\ t.item \in Items
  BY DEF Asks, Txns
<1>2. overtaken' \subseteq Items /\ touched' \subseteq Items /\ touched \subseteq touched'
  BY <1>1 DEF Asks, ManagerInv
<1>3. CalsOk(Calm(cs), txns', touched) /\ ~Threw(Calm(cs))
  BY CalmOk
<1>4. CalsOk(Calm(cs), txns', touched')
  BY <1>2, <1>3 DEF CalsOk
<1> QED BY <1>1, <1>2, <1>3, <1>4

LEMMA InitKeeps == ASSUME Init PROVE ManagerInv
<1>1. PICK home \in [Items -> Calendars \cup {NoItem}] :
          cals = [c \in Calendars |->
             [id |-> c, mItems |-> [i \in Items |-> IF home[i] = c THEN Object(c, -1, 0) ELSE NoItem],
              queue |-> <<>>, mods |-> <<>>, locked |-> FALSE, readOnly |-> FALSE,
              threw |-> FALSE]]
  BY DEF Init
<1>2. /\ txns = <<>> /\ undoStack = <<>> /\ redoStack = <<>> /\ overtaken = {} /\ touched = {}
      /\ left = [steps |-> MaxSteps, foreign |-> MaxForeign, toggles |-> MaxToggles, events |-> MaxEvents]
  BY DEF Init
<1>3. ASSUME NEW c \in Calendars, NEW k, k = cals[c]
      PROVE  k \in Cals /\ k \in OkCals(c, txns) /\ ~k.threw /\ ~k.locked
  <2>1. PICK f : f = [i \in Items |-> IF home[i] = c THEN Object(c, -1, 0) ELSE NoItem]
    OBVIOUS
  <2>2. k = [id |-> c, mItems |-> f, queue |-> <<>>, mods |-> <<>>, locked |-> FALSE,
             readOnly |-> FALSE, threw |-> FALSE]
    BY <1>1, <1>3, <2>1
  <2>3. f \in [Items -> Objects] /\ \A i \in Items : Exists(f[i]) => f[i].cal = c
    BY <2>1 DEF Object, Objects, NoItem, Exists
  <2>4. <<>> \in Seq(Ops) /\ <<>> \in Seq(Answers) /\ Len(<<>>) = 0
    BY EmptySeq
  <2>5. k \in Cals
    BY <2>2, <2>3, <2>4 DEF Cals
  <2>6. CalOk(k, txns)
    BY <2>2, <2>3, <2>4 DEF CalOk
  <2> QED BY <2>2, <2>5, <2>6 DEF OkCals
<1>4. cals \in [Calendars -> Cals]
  BY <1>1, <1>3
<1>5. CalsOk(cals, txns, touched) /\ ~Threw(cals)
  BY <1>3, <1>4 DEF CalsOk, Threw
<1>6. TxnsOk(txns)
  BY <1>2, EmptySeq DEF TxnsOk
<1>7. StacksOk(undoStack, redoStack, txns)
  <2>1. undoStack \in Seq(Nat) /\ redoStack \in Seq(Nat) /\ Len(undoStack) = 0 /\ Len(redoStack) = 0
    BY <1>2, EmptySeq
  <2>2. DOMAIN Line(undoStack, redoStack) = 1..(Len(undoStack) + Len(redoStack))
    BY <2>1, LineFacts
  <2>3. DOMAIN Line(undoStack, redoStack) = {}
    BY <2>1, <2>2
  <2> QED BY <2>1, <2>3 DEF StacksOk
<1>8. left \in Lefts
  BY <1>2, ConstantsAssumption DEF Lefts
<1> QED BY <1>2, <1>5, <1>6, <1>7, <1>8 DEF ManagerInv

\* A transaction that is done or undone, as it is kept.
LEMMA DoneOk ==
    ASSUME NEW t \in Txns, TxnOk(t)
    PROVE  /\ Done(t) \in Txns /\ TxnOk(Done(t)) /\ Done(t).item = t.item
           /\ Done(t).mAction = t.mAction /\ Done(t).mItem = t.mItem /\ Done(t).mOldItem = t.mOldItem
           /\ Done(t).mCalendar = t.mCalendar /\ Done(t).mIsDoTransaction
           /\ Done(t).mOldCalendar = IF IsMove(t) THEN t.mOldItem.cal ELSE t.mOldCalendar
           /\ Undone(t) \in Txns /\ (t.mAction = "modify" => TxnOk(Undone(t))) /\ Undone(t).item = t.item
           /\ Undone(t).mAction = t.mAction /\ Undone(t).mItem = t.mItem
           /\ Undone(t).mOldItem = t.mOldItem /\ Undone(t).mCalendar = t.mCalendar
           /\ Undone(t).mOldCalendar = t.mOldCalendar /\ ~Undone(t).mIsDoTransaction
<1>1. PICK c : c = IF IsMove(t) THEN t.mOldItem.cal ELSE t.mOldCalendar
  OBVIOUS
<1>2. c \in Calendars \cup {0}
  BY <1>1 DEF Txns, Objects
<1>3. PICK d, u : d = Done(t) /\ u = Undone(t)
  OBVIOUS
<1>4. d = [t EXCEPT !.mIsDoTransaction = TRUE, !.mOldCalendar = c]
  BY <1>1, <1>3 DEF Done
<1>5. d \in Txns /\ d.item = t.item /\ d.mAction = t.mAction /\ d.mItem = t.mItem
      /\ d.mOldItem = t.mOldItem /\ d.mCalendar = t.mCalendar /\ d.mIsDoTransaction /\ d.mOldCalendar = c
  BY <1>2, <1>4 DEF Txns
<1>6. u = [t EXCEPT !.mIsDoTransaction = FALSE]
  BY <1>3 DEF Undone
<1>7. u \in Txns /\ u.item = t.item /\ u.mAction = t.mAction /\ u.mItem = t.mItem
      /\ u.mOldItem = t.mOldItem /\ u.mCalendar = t.mCalendar /\ ~u.mIsDoTransaction
      /\ u.mOldCalendar = t.mOldCalendar
  BY <1>6 DEF Txns
<1>8. TxnOk(d) /\ (t.mAction = "modify" => TxnOk(u))
  BY <1>5, <1>7 DEF TxnOk
<1> QED BY <1>1, <1>3, <1>5, <1>7, <1>8

\* The transaction that a user makes.
NewTxn(action, i, c, d) ==
    [item |-> i, mAction |-> IF action = "move" THEN "modify" ELSE action,
     mCalendar |-> d, mOldCalendar |-> c, mIsDoTransaction |-> TRUE,
     mItem |-> IF action = "delete" THEN Shown(c, i) ELSE Object(d, Len(txns) + 1, Shown(c, i).g),
     mOldItem |-> IF action \in {"modify", "move"} THEN Shown(c, i) ELSE NoItem]

LEMMA CreateIs ==
    ASSUME NEW a, NEW i, NEW c, NEW d, CreateAndCommitTxn(a, i, c, d),
           NEW t, t = NewTxn(a, i, c, d), NEW n, n = Len(txns) + 1, NEW cs, cs = DoTransaction(n, t)
    PROVE  /\ n <= MaxTxns /\ ~cals[d].readOnly /\ ~cals[c].readOnly
           /\ a = "move" <=> c # d
           /\ IF a = "add" THEN \A e \in Calendars : ~Exists(Shown(e, i)) ELSE Exists(Shown(c, i))
           /\ txns' = Append(txns, Done(t)) /\ Asks(t, cs)
           /\ left.events > 0 /\ left' = [left EXCEPT !.events = @ - 1]
           /\ IF Threw(cs) THEN UNCHANGED <<undoStack, redoStack>>
              ELSE undoStack' = Append(undoStack, n) /\ redoStack' = <<>>
BY DEF CreateAndCommitTxn, NewTxn

LEMMA ShownIs ==
    ASSUME ManagerInv, NEW c \in Calendars, NEW i \in Items
    PROVE  /\ Shown(c, i) \in Objects /\ (Exists(Shown(c, i)) => Shown(c, i).cal = c)
           /\ Shown(c, i) = cals[c].mItems[i]
<1>1. cals[c] \in Cals /\ cals[c].id = c /\ CalOk(cals[c], txns)
  BY DEF ManagerInv, CalsOk, OkCals
<1>2. cals[c].mItems \in [Items -> Objects]
  BY <1>1 DEF Cals
<1> QED BY <1>1, <1>2 DEF CalOk, Shown

LEMMA NewTxnOk ==
    ASSUME ManagerInv, NEW a \in Actions, NEW i \in Items, NEW c \in Calendars, NEW d \in Calendars,
           a # "add" => Exists(Shown(c, i)), NEW t, t = NewTxn(a, i, c, d)
    PROVE  t \in Txns /\ TxnOk(t) /\ t.item = i
<1>1. PICK o : o = Shown(c, i)
  OBVIOUS
<1>2. o \in Objects
  BY <1>1, ShownIs
<1>3. Len(txns) + 1 \in Int /\ Len(txns) + 1 # 0
  BY LenProperties DEF ManagerInv, TxnsOk
<1>4. PICK p : p = Object(d, Len(txns) + 1, o.g)
  OBVIOUS
<1>5. p \in Objects /\ Exists(p)
  BY <1>2, <1>3, <1>4 DEF Object, Objects, Exists
<1>6. a \in {"add", "modify", "move", "delete"}
  BY ConstantsAssumption
<1>7. t = [item |-> i, mAction |-> IF a = "move" THEN "modify" ELSE a,
           mCalendar |-> d, mOldCalendar |-> c, mIsDoTransaction |-> TRUE,
           mItem |-> IF a = "delete" THEN o ELSE p,
           mOldItem |-> IF a \in {"modify", "move"} THEN o ELSE NoItem]
  BY <1>1, <1>4 DEF NewTxn
<1>8. t \in Txns
  BY <1>2, <1>5, <1>6, <1>7, NoItemIs DEF Txns, Kinds
<1>9. TxnOk(t)
  BY <1>1, <1>5, <1>6, <1>7, NoItemIs DEF TxnOk
<1> QED BY <1>7, <1>8, <1>9

LEMMA AppendTxn ==
    ASSUME NEW ts \in Seq(Txns), NEW t \in Txns, TxnsOk(ts), TxnOk(t), NEW us, us = Append(ts, t)
    PROVE  /\ us \in Seq(Txns) /\ TxnsOk(us) /\ SameItems(ts, us) /\ Len(us) = Len(ts) + 1
           /\ Len(ts) \in Nat /\ us[Len(ts) + 1] = t /\ \A j \in 1..Len(ts) : us[j] = ts[j]
<1>1. /\ us \in Seq(Txns) /\ Len(us) = Len(ts) + 1 /\ Len(ts) \in Nat
      /\ us[Len(ts) + 1] = t /\ \A j \in 1..Len(ts) : us[j] = ts[j]
  BY AppendProperties, LenProperties
<1>2. \A j \in 1..Len(us) : j \in 1..Len(ts) \/ j = Len(ts) + 1
  BY <1>1
<1>3. TxnsOk(us)
  BY <1>1, <1>2 DEF TxnsOk
<1>4. SameItems(ts, us)
  BY <1>1 DEF SameItems
<1> QED BY <1>1, <1>3, <1>4

LEMMA SetTxn ==
    ASSUME NEW ts \in Seq(Txns), NEW n \in 1..Len(ts), NEW t \in Txns, TxnsOk(ts), TxnOk(t),
           t.item = ts[n].item, t.mAction = ts[n].mAction, NEW us \in Seq(Txns),
           Len(us) = Len(ts), us[n] = t, \A j \in 1..Len(ts) : j # n => us[j] = ts[j]
    PROVE  TxnsOk(us) /\ SameItems(ts, us)
BY LenProperties DEF TxnsOk, SameItems

\* What the transactions go on to be does not matter to the calendars, but for their items.
LEMMA CalsStayOk ==
    ASSUME NEW ts \in Seq(Txns), NEW us \in Seq(Txns), SameItems(ts, us), NEW th, NEW cs, CalsOk(cs, ts, th)
    PROVE  CalsOk(cs, us, th)
BY OkStays DEF CalsOk, OkCals

\* The platform's stacks, if there is a new transaction, and if one changes.
LEMMA StacksGrow ==
    ASSUME NEW us, NEW rs, NEW ts \in Seq(Txns), StacksOk(us, rs, ts), NEW ts2 \in Seq(Txns),
           SameItems(ts, ts2), Len(ts2) = Len(ts) + 1
    PROVE  StacksOk(us, rs, ts2) /\ StacksOk(Append(us, Len(ts) + 1), <<>>, ts2)
<1>1. PICK z : z = Len(ts) + 1
  OBVIOUS
<1>2. Len(ts) \in Nat /\ z \in Nat
  BY <1>1, LenProperties
<1>3. us \in Seq(Nat) /\ rs \in Seq(Nat) /\ Len(us) \in Nat /\ Len(rs) \in Nat
  BY LenProperties DEF StacksOk
<1>4. StacksOk(us, rs, ts2)
  <2>1. \A p \in 1..Len(rs) : rs[p] \in 1..Len(ts)
    BY <1>3, LineFacts DEF StacksOk
  <2>2. 1..Len(ts) \subseteq 1..Len(ts2)
    BY <1>2
  <2>3. \A p \in DOMAIN Line(us, rs) : Line(us, rs)[p] \in 1..Len(ts2)
    BY <2>2 DEF StacksOk
  <2>4. \A p \in 1..Len(rs) : ts2[rs[p]].mAction = "modify"
    BY <2>1 DEF StacksOk, SameItems
  <2> QED BY <2>3, <2>4 DEF StacksOk
<1>5. PICK b, e : b = Append(us, z) /\ e = <<>>
  OBVIOUS
<1>6. /\ b \in Seq(Nat) /\ e \in Seq(Nat) /\ Len(e) = 0
      /\ DOMAIN Line(b, e) = 1..(Len(us) + 1) /\ Line(b, e)[Len(us) + 1] = z
      /\ \A p \in 1..Len(us) : Line(b, e)[p] = Line(us, rs)[p] /\ p \in DOMAIN Line(us, rs)
  BY <1>2, <1>3, <1>5, LineGrows
<1>7. \A p \in 1..Len(us) : Line(b, e)[p] \in 1..Len(ts)
  BY <1>6 DEF StacksOk
<1>8. \A p \in 1..(Len(us) + 1) : p \in 1..Len(us) \/ p = Len(us) + 1
  BY <1>3
<1>9. \A p \in DOMAIN Line(b, e) : Line(b, e)[p] \in 1..Len(ts2)
  BY <1>1, <1>2, <1>6, <1>7, <1>8
<1>10. \A p, q \in DOMAIN Line(b, e) : Line(b, e)[p] = Line(b, e)[q] => p = q
  <2>1. \A p, q \in 1..Len(us) : Line(b, e)[p] = Line(b, e)[q] => p = q
    BY <1>6 DEF StacksOk
  <2>2. \A p \in 1..Len(us) : Line(b, e)[p] # z
    BY <1>1, <1>2, <1>7
  <2> QED BY <1>6, <1>8, <2>1, <2>2
<1>11. \A p \in 1..Len(e) : ts2[e[p]].mAction = "modify"
  BY <1>6
<1> QED BY <1>1, <1>4, <1>5, <1>6, <1>9, <1>10, <1>11 DEF StacksOk

LEMMA StacksStay ==
    ASSUME NEW us, NEW rs, NEW ts \in Seq(Txns), StacksOk(us, rs, ts), NEW ts2 \in Seq(Txns),
           SameItems(ts, ts2), Len(ts2) = Len(ts)
    PROVE  StacksOk(us, rs, ts2)
<1>1. us \in Seq(Nat) /\ rs \in Seq(Nat)
  BY DEF StacksOk
<1>2. \A p \in 1..Len(rs) : rs[p] \in 1..Len(ts)
  BY <1>1, LineFacts DEF StacksOk
<1>3. \A p \in 1..Len(rs) : ts2[rs[p]].mAction = "modify"
  BY <1>2 DEF StacksOk, SameItems
<1> QED BY <1>3 DEF StacksOk

LEMMA LeftKeeps ==
    ASSUME left \in Lefts
    PROVE  /\ left.events > 0 /\ left' = [left EXCEPT !.events = @ - 1] => left' \in Lefts
           /\ left.steps > 0 /\ left.events > 0 /\ left' = [left EXCEPT !.steps = @ - 1, !.events = @ - 1]
                => left' \in Lefts
           /\ left.foreign > 0 /\ left.events > 0
              /\ left' = [left EXCEPT !.foreign = @ - 1, !.events = @ - 1] => left' \in Lefts
           /\ left.toggles > 0 /\ left.events > 0
              /\ left' = [left EXCEPT !.toggles = @ - 1, !.events = @ - 1] => left' \in Lefts
<1>1. PICK l : l = left
  OBVIOUS
<1>2. l \in [steps : Nat, foreign : Nat, toggles : Nat, events : Nat]
  BY <1>1 DEF Lefts
<1>3. l.events > 0 => [l EXCEPT !.events = @ - 1] \in [steps : Nat, foreign : Nat, toggles : Nat, events : Nat]
  BY <1>2
<1>4. l.steps > 0 /\ l.events > 0 => [l EXCEPT !.steps = @ - 1, !.events = @ - 1]
        \in [steps : Nat, foreign : Nat, toggles : Nat, events : Nat]
  <2>1. ASSUME l.steps > 0, l.events > 0 PROVE l.steps - 1 \in Nat /\ l.events - 1 \in Nat
    BY <1>2, <2>1
  <2>2. \A x, y \in Nat : [l EXCEPT !.steps = x, !.events = y] \in [steps : Nat, foreign : Nat, toggles : Nat, events : Nat]
    BY <1>2
  <2> QED BY <2>1, <2>2
<1>5. l.foreign > 0 /\ l.events > 0 => [l EXCEPT !.foreign = @ - 1, !.events = @ - 1]
        \in [steps : Nat, foreign : Nat, toggles : Nat, events : Nat]
  <2>1. ASSUME l.foreign > 0, l.events > 0 PROVE l.foreign - 1 \in Nat /\ l.events - 1 \in Nat
    BY <1>2, <2>1
  <2>2. \A x, y \in Nat : [l EXCEPT !.foreign = x, !.events = y] \in [steps : Nat, foreign : Nat, toggles : Nat, events : Nat]
    BY <1>2
  <2> QED BY <2>1, <2>2
<1>6. l.toggles > 0 /\ l.events > 0 => [l EXCEPT !.toggles = @ - 1, !.events = @ - 1]
        \in [steps : Nat, foreign : Nat, toggles : Nat, events : Nat]
  <2>1. ASSUME l.toggles > 0, l.events > 0 PROVE l.toggles - 1 \in Nat /\ l.events - 1 \in Nat
    BY <1>2, <2>1
  <2>2. \A x, y \in Nat : [l EXCEPT !.toggles = x, !.events = y] \in [steps : Nat, foreign : Nat, toggles : Nat, events : Nat]
    BY <1>2
  <2> QED BY <2>1, <2>2
<1> QED BY <1>1, <1>3, <1>4, <1>5, <1>6 DEF Lefts

LEMMA CreateKeeps ==
    ASSUME ManagerInv, NEW a \in Actions, NEW i \in Items, NEW c \in Calendars, NEW d \in Calendars,
           CreateAndCommitTxn(a, i, c, d)
    PROVE  ManagerInv'
<1>1. PICK t : t = NewTxn(a, i, c, d)
  OBVIOUS
<1>2. PICK n, cs : n = Len(txns) + 1 /\ cs = DoTransaction(n, t)
  OBVIOUS
<1>3. /\ a # "add" => Exists(Shown(c, i))
      /\ txns' = Append(txns, Done(t)) /\ Asks(t, cs)
      /\ left.events > 0 /\ left' = [left EXCEPT !.events = @ - 1]
      /\ IF Threw(cs) THEN UNCHANGED <<undoStack, redoStack>>
         ELSE undoStack' = Append(undoStack, n) /\ redoStack' = <<>>
  BY <1>1, <1>2, CreateIs
<1>4. t \in Txns /\ TxnOk(t) /\ t.item = i
  BY <1>1, <1>3, NewTxnOk
<1>5. txns \in Seq(Txns) /\ TxnsOk(txns) /\ CalsOk(cals, txns, touched)
  BY DEF ManagerInv, TxnsOk
<1>6. PICK dt, us : dt = Done(t) /\ us = txns'
  OBVIOUS
<1>7. dt \in Txns /\ TxnOk(dt) /\ dt.item = t.item
  BY <1>4, <1>6, DoneOk
<1>8. /\ us \in Seq(Txns) /\ TxnsOk(us) /\ SameItems(txns, us) /\ Len(us) = Len(txns) + 1
      /\ Len(txns) \in Nat /\ us[Len(txns) + 1] = dt
  BY ZenonT(40), <1>3, <1>5, <1>6, <1>7, AppendTxn
<1>9. CalsOk(cals, us, touched)
  BY <1>5, <1>8, CalsStayOk
<1>10. n \in 1..Len(us) /\ us[n] = dt
  BY <1>2, <1>8
<1>11. CalsOk(cs, us, touched)
  BY <1>2, <1>4, <1>7, <1>8, <1>9, <1>10, DoOk
<1>12. CalsOk(cals', txns', touched') /\ ~Threw(cals') /\ overtaken' \subseteq Items /\ touched' \subseteq Items
  BY <1>3, <1>4, <1>6, <1>11, AsksKeep
<1>13. StacksOk(undoStack', redoStack', txns')
  BY <1>2, <1>3, <1>5, <1>6, <1>8, StacksGrow DEF ManagerInv
<1>14. left' \in Lefts
  BY <1>3, LeftKeeps DEF ManagerInv
<1> QED BY <1>6, <1>8, <1>12, <1>13, <1>14 DEF ManagerInv

\* The transaction on top of a stack, that is undone or redone.
LEMMA TopIs ==
    ASSUME ManagerInv, CheckWritable(undoStack) \/ CheckWritable(redoStack)
    PROVE  /\ CheckWritable(undoStack) =>
                /\ undoStack \in Seq(Nat) /\ undoStack # <<>>
                /\ Last(undoStack) \in 1..Len(txns) /\ txns[Last(undoStack)].mAction = "modify"
                /\ txns[Last(undoStack)] \in Txns /\ TxnOk(txns[Last(undoStack)])
           /\ CheckWritable(redoStack) =>
                /\ redoStack \in Seq(Nat) /\ redoStack # <<>>
                /\ Last(redoStack) \in 1..Len(txns) /\ txns[Last(redoStack)].mAction = "modify"
                /\ txns[Last(redoStack)] \in Txns /\ TxnOk(txns[Last(redoStack)])
<1>1. undoStack \in Seq(Nat) /\ redoStack \in Seq(Nat) /\ txns \in Seq(Txns) /\ TxnsOk(txns)
  BY DEF ManagerInv, StacksOk, TxnsOk
<1>2. \A n \in 1..Len(txns) : txns[n] \in Txns /\ TxnOk(txns[n])
  BY <1>1, ElementOfSeq DEF TxnsOk
<1>3. ASSUME NEW s \in Seq(Nat), CheckWritable(s), s # <<>> => Last(s) \in 1..Len(txns)
      PROVE  /\ s # <<>> /\ Last(s) \in 1..Len(txns) /\ txns[Last(s)].mAction = "modify"
             /\ txns[Last(s)] \in Txns /\ TxnOk(txns[Last(s)])
  <2>1. s # <<>> /\ Exists(txns[Last(s)].mOldItem)
    BY <1>3 DEF CheckWritable
  <2>2. txns[Last(s)] \in Txns /\ TxnOk(txns[Last(s)])
    BY <1>2, <1>3, <2>1
  <2> QED BY <1>3, <2>1, <2>2 DEF TxnOk
<1>4. ASSUME undoStack # <<>> PROVE Last(undoStack) \in 1..Len(txns)
  <2>1. Len(undoStack) \in 1..Len(undoStack) /\ Last(undoStack) = undoStack[Len(undoStack)]
    BY <1>1, <1>4, FrontIs
  <2>2. \A p \in 1..Len(undoStack) : Line(undoStack, redoStack)[p] = undoStack[p]
    BY <1>1, LineFacts
  <2>3. Len(undoStack) \in DOMAIN Line(undoStack, redoStack)
    BY <1>1, <2>1, LineFacts
  <2> QED BY <2>1, <2>2, <2>3 DEF ManagerInv, StacksOk
<1>5. ASSUME redoStack # <<>> PROVE Last(redoStack) \in 1..Len(txns)
  <2>1. Len(redoStack) \in 1..Len(redoStack) /\ Last(redoStack) = redoStack[Len(redoStack)]
    BY <1>1, <1>5, FrontIs
  <2>2. \A p \in 1..Len(redoStack) : \E q \in DOMAIN Line(undoStack, redoStack) :
            Line(undoStack, redoStack)[q] = redoStack[p]
    BY <1>1, LineFacts
  <2> QED BY <2>1, <2>2 DEF ManagerInv, StacksOk
<1> QED BY <1>1, <1>3, <1>4, <1>5

LEMMA UndoKeeps == ASSUME ManagerInv, Undo PROVE ManagerInv'
<1>1. PICK n, t, cs : n = Last(undoStack) /\ t = txns[n] /\ cs = UndoTransaction(n, t)
  OBVIOUS
<1>2. /\ CheckWritable(undoStack)
      /\ left.steps > 0 /\ left.events > 0 /\ left' = [left EXCEPT !.steps = @ - 1, !.events = @ - 1]
      /\ txns' = [txns EXCEPT ![n] = Undone(t)] /\ Asks(t, cs)
      /\ IF Threw(cs) THEN UNCHANGED <<undoStack, redoStack>>
         ELSE undoStack' = Front(undoStack) /\ redoStack' = Append(redoStack, n)
  BY <1>1 DEF Undo
<1>3. /\ n \in 1..Len(txns) /\ t.mAction = "modify" /\ t \in Txns /\ TxnOk(t)
      /\ undoStack \in Seq(Nat) /\ undoStack # <<>>
  BY <1>1, <1>2, TopIs
<1>4. txns \in Seq(Txns) /\ TxnsOk(txns) /\ CalsOk(cals, txns, touched) /\ redoStack \in Seq(Nat)
  BY DEF ManagerInv, TxnsOk, StacksOk
<1>5. PICK ut, us : ut = Undone(t) /\ us = txns'
  OBVIOUS
<1>6. ut \in Txns /\ TxnOk(ut) /\ ut.item = t.item /\ ut.mAction = t.mAction
  BY <1>3, <1>5, DoneOk
<1>7. /\ us \in Seq(Txns) /\ TxnsOk(us) /\ SameItems(txns, us) /\ Len(us) = Len(txns) /\ us[n] = ut
  <2>1. us = [txns EXCEPT ![n] = ut] /\ ut.item = txns[n].item /\ ut.mAction = txns[n].mAction
    BY <1>1, <1>2, <1>5, <1>6
  <2>2. /\ us \in Seq(Txns) /\ Len(us) = Len(txns) /\ us[n] = ut
        /\ \A j \in 1..Len(txns) : j # n => us[j] = txns[j]
    BY <1>3, <1>4, <1>6, <2>1, ExceptSeq
  <2> QED BY <1>3, <1>4, <1>6, <2>1, <2>2, SetTxn
<1>8. CalsOk(cals, us, touched)
  BY <1>4, <1>7, CalsStayOk
<1>9. CalsOk(cs, us, touched)
  BY <1>1, <1>3, <1>6, <1>7, <1>8, UndoOk
<1>10. CalsOk(cals', txns', touched') /\ ~Threw(cals') /\ overtaken' \subseteq Items /\ touched' \subseteq Items
  BY <1>2, <1>3, <1>5, <1>9, AsksKeep
<1>11. StacksOk(undoStack, redoStack, us)
  BY <1>4, <1>7, StacksStay DEF ManagerInv
<1>12. CASE Threw(cs)
  <2>1. StacksOk(undoStack', redoStack', txns')
    BY <1>2, <1>5, <1>11, <1>12
  <2> QED BY <1>2, <1>5, <1>7, <1>10, <2>1, LeftKeeps DEF ManagerInv
<1>13. CASE ~Threw(cs)
  <2>1. PICK a, b : a = undoStack' /\ b = redoStack'
    OBVIOUS
  <2>2. a = Front(undoStack) /\ b = Append(redoStack, Last(undoStack))
    BY <1>1, <1>2, <1>13, <2>1
  <2>3. a \in Seq(Nat) /\ b \in Seq(Nat) /\ Line(a, b) = Line(undoStack, redoStack)
    BY <1>3, <1>4, <2>2, LineMoves
  <2>4. \A p \in 1..Len(b) : us[b[p]].mAction = "modify"
    <3>1. /\ Len(b) = Len(redoStack) + 1 /\ b[Len(redoStack) + 1] = n
          /\ \A p \in 1..Len(redoStack) : b[p] = redoStack[p]
      BY <1>1, <1>3, <1>4, <2>2, AppendProperties, FrontIs
    <3>2. Len(redoStack) \in Nat
      BY <1>4, LenProperties
    <3>3. \A p \in 1..Len(b) : p \in 1..Len(redoStack) \/ p = Len(redoStack) + 1
      BY <3>1, <3>2
    <3> QED BY <1>3, <1>6, <1>7, <1>11, <3>1, <3>3 DEF StacksOk
  <2>5. StacksOk(a, b, us)
    BY <1>11, <2>3, <2>4 DEF StacksOk
  <2> QED BY <1>2, <1>5, <1>7, <1>10, <2>1, <2>5, LeftKeeps DEF ManagerInv
<1> QED BY <1>12, <1>13

LEMMA RedoKeeps == ASSUME ManagerInv, Redo PROVE ManagerInv'
<1>1. PICK n, t, cs : n = Last(redoStack) /\ t = txns[n] /\ cs = DoTransaction(n, t)
  OBVIOUS
<1>2. /\ CheckWritable(redoStack)
      /\ left.steps > 0 /\ left.events > 0 /\ left' = [left EXCEPT !.steps = @ - 1, !.events = @ - 1]
      /\ txns' = [txns EXCEPT ![n] = Done(t)] /\ Asks(t, cs)
      /\ IF Threw(cs) THEN UNCHANGED <<undoStack, redoStack>>
         ELSE redoStack' = Front(redoStack) /\ undoStack' = Append(undoStack, n)
  BY <1>1 DEF Redo
<1>3. /\ n \in 1..Len(txns) /\ t.mAction = "modify" /\ t \in Txns /\ TxnOk(t)
      /\ redoStack \in Seq(Nat) /\ redoStack # <<>>
  BY <1>1, <1>2, TopIs
<1>4. txns \in Seq(Txns) /\ TxnsOk(txns) /\ CalsOk(cals, txns, touched) /\ undoStack \in Seq(Nat)
  BY DEF ManagerInv, TxnsOk, StacksOk
<1>5. PICK dt, us : dt = Done(t) /\ us = txns'
  OBVIOUS
<1>6. dt \in Txns /\ TxnOk(dt) /\ dt.item = t.item /\ dt.mAction = t.mAction
  BY <1>3, <1>5, DoneOk
<1>7. /\ us \in Seq(Txns) /\ TxnsOk(us) /\ SameItems(txns, us) /\ Len(us) = Len(txns) /\ us[n] = dt
  <2>1. us = [txns EXCEPT ![n] = dt] /\ dt.item = txns[n].item /\ dt.mAction = txns[n].mAction
    BY <1>1, <1>2, <1>5, <1>6
  <2>2. /\ us \in Seq(Txns) /\ Len(us) = Len(txns) /\ us[n] = dt
        /\ \A j \in 1..Len(txns) : j # n => us[j] = txns[j]
    BY <1>3, <1>4, <1>6, <2>1, ExceptSeq
  <2> QED BY <1>3, <1>4, <1>6, <2>1, <2>2, SetTxn
<1>8. CalsOk(cals, us, touched)
  BY <1>4, <1>7, CalsStayOk
<1>9. CalsOk(cs, us, touched)
  BY <1>1, <1>3, <1>6, <1>7, <1>8, DoOk
<1>10. CalsOk(cals', txns', touched') /\ ~Threw(cals') /\ overtaken' \subseteq Items /\ touched' \subseteq Items
  BY <1>2, <1>3, <1>5, <1>9, AsksKeep
<1>11. StacksOk(undoStack, redoStack, us)
  BY <1>4, <1>7, StacksStay DEF ManagerInv
<1>12. CASE Threw(cs)
  <2>1. StacksOk(undoStack', redoStack', txns')
    BY <1>2, <1>5, <1>11, <1>12
  <2> QED BY <1>2, <1>5, <1>7, <1>10, <2>1, LeftKeeps DEF ManagerInv
<1>13. CASE ~Threw(cs)
  <2>1. PICK a, b : a = undoStack' /\ b = redoStack'
    OBVIOUS
  <2>2. a = Append(undoStack, Last(redoStack)) /\ b = Front(redoStack)
    BY <1>1, <1>2, <1>13, <2>1
  <2>3. a \in Seq(Nat) /\ b \in Seq(Nat) /\ Line(a, b) = Line(undoStack, redoStack)
    BY <1>3, <1>4, <2>2, LineMovesBack
  <2>4. \A p \in 1..Len(b) : us[b[p]].mAction = "modify"
    <3>1. /\ Len(redoStack) \in Nat \ {0} /\ Len(b) = Len(redoStack) - 1
          /\ \A p \in 1..(Len(redoStack) - 1) : b[p] = redoStack[p]
      BY <1>3, <2>2, FrontIs
    <3>2. \A p \in 1..Len(b) : p \in 1..Len(redoStack) /\ b[p] = redoStack[p]
      BY <3>1
    <3>3. \A p \in 1..Len(redoStack) : us[redoStack[p]].mAction = "modify"
      BY <1>11 DEF StacksOk
    <3> QED BY <3>2, <3>3
  <2>5. StacksOk(a, b, us)
    BY <1>11, <2>3, <2>4 DEF StacksOk
  <2> QED BY <1>2, <1>5, <1>7, <1>10, <2>1, <2>5, LeftKeeps DEF ManagerInv
<1> QED BY <1>12, <1>13

LEMMA ToggleKeeps == ASSUME ManagerInv, NEW c \in Calendars, Toggle(c) PROVE ManagerInv'
<1>1. PICK k, l : k = cals[c] /\ l = ~k.readOnly
  OBVIOUS
<1>2. CalsOk(cals, txns, touched) /\ k \in Cals /\ l \in BOOLEAN
  BY <1>1 DEF ManagerInv, CalsOk
<1>3. PICK x : x = [k EXCEPT !.readOnly = l]
  OBVIOUS
<1>4. /\ x \in Cals /\ x.id = k.id /\ x.mItems = k.mItems /\ x.queue = k.queue /\ x.mods = k.mods
      /\ (x.locked <=> k.locked) /\ (x.threw <=> k.threw)
  BY <1>2, <1>3 DEF Cals
<1>5. cals' = [cals EXCEPT ![c] = x]
  BY <1>1, <1>3 DEF Toggle
<1>6. k \in OkCals(c, txns)
  BY <1>1, <1>2 DEF CalsOk
<1>7. x \in OkCals(c, txns)
  BY <1>4, <1>6 DEF OkCals, CalOk
<1>8. cals' \in [Calendars -> Cals] /\ cals'[c] = x /\ \A e \in Calendars : e # c => cals'[e] = cals[e]
  BY <1>2, <1>4, <1>5 DEF CalsOk
<1>9. CalsOk(cals', txns, touched)
  BY <1>1, <1>2, <1>4, <1>7, <1>8 DEF CalsOk
<1>10. ~Threw(cals')
  BY <1>1, <1>4, <1>8 DEF ManagerInv, Threw
<1>11. UNCHANGED <<txns, undoStack, redoStack, overtaken, touched>> /\ left' \in Lefts
  BY LeftKeeps DEF Toggle, ManagerInv
<1> QED BY <1>9, <1>10, <1>11 DEF ManagerInv

\* What another client of the calendar asks.
ForeignOp(c, i) ==
    Op("modify", i, [Shown(c, i) EXCEPT !.w = -1 - left.foreign], Shown(c, i), 0, FALSE)

LEMMA ForeignIs ==
    ASSUME ManagerInv, NEW c \in Calendars, NEW i \in Items, ForeignEdit(c, i), NEW op, op = ForeignOp(c, i)
    PROVE  /\ op \in Ops /\ OpOk(op, txns) /\ op.kind = "modify" /\ op.item = i /\ op.txn = 0 /\ ~op.half
           /\ op.old = Shown(c, i)
           /\ cals' = Calm([cals EXCEPT ![c] = Asked(@, op)])
<1>1. PICK o, p, w : o = Shown(c, i) /\ w = -1 - left.foreign /\ p = [o EXCEPT !.w = w]
  OBVIOUS
<1>2. o \in Objects /\ (Exists(o) => o.cal = c)
  BY <1>1, ShownIs
<1>3. w \in Int /\ w # 0
  <2>1. left.foreign \in Nat
    BY DEF ManagerInv, Lefts
  <2> QED BY <1>1, <2>1
<1>4. p \in Objects /\ Exists(p) /\ p.cal = o.cal
  BY <1>1, <1>2, <1>3 DEF Objects, Exists
<1>5. 0 \in Nat /\ FALSE \in BOOLEAN /\ "modify" \in Kinds
  BY DEF Kinds
<1>6. op = Op("modify", i, p, o, 0, FALSE)
  BY <1>1 DEF ForeignOp
<1>7. op \in Ops /\ op.kind = "modify" /\ op.item = i /\ op.new = p /\ op.old = o /\ op.txn = 0 /\ ~op.half
  BY <1>2, <1>4, <1>5, <1>6 DEF Op, Ops
<1>8. 0 \in 0..Len(txns)
  BY LenProperties DEF ManagerInv, TxnsOk
<1>9. OpOk(op, txns)
  BY <1>4, <1>7, <1>8 DEF OpOk
<1>10. cals' = Calm([cals EXCEPT ![c] = Asked(@, op)])
  <2>1. cals' = Calm([cals EXCEPT ![c] = Asked(@, ForeignOp(c, i))])
    BY DEF ForeignEdit, ForeignOp
  <2> QED BY <2>1
<1> QED BY <1>1, <1>7, <1>9, <1>10

LEMMA ForeignKeeps ==
    ASSUME ManagerInv, NEW c \in Calendars, NEW i \in Items, ForeignEdit(c, i)
    PROVE  ManagerInv'
<1>1. PICK op : op = ForeignOp(c, i)
  OBVIOUS
<1>2. op \in Ops /\ OpOk(op, txns) /\ cals' = Calm([cals EXCEPT ![c] = Asked(@, op)])
  BY <1>1, ForeignIs
<1>3. PICK cs : cs = [cals EXCEPT ![c] = Asked(@, op)]
  OBVIOUS
<1>4. CalsOk(cs, txns, touched)
  BY <1>2, <1>3, AskAtOk DEF ManagerInv
<1>5. CalsOk(cals', txns, touched) /\ ~Threw(cals')
  BY <1>2, <1>3, <1>4, CalmOk
<1>6. /\ UNCHANGED <<txns, undoStack, redoStack, overtaken>> /\ touched' = touched \cup {i}
      /\ left' \in Lefts
  BY LeftKeeps DEF ForeignEdit, ManagerInv
<1>7. CalsOk(cals', txns, touched')
  BY <1>5, <1>6 DEF CalsOk
<1> QED BY <1>5, <1>6, <1>7 DEF ManagerInv

LEMMA AskingIs ==
    ASSUME ManagerInv, NEW c \in Calendars, cals[c].locked
    PROVE  Telling(Asking, c) /\ Asking.cals = cals /\ Asking.txns = txns /\ Asking.failed = {}
<1>1. PICK s : s = Asking
  OBVIOUS
<1>2. s.cals = cals /\ s.txns = txns /\ s.failed = {} /\ s = [cals |-> cals, txns |-> txns, failed |-> {}]
  BY <1>1 DEF Asking
<1>3. CalsOk(cals, txns, touched) /\ ~Threw(cals) /\ txns \in Seq(Txns) /\ TxnsOk(txns)
  BY DEF ManagerInv, TxnsOk
<1>4. s \in TellStates
  BY <1>2, <1>3 DEF TellStates, CalsOk
<1>5. SameItems(txns, txns)
  BY <1>3, LenProperties DEF SameItems
<1>6. Telling(s, c)
  BY <1>2, <1>3, <1>4, <1>5 DEF Telling, CalsOk, TxnsOk
<1> QED BY <1>1, <1>2, <1>6

\* The calendar that has told its listeners goes on with its queue, unless one threw.
After(c) ==
    LET s == Tells(c)
    IN  IF Threw(s.cals) THEN s.cals
        ELSE [s.cals EXCEPT ![c] = ProcessQueue([@ EXCEPT !.locked = FALSE])]

LEMMA AnswerIs ==
    ASSUME ManagerInv, NEW c \in Calendars, Answer(c)
    PROVE  /\ cals[c].locked /\ cals[c].mods # <<>>
           /\ cals' = Calm(After(c)) /\ txns' = Tells(c).txns /\ touched' = touched \cup Tells(c).failed
           /\ UNCHANGED <<undoStack, redoStack, left, overtaken>>
           /\ Telling(Tells(c), c) /\ Tells(c).cals[c].mods = <<>>
<1>1. cals[c].locked /\ cals[c].mods # <<>>
  BY DEF Answer
<1>2. Telling(Asking, c)
  BY <1>1, AskingIs
<1>3. PICK G : Asking \in G /\ \A s : Telling(s, c) => s \in G /\ (s.cals[c].mods # <<>> => Told(s, c) \in G)
  <2>1. PICK G : G = {s \in TellStates : Telling(s, c)}
    OBVIOUS
  <2>2. \A s : Telling(s, c) => s \in G
    BY <2>1 DEF Telling
  <2>3. \A s : Telling(s, c) /\ s.cals[c].mods # <<>> => Telling(Told(s, c), c)
    BY ToldOk
  <2> QED BY <1>2, <2>2, <2>3
<1>4. Telling(Tells(c), c) /\ Tells(c).cals[c].mods = <<>>
  BY <1>2, <1>3, TellsStays
<1>5. /\ cals' = Calm(After(c)) /\ txns' = Tells(c).txns /\ touched' = touched \cup Tells(c).failed
      /\ UNCHANGED <<undoStack, redoStack, left, overtaken>>
  BY DEF Answer, After
<1> QED BY <1>1, <1>4, <1>5

LEMMA AnswerKeeps == ASSUME ManagerInv, NEW c \in Calendars, Answer(c) PROVE ManagerInv'
<1>1. PICK s, cs, ts, fl : s = Tells(c) /\ cs = s.cals /\ ts = s.txns /\ fl = s.failed
  OBVIOUS
<1>2. /\ cals' = Calm(After(c)) /\ txns' = ts /\ touched' = touched \cup fl
      /\ UNCHANGED <<undoStack, redoStack, left, overtaken>>
      /\ Telling(s, c)
  BY <1>1, AnswerIs
<1>3. /\ cs \in [Calendars -> Cals] /\ ts \in Seq(Txns) /\ fl \subseteq Items
      /\ \A e \in Calendars : cs[e] \in OkCals(e, ts)
      /\ \A e \in Calendars \ {c} : cs[e].locked => cs[e].mods # <<>> \/ touched # {}
      /\ Threw(cs) => fl # {}
      /\ Len(ts) = Len(txns) /\ SameItems(txns, ts)
      /\ \A n \in 1..Len(ts) : TxnOk(ts[n])
  BY <1>1, <1>2 DEF Telling, TellStates
<1>4. PICK as : as = After(c)
  OBVIOUS
<1>5. CalsOk(as, ts, touched')
  <2>1. CASE Threw(cs)
    <3>1. as = cs
      BY <1>1, <1>4, <2>1 DEF After
    <3>2. touched' # {}
      BY <1>2, <1>3, <2>1
    <3> QED BY <1>3, <3>1, <3>2 DEF CalsOk
  <2>2. CASE ~Threw(cs)
    <3>1. PICK k, x, y : k = cs[c] /\ x = [k EXCEPT !.locked = FALSE] /\ y = ProcessQueue(x)
      OBVIOUS
    <3>2. k \in Cals /\ k \in OkCals(c, ts)
      BY <1>3, <3>1
    <3>3. x \in Cals /\ x.id = k.id /\ x.mItems = k.mItems /\ x.queue = k.queue /\ x.mods = k.mods
      BY <3>1, <3>2 DEF Cals
    <3>4. x \in OkCals(c, ts)
      BY <3>2, <3>3 DEF OkCals, CalOk
    <3>5. y \in OkCals(c, ts)
      BY <3>1, <3>4, ProcessOk
    <3>6. y.locked => y.mods # <<>>
      BY <3>1, <3>3, ProcessLocks
    <3>7. as = [cs EXCEPT ![c] = y]
      BY <1>1, <1>4, <2>2, <3>1 DEF After
    <3>8. y \in Cals
      BY <3>5 DEF OkCals
    <3>9. as \in [Calendars -> Cals] /\ as[c] = y /\ \A e \in Calendars : e # c => as[e] = cs[e]
      BY <1>3, <3>7, <3>8
    <3>10. touched # {} => touched' # {}
      BY <1>2
    <3> QED BY <1>3, <3>5, <3>6, <3>9, <3>10 DEF CalsOk
  <2> QED BY <2>1, <2>2
<1>6. CalsOk(cals', txns', touched') /\ ~Threw(cals')
  BY <1>2, <1>4, <1>5, CalmOk
<1>7. StacksOk(undoStack', redoStack', txns')
  BY <1>2, <1>3, StacksStay DEF ManagerInv, TxnsOk
<1>8. touched' \subseteq Items /\ overtaken' \subseteq Items /\ left' \in Lefts
  BY <1>2, <1>3 DEF ManagerInv
<1>9. TxnsOk(txns')
  BY <1>2, <1>3 DEF TxnsOk
<1> QED BY <1>6, <1>7, <1>8, <1>9 DEF ManagerInv

LEMMA NextKeeps == ASSUME ManagerInv, [Next]_vars PROVE ManagerInv'
<1>1. CASE \E a \in Actions, i \in Items, c, d \in Calendars : CreateAndCommitTxn(a, i, c, d)
  BY <1>1, CreateKeeps
<1>2. CASE Undo \/ Redo
  BY <1>2, UndoKeeps, RedoKeeps
<1>3. CASE \E c \in Calendars : Answer(c) \/ Toggle(c) \/ \E i \in Items : ForeignEdit(c, i)
  BY <1>3, AnswerKeeps, ToggleKeeps, ForeignKeeps
<1>4. CASE UNCHANGED vars
  BY <1>4 DEF vars, ManagerInv
<1> QED BY <1>1, <1>2, <1>3, <1>4 DEF Next

LEMMA InvMeansTypes == ASSUME ManagerInv PROVE TypeOK
<1>1. CalsOk(cals, txns, touched) /\ StacksOk(undoStack, redoStack, txns)
  BY DEF ManagerInv
<1>2. \A c \in Calendars : \A i \in Items : Exists(Shown(c, i)) => Shown(c, i).cal = c
  BY ShownIs
<1>3. \A c \in Calendars : cals[c].locked => cals[c].mods # <<>> \/ touched # {}
  BY <1>1 DEF CalsOk
<1>4. PICK us, rs : us = undoStack /\ rs = redoStack
  OBVIOUS
<1>5. us \in Seq(Nat) /\ rs \in Seq(Nat) /\ Len(us) \in Nat /\ Len(rs) \in Nat
  BY <1>1, <1>4, LenProperties DEF StacksOk
<1>6. /\ \A p \in 1..Len(us) : us[p] \in 1..Len(txns)
      /\ \A p \in 1..Len(rs) : rs[p] \in 1..Len(txns)
  <2>1. \A p \in DOMAIN Line(us, rs) : Line(us, rs)[p] \in 1..Len(txns)
    BY <1>1, <1>4 DEF StacksOk
  <2>2. \A p \in 1..Len(us) : p \in DOMAIN Line(us, rs) /\ Line(us, rs)[p] = us[p]
    BY <1>5, LineFacts
  <2>3. \A p \in 1..Len(rs) : \E q \in DOMAIN Line(us, rs) : Line(us, rs)[q] = rs[p]
    BY <1>5, LineFacts
  <2> QED BY <2>1, <2>2, <2>3
<1>7. ToSet(us) \cup ToSet(rs) \subseteq DOMAIN txns
  <2>1. DOMAIN us = 1..Len(us) /\ DOMAIN rs = 1..Len(rs) /\ DOMAIN txns = 1..Len(txns)
    BY <1>5, LenProperties DEF ManagerInv, TxnsOk
  <2> QED BY <1>6, <2>1 DEF ToSet
<1>8. IsInjective(us \o rs)
  <2>1. PICK l : l = us \o rs
    OBVIOUS
  <2>2. /\ DOMAIN l = 1..(Len(us) + Len(rs))
        /\ \A p \in 1..(Len(us) + Len(rs)) : l[p] = IF p <= Len(us) THEN us[p] ELSE rs[p - Len(us)]
    <3>1. l \in Seq(Nat) /\ Len(l) = Len(us) + Len(rs)
          /\ \A p \in 1..(Len(us) + Len(rs)) : l[p] = IF p <= Len(us) THEN us[p] ELSE rs[p - Len(us)]
      BY <1>5, <2>1, ConcatProperties
    <3>2. DOMAIN l = 1..Len(l)
      BY <3>1, LenProperties
    <3> QED BY <3>1, <3>2
  <2>3. PICK at : at = [p \in 1..(Len(us) + Len(rs)) |->
                          IF p <= Len(us) THEN p ELSE Len(us) + Len(rs) + 1 - (p - Len(us))]
    OBVIOUS
  <2>4. ASSUME NEW p \in 1..(Len(us) + Len(rs))
        PROVE  at[p] \in DOMAIN Line(us, rs) /\ Line(us, rs)[at[p]] = l[p]
    <3>1. CASE p <= Len(us)
      <4>1. at[p] = p /\ l[p] = us[p] /\ p \in 1..Len(us)
        BY <1>5, <2>2, <2>3, <3>1
      <4>2. p \in DOMAIN Line(us, rs) /\ Line(us, rs)[p] = us[p]
        BY <1>5, <4>1, LineFacts
      <4> QED BY <4>1, <4>2
    <3>2. CASE ~(p <= Len(us))
      <4>1. p - Len(us) \in 1..Len(rs)
        BY <1>5, <3>2
      <4>2. PICK q : q = p - Len(us)
        OBVIOUS
      <4>3. /\ Line(us, rs)[Len(us) + Len(rs) + 1 - q] = rs[q]
            /\ Len(us) + Len(rs) + 1 - q \in DOMAIN Line(us, rs)
        BY <1>5, <4>1, <4>2, LineFacts
      <4>4. at[p] = Len(us) + Len(rs) + 1 - q /\ l[p] = rs[q]
        BY <2>2, <2>3, <3>2, <4>2
      <4> QED BY <4>3, <4>4
    <3> QED BY <3>1, <3>2
  <2>5. \A p, q \in 1..(Len(us) + Len(rs)) : at[p] = at[q] => p = q
    BY <1>5, <2>3
  <2>6. \A p, q \in 1..(Len(us) + Len(rs)) : l[p] = l[q] => p = q
    <3>1. PICK f : f = Line(us, rs)
      OBVIOUS
    <3>2. \A p, q \in DOMAIN f : f[p] = f[q] => p = q
      BY <1>1, <1>4, <3>1 DEF StacksOk
    <3>3. \A p \in 1..(Len(us) + Len(rs)) : at[p] \in DOMAIN f /\ f[at[p]] = l[p]
      BY <2>4, <3>1
    <3> QED BY <2>5, <3>2, <3>3
  <2> QED BY <2>1, <2>2, <2>6 DEF IsInjective
<1> QED BY <1>2, <1>3, <1>4, <1>7, <1>8 DEF TypeOK, ManagerInv

LEMMA SpecKeeps == Spec => []ManagerInv
<1>1. Init => ManagerInv
  BY InitKeeps
<1>2. ManagerInv /\ [Next]_vars => ManagerInv'
  BY NextKeeps
<1> QED BY <1>1, <1>2, PTL DEF Spec

\* calTransactionManager.js and the calendars it asks: an item is in the calendar it says
\* it is in, no transaction is on the stacks twice, and a calendar is not left locked
\* without a write that will unlock it, unless a listener has thrown.
THEOREM StacksAreSound == Spec => []TypeOK
<1>1. ManagerInv => TypeOK
  BY InvMeansTypes
<1> QED BY <1>1, SpecKeeps, PTL

-----------------------------------------------------------------------------
(* No item is lost.  While the user waits for the answers, what the manager  *)
(* has asked of an item belongs to one transaction, a move takes the old item *)
(* away only where the new one is not, and one calendar at least has the item. *)

\* What a calendar has been asked and has not answered.
OpsOf(k) == ToSet(k.queue) \cup {m.op : m \in ToSet(k.mods)}

\* Calendar k has item i, or will, and nothing that waits takes it away.
Safe(k, i) ==
    /\ Exists(k.mItems[i]) \/ \E op \in ToSet(k.queue) : op.item = i /\ op.kind = "add"
    /\ \A op \in ToSet(k.queue) : op.item = i => op.kind # "delete"

\* Where the item is when the last step of transaction t is done.
Target(t) == IF t.mIsDoTransaction THEN t.mCalendar ELSE t.mOldCalendar

\* What the manager has asked of item i is of transaction n alone.
OpFine(op, k, i, ts, n) ==
    op.item = i /\ op.txn # 0 =>
        /\ op.txn = n
        /\ op.kind # "delete" => k.id = Target(ts[n])
        /\ op.half => Safe(k, i) /\ ts[n].mIsDoTransaction /\ k.id # ts[n].mOldItem.cal

CalFine(k, i, ts, n) == \A op \in OpsOf(k) : OpFine(op, k, i, ts, n)

\* The items of a transaction are in the calendars that it names.
TxnFine(t) ==
    /\ t.mOldCalendar \in Calendars
    /\ t.mItem.cal = t.mCalendar
    /\ t.mAction = "modify" => t.mOldItem.cal = t.mOldCalendar

Survives(cs, i, ts) ==
    \/ \A n \in 1..Len(ts) : ts[n].item # i
    \/ \E n \in 1..Len(ts) : ts[n].item = i /\ ts[n].mAction = "delete"
    \/ \E c \in Calendars : Safe(cs[c], i)

AskedBy(cs, i, ts, n) ==
    /\ n # 0 => n \in 1..Len(ts) /\ ts[n].item = i
    /\ \A c \in Calendars : CalFine(cs[c], i, ts, n)

ItemFine(cs, i, ts) ==
    /\ \A n \in 1..Len(ts) : ts[n].item = i => TxnFine(ts[n])
    /\ Survives(cs, i, ts)
    /\ \E n \in Nat : AskedBy(cs, i, ts, n)

LostInv == \A i \in Items \ overtaken : ItemFine(cals, i, txns)

LEMMA SetOfSeq ==
    ASSUME NEW S, NEW s \in Seq(S), NEW e \in S
    PROVE  /\ ToSet(s) \subseteq S /\ ToSet(Append(s, e)) = ToSet(s) \cup {e}
           /\ s # <<>> => ToSet(s) = {Head(s)} \cup ToSet(Tail(s)) /\ Head(s) \in ToSet(s)
<1>1. DOMAIN s = 1..Len(s) /\ Len(s) \in Nat /\ \A p \in 1..Len(s) : s[p] \in S
  BY LenProperties, ElementOfSeq
<1>2. PICK a : a = Append(s, e)
  OBVIOUS
<1>3. /\ a \in Seq(S) /\ Len(a) = Len(s) + 1 /\ a[Len(s) + 1] = e
      /\ \A p \in 1..Len(s) : a[p] = s[p]
  BY <1>2, AppendProperties
<1>4. DOMAIN a = 1..(Len(s) + 1)
  BY <1>3, LenProperties
<1>5. ToSet(a) = ToSet(s) \cup {e}
  <2>1. \A p \in 1..(Len(s) + 1) : p \in 1..Len(s) \/ p = Len(s) + 1
    BY <1>1
  <2>2. 1..Len(s) \subseteq 1..(Len(s) + 1) /\ Len(s) + 1 \in 1..(Len(s) + 1)
    BY <1>1
  <2> QED BY <1>1, <1>3, <1>4, <2>1, <2>2 DEF ToSet
<1>6. ASSUME s # <<>> PROVE ToSet(s) = {Head(s)} \cup ToSet(Tail(s)) /\ Head(s) \in ToSet(s)
  <2>1. Len(s) # 0 /\ 1 \in 1..Len(s) /\ Head(s) = s[1]
    BY <1>1, <1>6, EmptySeq, HeadTailProperties
  <2>2. PICK t : t = Tail(s)
    OBVIOUS
  <2>3. t \in Seq(S) /\ Len(t) = Len(s) - 1 /\ \A p \in 1..Len(t) : t[p] = s[p + 1]
    BY <1>6, <2>2, HeadTailProperties
  <2>4. DOMAIN t = 1..(Len(s) - 1)
    BY <2>3, LenProperties
  <2>5. \A p \in 1..Len(s) : p = 1 \/ (p - 1 \in 1..(Len(s) - 1) /\ (p - 1) + 1 = p)
    BY <1>1
  <2>6. \A p \in 1..(Len(s) - 1) : p + 1 \in 1..Len(s)
    BY <1>1
  <2>7. \A p \in 1..Len(s) : p = 1 \/ \E q \in DOMAIN t : t[q] = s[p]
    <3> SUFFICES ASSUME NEW p \in 1..Len(s), p # 1 PROVE \E q \in DOMAIN t : t[q] = s[p]
      OBVIOUS
    <3>1. p - 1 \in 1..(Len(s) - 1) /\ (p - 1) + 1 = p
      BY <2>5
    <3> QED BY <2>3, <2>4, <3>1
  <2>8. \A q \in DOMAIN t : \E p \in 1..Len(s) : t[q] = s[p]
    BY <2>3, <2>4, <2>6
  <2>9. ToSet(s) = {s[p] : p \in 1..Len(s)} /\ ToSet(t) = {t[q] : q \in DOMAIN t}
    BY <1>1 DEF ToSet
  <2>10. \A x \in ToSet(s) : x = s[1] \/ x \in ToSet(t)
    BY <2>7, <2>9
  <2>11. \A x \in ToSet(t) : x \in ToSet(s)
    BY <2>8, <2>9
  <2>12. s[1] \in ToSet(s)
    BY <2>1, <2>9
  <2> QED BY <2>1, <2>2, <2>10, <2>11, <2>12
<1> QED BY <1>1, <1>2, <1>5, <1>6 DEF ToSet

\* A step answers what waits first.
LEMMA StepSets ==
    ASSUME NEW k \in Cals, k.queue # <<>>, NEW op, op = Head(k.queue), NEW r, r = Step(k)
    PROVE  /\ r \in Cals /\ r.id = k.id /\ op \in Ops /\ op \in ToSet(k.queue) /\ op.item \in Items
           /\ ToSet(k.queue) = {op} \cup ToSet(r.queue) /\ OpsOf(r) \subseteq OpsOf(k)
           /\ ToSet(k.queue) \subseteq Ops
           /\ ~Throws(k, op) => op \in {m.op : m \in ToSet(r.mods)} /\ OpsOf(r) = OpsOf(k)
           /\ \A i \in Items : r.mItems[i] = IF i = op.item /\ ~Throws(k, op) /\ Works(k, op)
                                             THEN Outcome(k, op) ELSE k.mItems[i]
<1>1. PICK q, l : q = k.queue /\ l = k.mods
  OBVIOUS
<1>2. q \in Seq(Ops) /\ l \in Seq(Answers) /\ q # <<>> /\ op = Head(q)
  BY <1>1 DEF Cals
<1>3. r \in Cals /\ r.queue = Tail(q) /\ r.id = k.id
  BY <1>1, StepFields
<1>4. op \in Ops /\ Tail(q) \in Seq(Ops)
  BY <1>2, HeadTailProperties
<1>5. ToSet(q) = {op} \cup ToSet(Tail(q)) /\ op \in ToSet(q) /\ ToSet(q) \subseteq Ops
  BY <1>2, <1>4, SetOfSeq
<1>6. op.item \in Items /\ k.mItems \in [Items -> Objects]
  BY <1>4 DEF Ops, Cals
<1>7. CASE Throws(k, op)
  <2>1. r.mItems = k.mItems /\ r.mods = l
    BY <1>1, <1>7, StepFields
  <2> QED BY <1>1, <1>3, <1>4, <1>5, <1>6, <1>7, <2>1 DEF OpsOf
<1>8. CASE ~Throws(k, op)
  <2>1. PICK m : m = [op |-> op, ok |-> Works(k, op), detail |-> Outcome(k, op)]
    OBVIOUS
  <2>2. /\ r.mods = Append(l, m) /\ m \in Answers
        /\ r.mItems = IF Works(k, op) THEN [k.mItems EXCEPT ![op.item] = Outcome(k, op)] ELSE k.mItems
    BY <1>1, <1>8, <2>1, StepFields
  <2>3. ToSet(r.mods) = ToSet(l) \cup {m} /\ m.op = op
    BY <1>2, <2>1, <2>2, SetOfSeq
  <2>4. OpsOf(r) = OpsOf(k) /\ op \in {x.op : x \in ToSet(r.mods)}
    BY <1>1, <1>3, <1>5, <2>3 DEF OpsOf
  <2>5. \A i \in Items : r.mItems[i] = IF i = op.item /\ ~Throws(k, op) /\ Works(k, op)
                                       THEN Outcome(k, op) ELSE k.mItems[i]
    BY <1>6, <1>8, <2>2
  <2> QED BY <1>1, <1>3, <1>4, <1>5, <1>6, <2>4, <2>5
<1> QED BY <1>7, <1>8

LEMMA SafeStep ==
    ASSUME NEW k \in Cals, k.queue # <<>>, NEW i \in Items, Safe(k, i),
           \A op \in ToSet(k.queue) : op.kind # "delete" => Exists(op.new)
    PROVE  Safe(Step(k), i)
<1>1. PICK op, r : op = Head(k.queue) /\ r = Step(k)
  OBVIOUS
<1>2. /\ r \in Cals /\ op \in Ops /\ op \in ToSet(k.queue)
      /\ ToSet(k.queue) = {op} \cup ToSet(r.queue)
      /\ r.mItems[i] = IF i = op.item /\ ~Throws(k, op) /\ Works(k, op) THEN Outcome(k, op) ELSE k.mItems[i]
  BY <1>1, StepSets
<1>3. \A o \in ToSet(r.queue) : o.item = i => o.kind # "delete"
  BY <1>2 DEF Safe
<1>4. CASE op.item = i
  <2>1. op.kind # "delete" /\ Exists(op.new) /\ op.new \in Objects
    BY <1>2, <1>4 DEF Safe, Ops
  <2>2. Exists(Outcome(k, op)) /\ ~Throws(k, op)
    BY <2>1 DEF Outcome, Objects, Exists, Throws
  <2>3. op.kind = "add" => Works(k, op)
    BY DEF Works
  <2>4. Exists(r.mItems[i]) \/ \E o \in ToSet(r.queue) : o.item = i /\ o.kind = "add"
    BY <1>2, <1>4, <2>2, <2>3 DEF Safe
  <2> QED BY <1>1, <1>3, <2>4 DEF Safe
<1>5. CASE op.item # i
  <2>1. Exists(r.mItems[i]) \/ \E o \in ToSet(r.queue) : o.item = i /\ o.kind = "add"
    BY <1>2, <1>5 DEF Safe
  <2> QED BY <1>1, <1>3, <2>1 DEF Safe
<1> QED BY <1>4, <1>5

\* What is said of an operation does not depend on more than this of its calendar.
LEMMA FineStays ==
    ASSUME NEW k, NEW r, NEW i, NEW ts, NEW n, CalFine(k, i, ts, n), r.id = k.id,
           OpsOf(r) \subseteq OpsOf(k), Safe(k, i) => Safe(r, i)
    PROVE  CalFine(r, i, ts, n)
BY DEF CalFine, OpFine

\* What waits can be done.
AddsExist(k) == \A op \in ToSet(k.queue) : op.kind # "delete" => Exists(op.new)

LEMMA OkAddsExist ==
    ASSUME NEW c, NEW ts, NEW k \in OkCals(c, ts) PROVE k \in Cals /\ k.id = c /\ AddsExist(k)
<1>1. k \in Cals /\ k.id = c /\ k.queue \in Seq(Ops) /\ \A p \in 1..Len(k.queue) : OpOk(k.queue[p], ts)
  BY DEF OkCals, Cals, CalOk
<1>2. DOMAIN k.queue = 1..Len(k.queue)
  BY <1>1, LenProperties
<1>3. ToSet(k.queue) = {k.queue[p] : p \in 1..Len(k.queue)}
  BY <1>2 DEF ToSet
<1>4. \A p \in 1..Len(k.queue) : k.queue[p].kind # "delete" => Exists(k.queue[p].new)
  BY <1>1 DEF OpOk
<1>5. AddsExist(k)
  BY <1>3, <1>4 DEF AddsExist
<1> QED BY <1>1, <1>5

SafeCals(i)           == {k \in Cals : AddsExist(k) /\ Safe(k, i)}
FineCals(c, i, ts, n) == {k \in Cals : AddsExist(k) /\ k.id = c /\ CalFine(k, i, ts, n)}

\* Being locked makes no difference, nor that something threw.
LEMMA FlagsAside ==
    ASSUME NEW k \in Cals, NEW r \in Cals, r.mItems = k.mItems, r.queue = k.queue, r.mods = k.mods, r.id = k.id
    PROVE  /\ AddsExist(k) => AddsExist(r)
           /\ \A i : Safe(k, i) => Safe(r, i)
           /\ OpsOf(r) = OpsOf(k)
           /\ \A i, ts, n : CalFine(k, i, ts, n) => CalFine(r, i, ts, n)
<1>1. OpsOf(r) = OpsOf(k) /\ (AddsExist(k) => AddsExist(r)) /\ \A i : Safe(k, i) => Safe(r, i)
  BY DEF OpsOf, AddsExist, Safe
<1> QED BY <1>1 DEF CalFine, OpFine

LEMMA LockAside ==
    ASSUME NEW k \in Cals, NEW l \in BOOLEAN, NEW r, r = [k EXCEPT !.locked = l]
    PROVE  /\ r \in Cals /\ r.mItems = k.mItems /\ r.queue = k.queue /\ r.mods = k.mods /\ r.id = k.id
           /\ r.readOnly = k.readOnly /\ r.threw = k.threw
BY DEF Cals

LEMMA ThrewAside ==
    ASSUME NEW k \in Cals, NEW l \in BOOLEAN, NEW r, r = [k EXCEPT !.threw = l]
    PROVE  /\ r \in Cals /\ r.mItems = k.mItems /\ r.queue = k.queue /\ r.mods = k.mods /\ r.id = k.id
           /\ r.readOnly = k.readOnly /\ r.locked = k.locked
BY DEF Cals

LEMMA StepAddsExist ==
    ASSUME NEW k \in Cals, k.queue # <<>>, AddsExist(k) PROVE AddsExist(Step(k)) /\ Step(k) \in Cals
BY StepSets DEF AddsExist

LEMMA SafeClosed == ASSUME NEW i \in Items PROVE Closed(SafeCals(i))
<1>1. ASSUME NEW x \in SafeCals(i), x.queue # <<>> PROVE Step(x) \in SafeCals(i)
  <2>1. x \in Cals /\ AddsExist(x) /\ Safe(x, i)
    BY DEF SafeCals
  <2>2. Safe(Step(x), i)
    BY <1>1, <2>1, SafeStep DEF AddsExist
  <2> QED BY <1>1, <2>1, <2>2, StepAddsExist DEF SafeCals
<1>2. ASSUME NEW x \in SafeCals(i), NEW l \in BOOLEAN PROVE [x EXCEPT !.locked = l] \in SafeCals(i)
  <2>1. PICK r : r = [x EXCEPT !.locked = l]
    OBVIOUS
  <2>2. x \in Cals /\ AddsExist(x) /\ Safe(x, i)
    BY DEF SafeCals
  <2>3. r \in Cals /\ r.mItems = x.mItems /\ r.queue = x.queue /\ r.mods = x.mods /\ r.id = x.id
    BY <2>1, <2>2, LockAside
  <2>4. AddsExist(r) /\ Safe(r, i)
    BY <2>2, <2>3, FlagsAside
  <2> QED BY <2>1, <2>3, <2>4 DEF SafeCals
<1> QED BY <1>1, <1>2 DEF Closed

LEMMA FineClosed == ASSUME NEW c, NEW i \in Items, NEW ts, NEW n PROVE Closed(FineCals(c, i, ts, n))
<1>1. ASSUME NEW x \in FineCals(c, i, ts, n), x.queue # <<>> PROVE Step(x) \in FineCals(c, i, ts, n)
  <2>1. x \in Cals /\ AddsExist(x) /\ x.id = c /\ CalFine(x, i, ts, n)
    BY DEF FineCals
  <2>2. PICK r : r = Step(x)
    OBVIOUS
  <2>3. r \in Cals /\ r.id = x.id /\ OpsOf(r) \subseteq OpsOf(x)
    BY <1>1, <2>1, <2>2, StepSets
  <2>4. Safe(x, i) => Safe(r, i)
    BY <1>1, <2>1, <2>2, SafeStep DEF AddsExist
  <2>5. CalFine(r, i, ts, n)
    BY <2>1, <2>3, <2>4, FineStays
  <2> QED BY <1>1, <2>1, <2>2, <2>3, <2>5, StepAddsExist DEF FineCals
<1>2. ASSUME NEW x \in FineCals(c, i, ts, n), NEW l \in BOOLEAN
      PROVE  [x EXCEPT !.locked = l] \in FineCals(c, i, ts, n)
  <2>1. PICK r : r = [x EXCEPT !.locked = l]
    OBVIOUS
  <2>2. x \in Cals /\ AddsExist(x) /\ x.id = c /\ CalFine(x, i, ts, n)
    BY DEF FineCals
  <2>3. r \in Cals /\ r.mItems = x.mItems /\ r.queue = x.queue /\ r.mods = x.mods /\ r.id = x.id
    BY <2>1, <2>2, LockAside
  <2>4. AddsExist(r) /\ CalFine(r, i, ts, n)
    BY <2>2, <2>3, FlagsAside
  <2> QED BY <2>1, <2>2, <2>3, <2>4 DEF FineCals
<1> QED BY <1>1, <1>2 DEF Closed

\* One more operation that waits.
More(k, op) == [k EXCEPT !.queue = Append(@, op), !.threw = FALSE]

LEMMA OneMore ==
    ASSUME NEW k \in Cals, NEW op \in Ops, NEW x, x = More(k, op)
    PROVE  /\ x \in Cals /\ x.id = k.id /\ x.mItems = k.mItems /\ ToSet(x.queue) = ToSet(k.queue) \cup {op}
           /\ OpsOf(x) = OpsOf(k) \cup {op} /\ x.mods = k.mods /\ x.queue = Append(k.queue, op)
           /\ AddsExist(k) /\ (op.kind # "delete" => Exists(op.new)) => AddsExist(x)
<1>1. PICK q, a : q = k.queue /\ a = Append(q, op)
  OBVIOUS
<1>2. q \in Seq(Ops) /\ a \in Seq(Ops)
  BY <1>1, AppendProperties DEF Cals
<1>3. x = [k EXCEPT !.queue = a, !.threw = FALSE]
  BY <1>1 DEF More
<1>4. x \in Cals /\ x.id = k.id /\ x.mItems = k.mItems /\ x.queue = a /\ x.mods = k.mods
  BY <1>2, <1>3 DEF Cals
<1>5. ToSet(a) = ToSet(q) \cup {op}
  BY <1>1, <1>2, SetOfSeq
<1> QED BY <1>1, <1>4, <1>5 DEF OpsOf, AddsExist

\* What is asked of a calendar leaves an item safe, if it does not delete it.
LEMMA SafeAsk ==
    ASSUME NEW k \in Cals, AddsExist(k), NEW op \in Ops, op.kind # "delete" => Exists(op.new),
           NEW i \in Items,
           \/ Safe(k, i) /\ (op.item = i => op.kind # "delete")
           \/ /\ op.item = i /\ op.kind = "add" /\ ~k.readOnly
              /\ \A o \in ToSet(k.queue) : o.item = i => o.kind # "delete"
    PROVE  Safe(Asked(k, op), i)
<1>1. PICK x : x = More(k, op)
  OBVIOUS
<1>2. /\ x \in Cals /\ x.mItems = k.mItems /\ ToSet(x.queue) = ToSet(k.queue) \cup {op} /\ AddsExist(x)
  BY <1>1, OneMore
<1>3. ~k.readOnly => Safe(x, i)
  BY <1>2 DEF Safe
<1>4. k.readOnly => [k EXCEPT !.threw = TRUE] \in SafeCals(i)
  <2>1. PICK y : y = [k EXCEPT !.threw = TRUE]
    OBVIOUS
  <2>2. y \in Cals /\ y.mItems = k.mItems /\ y.queue = k.queue /\ y.mods = k.mods /\ y.id = k.id
    BY <2>1, ThrewAside
  <2>3. AddsExist(y) /\ (Safe(k, i) => Safe(y, i))
    BY <2>2, FlagsAside
  <2> QED BY <2>1, <2>2, <2>3 DEF SafeCals
<1>5. ~k.readOnly => x \in SafeCals(i)
  BY <1>2, <1>3 DEF SafeCals
<1>6. Asked(k, op) \in SafeCals(i)
  BY <1>1, <1>4, <1>5, SafeClosed, AskedStays DEF More
<1> QED BY <1>6 DEF SafeCals

LEMMA FineAsk ==
    ASSUME NEW k \in Cals, AddsExist(k), NEW op \in Ops, op.kind # "delete" => Exists(op.new),
           NEW i \in Items, NEW ts, NEW n, CalFine(k, i, ts, n),
           op.item = i /\ op.txn # 0 =>
             /\ op.txn = n
             /\ op.kind # "delete" => k.id = Target(ts[n])
             /\ op.half => /\ op.kind = "add" /\ ts[n].mIsDoTransaction /\ k.id # ts[n].mOldItem.cal
                           /\ \A o \in ToSet(k.queue) : o.item = i => o.kind # "delete",
           op.item = i /\ op.kind = "delete" =>
             \A o \in OpsOf(k) : o.item = i /\ o.txn # 0 => ~o.half
    PROVE  CalFine(Asked(k, op), i, ts, n)
<1>1. PICK x : x = More(k, op)
  OBVIOUS
<1>2. /\ x \in Cals /\ x.id = k.id /\ x.mItems = k.mItems /\ ToSet(x.queue) = ToSet(k.queue) \cup {op}
      /\ OpsOf(x) = OpsOf(k) \cup {op} /\ AddsExist(x)
  BY ZenonT(40), <1>1, OneMore
<1>3. \A o \in OpsOf(k) : OpFine(o, x, i, ts, n)
  <2>1. CASE op.item = i /\ op.kind = "delete"
    BY <1>2, <2>1 DEF CalFine, OpFine
  <2>2. CASE ~(op.item = i /\ op.kind = "delete")
    <3>1. Safe(k, i) => Safe(x, i)
      BY <1>2, <2>2 DEF Safe
    <3> QED BY <1>2, <3>1 DEF CalFine, OpFine
  <2> QED BY <2>1, <2>2
<1>4. OpFine(op, x, i, ts, n)
  BY <1>2 DEF OpFine, Safe
<1>5. x \in FineCals(k.id, i, ts, n)
  BY <1>2, <1>3, <1>4 DEF FineCals, CalFine
<1>6. [k EXCEPT !.threw = TRUE] \in FineCals(k.id, i, ts, n)
  <2>1. PICK y : y = [k EXCEPT !.threw = TRUE]
    OBVIOUS
  <2>2. y \in Cals /\ y.mItems = k.mItems /\ y.queue = k.queue /\ y.mods = k.mods /\ y.id = k.id
    BY <2>1, ThrewAside
  <2>3. AddsExist(y) /\ CalFine(y, i, ts, n)
    BY <2>2, FlagsAside
  <2> QED BY <2>1, <2>2, <2>3 DEF FineCals
<1>7. Asked(k, op) \in FineCals(k.id, i, ts, n)
  BY <1>1, <1>5, <1>6, FineClosed, AskedStays DEF More
<1> QED BY <1>7 DEF FineCals

\* The calendars when one of them has been asked.
AskAt(cs, d, op) == [cs EXCEPT ![d] = Asked(@, op)]

ThinOk(cs) == cs \in [Calendars -> Cals] /\ \A c \in Calendars : cs[c].id = c /\ AddsExist(cs[c])
Apt(op)    == op \in Ops /\ (op.kind # "delete" => Exists(op.new))

LEMMA OkIsThin == ASSUME NEW cs, NEW ts, NEW th, CalsOk(cs, ts, th) PROVE ThinOk(cs)
BY OkAddsExist DEF CalsOk, ThinOk

LEMMA AskAtIs ==
    ASSUME NEW cs, ThinOk(cs), NEW d, NEW op \in Ops, NEW r, r = AskAt(cs, d, op)
    PROVE  /\ \A e \in Calendars : e # d => r[e] = cs[e]
           /\ d \in Calendars => r[d] = Asked(cs[d], op)
           /\ r \in [Calendars -> Cals]
           /\ d \notin Calendars => r = cs
<1>1. CASE d \in Calendars
  <2>1. PICK a : a = Asked(cs[d], op)
    OBVIOUS
  <2>2. a \in Cals
    BY <1>1, <2>1, AskedLocks DEF ThinOk
  <2>3. r = [cs EXCEPT ![d] = a]
    BY <2>1 DEF AskAt
  <2> QED BY <1>1, <2>1, <2>2, <2>3 DEF ThinOk
<1>2. CASE d \notin Calendars
  <2>1. [cs EXCEPT ![d] = Asked(@, op)] = cs
    BY <1>2 DEF ThinOk
  <2> QED BY <1>2, <2>1 DEF AskAt, ThinOk
<1> QED BY <1>1, <1>2

\* An item of which nothing is asked keeps what it has.
Kept(cs, r, i) ==
    \A c \in Calendars : /\ Safe(cs[c], i) => Safe(r[c], i)
                         /\ \A ts, n : CalFine(cs[c], i, ts, n) => CalFine(r[c], i, ts, n)

LEMMA AskOther ==
    ASSUME NEW cs, ThinOk(cs), NEW d, NEW op, Apt(op), NEW i \in Items,
           op.item # i \/ (op.txn = 0 /\ op.kind # "delete")
    PROVE  Kept(cs, AskAt(cs, d, op), i)
<1>1. PICK r : r = AskAt(cs, d, op)
  OBVIOUS
<1>2. op \in Ops /\ (op.kind # "delete" => Exists(op.new))
  BY DEF Apt
<1>3. /\ \A e \in Calendars : e # d => r[e] = cs[e]
      /\ d \in Calendars => r[d] = Asked(cs[d], op)
  BY <1>1, <1>2, AskAtIs
<1>4. ASSUME d \in Calendars
      PROVE  /\ Safe(cs[d], i) => Safe(r[d], i)
             /\ \A ts, n : CalFine(cs[d], i, ts, n) => CalFine(r[d], i, ts, n)
  <2>1. PICK k : k = cs[d]
    OBVIOUS
  <2>2. k \in Cals /\ AddsExist(k) /\ r[d] = Asked(k, op)
    BY <1>3, <1>4, <2>1 DEF ThinOk
  <2>3. Safe(k, i) => Safe(Asked(k, op), i)
    BY <1>2, <2>2, SafeAsk
  <2>4. \A ts, n : CalFine(k, i, ts, n) => CalFine(Asked(k, op), i, ts, n)
    <3> TAKE ts, n
    <3> HAVE CalFine(k, i, ts, n)
    <3>1. ~(op.item = i /\ op.txn # 0) /\ ~(op.item = i /\ op.kind = "delete")
      OBVIOUS
    <3> QED BY <1>2, <2>2, <3>1, FineAsk
  <2> QED BY <2>1, <2>2, <2>3, <2>4
<1> QED BY <1>1, <1>3, <1>4 DEF Kept

LEMMA KeptTwice ==
    ASSUME NEW cs, NEW r, NEW s, NEW i, Kept(cs, r, i), Kept(r, s, i) PROVE Kept(cs, s, i)
BY DEF Kept

LEMMA CalmKept ==
    ASSUME NEW cs \in [Calendars -> Cals] PROVE \A i : Kept(cs, Calm(cs), i)
<1>1. ASSUME NEW c \in Calendars, NEW i
      PROVE  /\ Safe(cs[c], i) => Safe(Calm(cs)[c], i)
             /\ \A ts, n : CalFine(cs[c], i, ts, n) => CalFine(Calm(cs)[c], i, ts, n)
  <2>1. PICK k, r : k = cs[c] /\ r = [k EXCEPT !.threw = FALSE]
    OBVIOUS
  <2>2. k \in Cals /\ Calm(cs)[c] = r
    BY <2>1 DEF Calm
  <2>3. r \in Cals /\ r.mItems = k.mItems /\ r.queue = k.queue /\ r.mods = k.mods /\ r.id = k.id
    BY <2>1, <2>2, ThrewAside
  <2> QED BY <2>1, <2>2, <2>3, FlagsAside
<1> QED BY <1>1 DEF Kept

\* The transactions of an item that is not concerned.
TsStay(ts, us, i) ==
    /\ \A n \in 1..Len(ts) : ts[n].item = i => n \in 1..Len(us) /\ us[n] = ts[n]
    /\ \A n \in 1..Len(us) : us[n].item = i => n \in 1..Len(ts) /\ ts[n].item = i

LEMMA FineTs ==
    ASSUME NEW k, NEW i, NEW ts, NEW us, NEW n, CalFine(k, i, ts, n), n # 0 => us[n] = ts[n]
    PROVE  CalFine(k, i, us, n)
BY DEF CalFine, OpFine

LEMMA ItemStays ==
    ASSUME NEW i, NEW cs, NEW r, NEW ts, NEW us, ItemFine(cs, i, ts), Kept(cs, r, i), TsStay(ts, us, i)
    PROVE  ItemFine(r, i, us)
<1>1. \A n \in 1..Len(us) : us[n].item = i => TxnFine(us[n])
  BY DEF ItemFine, TsStay
<1>2. Survives(r, i, us)
  <2>1. (\A n \in 1..Len(ts) : ts[n].item # i) => \A n \in 1..Len(us) : us[n].item # i
    BY DEF TsStay
  <2>2. ASSUME NEW n \in 1..Len(ts), ts[n].item = i, ts[n].mAction = "delete"
        PROVE  n \in 1..Len(us) /\ us[n].item = i /\ us[n].mAction = "delete"
    BY <2>2 DEF TsStay
  <2>3. \A c \in Calendars : Safe(cs[c], i) => Safe(r[c], i)
    BY DEF Kept
  <2> QED BY <2>1, <2>2, <2>3 DEF ItemFine, Survives
<1>3. PICK n \in Nat : AskedBy(cs, i, ts, n)
  BY DEF ItemFine
<1>4. n # 0 => n \in 1..Len(us) /\ us[n].item = i /\ us[n] = ts[n]
  BY <1>3 DEF AskedBy, TsStay
<1>5. \A c \in Calendars : CalFine(r[c], i, us, n)
  <2> SUFFICES ASSUME NEW c \in Calendars PROVE CalFine(r[c], i, us, n)
    OBVIOUS
  <2>1. CalFine(cs[c], i, ts, n)
    BY <1>3 DEF AskedBy
  <2>2. CalFine(r[c], i, ts, n)
    BY <2>1 DEF Kept
  <2> QED BY <1>4, <2>2, FineTs
<1>6. AskedBy(r, i, us, n)
  BY <1>4, <1>5 DEF AskedBy
<1> QED BY <1>1, <1>2, <1>6 DEF ItemFine

\* An item of which nothing waits for an answer.
Quiet(cs, i) == \A c \in Calendars : \A op \in OpsOf(cs[c]) : op.item # i

LEMMA NotPending == ASSUME NEW i, ~Pending(i) PROVE Quiet(cals, i)
BY DEF Pending, Quiet, OpsOf

LEMMA QuietFine == ASSUME NEW cs, NEW i, Quiet(cs, i) PROVE \A c \in Calendars : \A ts, n : CalFine(cs[c], i, ts, n)
BY DEF Quiet, CalFine, OpFine

\* The transaction asks of its item what it should.
LEMMA MineAt ==
    ASSUME NEW cs, ThinOk(cs), NEW d \in Calendars, NEW op, Apt(op), NEW i \in Items, NEW ts, NEW n,
           op.item = i, op.txn = n,
           \A o \in OpsOf(cs[d]) : o.item # i,
           op.kind # "delete" => d = Target(ts[n]),
           op.half => op.kind = "add" /\ ts[n].mIsDoTransaction /\ d # ts[n].mOldItem.cal,
           \A c \in Calendars : CalFine(cs[c], i, ts, n)
    PROVE  \A c \in Calendars : CalFine(AskAt(cs, d, op)[c], i, ts, n)
<1>1. PICK r, k : r = AskAt(cs, d, op) /\ k = cs[d]
  OBVIOUS
<1>2. op \in Ops /\ (op.kind # "delete" => Exists(op.new))
  BY DEF Apt
<1>3. /\ \A e \in Calendars : e # d => r[e] = cs[e]
      /\ r[d] = Asked(k, op)
  BY <1>1, <1>2, AskAtIs
<1>4. k \in Cals /\ AddsExist(k) /\ k.id = d /\ CalFine(k, i, ts, n)
  BY <1>1 DEF ThinOk
<1>5. ToSet(k.queue) \subseteq OpsOf(k)
  BY DEF OpsOf
<1>6. CalFine(Asked(k, op), i, ts, n)
  BY <1>1, <1>2, <1>4, <1>5, FineAsk
<1> QED BY <1>1, <1>3, <1>6

LEMMA DoMine ==
    ASSUME ThinOk(cals), NEW ts \in Seq(Txns), NEW n \in 1..Len(ts), NEW t \in Txns, TxnOk(t), TxnFine(t),
           ts[n] = Done(t), Quiet(cals, t.item)
    PROVE  AskedBy(DoTransaction(n, t), t.item, ts, n)
<1>1. PICK op, d, i : op = DoOp(n, t) /\ d = t.mCalendar /\ i = t.item
  OBVIOUS
<1>2. /\ ts[n].item = i /\ ts[n].mCalendar = d /\ ts[n].mIsDoTransaction /\ ts[n].mOldItem = t.mOldItem
  BY <1>1, DoneOk
<1>3. /\ op \in Ops /\ OpOk(op, ts) /\ op.item = i /\ op.txn = n
      /\ op.kind = IF IsMove(t) THEN "add" ELSE t.mAction
      /\ (op.half <=> IsMove(t))
  BY <1>1, <1>2, TxnOpsOk
<1>4. Apt(op)
  BY <1>3 DEF Apt, OpOk
<1>5. d \in Calendars /\ i \in Items
  BY <1>1 DEF Txns
<1>6. op.half => op.kind = "add" /\ d # ts[n].mOldItem.cal
  BY <1>1, <1>2, <1>3 DEF IsMove, TxnFine
<1>7. d = Target(ts[n])
  BY <1>2 DEF Target
<1>8. \A c \in Calendars : CalFine(AskAt(cals, d, op)[c], i, ts, n)
  <2>1. /\ op.item = i /\ op.txn = n /\ d = Target(ts[n])
        /\ op.half => op.kind = "add" /\ ts[n].mIsDoTransaction /\ d # ts[n].mOldItem.cal
    BY <1>2, <1>3, <1>6, <1>7
  <2>2. (\A o \in OpsOf(cals[d]) : o.item # i) /\ \A c \in Calendars : CalFine(cals[c], i, ts, n)
    BY <1>1, <1>5, QuietFine DEF Quiet
  <2> QED BY <1>4, <1>5, <2>1, <2>2, MineAt
<1>9. DoTransaction(n, t) = AskAt(cals, d, op)
  BY <1>1, DoIs DEF AskAt
<1> QED BY <1>1, <1>2, <1>8, <1>9 DEF AskedBy

LEMMA TailAppend ==
    ASSUME NEW S, NEW s \in Seq(S), NEW e \in S
    PROVE  /\ Append(s, e) # <<>>
           /\ s = <<>> => Head(Append(s, e)) = e /\ Tail(Append(s, e)) = <<>>
           /\ s # <<>> => Head(Append(s, e)) = Head(s) /\ Tail(Append(s, e)) = Append(Tail(s), e)
                          /\ Tail(s) \in Seq(S)
<1>1. PICK a : a = Append(s, e)
  OBVIOUS
<1>2. /\ a \in Seq(S) /\ Len(a) = Len(s) + 1 /\ a[Len(s) + 1] = e /\ Len(s) \in Nat
      /\ \A p \in 1..Len(s) : a[p] = s[p]
  BY <1>1, AppendProperties, LenProperties
<1>3. a # <<>>
  BY <1>2, EmptySeq
<1>4. PICK t : t = Tail(a)
  OBVIOUS
<1>5. Head(a) = a[1] /\ t \in Seq(S) /\ Len(t) = Len(s) /\ \A p \in 1..Len(s) : t[p] = a[p + 1]
  <2>1. Head(a) = a[1] /\ t \in Seq(S) /\ Len(t) = Len(a) - 1 /\ \A p \in 1..Len(t) : t[p] = a[p + 1]
    BY <1>2, <1>3, <1>4, HeadTailProperties
  <2> QED BY <1>2, <2>1
<1>6. CASE s = <<>>
  <2>1. Len(s) = 0
    BY <1>6, EmptySeq
  <2>2. Head(a) = e /\ Len(t) = 0
    BY <1>2, <1>5, <2>1
  <2> QED BY <1>1, <1>3, <1>4, <1>5, <1>6, <2>2, EmptySeq
<1>7. CASE s # <<>>
  <2>1. Len(s) # 0 /\ 1 \in 1..Len(s)
    BY <1>2, <1>7, EmptySeq
  <2>2. PICK u, b : u = Tail(s) /\ b = Append(u, e)
    OBVIOUS
  <2>3. Head(s) = s[1] /\ u \in Seq(S) /\ Len(u) = Len(s) - 1 /\ \A p \in 1..Len(u) : u[p] = s[p + 1]
    BY <1>7, <2>2, HeadTailProperties
  <2>4. b \in Seq(S) /\ Len(b) = Len(u) + 1 /\ b[Len(u) + 1] = e /\ \A p \in 1..Len(u) : b[p] = u[p]
    BY <2>2, <2>3, AppendProperties
  <2>5. Len(b) = Len(s)
    BY <1>2, <2>1, <2>3, <2>4
  <2>6. ASSUME NEW p \in 1..Len(s) PROVE b[p] = t[p]
    <3>1. CASE p = Len(s)
      <4>1. t[p] = e
        BY <1>2, <1>5, <3>1
      <4>2. b[p] = e
        BY <1>2, <2>3, <2>4, <3>1
      <4> QED BY <4>1, <4>2
    <3>2. CASE p # Len(s)
      <4>1. p \in 1..Len(u) /\ p + 1 \in 1..Len(s)
        BY <1>2, <2>3, <3>2
      <4> QED BY <1>2, <1>5, <2>3, <2>4, <4>1
    <3> QED BY <3>1, <3>2
  <2>7. b = t
    BY <1>2, <1>5, <2>4, <2>5, <2>6, SeqEqual
  <2> QED BY <1>1, <1>2, <1>3, <1>4, <1>5, <1>7, <2>1, <2>2, <2>3, <2>7
<1> QED BY <1>6, <1>7

\* If the call that deletes an item throws although the item is there, it is because of
\* something that waited before, and the deletion goes on to wait.
LEMMA StuckDelete ==
    ASSUME NEW k \in Cals, NEW i \in Items, NEW op \in Ops, op.item = i, op.kind = "delete",
           Exists(k.mItems[i]), \A o \in ToSet(k.queue) : o.item # i, ~k.readOnly,
           Asked(k, op).threw
    PROVE  \E o \in ToSet(Asked(k, op).queue) : o.item = i
<1>1. PICK G : G = {x \in Cals : \/ /\ Exists(x.mItems[i])
                                    /\ \E s \in Seq(Ops) : /\ x.queue = Append(s, op)
                                                           /\ \A o \in ToSet(s) : o.item # i
                                 \/ ~x.threw /\ x.queue = <<>>}
  OBVIOUS
<1>2. ASSUME NEW x \in G, ~x.threw, x.queue # <<>> PROVE Step(x) \in G
  <2>1. x \in Cals /\ Exists(x.mItems[i])
    BY <1>1, <1>2
  <2>2. PICK s \in Seq(Ops) : x.queue = Append(s, op) /\ \A o \in ToSet(s) : o.item # i
    BY <1>1, <1>2
  <2>3. PICK o, r : o = Head(x.queue) /\ r = Step(x)
    OBVIOUS
  <2>4. /\ r \in Cals /\ r.queue = Tail(x.queue)
        /\ r.mItems[i] = IF i = o.item /\ ~Throws(x, o) /\ Works(x, o) THEN Outcome(x, o) ELSE x.mItems[i]
        /\ ~Throws(x, o) => r.threw = x.threw
    <3>1. r \in Cals /\ r.queue = Tail(x.queue) /\ (~Throws(x, o) => r.threw = x.threw)
      BY <1>2, <2>1, <2>3, StepFields
    <3>2. r.mItems[i] = IF i = o.item /\ ~Throws(x, o) /\ Works(x, o) THEN Outcome(x, o) ELSE x.mItems[i]
      BY <1>2, <2>1, <2>3, StepSets
    <3> QED BY <3>1, <3>2
  <2>5. CASE s = <<>>
    <3>1. o = op /\ r.queue = <<>>
      BY <2>2, <2>3, <2>4, <2>5, TailAppend
    <3>2. ~Throws(x, op)
      BY <2>1 DEF Throws
    <3> QED BY <1>1, <1>2, <2>3, <2>4, <3>1, <3>2
  <2>6. CASE s # <<>>
    <3>1. o = Head(s) /\ r.queue = Append(Tail(s), op) /\ Tail(s) \in Seq(Ops)
      BY <2>2, <2>3, <2>4, <2>6, TailAppend
    <3>2. ToSet(s) = {Head(s)} \cup ToSet(Tail(s)) /\ Head(s) \in ToSet(s)
      BY <2>6, SetOfSeq
    <3>3. o.item # i /\ \A y \in ToSet(Tail(s)) : y.item # i
      BY <2>2, <3>1, <3>2
    <3>4. Exists(r.mItems[i])
      BY <2>1, <2>4, <3>3
    <3> QED BY <1>1, <2>3, <2>4, <3>1, <3>3, <3>4
  <2> QED BY <2>5, <2>6
<1>3. ASSUME NEW x \in G, NEW l \in BOOLEAN PROVE [x EXCEPT !.locked = l] \in G
  <2>1. PICK r : r = [x EXCEPT !.locked = l]
    OBVIOUS
  <2>2. x \in Cals
    BY <1>1
  <2>3. r \in Cals /\ r.mItems = x.mItems /\ r.queue = x.queue /\ r.threw = x.threw
    BY <2>1, <2>2, LockAside
  <2> QED BY <1>1, <2>1, <2>3
<1>4. More(k, op) \in G
  <2>1. PICK x, q : x = More(k, op) /\ q = k.queue
    OBVIOUS
  <2>2. x \in Cals /\ x.mItems = k.mItems /\ x.queue = Append(q, op) /\ q \in Seq(Ops)
    BY SMTT(30), <2>1, OneMore DEF Cals
  <2> QED BY <1>1, <2>1, <2>2
<1>5. Asked(k, op) \in G
  BY <1>2, <1>3, <1>4, AskedStays DEF Closed, More
<1>6. PICK s \in Seq(Ops) : Asked(k, op).queue = Append(s, op)
  BY <1>1, <1>5
<1>7. op \in ToSet(Asked(k, op).queue)
  BY <1>6, SetOfSeq
<1> QED BY <1>7

LEMMA ThinAskAt ==
    ASSUME NEW cs, ThinOk(cs), NEW d, NEW op, Apt(op) PROVE ThinOk(AskAt(cs, d, op))
<1>1. PICK r : r = AskAt(cs, d, op)
  OBVIOUS
<1>2. /\ \A e \in Calendars : e # d => r[e] = cs[e]
      /\ d \in Calendars => r[d] = Asked(cs[d], op)
      /\ r \in [Calendars -> Cals]
  BY <1>1, AskAtIs DEF Apt
<1>3. ASSUME d \in Calendars PROVE Asked(cs[d], op).id = d /\ AddsExist(Asked(cs[d], op))
  <2>1. PICK k : k = cs[d]
    OBVIOUS
  <2>2. k \in Cals /\ k.id = d /\ AddsExist(k) /\ op \in Ops /\ (op.kind # "delete" => Exists(op.new))
    BY <1>3, <2>1 DEF ThinOk, Apt
  <2>3. Asked(k, op).id = d
    BY <2>2, AskedLocks
  <2>4. PICK G : G = {x \in Cals : AddsExist(x)}
    OBVIOUS
  <2>5. Closed(G)
    <3>1. ASSUME NEW x \in Cals, AddsExist(x), NEW l \in BOOLEAN PROVE [x EXCEPT !.locked = l] \in G
      <4>1. PICK y : y = [x EXCEPT !.locked = l]
        OBVIOUS
      <4>2. y \in Cals /\ y.mItems = x.mItems /\ y.queue = x.queue /\ y.mods = x.mods /\ y.id = x.id
        BY <4>1, LockAside
      <4>3. AddsExist(y)
        BY <3>1, <4>2, FlagsAside
      <4> QED BY <2>4, <4>1, <4>2, <4>3
    <3> QED BY <2>4, <3>1, StepAddsExist DEF Closed
  <2>6. More(k, op) \in G
    BY <2>2, <2>4, OneMore
  <2>7. [k EXCEPT !.threw = TRUE] \in G
    <3>1. PICK y : y = [k EXCEPT !.threw = TRUE]
      OBVIOUS
    <3>2. y \in Cals /\ y.mItems = k.mItems /\ y.queue = k.queue /\ y.mods = k.mods /\ y.id = k.id
      BY <2>2, <3>1, ThrewAside
    <3>3. AddsExist(y)
      BY <2>2, <3>2, FlagsAside
    <3> QED BY <2>4, <3>1, <3>2, <3>3
  <2>8. Asked(k, op) \in G
    BY <2>2, <2>5, <2>6, <2>7, AskedStays DEF More
  <2> QED BY <2>1, <2>3, <2>4, <2>8
<1>4. \A e \in Calendars : r[e].id = e /\ AddsExist(r[e])
  BY <1>2, <1>3 DEF ThinOk
<1> QED BY <1>1, <1>2, <1>4 DEF ThinOk

LEMMA UndoMine ==
    ASSUME ThinOk(cals), NEW ts \in Seq(Txns), NEW n \in 1..Len(ts), NEW t \in Txns, TxnOk(t), TxnFine(t),
           t.mAction = "modify", ts[n] = Undone(t), Quiet(cals, t.item)
    PROVE  /\ AskedBy(UndoFirst(n, t), t.item, ts, n)
           /\ AskedBy(UndoTransaction(n, t), t.item, ts, n)
           /\ ThinOk(UndoFirst(n, t))
<1>1. PICK op, d, i, f : /\ op = (IF IsMove(t) THEN DeleteOp(n, t) ELSE ModifyOp(n, t))
                         /\ d = t.mCalendar /\ i = t.item /\ f = UndoFirst(n, t)
  OBVIOUS
<1>2. /\ ts[n].item = i /\ ts[n].mCalendar = d /\ ~ts[n].mIsDoTransaction /\ ts[n].mOldCalendar = t.mOldCalendar
  BY <1>1, DoneOk
<1>3. d \in Calendars /\ i \in Items /\ t.mOldCalendar \in Calendars
  BY <1>1 DEF Txns, TxnFine
<1>4. DeleteOp(n, t) \in Ops /\ (~IsMove(t) => ModifyOp(n, t) \in Ops) /\ AddOp(n, t) \in Ops
  BY <1>1, <1>2, TxnOpsOk
<1>5. /\ op.item = i /\ op.txn = n /\ ~op.half
      /\ op.kind = IF IsMove(t) THEN "delete" ELSE "modify"
      /\ ~IsMove(t) => op.new = t.mOldItem
  BY <1>1 DEF DeleteOp, ModifyOp, Op
<1>6. Apt(op)
  <2>1. op \in Ops
    BY <1>1, <1>4
  <2>2. Exists(t.mOldItem)
    BY DEF TxnOk
  <2> QED BY <1>5, <2>1, <2>2 DEF Apt
<1>7. f = AskAt(cals, d, op)
  BY <1>1 DEF UndoFirst, AskAt
<1>8. op.kind # "delete" => d = Target(ts[n])
  BY <1>1, <1>2, <1>5 DEF Target, TxnFine, IsMove
<1>9. \A c \in Calendars : CalFine(f[c], i, ts, n)
  <2>1. (\A o \in OpsOf(cals[d]) : o.item # i) /\ \A c \in Calendars : CalFine(cals[c], i, ts, n)
    BY <1>1, <1>3, QuietFine DEF Quiet
  <2> QED BY <1>3, <1>5, <1>6, <1>7, <1>8, <2>1, MineAt
<1>10. AskedBy(f, i, ts, n)
  BY <1>2, <1>9 DEF AskedBy
<1>11. ThinOk(f)
  BY <1>6, <1>7, ThinAskAt
<1>12. CASE ~IsMove(t) \/ Threw(f)
  <2>1. UndoTransaction(n, t) = f
    BY <1>1, <1>12, UndoIs
  <2> QED BY <1>1, <1>10, <1>11, <2>1
<1>13. CASE IsMove(t) /\ ~Threw(f)
  <2>1. PICK a, e : a = AddOp(n, t) /\ e = t.mOldCalendar
    OBVIOUS
  <2>2. UndoTransaction(n, t) = AskAt(f, e, a)
    BY <1>1, <1>13, <2>1, UndoIs DEF AskAt
  <2>3. a.item = i /\ a.txn = n /\ ~a.half /\ a.kind = "add" /\ a.new = t.mOldItem /\ a \in Ops
    BY <1>1, <1>4, <2>1 DEF AddOp, Op
  <2>4. Apt(a)
    BY <2>3 DEF TxnOk, Apt
  <2>5. e \in Calendars /\ e # d /\ e = Target(ts[n])
    BY <1>1, <1>2, <1>3, <1>13, <2>1 DEF Target, TxnFine, IsMove
  <2>6. f[e] = cals[e]
    BY <1>3, <1>6, <1>7, <2>5, AskAtIs DEF Apt
  <2>7. \A o \in OpsOf(f[e]) : o.item # i
    BY <1>1, <2>5, <2>6 DEF Quiet
  <2>8. \A c \in Calendars : CalFine(AskAt(f, e, a)[c], i, ts, n)
    BY <1>3, <1>9, <1>11, <2>3, <2>4, <2>5, <2>7, MineAt
  <2> QED BY <1>1, <1>2, <1>10, <1>11, <2>2, <2>8 DEF AskedBy
<1> QED BY <1>12, <1>13

LEMMA DoneFine == ASSUME NEW t \in Txns, TxnOk(t), TxnFine(t) PROVE TxnFine(Done(t)) /\ TxnFine(Undone(t))
<1>1. IsMove(t) => t.mOldItem.cal = t.mOldCalendar
  BY DEF IsMove, TxnFine
<1> QED BY <1>1, DoneOk DEF TxnFine

LEMMA OvertakenIs ==
    ASSUME NEW t, NEW cs, Asks(t, cs)
    PROVE  /\ overtaken \subseteq overtaken'
           /\ t.item \notin overtaken' => ~Pending(t.item) /\ ~Stuck(cs, t.item)
BY DEF Asks

\* Other items have nothing to do with what a transaction asks.
LEMMA DoOther ==
    ASSUME ThinOk(cals), NEW ts \in Seq(Txns), NEW n \in 1..Len(ts), NEW t \in Txns, TxnOk(t),
           t.item = ts[n].item, NEW j \in Items, j # t.item
    PROVE  Kept(cals, DoTransaction(n, t), j)
<1>1. PICK op : op = DoOp(n, t)
  OBVIOUS
<1>2. op \in Ops /\ OpOk(op, ts) /\ op.item = t.item
  BY <1>1, TxnOpsOk
<1>3. Apt(op) /\ op.item # j
  BY <1>2 DEF Apt, OpOk
<1>4. DoTransaction(n, t) = AskAt(cals, t.mCalendar, op)
  BY <1>1, DoIs DEF AskAt
<1> QED BY <1>3, <1>4, AskOther

LEMMA UndoOps ==
    ASSUME NEW ts \in Seq(Txns), NEW n \in 1..Len(ts), NEW t \in Txns, TxnOk(t), t.item = ts[n].item,
           t.mAction = "modify", NEW op, op = IF IsMove(t) THEN DeleteOp(n, t) ELSE ModifyOp(n, t),
           NEW a, a = AddOp(n, t)
    PROVE  /\ Apt(op) /\ op.item = t.item /\ op.txn = n /\ ~op.half
           /\ op.kind = IF IsMove(t) THEN "delete" ELSE "modify"
           /\ Apt(a) /\ a.item = t.item /\ a.txn = n /\ ~a.half /\ a.kind = "add" /\ a.new = t.mOldItem
           /\ UndoFirst(n, t) = AskAt(cals, t.mCalendar, op)
           /\ UndoTransaction(n, t) = IF ~IsMove(t) \/ Threw(UndoFirst(n, t)) THEN UndoFirst(n, t)
                                      ELSE AskAt(UndoFirst(n, t), t.mOldCalendar, a)
<1>1. DeleteOp(n, t) \in Ops /\ ModifyOp(n, t) \in Ops /\ AddOp(n, t) \in Ops
  BY TxnOpsOk
<1>2. op \in Ops /\ a \in Ops /\ Exists(t.mOldItem)
  BY <1>1 DEF TxnOk
<1>3. /\ op.item = t.item /\ op.txn = n /\ ~op.half
      /\ op.kind = IF IsMove(t) THEN "delete" ELSE "modify"
      /\ ~IsMove(t) => op.new = t.mOldItem
  BY DEF DeleteOp, ModifyOp, Op
<1>4. a.item = t.item /\ a.txn = n /\ ~a.half /\ a.kind = "add" /\ a.new = t.mOldItem
  BY DEF AddOp, Op
<1>5. Apt(op) /\ Apt(a)
  BY <1>2, <1>3, <1>4 DEF Apt
<1> QED BY <1>3, <1>4, <1>5, UndoIs DEF UndoFirst, AskAt

LEMMA UndoOther ==
    ASSUME ThinOk(cals), NEW ts \in Seq(Txns), NEW n \in 1..Len(ts), NEW t \in Txns, TxnOk(t),
           t.item = ts[n].item, t.mAction = "modify", NEW j \in Items, j # t.item
    PROVE  Kept(cals, UndoTransaction(n, t), j)
<1>1. PICK op, a, f : op = (IF IsMove(t) THEN DeleteOp(n, t) ELSE ModifyOp(n, t)) /\ a = AddOp(n, t)
                      /\ f = UndoFirst(n, t)
  OBVIOUS
<1>2. /\ Apt(op) /\ op.item = t.item /\ Apt(a) /\ a.item = t.item
      /\ f = AskAt(cals, t.mCalendar, op)
      /\ UndoTransaction(n, t) = IF ~IsMove(t) \/ Threw(f) THEN f ELSE AskAt(f, t.mOldCalendar, a)
  BY <1>1, UndoOps
<1>3. Kept(cals, f, j) /\ ThinOk(f)
  BY <1>2, AskOther, ThinAskAt
<1>4. Kept(f, AskAt(f, t.mOldCalendar, a), j)
  BY <1>2, <1>3, AskOther
<1> QED BY <1>2, <1>3, <1>4, KeptTwice

LEMMA DoSafe ==
    ASSUME ThinOk(cals), NEW ts \in Seq(Txns), NEW n \in 1..Len(ts), NEW t \in Txns, TxnOk(t),
           t.item = ts[n].item, NEW e \in Calendars,
           \/ Safe(cals[e], t.item) /\ t.mAction # "delete"
           \/ e = t.mCalendar /\ t.mAction = "add" /\ ~cals[e].readOnly /\ Quiet(cals, t.item)
    PROVE  Safe(DoTransaction(n, t)[e], t.item)
<1>1. PICK op, r, i : op = DoOp(n, t) /\ r = DoTransaction(n, t) /\ i = t.item
  OBVIOUS
<1>2. op \in Ops /\ OpOk(op, ts) /\ op.item = i /\ op.kind = (IF IsMove(t) THEN "add" ELSE t.mAction)
  BY <1>1, TxnOpsOk
<1>3. Apt(op) /\ (t.mAction # "delete" => op.kind # "delete") /\ (t.mAction = "add" => op.kind = "add")
  BY <1>2 DEF Apt, OpOk, IsMove
<1>4. r = AskAt(cals, t.mCalendar, op)
  BY <1>1, DoIs DEF AskAt
<1>5. i \in Items /\ t.mCalendar \in Calendars
  BY <1>1 DEF Txns
<1>6. CASE e # t.mCalendar
  <2>1. r[e] = cals[e]
    BY <1>3, <1>4, <1>6, AskAtIs DEF Apt
  <2> QED BY <1>1, <1>6, <2>1
<1>7. CASE e = t.mCalendar
  <2>1. PICK k : k = cals[e]
    OBVIOUS
  <2>2. r[e] = Asked(k, op)
    BY <1>3, <1>4, <1>7, <2>1, AskAtIs DEF Apt
  <2>3. k \in Cals /\ AddsExist(k)
    BY <2>1 DEF ThinOk
  <2>4. Quiet(cals, i) => \A o \in ToSet(k.queue) : o.item = i => o.kind # "delete"
    BY <2>1 DEF Quiet, OpsOf
  <2>5. \/ Safe(k, i) /\ op.kind # "delete"
        \/ /\ op.kind = "add" /\ ~k.readOnly
           /\ \A o \in ToSet(k.queue) : o.item = i => o.kind # "delete"
    BY <1>1, <1>3, <2>1, <2>4
  <2>6. Safe(Asked(k, op), i)
    BY <1>2, <1>3, <1>5, <2>3, <2>5, SafeAsk DEF Apt
  <2> QED BY <1>1, <2>2, <2>6
<1> QED BY <1>6, <1>7

LEMMA UndoSafe ==
    ASSUME ThinOk(cals), ~Threw(cals), NEW ts \in Seq(Txns), NEW n \in 1..Len(ts), NEW t \in Txns, TxnOk(t),
           t.item = ts[n].item, t.mAction = "modify", TxnFine(t), Quiet(cals, t.item),
           ~cals[t.mItem.cal].readOnly, ~cals[t.mOldItem.cal].readOnly,
           NEW e \in Calendars, Safe(cals[e], t.item),
           NEW cs, cs = UndoTransaction(n, t), ~Stuck(cs, t.item)
    PROVE  \E c \in Calendars : Safe(cs[c], t.item)
<1>1. PICK op, a, f, d, i : op = (IF IsMove(t) THEN DeleteOp(n, t) ELSE ModifyOp(n, t)) /\ a = AddOp(n, t)
                            /\ f = UndoFirst(n, t) /\ d = t.mCalendar /\ i = t.item
  OBVIOUS
<1>2. /\ Apt(op) /\ op.item = i /\ Apt(a) /\ a.item = i /\ a.kind = "add"
      /\ op.kind = (IF IsMove(t) THEN "delete" ELSE "modify")
      /\ f = AskAt(cals, d, op)
      /\ cs = IF ~IsMove(t) \/ Threw(f) THEN f ELSE AskAt(f, t.mOldCalendar, a)
  BY <1>1, UndoOps
<1>3. i \in Items /\ d \in Calendars /\ t.mOldCalendar \in Calendars
  BY <1>1 DEF Txns, TxnFine
<1>4. ~cals[d].readOnly /\ ~cals[t.mOldCalendar].readOnly
  BY <1>1 DEF TxnFine
<1>5. /\ \A c \in Calendars : c # d => f[c] = cals[c]
      /\ f[d] = Asked(cals[d], op)
      /\ ThinOk(f)
  BY <1>2, <1>3, AskAtIs, ThinAskAt DEF Apt
<1>6. PICK k : k = cals[d]
  OBVIOUS
<1>7. k \in Cals /\ AddsExist(k) /\ \A o \in ToSet(k.queue) : o.item # i
  BY <1>1, <1>3, <1>6 DEF ThinOk, Quiet, OpsOf
<1>8. CASE ~IsMove(t)
  <2>1. cs = f /\ op.kind # "delete"
    BY <1>2, <1>8
  <2>2. Safe(k, i) => Safe(Asked(k, op), i)
    BY <1>2, <1>3, <1>7, <2>1, SafeAsk DEF Apt
  <2> QED BY <1>1, <1>5, <1>6, <2>1, <2>2
<1>9. CASE IsMove(t) /\ Threw(f)
  <2>1. cs = f /\ op.kind = "delete"
    BY <1>2, <1>9
  <2>2. CASE e # d
    BY <1>1, <1>5, <2>1, <2>2
  <2>3. CASE e = d
    <3>1. Exists(k.mItems[i])
      BY <1>1, <1>6, <1>7, <2>3 DEF Safe
    <3>2. f[d].threw
      BY <1>5, <1>9 DEF Threw
    <3>3. Asked(k, op).threw
      BY <1>5, <1>6, <3>2
    <3>4. \E o \in ToSet(Asked(k, op).queue) : o.item = i
      BY <1>2, <1>3, <1>4, <1>6, <1>7, <2>1, <3>1, <3>3, StuckDelete DEF Apt
    <3>5. Stuck(cs, i)
      BY <1>3, <1>5, <1>6, <2>1, <3>2, <3>4 DEF Stuck
    <3> QED BY <1>1, <3>5
  <2> QED BY <2>2, <2>3
<1>10. CASE IsMove(t) /\ ~Threw(f)
  <2>1. PICK b : b = t.mOldCalendar
    OBVIOUS
  <2>2. b # d /\ b \in Calendars
    BY <1>1, <1>3, <1>10, <2>1 DEF TxnFine, IsMove
  <2>3. cs = AskAt(f, b, a)
    BY <1>2, <1>10, <2>1
  <2>4. cs[b] = Asked(f[b], a) /\ f[b] = cals[b]
    BY <1>2, <1>5, <2>2, <2>3, AskAtIs DEF Apt
  <2>5. PICK x : x = cals[b]
    OBVIOUS
  <2>6. x \in Cals /\ AddsExist(x) /\ ~x.readOnly /\ \A o \in ToSet(x.queue) : o.item # i
    BY <1>1, <1>4, <2>1, <2>2, <2>5 DEF ThinOk, Quiet, OpsOf
  <2>7. Safe(Asked(x, a), i)
    BY <1>2, <1>3, <2>6, SafeAsk DEF Apt
  <2> QED BY <1>1, <2>2, <2>4, <2>5, <2>7
<1> QED BY <1>8, <1>9, <1>10

\* An item safe somewhere, whose transactions are in order, is fine.
LEMMA MineIsFine ==
    ASSUME NEW i, NEW cs \in [Calendars -> Cals], NEW ts, NEW n \in Nat, AskedBy(cs, i, ts, n),
           \A m \in 1..Len(ts) : ts[m].item = i => TxnFine(ts[m]),
           \/ \E m \in 1..Len(ts) : ts[m].item = i /\ ts[m].mAction = "delete"
           \/ \E c \in Calendars : Safe(cs[c], i)
    PROVE  ItemFine(Calm(cs), i, ts)
<1>1. Survives(cs, i, ts)
  BY DEF Survives
<1>2. ItemFine(cs, i, ts)
  BY <1>1 DEF ItemFine
<1>3. TsStay(ts, ts, i)
  BY DEF TsStay
<1> QED BY <1>2, <1>3, CalmKept, ItemStays

LEMMA OtherIsFine ==
    ASSUME NEW i, NEW cs \in [Calendars -> Cals], NEW ts, ItemFine(cals, i, txns), Kept(cals, cs, i),
           TsStay(txns, ts, i)
    PROVE  ItemFine(Calm(cs), i, ts)
<1>1. ItemFine(cs, i, ts)
  BY ItemStays
<1>2. TsStay(ts, ts, i)
  BY DEF TsStay
<1> QED BY <1>1, <1>2, CalmKept, ItemStays

LEMMA CreateLost ==
    ASSUME ManagerInv, LostInv, NEW a \in Actions, NEW i \in Items, NEW c \in Calendars, NEW d \in Calendars,
           CreateAndCommitTxn(a, i, c, d)
    PROVE  LostInv'
<1>1. PICK t : t = NewTxn(a, i, c, d)
  OBVIOUS
<1>2. PICK n, cs, ts : n = Len(txns) + 1 /\ cs = DoTransaction(n, t) /\ ts = txns'
  OBVIOUS
<1>3. /\ a # "add" => Exists(Shown(c, i))
      /\ a = "move" <=> c # d
      /\ ~cals[d].readOnly
      /\ ts = Append(txns, Done(t)) /\ Asks(t, cs)
  BY <1>1, <1>2, CreateIs
<1>4. t \in Txns /\ TxnOk(t) /\ t.item = i
  BY <1>1, <1>3, NewTxnOk
<1>5. txns \in Seq(Txns) /\ TxnsOk(txns) /\ CalsOk(cals, txns, touched) /\ ThinOk(cals)
  BY OkIsThin DEF ManagerInv, TxnsOk
<1>6. PICK dt : dt = Done(t)
  OBVIOUS
<1>7. dt \in Txns /\ TxnOk(dt) /\ dt.item = i /\ dt.mAction = t.mAction
  BY <1>4, <1>6, DoneOk
<1>8. /\ ts \in Seq(Txns) /\ TxnsOk(ts) /\ SameItems(txns, ts) /\ Len(ts) = Len(txns) + 1
      /\ Len(txns) \in Nat /\ ts[n] = dt /\ \A m \in 1..Len(txns) : ts[m] = txns[m]
  <2>1. ts = Append(txns, dt) /\ n = Len(txns) + 1
    BY <1>2, <1>3, <1>6
  <2>2. PICK os : os = txns
    OBVIOUS
  <2>3. dt \in Txns /\ TxnOk(dt) /\ os \in Seq(Txns) /\ TxnsOk(os) /\ ts = Append(os, dt)
    BY <1>5, <1>7, <2>1, <2>2
  <2>4. /\ ts \in Seq(Txns) /\ TxnsOk(ts) /\ SameItems(os, ts) /\ Len(ts) = Len(os) + 1
        /\ Len(os) \in Nat /\ ts[Len(os) + 1] = dt
    BY <2>3, AppendTxn
  <2>5. \A m \in 1..Len(os) : ts[m] = os[m]
    BY <2>3, AppendProperties
  <2> QED BY <2>1, <2>2, <2>4, <2>5
<1>9. n \in 1..Len(ts) /\ n \in Nat /\ \A m \in 1..Len(ts) : m \in 1..Len(txns) \/ m = n
  BY <1>2, <1>8
<1>10. cs \in [Calendars -> Cals]
  <2>1. CalsOk(cals, ts, touched)
    BY <1>5, <1>8, CalsStayOk
  <2>2. CalsOk(cs, ts, touched)
    BY <1>2, <1>4, <1>7, <1>8, <1>9, <2>1, DoOk
  <2> QED BY <2>2 DEF CalsOk
<1>11. ASSUME NEW j \in Items, j \notin overtaken', j # i PROVE ItemFine(Calm(cs), j, ts)
  <2>1. ItemFine(cals, j, txns)
    BY <1>3, <1>11, OvertakenIs DEF LostInv
  <2>2. Kept(cals, cs, j)
    BY <1>2, <1>4, <1>5, <1>7, <1>8, <1>9, <1>11, DoOther
  <2>3. TsStay(txns, ts, j)
    BY <1>7, <1>8, <1>9, <1>11 DEF TsStay
  <2> QED BY <1>10, <2>1, <2>2, <2>3, OtherIsFine
<1>12. ASSUME i \notin overtaken' PROVE ItemFine(Calm(cs), i, ts)
  <2>1. ItemFine(cals, i, txns) /\ Quiet(cals, i)
    BY <1>3, <1>4, <1>12, OvertakenIs, NotPending DEF LostInv
  <2>2. PICK o, p : o = Shown(c, i) /\ p = Object(d, n, o.g)
    OBVIOUS
  <2>3. /\ t.mAction = (IF a = "move" THEN "modify" ELSE a) /\ t.mCalendar = d /\ t.mOldCalendar = c
        /\ t.mItem = (IF a = "delete" THEN o ELSE p)
        /\ t.mOldItem = (IF a \in {"modify", "move"} THEN o ELSE NoItem)
    BY <1>1, <1>2, <2>2 DEF NewTxn
  <2>4. a \in {"add", "modify", "move", "delete"} /\ (a # "add" => o.cal = c) /\ p.cal = d
    BY <1>3, <2>2, ShownIs, ConstantsAssumption DEF Object
  <2>5. TxnFine(t)
    BY <1>3, <2>3, <2>4 DEF TxnFine
  <2>6. TxnFine(dt)
    BY <1>4, <1>6, <2>5, DoneFine
  <2>7. AskedBy(cs, i, ts, n)
    <3>1. Quiet(cals, t.item) /\ ts[n] = Done(t)
      BY <1>4, <1>6, <1>8, <2>1
    <3> QED BY <1>2, <1>4, <1>5, <1>8, <1>9, <2>5, <3>1, DoMine
  <2>8. \A m \in 1..Len(ts) : ts[m].item = i => TxnFine(ts[m])
    BY <1>8, <1>9, <2>1, <2>6 DEF ItemFine
  <2>9. CASE a = "delete"
    <3>1. ts[n].item = i /\ ts[n].mAction = "delete"
      BY <1>7, <1>8, <2>3, <2>9
    <3> QED BY <1>9, <1>10, <2>7, <2>8, <3>1, MineIsFine
  <2>10. CASE a = "add"
    <3>1. Safe(DoTransaction(n, t)[d], t.item)
      <4>1. d = t.mCalendar /\ t.mAction = "add" /\ ~cals[d].readOnly /\ Quiet(cals, t.item)
        BY <1>3, <1>4, <2>1, <2>3, <2>10
      <4> QED BY <1>4, <1>5, <1>7, <1>8, <1>9, <4>1, DoSafe
    <3>2. Safe(cs[d], i)
      BY <1>2, <1>4, <3>1
    <3> QED BY <1>9, <1>10, <2>7, <2>8, <3>2, MineIsFine
  <2>11. CASE a \in {"modify", "move"}
    <3>1. Safe(cals[c], i)
      BY <1>3, <2>1, <2>11 DEF Safe, Quiet, OpsOf, Shown
    <3>2. t.mAction # "delete"
      BY <2>3, <2>11
    <3>3. Safe(DoTransaction(n, t)[c], t.item)
      BY <1>4, <1>5, <1>7, <1>8, <1>9, <3>1, <3>2, DoSafe
    <3>4. Safe(cs[c], i)
      BY <1>2, <1>4, <3>3
    <3> QED BY <1>9, <1>10, <2>7, <2>8, <3>4, MineIsFine
  <2> QED BY <2>4, <2>9, <2>10, <2>11
<1>13. cals' = Calm(cs)
  BY <1>3 DEF Asks
<1> QED BY <1>2, <1>11, <1>12, <1>13 DEF LostInv

\* The transaction on top of a stack, when it goes the other way.
LEMMA SetFine ==
    ASSUME NEW ts, NEW us, NEW n \in 1..Len(ts), NEW i, ts[n].item = i, us[n].item = i, Len(us) = Len(ts),
           \A m \in 1..Len(ts) : m # n => us[m] = ts[m]
    PROVE  /\ \A j : j # i => TsStay(ts, us, j)
           /\ (\A m \in 1..Len(ts) : ts[m].item = i => TxnFine(ts[m])) /\ TxnFine(us[n]) =>
                \A m \in 1..Len(us) : us[m].item = i => TxnFine(us[m])
BY DEF TsStay

LEMMA UndoLost == ASSUME ManagerInv, LostInv, Undo PROVE LostInv'
<1>1. PICK n, t, cs, ts : n = Last(undoStack) /\ t = txns[n] /\ cs = UndoTransaction(n, t) /\ ts = txns'
  OBVIOUS
<1>2. CheckWritable(undoStack) /\ ts = [txns EXCEPT ![n] = Undone(t)] /\ Asks(t, cs)
  BY <1>1 DEF Undo
<1>3. n \in 1..Len(txns) /\ t.mAction = "modify" /\ t \in Txns /\ TxnOk(t)
  BY <1>1, <1>2, TopIs
<1>4. txns \in Seq(Txns) /\ TxnsOk(txns) /\ CalsOk(cals, txns, touched) /\ ThinOk(cals) /\ ~Threw(cals)
  BY OkIsThin DEF ManagerInv, TxnsOk
<1>5. PICK ut, i : ut = Undone(t) /\ i = t.item
  OBVIOUS
<1>6. ut \in Txns /\ TxnOk(ut) /\ ut.item = i /\ ut.mAction = t.mAction
  BY <1>3, <1>5, DoneOk
<1>7. /\ ts \in Seq(Txns) /\ Len(ts) = Len(txns) /\ ts[n] = ut
      /\ \A m \in 1..Len(txns) : m # n => ts[m] = txns[m]
  BY <1>2, <1>3, <1>4, <1>5, <1>6, ExceptSeq
<1>8. n \in 1..Len(ts) /\ n \in Nat /\ t.item = ts[n].item /\ i \in Items
  BY <1>3, <1>5, <1>6, <1>7 DEF Txns
<1>9. SameItems(txns, ts)
  BY <1>1, <1>3, <1>4, <1>5, <1>6, <1>7, SetTxn
<1>10. cs \in [Calendars -> Cals]
  <2>1. CalsOk(cals, ts, touched)
    BY <1>4, <1>7, <1>9, CalsStayOk
  <2>2. CalsOk(cs, ts, touched)
    BY <1>1, <1>3, <1>7, <1>8, <2>1, UndoOk
  <2> QED BY <2>2 DEF CalsOk
<1>11. ASSUME NEW j \in Items, j \notin overtaken', j # i PROVE ItemFine(Calm(cs), j, ts)
  <2>1. ItemFine(cals, j, txns)
    BY <1>2, <1>11, OvertakenIs DEF LostInv
  <2>2. Kept(cals, cs, j)
    BY <1>1, <1>3, <1>4, <1>5, <1>7, <1>8, <1>11, UndoOther
  <2>3. TsStay(txns, ts, j)
    BY <1>1, <1>3, <1>5, <1>6, <1>7, <1>11, SetFine
  <2> QED BY <1>10, <2>1, <2>2, <2>3, OtherIsFine
<1>12. ASSUME i \notin overtaken' PROVE ItemFine(Calm(cs), i, ts)
  <2>1. ItemFine(cals, i, txns) /\ Quiet(cals, i) /\ ~Stuck(cs, i)
    BY <1>2, <1>5, <1>8, <1>12, OvertakenIs, NotPending DEF LostInv
  <2>2. TxnFine(t)
    BY <1>1, <1>3, <1>5, <2>1 DEF ItemFine
  <2>3. TxnFine(ut)
    BY <1>3, <1>5, <2>2, DoneFine
  <2>4. \A m \in 1..Len(ts) : ts[m].item = i => TxnFine(ts[m])
    <3>1. txns[n].item = i /\ ts[n].item = i /\ TxnFine(ts[n])
      BY <1>1, <1>5, <1>6, <1>7, <2>3
    <3>2. \A m \in 1..Len(txns) : txns[m].item = i => TxnFine(txns[m])
      BY <2>1 DEF ItemFine
    <3> QED BY <1>3, <1>7, <3>1, <3>2, SetFine
  <2>5. AskedBy(cs, i, ts, n)
    <3>1. ts[n] = Undone(t) /\ Quiet(cals, t.item)
      BY <1>5, <1>7, <2>1
    <3> QED BY <1>1, <1>3, <1>4, <1>5, <1>7, <1>8, <2>2, <3>1, UndoMine
  <2>6. ~cals[t.mItem.cal].readOnly /\ ~cals[t.mOldItem.cal].readOnly
    BY <1>1, <1>2 DEF CheckWritable
  <2>7. CASE \E m \in 1..Len(txns) : txns[m].item = i /\ txns[m].mAction = "delete"
    <3>1. \E m \in 1..Len(ts) : ts[m].item = i /\ ts[m].mAction = "delete"
      BY <1>1, <1>3, <1>7, <2>7
    <3> QED BY <1>8, <1>10, <2>4, <2>5, <3>1, MineIsFine
  <2>8. CASE \E e \in Calendars : Safe(cals[e], i)
    <3>1. PICK e \in Calendars : Safe(cals[e], t.item)
      BY <1>5, <2>8
    <3>2. Quiet(cals, t.item) /\ ~Stuck(cs, t.item)
      BY <1>5, <2>1
    <3>3. \E e2 \in Calendars : Safe(cs[e2], t.item)
      BY <1>1, <1>3, <1>4, <1>7, <1>8, <2>2, <2>6, <3>1, <3>2, UndoSafe
    <3>4. \E e2 \in Calendars : Safe(cs[e2], i)
      BY <1>5, <3>3
    <3> QED BY <1>8, <1>10, <2>4, <2>5, <3>4, MineIsFine
  <2> QED BY <1>1, <1>3, <1>5, <2>1, <2>7, <2>8 DEF ItemFine, Survives
<1>13. cals' = Calm(cs)
  BY <1>2 DEF Asks
<1> QED BY <1>1, <1>11, <1>12, <1>13 DEF LostInv

LEMMA RedoLost == ASSUME ManagerInv, LostInv, Redo PROVE LostInv'
<1>1. PICK n, t, cs, ts : n = Last(redoStack) /\ t = txns[n] /\ cs = DoTransaction(n, t) /\ ts = txns'
  OBVIOUS
<1>2. CheckWritable(redoStack) /\ ts = [txns EXCEPT ![n] = Done(t)] /\ Asks(t, cs)
  BY <1>1 DEF Redo
<1>3. n \in 1..Len(txns) /\ t.mAction = "modify" /\ t \in Txns /\ TxnOk(t)
  BY <1>1, <1>2, TopIs
<1>4. txns \in Seq(Txns) /\ TxnsOk(txns) /\ CalsOk(cals, txns, touched) /\ ThinOk(cals)
  BY OkIsThin DEF ManagerInv, TxnsOk
<1>5. PICK dt, i : dt = Done(t) /\ i = t.item
  OBVIOUS
<1>6. dt \in Txns /\ TxnOk(dt) /\ dt.item = i /\ dt.mAction = t.mAction
  BY <1>3, <1>5, DoneOk
<1>7. /\ ts \in Seq(Txns) /\ Len(ts) = Len(txns) /\ ts[n] = dt
      /\ \A m \in 1..Len(txns) : m # n => ts[m] = txns[m]
  BY <1>2, <1>3, <1>4, <1>5, <1>6, ExceptSeq
<1>8. n \in 1..Len(ts) /\ n \in Nat /\ t.item = ts[n].item /\ i \in Items
  BY <1>3, <1>5, <1>6, <1>7 DEF Txns
<1>9. SameItems(txns, ts)
  BY <1>1, <1>3, <1>4, <1>5, <1>6, <1>7, SetTxn
<1>10. cs \in [Calendars -> Cals]
  <2>1. CalsOk(cals, ts, touched)
    BY <1>4, <1>7, <1>9, CalsStayOk
  <2>2. CalsOk(cs, ts, touched)
    BY <1>1, <1>3, <1>7, <1>8, <2>1, DoOk
  <2> QED BY <2>2 DEF CalsOk
<1>11. ASSUME NEW j \in Items, j \notin overtaken', j # i PROVE ItemFine(Calm(cs), j, ts)
  <2>1. ItemFine(cals, j, txns)
    BY <1>2, <1>11, OvertakenIs DEF LostInv
  <2>2. Kept(cals, cs, j)
    BY <1>1, <1>3, <1>4, <1>5, <1>7, <1>8, <1>11, DoOther
  <2>3. TsStay(txns, ts, j)
    BY <1>1, <1>3, <1>5, <1>6, <1>7, <1>11, SetFine
  <2> QED BY <1>10, <2>1, <2>2, <2>3, OtherIsFine
<1>12. ASSUME i \notin overtaken' PROVE ItemFine(Calm(cs), i, ts)
  <2>1. ItemFine(cals, i, txns) /\ Quiet(cals, i)
    BY <1>2, <1>5, <1>8, <1>12, OvertakenIs, NotPending DEF LostInv
  <2>2. TxnFine(t)
    BY <1>1, <1>3, <1>5, <2>1 DEF ItemFine
  <2>3. TxnFine(dt)
    BY <1>3, <1>5, <2>2, DoneFine
  <2>4. \A m \in 1..Len(ts) : ts[m].item = i => TxnFine(ts[m])
    <3>1. txns[n].item = i /\ ts[n].item = i /\ TxnFine(ts[n])
      BY <1>1, <1>5, <1>6, <1>7, <2>3
    <3>2. \A m \in 1..Len(txns) : txns[m].item = i => TxnFine(txns[m])
      BY <2>1 DEF ItemFine
    <3> QED BY <1>3, <1>7, <3>1, <3>2, SetFine
  <2>5. AskedBy(cs, i, ts, n)
    <3>1. ts[n] = Done(t) /\ Quiet(cals, t.item)
      BY <1>5, <1>7, <2>1
    <3> QED BY <1>1, <1>3, <1>4, <1>5, <1>7, <1>8, <2>2, <3>1, DoMine
  <2>7. CASE \E m \in 1..Len(txns) : txns[m].item = i /\ txns[m].mAction = "delete"
    <3>1. \E m \in 1..Len(ts) : ts[m].item = i /\ ts[m].mAction = "delete"
      BY <1>1, <1>3, <1>7, <2>7
    <3> QED BY <1>8, <1>10, <2>4, <2>5, <3>1, MineIsFine
  <2>8. CASE \E e \in Calendars : Safe(cals[e], i)
    <3>1. PICK e \in Calendars : Safe(cals[e], t.item)
      BY <1>5, <2>8
    <3>2. t.mAction # "delete"
      BY <1>3
    <3>3. Safe(DoTransaction(n, t)[e], t.item)
      BY <1>3, <1>4, <1>7, <1>8, <3>1, <3>2, DoSafe
    <3>4. Safe(cs[e], i)
      BY <1>1, <1>5, <3>3
    <3> QED BY <1>8, <1>10, <2>4, <2>5, <3>4, MineIsFine
  <2> QED BY <1>1, <1>3, <1>5, <2>1, <2>7, <2>8 DEF ItemFine, Survives
<1>13. cals' = Calm(cs)
  BY <1>2 DEF Asks
<1> QED BY <1>1, <1>11, <1>12, <1>13 DEF LostInv

LEMMA ToggleLost == ASSUME ManagerInv, LostInv, NEW c \in Calendars, Toggle(c) PROVE LostInv'
<1>1. PICK k, l, x : k = cals[c] /\ l = ~k.readOnly /\ x = [k EXCEPT !.readOnly = l]
  OBVIOUS
<1>2. cals \in [Calendars -> Cals] /\ k \in Cals /\ l \in BOOLEAN
  BY <1>1 DEF ManagerInv, CalsOk
<1>3. x \in Cals /\ x.id = k.id /\ x.mItems = k.mItems /\ x.queue = k.queue /\ x.mods = k.mods
  BY <1>1, <1>2 DEF Cals
<1>4. cals' = [cals EXCEPT ![c] = x] /\ txns' = txns /\ overtaken' = overtaken
  BY <1>1 DEF Toggle
<1>5. cals'[c] = x /\ \A e \in Calendars : e # c => cals'[e] = cals[e]
  BY <1>2, <1>4
<1>6. ASSUME NEW i \in Items PROVE Kept(cals, cals', i)
  <2>1. /\ Safe(k, i) => Safe(x, i)
        /\ \A ts, n : CalFine(k, i, ts, n) => CalFine(x, i, ts, n)
    BY <1>2, <1>3, FlagsAside
  <2> QED BY <1>1, <1>5, <2>1 DEF Kept
<1>7. ASSUME NEW i \in Items \ overtaken PROVE ItemFine(cals', i, txns)
  <2>1. ItemFine(cals, i, txns) /\ TsStay(txns, txns, i)
    BY DEF LostInv, TsStay
  <2>2. Kept(cals, cals', i)
    BY <1>6
  <2> QED BY <2>1, <2>2, ItemStays
<1> QED BY <1>4, <1>7 DEF LostInv

LEMMA ForeignLost ==
    ASSUME ManagerInv, LostInv, NEW c \in Calendars, NEW i \in Items, ForeignEdit(c, i)
    PROVE  LostInv'
<1>1. PICK op, cs : op = ForeignOp(c, i) /\ cs = AskAt(cals, c, op)
  OBVIOUS
<1>2. op \in Ops /\ OpOk(op, txns) /\ op.kind = "modify" /\ op.txn = 0 /\ cals' = Calm(cs)
  <2>1. op = ForeignOp(c, i)
    BY <1>1
  <2>2. /\ op \in Ops /\ OpOk(op, txns) /\ op.kind = "modify" /\ op.txn = 0
        /\ cals' = Calm([cals EXCEPT ![c] = Asked(@, op)])
    BY <2>1, ForeignIs
  <2> QED BY <1>1, <2>2 DEF AskAt
<1>3. Apt(op)
  BY <1>2 DEF Apt, OpOk
<1>4. ThinOk(cals)
  BY OkIsThin DEF ManagerInv
<1>5. cs \in [Calendars -> Cals]
  BY <1>1, <1>2, <1>4, AskAtIs
<1>6. txns' = txns /\ overtaken' = overtaken
  BY DEF ForeignEdit
<1>7. ASSUME NEW j \in Items \ overtaken PROVE ItemFine(Calm(cs), j, txns)
  <2>1. ItemFine(cals, j, txns) /\ TsStay(txns, txns, j)
    BY DEF LostInv, TsStay
  <2>2. Kept(cals, cs, j)
    BY <1>1, <1>2, <1>3, <1>4, AskOther
  <2> QED BY <1>5, <2>1, <2>2, OtherIsFine
<1> QED BY <1>2, <1>6, <1>7 DEF LostInv

\* What calendar c has not told yet.
LEMMA RestKept ==
    ASSUME NEW cs \in [Calendars -> Cals], NEW c \in Calendars, cs[c].mods # <<>>,
           NEW r, r = [cs EXCEPT ![c].mods = Tail(@)]
    PROVE  /\ \A i : Kept(cs, r, i)
           /\ ThinOk(cs) => ThinOk(r)
           /\ Head(cs[c].mods).op \in OpsOf(cs[c])
           /\ \A i \in Items : Safe(cs[c], i) => Safe(r[c], i)
<1>1. PICK k, x : k = cs[c] /\ x = [k EXCEPT !.mods = Tail(@)]
  OBVIOUS
<1>2. /\ r \in [Calendars -> Cals] /\ r[c] = x
      /\ \A e \in Calendars : e # c => r[e] = cs[e]
  BY <1>1, RestIs
<1>3. PICK l, u : l = k.mods /\ u = Tail(l)
  OBVIOUS
<1>4. k \in Cals /\ l # <<>> /\ l \in Seq(Answers) /\ u \in Seq(Answers) /\ Head(l) \in Answers
  BY <1>1, <1>3, OneLess
<1>5. x.mods = u /\ x.queue = k.queue /\ x.mItems = k.mItems /\ x.id = k.id
  BY <1>1, <1>3, <1>4, TailFields
<1>6. ToSet(l) = {Head(l)} \cup ToSet(u) /\ Head(l) \in ToSet(l)
  BY <1>3, <1>4, SetOfSeq
<1>7. OpsOf(x) \subseteq OpsOf(k) /\ Head(l).op \in OpsOf(k)
  BY <1>3, <1>5, <1>6 DEF OpsOf
<1>8. \A i : (Safe(k, i) <=> Safe(x, i))
  BY <1>5 DEF Safe
<1>9. \A i, ts, n : CalFine(k, i, ts, n) => CalFine(x, i, ts, n)
  BY <1>5, <1>7, <1>8 DEF CalFine, OpFine
<1>10. AddsExist(k) => AddsExist(x)
  BY <1>5 DEF AddsExist
<1>11. \A i : Kept(cs, r, i)
  <2> SUFFICES ASSUME NEW i, NEW e \in Calendars
               PROVE  /\ Safe(cs[e], i) => Safe(r[e], i)
                      /\ \A ts, n : CalFine(cs[e], i, ts, n) => CalFine(r[e], i, ts, n)
    BY DEF Kept
  <2>1. CASE e = c
    <3>1. cs[e] = k /\ r[e] = x
      BY <1>1, <1>2, <2>1
    <3>2. Safe(k, i) => Safe(x, i)
      BY <1>8
    <3>3. ASSUME NEW ts, NEW n, CalFine(k, i, ts, n) PROVE CalFine(x, i, ts, n)
      BY <1>9, <3>3
    <3> QED BY <3>1, <3>2, <3>3
  <2>2. CASE e # c
    <3>1. r[e] = cs[e]
      BY <1>2, <2>2
    <3> QED BY <3>1
  <2> QED BY <2>1, <2>2
<1>12. ThinOk(cs) => ThinOk(r)
  BY <1>1, <1>2, <1>5, <1>10 DEF ThinOk
<1> QED BY <1>1, <1>2, <1>3, <1>7, <1>8, <1>11, <1>12

\* The transaction of the answer is the one that the item belongs to; what it asked
\* goes on to be in order when the item as it is now replaces the one handed over.
LEMMA ChangedFine ==
    ASSUME NEW k, NEW i, NEW ts, NEW us, NEW n, CalFine(k, i, ts, n),
           us[n].mIsDoTransaction <=> ts[n].mIsDoTransaction,
           us[n].mCalendar = ts[n].mCalendar, us[n].mOldCalendar = ts[n].mOldCalendar,
           ts[n].mIsDoTransaction => us[n].mOldItem = ts[n].mOldItem
    PROVE  CalFine(k, i, us, n)
BY DEF CalFine, OpFine, Target

\* The calendars as they are told, when a move goes on or there is none.
LEMMA GoesAre ==
    ASSUME NEW s, NEW c, NEW m, m = Head(s.cals[c].mods), NEW t, t = Changed(s, c), NEW r, r = Rest(s, c)
    PROVE  Goes(s, c) = IF m.op.half /\ m.ok THEN AskAt(r, t.mOldItem.cal, GoesOn(t, m.op.txn)) ELSE r
<1>1. t = Updated(s.txns[m.op.txn], m)
  BY DEF Changed
<1> QED BY <1>1 DEF Goes, AskAt

LEMMA ToldParts ==
    ASSUME NEW c \in Calendars, NEW s, Telling(s, c), s.cals[c].mods # <<>>,
           NEW m, m = Head(s.cals[c].mods), NEW r, r = Rest(s, c)
    PROVE  /\ s.cals \in [Calendars -> Cals] /\ s.txns \in Seq(Txns) /\ ThinOk(s.cals) /\ ThinOk(r)
           /\ \A i : Kept(s.cals, r, i)
           /\ m.op \in OpsOf(s.cals[c]) /\ m \in Answers /\ AnswerOk(m, c, s.txns)
           /\ \A i \in Items : Safe(s.cals[c], i) => Safe(r[c], i)
<1>1. PICK cs, ts : cs = s.cals /\ ts = s.txns
  OBVIOUS
<1>2. /\ cs \in [Calendars -> Cals] /\ ts \in Seq(Txns) /\ r = [cs EXCEPT ![c].mods = Tail(@)]
      /\ \A e \in Calendars : cs[e] \in OkCals(e, ts)
  BY <1>1 DEF Telling, TellStates, Rest
<1>3. ThinOk(cs)
  BY <1>2, OkAddsExist DEF ThinOk
<1>4. m \in Answers /\ AnswerOk(m, c, s.txns)
  BY NextAnswer
<1>5. cs[c].mods # <<>> /\ m = Head(cs[c].mods)
  BY <1>1
<1>6. /\ \A i : Kept(cs, r, i)
      /\ ThinOk(cs) => ThinOk(r)
      /\ Head(cs[c].mods).op \in OpsOf(cs[c])
      /\ \A i \in Items : Safe(cs[c], i) => Safe(r[c], i)
  BY <1>2, <1>5, RestKept
<1> QED BY <1>1, <1>2, <1>3, <1>4, <1>5, <1>6

\* What is told of one item leaves the others as they were.
LEMMA GoesOther ==
    ASSUME NEW c \in Calendars, NEW s, Telling(s, c), s.cals[c].mods # <<>>,
           NEW m, m = Head(s.cals[c].mods), m.op.txn # 0, NEW i \in Items, m.op.item # i
    PROVE  Kept(s.cals, Goes(s, c), i)
<1>1. PICK r, t, n : r = Rest(s, c) /\ t = Changed(s, c) /\ n = m.op.txn
  OBVIOUS
<1>2. /\ ThinOk(r) /\ Kept(s.cals, r, i) /\ s.txns \in Seq(Txns)
      /\ m \in Answers /\ AnswerOk(m, c, s.txns)
  BY <1>1, ToldParts
<1>3. n \in 1..Len(s.txns) /\ s.txns[n] \in Txns /\ TxnOk(s.txns[n]) /\ m.op.item = s.txns[n].item
  BY SMTT(30), <1>1, NextAnswer
<1>4. t = Updated(s.txns[n], m)
  BY <1>1 DEF Changed
<1>5. t \in Txns /\ t.item = s.txns[n].item
  BY <1>2, <1>3, <1>4, UpdatedOk
<1>6. PICK op, d : op = GoesOn(t, n) /\ d = t.mOldItem.cal
  OBVIOUS
<1>7. op \in Ops /\ op.item = t.item /\ op.kind = "delete"
  <2>1. op \in Ops
    BY <1>2, <1>3, <1>5, <1>6, GoesOnOk
  <2> QED BY <1>6, <2>1 DEF GoesOn, Op
<1>8. Kept(r, AskAt(r, d, op), i)
  <2>1. Apt(op) /\ op.item # i
    BY <1>3, <1>5, <1>7 DEF Apt
  <2> QED BY <1>2, <2>1, AskOther
<1>9. Goes(s, c) = IF m.op.half /\ m.ok THEN AskAt(r, d, op) ELSE r
  BY SMTT(30), <1>1, <1>6, GoesAre
<1> QED BY <1>2, <1>8, <1>9, KeptTwice

\* A move that goes on deletes the old item where the new one is not.
LEMMA GoesMine ==
    ASSUME NEW c \in Calendars, NEW s, Telling(s, c), s.cals[c].mods # <<>>,
           NEW m, m = Head(s.cals[c].mods), NEW n, n = m.op.txn, n # 0, NEW i \in Items, m.op.item = i,
           NEW t, t = Changed(s, c), NEW us, us[n] = t,
           \A e \in Calendars : CalFine(s.cals[e], i, s.txns, n)
    PROVE  /\ \A e \in Calendars : CalFine(Goes(s, c)[e], i, us, n)
           /\ (\E e \in Calendars : Safe(s.cals[e], i)) => \E e \in Calendars : Safe(Goes(s, c)[e], i)
<1>1. PICK r, g, cs, ts, o : r = Rest(s, c) /\ g = Goes(s, c) /\ cs = s.cals /\ ts = s.txns /\ o = ts[n]
  OBVIOUS
<1>2. /\ ThinOk(r) /\ Kept(cs, r, i) /\ ts \in Seq(Txns) /\ ThinOk(cs)
      /\ m.op \in OpsOf(cs[c]) /\ m \in Answers /\ AnswerOk(m, c, ts)
      /\ Safe(cs[c], i) => Safe(r[c], i)
  BY <1>1, ToldParts
<1>3. n \in 1..Len(ts) /\ o \in Txns /\ TxnOk(o) /\ m.op.item = o.item
  <2>1. /\ n \in 1..Len(s.txns) /\ s.txns[n] \in Txns /\ TxnOk(s.txns[n])
        /\ m.op.item = s.txns[n].item
    BY SMTT(30), NextAnswer
  <2> QED BY <1>1, <2>1
<1>4. t = Updated(o, m)
  BY <1>1 DEF Changed
<1>5. /\ t \in Txns /\ t.item = o.item
      /\ t.mIsDoTransaction <=> o.mIsDoTransaction
      /\ t.mCalendar = o.mCalendar /\ t.mOldCalendar = o.mOldCalendar
      /\ o.mIsDoTransaction => t.mOldItem = o.mOldItem
  <2>1. o \in Txns /\ m \in Answers /\ AnswerOk(m, c, ts) /\ TxnOk(o) /\ t = Updated(o, m)
    BY <1>2, <1>3, <1>4
  <2> QED BY SMTT(30), <2>1, UpdatedOk
<1>6. OpFine(m.op, cs[c], i, ts, n) /\ cs[c].id = c
  BY <1>1, <1>2 DEF CalFine, ThinOk
<1>7. \A e \in Calendars : CalFine(r[e], i, ts, n)
  BY <1>1, <1>2 DEF Kept
<1>8. \A e \in Calendars : CalFine(r[e], i, us, n)
  <2> SUFFICES ASSUME NEW e \in Calendars PROVE CalFine(r[e], i, us, n)
    OBVIOUS
  <2>1. CalFine(r[e], i, ts, n)
    BY <1>7
  <2>2. /\ us[n].mIsDoTransaction <=> ts[n].mIsDoTransaction
        /\ us[n].mCalendar = ts[n].mCalendar /\ us[n].mOldCalendar = ts[n].mOldCalendar
        /\ ts[n].mIsDoTransaction => us[n].mOldItem = ts[n].mOldItem
    BY <1>1, <1>5
  <2> QED BY <2>1, <2>2, ChangedFine
<1>9. g = IF m.op.half /\ m.ok THEN AskAt(r, t.mOldItem.cal, GoesOn(t, n)) ELSE r
  BY <1>1, GoesAre
<1>10. CASE ~(m.op.half /\ m.ok)
  <2>1. g = r
    BY <1>9, <1>10
  <2>2. \A e \in Calendars : Safe(cs[e], i) => Safe(r[e], i)
    BY <1>2 DEF Kept
  <2> QED BY <1>1, <1>8, <2>1, <2>2
<1>11. CASE m.op.half /\ m.ok
  <2>1. PICK op, d : op = GoesOn(t, n) /\ d = t.mOldItem.cal
    OBVIOUS
  <2>2. op \in Ops /\ op.item = i /\ op.kind = "delete" /\ op.txn = n /\ ~op.half
    <3>1. op \in Ops
      <4>1. ts \in Seq(Txns) /\ n \in 1..Len(ts) /\ t \in Txns /\ t.item = ts[n].item
        BY <1>1, <1>2, <1>3, <1>5
      <4> QED BY <2>1, <4>1, GoesOnOk
    <3> QED BY <1>3, <1>5, <2>1, <3>1 DEF GoesOn, Op
  <2>3. Safe(cs[c], i) /\ o.mIsDoTransaction /\ c # d
    BY <1>1, <1>5, <1>6, <1>11, <2>1 DEF OpFine
  <2>4. g = AskAt(r, d, op)
    BY <1>9, <1>11, <2>1
  <2>5. /\ \A e \in Calendars : e # d => g[e] = r[e]
        /\ d \in Calendars => g[d] = Asked(r[d], op)
    BY <1>2, <2>2, <2>4, AskAtIs
  <2>6. Safe(g[c], i)
    BY <1>2, <2>3, <2>5
  <2>7. ASSUME d \in Calendars PROVE CalFine(g[d], i, us, n)
    <3>1. PICK k : k = r[d]
      OBVIOUS
    <3>2. k \in Cals /\ AddsExist(k) /\ k.id = d /\ CalFine(k, i, us, n)
      BY <1>2, <1>8, <2>7, <3>1 DEF ThinOk
    <3>3. \A q \in OpsOf(k) : q.item = i /\ q.txn # 0 => ~q.half
      BY <3>2, <2>1 DEF CalFine, OpFine
    <3>4. CalFine(Asked(k, op), i, us, n)
      BY <2>2, <3>2, <3>3, FineAsk
    <3> QED BY <2>5, <2>7, <3>1, <3>4
  <2> QED BY <1>1, <1>8, <2>5, <2>6, <2>7
<1> QED BY <1>10, <1>11

LEMMA ToldFine ==
    ASSUME NEW c \in Calendars, NEW s, Telling(s, c), s.cals[c].mods # <<>>, NEW u, u = Told(s, c),
           NEW i \in Items, ItemFine(s.cals, i, s.txns)
    PROVE  ItemFine(u.cals, i, u.txns)
<1>1. PICK cs, ts, m, n, r, t : /\ cs = s.cals /\ ts = s.txns /\ m = Head(cs[c].mods) /\ n = m.op.txn
                                /\ r = Rest(s, c) /\ t = Changed(s, c)
  OBVIOUS
<1>2. /\ ts \in Seq(Txns) /\ Kept(cs, r, i) /\ ThinOk(cs)
      /\ m.op \in OpsOf(cs[c]) /\ m \in Answers /\ AnswerOk(m, c, ts)
  BY <1>1, ToldParts
<1>3. s \in TellStates /\ m = Head(s.cals[c].mods)
  BY <1>1 DEF Telling
<1>4. CASE n = 0 \/ Threw(cs)
  <2>1. u.cals = r /\ u.txns = ts
    <3>1. CASE n = 0
      <4>1. u = [cals |-> Rest(s, c), txns |-> s.txns, failed |-> s.failed]
        BY <1>1, <1>3, <3>1, ToldIs
      <4> QED BY <1>1, <4>1
    <3>2. CASE n # 0 /\ Threw(cs)
      <4>1. u = [cals |-> Rest(s, c), txns |-> s.txns, failed |-> s.failed \cup {Changed(s, c).item}]
        BY <1>1, <1>3, <3>2, ToldIs
      <4> QED BY <1>1, <4>1
    <3> QED BY <1>4, <3>1, <3>2
  <2>2. TsStay(ts, ts, i) /\ ItemFine(cs, i, ts)
    BY <1>1 DEF TsStay
  <2> QED BY <1>2, <2>1, <2>2, ItemStays
<1>5. CASE n # 0 /\ ~Threw(cs)
  <2>1. n \in 1..Len(ts) /\ ts[n] \in Txns /\ TxnOk(ts[n]) /\ m.op.item = ts[n].item
    BY SMTT(30), <1>1, <1>5, NextAnswer
  <2>2. PICK o : o = ts[n]
    OBVIOUS
  <2>3. t = Updated(o, m)
    BY <1>1, <2>2 DEF Changed
  <2>4. /\ t \in Txns /\ t.item = o.item /\ t.mAction = o.mAction
        /\ t.mCalendar = o.mCalendar /\ t.mOldCalendar = o.mOldCalendar
        /\ t.mItem = IF m.ok /\ m.op.kind # "delete" /\ o.mIsDoTransaction THEN m.detail ELSE o.mItem
        /\ t.mOldItem = IF m.ok /\ m.op.kind # "delete" /\ ~o.mIsDoTransaction THEN m.detail
                        ELSE o.mOldItem
    <3>1. o \in Txns /\ m \in Answers /\ AnswerOk(m, c, ts) /\ TxnOk(o) /\ t = Updated(o, m)
      BY <1>2, <2>1, <2>2, <2>3
    <3> QED BY <3>1, UpdatedOk
  <2>5. PICK us, g : us = [ts EXCEPT ![n] = t] /\ g = Goes(s, c)
    OBVIOUS
  <2>6. u.cals = g /\ u.txns = us
    <3>1. ~Threw(s.cals) /\ m.op.txn # 0 /\ n = m.op.txn
      BY <1>1, <1>5
    <3>2. u = [cals |-> Goes(s, c), txns |-> [s.txns EXCEPT ![n] = Changed(s, c)],
               failed |-> IF m.ok /\ ~Threw(Goes(s, c)) THEN s.failed
                          ELSE s.failed \cup {Changed(s, c).item}]
      BY <1>3, <3>1, ToldIs
    <3> QED BY <1>1, <2>5, <3>2
  <2>7. us \in Seq(Txns) /\ Len(us) = Len(ts) /\ us[n] = t
        /\ \A j \in 1..Len(ts) : j # n => us[j] = ts[j]
    BY <1>2, <2>1, <2>4, <2>5, ExceptSeq
  <2>8. CASE m.op.item # i
    <3>1. Kept(cs, g, i)
      BY <1>1, <1>3, <1>5, <2>5, <2>8, GoesOther
    <3>2. ts[n].item # i /\ us[n].item # i
      BY <2>1, <2>2, <2>4, <2>7, <2>8
    <3>3. TsStay(ts, us, i)
      BY <2>7, <3>2 DEF TsStay
    <3>4. ItemFine(cs, i, ts)
      BY <1>1
    <3> QED BY <2>6, <3>1, <3>3, <3>4, ItemStays
  <2>9. CASE m.op.item = i
    <3>1. ItemFine(cs, i, ts) /\ o.item = i /\ t.item = i
      BY <1>1, <2>1, <2>2, <2>4, <2>9
    <3>2. PICK nn \in Nat : AskedBy(cs, i, ts, nn)
      BY <3>1 DEF ItemFine
    <3>3. OpFine(m.op, cs[c], i, ts, nn) /\ cs[c].id = c
      BY <1>2, <3>2 DEF AskedBy, CalFine, ThinOk
    <3>4. nn = n /\ (m.op.kind # "delete" => c = Target(o))
      BY <1>1, <1>5, <2>2, <2>9, <3>3 DEF OpFine
    <3>5. m.ok /\ m.op.kind # "delete" => m.detail.cal = c
      BY <1>2 DEF AnswerOk
    <3>6. TxnFine(o)
      BY <2>1, <2>2, <3>1 DEF ItemFine
    <3>7. TxnFine(t)
      BY <2>4, <3>4, <3>5, <3>6 DEF TxnFine, Target
    <3>8. \A j \in 1..Len(us) : us[j].item = i => TxnFine(us[j])
      BY <2>7, <3>1, <3>7 DEF ItemFine
    <3>9. /\ \A e \in Calendars : CalFine(g[e], i, us, n)
          /\ (\E e \in Calendars : Safe(cs[e], i)) => \E e \in Calendars : Safe(g[e], i)
      <4>1. \A e \in Calendars : CalFine(s.cals[e], i, s.txns, n)
        BY <1>1, <3>2, <3>4 DEF AskedBy
      <4>2. n # 0 /\ m.op.item = i /\ us[n] = t /\ n = m.op.txn
        BY <1>1, <1>5, <2>7, <2>9
      <4>3. /\ \A e \in Calendars : CalFine(Goes(s, c)[e], i, us, n)
            /\ (\E e \in Calendars : Safe(s.cals[e], i)) => \E e \in Calendars : Safe(Goes(s, c)[e], i)
        BY <1>1, <1>3, <4>1, <4>2, GoesMine
      <4> QED BY <1>1, <2>5, <4>3
    <3>10. Survives(g, i, us)
      <4>1. CASE \A j \in 1..Len(ts) : ts[j].item # i
        BY <2>1, <2>2, <3>1, <4>1
      <4>2. CASE \E j \in 1..Len(ts) : ts[j].item = i /\ ts[j].mAction = "delete"
        <5>1. PICK j \in 1..Len(ts) : ts[j].item = i /\ ts[j].mAction = "delete"
          BY <4>2
        <5>2. us[j].item = i /\ us[j].mAction = "delete"
          BY <2>2, <2>4, <2>7, <3>1, <5>1
        <5> QED BY <2>7, <5>2 DEF Survives
      <4>3. CASE \E e \in Calendars : Safe(cs[e], i)
        BY <3>9, <4>3 DEF Survives
      <4> QED BY <3>1, <4>1, <4>2, <4>3 DEF ItemFine, Survives
    <3>11. AskedBy(g, i, us, n)
      BY <2>1, <2>7, <3>1, <3>9 DEF AskedBy
    <3>12. n \in Nat
      BY <2>1
    <3> QED BY <2>6, <3>8, <3>10, <3>11, <3>12 DEF ItemFine
  <2> QED BY <2>8, <2>9
<1> QED BY <1>4, <1>5

\* The calendar that goes on with its queue.
LEMMA ProcessKept ==
    ASSUME NEW k \in Cals, AddsExist(k), NEW i \in Items, NEW y,
           y = ProcessQueue([k EXCEPT !.locked = FALSE])
    PROVE  /\ y \in Cals
           /\ Safe(k, i) => Safe(y, i)
           /\ \A ts, n : CalFine(k, i, ts, n) => CalFine(y, i, ts, n)
<1>1. PICK x, z : x = [k EXCEPT !.locked = FALSE] /\ z = [x EXCEPT !.threw = FALSE]
  OBVIOUS
<1>2. /\ x \in Cals /\ x.mItems = k.mItems /\ x.queue = k.queue /\ x.mods = k.mods /\ x.id = k.id
  BY <1>1, LockAside
<1>3. /\ z \in Cals /\ z.mItems = k.mItems /\ z.queue = k.queue /\ z.mods = k.mods /\ z.id = k.id
  BY <1>1, <1>2, ThrewAside
<1>4. AddsExist(z) /\ (Safe(k, i) => Safe(z, i))
      /\ \A ts, n : CalFine(k, i, ts, n) => CalFine(z, i, ts, n)
  BY <1>3, FlagsAside
<1>5. y = ProcessQueue(x)
  BY <1>1
<1>6. ASSUME Safe(k, i) PROVE Safe(y, i)
  <2>1. z \in SafeCals(i)
    BY <1>3, <1>4, <1>6 DEF SafeCals
  <2>2. Closed(SafeCals(i))
    BY SafeClosed
  <2>3. PICK G : G = SafeCals(i)
    OBVIOUS
  <2>4. ProcessQueue(x) \in G
    BY <1>1, <1>2, <2>1, <2>2, <2>3, ProcessStays
  <2> QED BY <1>5, <2>3, <2>4 DEF SafeCals
<1>7. ASSUME NEW ts, NEW n, CalFine(k, i, ts, n) PROVE CalFine(y, i, ts, n)
  <2>1. PICK G : G = FineCals(k.id, i, ts, n)
    OBVIOUS
  <2>2. z \in G
    BY <1>3, <1>4, <1>7, <2>1 DEF FineCals
  <2>3. Closed(G)
    BY <2>1, FineClosed
  <2>4. ProcessQueue(x) \in G
    BY <1>1, <1>2, <2>2, <2>3, ProcessStays
  <2> QED BY <1>5, <2>1, <2>4 DEF FineCals
<1>8. y \in Cals
  <2>1. Closed(Cals)
    BY StepFields, LockAside DEF Closed
  <2>2. PICK G : G = Cals
    OBVIOUS
  <2>3. ProcessQueue(x) \in G
    BY <1>1, <1>2, <1>3, <2>1, <2>2, ProcessStays
  <2> QED BY <1>5, <2>2, <2>3
<1> QED BY <1>6, <1>7, <1>8

LEMMA AnswerLost == ASSUME ManagerInv, LostInv, NEW c \in Calendars, Answer(c) PROVE LostInv'
<1>1. PICK s, cs, ts : s = Tells(c) /\ cs = s.cals /\ ts = s.txns
  OBVIOUS
<1>2. /\ cals[c].locked /\ cals' = Calm(After(c)) /\ txns' = ts /\ overtaken' = overtaken
      /\ Telling(s, c)
  BY <1>1, AnswerIs
<1>3. Telling(Asking, c) /\ Asking.cals = cals /\ Asking.txns = txns
  BY <1>2, AskingIs
<1>4. ASSUME NEW i \in Items \ overtaken PROVE ItemFine(cs, i, ts)
  <2>1. PICK G : G = {x \in TellStates : ItemFine(x.cals, i, x.txns)}
    OBVIOUS
  <2>2. Asking \in G
    BY <1>3, <2>1 DEF LostInv, Telling
  <2>3. ASSUME NEW x \in G, Telling(x, c), x.cals[c].mods # <<>> PROVE Told(x, c) \in G
    <3>1. PICK y : y = Told(x, c)
      OBVIOUS
    <3>2. Telling(y, c)
      BY <2>3, <3>1, ToldOk
    <3>3. ItemFine(y.cals, i, y.txns)
      BY <2>1, <2>3, <3>1, ToldFine
    <3> QED BY <2>1, <3>1, <3>2, <3>3 DEF Telling
  <2>4. Tells(c) \in G
    BY <1>3, <2>2, <2>3, TellsStays
  <2> QED BY <1>1, <2>1, <2>4
<1>5. /\ cs \in [Calendars -> Cals] /\ \A e \in Calendars : AddsExist(cs[e])
  BY <1>1, <1>2, OkAddsExist DEF Telling, TellStates
<1>6. PICK as : as = After(c)
  OBVIOUS
<1>7. ASSUME NEW i \in Items \ overtaken PROVE as \in [Calendars -> Cals] /\ Kept(cs, as, i)
  <2>1. CASE Threw(cs)
    <3>1. as = cs
      BY <1>1, <1>6, <2>1 DEF After
    <3> QED BY <1>5, <3>1 DEF Kept
  <2>2. CASE ~Threw(cs)
    <3>1. PICK k, y : k = cs[c] /\ y = ProcessQueue([k EXCEPT !.locked = FALSE])
      OBVIOUS
    <3>2. as = [cs EXCEPT ![c] = y]
      BY <1>1, <1>6, <2>2, <3>1 DEF After
    <3>3. k \in Cals /\ AddsExist(k)
      BY <1>5, <3>1
    <3>4. /\ y \in Cals
          /\ Safe(k, i) => Safe(y, i)
          /\ \A us, n : CalFine(k, i, us, n) => CalFine(y, i, us, n)
      BY <3>1, <3>3, ProcessKept
    <3>5. as \in [Calendars -> Cals] /\ as[c] = y /\ \A e \in Calendars : e # c => as[e] = cs[e]
      BY <1>5, <3>2, <3>4
    <3>6. ASSUME NEW e \in Calendars
          PROVE  /\ Safe(cs[e], i) => Safe(as[e], i)
                 /\ \A us, n : CalFine(cs[e], i, us, n) => CalFine(as[e], i, us, n)
      <4>1. CASE e = c
        <5>1. cs[e] = k /\ as[e] = y
          BY <3>1, <3>5, <4>1
        <5> QED BY <3>4, <5>1
      <4>2. CASE e # c
        <5>1. as[e] = cs[e]
          BY <3>5, <4>2
        <5> QED BY <5>1
      <4> QED BY <4>1, <4>2
    <3> QED BY <3>5, <3>6 DEF Kept
  <2> QED BY <2>1, <2>2
<1>8. ASSUME NEW i \in Items \ overtaken PROVE ItemFine(Calm(as), i, ts)
  <2>1. ItemFine(cs, i, ts) /\ as \in [Calendars -> Cals] /\ Kept(cs, as, i) /\ TsStay(ts, ts, i)
    BY <1>4, <1>7 DEF TsStay
  <2>2. ItemFine(as, i, ts) /\ Kept(as, Calm(as), i)
    BY <2>1, ItemStays, CalmKept
  <2> QED BY <2>1, <2>2, ItemStays
<1> QED BY <1>2, <1>6, <1>8 DEF LostInv

LEMMA InitLost == ASSUME Init PROVE LostInv
<1>1. txns = <<>> /\ Len(txns) = 0 /\ \A c \in Calendars : cals[c].queue = <<>> /\ cals[c].mods = <<>>
  BY EmptySeq DEF Init
<1>2. ASSUME NEW i \in Items PROVE ItemFine(cals, i, txns)
  <2>1. \A c \in Calendars : OpsOf(cals[c]) = {}
    BY <1>1 DEF OpsOf, ToSet
  <2>2. AskedBy(cals, i, txns, 0)
    BY <2>1 DEF AskedBy, CalFine
  <2>3. \A n \in 1..Len(txns) : FALSE
    BY <1>1
  <2> QED BY <2>2, <2>3 DEF ItemFine, Survives
<1> QED BY <1>2 DEF LostInv

LEMMA NextLost == ASSUME ManagerInv, LostInv, [Next]_vars PROVE LostInv'
<1>1. CASE \E a \in Actions, i \in Items, c, d \in Calendars : CreateAndCommitTxn(a, i, c, d)
  BY <1>1, CreateLost
<1>2. CASE Undo \/ Redo
  BY <1>2, UndoLost, RedoLost
<1>3. CASE \E c \in Calendars : Answer(c) \/ Toggle(c) \/ \E i \in Items : ForeignEdit(c, i)
  BY <1>3, AnswerLost, ToggleLost, ForeignLost
<1>4. CASE UNCHANGED vars
  <2>1. cals' = cals /\ txns' = txns /\ overtaken' = overtaken
    BY <1>4 DEF vars
  <2> QED BY <2>1 DEF LostInv
<1> QED BY <1>1, <1>2, <1>3, <1>4 DEF Next

LEMMA LostInvMeans == ASSUME ManagerInv, LostInv PROVE NeverLost
<1>1. ASSUME NEW i \in Items, Homes(i) = {}, ~Pending(i), i \notin overtaken,
             NEW ts, ts = {t \in ToSet(txns) : t.item = i}
      PROVE  ts = {} \/ \E t \in ts : t.mAction = "delete"
  <2>1. ItemFine(cals, i, txns) /\ Quiet(cals, i)
    BY <1>1, NotPending DEF LostInv
  <2>2. ToSet(txns) = {txns[n] : n \in 1..Len(txns)}
    BY LenProperties DEF ManagerInv, TxnsOk, ToSet
  <2>3. ASSUME NEW c \in Calendars, Safe(cals[c], i) PROVE FALSE
    <3>1. Exists(Shown(c, i))
      BY <2>1, <2>3 DEF Safe, Quiet, OpsOf, Shown
    <3>2. Shown(c, i) # NoItem
      BY <3>1, NoItemIs
    <3> QED BY <1>1, <3>2 DEF Homes
  <2>4. CASE \A n \in 1..Len(txns) : txns[n].item # i
    BY <1>1, <2>2, <2>4
  <2>5. CASE \E n \in 1..Len(txns) : txns[n].item = i /\ txns[n].mAction = "delete"
    BY <1>1, <2>2, <2>5
  <2> QED BY <2>1, <2>3, <2>4, <2>5 DEF ItemFine, Survives
<1> QED BY <1>1 DEF NeverLost

\* calTransactionManager.js: whatever a call that throws or fails leaves undone, and in
\* whatever order the answers come, a user who waits for the answer before he does the
\* next thing with an item does not lose it, in a move, its undo or its redo: when
\* everything has been answered, an item that no transaction deletes is in a calendar.
THEOREM NoItemIsLost == Spec => []NeverLost
<1>1. Init => LostInv
  BY InitLost
<1>2. ManagerInv /\ LostInv /\ [Next]_vars => LostInv'
  BY NextLost
<1>3. ManagerInv /\ LostInv => NeverLost
  BY LostInvMeans
<1> QED BY <1>1, <1>2, <1>3, SpecKeeps, PTL DEF Spec
=============================================================================
