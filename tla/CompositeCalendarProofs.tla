----------------------- MODULE CompositeCalendarProofs -----------------------
(***************************************************************************)
(* The composite calendar and the view over it, proved for any number of    *)
(* calendars, items, queries, reloads and faults: queries count the answers *)
(* of their calendars, clients get their share, and the view shows the      *)
(* calendars as they are.                                                    *)
(***************************************************************************)
EXTENDS CompositeCalendar, FiniteSetTheorems, TLAPS

Names == Calendars \cup {Composite}

JobRec == [no : Nat \ {0}, cal : Names, forView : BOOLEAN, max : Nat, need : Nat,
           completes : Nat, items : Nat, offered : Nat, cancelled : BOOLEAN, threw : BOOLEAN]
AskRec == [job : Nat, cal : Calendars, wait : 0..2]

Share(j) == j.items = IF j.max = 0 \/ j.offered < j.max THEN j.offered ELSE j.max

\* The calendars that the query number n is still to hear of.
AskedBy(n, as) == {a.cal : a \in {b \in as : b.job = n}}

\* Queries and what they have asked fit together: the numbers are different, a calendar is
\* asked once by a query, and a query that goes on hears of no more calendars than it
\* needs, so that none is left when it ends.
Consistent(js, as) ==
    /\ IsFiniteSet(js) /\ js \subseteq JobRec /\ as \subseteq AskRec
    /\ \A j, k \in js : j.no = k.no => j = k
    /\ \A a \in as : \E j \in js : j.no = a.job /\ (j.cal # Composite => a.cal = j.cal)
    /\ \A a, b \in as : a.job = b.job /\ a.cal = b.cal => a = b
    /\ \A j \in js : j.completes <= j.need
    /\ \A j \in js : ~j.cancelled =>
          j.completes + Cardinality(AskedBy(j.no, as)) <= j.need /\ Share(j)

WritersOf(js) == {j \in js : j.forView /\ ~j.cancelled}

\* What the view keeps as pending are its queries, and those that can be cancelled
\* are all pending.
PendingOk(js, pending) ==
    /\ pending \in [Names -> Nat]
    /\ \A c \in Names : pending[c] # 0 =>
          \E j \in WritersOf(js) : j.no = pending[c] /\ j.cal = c
    /\ \A j \in WritersOf(js) : j.cal \in Handles \cup {Composite} => pending[j.cal] = j.no

\* What calendar c is still to tell the view.
Heard(c, js, as) == {a \in as : a.cal = c /\ \E j \in WritersOf(js) : j.no = a.job}

TypeInv ==
    /\ store \in [Items -> Versions] /\ view \in [Items -> Versions]
    /\ mCalendars \subseteq Calendars /\ disabled \subseteq Calendars
    /\ reloads \in [Calendars -> 0..2] /\ pendingLoads \subseteq Calendars
    /\ blurred \subseteq Calendars /\ lost \subseteq Calendars

QueryInv == Consistent(jobs, asks) /\ PendingOk(jobs, pendingJobs)

\* A load that will not be forwarded is on its way, and the view waits for an answer that
\* comes after it; calendars that are not shown have nothing to tell the view; and where
\* the view is behind a calendar, it waits for it and shows nothing that is gone.
ViewInv ==
    /\ \A c \in pendingLoads \ lost : c \in mCalendars /\ reloads[c] >= 1
    /\ \A c \in Calendars \ (lost \cup blurred) :
          IF c \in Enabled
          THEN c \in pendingLoads => \E a \in Heard(c, jobs, asks) : a.wait >= 1
          ELSE Heard(c, jobs, asks) = {}
    /\ \A i \in Items : Cal(i) \notin lost \cup blurred =>
          IF Cal(i) \in Enabled
          THEN \/ view[i] = store[i]
               \/ Heard(Cal(i), jobs, asks) # {} /\ (store[i] = 0 => view[i] = 0)
          ELSE view[i] = 0

CompositeInv == TypeInv /\ QueryInv /\ ViewInv

-----------------------------------------------------------------------------
(* Queries.                                                                  *)

LEMMA AskedIsFinite ==
    ASSUME NEW as \in SUBSET AskRec, NEW n
    PROVE  /\ AskedBy(n, as) \subseteq Calendars /\ IsFiniteSet(AskedBy(n, as))
           /\ Cardinality(AskedBy(n, as)) \in Nat
<1>1. AskedBy(n, as) \subseteq Calendars
  BY DEF AskedBy, AskRec
<1>2. IsFiniteSet(AskedBy(n, as))
  BY <1>1, FS_Subset, ConstantsAssumption
<1> QED BY <1>1, <1>2, FS_CardinalityType

\* The numbers of a finite set of queries leave one free.
LEMMA FreshIsFresh ==
    ASSUME IsFiniteSet(jobs)
    PROVE  Fresh \in Nat \ {0} /\ \A j \in jobs : j.no # Fresh
<1>1. Cardinality(jobs) \in Nat
  BY FS_CardinalityType
<1>2. PICK N : N = 1..Cardinality(jobs) + 1
  OBVIOUS
<1>3. IsFiniteSet(N) /\ Cardinality(N) = Cardinality(jobs) + 1
  BY <1>1, <1>2, FS_Interval
<1>4. ASSUME \A n \in N : \E j \in jobs : j.no = n
      PROVE  FALSE
  <2>1. PICK f : f = [n \in N |-> CHOOSE j \in jobs : j.no = n]
    OBVIOUS
  <2>2. \A n \in N : f[n] \in jobs /\ f[n].no = n
    BY <1>4, <2>1
  <2>3. f \in [N -> jobs]
    BY <2>1, <2>2
  <2>4. \E x, y \in N : x # y /\ f[x] = f[y]
    BY <1>1, <1>3, <2>3, FS_PigeonHole
  <2> QED BY <2>2, <2>4
<1>5. \E n \in 1..Cardinality(jobs) + 1 : \A j \in jobs : j.no # n
  BY <1>2, <1>4
<1>6. Fresh \in 1..Cardinality(jobs) + 1 /\ \A j \in jobs : j.no # Fresh
  BY <1>5 DEF Fresh
<1> QED BY <1>1, <1>6

\* A reload that is done lets the questions to its calendar move up.
Moved(c, as) == {IF a.cal = c /\ a.wait > 0 THEN [a EXCEPT !.wait = @ - 1] ELSE a : a \in as}

\* The same question.
Alike(a, b) == a.job = b.job /\ a.cal = b.cal
AlikeBut(c, a, b) == Alike(a, b) /\ (a.cal # c => a = b)

LEMMA MovedUp ==
    ASSUME NEW js, NEW as, NEW c, Consistent(js, as)
    PROVE  /\ Consistent(js, Moved(c, as))
           /\ \A a \in as : \E b \in Moved(c, as) : AlikeBut(c, a, b)
           /\ \A b \in Moved(c, as) : \E a \in as : Alike(b, a)
<1>1. PICK bs : bs = Moved(c, as)
  OBVIOUS
<1>2. as \subseteq AskRec
  BY DEF Consistent
<1>3. ASSUME NEW a \in as
      PROVE  LET b == IF a.cal = c /\ a.wait > 0 THEN [a EXCEPT !.wait = @ - 1] ELSE a
             IN  b \in AskRec /\ b.job = a.job /\ b.cal = a.cal /\ (a.cal # c => b = a)
  <2>1. a \in AskRec
    BY <1>2
  <2>2. CASE a.cal = c /\ a.wait > 0
    <3>1. PICK b : b = [a EXCEPT !.wait = @ - 1]
      OBVIOUS
    <3>2. a.wait - 1 \in 0..2
      BY <2>1, <2>2 DEF AskRec
    <3>3. b \in AskRec /\ b.job = a.job /\ b.cal = a.cal
      BY <2>1, <3>1, <3>2 DEF AskRec
    <3> QED BY <2>2, <3>1, <3>3
  <2> QED BY <2>1, <2>2
<1>4. bs \subseteq AskRec
  BY <1>1, <1>3 DEF Moved
<1>5. \A a \in as : \E b \in bs : b.job = a.job /\ b.cal = a.cal /\ (a.cal # c => b = a)
  BY <1>1, <1>3 DEF Moved
<1>6. \A b \in bs : \E a \in as :
          /\ b = IF a.cal = c /\ a.wait > 0 THEN [a EXCEPT !.wait = @ - 1] ELSE a
          /\ b.job = a.job /\ b.cal = a.cal
  BY <1>1, <1>3 DEF Moved
<1>10. \A b \in bs : \E a \in as : b.job = a.job /\ b.cal = a.cal
  BY <1>6
<1>7. ASSUME NEW a \in bs, NEW b \in bs, a.job = b.job, a.cal = b.cal
      PROVE  a = b
  <2>1. PICK x \in as : /\ a = IF x.cal = c /\ x.wait > 0 THEN [x EXCEPT !.wait = @ - 1] ELSE x
                        /\ a.job = x.job /\ a.cal = x.cal
    BY <1>6
  <2>2. PICK y \in as : /\ b = IF y.cal = c /\ y.wait > 0 THEN [y EXCEPT !.wait = @ - 1] ELSE y
                        /\ b.job = y.job /\ b.cal = y.cal
    BY <1>6
  <2>3. x = y
    BY <1>7, <2>1, <2>2 DEF Consistent
  <2> QED BY <2>1, <2>2, <2>3
<1>8. ASSUME NEW n
      PROVE  AskedBy(n, bs) = AskedBy(n, as)
  <2>1. AskedBy(n, bs) \subseteq AskedBy(n, as)
    BY <1>10 DEF AskedBy
  <2>2. AskedBy(n, as) \subseteq AskedBy(n, bs)
    BY <1>5 DEF AskedBy
  <2> QED BY <2>1, <2>2
<1>9. Consistent(js, bs)
  <2>1. \A a \in bs : \E j \in js : j.no = a.job /\ (j.cal # Composite => a.cal = j.cal)
    <3>1. \A a \in as : \E j \in js : j.no = a.job /\ (j.cal # Composite => a.cal = j.cal)
      BY DEF Consistent
    <3>2. ASSUME NEW b \in bs
          PROVE  \E j \in js : j.no = b.job /\ (j.cal # Composite => b.cal = j.cal)
      <4>1. PICK a \in as : b.job = a.job /\ b.cal = a.cal
        BY <1>10
      <4> QED BY <3>1, <4>1
    <3> QED BY <3>2
  <2> QED BY <1>4, <1>7, <1>8, <2>1 DEF Consistent
<1> QED BY <1>1, <1>5, <1>9, <1>10 DEF Alike, AlikeBut

Spared(ns) == {j \in WritersOf(jobs) : j.no \notin ns}

LEMMA AfterCancel ==
    ASSUME NEW ns, NEW as, Consistent(jobs, as)
    PROVE  /\ Consistent(Cancelled(ns, as), Stopped(ns, as))
           /\ WritersOf(Cancelled(ns, as)) = Spared(ns)
           /\ \A k \in Cancelled(ns, as) : \E j \in jobs : j.no = k.no
<1>1. PICK js, bs : js = Cancelled(ns, as) /\ bs = Stopped(ns, as)
  OBVIOUS
<1>2. bs \subseteq as /\ \A a \in as : a.job \notin ns => a \in bs
  BY <1>1 DEF Stopped
<1>3. \A k \in js : \E j \in jobs : k = IF j.no \in ns THEN [j EXCEPT !.cancelled = TRUE] ELSE j
  BY <1>1 DEF Cancelled
<1>4. \A j \in jobs : j.no \notin ns \/ (\E a \in bs : a.job = j.no) =>
          (IF j.no \in ns THEN [j EXCEPT !.cancelled = TRUE] ELSE j) \in js
  BY <1>1 DEF Cancelled
<1>5. jobs \subseteq JobRec
  BY DEF Consistent
<1>6. ASSUME NEW k \in js
      PROVE  /\ k \in JobRec
             /\ \E j \in jobs : /\ k.no = j.no /\ k.cal = j.cal /\ k.need = j.need
                                /\ k.completes = j.completes
                                /\ k.no \notin ns => k = j
                                /\ k.no \in ns => k = [j EXCEPT !.cancelled = TRUE]
                                /\ k.no \in ns => k.cancelled
  BY <1>3, <1>5 DEF JobRec
<1>7. IsFiniteSet(js)
  <2>1. PICK f : f = [j \in jobs |-> IF j.no \in ns THEN [j EXCEPT !.cancelled = TRUE] ELSE j]
    OBVIOUS
  <2>2. PICK D : D = {k \in jobs : k.no \notin ns \/ \E a \in bs : a.job = k.no}
    OBVIOUS
  <2>3. IsFiniteSet(D)
    BY <2>2, FS_Subset DEF Consistent
  <2>4. PICK g : g = [j \in D |-> f[j]]
    OBVIOUS
  <2>5. js = {f[j] : j \in D}
    BY <1>1, <2>1, <2>2 DEF Cancelled
  <2>6. g \in Surjection(D, js)
    BY <2>4, <2>5 DEF Surjection
  <2> QED BY <2>3, <2>6, FS_Surjection
<1>8. \A n : n \notin ns => AskedBy(n, bs) = AskedBy(n, as)
  BY <1>2 DEF AskedBy
<1>9. ASSUME NEW k \in js, NEW l \in js, k.no = l.no
      PROVE  k = l
  <2>1. PICK x \in jobs : /\ k.no = x.no
                          /\ k.no \notin ns => k = x
                          /\ k.no \in ns => k = [x EXCEPT !.cancelled = TRUE]
    BY <1>6
  <2>2. PICK y \in jobs : /\ l.no = y.no
                          /\ l.no \notin ns => l = y
                          /\ l.no \in ns => l = [y EXCEPT !.cancelled = TRUE]
    BY <1>6
  <2>3. \A u, v \in jobs : u.no = v.no => u = v
    BY DEF Consistent
  <2>4. x = y
    BY <1>9, <2>1, <2>2, <2>3
  <2>5. CASE k.no \in ns
    BY <1>9, <2>1, <2>2, <2>4, <2>5
  <2>6. CASE k.no \notin ns
    BY <1>9, <2>1, <2>2, <2>4, <2>6
  <2> QED BY <2>5, <2>6
<1>10. ASSUME NEW a \in bs
       PROVE  \E j \in js : j.no = a.job /\ (j.cal # Composite => a.cal = j.cal)
  <2>1. PICK j \in jobs : j.no = a.job /\ (j.cal # Composite => a.cal = j.cal)
    BY <1>2 DEF Consistent
  <2>2. PICK k : k = IF j.no \in ns THEN [j EXCEPT !.cancelled = TRUE] ELSE j
    OBVIOUS
  <2>3. k \in js
    BY <1>4, <2>1, <2>2
  <2>4. k.no = j.no /\ k.cal = j.cal
    BY <1>5, <2>2 DEF JobRec
  <2> QED BY <2>1, <2>3, <2>4
<1>11. ASSUME NEW k \in js
       PROVE  /\ k.completes <= k.need
              /\ ~k.cancelled =>
                    k.completes + Cardinality(AskedBy(k.no, bs)) <= k.need /\ Share(k)
  <2>1. PICK j \in jobs : /\ k.no = j.no /\ k.need = j.need /\ k.completes = j.completes
                          /\ k.no \notin ns => k = j
                          /\ k.no \in ns => k.cancelled
    BY <1>6
  <2>2. j.completes <= j.need
    BY DEF Consistent
  <2>3. CASE k.no \in ns
    BY <2>1, <2>2, <2>3
  <2>4. CASE k.no \notin ns
    <3>1. k = j /\ AskedBy(k.no, bs) = AskedBy(j.no, as)
      BY <1>8, <2>1, <2>4
    <3> QED BY <2>2, <3>1 DEF Consistent
  <2> QED BY <2>3, <2>4
<1>12. Consistent(js, bs)
  BY <1>2, <1>6, <1>7, <1>9, <1>10, <1>11 DEF Consistent
<1>13. WritersOf(js) = {j \in WritersOf(jobs) : j.no \notin ns}
  <2>1. WritersOf(js) \subseteq {j \in WritersOf(jobs) : j.no \notin ns}
    BY <1>6 DEF WritersOf
  <2>2. {j \in WritersOf(jobs) : j.no \notin ns} \subseteq WritersOf(js)
    BY <1>4 DEF WritersOf
  <2> QED BY <2>1, <2>2
<1> QED BY <1>1, <1>6, <1>12, <1>13 DEF Spared

\* A query with a number of its own asks the calendars cs.
IsNew(j, n, c, need) ==
    /\ j \in JobRec /\ j.no = n /\ j.cal = c /\ j.need = need
    /\ ~j.cancelled /\ j.completes = 0 /\ Share(j)
Unused(n, js) == \A k \in js : k.no # n
Questions(n, cs, R) == {[job |-> n, cal |-> c, wait |-> R[c]] : c \in cs}

LEMMA NewQuery ==
    ASSUME NEW js, NEW as, Consistent(js, as),
           NEW n, NEW x, NEW need, NEW j, IsNew(j, n, x, need), Unused(n, js),
           NEW cs \in SUBSET Calendars, Cardinality(cs) <= need,
           x # Composite => cs \subseteq {x},
           NEW R \in [Calendars -> 0..2], NEW news, news = Questions(n, cs, R)
    PROVE  Consistent(js \cup {j}, as \cup news)
<1>0. /\ j \in JobRec /\ j.no = n /\ j.cal = x /\ j.need = need /\ ~j.cancelled
      /\ j.completes = 0 /\ Share(j) /\ \A k \in js : k.no # j.no
      /\ Cardinality(cs) <= j.need /\ (j.cal # Composite => cs \subseteq {j.cal})
      /\ news = {[job |-> j.no, cal |-> c, wait |-> R[c]] : c \in cs}
  BY DEF IsNew, Questions, Unused
<1>1. PICK ks, bs : /\ ks = js \cup {j} /\ bs = as \cup news
                    /\ news = {[job |-> j.no, cal |-> c, wait |-> R[c]] : c \in cs}
  BY <1>0
<1>2. /\ IsFiniteSet(js) /\ js \subseteq JobRec /\ as \subseteq AskRec
      /\ \A k, l \in js : k.no = l.no => k = l
      /\ \A a \in as : \E k \in js : k.no = a.job /\ (k.cal # Composite => a.cal = k.cal)
      /\ \A a, b \in as : a.job = b.job /\ a.cal = b.cal => a = b
  BY DEF Consistent
<1>3. j.no \in Nat /\ j.need \in Nat
  BY <1>0 DEF JobRec
<1>4. /\ \A b \in news : b \in AskRec /\ b.job = j.no /\ b.cal \in cs
      /\ \A c \in cs : \E b \in news : b.cal = c /\ b.job = j.no
      /\ \A a, b \in news : a.cal = b.cal => a = b
  <2>1. ASSUME NEW c \in cs, NEW b, b = [job |-> j.no, cal |-> c, wait |-> R[c]]
        PROVE  b \in AskRec /\ b.job = j.no /\ b.cal = c
    <3>1. c \in Calendars /\ R[c] \in 0..2
      OBVIOUS
    <3> QED BY <1>3, <2>1, <3>1 DEF AskRec
  <2>2. \A b \in news : \E c \in cs : b = [job |-> j.no, cal |-> c, wait |-> R[c]]
    BY <1>1
  <2>3. \A c \in cs : \E b \in news : b = [job |-> j.no, cal |-> c, wait |-> R[c]]
    BY <1>1
  <2>4. \A b \in news : b \in AskRec /\ b.job = j.no /\ b.cal \in cs
    BY <2>1, <2>2
  <2>5. \A c \in cs : \E b \in news : b.cal = c /\ b.job = j.no
    BY <2>1, <2>3
  <2>6. ASSUME NEW a \in news, NEW b \in news, a.cal = b.cal
        PROVE  a = b
    <3>1. PICK c \in cs : a = [job |-> j.no, cal |-> c, wait |-> R[c]]
      BY <2>2
    <3>2. PICK d \in cs : b = [job |-> j.no, cal |-> d, wait |-> R[d]]
      BY <2>2
    <3>3. c = d
      BY <2>1, <2>6, <3>1, <3>2
    <3> QED BY <3>1, <3>2, <3>3
  <2> QED BY <2>4, <2>5, <2>6
<1>5. \A a \in as : a.job # j.no
  BY <1>0, <1>2
<1>6. IsFiniteSet(ks) /\ ks \subseteq JobRec /\ bs \subseteq AskRec
  BY <1>0, <1>1, <1>2, <1>4, FS_AddElement
<1>7. \A k, l \in ks : k.no = l.no => k = l
  BY <1>0, <1>1, <1>2
<1>8. \A a \in bs : \E k \in ks : k.no = a.job /\ (k.cal # Composite => a.cal = k.cal)
  <2>1. ASSUME NEW a \in as
        PROVE  \E k \in ks : k.no = a.job /\ (k.cal # Composite => a.cal = k.cal)
    BY <1>1, <1>2
  <2>2. ASSUME NEW a \in news
        PROVE  j \in ks /\ j.no = a.job /\ (j.cal # Composite => a.cal = j.cal)
    BY <1>0, <1>1, <1>4
  <2> QED BY <1>1, <2>1, <2>2
<1>9. \A a, b \in bs : a.job = b.job /\ a.cal = b.cal => a = b
  <2>1. ASSUME NEW a \in bs, NEW b \in bs, a.job = b.job, a.cal = b.cal
        PROVE  a = b
    <3>1. CASE a \in as /\ b \in as
      BY <1>2, <2>1, <3>1
    <3>2. CASE a \in news /\ b \in news
      BY <1>4, <2>1, <3>2
    <3>3. CASE (a \in as /\ b \in news) \/ (a \in news /\ b \in as)
      BY <1>4, <1>5, <2>1, <3>3
    <3> QED BY <1>1, <3>1, <3>2, <3>3
  <2> QED BY <2>1
<1>10. ASSUME NEW k \in ks
       PROVE  /\ k.completes <= k.need
              /\ ~k.cancelled =>
                    k.completes + Cardinality(AskedBy(k.no, bs)) <= k.need /\ Share(k)
  <2>1. CASE k \in js
    <3>1. \A b \in bs : b.job = k.no <=> b \in as /\ b.job = k.no
      BY <1>0, <1>1, <1>4, <2>1
    <3>2. AskedBy(k.no, bs) = AskedBy(k.no, as)
      <4>1. {b \in bs : b.job = k.no} = {b \in as : b.job = k.no}
        BY <1>1, <3>1
      <4> QED BY <4>1 DEF AskedBy
    <3> QED BY <2>1, <3>2 DEF Consistent
  <2>2. CASE k = j
    <3>1. AskedBy(k.no, bs) = cs
      <4>1. {b \in bs : b.job = k.no} = news
        BY <1>1, <1>4, <1>5, <2>2
      <4>2. {b.cal : b \in news} = cs
        BY <1>4
      <4> QED BY <4>1, <4>2 DEF AskedBy
    <3>2. Cardinality(cs) \in Nat
      BY FS_Subset, FS_CardinalityType, ConstantsAssumption
    <3> QED BY <1>0, <1>3, <2>2, <3>1, <3>2
  <2> QED BY <1>1, <2>1, <2>2
<1> QED BY <1>1, <1>6, <1>7, <1>8, <1>9, <1>10 DEF Consistent

\* The queries js when query j has become k by an answer, and is there no more if it was
\* the last.
Counted(js, j, k) == (js \ {j}) \cup (IF k.completes = k.need THEN {} ELSE {k})
NoneLeft(n, as) == \A a \in as : a.job # n

\* An answer to a query that was cancelled is ignored; the last one ends it.
LEMMA AnswerIgnored ==
    ASSUME NEW js, NEW as, Consistent(js, as), NEW a \in as, NEW j \in js, j.cancelled
    PROVE  Consistent({l \in js : l # j \/ \E b \in as \ {a} : b.job = j.no}, as \ {a})
<1>1. PICK ks, bs : /\ bs = as \ {a}
                    /\ ks = {l \in js : l # j \/ \E b \in bs : b.job = j.no}
  OBVIOUS
<1>2. /\ IsFiniteSet(js) /\ js \subseteq JobRec /\ as \subseteq AskRec
      /\ \A k, l \in js : k.no = l.no => k = l
      /\ \A b \in as : \E k \in js : k.no = b.job /\ (k.cal # Composite => b.cal = k.cal)
      /\ \A b, d \in as : b.job = d.job /\ b.cal = d.cal => b = d
  BY DEF Consistent
<1>3. IsFiniteSet(ks) /\ ks \subseteq JobRec /\ bs \subseteq AskRec
  BY <1>1, <1>2, FS_Subset
<1>4. \A b \in bs : \E k \in ks : k.no = b.job /\ (k.cal # Composite => b.cal = k.cal)
  BY <1>1, <1>2
<1>5. ASSUME NEW k \in ks
      PROVE  /\ k.completes <= k.need
             /\ ~k.cancelled =>
                   k.completes + Cardinality(AskedBy(k.no, bs)) <= k.need /\ Share(k)
  <2>1. k \in js /\ k \in JobRec
    BY <1>1, <1>2
  <2>2. AskedBy(k.no, bs) \subseteq AskedBy(k.no, as)
    BY <1>1 DEF AskedBy
  <2>3. /\ Cardinality(AskedBy(k.no, bs)) \in Nat /\ Cardinality(AskedBy(k.no, as)) \in Nat
        /\ IsFiniteSet(AskedBy(k.no, as))
    BY <1>2, <1>3, AskedIsFinite
  <2>4. Cardinality(AskedBy(k.no, bs)) <= Cardinality(AskedBy(k.no, as))
    BY <2>2, <2>3, FS_Subset
  <2>5. k.completes \in Nat /\ k.need \in Nat
    BY <2>1 DEF JobRec
  <2>6. /\ k.completes <= k.need
        /\ ~k.cancelled =>
              k.completes + Cardinality(AskedBy(k.no, as)) <= k.need /\ Share(k)
    BY <2>1 DEF Consistent
  <2>7. ASSUME ~k.cancelled
        PROVE  k.completes + Cardinality(AskedBy(k.no, bs)) <= k.need
    <3>1. k.completes + Cardinality(AskedBy(k.no, as)) <= k.need
      BY <2>6, <2>7
    <3>2. PICK x, y : x = Cardinality(AskedBy(k.no, as)) /\ y = Cardinality(AskedBy(k.no, bs))
      OBVIOUS
    <3>3. x \in Nat /\ y \in Nat /\ y <= x /\ k.completes + x <= k.need
      BY <2>3, <2>4, <3>1, <3>2
    <3>4. \A m, n \in Nat : m + x <= n => m + y <= n
      BY <3>3
    <3>5. k.completes + y <= k.need
      BY <2>5, <3>3, <3>4
    <3> QED BY <3>2, <3>5
  <2> QED BY <2>6, <2>7
<1> QED BY <1>1, <1>2, <1>3, <1>4, <1>5 DEF Consistent

\* An answer is counted; when it is the last, nothing asked is left.
LEMMA AnswerCounted ==
    ASSUME NEW js, NEW as, Consistent(js, as), NEW a \in as, NEW j \in js, j.no = a.job,
           ~j.cancelled,
           NEW k, k \in JobRec, k.no = j.no, k.cal = j.cal, k.need = j.need, ~k.cancelled,
           k.completes = j.completes + 1, Share(k)
    PROVE  /\ Consistent(Counted(js, j, k), as \ {a})
           /\ k.completes = k.need => NoneLeft(j.no, as \ {a})
<1>1. PICK ks, bs : /\ bs = as \ {a}
                    /\ ks = (js \ {j}) \cup (IF k.completes = k.need THEN {} ELSE {k})
  OBVIOUS
<1>2. /\ IsFiniteSet(js) /\ js \subseteq JobRec /\ as \subseteq AskRec
      /\ \A l, m \in js : l.no = m.no => l = m
      /\ \A b \in as : \E l \in js : l.no = b.job /\ (l.cal # Composite => b.cal = l.cal)
      /\ \A b, d \in as : b.job = d.job /\ b.cal = d.cal => b = d
      /\ j.completes + Cardinality(AskedBy(j.no, as)) <= j.need
  BY DEF Consistent
<1>3. j.completes \in Nat /\ j.need \in Nat
  BY <1>2 DEF JobRec
<1>4. /\ AskedBy(j.no, bs) = AskedBy(j.no, as) \ {a.cal}
      /\ a.cal \in AskedBy(j.no, as)
  <2>1. a \in {b \in as : b.job = j.no}
    OBVIOUS
  <2>2. {b \in bs : b.job = j.no} = {b \in as : b.job = j.no} \ {a}
    BY <1>1
  <2>3. \A b \in {d \in as : d.job = j.no} : b.cal = a.cal => b = a
    BY <1>2
  <2>4. PICK S : S = {b \in as : b.job = j.no}
    OBVIOUS
  <2>5. {b.cal : b \in S \ {a}} = {b.cal : b \in S} \ {a.cal}
    BY <2>3, <2>4
  <2> QED BY <2>1, <2>2, <2>4, <2>5 DEF AskedBy
<1>5. /\ IsFiniteSet(AskedBy(j.no, as)) /\ IsFiniteSet(AskedBy(j.no, bs))
      /\ Cardinality(AskedBy(j.no, as)) \in Nat /\ Cardinality(AskedBy(j.no, bs)) \in Nat
  BY <1>1, <1>2, AskedIsFinite
<1>6. Cardinality(AskedBy(j.no, bs)) = Cardinality(AskedBy(j.no, as)) - 1
  BY <1>4, <1>5, FS_RemoveElement
<1>7. k.completes <= k.need /\ k.completes + Cardinality(AskedBy(j.no, bs)) <= k.need
  <2>1. j.completes + Cardinality(AskedBy(j.no, as)) <= j.need
    BY <1>2
  <2>2. PICK x, y : x = Cardinality(AskedBy(j.no, as)) /\ y = Cardinality(AskedBy(j.no, bs))
    OBVIOUS
  <2>3. x \in Nat /\ y \in Nat /\ y = x - 1 /\ j.completes + x <= j.need
    BY <1>5, <1>6, <2>1, <2>2
  <2>4. j.completes + 1 <= j.need /\ j.completes + 1 + y <= j.need
    BY <1>3, <2>3
  <2> QED BY <2>2, <2>4
<1>8. ASSUME k.completes = k.need
      PROVE  \A b \in bs : b.job # j.no
  <2>1. Cardinality(AskedBy(j.no, bs)) = 0
    BY <1>3, <1>5, <1>7, <1>8
  <2>2. AskedBy(j.no, bs) = {}
    BY <1>5, <2>1, FS_EmptySet
  <2> QED BY <2>2 DEF AskedBy
<1>9. IsFiniteSet(ks) /\ ks \subseteq JobRec /\ bs \subseteq AskRec
  <2>1. IsFiniteSet(js \ {j})
    BY <1>2, FS_RemoveElement
  <2>2. IsFiniteSet((js \ {j}) \cup {k})
    BY <2>1, FS_AddElement
  <2>3. ks = js \ {j} \/ ks = (js \ {j}) \cup {k}
    BY <1>1
  <2> QED BY <1>1, <1>2, <2>1, <2>2, <2>3
<1>10. \A l, m \in ks : l.no = m.no => l = m
  BY <1>1, <1>2
<1>11. ASSUME NEW b \in bs
       PROVE  \E l \in ks : l.no = b.job /\ (l.cal # Composite => b.cal = l.cal)
  <2>1. PICK l \in js : l.no = b.job /\ (l.cal # Composite => b.cal = l.cal)
    BY <1>1, <1>2
  <2>2. CASE l = j
    BY <1>1, <1>8, <2>1, <2>2
  <2>3. CASE l # j
    BY <1>1, <2>1, <2>3
  <2> QED BY <2>2, <2>3
<1>12. ASSUME NEW l \in ks
       PROVE  /\ l.completes <= l.need
              /\ ~l.cancelled =>
                    l.completes + Cardinality(AskedBy(l.no, bs)) <= l.need /\ Share(l)
  <2>1. CASE l = k
    BY <1>7, <2>1
  <2>2. CASE l \in js \ {j}
    <3>1. l.no # j.no
      BY <1>2, <2>2
    <3>2. AskedBy(l.no, bs) = AskedBy(l.no, as)
      BY <1>1, <3>1 DEF AskedBy
    <3> QED BY <2>2, <3>2 DEF Consistent
  <2> QED BY <1>1, <2>1, <2>2
<1>13. \A b, d \in bs : b.job = d.job /\ b.cal = d.cal => b = d
  BY <1>1, <1>2
<1>14. Consistent(ks, bs)
  BY <1>9, <1>10, <1>11, <1>12, <1>13 DEF Consistent
<1> QED BY <1>1, <1>8, <1>14 DEF Counted, NoneLeft

-----------------------------------------------------------------------------
(* What the view still hears.                                                *)

LEMMA MovedHeard ==
    ASSUME NEW js, NEW as, NEW c, Consistent(js, as)
    PROVE  /\ \A d : d # c => Heard(d, js, Moved(c, as)) = Heard(d, js, as)
           /\ Heard(c, js, as) # {} <=> Heard(c, js, Moved(c, as)) # {}
<1>1. PICK bs : bs = Moved(c, as)
  OBVIOUS
<1>2. /\ \A a \in as : \E b \in bs : b.job = a.job /\ b.cal = a.cal
      /\ \A a \in as : a.cal # c => a \in bs
      /\ \A b \in bs : \E a \in as : b.job = a.job /\ b.cal = a.cal
  <2>3. \A a \in as : \E b \in Moved(c, as) : AlikeBut(c, a, b)
    BY MovedUp
  <2>4. \A b \in Moved(c, as) : \E a \in as : Alike(b, a)
    BY MovedUp
  <2>1. /\ \A a \in as : \E b \in bs : /\ b.job = a.job /\ b.cal = a.cal
                                       /\ a.cal # c => b = a
        /\ \A b \in bs : \E a \in as : b.job = a.job /\ b.cal = a.cal
    BY <1>1, <2>3, <2>4 DEF Alike, AlikeBut
  <2>2. \A a \in as : a.cal # c => a \in bs
    BY <2>1
  <2> QED BY <2>1, <2>2
<1>3. \A b \in bs : b.cal # c => b \in as
  <2>1. ASSUME NEW a \in as, NEW b, b.cal # c,
               b = IF a.cal = c /\ a.wait > 0 THEN [a EXCEPT !.wait = @ - 1] ELSE a
        PROVE  b \in as
    <3>1. a \in AskRec
      BY DEF Consistent
    <3>2. CASE a.cal = c /\ a.wait > 0
      BY <2>1, <3>1, <3>2 DEF AskRec
    <3> QED BY <2>1, <3>2
  <2> QED BY <1>1, <2>1 DEF Moved
<1>4. ASSUME NEW d, d # c
      PROVE  Heard(d, js, bs) = Heard(d, js, as)
  <2>1. \A a : a.cal = d => (a \in as <=> a \in bs)
    BY <1>2, <1>3, <1>4
  <2> QED BY <2>1 DEF Heard
<1>5. Heard(c, js, as) # {} <=> Heard(c, js, bs) # {}
  <2>1. ASSUME NEW a \in Heard(c, js, as)
        PROVE  Heard(c, js, bs) # {}
    <3>1. PICK b \in bs : b.job = a.job /\ b.cal = a.cal
      BY <1>2 DEF Heard
    <3>2. b \in Heard(c, js, bs)
      BY <3>1 DEF Heard
    <3> QED BY <3>2
  <2>2. ASSUME NEW b \in Heard(c, js, bs)
        PROVE  Heard(c, js, as) # {}
    <3>1. PICK a \in as : b.job = a.job /\ b.cal = a.cal
      BY <1>2 DEF Heard
    <3>2. a \in Heard(c, js, as)
      BY <3>1 DEF Heard
    <3> QED BY <3>2
  <2> QED BY <2>1, <2>2
<1> QED BY <1>1, <1>4, <1>5

LEMMA JobIsNew ==
    ASSUME NEW n \in Nat \ {0}, NEW c \in Names, NEW forView \in BOOLEAN, NEW max \in Nat,
           NEW need \in Nat, NEW threw \in BOOLEAN, NEW j,
           j = Job(n, c, forView, max, need, threw)
    PROVE  IsNew(j, n, c, need) /\ j.forView = forView
<1>1. j = [no |-> n, cal |-> c, forView |-> forView, max |-> max, need |-> need, completes |-> 0,
           items |-> 0, offered |-> 0, cancelled |-> FALSE, threw |-> threw]
  BY DEF Job
<1>2. j \in JobRec
  BY <1>1 DEF JobRec
<1>3. j.items = 0 /\ j.offered = 0 /\ j.max = max
  BY <1>1
<1>4. Share(j)
  BY <1>3 DEF Share
<1>5. /\ j.no = n /\ j.cal = c /\ j.need = need /\ ~j.cancelled /\ j.completes = 0
      /\ j.forView = forView
  BY <1>1
<1> QED BY <1>2, <1>4, <1>5 DEF IsNew

\* Cancelling some queries and making one more.
LEMMA CancelAndAsk ==
    ASSUME NEW ns, NEW as, Consistent(jobs, as),
           NEW n, NEW x, NEW need, NEW j, IsNew(j, n, x, need), Unused(n, jobs),
           NEW cs \in SUBSET Calendars, Cardinality(cs) <= need,
           x # Composite => cs \subseteq {x},
           NEW R \in [Calendars -> 0..2], NEW news, news = Questions(n, cs, R)
    PROVE  Consistent(Cancelled(ns, as) \cup {j}, Stopped(ns, as) \cup news)
<1>1. PICK ks, ds : ks = Cancelled(ns, as) /\ ds = Stopped(ns, as)
  OBVIOUS
<1>2. Consistent(ks, ds) /\ Unused(n, ks)
  BY <1>1, AfterCancel DEF Unused
<1>3. Consistent(ks \cup {j}, ds \cup news)
  BY <1>2, NewQuery
<1> QED BY <1>1, <1>3

LEMMA SparedAndNew ==
    ASSUME NEW ns, NEW as, Consistent(jobs, as), NEW j
    PROVE  WritersOf(Cancelled(ns, as) \cup {j}) = Spared(ns) \cup WritersOf({j})
<1>1. PICK ks : ks = Cancelled(ns, as)
  OBVIOUS
<1>2. WritersOf(ks) = Spared(ns)
  BY <1>1, AfterCancel
<1>3. WritersOf(ks \cup {j}) = WritersOf(ks) \cup WritersOf({j})
  BY DEF WritersOf
<1> QED BY <1>1, <1>2, <1>3

\* A refresh of the whole view leaves it waiting for every calendar that it shows, and
\* for no other but those it cannot stop.
LEMMA AfterRefreshAll ==
    ASSUME NEW as, NEW l, Consistent(jobs, as), PendingOk(jobs, pendingJobs), RefreshAll(as, l),
           mCalendars' \subseteq Calendars, reloads' \in [Calendars -> 0..2]
    PROVE  /\ Consistent(jobs', asks') /\ PendingOk(jobs', pendingJobs')
           /\ view' = [i \in Items |-> 0] /\ blurred' \subseteq Calendars
           /\ \A c \in Calendars \ blurred' :
                 IF c \in Enabled'
                 THEN \E a \in Heard(c, jobs', asks') : a.wait = reloads'[c]
                 ELSE Heard(c, jobs', asks') = {}
<1>1. PICK ns, cs, n, R : /\ ns = {pendingJobs[c] : c \in DOMAIN pendingJobs}
                          /\ cs = Enabled' /\ n = Fresh /\ R = reloads'
  OBVIOUS
<1>2. PICK bad : /\ bad \in Perhaps("throw", cs, l)
                 /\ view' = [i \in Items |-> 0]
                 /\ jobs' = Cancelled(ns, as) \cup
                       (IF cs = {} THEN {}
                        ELSE {Job(n, Composite, TRUE, 0, Cardinality(cs), bad # {})})
                 /\ asks' = Stopped(ns, as) \cup Asks(cs, bad)
                 /\ pendingJobs' = [c \in DOMAIN pendingJobs |->
                       IF c = Composite /\ cs # {} THEN n ELSE 0]
                 /\ blurred' = bad \cup Unstoppable
  BY <1>1 DEF RefreshAll
<1>3. PICK j, js, bs, news : /\ j = Job(n, Composite, TRUE, 0, Cardinality(cs), bad # {})
                             /\ js = jobs' /\ bs = asks'
                             /\ news = Questions(n, cs \ bad, R)
  OBVIOUS
<1>4. /\ cs \in SUBSET Calendars /\ bad \subseteq cs /\ R \in [Calendars -> 0..2]
      /\ cs \ bad \in SUBSET Calendars
  BY <1>1, <1>2 DEF Enabled, Perhaps
<1>5. /\ Cardinality(cs) \in Nat /\ Cardinality(cs \ bad) \in Nat
      /\ Cardinality(cs \ bad) <= Cardinality(cs)
  <2>1. IsFiniteSet(cs)
    BY <1>4, FS_Subset, ConstantsAssumption
  <2> QED BY <2>1, FS_Subset, FS_CardinalityType
<1>6. n \in Nat \ {0} /\ \A k \in jobs : k.no # n
  BY <1>1, FreshIsFresh DEF Consistent
<1>7. PICK threw \in BOOLEAN : threw = (bad # {})
  OBVIOUS
<1>8. /\ IsNew(j, n, Composite, Cardinality(cs)) /\ j.forView
      /\ j.no = n /\ j.cal = Composite /\ ~j.cancelled
  <2>1. PICK need \in Nat, forView \in BOOLEAN : need = Cardinality(cs) /\ forView
    BY <1>5
  <2>2. PICK max \in Nat : j = Job(n, Composite, forView, max, need, threw)
    BY <1>3, <1>7, <2>1
  <2>3. Composite \in Names
    BY DEF Names
  <2>6. n \in Nat \ {0}
    BY <1>6
  <2>4. IsNew(j, n, Composite, need)
    BY <2>2, <2>3, <2>6, JobIsNew
  <2>5. j.forView
    BY <1>3 DEF Job
  <2> QED BY <2>1, <2>4, <2>5 DEF IsNew
<1>9. /\ bs = Stopped(ns, as) \cup news
      /\ js = Cancelled(ns, as) \cup (IF cs = {} THEN {} ELSE {j})
  BY <1>1, <1>2, <1>3 DEF Asks, Questions
<1>10. /\ Consistent(js, bs)
       /\ WritersOf(js) = Spared(ns) \cup (IF cs = {} THEN {} ELSE {j})
  <2>1. CASE cs = {}
    <3>1. js = Cancelled(ns, as) /\ bs = Stopped(ns, as)
      BY <1>3, <1>9, <2>1 DEF Questions
    <3> QED BY <2>1, <3>1, AfterCancel
  <2>2. CASE cs # {}
    <3>1. js = Cancelled(ns, as) \cup {j}
      BY <1>9, <2>2
    <3>3. PICK ds, need : ds = cs \ bad /\ need = Cardinality(cs)
      OBVIOUS
    <3>6. Unused(n, jobs)
      BY <1>6 DEF Unused
    <3>4. /\ ds \in SUBSET Calendars /\ Cardinality(ds) <= need
          /\ IsNew(j, n, Composite, need) /\ news = Questions(n, ds, R)
      BY <1>3, <1>4, <1>5, <1>8, <3>3
    <3>2. Consistent(js, bs)
      <4>1. /\ R \in [Calendars -> 0..2] /\ ds \in SUBSET Calendars
            /\ Cardinality(ds) <= need
            /\ Composite # Composite => ds \subseteq {Composite}
        BY <1>4, <3>4
      <4>2. Consistent(Cancelled(ns, as) \cup {j}, Stopped(ns, as) \cup news)
        BY <3>4, <3>6, <4>1, CancelAndAsk
      <4> QED BY <1>9, <3>1, <4>2
    <3>7. WritersOf(js) = Spared(ns) \cup WritersOf({j})
      BY <3>1, SparedAndNew
    <3>5. WritersOf({j}) = {j}
      BY <1>8 DEF WritersOf
    <3> QED BY <2>2, <3>2, <3>5, <3>7
  <2> QED BY <2>1, <2>2
<1>11. DOMAIN pendingJobs = Names
  BY DEF PendingOk
<1>12. ASSUME NEW k \in WritersOf(jobs), k.no \notin ns
       PROVE  k.cal \in Unstoppable
  <2>1. k \in jobs /\ k.cal \in Names /\ k.forView /\ ~k.cancelled
    BY DEF WritersOf, Consistent, JobRec
  <2>2. k.cal \notin Handles \cup {Composite}
    BY <1>1, <1>11, <1>12, <2>1 DEF PendingOk
  <2> QED BY <2>1, <2>2 DEF Unstoppable, Writers
<1>13. PendingOk(js, pendingJobs')
  <2>1. pendingJobs' \in [Names -> Nat]
    BY <1>2, <1>6, <1>11
  <2>2. ASSUME NEW c \in Names, pendingJobs'[c] # 0
        PROVE  \E k \in WritersOf(js) : k.no = pendingJobs'[c] /\ k.cal = c
    <3>1. c = Composite /\ cs # {} /\ pendingJobs'[c] = n
      BY <1>2, <1>11, <2>2
    <3> QED BY <1>8, <1>10, <3>1
  <2>3. ASSUME NEW k \in WritersOf(js), k.cal \in Handles \cup {Composite}
        PROVE  pendingJobs'[k.cal] = k.no
    <3>1. CASE k = j /\ cs # {}
      BY <1>2, <1>8, <1>11, <3>1 DEF Names
    <3>2. CASE k \in WritersOf(jobs) /\ k.no \notin ns
      <4>1. k.cal \notin Handles \cup {Composite}
        BY <1>12, <3>2 DEF Unstoppable, Writers
      <4> QED BY <2>3, <4>1
    <3> QED BY <1>10, <3>1, <3>2 DEF Spared
  <2> QED BY <2>1, <2>2, <2>3 DEF PendingOk
<1>14. Unstoppable \subseteq Calendars
  BY DEF Unstoppable, Writers, Consistent, JobRec, Names
<1>15. ASSUME NEW c \in Calendars \ blurred', c \in cs
       PROVE  \E a \in Heard(c, js, bs) : a.wait = R[c]
  <2>1. PICK a : a = [job |-> n, cal |-> c, wait |-> R[c]]
    OBVIOUS
  <2>2. a \in bs
    BY <1>2, <1>3, <1>9, <1>15, <2>1 DEF Questions
  <2>3. j \in WritersOf(js)
    BY <1>10, <1>15
  <2>4. a \in Heard(c, js, bs)
    BY <1>8, <2>1, <2>2, <2>3 DEF Heard
  <2> QED BY <2>1, <2>4
<1>16. ASSUME NEW c \in Calendars \ blurred', c \notin cs
       PROVE  Heard(c, js, bs) = {}
  <2>1. SUFFICES ASSUME NEW a \in bs, a.cal = c, NEW k \in WritersOf(js), k.no = a.job
                 PROVE  FALSE
    BY DEF Heard
  <2>2. \A b \in news : b.cal \in cs /\ b.job = n
    BY <1>3 DEF Questions
  <2>3. a \in as
    BY <1>9, <1>16, <2>1, <2>2 DEF Stopped
  <2>4. PICK m \in jobs : m.no = a.job /\ (m.cal # Composite => a.cal = m.cal)
    BY <2>3 DEF Consistent
  <2>5. k.no # n
    BY <1>6, <2>1, <2>4
  <2>6. k \in WritersOf(jobs) /\ k.no \notin ns
    BY <1>8, <1>10, <2>1, <2>5 DEF Spared
  <2>7. k = m
    BY <2>1, <2>4, <2>6 DEF WritersOf, Consistent
  <2>8. k.cal \in Unstoppable /\ k.cal # Composite
    BY <1>12, <2>6 DEF Unstoppable, Writers
  <2> QED BY <1>2, <1>16, <2>1, <2>4, <2>7, <2>8
<1>17. ASSUME NEW c \in Calendars \ blurred'
       PROVE  IF c \in Enabled'
              THEN \E a \in Heard(c, jobs', asks') : a.wait = reloads'[c]
              ELSE Heard(c, jobs', asks') = {}
  BY <1>1, <1>3, <1>15, <1>16
<1>18. blurred' \subseteq Calendars
  BY <1>2, <1>4, <1>14
<1> QED BY <1>2, <1>3, <1>10, <1>13, <1>17, <1>18

\* A question belongs to one query, and one to a calendar that is asked alone is for it.
LEMMA OneQuery ==
    ASSUME NEW js, NEW as, Consistent(js, as), NEW a \in as, NEW k \in js, k.no = a.job
    PROVE  k.cal # Composite => a.cal = k.cal
<1>1. PICK m \in js : m.no = a.job /\ (m.cal # Composite => a.cal = m.cal)
  BY DEF Consistent
<1>2. m = k
  BY <1>1 DEF Consistent
<1> QED BY <1>1, <1>2

\* A refresh of one calendar leaves the view waiting for it, and as it was with the others.
LEMMA AfterRefreshOne ==
    ASSUME NEW c \in Calendars, QueryInv, RefreshOne(c), reloads' \in [Calendars -> 0..2]
    PROVE  /\ QueryInv' /\ UNCHANGED <<view, blurred>>
           /\ Heard(c, jobs', asks') # {}
           /\ \A d \in Calendars \ {c} : Heard(d, jobs', asks') = Heard(d, jobs, asks)
<1>1. PICK ns, n, R, j, js, bs, news :
         /\ ns = {pendingJobs[c]} \ {0} /\ n = Fresh /\ R = reloads'
         /\ j = Job(n, c, TRUE, 0, 1, FALSE) /\ js = jobs' /\ bs = asks'
         /\ news = Questions(n, {c}, R)
  OBVIOUS
<1>2. Consistent(jobs, asks) /\ PendingOk(jobs, pendingJobs)
  BY DEF QueryInv
<1>3. /\ js = Cancelled(ns, asks) \cup {j} /\ bs = Stopped(ns, asks) \cup news
      /\ pendingJobs' = [pendingJobs EXCEPT ![c] = IF c \in Handles THEN n ELSE 0]
      /\ UNCHANGED <<view, blurred>>
  BY <1>1 DEF RefreshOne, Asks, Questions
<1>4. n \in Nat \ {0} /\ Unused(n, jobs)
  BY <1>1, <1>2, FreshIsFresh DEF Consistent, Unused
<1>5. c \in Names /\ c # Composite
  BY ConstantsAssumption DEF Names
<1>6. IsNew(j, n, c, 1) /\ j.forView
  <2>1. PICK max \in Nat, forView \in BOOLEAN, threw \in BOOLEAN :
           j = Job(n, c, forView, max, 1, threw)
    BY <1>1
  <2>2. IsNew(j, n, c, 1)
    BY <1>4, <1>5, <2>1, JobIsNew
  <2>3. j.forView
    BY <1>1 DEF Job
  <2> QED BY <2>2, <2>3
<1>7. Consistent(js, bs)
  <2>1. PICK cs \in SUBSET Calendars : cs = {c}
    OBVIOUS
  <2>2. /\ Cardinality(cs) <= 1 /\ (c # Composite => cs \subseteq {c})
        /\ news = Questions(n, cs, R) /\ R \in [Calendars -> 0..2]
    BY <1>1, <2>1, FS_Singleton
  <2>3. PICK as : as = asks
    OBVIOUS
  <2>4. Consistent(jobs, as)
    BY <1>2, <2>3
  <2>5. Consistent(Cancelled(ns, as) \cup {j}, Stopped(ns, as) \cup news)
    BY <1>4, <1>6, <2>2, <2>4, CancelAndAsk
  <2> QED BY <1>3, <2>3, <2>5
<1>8. WritersOf(js) = Spared(ns) \cup {j}
  <2>1. PICK as : as = asks
    OBVIOUS
  <2>2. WritersOf(Cancelled(ns, as) \cup {j}) = Spared(ns) \cup WritersOf({j})
    BY <1>2, <2>1, SparedAndNew
  <2>3. WritersOf({j}) = {j}
    BY <1>6 DEF WritersOf, IsNew
  <2> QED BY <1>3, <2>1, <2>2, <2>3
<1>9. ASSUME NEW k \in WritersOf(jobs), k.no \in ns
      PROVE  k.cal = c
  <2>1. k.no = pendingJobs[c] /\ pendingJobs[c] # 0
    BY <1>1, <1>9
  <2>2. PICK m \in WritersOf(jobs) : m.no = pendingJobs[c] /\ m.cal = c
    BY <1>2, <1>5, <2>1 DEF PendingOk
  <2>3. m = k
    BY <1>2, <2>1, <2>2 DEF Consistent, WritersOf
  <2> QED BY <2>2, <2>3
<1>10. j.no = n /\ j.cal = c
  BY <1>6 DEF IsNew
<1>11. PendingOk(js, pendingJobs')
  <2>1. pendingJobs' \in [Names -> Nat] /\ DOMAIN pendingJobs = Names
    BY <1>2, <1>3, <1>4 DEF PendingOk
  <2>2. ASSUME NEW d \in Names, pendingJobs'[d] # 0
        PROVE  \E k \in WritersOf(js) : k.no = pendingJobs'[d] /\ k.cal = d
    <3>1. CASE d = c
      BY <1>3, <1>8, <1>10, <2>1, <2>2, <3>1
    <3>2. CASE d # c
      <4>1. pendingJobs'[d] = pendingJobs[d]
        BY <1>3, <2>1, <3>2
      <4>2. PICK k \in WritersOf(jobs) : k.no = pendingJobs[d] /\ k.cal = d
        BY <1>2, <2>2, <4>1 DEF PendingOk
      <4>3. k \in Spared(ns)
        BY <1>9, <3>2, <4>2 DEF Spared
      <4> QED BY <1>8, <4>1, <4>2, <4>3
    <3> QED BY <3>1, <3>2
  <2>3. ASSUME NEW k \in WritersOf(js), k.cal \in Handles \cup {Composite}
        PROVE  pendingJobs'[k.cal] = k.no
    <3>1. CASE k = j
      BY <1>3, <1>5, <1>10, <2>1, <2>3, <3>1
    <3>2. CASE k \in Spared(ns)
      <4>1. /\ k \in WritersOf(jobs) /\ k.no \notin ns /\ k.no # 0
            /\ k.cal \in Names
        BY <1>2, <3>2 DEF Spared, WritersOf, Consistent, JobRec
      <4>2. pendingJobs[k.cal] = k.no
        BY <1>2, <2>3, <4>1 DEF PendingOk
      <4>3. k.cal # c
        BY <1>1, <4>1, <4>2
      <4> QED BY <1>3, <2>1, <4>1, <4>2, <4>3
    <3> QED BY <1>8, <3>1, <3>2
  <2> QED BY <2>1, <2>2, <2>3 DEF PendingOk
<1>12. Heard(c, js, bs) # {}
  <2>1. PICK a : a = [job |-> n, cal |-> c, wait |-> R[c]]
    OBVIOUS
  <2>2. a \in bs /\ a.cal = c /\ a.job = n
    BY <1>1, <1>3, <2>1 DEF Questions
  <2> QED BY <1>8, <1>10, <2>2 DEF Heard
<1>13. ASSUME NEW d \in Calendars \ {c}
       PROVE  Heard(d, js, bs) = Heard(d, jobs, asks)
  <2>1. ASSUME NEW a \in asks, a.cal = d, NEW k \in WritersOf(jobs), k.no = a.job
        PROVE  a \in Heard(d, js, bs)
    <3>1. k \in jobs /\ (k.cal # Composite => a.cal = k.cal)
      BY <1>2, <2>1, OneQuery DEF WritersOf
    <3>2. k.no \notin ns
      BY <1>5, <1>9, <1>13, <2>1, <3>1
    <3>3. a \in bs
      BY <1>3, <2>1, <3>2 DEF Stopped
    <3>4. k \in WritersOf(js)
      BY <1>8, <3>2 DEF Spared
    <3> QED BY <2>1, <3>3, <3>4 DEF Heard
  <2>2. ASSUME NEW a \in bs, a.cal = d, NEW k \in WritersOf(js), k.no = a.job
        PROVE  a \in Heard(d, jobs, asks)
    <3>1. a \notin news
      BY <1>1, <1>13, <2>2 DEF Questions
    <3>2. a \in asks
      BY <1>3, <3>1 DEF Stopped
    <3>3. PICK m \in jobs : m.no = a.job
      BY <1>2, <3>2 DEF Consistent
    <3>4. k # j
      BY <1>4, <1>10, <2>2, <3>3 DEF Unused
    <3>5. k \in WritersOf(jobs)
      BY <1>8, <3>4 DEF Spared
    <3> QED BY <2>2, <3>2, <3>5 DEF Heard
  <2>3. Heard(d, jobs, asks) \subseteq Heard(d, js, bs)
    BY <2>1 DEF Heard
  <2>4. Heard(d, js, bs) \subseteq Heard(d, jobs, asks)
    BY <2>2 DEF Heard
  <2> QED BY <2>3, <2>4
<1> QED BY <1>1, <1>3, <1>7, <1>11, <1>12, <1>13 DEF QueryInv

\* What other clients ask and cancel does not touch the view.
LEMMA AfterGetItems ==
    ASSUME TypeInv, QueryInv, NEW max \in Limits, GetItems(max)
    PROVE  QueryInv' /\ \A c : Heard(c, jobs', asks') = Heard(c, jobs, asks)
<1>1. PICK bad : /\ bad \in Perhaps("throw", Enabled, Event) /\ UNCHANGED <<world, pendingJobs>>
                 /\ jobs' = jobs \cup {Job(Fresh, Composite, FALSE, max, Cardinality(Enabled),
                                           bad # {})}
                 /\ asks' = asks \cup Asks(Enabled, bad)
  BY DEF GetItems
<1>2. PICK n, R, j, js, bs, news, cs :
         /\ n = Fresh /\ R = reloads /\ j = Job(n, Composite, FALSE, max, Cardinality(Enabled), bad # {})
         /\ js = jobs /\ bs = asks /\ cs = Enabled \ bad /\ news = Questions(n, cs, R)
  OBVIOUS
<1>3. /\ Consistent(js, bs) /\ PendingOk(js, pendingJobs)
      /\ jobs' = js \cup {j} /\ asks' = bs \cup news
  BY <1>1, <1>2 DEF QueryInv, Asks, Questions, world
<1>4. n \in Nat \ {0} /\ Unused(n, js)
  BY <1>2, <1>3, FreshIsFresh DEF Consistent, Unused
<1>5. PICK need \in Nat : need = Cardinality(Enabled) /\ Cardinality(cs) <= need
  <2>1. Enabled \subseteq Calendars
    BY DEF Enabled, TypeInv
  <2>2. IsFiniteSet(Enabled) /\ Cardinality(Enabled) \in Nat
    BY <2>1, FS_Subset, FS_CardinalityType, ConstantsAssumption
  <2> QED BY <1>2, <2>2, FS_Subset
<1>6. IsNew(j, n, Composite, need) /\ j.no = n /\ ~j.forView
  <2>1. max \in Nat /\ Composite \in Names
    BY ConstantsAssumption DEF Names
  <2>2. PICK forView \in BOOLEAN, threw \in BOOLEAN :
           j = Job(n, Composite, forView, max, need, threw)
    BY <1>2, <1>5
  <2>3. IsNew(j, n, Composite, need)
    BY <1>4, <2>1, <2>2, JobIsNew
  <2>4. ~j.forView
    BY <1>2 DEF Job
  <2> QED BY <2>3, <2>4 DEF IsNew
<1>7. Consistent(js \cup {j}, bs \cup news)
  <2>1. cs \in SUBSET Calendars /\ R \in [Calendars -> 0..2]
    BY <1>2 DEF Enabled, TypeInv
  <2>2. Composite # Composite => cs \subseteq {Composite}
    OBVIOUS
  <2> QED BY <1>2, <1>3, <1>4, <1>5, <1>6, <2>1, <2>2, NewQuery
<1>8. WritersOf(js \cup {j}) = WritersOf(js)
  BY <1>6 DEF WritersOf
<1>9. PendingOk(js \cup {j}, pendingJobs')
  BY <1>1, <1>3, <1>8 DEF PendingOk
<1>10. ASSUME NEW c
       PROVE  Heard(c, js \cup {j}, bs \cup news) = Heard(c, js, bs)
  <2>1. \A a \in news : \A k \in WritersOf(js) : k.no # a.job
    BY <1>2, <1>4 DEF Questions, Unused, WritersOf
  <2> QED BY <1>8, <2>1 DEF Heard
<1> QED BY <1>2, <1>3, <1>7, <1>9, <1>10 DEF QueryInv

LEMMA AfterCancelQuery ==
    ASSUME QueryInv, NEW j \in jobs, CancelQuery(j)
    PROVE  QueryInv' /\ \A c : Heard(c, jobs', asks') = Heard(c, jobs, asks)
<1>1. PICK ns, as : ns = {j.no} /\ as = asks
  OBVIOUS
<1>2. /\ Consistent(jobs, as) /\ PendingOk(jobs, pendingJobs) /\ ~j.forView
      /\ jobs' = Cancelled(ns, as) /\ asks' = Stopped(ns, as) /\ UNCHANGED pendingJobs
  BY <1>1 DEF QueryInv, CancelQuery
<1>3. Consistent(jobs', asks') /\ WritersOf(jobs') = Spared(ns)
  BY <1>2, AfterCancel
<1>4. Spared(ns) = WritersOf(jobs)
  <2>1. \A k \in WritersOf(jobs) : k.no \notin ns
    BY <1>1, <1>2 DEF WritersOf, Consistent
  <2> QED BY <2>1 DEF Spared
<1>5. PendingOk(jobs', pendingJobs')
  BY <1>2, <1>3, <1>4 DEF PendingOk
<1>6. ASSUME NEW c
      PROVE  Heard(c, jobs', asks') = Heard(c, jobs, asks)
  <2>1. \A a \in asks : \A k \in WritersOf(jobs) : k.no = a.job => a \in asks'
    BY <1>1, <1>2, <1>4 DEF Stopped, Spared
  <2>2. asks' \subseteq asks
    BY <1>1, <1>2 DEF Stopped
  <2> QED BY <1>3, <1>4, <2>1, <2>2 DEF Heard
<1> QED BY <1>3, <1>5, <1>6 DEF QueryInv

LEMMA ShareGrows ==
    ASSUME NEW j \in JobRec, Share(j), NEW n \in Nat,
           NEW k, k = [j EXCEPT !.completes = @ + 1, !.offered = @ + n, !.items = @ + Clipped(j, n)]
    PROVE  /\ k \in JobRec /\ Share(k)
           /\ k.no = j.no /\ k.cal = j.cal /\ k.need = j.need /\ k.forView = j.forView
           /\ k.cancelled = j.cancelled /\ k.completes = j.completes + 1
<1>1. j.items \in Nat /\ j.offered \in Nat /\ j.max \in Nat /\ j.completes \in Nat
  BY DEF JobRec
<1>2. PICK m : m = Clipped(j, n)
  OBVIOUS
<1>3. m = IF j.max # 0 /\ j.items >= j.max THEN 0
          ELSE IF j.max # 0 /\ j.items + n > j.max THEN j.max - j.items ELSE n
  BY <1>2 DEF Clipped
<1>4. m \in Nat
  BY <1>1, <1>3
<1>5. /\ k.no = j.no /\ k.cal = j.cal /\ k.need = j.need /\ k.forView = j.forView
      /\ k.cancelled = j.cancelled /\ k.completes = j.completes + 1
      /\ k.items = j.items + m /\ k.offered = j.offered + n /\ k.max = j.max
  BY <1>2 DEF JobRec
<1>6. k \in JobRec
  <2>1. j.items + m \in Nat /\ j.offered + n \in Nat /\ j.completes + 1 \in Nat
    BY <1>1, <1>4
  <2> QED BY <1>2, <2>1 DEF JobRec
<1>7. j.items + m = IF j.max = 0 \/ j.offered + n < j.max THEN j.offered + n ELSE j.max
  BY <1>1, <1>3 DEF Share
<1> QED BY <1>5, <1>6, <1>7 DEF Share

\* A question that is answered is one less for the view to hear, and nothing else.
LEMMA AfterAnswer ==
    ASSUME TypeInv, QueryInv, NEW a \in asks, NEW j \in jobs, NEW ok \in BOOLEAN, Answer(a, j, ok)
    PROVE  /\ QueryInv'
           /\ \A d : Heard(d, jobs', asks') = Heard(d, jobs, asks) \ {a}
           /\ a.cal \in Calendars /\ UNCHANGED <<world, lost>>
<1>1. PICK js, as : js = jobs /\ as = asks
  OBVIOUS
<1>2. Consistent(js, as) /\ PendingOk(js, pendingJobs) /\ a \in as /\ j \in js
  BY <1>1 DEF QueryInv
<1>3. PICK n : n = Cardinality(IF ok THEN {i \in Items : Cal(i) = a.cal /\ store[i] # 0} ELSE {})
  OBVIOUS
<1>4. n \in Nat
  <2>1. PICK found : found = IF ok THEN {i \in Items : Cal(i) = a.cal /\ store[i] # 0} ELSE {}
    OBVIOUS
  <2>3. found \subseteq Items
    BY <2>1
  <2>2. IsFiniteSet(found)
    BY <2>3, FS_Subset, ConstantsAssumption
  <2> QED BY <1>3, <2>1, <2>2, FS_CardinalityType
<1>5. PICK k : k = [j EXCEPT !.completes = @ + 1, !.offered = @ + n, !.items = @ + Clipped(j, n)]
  BY Zenon
<1>6. PICK last \in BOOLEAN : last = (k.completes = k.need)
  OBVIOUS
<1>7. /\ j.no = a.job /\ asks' = as \ {a} /\ UNCHANGED <<world, lost>>
      /\ \/ /\ j.cancelled /\ UNCHANGED pendingJobs
            /\ jobs' = {l \in js : l # j \/ \E b \in as \ {a} : b.job = j.no}
         \/ /\ ~j.cancelled
            /\ jobs' = (js \ {j}) \cup (IF last THEN {} ELSE {k})
            /\ pendingJobs' = Pending(j, last)
  BY <1>1, <1>3, <1>5, <1>6 DEF Answer
<1>8. /\ js \subseteq JobRec /\ as \subseteq AskRec
      /\ \A l, m \in js : l.no = m.no => l = m
  BY <1>2 DEF Consistent
<1>9. a.cal \in Calendars
  BY <1>2, <1>8 DEF AskRec
<1>10. CASE j.cancelled
  <2>1. /\ jobs' = {l \in js : l # j \/ \E b \in as \ {a} : b.job = j.no} /\ UNCHANGED pendingJobs
    BY <1>7, <1>10
  <2>2. Consistent(jobs', asks')
    BY <1>2, <1>7, <1>10, <2>1, AnswerIgnored
  <2>3. WritersOf(jobs') = WritersOf(js)
    BY <1>10, <2>1 DEF WritersOf
  <2>4. PendingOk(jobs', pendingJobs')
    BY <1>2, <2>1, <2>3 DEF PendingOk
  <2>5. \A d : Heard(d, jobs', asks') = Heard(d, js, as) \ {a}
    BY <1>7, <2>3 DEF Heard
  <2> QED BY <1>1, <1>7, <1>9, <2>2, <2>4, <2>5 DEF QueryInv
<1>11. CASE ~j.cancelled
  <2>1. /\ jobs' = (js \ {j}) \cup (IF last THEN {} ELSE {k}) /\ pendingJobs' = Pending(j, last)
    BY <1>7, <1>11
  <2>2. j \in JobRec /\ Share(j)
    BY <1>2, <1>8, <1>11 DEF Consistent
  <2>3. /\ k \in JobRec /\ Share(k)
        /\ k.no = j.no /\ k.cal = j.cal /\ k.need = j.need /\ k.forView = j.forView
        /\ k.cancelled = j.cancelled /\ k.completes = j.completes + 1
    BY <1>4, <1>5, <2>2, ShareGrows
  <2>4. Consistent(jobs', asks') /\ (last => \A b \in as \ {a} : b.job # j.no)
    <3>1. ~k.cancelled
      BY <1>11, <2>3
    <3>3. /\ Consistent(js, as) /\ a \in as /\ j \in js /\ j.no = a.job /\ ~j.cancelled
          /\ k \in JobRec /\ k.no = j.no /\ k.cal = j.cal /\ k.need = j.need /\ ~k.cancelled
          /\ k.completes = j.completes + 1 /\ Share(k)
      BY <1>2, <1>7, <1>11, <2>3, <3>1
    <3>2. /\ Consistent(Counted(js, j, k), as \ {a})
          /\ k.completes = k.need => NoneLeft(j.no, as \ {a})
      BY <3>3, AnswerCounted
    <3> QED BY <1>6, <1>7, <2>1, <3>2 DEF Counted, NoneLeft
  <2>5. WritersOf(jobs') = {m \in (js \ {j}) \cup (IF last THEN {} ELSE {k}) :
                               m.forView /\ ~m.cancelled}
    BY <2>1 DEF WritersOf
  <2>6. /\ \A m \in WritersOf(js) : m # j => m \in WritersOf(jobs')
        /\ \A m \in WritersOf(jobs') : m = k \/ (m \in WritersOf(js) /\ m # j)
        /\ j.forView /\ ~last => k \in WritersOf(jobs')
        /\ k \in WritersOf(jobs') => ~last \/ k \in js \ {j}
        /\ k \in WritersOf(jobs') => j.forView
        /\ j \in WritersOf(js) <=> j.forView
    BY <1>1, <1>2, <1>11, <2>3, <2>5 DEF WritersOf
  <2>7. ~(k \in js \ {j})
    BY <1>2, <1>8, <2>3
  <2>8. PendingOk(jobs', pendingJobs')
    <3>1. DOMAIN pendingJobs = Names /\ pendingJobs \in [Names -> Nat] /\ j.cal \in Names
      BY <1>2, <2>2 DEF PendingOk, JobRec
    <3>2. /\ pendingJobs' \in [Names -> Nat]
          /\ \A c \in Names : pendingJobs'[c] =
                IF j.forView /\ last /\ c = j.cal THEN 0 ELSE pendingJobs[c]
      BY <2>1, <3>1 DEF Pending
    <3>3. ASSUME NEW c \in Names, pendingJobs'[c] # 0
          PROVE  \E m \in WritersOf(jobs') : m.no = pendingJobs'[c] /\ m.cal = c
      <4>1. pendingJobs'[c] = pendingJobs[c] /\ ~(j.forView /\ last /\ c = j.cal)
        BY <3>2, <3>3
      <4>2. PICK m \in WritersOf(js) : m.no = pendingJobs[c] /\ m.cal = c
        BY <1>2, <3>3, <4>1 DEF PendingOk
      <4>3. CASE m = j
        <5>1. j.forView /\ ~last
          BY <2>6, <4>1, <4>2, <4>3
        <5> QED BY <2>3, <2>6, <4>1, <4>2, <4>3, <5>1
      <4>4. CASE m # j
        BY <2>6, <4>1, <4>2, <4>4
      <4> QED BY <4>3, <4>4
    <3>4. ASSUME NEW m \in WritersOf(jobs'), m.cal \in Handles \cup {Composite}
          PROVE  pendingJobs'[m.cal] = m.no
      <4>1. m.cal \in Names
        BY <3>4, ConstantsAssumption DEF Names
      <4>2. CASE m = k
        <5>1. ~last /\ j \in WritersOf(js)
          BY <2>6, <2>7, <4>2
        <5>2. pendingJobs[j.cal] = j.no
          BY <1>2, <2>3, <3>4, <4>2, <5>1 DEF PendingOk
        <5> QED BY <2>3, <3>2, <4>1, <4>2, <5>1, <5>2
      <4>3. CASE m \in WritersOf(js) /\ m # j
        <5>1. pendingJobs[m.cal] = m.no
          BY <1>2, <3>4, <4>3 DEF PendingOk
        <5>2. ASSUME j.forView, m.cal = j.cal
              PROVE  FALSE
          <6>1. pendingJobs[j.cal] = j.no
            BY <1>2, <2>6, <3>4, <5>2 DEF PendingOk
          <6>2. m \in js
            BY <4>3 DEF WritersOf
          <6> QED BY <1>2, <1>8, <4>3, <5>1, <5>2, <6>1, <6>2
        <5> QED BY <3>2, <4>1, <5>1, <5>2
      <4> QED BY <2>6, <4>2, <4>3
    <3> QED BY <3>2, <3>3, <3>4 DEF PendingOk
  <2>9. ASSUME NEW d
        PROVE  Heard(d, jobs', asks') = Heard(d, js, as) \ {a}
    <3>1. ASSUME NEW b \in Heard(d, js, as) \ {a}
          PROVE  b \in Heard(d, jobs', asks')
      <4>1. b \in as \ {a} /\ b.cal = d /\ b \in asks'
        BY <1>7, <3>1 DEF Heard
      <4>2. PICK m \in WritersOf(js) : m.no = b.job
        BY <3>1 DEF Heard
      <4>3. CASE m = j
        <5>1. ~last /\ j.forView
          BY <2>4, <2>6, <4>1, <4>2, <4>3
        <5> QED BY <2>3, <2>6, <4>1, <4>2, <4>3, <5>1 DEF Heard
      <4>4. CASE m # j
        BY <2>6, <4>1, <4>2, <4>4 DEF Heard
      <4> QED BY <4>3, <4>4
    <3>2. ASSUME NEW b \in Heard(d, jobs', asks')
          PROVE  b \in Heard(d, js, as) \ {a}
      <4>1. b \in as \ {a} /\ b.cal = d
        BY <1>7, <3>2 DEF Heard
      <4>2. PICK m \in WritersOf(jobs') : m.no = b.job
        BY <3>2 DEF Heard
      <4>3. \E x \in WritersOf(js) : x.no = b.job
        BY <2>3, <2>6, <4>2
      <4> QED BY <4>1, <4>3 DEF Heard
    <3>3. Heard(d, jobs', asks') \subseteq Heard(d, js, as) \ {a}
      BY <3>2
    <3>4. Heard(d, js, as) \ {a} \subseteq Heard(d, jobs', asks')
      BY <3>1
    <3> QED BY <3>3, <3>4
  <2> QED BY <1>1, <1>7, <1>9, <2>4, <2>8, <2>9 DEF QueryInv
<1> QED BY <1>10, <1>11

-----------------------------------------------------------------------------
(* One step.                                                                 *)

\* The view is laid out anew: it waits for the calendars, and knows of their loads.
LEMMA LaidOut ==
    ASSUME NEW as, NEW l, Consistent(jobs, as), PendingOk(jobs, pendingJobs), RefreshAll(as, l),
           mCalendars' \subseteq Calendars, reloads' \in [Calendars -> 0..2],
           pendingLoads' \subseteq Calendars,
           \A c \in pendingLoads' \ lost' : c \in mCalendars' /\ reloads'[c] >= 1
    PROVE  /\ QueryInv' /\ ViewInv'
           /\ view' \in [Items -> Versions] /\ blurred' \subseteq Calendars
<1>1. /\ Consistent(jobs', asks') /\ PendingOk(jobs', pendingJobs')
      /\ view' = [i \in Items |-> 0] /\ blurred' \subseteq Calendars
      /\ \A c \in Calendars \ blurred' :
            IF c \in Enabled'
            THEN \E a \in Heard(c, jobs', asks') : a.wait = reloads'[c]
            ELSE Heard(c, jobs', asks') = {}
  BY AfterRefreshAll
<1>2. \A c \in Calendars \ (lost' \cup blurred') :
          IF c \in Enabled'
          THEN c \in pendingLoads' => \E a \in Heard(c, jobs', asks') : a.wait >= 1
          ELSE Heard(c, jobs', asks') = {}
  BY <1>1
<1>3. \A i \in Items : Cal(i) \in Calendars
  BY ConstantsAssumption DEF Cal
<1>4. ASSUME NEW i \in Items, Cal(i) \notin lost' \cup blurred'
      PROVE  IF Cal(i) \in Enabled'
             THEN \/ view'[i] = store'[i]
                  \/ Heard(Cal(i), jobs', asks') # {} /\ (store'[i] = 0 => view'[i] = 0)
             ELSE view'[i] = 0
  <2>1. view'[i] = 0
    BY <1>1
  <2>2. PICK c \in Calendars \ blurred' : c = Cal(i)
    BY <1>3, <1>4
  <2>3. c \in Enabled' => Heard(c, jobs', asks') # {}
    BY <1>1
  <2> QED BY <2>1, <2>2, <2>3
<1>5. 0 \in Versions
  <2>1. MaxChanges \in Nat
    BY ConstantsAssumption
  <2> QED BY <2>1 DEF Versions
<1> QED BY <1>1, <1>2, <1>4, <1>5 DEF QueryInv, ViewInv

LEMMA RefreshStep ==
    ASSUME CompositeInv, Refresh
    PROVE  CompositeInv'
<1>1. PICK bad, cs :
         /\ cs = Enabled \ bad /\ \A c \in cs : reloads[c] < 2
         /\ reloads' = [c \in Calendars |-> IF c \in cs THEN reloads[c] + 1 ELSE reloads[c]]
         /\ pendingLoads' = (pendingLoads \ bad) \cup cs
         /\ UNCHANGED <<store, mCalendars, disabled, lost>>
         /\ RefreshAll(asks, Failed(Event, bad))
  BY DEF Refresh
<1>2. TypeInv /\ Consistent(jobs, asks) /\ PendingOk(jobs, pendingJobs)
  BY DEF CompositeInv, QueryInv
<1>3. cs \subseteq mCalendars /\ cs \subseteq Calendars
  BY <1>1, <1>2 DEF Enabled, TypeInv
<1>4. /\ reloads' \in [Calendars -> 0..2]
      /\ \A c \in Calendars : reloads'[c] >= reloads[c] /\ (c \in cs => reloads'[c] >= 1)
  <2>1. ASSUME NEW c \in Calendars
        PROVE  /\ reloads'[c] \in 0..2 /\ reloads'[c] >= reloads[c]
               /\ c \in cs => reloads'[c] >= 1
    <3>1. reloads[c] \in 0..2
      BY <1>2 DEF TypeInv
    <3> QED BY <1>1, <3>1
  <2> QED BY <1>1, <2>1
<1>5. mCalendars' \subseteq Calendars /\ pendingLoads' \subseteq Calendars
  BY <1>1, <1>2, <1>3 DEF TypeInv
<1>6. ASSUME NEW c \in pendingLoads' \ lost'
      PROVE  c \in mCalendars' /\ reloads'[c] >= 1
  <2>1. CASE c \in cs
    BY <1>1, <1>3, <1>4, <2>1
  <2>2. CASE c \notin cs
    <3>1. c \in pendingLoads \ lost
      BY <1>1, <1>6, <2>2
    <3>2. c \in mCalendars /\ reloads[c] >= 1 /\ c \in Calendars /\ reloads[c] \in 0..2
      BY <1>2, <3>1 DEF CompositeInv, ViewInv, TypeInv
    <3>3. reloads'[c] \in 0..2 /\ reloads'[c] >= reloads[c]
      BY <1>4, <3>2
    <3> QED BY <1>1, <3>2, <3>3
  <2> QED BY <2>1, <2>2
<1>7. PICK as, l : as = asks /\ l = Failed(Event, bad)
  OBVIOUS
<1>8. RefreshAll(as, l) /\ Consistent(jobs, as)
  BY <1>1, <1>2, <1>7
<1>9. QueryInv' /\ ViewInv' /\ view' \in [Items -> Versions] /\ blurred' \subseteq Calendars
  BY <1>2, <1>4, <1>5, <1>6, <1>8, LaidOut
<1>10. TypeInv'
  BY <1>1, <1>2, <1>4, <1>5, <1>9 DEF TypeInv
<1> QED BY <1>9, <1>10 DEF CompositeInv

LEMMA GetItemsStep ==
    ASSUME CompositeInv, NEW max \in Limits, GetItems(max)
    PROVE  CompositeInv'
<1>1. QueryInv' /\ \A c : Heard(c, jobs', asks') = Heard(c, jobs, asks)
  BY AfterGetItems DEF CompositeInv
<1>2. UNCHANGED <<store, mCalendars, disabled, reloads, pendingLoads, view, blurred, lost>>
  BY DEF GetItems, world, history
<1>3. TypeInv' /\ Enabled' = Enabled
  BY <1>2 DEF CompositeInv, TypeInv, Enabled
<1>4. ViewInv'
  BY <1>1, <1>2, <1>3 DEF CompositeInv, ViewInv
<1> QED BY <1>1, <1>3, <1>4 DEF CompositeInv

LEMMA CancelQueryStep ==
    ASSUME CompositeInv, NEW j \in jobs, CancelQuery(j)
    PROVE  CompositeInv'
<1>1. QueryInv' /\ \A c : Heard(c, jobs', asks') = Heard(c, jobs, asks)
  BY AfterCancelQuery DEF CompositeInv
<1>2. UNCHANGED <<store, mCalendars, disabled, reloads, pendingLoads, view, blurred, lost>>
  BY DEF CancelQuery, world, history
<1>3. TypeInv' /\ Enabled' = Enabled
  BY <1>2 DEF CompositeInv, TypeInv, Enabled
<1>4. ViewInv'
  BY <1>1, <1>2, <1>3 DEF CompositeInv, ViewInv
<1> QED BY <1>1, <1>3, <1>4 DEF CompositeInv

LEMMA RefreshCalendarStep ==
    ASSUME CompositeInv, NEW c \in Calendars, RefreshCalendar(c)
    PROVE  CompositeInv'
<1>1. /\ UNCHANGED <<store, mCalendars, disabled, pendingLoads, view, blurred, lost>>
      /\ UNCHANGED <<jobs, asks, pendingJobs>>
      /\ reloads[c] < 2 /\ reloads' = [reloads EXCEPT ![c] = @ + 1]
  BY DEF RefreshCalendar, query, history
<1>2. /\ reloads' \in [Calendars -> 0..2]
      /\ \A d \in Calendars : reloads[d] \in 0..2 /\ reloads'[d] >= reloads[d]
  BY <1>1 DEF CompositeInv, TypeInv
<1>3. TypeInv' /\ Enabled' = Enabled
  BY <1>1, <1>2 DEF CompositeInv, TypeInv, Enabled
<1>4. QueryInv'
  BY <1>1 DEF CompositeInv, QueryInv
<1>5. ViewInv'
  <2>1. ASSUME NEW d \in pendingLoads' \ lost'
        PROVE  d \in mCalendars' /\ reloads'[d] >= 1
    <3>1. d \in mCalendars /\ reloads[d] >= 1 /\ d \in Calendars
      BY <1>1, <2>1 DEF CompositeInv, ViewInv, TypeInv
    <3>2. reloads[d] \in 0..2 /\ reloads'[d] \in 0..2 /\ reloads'[d] >= reloads[d]
      BY <1>2, <3>1
    <3> QED BY <1>1, <3>1, <3>2
  <2> QED BY <1>1, <1>3, <2>1 DEF CompositeInv, ViewInv
<1> QED BY <1>3, <1>4, <1>5 DEF CompositeInv

LEMMA ItemsOfCalendars ==
    ASSUME NEW i \in Items
    PROVE  Cal(i) \in Calendars
BY ConstantsAssumption DEF Cal

LEMMA AddCalendarStep ==
    ASSUME CompositeInv, NEW c \in Calendars, AddCalendar(c)
    PROVE  CompositeInv'
<1>1. /\ c \notin mCalendars /\ mCalendars' = mCalendars \cup {c}
      /\ UNCHANGED <<store, disabled, reloads, pendingLoads, lost>>
      /\ IF c \in disabled THEN UNCHANGED <<query, blurred>> ELSE RefreshOne(c)
  BY DEF AddCalendar
<1>2. CASE c \in disabled
  <2>1. UNCHANGED <<jobs, asks, pendingJobs, view, blurred>>
    BY <1>1, <1>2 DEF query
  <2>2. Enabled' = Enabled
    BY <1>1, <1>2 DEF Enabled
  <2>3. TypeInv' /\ QueryInv'
    BY <1>1, <2>1 DEF CompositeInv, TypeInv, QueryInv
  <2>4. ViewInv'
    BY <1>1, <2>1, <2>2 DEF CompositeInv, ViewInv
  <2> QED BY <2>3, <2>4 DEF CompositeInv
<1>3. CASE c \notin disabled
  <2>1. /\ QueryInv' /\ UNCHANGED <<view, blurred>>
        /\ Heard(c, jobs', asks') # {}
        /\ \A d \in Calendars \ {c} : Heard(d, jobs', asks') = Heard(d, jobs, asks)
    <3>1. reloads' \in [Calendars -> 0..2] /\ RefreshOne(c) /\ QueryInv
      BY <1>1, <1>3 DEF CompositeInv, TypeInv
    <3> QED BY <3>1, AfterRefreshOne
  <2>2. Enabled' = Enabled \cup {c} /\ c \notin Enabled
    BY <1>1, <1>3 DEF Enabled
  <2>3. TypeInv'
    BY <1>1, <2>1 DEF CompositeInv, TypeInv
  <2>4. c \in lost \/ c \notin pendingLoads
    BY <1>1 DEF CompositeInv, ViewInv
  <2>5. \A d \in pendingLoads' \ lost' : d \in mCalendars' /\ reloads'[d] >= 1
    BY <1>1 DEF CompositeInv, ViewInv
  <2>6. ASSUME NEW d \in Calendars \ (lost' \cup blurred')
        PROVE  IF d \in Enabled'
               THEN d \in pendingLoads' => \E a \in Heard(d, jobs', asks') : a.wait >= 1
               ELSE Heard(d, jobs', asks') = {}
    <3>1. CASE d = c
      BY <1>1, <2>2, <2>4, <2>6, <3>1
    <3>2. CASE d # c
      BY <1>1, <2>1, <2>2, <2>6, <3>2 DEF CompositeInv, ViewInv
    <3> QED BY <3>1, <3>2
  <2>7. ASSUME NEW i \in Items, Cal(i) \notin lost' \cup blurred'
        PROVE  IF Cal(i) \in Enabled'
               THEN \/ view'[i] = store'[i]
                    \/ Heard(Cal(i), jobs', asks') # {} /\ (store'[i] = 0 => view'[i] = 0)
               ELSE view'[i] = 0
    <3>1. CASE Cal(i) = c
      <4>1. view[i] = 0
        BY <1>1, <2>1, <2>2, <2>7, <3>1 DEF CompositeInv, ViewInv
      <4> QED BY <2>1, <2>2, <3>1, <4>1
    <3>2. CASE Cal(i) # c
      <4>1. Heard(Cal(i), jobs', asks') = Heard(Cal(i), jobs, asks)
        BY <2>1, <3>2, ItemsOfCalendars
      <4> QED BY <1>1, <2>1, <2>2, <2>7, <3>2, <4>1 DEF CompositeInv, ViewInv
    <3> QED BY <3>1, <3>2
  <2>8. ViewInv'
    BY <2>5, <2>6, <2>7 DEF ViewInv
  <2> QED BY <2>1, <2>3, <2>8 DEF CompositeInv
<1> QED BY <1>2, <1>3

\* The calendars that the view awaits are those that it still hears of.
LEMMA AwaitedIsHeard ==
    ASSUME TypeInv, QueryInv, NEW c
    PROVE  c \in Awaited <=> Heard(c, jobs, asks) # {}
BY DEF Awaited, Heard, Writers, WritersOf

LEMMA RemoveCalendarStep ==
    ASSUME CompositeInv, NEW c \in Calendars, RemoveCalendar(c)
    PROVE  CompositeInv'
<1>1. /\ c \in mCalendars /\ mCalendars' = mCalendars \ {c}
      /\ view' = IF c \in disabled THEN view
                 ELSE [i \in Items |-> IF Cal(i) = c THEN 0 ELSE view[i]]
      /\ blurred' = blurred \cup ({c} \cap Awaited)
      /\ lost' = lost \cup ({c} \cap pendingLoads)
      /\ UNCHANGED <<store, disabled, reloads, pendingLoads, jobs, asks, pendingJobs>>
  BY DEF RemoveCalendar
<1>2. TypeInv /\ QueryInv /\ ViewInv
  BY DEF CompositeInv
<1>3. Enabled' = Enabled \ {c}
  BY <1>1 DEF Enabled
<1>4. 0 \in Versions
  BY ConstantsAssumption DEF Versions
<1>5. view' \in [Items -> Versions]
  BY <1>1, <1>2, <1>4 DEF TypeInv
<1>6. TypeInv'
  BY <1>1, <1>2, <1>5 DEF TypeInv
<1>7. QueryInv'
  BY <1>1, <1>2 DEF QueryInv
<1>8. \A d \in pendingLoads' \ lost' : d \in mCalendars' /\ reloads'[d] >= 1
  BY <1>1, <1>2 DEF ViewInv
<1>9. ASSUME NEW d \in Calendars \ (lost' \cup blurred')
      PROVE  IF d \in Enabled'
             THEN d \in pendingLoads' => \E a \in Heard(d, jobs', asks') : a.wait >= 1
             ELSE Heard(d, jobs', asks') = {}
  <2>1. CASE d = c
    <3>1. c \notin Awaited
      BY <1>1, <1>9, <2>1
    <3>2. Heard(c, jobs, asks) = {}
      BY <1>2, <3>1, AwaitedIsHeard
    <3> QED BY <1>1, <1>3, <2>1, <3>2
  <2>2. CASE d # c
    BY <1>1, <1>2, <1>3, <1>9, <2>2 DEF ViewInv
  <2> QED BY <2>1, <2>2
<1>10. ASSUME NEW i \in Items, Cal(i) \notin lost' \cup blurred'
       PROVE  IF Cal(i) \in Enabled'
              THEN \/ view'[i] = store'[i]
                   \/ Heard(Cal(i), jobs', asks') # {} /\ (store'[i] = 0 => view'[i] = 0)
              ELSE view'[i] = 0
  <2>1. CASE Cal(i) = c
    <3>1. CASE c \in disabled
      <4>1. c \notin Enabled
        BY <3>1 DEF Enabled
      <4> QED BY <1>1, <1>2, <1>3, <1>10, <2>1, <3>1, <4>1 DEF ViewInv
    <3>2. CASE c \notin disabled
      BY <1>1, <1>3, <2>1, <3>2
    <3> QED BY <3>1, <3>2
  <2>2. CASE Cal(i) # c
    <3>1. view'[i] = view[i]
      BY <1>1, <2>2
    <3> QED BY <1>1, <1>2, <1>3, <1>10, <2>2, <3>1 DEF ViewInv
  <2> QED BY <2>1, <2>2
<1>11. ViewInv'
  BY <1>8, <1>9, <1>10 DEF ViewInv
<1> QED BY <1>6, <1>7, <1>11 DEF CompositeInv

LEMMA OnPropertyChangedStep ==
    ASSUME CompositeInv, NEW c \in Calendars, OnPropertyChanged(c)
    PROVE  CompositeInv'
<1>1. /\ disabled' = IF c \in disabled THEN disabled \ {c} ELSE disabled \cup {c}
      /\ UNCHANGED <<store, mCalendars, reloads, pendingLoads, lost>>
      /\ IF c \in mCalendars THEN RefreshAll(asks, Event) ELSE UNCHANGED <<query, blurred>>
  BY DEF OnPropertyChanged
<1>2. TypeInv /\ QueryInv /\ ViewInv
  BY DEF CompositeInv
<1>3. disabled' \subseteq Calendars
  BY <1>1, <1>2 DEF TypeInv
<1>4. CASE c \in mCalendars
  <2>1. PICK as, l : as = asks /\ l = Event
    OBVIOUS
  <2>2. /\ Consistent(jobs, as) /\ PendingOk(jobs, pendingJobs) /\ RefreshAll(as, l)
        /\ mCalendars' \subseteq Calendars /\ reloads' \in [Calendars -> 0..2]
        /\ pendingLoads' \subseteq Calendars
        /\ \A d \in pendingLoads' \ lost' : d \in mCalendars' /\ reloads'[d] >= 1
    BY <1>1, <1>2, <1>4, <2>1 DEF QueryInv, TypeInv, ViewInv
  <2>3. QueryInv' /\ ViewInv' /\ view' \in [Items -> Versions] /\ blurred' \subseteq Calendars
    BY <2>2, LaidOut
  <2>4. TypeInv'
    BY <1>1, <1>2, <1>3, <2>3 DEF TypeInv
  <2> QED BY <2>3, <2>4 DEF CompositeInv
<1>5. CASE c \notin mCalendars
  <2>1. UNCHANGED <<jobs, asks, pendingJobs, view, blurred>>
    BY <1>1, <1>5 DEF query
  <2>2. Enabled' = Enabled
    BY <1>1, <1>5 DEF Enabled
  <2>3. TypeInv' /\ QueryInv'
    BY <1>1, <1>2, <1>3, <2>1 DEF TypeInv, QueryInv
  <2>4. ViewInv'
    BY <1>1, <1>2, <2>1, <2>2 DEF ViewInv
  <2> QED BY <2>3, <2>4 DEF CompositeInv
<1> QED BY <1>4, <1>5

LEMMA EditStep ==
    ASSUME CompositeInv, NEW i \in Items, NEW v \in Versions, Edit(i, v)
    PROVE  CompositeInv'
<1>1. /\ Cal(i) \notin disabled /\ store' = [store EXCEPT ![i] = v]
      /\ view' = IF Cal(i) \in mCalendars THEN [view EXCEPT ![i] = v] ELSE view
      /\ UNCHANGED <<mCalendars, disabled, reloads, pendingLoads, jobs, asks, pendingJobs,
                     blurred, lost>>
  BY DEF Edit, history
<1>2. TypeInv /\ QueryInv /\ ViewInv
  BY DEF CompositeInv
<1>3. Enabled' = Enabled
  BY <1>1 DEF Enabled
<1>4. TypeInv' /\ QueryInv'
  BY <1>1, <1>2 DEF TypeInv, QueryInv
<1>5. ASSUME NEW k \in Items, Cal(k) \notin lost' \cup blurred'
      PROVE  IF Cal(k) \in Enabled'
             THEN \/ view'[k] = store'[k]
                  \/ Heard(Cal(k), jobs', asks') # {} /\ (store'[k] = 0 => view'[k] = 0)
             ELSE view'[k] = 0
  <2>1. CASE k = i /\ Cal(i) \in mCalendars
    <3>1. view'[k] = v /\ store'[k] = v /\ Cal(k) \in Enabled
      BY <1>1, <1>2, <2>1 DEF TypeInv, Enabled
    <3> QED BY <1>3, <3>1
  <2>2. CASE k = i /\ Cal(i) \notin mCalendars
    <3>1. Cal(k) \notin Enabled /\ view'[k] = view[k]
      BY <1>1, <2>2 DEF Enabled
    <3> QED BY <1>1, <1>2, <1>3, <1>5, <3>1 DEF ViewInv
  <2>3. CASE k # i
    <3>1. view'[k] = view[k] /\ store'[k] = store[k]
      BY <1>1, <1>2, <2>3 DEF TypeInv
    <3> QED BY <1>1, <1>2, <1>3, <1>5, <3>1 DEF ViewInv
  <2> QED BY <2>1, <2>2, <2>3
<1>6. ViewInv'
  BY <1>1, <1>2, <1>3, <1>5 DEF ViewInv
<1> QED BY <1>4, <1>6 DEF CompositeInv

LEMMA AnswerStep ==
    ASSUME CompositeInv, NEW a \in asks, NEW j \in jobs, NEW ok \in BOOLEAN, Answer(a, j, ok)
    PROVE  CompositeInv'
<1>1. TypeInv /\ QueryInv /\ ViewInv
  BY DEF CompositeInv
<1>2. /\ QueryInv'
      /\ \A d : Heard(d, jobs', asks') = Heard(d, jobs, asks) \ {a}
      /\ a.cal \in Calendars /\ UNCHANGED <<world, lost>>
  BY <1>1, AfterAnswer
<1>3. UNCHANGED <<store, mCalendars, disabled, reloads, pendingLoads, lost>>
  BY <1>2 DEF world
<1>4. PICK found : found = IF ok THEN {i \in Items : Cal(i) = a.cal /\ store[i] # 0} ELSE {}
  OBVIOUS
<1>5. PICK writes \in BOOLEAN : writes = (j.forView /\ ~j.cancelled)
  OBVIOUS
<1>6. /\ a.wait = 0 /\ j.no = a.job
      /\ \/ j.cancelled /\ UNCHANGED <<view, blurred>>
         \/ /\ ~j.cancelled
            /\ view' = IF j.forView THEN [i \in Items |-> IF i \in found THEN store[i] ELSE view[i]]
                       ELSE view
            /\ blurred' = IF j.forView THEN blurred \cup (IF ok THEN {} ELSE {a.cal}) ELSE blurred
  BY <1>4 DEF Answer
<1>7. /\ view' = IF writes THEN [i \in Items |-> IF i \in found THEN store[i] ELSE view[i]]
                 ELSE view
      /\ blurred' = IF writes /\ ~ok THEN blurred \cup {a.cal} ELSE blurred
  BY <1>5, <1>6
<1>8. view' \in [Items -> Versions] /\ blurred' \subseteq Calendars
  BY <1>1, <1>2, <1>4, <1>7 DEF TypeInv
<1>9. TypeInv' /\ Enabled' = Enabled
  BY <1>1, <1>3, <1>8 DEF TypeInv, Enabled
<1>10. writes => a \in Heard(a.cal, jobs, asks)
  BY <1>5, <1>6 DEF Heard, WritersOf
<1>11. a \in Heard(a.cal, jobs, asks) => writes
  <2>1. \A k \in jobs : k.no = j.no => k = j
    BY <1>1 DEF QueryInv, Consistent
  <2> QED BY <1>5, <1>6, <2>1 DEF Heard, WritersOf
<1>12. \A d \in pendingLoads' \ lost' : d \in mCalendars' /\ reloads'[d] >= 1
  BY <1>1, <1>3 DEF ViewInv
<1>13. ASSUME NEW d \in Calendars \ (lost' \cup blurred')
       PROVE  IF d \in Enabled'
              THEN d \in pendingLoads' => \E b \in Heard(d, jobs', asks') : b.wait >= 1
              ELSE Heard(d, jobs', asks') = {}
  <2>1. d \in Calendars \ (lost \cup blurred)
    BY <1>3, <1>7, <1>13
  <2>2. CASE d \in Enabled /\ d \in pendingLoads
    <3>1. PICK b \in Heard(d, jobs, asks) : b.wait >= 1
      BY <1>1, <2>1, <2>2 DEF ViewInv
    <3>2. b # a
      BY <1>6, <3>1
    <3>3. b \in Heard(d, jobs', asks')
      BY <1>2, <3>2
    <3> QED BY <1>9, <2>2, <3>1, <3>3
  <2>3. CASE d \in Enabled /\ d \notin pendingLoads
    BY <1>3, <1>9, <2>3
  <2>4. CASE d \notin Enabled
    <3>1. Heard(d, jobs, asks) = {}
      BY <1>1, <2>1, <2>4 DEF ViewInv
    <3>2. Heard(d, jobs', asks') = {}
      BY <1>2, <3>1
    <3> QED BY <1>9, <2>4, <3>2
  <2> QED BY <2>2, <2>3, <2>4
<1>14. ASSUME NEW i \in Items, Cal(i) \notin lost' \cup blurred'
       PROVE  IF Cal(i) \in Enabled'
              THEN \/ view'[i] = store'[i]
                   \/ Heard(Cal(i), jobs', asks') # {} /\ (store'[i] = 0 => view'[i] = 0)
              ELSE view'[i] = 0
  <2>1. PICK d \in Calendars : d = Cal(i)
    BY ItemsOfCalendars
  <2>2. d \in Calendars \ (lost \cup blurred)
    BY <1>3, <1>7, <1>14, <2>1
  <2>3. IF d \in Enabled
        THEN view[i] = store[i] \/ (Heard(d, jobs, asks) # {} /\ (store[i] = 0 => view[i] = 0))
        ELSE view[i] = 0 /\ Heard(d, jobs, asks) = {}
    BY <1>1, <2>1, <2>2 DEF ViewInv
  <2>4. CASE writes /\ a.cal = d
    <3>1. ok
      BY <1>7, <1>14, <2>1, <2>4
    <3>2. d \in Enabled
      BY <1>10, <2>3, <2>4
    <3>3. i \in found <=> store[i] # 0
      BY <1>4, <2>1, <2>4, <3>1
    <3>4. view'[i] = store[i]
      BY <1>7, <2>3, <2>4, <3>2, <3>3
    <3> QED BY <1>3, <1>9, <2>1, <3>2, <3>4
  <2>5. CASE ~(writes /\ a.cal = d)
    <3>1. i \notin found \/ ~writes
      BY <1>4, <2>1, <2>5
    <3>2. view'[i] = view[i]
      BY <1>7, <3>1
    <3>3. a \notin Heard(d, jobs, asks)
      BY <1>11, <2>5 DEF Heard
    <3>4. Heard(d, jobs', asks') = Heard(d, jobs, asks)
      BY <1>2, <3>3
    <3> QED BY <1>3, <1>9, <2>1, <2>3, <3>2, <3>4
  <2> QED BY <2>4, <2>5
<1>15. ViewInv'
  BY <1>12, <1>13, <1>14 DEF ViewInv
<1> QED BY <1>2, <1>9, <1>15 DEF CompositeInv

LEMMA ReloadDoneStep ==
    ASSUME CompositeInv, NEW i \in Items, NEW v \in Versions, ReloadDone(Cal(i), i, v)
    PROVE  CompositeInv'
<1>1. PICK c \in Calendars : c = Cal(i)
  BY ItemsOfCalendars
<1>2. PICK as, bs, l : /\ as = asks /\ bs = Moved(c, as)
                       /\ l = IF v = store[i] THEN left ELSE [left EXCEPT !.changes = @ - 1]
  OBVIOUS
<1>3. TypeInv /\ QueryInv /\ ViewInv
  BY DEF CompositeInv
<1>4. /\ reloads[c] > 0 /\ reloads' = [reloads EXCEPT ![c] = @ - 1]
      /\ UNCHANGED <<mCalendars, disabled>>
  BY <1>1 DEF ReloadDone
<1>5. \/ /\ store' = [store EXCEPT ![i] = v] /\ c \in mCalendars \ pendingLoads
         /\ RefreshAll(bs, l) /\ UNCHANGED <<pendingLoads, lost>>
      \/ /\ store' = [store EXCEPT ![i] = v] /\ c \notin mCalendars \ pendingLoads
         /\ pendingLoads' = pendingLoads \ (mCalendars \cap {c})
         /\ asks' = bs /\ UNCHANGED <<jobs, pendingJobs, view, lost>>
         /\ blurred' = IF v = 0 /\ view[i] # 0 THEN blurred \cup {c} ELSE blurred
      \/ /\ asks' = bs /\ lost' = lost \cup (pendingLoads \cap {c})
         /\ UNCHANGED <<store, pendingLoads, jobs, pendingJobs, view, blurred>>
  BY <1>1, <1>2 DEF ReloadDone, Moved
<1>6. /\ Consistent(jobs, as) /\ Consistent(jobs, bs) /\ PendingOk(jobs, pendingJobs)
  <2>1. Consistent(jobs, as) /\ PendingOk(jobs, pendingJobs)
    BY <1>2, <1>3 DEF QueryInv
  <2>2. PICK js : js = jobs
    OBVIOUS
  <2>3. Consistent(js, Moved(c, as))
    BY <2>1, <2>2, MovedUp
  <2> QED BY <1>2, <2>1, <2>2, <2>3
<1>7. /\ \A d : d # c => Heard(d, jobs, bs) = Heard(d, jobs, asks)
      /\ Heard(c, jobs, asks) # {} <=> Heard(c, jobs, bs) # {}
  <2>1. PICK js : js = jobs
    OBVIOUS
  <2>2. Consistent(js, as)
    BY <1>6, <2>1
  <2>3. \A d : d # c => Heard(d, js, Moved(c, as)) = Heard(d, js, as)
    BY <2>2, MovedHeard
  <2>4. Heard(c, js, as) # {} <=> Heard(c, js, Moved(c, as)) # {}
    BY <2>2, MovedHeard
  <2> QED BY <1>2, <2>1, <2>3, <2>4
<1>8. /\ reloads' \in [Calendars -> 0..2] /\ Enabled' = Enabled
      /\ \A d \in Calendars \ {c} : reloads'[d] = reloads[d]
      /\ mCalendars' \subseteq Calendars
  BY <1>3, <1>4 DEF TypeInv, Enabled
<1>9. store' \in [Items -> Versions] /\ \A k \in Items \ {i} : store'[k] = store[k]
  <2>1. store' = [store EXCEPT ![i] = v] \/ store' = store
    BY <1>5
  <2> QED BY <1>3, <2>1 DEF TypeInv
<1>10. CASE /\ store' = [store EXCEPT ![i] = v] /\ c \in mCalendars \ pendingLoads
            /\ RefreshAll(bs, l) /\ UNCHANGED <<pendingLoads, lost>>
  <2>1. \A d \in pendingLoads' \ lost' : d \in mCalendars' /\ reloads'[d] >= 1
    BY <1>3, <1>4, <1>8, <1>10 DEF ViewInv, TypeInv
  <2>2. pendingLoads' \subseteq Calendars /\ lost' \subseteq Calendars
    BY <1>3, <1>10 DEF TypeInv
  <2>3. QueryInv' /\ ViewInv' /\ view' \in [Items -> Versions] /\ blurred' \subseteq Calendars
    BY <1>6, <1>8, <1>10, <2>1, <2>2, LaidOut
  <2>4. TypeInv'
    BY <1>3, <1>4, <1>8, <1>9, <2>2, <2>3 DEF TypeInv
  <2> QED BY <2>3, <2>4 DEF CompositeInv
<1>11. CASE /\ store' = [store EXCEPT ![i] = v] /\ c \notin mCalendars \ pendingLoads
            /\ pendingLoads' = pendingLoads \ (mCalendars \cap {c})
            /\ asks' = bs /\ UNCHANGED <<jobs, pendingJobs, view, lost>>
            /\ blurred' = IF v = 0 /\ view[i] # 0 THEN blurred \cup {c} ELSE blurred
  <2>1. TypeInv' /\ QueryInv'
    BY <1>3, <1>4, <1>6, <1>8, <1>9, <1>11 DEF TypeInv, QueryInv
  <2>2. ASSUME NEW d \in pendingLoads' \ lost'
        PROVE  d \in mCalendars' /\ reloads'[d] >= 1
    <3>1. d \in pendingLoads \ lost /\ d \in Calendars
      BY <1>3, <1>11, <2>2 DEF TypeInv
    <3>2. d \in mCalendars /\ reloads[d] >= 1
      BY <1>3, <3>1 DEF ViewInv
    <3>3. d # c
      BY <1>11, <2>2, <3>2
    <3> QED BY <1>4, <1>8, <3>1, <3>2, <3>3
  <2>3. c \in Enabled /\ c \notin lost \cup blurred => Heard(c, jobs, bs) # {}
    <3>1. SUFFICES ASSUME c \in Enabled, c \notin lost \cup blurred
                   PROVE  Heard(c, jobs, asks) # {}
      BY <1>7
    <3>2. c \in pendingLoads
      BY <1>11, <3>1 DEF Enabled
    <3> QED BY <1>3, <3>1, <3>2 DEF ViewInv
  <2>4. ASSUME NEW d \in Calendars \ (lost' \cup blurred')
        PROVE  IF d \in Enabled'
               THEN d \in pendingLoads' => \E b \in Heard(d, jobs', asks') : b.wait >= 1
               ELSE Heard(d, jobs', asks') = {}
    <3>1. d \in Calendars \ (lost \cup blurred)
      BY <1>11, <2>4
    <3>2. CASE d = c
      <4>1. c \in Enabled => c \notin pendingLoads'
        BY <1>11 DEF Enabled
      <4>2. c \notin Enabled => Heard(c, jobs, asks) = {}
        BY <1>3, <3>1, <3>2 DEF ViewInv
      <4> QED BY <1>7, <1>8, <1>11, <3>2, <4>1, <4>2
    <3>3. CASE d # c
      <4>1. Heard(d, jobs', asks') = Heard(d, jobs, asks)
        BY <1>7, <1>11, <3>3
      <4> QED BY <1>3, <1>8, <1>11, <3>1, <3>3, <4>1 DEF ViewInv
    <3> QED BY <3>2, <3>3
  <2>5. ASSUME NEW k \in Items, Cal(k) \notin lost' \cup blurred'
        PROVE  IF Cal(k) \in Enabled'
               THEN \/ view'[k] = store'[k]
                    \/ Heard(Cal(k), jobs', asks') # {} /\ (store'[k] = 0 => view'[k] = 0)
               ELSE view'[k] = 0
    <3>1. Cal(k) \notin lost \cup blurred /\ view'[k] = view[k]
      BY <1>11, <2>5
    <3>2. IF Cal(k) \in Enabled
          THEN \/ view[k] = store[k]
               \/ Heard(Cal(k), jobs, asks) # {} /\ (store[k] = 0 => view[k] = 0)
          ELSE view[k] = 0
      BY <1>3, <3>1 DEF ViewInv
    <3>3. CASE k = i
      <4>1. store'[k] = v /\ (Cal(k) \in Enabled => Heard(Cal(k), jobs', asks') # {})
        BY <1>1, <1>3, <1>11, <2>3, <3>1, <3>3 DEF TypeInv
      <4>2. v = 0 => view[k] = 0
        BY <1>1, <1>11, <2>5, <3>3
      <4> QED BY <1>8, <3>1, <3>2, <4>1, <4>2
    <3>4. CASE k # i
      <4>1. store'[k] = store[k]
        BY <1>9, <3>4
      <4>2. Heard(Cal(k), jobs, asks) # {} => Heard(Cal(k), jobs', asks') # {}
        BY <1>7, <1>11
      <4> QED BY <1>8, <3>1, <3>2, <4>1, <4>2
    <3> QED BY <3>3, <3>4
  <2>6. ViewInv'
    BY <2>2, <2>4, <2>5 DEF ViewInv
  <2> QED BY <2>1, <2>6 DEF CompositeInv
<1>12. CASE /\ asks' = bs /\ lost' = lost \cup (pendingLoads \cap {c})
            /\ UNCHANGED <<store, pendingLoads, jobs, pendingJobs, view, blurred>>
  <2>1. TypeInv' /\ QueryInv'
    BY <1>3, <1>4, <1>6, <1>8, <1>12 DEF TypeInv, QueryInv
  <2>2. \A d \in pendingLoads' \ lost' : d \in mCalendars' /\ reloads'[d] >= 1
    BY <1>3, <1>4, <1>8, <1>12 DEF ViewInv, TypeInv
  <2>3. ASSUME NEW d \in Calendars \ (lost' \cup blurred')
        PROVE  IF d \in Enabled'
               THEN d \in pendingLoads' => \E b \in Heard(d, jobs', asks') : b.wait >= 1
               ELSE Heard(d, jobs', asks') = {}
    <3>1. d \in Calendars \ (lost \cup blurred)
      BY <1>12, <2>3
    <3>2. CASE d = c
      <4>1. c \notin pendingLoads'
        BY <1>12, <2>3, <3>2
      <4>2. c \notin Enabled => Heard(c, jobs, asks) = {}
        BY <1>3, <3>1, <3>2 DEF ViewInv
      <4> QED BY <1>7, <1>8, <1>12, <3>2, <4>1, <4>2
    <3>3. CASE d # c
      <4>1. Heard(d, jobs', asks') = Heard(d, jobs, asks)
        BY <1>7, <1>12, <3>3
      <4> QED BY <1>3, <1>8, <1>12, <3>1, <4>1 DEF ViewInv
    <3> QED BY <3>2, <3>3
  <2>4. ASSUME NEW k \in Items, Cal(k) \notin lost' \cup blurred'
        PROVE  IF Cal(k) \in Enabled'
               THEN \/ view'[k] = store'[k]
                    \/ Heard(Cal(k), jobs', asks') # {} /\ (store'[k] = 0 => view'[k] = 0)
               ELSE view'[k] = 0
    <3>1. Heard(Cal(k), jobs, asks) # {} => Heard(Cal(k), jobs', asks') # {}
      BY <1>7, <1>12
    <3> QED BY <1>3, <1>8, <1>12, <2>4, <3>1 DEF ViewInv
  <2>5. ViewInv'
    BY <2>2, <2>3, <2>4 DEF ViewInv
  <2> QED BY <2>1, <2>5 DEF CompositeInv
<1> QED BY <1>5, <1>10, <1>11, <1>12

-----------------------------------------------------------------------------
(* The theorems.                                                             *)

LEMMA CompositeInit ==
    ASSUME Init
    PROVE  CompositeInv
<1>1. 0 \in Versions /\ 1 \in Versions
  <2>1. MaxChanges \in Nat
    BY ConstantsAssumption
  <2> QED BY <2>1 DEF Versions
<1>2. TypeInv
  BY <1>1 DEF Init, TypeInv
<1>3. Consistent(jobs, asks)
  <2>1. IsFiniteSet(jobs)
    BY FS_EmptySet DEF Init
  <2> QED BY <2>1 DEF Init, Consistent
<1>4. PendingOk(jobs, pendingJobs)
  BY DEF Init, PendingOk, WritersOf, Names
<1>5. \A c : Heard(c, jobs, asks) = {}
  BY DEF Init, Heard
<1>6. Enabled = Calendars
  BY DEF Init, Enabled
<1>7. ViewInv
  BY <1>5, <1>6, ItemsOfCalendars DEF Init, ViewInv
<1> QED BY <1>2, <1>3, <1>4, <1>7 DEF CompositeInv, QueryInv

LEMMA CompositeNext ==
    ASSUME CompositeInv, [Next]_vars
    PROVE  CompositeInv'
<1>1. CASE Refresh
  BY <1>1, RefreshStep
<1>2. ASSUME NEW max \in Limits, GetItems(max)
      PROVE  CompositeInv'
  BY <1>2, GetItemsStep
<1>3. ASSUME NEW j \in jobs, CancelQuery(j)
      PROVE  CompositeInv'
  BY <1>3, CancelQueryStep
<1>4. ASSUME NEW a \in asks, NEW j \in jobs, NEW ok \in BOOLEAN, Answer(a, j, ok)
      PROVE  CompositeInv'
  BY <1>4, AnswerStep
<1>5. ASSUME NEW i \in Items, NEW v \in Versions, ReloadDone(Cal(i), i, v)
      PROVE  CompositeInv'
  BY <1>5, ReloadDoneStep
<1>6. ASSUME NEW i \in Items, NEW v \in Versions, Edit(i, v)
      PROVE  CompositeInv'
  BY <1>6, EditStep
<1>7. ASSUME NEW c \in Calendars, RefreshCalendar(c)
      PROVE  CompositeInv'
  BY <1>7, RefreshCalendarStep
<1>8. ASSUME NEW c \in Calendars, AddCalendar(c)
      PROVE  CompositeInv'
  BY <1>8, AddCalendarStep
<1>9. ASSUME NEW c \in Calendars, RemoveCalendar(c)
      PROVE  CompositeInv'
  BY <1>9, RemoveCalendarStep
<1>10. ASSUME NEW c \in Calendars, OnPropertyChanged(c)
       PROVE  CompositeInv'
  BY <1>10, OnPropertyChangedStep
<1>11. CASE UNCHANGED vars
  <2>1. UNCHANGED <<store, mCalendars, disabled, reloads, pendingLoads, jobs, asks, pendingJobs,
                    view, blurred, lost>>
    BY <1>11 DEF vars, world, query, history
  <2>2. TypeInv' /\ QueryInv' /\ Enabled' = Enabled
    BY <2>1 DEF CompositeInv, TypeInv, QueryInv, Enabled
  <2>3. ViewInv'
    BY <2>1, <2>2 DEF CompositeInv, ViewInv
  <2> QED BY <2>2, <2>3 DEF CompositeInv
<1> QED BY <1>1, <1>2, <1>3, <1>4, <1>5, <1>6, <1>7, <1>8, <1>9, <1>10, <1>11 DEF Next

LEMMA CompositeAlways == Spec => []CompositeInv
<1> QED BY CompositeInit, CompositeNext, PTL DEF Spec

\* The state keeps its types; no two queries under way have the same number, none counts
\* more answers than it asked calendars, and what the view keeps in mPendingRefreshJobs
\* is its own query that still runs, so that a refresh never cancels another's.
THEOREM CompositeTypeCorrect == Spec => []TypeOK
<1>1. CompositeInv => TypeOK
  <2> SUFFICES ASSUME CompositeInv
               PROVE  TypeOK
    OBVIOUS
  <2>1. TypeInv /\ Consistent(jobs, asks) /\ PendingOk(jobs, pendingJobs)
    BY DEF CompositeInv, QueryInv
  <2>2. ASSUME NEW j \in jobs
        PROVE  j.cal \in Calendars \cup {Composite} /\ j.completes \in 0..j.need
    <3>1. j \in JobRec /\ j.completes <= j.need
      BY <2>1 DEF Consistent
    <3> QED BY <3>1 DEF JobRec, Names
  <2>3. \A j, k \in jobs : j.no = k.no => j = k
    BY <2>1 DEF Consistent
  <2>4. \A a \in asks : a.cal \in Calendars /\ a.wait \in 0..2 /\ \E j \in jobs : j.no = a.job
    <3>1. asks \subseteq AskRec /\ \A a \in asks : \E j \in jobs : j.no = a.job
      BY <2>1 DEF Consistent
    <3> QED BY <3>1 DEF AskRec
  <2>5. \A c \in DOMAIN pendingJobs : pendingJobs[c] # 0 =>
            \E j \in jobs : j.no = pendingJobs[c] /\ j.cal = c /\ j.forView /\ ~j.cancelled
    <3>1. DOMAIN pendingJobs = Names
      BY <2>1 DEF PendingOk
    <3> QED BY <2>1, <3>1 DEF PendingOk, WritersOf
  <2> QED BY <2>1, <2>2, <2>3, <2>4, <2>5 DEF TypeInv, TypeOK
<1> QED BY <1>1, CompositeAlways, PTL

\* However queries, cancellations, reloads, edits and the coming and going of calendars
\* interleave, the view shows each enabled calendar as it is once it has nothing more to
\* hear of it, and nothing of the others (refreshItems, refreshCalendar and the
\* compositeCalendarObserverHelper), but for the exceptions that blurred and lost record.
THEOREM ViewStaysCurrent == Spec => []ViewIsCurrent
<1>1. CompositeInv => ViewIsCurrent
  <2> SUFFICES ASSUME CompositeInv, NEW i \in Items, Cal(i) \notin Awaited \cup blurred \cup lost
               PROVE  view[i] = IF Cal(i) \in Enabled THEN store[i] ELSE 0
    BY DEF ViewIsCurrent
  <2>1. TypeInv /\ QueryInv /\ ViewInv
    BY DEF CompositeInv
  <2>2. PICK c : c = Cal(i)
    OBVIOUS
  <2>3. Heard(c, jobs, asks) = {}
    BY <2>1, <2>2, AwaitedIsHeard
  <2> QED BY <2>1, <2>2, <2>3 DEF ViewInv
<1> QED BY <1>1, CompositeAlways, PTL

\* A listener of the composite is passed all the items that its calendars found or, if it
\* asked for a number, that many of them if there are: the count that onGetResult clips
\* against is that of the items passed on, in whatever order the calendars answer.
THEOREM ClientsGetTheirShare == Spec => []ClientGetsItsShare
<1>1. CompositeInv => ClientGetsItsShare
  BY DEF CompositeInv, QueryInv, Consistent, Share, ClientGetsItsShare
<1> QED BY <1>1, CompositeAlways, PTL

=============================================================================
