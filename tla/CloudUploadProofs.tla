-------------------------- MODULE CloudUploadProofs --------------------------
(***************************************************************************)
(* The uploads of attachments, proved for any set of files: the state keeps  *)
(* its type, and the compose window agrees with the provider.               *)
(***************************************************************************)
EXTENDS CloudUpload, SequenceTheorems, FiniteSetTheorems, TLAPS

TypeInv ==
    /\ item \in [Files -> {"none", "uploading", "uploaded", "failed", "removed"}]
    /\ count \in Int /\ links \subseteq Files /\ shared \subseteq Files
    /\ provider \in [loggedIn : BOOLEAN, requestObserver : Files \cup {None, Chained},
                     uploadingFile : Files \cup {None}, uploader : Files \cup {None},
                     uploads : Seq(Files)]
    /\ \A fl \in flights : fl.file \in Files /\ fl.observer \in Files \cup {Chained}

\* An attachment with a link has been uploaded, so that it is neither attached nor
\* cancelled any more; told a failure, its link stays.
LinkInv == \A f \in links : f \in shared /\ item[f] \in {"uploaded", "failed"}

\* The provider works on one file, for which one request is under way, or on none.  The
\* first file of a queue enters it only when it gets an uploader; the files after it are
\* there from the start.
QueueInv ==
    /\ IsInjective(provider.uploads)
    /\ \/ /\ provider.uploadingFile = None /\ provider.uploader = None
          /\ provider.uploads = <<>> /\ flights = {}
       \/ /\ provider.uploadingFile \in Files
          /\ \E fl \in flights :
                /\ flights = {fl} /\ fl.file = provider.uploadingFile
                /\ fl.kind \in {"put", "share"} => provider.uploader # None
          /\ \/ /\ provider.uploader = None
                /\ provider.uploadingFile \notin ToSet(provider.uploads)
             \/ /\ provider.uploader = provider.uploadingFile
                /\ provider.uploads # <<>> /\ Head(provider.uploads) = provider.uploadingFile

UploadInv == TypeInv /\ LinkInv /\ (astray \/ (QueueInv /\ SendWaitsForUploads))

-----------------------------------------------------------------------------
(* Queues.                                                                   *)

LEMMA SetOfQueue ==
    ASSUME NEW S, NEW q \in Seq(S)
    PROVE  /\ ToSet(q) \subseteq S /\ ToSet(q) = {q[i] : i \in 1..Len(q)}
           /\ IsFiniteSet(ToSet(q))
<1>1. DOMAIN q = 1..Len(q) /\ Len(q) \in Nat
  BY LenProperties
<1>2. q \in Surjection(DOMAIN q, ToSet(q))
  BY LenProperties DEF ToSet, Surjection
<1>3. IsFiniteSet(DOMAIN q)
  BY <1>1, FS_Interval
<1>4. IsFiniteSet(ToSet(q))
  BY <1>2, <1>3, FS_Surjection
<1>5. ToSet(q) \subseteq S
  BY <1>1, ElementOfSeq DEF ToSet
<1> QED BY <1>1, <1>4, <1>5 DEF ToSet

LEMMA AppendedQueue ==
    ASSUME NEW S, NEW q \in Seq(S), NEW e \in S
    PROVE  /\ Append(q, e) \in Seq(S) /\ ToSet(Append(q, e)) = ToSet(q) \cup {e}
           /\ IsInjective(q) /\ e \notin ToSet(q) => IsInjective(Append(q, e))
           /\ Append(q, e) # <<>>
           /\ q # <<>> => Head(Append(q, e)) = Head(q)
<1>1. /\ DOMAIN q = 1..Len(q) /\ Len(q) \in Nat
      /\ DOMAIN Append(q, e) = 1..(Len(q) + 1)
      /\ \A i \in 1..Len(q) : Append(q, e)[i] = q[i]
      /\ Append(q, e)[Len(q) + 1] = e
      /\ Append(q, e) \in Seq(S) /\ Append(q, e) # <<>>
  BY AppendProperties, LenProperties
<1>2. ToSet(Append(q, e)) = ToSet(q) \cup {e}
  BY <1>1 DEF ToSet
<1>3. IsInjective(q) /\ e \notin ToSet(q) => IsInjective(Append(q, e))
  BY <1>1 DEF ToSet, IsInjective
<1>4. q # <<>> => Head(Append(q, e)) = Head(q)
  BY HeadTailAppend
<1> QED BY <1>1, <1>2, <1>3, <1>4

LEMMA PrependedQueue ==
    ASSUME NEW S, NEW q \in Seq(S), NEW e \in S
    PROVE  /\ <<e>> \o q \in Seq(S) /\ ToSet(<<e>> \o q) = ToSet(q) \cup {e}
           /\ IsInjective(q) /\ e \notin ToSet(q) => IsInjective(<<e>> \o q)
           /\ <<e>> \o q # <<>> /\ Head(<<e>> \o q) = e
<1>1. <<e>> \in Seq(S) /\ Len(<<e>>) = 1 /\ <<e>>[1] = e
  OBVIOUS
<1>2. PICK r : r = <<e>> \o q
  OBVIOUS
<1>3. /\ r \in Seq(S) /\ Len(r) = Len(q) + 1 /\ Len(q) \in Nat
      /\ \A i \in 1..(Len(q) + 1) : r[i] = IF i = 1 THEN e ELSE q[i - 1]
  <2>1. Len(q) \in Nat
    BY LenProperties
  <2> QED BY <1>1, <1>2, <2>1, ConcatProperties
<1>4. DOMAIN r = 1..(Len(q) + 1) /\ DOMAIN q = 1..Len(q)
  BY <1>3, LenProperties
<1>5. r[1] = e /\ \A i \in 1..Len(q) : i + 1 \in DOMAIN r /\ r[i + 1] = q[i]
  BY <1>3, <1>4
<1>6. \A i \in DOMAIN r : i = 1 \/ (i - 1 \in 1..Len(q) /\ r[i] = q[i - 1])
  BY <1>3, <1>4
<1>7. ToSet(r) = ToSet(q) \cup {e}
  <2>1. ToSet(r) \subseteq ToSet(q) \cup {e}
    BY <1>4, <1>5, <1>6 DEF ToSet
  <2>2. 1 \in DOMAIN r
    BY <1>3, <1>4
  <2>3. ToSet(q) \cup {e} \subseteq ToSet(r)
    BY <1>4, <1>5, <2>2 DEF ToSet
  <2> QED BY <2>1, <2>3
<1>8. ASSUME IsInjective(q), e \notin ToSet(q)
      PROVE  IsInjective(r)
  <2>1. SUFFICES ASSUME NEW a \in DOMAIN r, NEW b \in DOMAIN r, r[a] = r[b] PROVE a = b
    BY DEF IsInjective
  <2>2. \A i \in 1..Len(q) : q[i] # e
    BY <1>4, <1>8 DEF ToSet
  <2>3. CASE a = 1
    BY <1>5, <1>6, <2>1, <2>2, <2>3
  <2>4. CASE b = 1
    BY <1>5, <1>6, <2>1, <2>2, <2>4
  <2>5. CASE a # 1 /\ b # 1
    <3>1. a - 1 \in DOMAIN q /\ b - 1 \in DOMAIN q /\ q[a - 1] = q[b - 1]
      BY <1>4, <1>6, <2>1, <2>5
    <3>2. a - 1 = b - 1
      BY <1>8, <3>1 DEF IsInjective
    <3> QED BY <1>3, <1>4, <3>2
  <2> QED BY <2>3, <2>4, <2>5
<1>9. r # <<>> /\ Head(r) = e
  <2>1. r # <<>>
    BY <1>3
  <2> QED BY <1>3, <1>5, <2>1
<1> QED BY <1>2, <1>3, <1>7, <1>8, <1>9

LEMMA TailOfQueue ==
    ASSUME NEW S, NEW q \in Seq(S), q # <<>>
    PROVE  /\ Tail(q) \in Seq(S) /\ Head(q) \in S
           /\ ToSet(q) = ToSet(Tail(q)) \cup {Head(q)}
           /\ IsInjective(q) => IsInjective(Tail(q)) /\ Head(q) \notin ToSet(Tail(q))
<1>1. PICK r : r = Tail(q)
  OBVIOUS
<1>2. /\ r \in Seq(S) /\ Len(q) \in Nat \ {0} /\ Len(r) = Len(q) - 1
      /\ \A i \in 1..Len(r) : r[i] = q[i + 1]
  BY <1>1, HeadTailProperties, EmptySeq
<1>3. DOMAIN r = 1..(Len(q) - 1) /\ DOMAIN q = 1..Len(q)
  BY <1>2, LenProperties
<1>4. Head(q) = q[1] /\ Head(q) \in S
  BY <1>2, HeadTailProperties
<1>5. \A i \in DOMAIN q : i = 1 \/ (i - 1 \in DOMAIN r /\ r[i - 1] = q[i])
  BY <1>2, <1>3
<1>6. \A i \in DOMAIN r : i + 1 \in DOMAIN q /\ r[i] = q[i + 1] /\ i + 1 # 1
  BY <1>2, <1>3
<1>7. ToSet(q) = ToSet(r) \cup {Head(q)}
  <2>1. ToSet(q) \subseteq ToSet(r) \cup {Head(q)}
    BY <1>4, <1>5 DEF ToSet
  <2>2. 1 \in DOMAIN q
    BY <1>2, <1>3
  <2>3. ToSet(r) \cup {Head(q)} \subseteq ToSet(q)
    BY <1>4, <1>6, <2>2 DEF ToSet
  <2> QED BY <2>1, <2>3
<1>8. ASSUME IsInjective(q)
      PROVE  IsInjective(r) /\ Head(q) \notin ToSet(r)
  <2>1. IsInjective(r)
    <3>1. SUFFICES ASSUME NEW a \in DOMAIN r, NEW b \in DOMAIN r, r[a] = r[b] PROVE a = b
      BY DEF IsInjective
    <3>2. a + 1 = b + 1
      BY <1>6, <1>8, <3>1 DEF IsInjective
    <3> QED BY <1>3, <3>2
  <2>2. ASSUME NEW i \in DOMAIN r PROVE r[i] # Head(q)
    <3>1. 1 \in DOMAIN q /\ i + 1 \in DOMAIN q /\ r[i] = q[i + 1] /\ i + 1 # 1
      BY <1>2, <1>3, <1>6
    <3> QED BY <1>4, <1>8, <3>1 DEF IsInjective
  <2> QED BY <2>1, <2>2 DEF ToSet
<1> QED BY <1>1, <1>2, <1>4, <1>7, <1>8

LEMMA RemovedFromQueue ==
    ASSUME NEW S, NEW q \in Seq(S), NEW n \in DOMAIN q
    PROVE  /\ RemoveAt(q, n) \in Seq(S)
           /\ IsInjective(q) => /\ IsInjective(RemoveAt(q, n))
                                /\ ToSet(RemoveAt(q, n)) = ToSet(q) \ {q[n]}
           /\ q[n] # Head(q) => RemoveAt(q, n) # <<>> /\ Head(RemoveAt(q, n)) = Head(q)
<1>1. DOMAIN q = 1..Len(q) /\ Len(q) \in Nat /\ n \in 1..Len(q)
  BY LenProperties
<1>2. PICK a, b, r : a = SubSeq(q, 1, n - 1) /\ b = SubSeq(q, n + 1, Len(q)) /\ r = a \o b
  OBVIOUS
<1>3. /\ a \in Seq(S) /\ Len(a) = n - 1
      /\ \A i \in 1..(n - 1) : a[i] = q[i]
  <2>1. \A i \in 1..(n - 1) : q[i] \in S
    BY <1>1, ElementOfSeq
  <2>2. 1 \in Int /\ n - 1 \in Int
    BY <1>1
  <2>3. /\ SubSeq(q, 1, n - 1) \in Seq(S)
        /\ Len(SubSeq(q, 1, n - 1)) = IF 1 <= n - 1 THEN (n - 1) - 1 + 1 ELSE 0
        /\ \A i \in 1..((n - 1) - 1 + 1) : SubSeq(q, 1, n - 1)[i] = q[1 + i - 1]
    BY <2>1, <2>2, SubSeqProperties
  <2> QED BY <1>1, <1>2, <2>3
<1>4. /\ b \in Seq(S) /\ Len(b) = Len(q) - n
      /\ \A i \in 1..(Len(q) - n) : b[i] = q[n + i]
  <2>1. \A i \in (n + 1)..Len(q) : q[i] \in S
    BY <1>1, ElementOfSeq
  <2>2. n + 1 \in Int /\ Len(q) \in Int
    BY <1>1
  <2>3. /\ SubSeq(q, n + 1, Len(q)) \in Seq(S)
        /\ Len(SubSeq(q, n + 1, Len(q))) = IF n + 1 <= Len(q) THEN Len(q) - (n + 1) + 1 ELSE 0
        /\ \A i \in 1..(Len(q) - (n + 1) + 1) : SubSeq(q, n + 1, Len(q))[i] = q[(n + 1) + i - 1]
    BY <2>1, <2>2, SubSeqProperties
  <2>4. b \in Seq(S) /\ Len(b) = Len(q) - n
    BY <1>1, <1>2, <2>3
  <2>5. ASSUME NEW i \in 1..(Len(q) - n) PROVE b[i] = q[n + i]
    <3>1. i \in 1..(Len(q) - (n + 1) + 1) /\ (n + 1) + i - 1 = n + i
      BY <1>1
    <3> QED BY <1>2, <2>3, <3>1
  <2> QED BY <2>4, <2>5
<1>5. /\ r \in Seq(S) /\ Len(r) = Len(q) - 1
      /\ \A i \in 1..(Len(q) - 1) : r[i] = IF i < n THEN q[i] ELSE q[i + 1]
  <2>1. /\ r \in Seq(S) /\ Len(r) = Len(a) + Len(b)
        /\ \A i \in 1..(Len(a) + Len(b)) : r[i] = IF i <= Len(a) THEN a[i] ELSE b[i - Len(a)]
    <3>1. a \in Seq(S) /\ b \in Seq(S)
      BY <1>3, <1>4
    <3> QED BY <1>2, <3>1, ConcatProperties
  <2>2. Len(r) = Len(q) - 1
    BY <1>1, <1>3, <1>4, <2>1
  <2>3. ASSUME NEW i \in 1..(Len(q) - 1) PROVE r[i] = IF i < n THEN q[i] ELSE q[i + 1]
    <3>1. CASE i < n
      BY <1>1, <1>3, <1>4, <2>1, <3>1
    <3>2. CASE ~(i < n)
      <4>1. i \in 1..(Len(a) + Len(b)) /\ ~(i <= Len(a)) /\ i - Len(a) \in 1..(Len(q) - n)
        BY <1>1, <1>3, <1>4, <3>2
      <4>2. r[i] = b[i - Len(a)] /\ b[i - Len(a)] = q[n + (i - Len(a))]
        BY <1>4, <2>1, <4>1
      <4> QED BY <1>1, <1>3, <3>2, <4>2
    <3> QED BY <3>1, <3>2
  <2> QED BY <2>1, <2>2, <2>3
<1>6. DOMAIN r = 1..(Len(q) - 1)
  BY <1>5, LenProperties
<1>7. ASSUME IsInjective(q) PROVE IsInjective(r)
  <2>1. SUFFICES ASSUME NEW i \in DOMAIN r, NEW j \in DOMAIN r, r[i] = r[j] PROVE i = j
    BY DEF IsInjective
  <2>2. PICK k, l : /\ k \in DOMAIN q /\ l \in DOMAIN q /\ r[i] = q[k] /\ r[j] = q[l]
                    /\ k = (IF i < n THEN i ELSE i + 1) /\ l = (IF j < n THEN j ELSE j + 1)
    BY <1>1, <1>5, <1>6
  <2>3. k = l
    BY <1>7, <2>1, <2>2 DEF IsInjective
  <2> QED BY <1>1, <1>6, <2>2, <2>3
<1>8. ASSUME IsInjective(q) PROVE ToSet(r) = ToSet(q) \ {q[n]}
  <2>1. ASSUME NEW i \in DOMAIN r PROVE r[i] \in ToSet(q) \ {q[n]}
    <3>1. PICK k : k \in DOMAIN q /\ k # n /\ r[i] = q[k]
      BY <1>1, <1>5, <1>6
    <3> QED BY <1>8, <3>1 DEF ToSet, IsInjective
  <2>2. ASSUME NEW k \in DOMAIN q, q[k] # q[n] PROVE q[k] \in ToSet(r)
    <3>1. PICK i : i = IF k < n THEN k ELSE k - 1
      OBVIOUS
    <3>2. i \in DOMAIN r /\ r[i] = q[k]
      BY <1>1, <1>5, <1>6, <2>2, <3>1
    <3> QED BY <3>2 DEF ToSet
  <2> QED BY <2>1, <2>2 DEF ToSet
<1>9. ASSUME q[n] # Head(q) PROVE r # <<>> /\ Head(r) = Head(q)
  <2>1. Head(q) = q[1] /\ n # 1
    BY <1>1, <1>9
  <2>2. Len(r) # 0 /\ 1 \in 1..(Len(q) - 1)
    BY <1>1, <1>5, <2>1
  <2>3. r # <<>> /\ r[1] = q[1]
    BY <1>1, <1>5, <2>1, <2>2
  <2> QED BY <1>5, <2>1, <2>3
<1> QED BY <1>2, <1>5, <1>7, <1>8, <1>9 DEF RemoveAt

-----------------------------------------------------------------------------
(* What the listeners and the uploader's callback do.                        *)

LEMMA OneIsTold ==
    ASSUME NEW x
    PROVE  IsFiniteSet({x}) /\ IsFiniteSet({} \cup {x}) /\ Cardinality({} \cup {x}) = 1
<1>1. {} \cup {x} = {x}
  OBVIOUS
<1>2. IsFiniteSet({x}) /\ Cardinality({x}) = 1
  BY FS_Singleton
<1> QED BY <1>1, <1>2

LEMMA ToldType ==
    ASSUME TypeInv, NEW oks \in SUBSET Files, NEW bads, NEW gone, IsFiniteSet(oks \cup bads),
           Told(oks, bads, gone)
    PROVE  /\ item' \in [Files -> {"none", "uploading", "uploaded", "failed", "removed"}]
           /\ count' \in Int /\ links' \subseteq Files
<1>1. item' \in [Files -> {"none", "uploading", "uploaded", "failed", "removed"}]
  BY DEF TypeInv, Told
<1>2. Cardinality(oks \cup bads) \in Nat
  BY FS_CardinalityType
<1>3. count' \in Int
  BY <1>2 DEF TypeInv, Told
<1> QED BY <1>1, <1>3 DEF TypeInv, Told

\* An attachment with a link keeps it: only one that is still uploading is removed
\* together with a call of its listener.
LEMMA ToldLinks ==
    ASSUME TypeInv, LinkInv, NEW oks \in SUBSET Files, NEW bads, NEW gone,
           Told(oks, bads, gone), shared \subseteq shared', oks \subseteq shared',
           \A f \in oks : item[f] # "removed" /\ f \notin gone,
           \A f \in gone : item[f] = "uploading"
    PROVE  LinkInv'
<1>1. SUFFICES ASSUME NEW f \in links \cup oks
               PROVE  f \in shared' /\ item'[f] \in {"uploaded", "failed"}
  BY DEF LinkInv, Told
<1>2. f \in Files
  BY DEF TypeInv
<1>3. item'[f] = IF item[f] = "removed" \/ f \in gone THEN "removed"
                 ELSE IF f \in oks THEN "uploaded"
                 ELSE IF f \in bads THEN "failed" ELSE item[f]
  BY <1>2 DEF Told
<1>4. CASE f \in oks
  BY <1>3, <1>4
<1>5. CASE f \in links
  BY <1>3, <1>5 DEF LinkInv
<1> QED BY <1>4, <1>5

\* The uploader's callback empties the queue, or goes on with the next file.
Empties(fl) ==
    /\ provider' = [provider EXCEPT !.uploadingFile = None, !.uploader = None,
                                    !.uploads = <<>>]
    /\ flights' = fl

GoesOn(rest, fl) ==
    /\ rest # <<>>
    /\ \E next \in Files : \E g :
         /\ next = Head(rest)
         /\ provider' = [provider EXCEPT !.uploads = rest, !.uploadingFile = next,
                                         !.uploader = next, !.requestObserver = Chained]
         /\ flights' = fl \cup {g} /\ g.file = next /\ g.observer = Chained
         /\ g.kind \notin {"put", "share"}

LEMMA CallbackCases ==
    ASSUME TypeInv, NEW oks, NEW bads, NEW gone, NEW fl, UploaderCallback(oks, bads, gone, fl)
    PROVE  \E rest \in Seq(Files) :
             /\ rest = IF provider.uploads = <<>> THEN <<>> ELSE Tail(provider.uploads)
             /\ \/ Empties(fl) /\ Told(oks, bads \cup ToSet(rest), gone)
                \/ GoesOn(rest, fl) /\ Told(oks, bads, gone)
<1>1. provider.uploads \in Seq(Files)
  BY DEF TypeInv
<1>2. PICK rest : rest = IF provider.uploads = <<>> THEN <<>> ELSE Tail(provider.uploads)
  OBVIOUS
<1>3. rest \in Seq(Files)
  BY <1>1, <1>2, EmptySeq, HeadTailProperties
<1>4. CASE rest = <<>> \/ offline
  <2>1. Empties(fl) /\ Told(oks, bads \cup ToSet(rest), gone)
    BY <1>2, <1>3, <1>4 DEF UploaderCallback, Empties
  <2> QED BY <1>2, <1>3, <2>1
<1>5. CASE ~(rest = <<>> \/ offline)
  <2>1. PICK next : next = Head(rest)
    OBVIOUS
  <2>2. next \in Files
    BY <1>3, <1>5, <2>1, HeadTailProperties
  <2>3. PICK g : g = First(next, Chained)
    OBVIOUS
  <2>4. g.file = next /\ g.observer = Chained /\ g.kind \notin {"put", "share"}
    BY <2>3 DEF First, Flight
  <2>5. /\ provider' = [provider EXCEPT !.uploads = rest, !.uploadingFile = next,
                                        !.uploader = next, !.requestObserver = Chained]
        /\ flights' = fl \cup {g} /\ Told(oks, bads, gone)
    BY <1>2, <1>5, <2>1, <2>3 DEF UploaderCallback
  <2>6. GoesOn(rest, fl)
    BY <1>5, <2>1, <2>2, <2>4, <2>5 DEF GoesOn
  <2> QED BY <1>2, <1>3, <2>5, <2>6
<1> QED BY <1>4, <1>5

\* Whichever it does, the listeners of oks are told a success, others a failure.
LEMMA CallbackTells ==
    ASSUME TypeInv, NEW oks, NEW bads, NEW gone, NEW fl, UploaderCallback(oks, bads, gone, fl),
           IsFiniteSet(bads)
    PROVE  \E b : IsFiniteSet(b) /\ Told(oks, b, gone)
<1>1. PICK rest \in Seq(Files) : Told(oks, bads \cup ToSet(rest), gone) \/ Told(oks, bads, gone)
  BY CallbackCases
<1>2. IsFiniteSet(bads \cup ToSet(rest))
  BY SetOfQueue, FS_Union
<1> QED BY <1>1, <1>2

LEMMA CallbackType ==
    ASSUME TypeInv, NEW oks \in SUBSET Files, NEW bads, NEW gone, NEW fl \in SUBSET flights,
           UploaderCallback(oks, bads, gone, fl), IsFiniteSet(oks), IsFiniteSet(bads),
           shared' \subseteq Files
    PROVE  TypeInv'
<1>1. PICK b : IsFiniteSet(b) /\ Told(oks, b, gone)
  BY CallbackTells
<1>2. IsFiniteSet(oks \cup b)
  BY <1>1, FS_Union
<1>3. /\ item' \in [Files -> {"none", "uploading", "uploaded", "failed", "removed"}]
      /\ count' \in Int /\ links' \subseteq Files
  BY <1>1, <1>2, ToldType
<1>4. PICK rest \in Seq(Files) : Empties(fl) \/ GoesOn(rest, fl)
  BY CallbackCases
<1>5. <<>> \in Seq(Files)
  BY EmptySeq
<1>6. CASE Empties(fl)
  BY <1>3, <1>5, <1>6 DEF TypeInv, Empties
<1>7. CASE GoesOn(rest, fl)
  <2>1. PICK next, g :
          /\ next \in Files
          /\ provider' = [provider EXCEPT !.uploads = rest, !.uploadingFile = next,
                                          !.uploader = next, !.requestObserver = Chained]
          /\ flights' = fl \cup {g} /\ g.file = next /\ g.observer = Chained
    BY <1>7 DEF GoesOn
  <2>2. provider' \in [loggedIn : BOOLEAN, requestObserver : Files \cup {None, Chained},
                       uploadingFile : Files \cup {None}, uploader : Files \cup {None},
                       uploads : Seq(Files)]
    BY <2>1 DEF TypeInv
  <2>3. \A h \in flights' : h.file \in Files /\ h.observer \in Files \cup {Chained}
    BY <2>1 DEF TypeInv
  <2> QED BY <1>1, <1>3, <2>2, <2>3 DEF TypeInv
<1> QED BY <1>4, <1>6, <1>7

-----------------------------------------------------------------------------
(* Type correctness.                                                         *)

LEMMA TypeInit == Init => TypeInv
<1> SUFFICES ASSUME Init PROVE TypeInv
  OBVIOUS
<1>1. <<>> \in Seq(Files)
  BY EmptySeq
<1>2. provider \in [loggedIn : BOOLEAN, requestObserver : Files \cup {None, Chained},
                    uploadingFile : Files \cup {None}, uploader : Files \cup {None},
                    uploads : Seq(Files)]
  BY <1>1 DEF Init
<1>3. item \in [Files -> {"none", "uploading", "uploaded", "failed", "removed"}]
  BY DEF Init
<1> QED BY <1>2, <1>3 DEF Init, TypeInv

LEMMA AttachType ==
    ASSUME TypeInv, NEW f \in Files, Attach(f)
    PROVE  TypeInv'
<1>1. CASE offline
  BY <1>1 DEF Attach, TypeInv
<1>2. CASE ~offline /\ provider.uploadingFile # None
  <2>1. Append(provider.uploads, f) \in Seq(Files)
    BY AppendedQueue DEF TypeInv
  <2>2. /\ item' = [item EXCEPT ![f] = "uploading"] /\ count' = count + 1
        /\ provider' = [provider EXCEPT !.requestObserver = f,
                                        !.uploads = Append(provider.uploads, f)]
        /\ UNCHANGED <<links, shared, flights>>
    BY <1>2 DEF Attach
  <2>3. provider' \in [loggedIn : BOOLEAN, requestObserver : Files \cup {None, Chained},
                       uploadingFile : Files \cup {None}, uploader : Files \cup {None},
                       uploads : Seq(Files)]
    BY <2>1, <2>2 DEF TypeInv
  <2> QED BY <2>2, <2>3 DEF TypeInv
<1>3. CASE ~offline /\ provider.uploadingFile = None
  <2>1. PICK g : g = First(f, f)
    OBVIOUS
  <2>2. g.file = f /\ g.observer = f
    BY <2>1 DEF First, Flight
  <2>3. /\ item' = [item EXCEPT ![f] = "uploading"] /\ count' = count + 1
        /\ provider' = [provider EXCEPT !.requestObserver = f, !.uploadingFile = f]
        /\ flights' = flights \cup {g}
        /\ UNCHANGED <<links, shared>>
    BY <1>3, <2>1 DEF Attach
  <2>4. provider' \in [loggedIn : BOOLEAN, requestObserver : Files \cup {None, Chained},
                       uploadingFile : Files \cup {None}, uploader : Files \cup {None},
                       uploads : Seq(Files)]
    BY <2>3 DEF TypeInv
  <2> QED BY <2>2, <2>3, <2>4 DEF TypeInv
<1> QED BY <1>1, <1>2, <1>3

LEMMA RefusedType ==
    ASSUME TypeInv, NEW fl \in flights, Refused(fl), UNCHANGED shared
    PROVE  TypeInv'
<1>1. /\ provider' = [provider EXCEPT !.loggedIn = @ /\ fl.kind # "logon"]
      /\ flights' = flights \ {fl}
  BY DEF Refused
<1>2. CASE UNCHANGED compose
  BY <1>1, <1>2 DEF TypeInv, compose
<1>3. CASE Told({}, {provider.requestObserver}, {})
  <2>1. PICK x : x = provider.requestObserver
    OBVIOUS
  <2>2. IsFiniteSet({} \cup {x}) /\ Told({}, {x}, {})
    BY <1>3, <2>1, OneIsTold
  <2>3. /\ item' \in [Files -> {"none", "uploading", "uploaded", "failed", "removed"}]
        /\ count' \in Int /\ links' \subseteq Files
    BY <2>2, ToldType
  <2> QED BY <1>1, <2>3 DEF TypeInv
<1> QED BY <1>2, <1>3 DEF Refused

LEMMA LogonType ==
    ASSUME TypeInv, NEW fl \in flights, LogonAnswer(fl)
    PROVE  TypeInv'
<1>1. CASE /\ provider' = [provider EXCEPT !.loggedIn = TRUE]
           /\ flights' = (flights \ {fl}) \cup {Flight("info", fl.file, fl.observer)}
           /\ UNCHANGED <<compose, astray>>
  <2>1. PICK g : g = Flight("info", fl.file, fl.observer)
    OBVIOUS
  <2>2. g.file \in Files /\ g.observer \in Files \cup {Chained}
    BY <2>1 DEF Flight, TypeInv
  <2> QED BY <1>1, <2>1, <2>2 DEF LogonAnswer, TypeInv, compose
<1>2. CASE Refused(fl)
  BY <1>2, RefusedType DEF LogonAnswer
<1> QED BY <1>1, <1>2 DEF LogonAnswer

\* _finishUpload: the uploader u sends its file, with the queue q and the request g, or
\* the file is over the quota.
Sends(fl, u, q, g) ==
    /\ \/ provider.uploader = None /\ u = fl.file /\ q = <<u>> \o provider.uploads
       \/ provider.uploader = u /\ q = provider.uploads
    /\ provider' = [provider EXCEPT !.uploader = u, !.uploadingFile = fl.file, !.uploads = q]
    /\ flights' = (flights \ {fl}) \cup {g} /\ g.file = u /\ g.observer = u
    /\ UNCHANGED <<compose, astray>>

OverQuota(fl) ==
    /\ flights' = flights \ {fl} /\ astray' = TRUE /\ UNCHANGED provider
    /\ UNCHANGED compose \/ Told({}, {fl.observer}, {})

LEMMA FinishCases ==
    ASSUME TypeInv, NEW fl \in flights, FinishUpload(fl)
    PROVE  (\E u \in Files, q \in Seq(Files) : \E g : Sends(fl, u, q, g)) \/ OverQuota(fl)
<1>1. PICK u : u = IF provider.uploader = None THEN fl.file ELSE provider.uploader
  OBVIOUS
<1>2. u \in Files /\ provider.uploads \in Seq(Files)
  BY <1>1 DEF TypeInv
<1>3. PICK q : q = IF provider.uploader = None THEN <<u>> \o provider.uploads ELSE provider.uploads
  OBVIOUS
<1>4. q \in Seq(Files)
  BY <1>2, <1>3, PrependedQueue
<1>5. PICK g : g = Flight("put", u, u)
  OBVIOUS
<1>6. g.file = u /\ g.observer = u
  BY <1>5 DEF Flight
<1>7. CASE /\ provider' = [provider EXCEPT !.uploader = u, !.uploadingFile = fl.file,
                              !.uploads = q]
           /\ flights' = (flights \ {fl}) \cup {g}
           /\ UNCHANGED <<compose, astray>>
  <2>1. Sends(fl, u, q, g)
    BY <1>1, <1>3, <1>6, <1>7 DEF Sends
  <2> QED BY <1>2, <1>4, <2>1
<1>8. CASE /\ flights' = flights \ {fl} /\ astray' = TRUE /\ UNCHANGED provider
           /\ UNCHANGED compose \/ Told({}, {fl.observer}, {})
  BY <1>8 DEF OverQuota
<1> QED BY <1>1, <1>3, <1>5, <1>7, <1>8 DEF FinishUpload

LEMMA InfoType ==
    ASSUME TypeInv, NEW fl \in flights, InfoAnswer(fl)
    PROVE  TypeInv'
<1>1. CASE Refused(fl)
  BY <1>1, RefusedType DEF InfoAnswer
<1>2. CASE FinishUpload(fl)
  <2>1. ASSUME NEW u \in Files, NEW q \in Seq(Files), NEW g, Sends(fl, u, q, g)
        PROVE  TypeInv'
    BY <2>1 DEF Sends, InfoAnswer, TypeInv, compose
  <2>2. CASE OverQuota(fl)
    <3>1. CASE UNCHANGED compose
      BY <2>2, <3>1 DEF OverQuota, InfoAnswer, TypeInv, compose
    <3>2. CASE Told({}, {fl.observer}, {})
      <4>1. PICK x : x = fl.observer
        OBVIOUS
      <4>2. IsFiniteSet({} \cup {x}) /\ Told({}, {x}, {})
        BY <3>2, <4>1, OneIsTold
      <4>3. /\ item' \in [Files -> {"none", "uploading", "uploaded", "failed", "removed"}]
            /\ count' \in Int /\ links' \subseteq Files
        BY <4>2, ToldType
      <4> QED BY <2>2, <4>3 DEF OverQuota, InfoAnswer, TypeInv
    <3> QED BY <2>2, <3>1, <3>2 DEF OverQuota
  <2> QED BY <1>2, <2>1, <2>2, FinishCases
<1> QED BY <1>1, <1>2 DEF InfoAnswer

LEMMA PutType ==
    ASSUME TypeInv, NEW fl \in flights, PutAnswer(fl)
    PROVE  TypeInv'
<1>1. CASE /\ flights' = (flights \ {fl}) \cup {Flight("share", fl.file, fl.file)}
           /\ UNCHANGED <<compose, provider>>
  <2>1. PICK g : g = Flight("share", fl.file, fl.file)
    OBVIOUS
  <2>2. g.file \in Files /\ g.observer \in Files \cup {Chained}
    BY <2>1 DEF Flight, TypeInv
  <2> QED BY <1>1, <2>1, <2>2 DEF PutAnswer, TypeInv, compose
<1>2. CASE UploaderCallback({}, {fl.file}, {}, flights \ {fl})
  <2>1. PICK b, r : b = {fl.file} /\ r = flights \ {fl}
    OBVIOUS
  <2>2. IsFiniteSet(b) /\ IsFiniteSet({})
    BY <2>1, FS_Singleton, FS_EmptySet
  <2>3. shared' \subseteq Files
    BY DEF PutAnswer, TypeInv
  <2>4. UploaderCallback({}, b, {}, r) /\ r \in SUBSET flights
    BY <1>2, <2>1
  <2> QED BY <2>2, <2>3, <2>4, CallbackType
<1> QED BY <1>1, <1>2 DEF PutAnswer

\* _getShareUrl: the listener is told a success or a failure.
LEMMA ShareCases ==
    ASSUME TypeInv, NEW fl \in flights, ShareAnswer(fl)
    PROVE  \E oks, bads, r :
             /\ oks \subseteq {fl.file} /\ bads = {fl.file} \ oks /\ r = flights \ {fl}
             /\ \A f \in oks : item[f] # "removed"
             /\ oks \subseteq shared' /\ shared \subseteq shared' /\ shared' \subseteq Files
             /\ UploaderCallback(oks, bads, {}, r)
<1>1. fl.file \in Files /\ shared \subseteq Files
  BY DEF TypeInv
<1>2. PICK r : r = flights \ {fl}
  OBVIOUS
<1>3. CASE /\ shared' = shared \cup {fl.file}
           /\ LET oks == {f \in {fl.file} : item[f] # "removed"}
              IN  UploaderCallback(oks, {fl.file} \ oks, {}, flights \ {fl})
  <2>1. PICK oks, bads : /\ oks = {f \in {fl.file} : item[f] # "removed"}
                         /\ bads = {fl.file} \ oks
    OBVIOUS
  <2>2. UploaderCallback(oks, bads, {}, r)
    BY <1>2, <1>3, <2>1
  <2> QED BY <1>1, <1>2, <1>3, <2>1, <2>2
<1>4. CASE UploaderCallback({}, {fl.file}, {}, flights \ {fl}) /\ UNCHANGED shared
  <2>1. PICK oks, bads : oks = {} /\ bads = {fl.file} \ oks
    OBVIOUS
  <2>2. bads = {fl.file}
    BY <2>1
  <2>3. UploaderCallback(oks, bads, {}, r)
    BY <1>2, <1>4, <2>1, <2>2
  <2> QED BY <1>1, <1>2, <1>4, <2>1, <2>3
<1> QED BY <1>3, <1>4 DEF ShareAnswer

LEMMA ShareType ==
    ASSUME TypeInv, NEW fl \in flights, ShareAnswer(fl)
    PROVE  TypeInv'
<1>1. PICK oks, bads, r :
        /\ oks \subseteq {fl.file} /\ bads = {fl.file} \ oks /\ r = flights \ {fl}
        /\ shared' \subseteq Files
        /\ UploaderCallback(oks, bads, {}, r)
  BY ShareCases
<1>2. IsFiniteSet(oks) /\ IsFiniteSet(bads)
  BY <1>1, FS_Singleton, FS_Subset
<1>3. oks \in SUBSET Files /\ r \in SUBSET flights
  BY <1>1 DEF TypeInv
<1> QED BY <1>1, <1>2, <1>3, CallbackType

\* cancelFileUpload: what it does with the queue and whom it tells.
LEMMA CancelCases ==
    ASSUME TypeInv, NEW f \in Files, NEW gone \in SUBSET {f}, CancelFileUpload(f, gone)
    PROVE  /\ item[f] = "uploading" /\ UNCHANGED shared /\ (astray => astray')
           /\ \/ /\ \E i \in DOMAIN provider.uploads :
                      /\ provider.uploads[i] = f
                      /\ provider' = [provider EXCEPT !.uploads = RemoveAt(@, i)]
                 /\ provider.uploadingFile # f
                 /\ Told({}, {f}, gone) /\ UNCHANGED flights
              \/ /\ \/ provider.uploadingFile = f /\ provider.uploader = None
                    \/ provider.uploadingFile # f /\ f \notin ToSet(provider.uploads)
                 /\ Told({}, {}, gone) /\ UNCHANGED <<provider, flights>>
              \/ /\ provider.uploader \in Files /\ astray' = TRUE
                 /\ UploaderCallback({}, {provider.uploader}, gone, flights)
<1>1. provider.uploader \in Files \cup {None}
  BY DEF TypeInv
<1>2. CASE provider.uploadingFile # f
  <2>1. /\ item[f] = "uploading" /\ (astray => astray') /\ UNCHANGED shared
        /\ \/ \E i \in DOMAIN provider.uploads :
                /\ provider.uploads[i] = f
                /\ provider' = [provider EXCEPT !.uploads = RemoveAt(@, i)]
                /\ Told({}, {f}, gone) /\ UNCHANGED flights
           \/ /\ f \notin ToSet(provider.uploads)
              /\ Told({}, {}, gone) /\ UNCHANGED <<provider, flights>>
    BY <1>2 DEF CancelFileUpload
  <2> QED BY <1>2, <2>1
<1>3. CASE provider.uploadingFile = f /\ provider.uploader = None
  <2>1. /\ item[f] = "uploading" /\ (astray => astray') /\ UNCHANGED shared
        /\ Told({}, {}, gone) /\ UNCHANGED <<provider, flights>>
    BY <1>3 DEF CancelFileUpload
  <2> QED BY <1>3, <2>1
<1>4. CASE provider.uploadingFile = f /\ provider.uploader # None
  BY <1>1, <1>4, ZenonT(30) DEF CancelFileUpload
<1> QED BY <1>2, <1>3, <1>4

LEMMA CancelType ==
    ASSUME TypeInv, NEW f \in Files, NEW gone \in SUBSET {f}, CancelFileUpload(f, gone)
    PROVE  TypeInv'
<1>1. CASE /\ \E i \in DOMAIN provider.uploads :
                 provider' = [provider EXCEPT !.uploads = RemoveAt(@, i)]
           /\ Told({}, {f}, gone) /\ UNCHANGED <<flights, shared>>
  <2>1. PICK i \in DOMAIN provider.uploads :
          provider' = [provider EXCEPT !.uploads = RemoveAt(@, i)]
    BY <1>1
  <2>2. RemoveAt(provider.uploads, i) \in Seq(Files)
    BY RemovedFromQueue DEF TypeInv
  <2>3. PICK b : b = {f}
    OBVIOUS
  <2>4. IsFiniteSet({} \cup b)
    BY <2>3, FS_Singleton
  <2>5. /\ item' \in [Files -> {"none", "uploading", "uploaded", "failed", "removed"}]
        /\ count' \in Int /\ links' \subseteq Files
    BY <1>1, <2>3, <2>4, ToldType
  <2> QED BY <1>1, <2>1, <2>2, <2>5 DEF TypeInv
<1>2. CASE Told({}, {}, gone) /\ UNCHANGED <<provider, flights, shared>>
  <2>1. IsFiniteSet({} \cup {})
    BY FS_EmptySet
  <2>2. /\ item' \in [Files -> {"none", "uploading", "uploaded", "failed", "removed"}]
        /\ count' \in Int /\ links' \subseteq Files
    BY <1>2, <2>1, ToldType
  <2> QED BY <1>2, <2>2 DEF TypeInv
<1>3. CASE UploaderCallback({}, {provider.uploader}, gone, flights) /\ UNCHANGED shared
  <2>1. PICK b, fl : b = {provider.uploader} /\ fl = flights
    OBVIOUS
  <2>2. IsFiniteSet(b) /\ IsFiniteSet({})
    BY <2>1, FS_Singleton, FS_EmptySet
  <2>3. shared' \subseteq Files
    BY <1>3 DEF TypeInv
  <2>4. UploaderCallback({}, b, gone, fl) /\ fl \in SUBSET flights
    BY <1>3, <2>1
  <2> QED BY <2>2, <2>3, <2>4, CallbackType
<1> QED BY <1>1, <1>2, <1>3, CancelCases

LEMMA TypeNext == TypeInv /\ [Next]_vars => TypeInv'
<1> SUFFICES ASSUME TypeInv, [Next]_vars PROVE TypeInv'
  OBVIOUS
<1>1. CASE Answer
  BY <1>1, LogonType, InfoType, PutType, ShareType DEF Answer
<1>2. CASE Toggle
  BY <1>2 DEF Toggle, TypeInv, compose
<1>3. ASSUME NEW f \in Files, Attach(f) PROVE TypeInv'
  BY <1>3, AttachType
<1>4. ASSUME NEW f \in Files, RemoveAttachment(f) PROVE TypeInv'
  BY <1>4 DEF RemoveAttachment, TypeInv
<1>5. ASSUME NEW f \in Files, NEW gone \in SUBSET {f}, CancelFileUpload(f, gone) PROVE TypeInv'
  BY <1>5, CancelType
<1>6. CASE UNCHANGED vars
  BY <1>6 DEF vars, compose, TypeInv
<1> QED BY <1>1, <1>2, <1>3, <1>4, <1>5, <1>6 DEF Next

-----------------------------------------------------------------------------
(* The links in the message.                                                *)

LEMMA LinksNext == TypeInv /\ LinkInv /\ [Next]_vars => LinkInv'
<1> SUFFICES ASSUME TypeInv, LinkInv, [Next]_vars PROVE LinkInv'
  OBVIOUS
<1>1. CASE UNCHANGED <<item, links, shared>>
  BY <1>1 DEF LinkInv
<1>2. ASSUME NEW oks \in SUBSET Files, NEW bads, NEW gone, Told(oks, bads, gone),
             shared \subseteq shared', oks \subseteq shared',
             \A f \in oks : item[f] # "removed" /\ f \notin gone,
             \A f \in gone : item[f] = "uploading"
      PROVE  LinkInv'
  BY <1>2, ToldLinks
<1>3. ASSUME NEW fl \in flights, Refused(fl), UNCHANGED shared PROVE LinkInv'
  BY <1>1, <1>2, <1>3 DEF Refused, compose
<1>4. ASSUME NEW fl \in flights, LogonAnswer(fl) PROVE LinkInv'
  BY <1>1, <1>3, <1>4 DEF LogonAnswer, compose
<1>5. ASSUME NEW fl \in flights, InfoAnswer(fl) PROVE LinkInv'
  <2>1. shared' = shared
    BY <1>5 DEF InfoAnswer
  <2>2. CASE Refused(fl)
    BY <1>3, <2>1, <2>2
  <2>3. CASE FinishUpload(fl)
    <3>1. UNCHANGED compose \/ Told({}, {fl.observer}, {})
      BY <2>3 DEF FinishUpload
    <3> QED BY <1>1, <1>2, <2>1, <3>1 DEF compose
  <2> QED BY <1>5, <2>2, <2>3 DEF InfoAnswer
<1>6. ASSUME NEW fl \in flights, PutAnswer(fl) PROVE LinkInv'
  <2>1. shared' = shared
    BY <1>6 DEF PutAnswer
  <2>2. CASE UNCHANGED <<compose, provider>>
    BY <1>1, <2>1, <2>2 DEF compose
  <2>3. CASE UploaderCallback({}, {fl.file}, {}, flights \ {fl})
    <3>1. PICK b : Told({}, b, {})
      BY <2>3, CallbackTells, OneIsTold
    <3> QED BY <1>2, <2>1, <3>1
  <2> QED BY <1>6, <2>2, <2>3 DEF PutAnswer
<1>7. ASSUME NEW fl \in flights, ShareAnswer(fl) PROVE LinkInv'
  <2>1. PICK oks, bads, r :
          /\ oks \subseteq {fl.file} /\ bads = {fl.file} \ oks
          /\ \A f \in oks : item[f] # "removed"
          /\ oks \subseteq shared' /\ shared \subseteq shared'
          /\ UploaderCallback(oks, bads, {}, r)
    BY <1>7, ShareCases
  <2>2. IsFiniteSet(bads)
    BY <2>1, OneIsTold, FS_Subset
  <2>3. PICK b : Told(oks, b, {})
    BY <2>1, <2>2, CallbackTells
  <2>4. oks \in SUBSET Files
    BY <2>1 DEF TypeInv
  <2> QED BY <1>2, <2>1, <2>3, <2>4
<1>8. ASSUME NEW f \in Files, Attach(f) PROVE LinkInv'
  <2>1. item' \in {[item EXCEPT ![f] = "failed"], [item EXCEPT ![f] = "uploading"]}
    BY <1>8 DEF Attach
  <2>2. item[f] = "none" /\ UNCHANGED <<links, shared>>
    BY <1>8 DEF Attach
  <2>3. ASSUME NEW g \in links PROVE g \in shared' /\ item'[g] \in {"uploaded", "failed"}
    <3>1. g \in Files /\ g # f
      BY <2>2 DEF TypeInv, LinkInv
    <3> QED BY <2>1, <2>2, <3>1 DEF TypeInv, LinkInv
  <2> QED BY <2>2, <2>3 DEF LinkInv
<1>9. ASSUME NEW f \in Files, RemoveAttachment(f) PROVE LinkInv'
  BY <1>9 DEF RemoveAttachment, TypeInv, LinkInv
<1>10. ASSUME NEW f \in Files, NEW gone \in SUBSET {f}, CancelFileUpload(f, gone) PROVE LinkInv'
  <2>1. item[f] = "uploading" /\ shared' = shared
    BY <1>10, CancelCases
  <2>2. PICK b : Told({}, b, gone)
    <3>1. CASE Told({}, {f}, gone) \/ Told({}, {}, gone)
      BY <3>1
    <3>2. CASE UploaderCallback({}, {provider.uploader}, gone, flights)
      BY <3>2, CallbackTells, OneIsTold
    <3> QED BY <1>10, <3>1, <3>2, CancelCases
  <2> QED BY <1>2, <2>1, <2>2
<1>11. CASE Toggle
  BY <1>1, <1>11 DEF Toggle, compose
<1>12. CASE UNCHANGED vars
  BY <1>1, <1>12 DEF vars, compose
<1> QED BY <1>4, <1>5, <1>6, <1>7, <1>8, <1>9, <1>10, <1>11, <1>12 DEF Next, Answer

-----------------------------------------------------------------------------
(* The counter, as long as nothing has gone astray.                          *)

LEMMA WaitingFiles ==
    ASSUME TypeInv
    PROVE  Waiting \subseteq Files /\ IsFiniteSet(Waiting)
<1>1. provider.uploads \in Seq(Files) /\ provider.uploadingFile \in Files \cup {None}
  BY DEF TypeInv
<1>2. ToSet(provider.uploads) \subseteq Files /\ IsFiniteSet(ToSet(provider.uploads))
  BY <1>1, SetOfQueue
<1>3. PICK x : x = provider.uploadingFile
  OBVIOUS
<1>4. IsFiniteSet(ToSet(provider.uploads) \cup {x})
  BY <1>2, FS_AddElement
<1>5. IsFiniteSet(Waiting)
  BY <1>3, <1>4, FS_RemoveElement DEF Waiting
<1> QED BY <1>1, <1>2, <1>5 DEF Waiting

\* Who is told no longer waits, and is counted down; who is not goes on waiting.
LEMMA ToldWaits ==
    ASSUME TypeInv, SendWaitsForUploads, NEW oks, NEW bads, NEW gone, Told(oks, bads, gone),
           NEW t, t = oks \cup bads, t \subseteq Waiting, Waiting' = Waiting \ t
    PROVE  SendWaitsForUploads'
<1>1. PICK w : w = Waiting
  OBVIOUS
<1>2. w \subseteq Files /\ IsFiniteSet(w) /\ count = Cardinality(w)
  BY <1>1, WaitingFiles DEF SendWaitsForUploads
<1>3. count' = Cardinality(w \ t)
  <2>1. IsFiniteSet(t) /\ Cardinality(t) \in Nat /\ Cardinality(w) \in Nat
    BY <1>1, <1>2, FS_Subset, FS_CardinalityType
  <2>2. Cardinality(w \ t) = Cardinality(w) - Cardinality(w \cap t) /\ w \cap t = t
    BY <1>1, <1>2, FS_Difference
  <2> QED BY <1>2, <2>1, <2>2 DEF Told
<1>4. \A f \in Files : item'[f] = IF item[f] = "removed" \/ f \in gone THEN "removed"
                                  ELSE IF f \in oks THEN "uploaded"
                                  ELSE IF f \in bads THEN "failed" ELSE item[f]
  BY DEF Told
<1>5. \A f \in Files : item'[f] = "uploading" => f \in w \ t
  BY <1>1, <1>4 DEF SendWaitsForUploads
<1>6. \A f \in w \ t : item'[f] \in {"uploading", "removed"}
  BY <1>1, <1>2, <1>4 DEF SendWaitsForUploads
<1> QED BY <1>1, <1>3, <1>5, <1>6 DEF SendWaitsForUploads

LEMMA SameWaits ==
    ASSUME SendWaitsForUploads, Waiting' = Waiting, UNCHANGED <<item, count>>
    PROVE  SendWaitsForUploads'
BY DEF SendWaitsForUploads

\* The uploader of the only request under way calls back.
LEMMA CallbackWaits ==
    ASSUME TypeInv, QueueInv, SendWaitsForUploads, provider.uploader # None,
           NEW oks, NEW bads, NEW r, r = {}, oks \cup bads = {provider.uploadingFile},
           UploaderCallback(oks, bads, {}, r)
    PROVE  QueueInv' /\ SendWaitsForUploads'
<1>1. PICK q, h : q = provider.uploads /\ h = provider.uploadingFile
  OBVIOUS
<1>2. /\ q \in Seq(Files) /\ q # <<>> /\ h = Head(q) /\ IsInjective(q) /\ None \notin Files
  BY <1>1, ConstantsAssumption DEF TypeInv, QueueInv
<1>3. PICK rest \in Seq(Files) :
        /\ rest = Tail(q)
        /\ \/ Empties(r) /\ Told(oks, bads \cup ToSet(rest), {})
           \/ GoesOn(rest, r) /\ Told(oks, bads, {})
  BY <1>1, <1>2, CallbackCases
<1>4. /\ ToSet(q) = ToSet(rest) \cup {h} /\ h \notin ToSet(rest) /\ IsInjective(rest)
      /\ h \in Files /\ ToSet(rest) \subseteq Files
  BY <1>2, <1>3, TailOfQueue, SetOfQueue
<1>5. Waiting = ToSet(rest) \cup {h}
  BY <1>1, <1>2, <1>4 DEF Waiting
<1>6. CASE Empties(r) /\ Told(oks, bads \cup ToSet(rest), {})
  <2>1. /\ provider'.uploads = <<>> /\ provider'.uploadingFile = None
        /\ provider'.uploader = None /\ flights' = {}
    BY <1>6 DEF Empties, TypeInv
  <2>2. ToSet(<<>>) = {} /\ IsInjective(<<>>)
    BY DEF ToSet, IsInjective
  <2>3. Waiting' = {}
    BY <2>1, <2>2 DEF Waiting
  <2>4. QueueInv'
    BY <2>1, <2>2 DEF QueueInv
  <2>5. PICK b, t : b = bads \cup ToSet(rest) /\ t = oks \cup b
    OBVIOUS
  <2>6. t = Waiting /\ Waiting' = Waiting \ t /\ Told(oks, b, {})
    BY <1>1, <1>5, <1>6, <2>3, <2>5
  <2> QED BY <2>4, <2>5, <2>6, ToldWaits
<1>7. CASE GoesOn(rest, r) /\ Told(oks, bads, {})
  <2>1. PICK next, g :
          /\ next \in Files /\ next = Head(rest) /\ rest # <<>>
          /\ provider' = [provider EXCEPT !.uploads = rest, !.uploadingFile = next,
                                          !.uploader = next, !.requestObserver = Chained]
          /\ flights' = {g} /\ g.file = next /\ g.kind \notin {"put", "share"}
    BY <1>7 DEF GoesOn
  <2>2. /\ provider'.uploads = rest /\ provider'.uploadingFile = next
        /\ provider'.uploader = next
    BY <2>1 DEF TypeInv
  <2>3. QueueInv'
    BY <1>4, <2>1, <2>2 DEF QueueInv
  <2>4. next \in ToSet(rest)
    BY <2>1, TailOfQueue
  <2>5. Waiting' = Waiting \ {h}
    BY <1>2, <1>4, <1>5, <2>2, <2>4 DEF Waiting
  <2>6. PICK t : t = oks \cup bads
    OBVIOUS
  <2>7. t = {h} /\ t \subseteq Waiting /\ Waiting' = Waiting \ t
    BY <1>1, <1>5, <2>5, <2>6
  <2> QED BY <1>7, <2>3, <2>6, <2>7, ToldWaits
<1> QED BY <1>3, <1>6, <1>7

Agree == QueueInv /\ SendWaitsForUploads

\* What QueueInv says when a request is answered: it is the only one.
LEMMA OnlyRequest ==
    ASSUME TypeInv, QueueInv, NEW fl \in flights
    PROVE  /\ flights \ {fl} = {} /\ fl.file = provider.uploadingFile
           /\ provider.uploadingFile \in Files
           /\ fl.kind \in {"put", "share"} => provider.uploader # None
           /\ \/ /\ provider.uploader = None
                 /\ provider.uploadingFile \notin ToSet(provider.uploads)
              \/ /\ provider.uploader = provider.uploadingFile /\ provider.uploader # None
                 /\ provider.uploads # <<>> /\ Head(provider.uploads) = provider.uploadingFile
BY ConstantsAssumption DEF QueueInv

LEMMA AttachAgrees ==
    ASSUME TypeInv, Agree, NEW f \in Files, Attach(f)
    PROVE  Agree'
<1>1. PICK q, h : q = provider.uploads /\ h = provider.uploadingFile
  OBVIOUS
<1>2. q \in Seq(Files) /\ h \in Files \cup {None} /\ None \notin Files /\ IsInjective(q)
  BY <1>1, ConstantsAssumption DEF TypeInv, Agree, QueueInv
<1>3. f \notin Waiting /\ f \notin ToSet(q) /\ f # h
  BY <1>1, <1>2 DEF Agree, SendWaitsForUploads, Attach, Waiting
<1>4. CASE offline
  <2>1. item' = [item EXCEPT ![f] = "failed"] /\ UNCHANGED <<count, provider, flights>>
    BY <1>4 DEF Attach
  <2>2. Waiting' = Waiting /\ QueueInv'
    BY <2>1 DEF Agree, Waiting, QueueInv
  <2>3. Waiting \subseteq Files
    BY WaitingFiles
  <2>4. SendWaitsForUploads'
    BY <1>3, <2>1, <2>2, <2>3 DEF Agree, SendWaitsForUploads, TypeInv
  <2> QED BY <2>2, <2>4 DEF Agree
<1>5. CASE ~offline
  <2>1. item' = [item EXCEPT ![f] = "uploading"] /\ count' = count + 1
    BY <1>5 DEF Attach
  <2>2. SUFFICES QueueInv' /\ Waiting' = Waiting \cup {f}
    <3>1. PICK w : w = Waiting
      OBVIOUS
    <3>2. IsFiniteSet(w) /\ w \subseteq Files /\ count = Cardinality(w) /\ f \notin w
      BY <1>3, <3>1, WaitingFiles DEF Agree, SendWaitsForUploads
    <3>3. Cardinality(w \cup {f}) = Cardinality(w) + 1
      BY <3>2, FS_AddElement
    <3>4. /\ \A g \in Files : item'[g] = "uploading" => g \in w \cup {f}
          /\ \A g \in w \cup {f} : item'[g] \in {"uploading", "removed"}
      BY <2>1, <3>1, <3>2 DEF Agree, SendWaitsForUploads, TypeInv
    <3>5. ASSUME QueueInv', Waiting' = Waiting \cup {f} PROVE Agree'
      BY <2>1, <3>1, <3>2, <3>3, <3>4, <3>5 DEF Agree, SendWaitsForUploads
    <3> QED BY <3>5
  <2>3. CASE h # None
    <3>1. /\ provider' = [provider EXCEPT !.requestObserver = f, !.uploads = Append(q, f)]
          /\ UNCHANGED flights
      BY <1>1, <1>5, <2>3 DEF Attach
    <3>2. /\ provider'.uploads = Append(q, f) /\ provider'.uploadingFile = h
          /\ provider'.uploader = provider.uploader
      BY <1>1, <3>1 DEF TypeInv
    <3>3. /\ ToSet(Append(q, f)) = ToSet(q) \cup {f} /\ IsInjective(Append(q, f))
          /\ Append(q, f) # <<>> /\ (q # <<>> => Head(Append(q, f)) = Head(q))
      BY <1>2, <1>3, AppendedQueue
    <3>4. QueueInv'
      BY <1>1, <1>3, <2>3, <3>1, <3>2, <3>3 DEF Agree, QueueInv
    <3> QED BY <1>1, <1>2, <3>2, <3>3, <3>4 DEF Waiting
  <2>4. CASE h = None
    <3>1. PICK g : g = First(f, f)
      OBVIOUS
    <3>2. /\ provider' = [provider EXCEPT !.requestObserver = f, !.uploadingFile = f]
          /\ flights' = flights \cup {g}
      BY <1>1, <1>5, <2>4, <3>1 DEF Attach
    <3>3. g.file = f /\ g.kind \notin {"put", "share"}
      BY <3>1 DEF First, Flight
    <3>4. q = <<>> /\ provider.uploader = None /\ flights = {}
      BY <1>1, <1>2, <2>4 DEF Agree, QueueInv
    <3>5. /\ provider'.uploads = q /\ provider'.uploadingFile = f
          /\ provider'.uploader = None /\ flights' = {g}
      BY <1>1, <3>2, <3>4 DEF TypeInv
    <3>6. QueueInv'
      BY <1>2, <1>3, <3>3, <3>5 DEF QueueInv
    <3> QED BY <1>1, <1>2, <2>4, <3>5, <3>6 DEF Waiting
  <2> QED BY <2>3, <2>4
<1> QED BY <1>4, <1>5

\* An answer after which another request is made for the same file.
LEMMA NextRequestAgrees ==
    ASSUME TypeInv, Agree, NEW fl \in flights, NEW g, g.file = fl.file,
           flights' = (flights \ {fl}) \cup {g}, UNCHANGED compose,
           provider'.uploads = provider.uploads,
           provider'.uploadingFile = provider.uploadingFile,
           provider'.uploader = provider.uploader,
           g.kind \in {"put", "share"} => provider.uploader # None
    PROVE  Agree'
<1>1. flights' = {g} /\ fl.file = provider.uploadingFile /\ provider.uploadingFile \in Files
  BY OnlyRequest DEF Agree
<1>2. Waiting' = Waiting
  BY DEF Waiting
<1>3. QueueInv'
  BY <1>1, ConstantsAssumption DEF Agree, QueueInv
<1> QED BY <1>2, <1>3, SameWaits DEF Agree, compose

LEMMA SendAgrees ==
    ASSUME TypeInv, Agree, NEW fl \in flights, NEW u \in Files, NEW q \in Seq(Files), NEW g,
           Sends(fl, u, q, g)
    PROVE  Agree'
<1>1. /\ flights \ {fl} = {} /\ fl.file = provider.uploadingFile
      /\ \/ /\ provider.uploader = None
            /\ provider.uploadingFile \notin ToSet(provider.uploads)
         \/ /\ provider.uploader = provider.uploadingFile /\ provider.uploader # None
            /\ provider.uploads # <<>> /\ Head(provider.uploads) = provider.uploadingFile
  BY OnlyRequest DEF Agree
<1>2. /\ provider'.uploads = q /\ provider'.uploadingFile = fl.file /\ provider'.uploader = u
      /\ flights' = {g} /\ g.file = u /\ UNCHANGED <<item, count>>
  BY <1>1 DEF Sends, TypeInv, compose
<1>3. u = fl.file /\ u # None
  BY <1>1, ConstantsAssumption DEF Sends
<1>4. provider.uploads \in Seq(Files) /\ IsInjective(provider.uploads)
  BY DEF TypeInv, Agree, QueueInv
<1>5. IsInjective(q) /\ q # <<>> /\ Head(q) = u /\ ToSet(q) = ToSet(provider.uploads) \cup {u}
  <2>1. CASE provider.uploader = None
    <3>1. q = <<u>> \o provider.uploads
      BY <1>3, <2>1 DEF Sends
    <3>2. u \notin ToSet(provider.uploads)
      BY <1>1, <1>3, <2>1
    <3>3. PICK p : p = provider.uploads
      OBVIOUS
    <3>4. p \in Seq(Files) /\ IsInjective(p) /\ u \notin ToSet(p) /\ q = <<u>> \o p
      BY <1>4, <3>1, <3>2, <3>3
    <3>5. /\ ToSet(q) = ToSet(p) \cup {u} /\ IsInjective(q)
          /\ q # <<>> /\ Head(q) = u
      BY <3>4, PrependedQueue
    <3> QED BY <3>3, <3>5
  <2>2. CASE provider.uploader # None
    <3>1. q = provider.uploads /\ Head(q) = u /\ q # <<>>
      BY <1>1, <1>3, <2>2 DEF Sends
    <3>2. ToSet(q) = ToSet(Tail(q)) \cup {u}
      BY <3>1, TailOfQueue
    <3> QED BY <1>4, <3>1, <3>2
  <2> QED BY <2>1, <2>2
<1>6. QueueInv'
  BY <1>2, <1>3, <1>5 DEF QueueInv
<1>7. Waiting' = Waiting
  BY <1>1, <1>2, <1>3, <1>5 DEF Waiting
<1> QED BY <1>2, <1>6, <1>7, SameWaits DEF Agree

LEMMA PutAgrees ==
    ASSUME TypeInv, Agree, NEW fl \in flights, PutAnswer(fl)
    PROVE  Agree'
<1>1. /\ flights \ {fl} = {} /\ fl.file = provider.uploadingFile /\ provider.uploader # None
  BY OnlyRequest DEF Agree, PutAnswer
<1>2. CASE /\ flights' = (flights \ {fl}) \cup {Flight("share", fl.file, fl.file)}
           /\ UNCHANGED <<compose, provider>>
  <2>1. PICK g : g = Flight("share", fl.file, fl.file)
    OBVIOUS
  <2>2. g.file = fl.file
    BY <2>1 DEF Flight
  <2> QED BY <1>1, <1>2, <2>1, <2>2, NextRequestAgrees
<1>3. CASE UploaderCallback({}, {fl.file}, {}, flights \ {fl})
  <2>1. PICK b, r : b = {fl.file} /\ r = flights \ {fl}
    OBVIOUS
  <2>2. {} \cup b = {provider.uploadingFile} /\ r = {} /\ UploaderCallback({}, b, {}, r)
    BY <1>1, <1>3, <2>1
  <2> QED BY <1>1, <2>2, CallbackWaits DEF Agree
<1> QED BY <1>2, <1>3 DEF PutAnswer

LEMMA ShareAgrees ==
    ASSUME TypeInv, Agree, NEW fl \in flights, ShareAnswer(fl)
    PROVE  Agree'
<1>1. /\ flights \ {fl} = {} /\ fl.file = provider.uploadingFile /\ provider.uploader # None
  BY OnlyRequest DEF Agree, ShareAnswer
<1>2. PICK oks, bads, r :
        /\ oks \subseteq {fl.file} /\ bads = {fl.file} \ oks /\ r = flights \ {fl}
        /\ UploaderCallback(oks, bads, {}, r)
  BY ShareCases
<1>3. oks \cup bads = {provider.uploadingFile} /\ r = {}
  BY <1>1, <1>2
<1> QED BY <1>1, <1>2, <1>3, CallbackWaits DEF Agree

LEMMA CancelAgrees ==
    ASSUME TypeInv, Agree, ~astray', NEW f \in Files, NEW gone \in SUBSET {f},
           CancelFileUpload(f, gone)
    PROVE  Agree'
<1>1. PICK q, h : q = provider.uploads /\ h = provider.uploadingFile
  OBVIOUS
<1>2. q \in Seq(Files) /\ h \in Files \cup {None} /\ None \notin Files /\ IsInjective(q)
  BY <1>1, ConstantsAssumption DEF TypeInv, Agree, QueueInv
<1>3. f \in Waiting
  BY CancelCases DEF Agree, SendWaitsForUploads
<1>4. CASE /\ \E i \in DOMAIN provider.uploads :
                /\ provider.uploads[i] = f
                /\ provider' = [provider EXCEPT !.uploads = RemoveAt(@, i)]
           /\ provider.uploadingFile # f
           /\ Told({}, {f}, gone) /\ UNCHANGED flights
  <2>1. PICK i \in DOMAIN q : q[i] = f /\ provider' = [provider EXCEPT !.uploads = RemoveAt(q, i)]
    BY <1>1, <1>4
  <2>2. PICK p : p = RemoveAt(q, i)
    OBVIOUS
  <2>3. /\ IsInjective(p) /\ ToSet(p) = ToSet(q) \ {f}
        /\ f # Head(q) => p # <<>> /\ Head(p) = Head(q)
    BY <1>2, <2>1, <2>2, RemovedFromQueue
  <2>4. /\ provider'.uploads = p /\ provider'.uploadingFile = h
        /\ provider'.uploader = provider.uploader
    BY <1>1, <2>1, <2>2 DEF TypeInv
  <2>5. q # <<>>
    BY <1>2, <2>1, LenProperties
  <2>6. f # h /\ flights' = flights
    BY <1>1, <1>4
  <2>7. QueueInv'
    BY <1>1, <2>3, <2>4, <2>5, <2>6 DEF Agree, QueueInv
  <2>8. Waiting' = Waiting \ {f}
    BY <1>1, <2>3, <2>4, <2>6 DEF Waiting
  <2>9. PICK b, t : b = {f} /\ t = {} \cup b
    OBVIOUS
  <2>10. t \subseteq Waiting /\ Waiting' = Waiting \ t /\ Told({}, b, gone)
    BY <1>3, <1>4, <2>8, <2>9
  <2> QED BY <2>7, <2>9, <2>10, ToldWaits DEF Agree
<1>5. CASE Told({}, {}, gone) /\ UNCHANGED <<provider, flights>>
  <2>1. PICK t : t = {} \cup {}
    OBVIOUS
  <2>2. t \subseteq Waiting /\ Waiting' = Waiting \ t
    BY <1>5, <2>1 DEF Waiting
  <2>3. QueueInv'
    BY <1>5 DEF Agree, QueueInv
  <2> QED BY <1>5, <2>1, <2>2, <2>3, ToldWaits DEF Agree
<1> QED BY <1>4, <1>5, CancelCases

\* Nothing that has gone astray is put right.
LEMMA StaysAstray == [Next]_vars /\ astray => astray'
<1> SUFFICES ASSUME [Next]_vars, astray PROVE astray'
  OBVIOUS
<1>1. ASSUME NEW fl \in flights, Refused(fl) PROVE astray'
  BY <1>1 DEF Refused
<1>2. ASSUME NEW fl \in flights, LogonAnswer(fl) PROVE astray'
  BY <1>1, <1>2 DEF LogonAnswer
<1>3. ASSUME NEW fl \in flights, InfoAnswer(fl) PROVE astray'
  BY <1>1, <1>3 DEF InfoAnswer, FinishUpload
<1>4. ASSUME NEW fl \in flights, PutAnswer(fl) \/ ShareAnswer(fl) PROVE astray'
  BY <1>4 DEF PutAnswer, ShareAnswer
<1>5. ASSUME NEW f \in Files, Attach(f) \/ RemoveAttachment(f) PROVE astray'
  BY <1>5 DEF Attach, RemoveAttachment
<1>6. ASSUME NEW f \in Files, NEW gone \in SUBSET {f}, CancelFileUpload(f, gone) PROVE astray'
  <2>1. \E kind : astray' = (astray \/ kind = "running")
    BY <1>6 DEF CancelFileUpload
  <2> QED BY <2>1
<1>7. CASE Toggle \/ UNCHANGED vars
  BY <1>7 DEF Toggle, vars
<1> QED BY <1>2, <1>3, <1>4, <1>5, <1>6, <1>7 DEF Next, Answer

LEMMA AgreeNext ==
    ASSUME TypeInv, Agree, [Next]_vars, ~astray'
    PROVE  Agree'
<1>1. ASSUME NEW fl \in flights, LogonAnswer(fl) PROVE Agree'
  <2>1. ~Refused(fl)
    BY DEF Refused
  <2>2. PICK g : g = Flight("info", fl.file, fl.observer)
    OBVIOUS
  <2>3. /\ provider' = [provider EXCEPT !.loggedIn = TRUE]
        /\ flights' = (flights \ {fl}) \cup {g} /\ UNCHANGED compose
    BY <1>1, <2>1, <2>2 DEF LogonAnswer
  <2>4. g.file = fl.file /\ g.kind = "info"
    BY <2>2 DEF Flight
  <2>5. /\ provider'.uploads = provider.uploads
        /\ provider'.uploadingFile = provider.uploadingFile
        /\ provider'.uploader = provider.uploader
    BY <2>3 DEF TypeInv
  <2> QED BY <2>3, <2>4, <2>5, NextRequestAgrees
<1>2. ASSUME NEW fl \in flights, InfoAnswer(fl) PROVE Agree'
  <2>1. FinishUpload(fl)
    BY <1>2 DEF InfoAnswer, Refused
  <2>2. ~OverQuota(fl)
    BY DEF OverQuota
  <2> QED BY <2>1, <2>2, FinishCases, SendAgrees
<1>3. CASE Toggle
  <2>1. UNCHANGED <<item, count, provider, flights>>
    BY <1>3 DEF Toggle, compose
  <2>2. Waiting' = Waiting /\ QueueInv'
    BY <2>1 DEF Agree, Waiting, QueueInv
  <2> QED BY <2>1, <2>2, SameWaits DEF Agree
<1>4. ASSUME NEW f \in Files, RemoveAttachment(f) PROVE Agree'
  <2>1. /\ item[f] \in {"uploaded", "failed"} /\ item' = [item EXCEPT ![f] = "removed"]
        /\ UNCHANGED <<count, provider, flights>>
    BY <1>4 DEF RemoveAttachment
  <2>2. Waiting' = Waiting /\ QueueInv'
    BY <2>1 DEF Agree, Waiting, QueueInv
  <2>3. Waiting \subseteq Files
    BY WaitingFiles
  <2>4. SendWaitsForUploads'
    BY <2>1, <2>2, <2>3 DEF Agree, SendWaitsForUploads, TypeInv
  <2> QED BY <2>2, <2>4 DEF Agree
<1>5. CASE UNCHANGED vars
  <2>1. Waiting' = Waiting /\ QueueInv'
    BY <1>5 DEF Agree, Waiting, QueueInv, vars
  <2> QED BY <1>5, <2>1, SameWaits DEF Agree, vars, compose
<1> QED BY <1>1, <1>2, <1>3, <1>4, <1>5, PutAgrees, ShareAgrees, AttachAgrees, CancelAgrees
        DEF Next, Answer

LEMMA UploadInit == Init => UploadInv
<1> SUFFICES ASSUME Init PROVE UploadInv
  OBVIOUS
<1>1. TypeInv
  BY TypeInit
<1>2. /\ provider.uploads = <<>> /\ provider.uploadingFile = None /\ provider.uploader = None
      /\ flights = {} /\ links = {} /\ count = 0 /\ \A f \in Files : item[f] = "none"
  BY DEF Init
<1>3. ToSet(<<>>) = {} /\ IsInjective(<<>>)
  BY DEF ToSet, IsInjective
<1>4. Waiting = {}
  BY <1>2, <1>3 DEF Waiting
<1>5. QueueInv /\ LinkInv /\ SendWaitsForUploads
  BY <1>2, <1>3, <1>4, FS_EmptySet DEF QueueInv, LinkInv, SendWaitsForUploads
<1> QED BY <1>1, <1>5 DEF UploadInv

LEMMA UploadNext == UploadInv /\ [Next]_vars => UploadInv'
<1> SUFFICES ASSUME UploadInv, [Next]_vars PROVE UploadInv'
  OBVIOUS
<1>1. TypeInv' /\ LinkInv'
  BY TypeNext, LinksNext DEF UploadInv
<1>2. ASSUME ~astray' PROVE Agree'
  <2>1. ~astray
    BY <1>2, StaysAstray
  <2>2. TypeInv /\ Agree
    BY <2>1 DEF UploadInv, Agree
  <2> QED BY <1>2, <2>2, AgreeNext
<1> QED BY <1>1, <1>2 DEF UploadInv, Agree

LEMMA UploadInvariant == Spec => []UploadInv
BY UploadInit, UploadNext, PTL DEF Spec

\* The state keeps its type, and unless something has gone astray the provider uploads one
\* file at a time, which is the first in its queue.
THEOREM UploadTypeCorrect == Spec => []TypeOK
<1>1. ASSUME UploadInv PROVE TypeOK
  <2>1. ASSUME QueueInv
        PROVE  /\ IsInjective(provider.uploads) /\ Cardinality(flights) <= 1
               /\ \A fl \in flights : fl.file = provider.uploadingFile
               /\ provider.uploader # None =>
                     provider.uploads # <<>> /\ Head(provider.uploads) = provider.uploadingFile
    <3>1. CASE flights = {}
      <4>1. Cardinality(flights) = 0
        BY <3>1, FS_EmptySet
      <4> QED BY <2>1, <3>1, <4>1 DEF QueueInv
    <3>2. CASE flights # {}
      <4>1. PICK fl \in flights : flights = {fl}
        BY <2>1, <3>2 DEF QueueInv
      <4>2. Cardinality(flights) = 1
        BY <4>1, FS_Singleton
      <4> QED BY <2>1, <4>2 DEF QueueInv
    <3> QED BY <3>1, <3>2
  <2> QED BY <1>1, <2>1 DEF UploadInv, TypeInv, TypeOK
<1> QED BY <1>1, UploadInvariant, PTL

\* For any number of files, and in whatever order they are attached, answered, cancelled
\* and removed: the message links only to files that the server shares, and unless
\* something has gone astray sending is disabled exactly as long as files are to be
\* uploaded.
THEOREM WindowAgreesAlways == Spec => []WindowAgrees
<1>1. UploadInv => WindowAgrees
  BY DEF UploadInv, LinkInv, WindowAgrees, LinksAreShared
<1> QED BY <1>1, UploadInvariant, PTL
=============================================================================
