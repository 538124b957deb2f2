--------------------- MODULE SuggestionControllerProofs ---------------------
(***************************************************************************)
(* The search suggestions, proved for any number of searches and whatever   *)
(* the engine does: the state keeps its type; and where no search starts    *)
(* while the form history is busy, listeners are told the results of their  *)
(* own searches and engines are given up in time.  With LateHistory neither *)
(* of the two holds.                                                        *)
(***************************************************************************)
EXTENDS SuggestionController, SequenceTheorems, TLAPS

Fetch == [term : Terms, history : {"wait", "ok", "failed"},
          xhr : {"none", "sent", "ok", "bad", "aborted"},
          remote : {"none", "wait", "ok", "failed", "timeout", "aborted"},
          from : Nat, out : {"wait", "null", "results"}]

\* The types of the three variables that the operators of the module pass around, with
\* n fetches made.
Typed(n, fs, c, ts) ==
    /\ fs \in Seq(Fetch) /\ Len(fs) = n
    /\ \A k \in 1..n : fs[k].from \in 0..n
    /\ c \in [searchString : Terms \cup {NoTerm}, request : {0} \cup 1..n,
              timer : {0} \cup ts]
    /\ ts \subseteq 1..n

TypeInv ==
    /\ Typed(Len(fetches), fetches, ctl, timers)
    /\ listener \in {0} \cup Searches
    /\ told \in Seq([by : {0} \cup Searches, term : Terms \cup {NoTerm}, local : BOOLEAN,
                     from : {0} \cup Searches])
    /\ Len(told) = Len(fetches)

\* Without late histories: every search but the last is over, the controller works for
\* the last one, and the engine is waited for only by the controller's request.
Prompt(n, fs, c, ts) ==
    /\ \A k \in 1..n :
         /\ k # n => fs[k].history # "wait" /\ fs[k].out # "wait"
         /\ fs[k].remote = "wait" => k = c.request /\ fs[k].xhr = "sent"
         /\ fs[k].remote \in {"ok", "timeout"} => fs[k].from = k
    /\ c.request \in {0, n}
    /\ c.searchString # NoTerm => n # 0 /\ c.searchString = fs[n].term
    /\ ts \subseteq {c.timer}
    /\ c.timer # 0 => c.timer = n /\ fs[n].history # "wait"

\* A search is not over only while something is waited for.
Pending(fs) ==
    \A k \in 1..Len(fs) : fs[k].out = "wait" =>
        fs[k].history = "wait" \/ fs[k].remote = "wait"

SearchInv ==
    /\ TypeInv /\ OwnResults
    /\ Prompt(Len(fetches), fetches, ctl, timers)
    /\ listener \in {0, Len(fetches)}
    /\ Pending(fetches)

-----------------------------------------------------------------------------
(* The operators that take fetches and return fetches.                      *)

LEMMA OneFetchChanges ==
    ASSUME NEW fs \in Seq(Fetch), NEW k \in 1..Len(fs), NEW g \in Fetch
    PROVE  /\ [fs EXCEPT ![k] = g] \in Seq(Fetch)
           /\ Len([fs EXCEPT ![k] = g]) = Len(fs)
           /\ [fs EXCEPT ![k] = g][k] = g
           /\ \A j \in 1..Len(fs) : j # k => [fs EXCEPT ![k] = g][j] = fs[j]
BY ExceptSeq

\* Stopping aborts a request that is under way, and changes no other fetch.
LEMMA StoppedShape ==
    ASSUME NEW n \in Nat, Typed(n, fetches, ctl, timers)
    PROVE  /\ Stopped(fetches) \in Seq(Fetch) /\ Len(Stopped(fetches)) = n
           /\ \A k \in 1..n :
                LET f == Stopped(fetches)[k] IN
                /\ f.term = fetches[k].term /\ f.history = fetches[k].history
                /\ f.from = fetches[k].from
                /\ \/ f = fetches[k] /\ ~(k = ctl.request /\ fetches[k].xhr = "sent")
                   \/ f.remote = "aborted" /\ f.out = "null"
<1>1. fetches \in Seq(Fetch) /\ Len(fetches) = n /\ ctl.request \in {0} \cup 1..n
  BY DEF Typed
<1>2. CASE ctl.request # 0 /\ fetches[ctl.request].xhr = "sent"
  <2>1. PICK r : r = ctl.request
    OBVIOUS
  <2>2. r \in 1..n /\ fetches[r] \in Fetch
    BY <1>1, <1>2, <2>1, ElementOfSeq
  <2>3. PICK g : g = [fetches[r] EXCEPT !.xhr = "aborted", !.remote = "aborted",
                                        !.out = "null"]
    OBVIOUS
  <2>4. /\ g \in Fetch /\ g.term = fetches[r].term /\ g.history = fetches[r].history
        /\ g.from = fetches[r].from /\ g.remote = "aborted" /\ g.out = "null"
    BY <2>2, <2>3 DEF Fetch
  <2>5. Stopped(fetches) = [fetches EXCEPT ![r] = g]
    <3>1. PICK a, b : /\ a = [fetches EXCEPT ![r].xhr = "aborted"]
                      /\ b = [a EXCEPT ![r].remote = "aborted"]
      OBVIOUS
    <3> QED BY <1>1, <1>2, <2>1, <2>2, <2>3 DEF Stopped
  <2> QED BY <1>1, <2>1, <2>2, <2>4, <2>5, OneFetchChanges
<1>3. CASE ~(ctl.request # 0 /\ fetches[ctl.request].xhr = "sent")
  <2>1. Stopped(fetches) = fetches
    BY <1>3 DEF Stopped
  <2>2. \A k \in 1..n : ~(k = ctl.request /\ fetches[k].xhr = "sent")
    BY <1>1, <1>3
  <2> QED BY <1>1, <2>1, <2>2
<1> QED BY <1>2, <1>3

LEMMA RunningTimers ==
    ASSUME NEW ts, NEW c
    PROVE  Running(ts, c) \subseteq ts /\ c.timer \notin Running(ts, c)
BY DEF Running

\* A fetch's deferred is resolved once.
LEMMA ResolvedShape ==
    ASSUME NEW n \in Nat, NEW fs \in Seq(Fetch), Len(fs) = n, NEW k \in 1..n,
           NEW how, how \in {"ok", "failed", "timeout"}, NEW from, from \in 0..n,
           NEW gs, gs = Resolved(fs, k, how, from)
    PROVE  /\ gs \in Seq(Fetch) /\ Len(gs) = n
           /\ \A j \in 1..n : j # k => gs[j] = fs[j]
           /\ gs[k].term = fs[k].term /\ gs[k].history = fs[k].history
           /\ gs[k].out = fs[k].out /\ gs[k].xhr = fs[k].xhr
           /\ \/ fs[k].remote # "wait" /\ gs[k] = fs[k]
              \/ fs[k].remote = "wait" /\ gs[k].remote = how /\ gs[k].from = from
<1>1. fs[k] \in Fetch /\ from \in Nat
  BY ElementOfSeq
<1>2. CASE fs[k].remote = "wait"
  <2>1. PICK g : g = [fs[k] EXCEPT !.remote = how, !.from = from]
    OBVIOUS
  <2>2. /\ g \in Fetch /\ g.term = fs[k].term /\ g.history = fs[k].history
        /\ g.out = fs[k].out /\ g.xhr = fs[k].xhr /\ g.remote = how /\ g.from = from
    BY <1>1, <2>1 DEF Fetch
  <2>3. gs = [fs EXCEPT ![k] = g]
    BY <1>2, <2>1, LenProperties DEF Resolved
  <2> QED BY <1>2, <2>2, <2>3, OneFetchChanges
<1>3. CASE fs[k].remote # "wait"
  BY <1>3 DEF Resolved
<1> QED BY <1>2, <1>3

\* What _dedupeAndReturnResults may do: nothing yet, or a fetch is over, with or without
\* results.
LEMMA ReturnShape ==
    ASSUME NEW n \in Nat, NEW fs \in Seq(Fetch), Len(fs) = n, NEW k \in 1..n,
           NEW c, NEW ts, Return(fs, k, c, ts)
    PROVE  /\ fetches' \in Seq(Fetch) /\ Len(fetches') = n
           /\ \A j \in 1..n : j # k => fetches'[j] = fs[j]
           /\ \A j \in 1..n :
                /\ fetches'[j].term = fs[j].term /\ fetches'[j].history = fs[j].history
                /\ fetches'[j].xhr = fs[j].xhr /\ fetches'[j].remote = fs[j].remote
                /\ fetches'[j].from = fs[j].from
           /\ \/ ~Complete(fs[k]) /\ fetches' = fs
              \/ Complete(fs[k]) /\ fetches'[k].out # "wait"
           /\ \/ ctl' = c /\ timers' = ts /\ UNCHANGED <<listener, told>>
              \/ /\ Complete(fs[k]) /\ c.searchString # NoTerm
                 /\ ctl' = Idle /\ timers' = Running(ts, c) /\ listener' = 0
                 /\ told' = IF listener = 0 THEN told
                            ELSE [told EXCEPT ![listener] =
                                    [by |-> k, term |-> c.searchString,
                                     local |-> fs[k].history = "ok",
                                     from |-> IF fs[k].remote = "ok" THEN fs[k].from ELSE 0]]
<1>1. fs[k] \in Fetch
  BY ElementOfSeq
<1>2. ASSUME NEW o \in {"null", "results"}, fetches' = [fs EXCEPT ![k].out = o]
      PROVE  /\ fetches' \in Seq(Fetch) /\ Len(fetches') = n
             /\ \A j \in 1..n : j # k => fetches'[j] = fs[j]
             /\ \A j \in 1..n :
                  /\ fetches'[j].term = fs[j].term /\ fetches'[j].history = fs[j].history
                  /\ fetches'[j].xhr = fs[j].xhr /\ fetches'[j].remote = fs[j].remote
                  /\ fetches'[j].from = fs[j].from
             /\ fetches'[k].out # "wait"
  <2>1. PICK g : g = [fs[k] EXCEPT !.out = o]
    OBVIOUS
  <2>2. /\ g \in Fetch /\ g.term = fs[k].term /\ g.history = fs[k].history
        /\ g.out = o /\ g.xhr = fs[k].xhr /\ g.remote = fs[k].remote
        /\ g.from = fs[k].from
    BY <1>1, <2>1 DEF Fetch
  <2>3. fetches' = [fs EXCEPT ![k] = g]
    BY <1>2, <2>1, LenProperties
  <2> QED BY <2>2, <2>3, OneFetchChanges
<1> QED BY <1>2 DEF Return

-----------------------------------------------------------------------------
(* Type correctness.                                                        *)

LEMMA TypeMeansTyped == TypeInv => TypeOK
BY DEF TypeInv, TypeOK, Typed, Fetch, Searches

\* A step that leaves typed fetches, controller and timers to _dedupeAndReturnResults.
LEMMA ReturnType ==
    ASSUME TypeInv, NEW n, n = Len(fetches), NEW fs, NEW c, NEW ts, Typed(n, fs, c, ts),
           NEW k \in 1..n, Return(fs, k, c, ts)
    PROVE  TypeInv'
<1>1. n \in Nat /\ fs \in Seq(Fetch) /\ Len(fs) = n
  BY LenProperties DEF TypeInv, Typed
<1>2. /\ fetches' \in Seq(Fetch) /\ Len(fetches') = n
      /\ \A j \in 1..n : fetches'[j].from = fs[j].from
  BY <1>1, ReturnShape
<1>3. Searches' = 1..n /\ Searches = 1..n
  BY <1>2 DEF Searches
<1>4. fs[k] \in Fetch /\ fs[k].from \in 0..n
  BY <1>1, ElementOfSeq DEF Typed
<1>5. CASE ctl' = c /\ timers' = ts /\ UNCHANGED <<listener, told>>
  BY <1>2, <1>3, <1>5 DEF TypeInv, Typed
<1>6. CASE /\ ctl' = Idle /\ timers' = Running(ts, c) /\ listener' = 0
           /\ told' = IF listener = 0 THEN told
                      ELSE [told EXCEPT ![listener] =
                              [by |-> k, term |-> c.searchString,
                               local |-> fs[k].history = "ok",
                               from |-> IF fs[k].remote = "ok" THEN fs[k].from ELSE 0]]
  <2>1. PICK t : t = [by |-> k, term |-> c.searchString,
                      local |-> fs[k].history = "ok",
                      from |-> IF fs[k].remote = "ok" THEN fs[k].from ELSE 0]
    OBVIOUS
  <2>2. t \in [by : {0} \cup Searches, term : Terms \cup {NoTerm}, local : BOOLEAN,
               from : {0} \cup Searches]
    <3>1. (IF fs[k].remote = "ok" THEN fs[k].from ELSE 0) \in {0} \cup Searches
      BY <1>1, <1>3, <1>4
    <3>2. c.searchString \in Terms \cup {NoTerm} /\ (fs[k].history = "ok") \in BOOLEAN
      BY DEF Typed
    <3> QED BY <1>3, <2>1, <3>1, <3>2
  <2>3. /\ told' \in Seq([by : {0} \cup Searches, term : Terms \cup {NoTerm},
                          local : BOOLEAN, from : {0} \cup Searches])
        /\ Len(told') = Len(told)
    <3>1. PICK T : T = [by : {0} \cup Searches, term : Terms \cup {NoTerm},
                        local : BOOLEAN, from : {0} \cup Searches]
      OBVIOUS
    <3>2. told \in Seq(T) /\ Len(told) = n
      BY <3>1 DEF TypeInv
    <3>3. CASE listener = 0
      BY <1>6, <3>1, <3>2, <3>3
    <3>4. CASE listener # 0
      <4>1. listener \in 1..Len(told)
        BY <1>3, <3>2, <3>4 DEF TypeInv
      <4>2. told' = [told EXCEPT ![listener] = t]
        BY <1>6, <2>1, <3>4
      <4>3. t \in T
        BY <2>2, <3>1
      <4> QED BY <3>1, <3>2, <4>1, <4>2, <4>3, ExceptSeq
    <3> QED BY <3>3, <3>4
  <2>4. ctl' \in [searchString : Terms \cup {NoTerm}, request : {0} \cup 1..n,
                  timer : {0} \cup timers']
    BY <1>6 DEF Idle
  <2>5. timers' \subseteq 1..n
    BY <1>6, RunningTimers DEF Typed
  <2>6. \A j \in 1..n : fetches'[j].from \in 0..n
    BY <1>2 DEF Typed
  <2>7. Typed(n, fetches', ctl', timers')
    BY <1>2, <2>4, <2>5, <2>6 DEF Typed
  <2>8. listener' = 0
    BY <1>6
  <2> QED BY <1>2, <1>3, <2>3, <2>7, <2>8 DEF TypeInv
<1> QED BY <1>1, <1>5, <1>6, ReturnShape

\* The arguments that each answer gives to _dedupeAndReturnResults.
LEMMA HistoryArguments ==
    ASSUME TypeInv, NEW n, n = Len(fetches), NEW k \in 1..n, HistoryAnswers(k)
    PROVE  /\ fetches[k].history = "wait"
           /\ \E g, c, ts :
                /\ g \in Fetch /\ g.history # "wait" /\ g.term = fetches[k].term
                /\ g.xhr = fetches[k].xhr /\ g.remote = fetches[k].remote
                /\ g.from = fetches[k].from /\ g.out = fetches[k].out
                /\ \/ ctl.request # 0 /\ c = [ctl EXCEPT !.timer = k] /\ ts = timers \cup {k}
                   \/ ctl.request = 0 /\ c = ctl /\ ts = timers
                /\ Return([fetches EXCEPT ![k] = g], k, c, ts)
<1>1. fetches[k] \in Fetch
  BY ElementOfSeq DEF TypeInv, Typed
<1>2. PICK h \in {"ok", "failed"} :
        Return([fetches EXCEPT ![k].history = h], k,
               IF StartsTimer(k) THEN [ctl EXCEPT !.timer = k] ELSE ctl,
               IF StartsTimer(k) THEN timers \cup {k} ELSE timers)
  <2>1. PICK found \in BOOLEAN :
          Return([fetches EXCEPT ![k].history =
                    IF found /\ fetches[k].term = ctl.searchString THEN "ok" ELSE "failed"],
                 k,
                 IF StartsTimer(k) THEN [ctl EXCEPT !.timer = k] ELSE ctl,
                 IF StartsTimer(k) THEN timers \cup {k} ELSE timers)
    BY DEF HistoryAnswers
  <2>2. CASE found /\ fetches[k].term = ctl.searchString
    BY <2>1, <2>2
  <2>3. CASE ~(found /\ fetches[k].term = ctl.searchString)
    BY <2>1, <2>3
  <2> QED BY <2>2, <2>3
<1>3. PICK g : g = [fetches[k] EXCEPT !.history = h]
  OBVIOUS
<1>4. /\ g \in Fetch /\ g.history # "wait" /\ g.term = fetches[k].term
      /\ g.xhr = fetches[k].xhr /\ g.remote = fetches[k].remote
      /\ g.from = fetches[k].from /\ g.out = fetches[k].out
  BY <1>1, <1>3 DEF Fetch
<1>5. fetches[k].history = "wait"
  BY DEF HistoryAnswers
<1>6. CASE ctl.request # 0
  BY <1>2, <1>3, <1>4, <1>5, <1>6 DEF StartsTimer
<1>7. CASE ctl.request = 0
  BY <1>2, <1>3, <1>4, <1>5, <1>7 DEF StartsTimer
<1> QED BY <1>6, <1>7

\* One fetch has been resolved, or was before.
LEMMA LoadArguments ==
    ASSUME TypeInv, NEW n, n = Len(fetches), NEW k \in 1..n, RemoteLoaded(k) \/ RemoteFailed(k)
    PROVE  /\ fetches[k].xhr = "sent"
           /\ \E fs :
                /\ fs \in Seq(Fetch) /\ Len(fs) = n
                /\ \A j \in 1..n : j # k => fs[j] = fetches[j]
                /\ fs[k].term = fetches[k].term /\ fs[k].history = fetches[k].history
                /\ fs[k].out = fetches[k].out
                /\ \/ /\ fetches[k].remote # "wait"
                      /\ fs[k].remote = fetches[k].remote /\ fs[k].from = fetches[k].from
                   \/ /\ fetches[k].remote = "wait" /\ fs[k].remote \in {"ok", "failed"}
                      /\ fs[k].from \in {0, ctl.request}
                      /\ fs[k].remote = "ok" => fs[k].from = ctl.request
                /\ Return(fs, k, ctl, timers)
<1>1. /\ fetches \in Seq(Fetch) /\ Len(fetches) = n /\ n \in Nat
      /\ fetches[k] \in Fetch /\ ctl.request \in 0..n
  BY ElementOfSeq, LenProperties DEF TypeInv, Typed
<1>2. PICK x \in {"ok", "bad"}, how \in {"ok", "failed"}, from \in {0, ctl.request} :
        /\ how = "ok" => from = ctl.request
        /\ Return(Resolved([fetches EXCEPT ![k].xhr = x], k, how, from), k, ctl, timers)
  <2>1. CASE RemoteLoaded(k)
    <3>1. PICK x \in Responses :
            LET fs == [fetches EXCEPT ![k].xhr = x]
                r  == ctl.request
            IN  Return(IF r # 0 /\ fs[r].xhr = "ok" /\ fs[r].term = ctl.searchString
                       THEN Resolved(fs, k, "ok", r)
                       ELSE Resolved(fs, k, "failed", 0),
                       k, ctl, timers)
      BY <2>1 DEF RemoteLoaded
    <3>2. x \in {"ok", "bad"}
      BY ConstantsAssumption
    <3>3. PICK fs : fs = [fetches EXCEPT ![k].xhr = x]
      OBVIOUS
    <3>4. CASE /\ ctl.request # 0 /\ fs[ctl.request].xhr = "ok"
               /\ fs[ctl.request].term = ctl.searchString
      <4>1. Return(Resolved(fs, k, "ok", ctl.request), k, ctl, timers)
        BY <3>1, <3>3, <3>4
      <4> QED BY <3>2, <3>3, <4>1
    <3>5. CASE ~(/\ ctl.request # 0 /\ fs[ctl.request].xhr = "ok"
                 /\ fs[ctl.request].term = ctl.searchString)
      <4>1. Return(Resolved(fs, k, "failed", 0), k, ctl, timers)
        BY <3>1, <3>3, <3>5
      <4> QED BY <3>2, <3>3, <4>1
    <3> QED BY <3>4, <3>5
  <2>2. CASE RemoteFailed(k)
    BY <2>2 DEF RemoteFailed
  <2> QED BY <2>1, <2>2
<1>3. PICK g : g = [fetches[k] EXCEPT !.xhr = x]
  OBVIOUS
<1>4. /\ g \in Fetch /\ g.term = fetches[k].term /\ g.history = fetches[k].history
      /\ g.out = fetches[k].out /\ g.remote = fetches[k].remote /\ g.from = fetches[k].from
  BY <1>1, <1>3 DEF Fetch
<1>5. PICK fs : fs = [fetches EXCEPT ![k] = g]
  OBVIOUS
<1>6. /\ fs \in Seq(Fetch) /\ Len(fs) = n /\ fs[k] = g
      /\ \A j \in 1..n : j # k => fs[j] = fetches[j]
  BY <1>1, <1>4, <1>5, OneFetchChanges
<1>7. Return(Resolved(fs, k, how, from), k, ctl, timers)
  BY <1>2, <1>3, <1>5
<1>8. from \in 0..n
  BY <1>1
<1>9. PICK gs : gs = Resolved(fs, k, how, from)
  OBVIOUS
<1>10. /\ gs \in Seq(Fetch) /\ Len(gs) = n
       /\ \A j \in 1..n : j # k => gs[j] = fs[j]
       /\ gs[k].term = fs[k].term /\ gs[k].history = fs[k].history /\ gs[k].out = fs[k].out
       /\ \/ fs[k].remote # "wait" /\ gs[k] = fs[k]
          \/ fs[k].remote = "wait" /\ gs[k].remote = how /\ gs[k].from = from
  <2>1. how \in {"ok", "failed", "timeout"}
    OBVIOUS
  <2> QED BY <1>1, <1>6, <1>8, <1>9, <2>1, ResolvedShape
<1>11. /\ \A j \in 1..n : j # k => gs[j] = fetches[j]
       /\ gs[k].term = fetches[k].term /\ gs[k].history = fetches[k].history
       /\ gs[k].out = fetches[k].out
       /\ \/ /\ fetches[k].remote # "wait"
             /\ gs[k].remote = fetches[k].remote /\ gs[k].from = fetches[k].from
          \/ /\ fetches[k].remote = "wait" /\ gs[k].remote \in {"ok", "failed"}
             /\ gs[k].from \in {0, ctl.request}
             /\ gs[k].remote = "ok" => gs[k].from = ctl.request
  BY <1>2, <1>4, <1>6, <1>10
<1>12. fetches[k].xhr = "sent"
  BY DEF RemoteLoaded, RemoteFailed
<1>13. Return(gs, k, ctl, timers)
  BY <1>7, <1>9
<1> QED BY <1>10, <1>11, <1>12, <1>13

\* A timer gives up the controller's request, if it has one.
LEMMA TimeoutArguments ==
    ASSUME TypeInv, NEW n, n = Len(fetches), NEW i \in timers, RemoteTimeout(i)
    PROVE  \E c, fs :
             /\ c \in [searchString : Terms \cup {NoTerm}, request : {0}, timer : {0}]
             /\ c.searchString = ctl.searchString
             /\ fs = Resolved(fetches, ctl.request, "timeout", i)
             /\ \/ /\ ctl.request = 0 /\ ctl' = c /\ timers' = timers \ {i}
                   /\ UNCHANGED <<fetches, listener, told>>
                \/ /\ ctl.request \in 1..n
                   /\ Return(fs, ctl.request, c, timers \ {i})
<1>1. PICK c : c = [ctl EXCEPT !.request = 0, !.timer = 0]
  OBVIOUS
<1>2. PICK fs : fs = Resolved(fetches, ctl.request, "timeout", i)
  OBVIOUS
<1>3. /\ c \in [searchString : Terms \cup {NoTerm}, request : {0}, timer : {0}]
      /\ c.searchString = ctl.searchString
  BY <1>1 DEF TypeInv, Typed
<1>4. ctl.request \in {0} \cup 1..n
  BY DEF TypeInv, Typed
<1>5. CASE ctl.request = 0
  BY <1>1, <1>2, <1>3, <1>5 DEF RemoteTimeout
<1>6. CASE ctl.request # 0
  <2>1. Return(fs, ctl.request, c, timers \ {i})
    BY <1>1, <1>2, <1>6 DEF RemoteTimeout
  <2> QED BY <1>2, <1>3, <1>4, <1>6, <2>1
<1> QED BY <1>5, <1>6

LEMMA TypeInit == Init => TypeInv
<1> SUFFICES ASSUME Init PROVE TypeInv
  OBVIOUS
<1>1. Len(fetches) = 0 /\ Len(told) = 0 /\ Searches = {}
  BY EmptySeq DEF Init, Searches
<1>2. Typed(0, fetches, ctl, timers)
  BY <1>1, EmptySeq DEF Init, Typed, Idle
<1> QED BY <1>1, <1>2, EmptySeq DEF Init, TypeInv

LEMMA StartType ==
    ASSUME TypeInv, NEW t \in Terms, NEW suggest \in Engines, StartSearch(t, suggest)
    PROVE  TypeInv'
<1>1. PICK n : n = Len(fetches)
  OBVIOUS
<1>2. n \in Nat /\ fetches \in Seq(Fetch) /\ Typed(n, fetches, ctl, timers)
  BY <1>1, LenProperties DEF TypeInv, Typed
<1>3. /\ Stopped(fetches) \in Seq(Fetch) /\ Len(Stopped(fetches)) = n
      /\ \A k \in 1..n : Stopped(fetches)[k].from = fetches[k].from
  BY <1>2, StoppedShape
<1>4. PICK g : g = [term |-> t, history |-> "wait",
                    xhr    |-> IF suggest THEN "sent" ELSE "none",
                    remote |-> IF suggest THEN "wait" ELSE "none",
                    from |-> 0, out |-> "wait"]
  OBVIOUS
<1>5. g \in Fetch /\ g.from = 0
  BY <1>4 DEF Fetch
<1>6. fetches' = Append(Stopped(fetches), g)
  BY <1>4 DEF StartSearch
<1>7. /\ fetches' \in Seq(Fetch) /\ Len(fetches') = n + 1
      /\ \A k \in 1..n : fetches'[k] = Stopped(fetches)[k]
      /\ fetches'[n + 1] = g
  BY <1>3, <1>5, <1>6, AppendProperties
<1>8. Searches' = 1..(n + 1) /\ Searches = 1..n
  BY <1>1, <1>7 DEF Searches
<1>9. \A k \in 1..(n + 1) : fetches'[k].from \in 0..(n + 1)
  <2>1. \A k \in 1..n : fetches'[k].from \in 0..n
    BY <1>2, <1>3, <1>7 DEF Typed
  <2> QED BY <1>2, <1>5, <1>7, <2>1
<1>10. timers' \subseteq timers /\ timers \subseteq 1..n
  BY <1>2, RunningTimers DEF StartSearch, Typed
<1>11. ctl' \in [searchString : Terms \cup {NoTerm}, request : {0} \cup 1..(n + 1),
                 timer : {0} \cup timers']
  <2>1. ctl' = [searchString |-> t, request |-> IF suggest THEN n + 1 ELSE 0, timer |-> 0]
    BY <1>1 DEF StartSearch
  <2>2. (IF suggest THEN n + 1 ELSE 0) \in {0} \cup 1..(n + 1)
    BY <1>2
  <2> QED BY <2>1, <2>2
<1>12. Typed(n + 1, fetches', ctl', timers')
  BY <1>2, <1>7, <1>9, <1>10, <1>11 DEF Typed
<1>13. listener' = n + 1 /\ told' = Append(told, Nothing)
  BY <1>1 DEF StartSearch
<1>14. /\ told' \in Seq([by : {0} \cup Searches', term : Terms \cup {NoTerm}, local : BOOLEAN,
                         from : {0} \cup Searches'])
       /\ Len(told') = n + 1
  <2>1. PICK T, U : /\ T = [by : {0} \cup 1..n, term : Terms \cup {NoTerm}, local : BOOLEAN,
                            from : {0} \cup 1..n]
                    /\ U = [by : {0} \cup 1..(n + 1), term : Terms \cup {NoTerm},
                            local : BOOLEAN, from : {0} \cup 1..(n + 1)]
    OBVIOUS
  <2>2. T \subseteq U
    BY <1>2, <2>1
  <2>3. told \in Seq(T) /\ Len(told) = n
    BY <1>1, <1>8, <2>1 DEF TypeInv
  <2>4. told \in Seq(U)
    BY <2>2, <2>3
  <2>5. Nothing \in U
    BY <2>1 DEF Nothing
  <2>6. told' \in Seq(U) /\ Len(told') = n + 1
    BY <1>13, <2>3, <2>4, <2>5, AppendProperties
  <2> QED BY <1>8, <2>1, <2>6
<1> QED BY <1>2, <1>7, <1>8, <1>12, <1>13, <1>14 DEF TypeInv

LEMMA StopType ==
    ASSUME TypeInv, StopSearch
    PROVE  TypeInv'
<1>1. PICK n : n = Len(fetches)
  OBVIOUS
<1>2. n \in Nat /\ fetches \in Seq(Fetch) /\ Typed(n, fetches, ctl, timers)
  BY <1>1, LenProperties DEF TypeInv, Typed
<1>3. /\ fetches' \in Seq(Fetch) /\ Len(fetches') = n
      /\ \A k \in 1..n : fetches'[k].from = fetches[k].from
  BY <1>2, StoppedShape DEF StopSearch
<1>4. Searches' = Searches
  BY <1>1, <1>3 DEF Searches
<1>5. timers' \subseteq timers /\ ctl' = Idle
  BY RunningTimers DEF StopSearch
<1>6. Typed(n, fetches', ctl', timers')
  BY <1>2, <1>3, <1>5 DEF Typed, Idle
<1> QED BY <1>1, <1>3, <1>4, <1>6 DEF TypeInv, StopSearch

LEMMA HistoryType ==
    ASSUME TypeInv, NEW k \in Searches, HistoryAnswers(k)
    PROVE  TypeInv'
<1>1. PICK n : n = Len(fetches)
  OBVIOUS
<1>2. n \in Nat /\ fetches \in Seq(Fetch) /\ Typed(n, fetches, ctl, timers) /\ k \in 1..n
  BY <1>1, LenProperties DEF TypeInv, Typed, Searches
<1>3. PICK g, c, ts :
        /\ g \in Fetch /\ g.from = fetches[k].from
        /\ \/ ctl.request # 0 /\ c = [ctl EXCEPT !.timer = k] /\ ts = timers \cup {k}
           \/ ctl.request = 0 /\ c = ctl /\ ts = timers
        /\ Return([fetches EXCEPT ![k] = g], k, c, ts)
  BY <1>1, <1>2, HistoryArguments
<1>4. PICK fs : fs = [fetches EXCEPT ![k] = g]
  OBVIOUS
<1>5. /\ fs \in Seq(Fetch) /\ Len(fs) = n /\ fs[k] = g
      /\ \A j \in 1..n : j # k => fs[j] = fetches[j]
  BY <1>1, <1>2, <1>3, <1>4, OneFetchChanges
<1>6. \A j \in 1..n : fs[j].from \in 0..n
  BY <1>2, <1>3, <1>5 DEF Typed
<1>7. /\ ts \subseteq 1..n
      /\ c \in [searchString : Terms \cup {NoTerm}, request : {0} \cup 1..n, timer : {0} \cup ts]
  BY <1>2, <1>3 DEF Typed
<1>8. Typed(n, fs, c, ts)
  BY <1>5, <1>6, <1>7 DEF Typed
<1> QED BY <1>1, <1>2, <1>3, <1>4, <1>8, ReturnType

LEMMA NetworkType ==
    ASSUME TypeInv, NEW k \in Searches, RemoteLoaded(k) \/ RemoteFailed(k)
    PROVE  TypeInv'
<1>1. PICK n : n = Len(fetches)
  OBVIOUS
<1>2. n \in Nat /\ Typed(n, fetches, ctl, timers) /\ k \in 1..n
  BY <1>1, LenProperties DEF TypeInv, Typed, Searches
<1>3. PICK fs :
        /\ fs \in Seq(Fetch) /\ Len(fs) = n
        /\ \A j \in 1..n : j # k => fs[j] = fetches[j]
        /\ fs[k].from = fetches[k].from \/ fs[k].from \in {0, ctl.request}
        /\ Return(fs, k, ctl, timers)
  BY <1>1, <1>2, LoadArguments
<1>4. Typed(n, fs, ctl, timers)
  BY <1>2, <1>3 DEF Typed
<1> QED BY <1>1, <1>2, <1>3, <1>4, ReturnType

LEMMA TimeoutType ==
    ASSUME TypeInv, NEW i \in timers, RemoteTimeout(i)
    PROVE  TypeInv'
<1>1. PICK n : n = Len(fetches)
  OBVIOUS
<1>2. n \in Nat /\ fetches \in Seq(Fetch) /\ Typed(n, fetches, ctl, timers) /\ i \in 1..n
  BY <1>1, LenProperties DEF TypeInv, Typed
<1>3. PICK c, fs :
        /\ c \in [searchString : Terms \cup {NoTerm}, request : {0}, timer : {0}]
        /\ fs = Resolved(fetches, ctl.request, "timeout", i)
        /\ \/ /\ ctl.request = 0 /\ ctl' = c /\ timers' = timers \ {i}
              /\ UNCHANGED <<fetches, listener, told>>
           \/ /\ ctl.request \in 1..n
              /\ Return(fs, ctl.request, c, timers \ {i})
  BY <1>1, TimeoutArguments
<1>4. CASE /\ ctl.request = 0 /\ ctl' = c /\ timers' = timers \ {i}
           /\ UNCHANGED <<fetches, listener, told>>
  <2>1. Typed(n, fetches', ctl', timers')
    BY <1>2, <1>3, <1>4 DEF Typed
  <2> QED BY <1>1, <1>4, <2>1 DEF TypeInv, Searches
<1>5. CASE ctl.request \in 1..n /\ Return(fs, ctl.request, c, timers \ {i})
  <2>1. PICK r : r = ctl.request
    OBVIOUS
  <2>2. /\ fs \in Seq(Fetch) /\ Len(fs) = n
        /\ \A j \in 1..n : j # r => fs[j] = fetches[j]
        /\ fs[r] = fetches[r] \/ fs[r].from = i
    <3>1. r \in 1..n /\ i \in 0..n /\ Len(fetches) = n
      BY <1>1, <1>2, <1>5, <2>1
    <3> QED BY <1>2, <1>3, <2>1, <3>1, ResolvedShape
  <2>3. Typed(n, fs, c, timers \ {i})
    <3>1. \A j \in 1..n : fs[j].from \in 0..n
      BY <1>2, <1>5, <2>1, <2>2 DEF Typed
    <3>2. timers \ {i} \subseteq 1..n
      BY <1>2 DEF Typed
    <3> QED BY <1>3, <2>2, <3>1, <3>2 DEF Typed
  <2> QED BY <1>1, <1>5, <2>3, ReturnType
<1> QED BY <1>3, <1>4, <1>5

LEMMA TypeNext == TypeInv /\ [Next]_vars => TypeInv'
<1> SUFFICES ASSUME TypeInv, [Next]_vars PROVE TypeInv'
  OBVIOUS
<1>1. ASSUME NEW t \in Terms, NEW suggest \in Engines, StartSearch(t, suggest) PROVE TypeInv'
  BY <1>1, StartType
<1>2. CASE StopSearch
  BY <1>2, StopType
<1>3. CASE History
  BY <1>3, HistoryType DEF History
<1>4. CASE Network
  BY <1>4, NetworkType DEF Network
<1>5. CASE Timers
  BY <1>5, TimeoutType DEF Timers
<1>6. CASE UNCHANGED vars
  BY <1>6 DEF vars, TypeInv, Typed, Searches
<1> QED BY <1>1, <1>2, <1>3, <1>4, <1>5, <1>6 DEF Next

\* The controller never keeps a timer that has fired or was cancelled, and never a search
\* that was not started, however many searches there are and whenever their form histories
\* and engines answer.
THEOREM SearchTypeCorrect == Spec => []TypeOK
<1>1. Spec => []TypeInv
  BY TypeInit, TypeNext, PTL DEF Spec
<1> QED BY <1>1, TypeMeansTyped, PTL

-----------------------------------------------------------------------------
(* Whose results a listener is told.                                        *)

LEMMA SearchInit == Init => SearchInv
<1> SUFFICES ASSUME Init PROVE SearchInv
  OBVIOUS
<1>1. TypeInv
  BY TypeInit
<1>2. Len(fetches) = 0 /\ Searches = {} /\ 1..Len(fetches) = {}
  BY EmptySeq DEF Init, Searches
<1>3. OwnResults /\ Pending(fetches)
  BY <1>2 DEF OwnResults, Pending
<1>4. Prompt(0, fetches, ctl, timers) /\ listener = 0
  BY <1>2 DEF Init, Prompt, Idle
<1> QED BY <1>1, <1>2, <1>3, <1>4 DEF SearchInv

\* A search that starts finds the ones before it over: their form histories have
\* answered, and what was waited for of the engine is aborted.
LEMMA StartPrompt ==
    ASSUME LateHistory = FALSE, SearchInv,
           NEW t \in Terms, NEW suggest \in Engines, StartSearch(t, suggest)
    PROVE  SearchInv'
<1>1. TypeInv /\ TypeInv'
  BY StartType DEF SearchInv
<1>2. PICK n : n = Len(fetches)
  OBVIOUS
<1>3. /\ n \in Nat /\ fetches \in Seq(Fetch) /\ Typed(n, fetches, ctl, timers)
      /\ Prompt(n, fetches, ctl, timers)
  BY <1>1, <1>2, LenProperties DEF TypeInv, Typed, SearchInv
<1>4. /\ Stopped(fetches) \in Seq(Fetch) /\ Len(Stopped(fetches)) = n
      /\ \A k \in 1..n :
           LET f == Stopped(fetches)[k] IN
           /\ f.term = fetches[k].term /\ f.history = fetches[k].history
           /\ f.from = fetches[k].from
           /\ \/ f = fetches[k] /\ ~(k = ctl.request /\ fetches[k].xhr = "sent")
              \/ f.remote = "aborted" /\ f.out = "null"
  BY <1>3, StoppedShape
<1>5. PICK g : g = [term |-> t, history |-> "wait",
                    xhr    |-> IF suggest THEN "sent" ELSE "none",
                    remote |-> IF suggest THEN "wait" ELSE "none",
                    from |-> 0, out |-> "wait"]
  OBVIOUS
<1>6. /\ g \in Fetch /\ g.term = t /\ g.history = "wait" /\ g.out = "wait"
      /\ \/ suggest /\ g.xhr = "sent" /\ g.remote = "wait"
         \/ ~suggest /\ g.remote = "none"
  BY <1>5 DEF Fetch
<1>7. fetches' = Append(Stopped(fetches), g)
  BY <1>5 DEF StartSearch
<1>8. /\ fetches' \in Seq(Fetch) /\ Len(fetches') = n + 1
      /\ \A k \in 1..n : fetches'[k] = Stopped(fetches)[k]
      /\ fetches'[n + 1] = g
  BY <1>4, <1>6, <1>7, AppendProperties
<1>9. \A k \in 1..n : fetches[k].history # "wait"
  BY <1>2 DEF StartSearch, Quick
<1>10. \A k \in 1..n :
         /\ fetches'[k].history # "wait" /\ fetches'[k].out # "wait"
         /\ fetches'[k].remote # "wait"
         /\ fetches'[k].remote \in {"ok", "timeout"} => fetches'[k].from = k
         /\ fetches'[k].term = fetches[k].term
  <2>1. SUFFICES ASSUME NEW k \in 1..n
                 PROVE  /\ fetches'[k].history # "wait" /\ fetches'[k].out # "wait"
                        /\ fetches'[k].remote # "wait"
                        /\ fetches'[k].remote \in {"ok", "timeout"} => fetches'[k].from = k
                        /\ fetches'[k].term = fetches[k].term
    OBVIOUS
  <2>2. /\ fetches[k].out = "wait" => fetches[k].remote = "wait"
        /\ fetches[k].remote = "wait" => k = ctl.request /\ fetches[k].xhr = "sent"
        /\ fetches[k].remote \in {"ok", "timeout"} => fetches[k].from = k
    BY <1>2, <1>3, <1>9 DEF SearchInv, Prompt, Pending
  <2> QED BY <1>4, <1>8, <1>9, <2>2
<1>11. /\ ctl'.searchString = t /\ ctl'.timer = 0 /\ timers' = {}
       /\ \/ suggest /\ ctl'.request = n + 1
          \/ ~suggest /\ ctl'.request = 0
  BY <1>2, <1>3 DEF StartSearch, Prompt, Running
<1>12. Prompt(n + 1, fetches', ctl', timers')
  <2>1. \A k \in 1..(n + 1) :
          /\ k # n + 1 => fetches'[k].history # "wait" /\ fetches'[k].out # "wait"
          /\ fetches'[k].remote = "wait" => k = ctl'.request /\ fetches'[k].xhr = "sent"
          /\ fetches'[k].remote \in {"ok", "timeout"} => fetches'[k].from = k
    <3>1. SUFFICES ASSUME NEW k \in 1..(n + 1)
                   PROVE  /\ k # n + 1 => fetches'[k].history # "wait" /\ fetches'[k].out # "wait"
                          /\ fetches'[k].remote = "wait" => k = ctl'.request /\ fetches'[k].xhr = "sent"
                          /\ fetches'[k].remote \in {"ok", "timeout"} => fetches'[k].from = k
      OBVIOUS
    <3>2. CASE k \in 1..n
      BY <1>3, <1>10, <3>2
    <3>3. CASE k = n + 1
      BY <1>6, <1>8, <1>11, <3>3
    <3> QED BY <1>3, <3>2, <3>3
  <2>2. ctl'.request \in {0, n + 1}
    BY <1>11
  <2>3. n + 1 # 0 /\ ctl'.searchString = fetches'[n + 1].term
    BY <1>3, <1>6, <1>8, <1>11
  <2> QED BY <1>11, <2>1, <2>2, <2>3 DEF Prompt
<1>13. Pending(fetches')
  BY <1>3, <1>6, <1>8, <1>10 DEF Pending
<1>14. OwnResults'
  <2>1. told' = Append(told, Nothing) /\ Len(told) = n
    BY <1>1, <1>2 DEF StartSearch, TypeInv
  <2>2. /\ \A k \in 1..n : told'[k] = told[k]
        /\ told'[n + 1] = Nothing
    BY <1>1, <2>1, AppendProperties DEF TypeInv
  <2>3. Searches = 1..n /\ Searches' = 1..(n + 1)
    BY <1>2, <1>8 DEF Searches
  <2>4. OwnResults
    BY DEF SearchInv
  <2>5. SUFFICES ASSUME NEW k \in 1..(n + 1), told'[k].by # 0
                 PROVE  /\ told'[k].by = k /\ told'[k].term = fetches'[k].term
                        /\ told'[k].from \in {0, k}
    BY <2>3 DEF OwnResults
  <2>6. CASE k \in 1..n
    BY <1>10, <2>2, <2>3, <2>4, <2>5, <2>6 DEF OwnResults
  <2>7. CASE k = n + 1
    BY <2>2, <2>5, <2>7 DEF Nothing
  <2> QED BY <1>3, <2>6, <2>7
<1>15. listener' = Len(fetches')
  BY <1>2, <1>8 DEF StartSearch
<1> QED BY <1>1, <1>8, <1>12, <1>13, <1>14, <1>15 DEF SearchInv

LEMMA StopPrompt ==
    ASSUME SearchInv, StopSearch
    PROVE  SearchInv'
<1>1. TypeInv /\ TypeInv'
  BY StopType DEF SearchInv
<1>2. PICK n : n = Len(fetches)
  OBVIOUS
<1>3. /\ n \in Nat /\ Typed(n, fetches, ctl, timers) /\ Prompt(n, fetches, ctl, timers)
  BY <1>1, <1>2, LenProperties DEF TypeInv, Typed, SearchInv
<1>4. /\ Len(fetches') = n
      /\ \A k \in 1..n :
           /\ fetches'[k].term = fetches[k].term
           /\ fetches'[k].history = fetches[k].history
           /\ fetches'[k].from = fetches[k].from
           /\ \/ fetches'[k] = fetches[k] /\ ~(k = ctl.request /\ fetches[k].xhr = "sent")
              \/ fetches'[k].remote = "aborted" /\ fetches'[k].out = "null"
  BY <1>3, StoppedShape DEF StopSearch
<1>5. \A k \in 1..n :
        /\ k # n => fetches'[k].history # "wait" /\ fetches'[k].out # "wait"
        /\ fetches'[k].remote # "wait"
        /\ fetches'[k].remote \in {"ok", "timeout"} => fetches'[k].from = k
        /\ fetches'[k].out = "wait" => fetches'[k].history = "wait"
  BY <1>2, <1>3, <1>4 DEF SearchInv, Prompt, Pending
<1>6. ctl' = Idle /\ timers' = {}
  BY <1>3 DEF StopSearch, Prompt, Running
<1>7. Prompt(n, fetches', ctl', timers')
  BY <1>5, <1>6 DEF Prompt, Idle
<1>8. Pending(fetches')
  BY <1>4, <1>5 DEF Pending
<1>9. OwnResults'
  BY <1>2, <1>4 DEF SearchInv, OwnResults, Searches, StopSearch
<1> QED BY <1>1, <1>2, <1>4, <1>7, <1>8, <1>9 DEF SearchInv, StopSearch

\* A step that leaves prompt fetches, controller and timers to _dedupeAndReturnResults:
\* the search that is over then is the last one, and so is the listener.
LEMMA ReturnPrompt ==
    ASSUME SearchInv, TypeInv', NEW n, n = Len(fetches), NEW fs, NEW c, NEW ts,
           Typed(n, fs, c, ts), Prompt(n, fs, c, ts),
           \A j \in 1..n : fs[j].term = fetches[j].term,
           NEW k \in 1..n,
           \A j \in 1..n : j # k => fs[j] = fetches[j],
           Return(fs, k, c, ts)
    PROVE  SearchInv'
<1>1. n \in Nat /\ fs \in Seq(Fetch) /\ Len(fs) = n /\ TypeInv
  BY LenProperties DEF SearchInv, TypeInv, Typed
<1>2. /\ Len(fetches') = n
      /\ \A j \in 1..n : j # k => fetches'[j] = fs[j]
      /\ \A j \in 1..n :
           /\ fetches'[j].term = fs[j].term /\ fetches'[j].history = fs[j].history
           /\ fetches'[j].xhr = fs[j].xhr /\ fetches'[j].remote = fs[j].remote
           /\ fetches'[j].from = fs[j].from
      /\ \/ ~Complete(fs[k]) /\ fetches' = fs
         \/ Complete(fs[k]) /\ fetches'[k].out # "wait"
  BY <1>1, ReturnShape
<1>3. \/ ctl' = c /\ timers' = ts /\ UNCHANGED <<listener, told>>
      \/ /\ Complete(fs[k]) /\ c.searchString # NoTerm
         /\ ctl' = Idle /\ timers' = Running(ts, c) /\ listener' = 0
         /\ told' = IF listener = 0 THEN told
                    ELSE [told EXCEPT ![listener] =
                            [by |-> k, term |-> c.searchString,
                             local |-> fs[k].history = "ok",
                             from |-> IF fs[k].remote = "ok" THEN fs[k].from ELSE 0]]
  BY <1>1, ReturnShape
<1>4. Pending(fetches')
  <2>1. \A j \in 1..n : j # k => fetches'[j] = fetches[j]
    BY <1>2
  <2>2. fetches'[k].out = "wait" => fetches'[k].history = "wait" \/ fetches'[k].remote = "wait"
    BY <1>2 DEF Complete
  <2> QED BY <1>2, <2>1, <2>2 DEF SearchInv, Pending
<1>5. \A j \in 1..n :
        /\ j # n => fetches'[j].history # "wait" /\ fetches'[j].out # "wait"
        /\ fetches'[j].remote = "wait" => j = c.request /\ fetches'[j].xhr = "sent"
        /\ fetches'[j].remote \in {"ok", "timeout"} => fetches'[j].from = j
  BY <1>2 DEF Prompt
<1>6. CASE ctl' = c /\ timers' = ts /\ UNCHANGED <<listener, told>>
  <2>1. c.searchString # NoTerm => n # 0 /\ c.searchString = fetches'[n].term
    <3>1. n \in 1..n
      BY <1>1
    <3> QED BY <1>2, <3>1 DEF Prompt
  <2>2. c.timer # 0 => c.timer = n /\ fetches'[n].history # "wait"
    <3>1. n \in 1..n
      BY <1>1
    <3> QED BY <1>2, <3>1 DEF Prompt
  <2>3. Prompt(n, fetches', ctl', timers')
    BY <1>5, <1>6, <2>1, <2>2 DEF Prompt
  <2>4. OwnResults'
    BY <1>2, <1>6 DEF SearchInv, OwnResults, Searches
  <2> QED BY <1>2, <1>4, <1>6, <2>3, <2>4 DEF SearchInv
<1>7. CASE /\ Complete(fs[k]) /\ c.searchString # NoTerm
           /\ ctl' = Idle /\ timers' = Running(ts, c) /\ listener' = 0
           /\ told' = IF listener = 0 THEN told
                      ELSE [told EXCEPT ![listener] =
                              [by |-> k, term |-> c.searchString,
                               local |-> fs[k].history = "ok",
                               from |-> IF fs[k].remote = "ok" THEN fs[k].from ELSE 0]]
  <2>1. k = n /\ c.searchString = fs[k].term
    BY <1>7 DEF Prompt, Complete
  <2>2. \A j \in 1..n : fetches'[j].remote # "wait"
    BY <1>2, <1>5, <1>7, <2>1 DEF Prompt, Complete
  <2>3. timers' = {}
    BY <1>7 DEF Prompt, Running
  <2>4. Prompt(n, fetches', ctl', timers')
    BY <1>5, <1>7, <2>2, <2>3 DEF Prompt, Idle
  <2>5. OwnResults'
    <3>1. Searches = 1..n /\ Searches' = 1..n
      BY <1>2 DEF Searches
    <3>2. CASE listener = 0
      BY <1>2, <1>7, <3>1, <3>2 DEF SearchInv, OwnResults
    <3>3. CASE listener # 0
      <4>1. listener = n /\ n \in 1..Len(told)
        BY <1>1, <2>1, <3>3 DEF SearchInv, TypeInv
      <4>2. PICK t : t = [by |-> k, term |-> c.searchString,
                          local |-> fs[k].history = "ok",
                          from |-> IF fs[k].remote = "ok" THEN fs[k].from ELSE 0]
        OBVIOUS
      <4>3. told' = [told EXCEPT ![n] = t]
        BY <1>7, <3>3, <4>1, <4>2
      <4>4. told'[n] = t /\ \A j \in 1..n : j # n => told'[j] = told[j]
        BY <1>1, <4>1, <4>3, LenProperties DEF TypeInv
      <4>5. t.by = n /\ t.term = fetches'[n].term /\ t.from \in {0, n}
        BY <1>2, <2>1, <4>2 DEF Prompt
      <4> QED BY <1>2, <3>1, <4>4, <4>5 DEF SearchInv, OwnResults
    <3> QED BY <3>2, <3>3
  <2> QED BY <1>2, <1>4, <1>7, <2>4, <2>5 DEF SearchInv
<1> QED BY <1>3, <1>6, <1>7

\* The form history answers for the last search only, for which no timer runs yet.
LEMMA HistoryPrompt ==
    ASSUME SearchInv, NEW k \in Searches, HistoryAnswers(k)
    PROVE  SearchInv'
<1>1. TypeInv /\ TypeInv'
  BY HistoryType DEF SearchInv
<1>2. PICK n : n = Len(fetches)
  OBVIOUS
<1>3. /\ n \in Nat /\ fetches \in Seq(Fetch) /\ k \in 1..n
      /\ Typed(n, fetches, ctl, timers) /\ Prompt(n, fetches, ctl, timers)
  BY <1>1, <1>2, LenProperties DEF TypeInv, Typed, SearchInv, Searches
<1>4. PICK g, c, ts :
        /\ g \in Fetch /\ g.history # "wait" /\ g.term = fetches[k].term
        /\ g.xhr = fetches[k].xhr /\ g.remote = fetches[k].remote
        /\ g.from = fetches[k].from /\ g.out = fetches[k].out
        /\ \/ ctl.request # 0 /\ c = [ctl EXCEPT !.timer = k] /\ ts = timers \cup {k}
           \/ ctl.request = 0 /\ c = ctl /\ ts = timers
        /\ Return([fetches EXCEPT ![k] = g], k, c, ts)
  BY <1>1, <1>2, <1>3, HistoryArguments
<1>5. PICK fs : fs = [fetches EXCEPT ![k] = g]
  OBVIOUS
<1>6. /\ fs \in Seq(Fetch) /\ Len(fs) = n /\ fs[k] = g
      /\ \A j \in 1..n : j # k => fs[j] = fetches[j]
  BY <1>2, <1>3, <1>4, <1>5, OneFetchChanges
<1>7. /\ k = n /\ ctl.timer = 0 /\ timers = {}
  <2>1. fetches[k].history = "wait"
    BY <1>1, <1>2, <1>3, HistoryArguments
  <2>2. k = n
    BY <1>3, <2>1 DEF Prompt
  <2>3. ctl.timer = 0
    BY <1>3, <2>1, <2>2 DEF Prompt
  <2> QED BY <1>3, <2>2, <2>3 DEF Prompt, Typed
<1>8. /\ c.searchString = ctl.searchString /\ c.request = ctl.request
      /\ c.timer \in {0, n} /\ ts \subseteq {c.timer} /\ ts \subseteq 1..n
      /\ c \in [searchString : Terms \cup {NoTerm}, request : {0} \cup 1..n,
                timer : {0} \cup ts]
  BY <1>3, <1>4, <1>7 DEF Typed
<1>9. Typed(n, fs, c, ts)
  <2>1. \A j \in 1..n : fs[j].from \in 0..n
    BY <1>3, <1>4, <1>6 DEF Typed
  <2> QED BY <1>6, <1>8, <2>1 DEF Typed
<1>10. Prompt(n, fs, c, ts)
  <2>1. \A j \in 1..n :
          /\ j # n => fs[j].history # "wait" /\ fs[j].out # "wait"
          /\ fs[j].remote = "wait" => j = c.request /\ fs[j].xhr = "sent"
          /\ fs[j].remote \in {"ok", "timeout"} => fs[j].from = j
    BY <1>3, <1>4, <1>6, <1>7, <1>8 DEF Prompt
  <2>2. c.request \in {0, n} /\ (c.searchString # NoTerm => n # 0 /\ c.searchString = fs[n].term)
    BY <1>3, <1>4, <1>6, <1>7, <1>8 DEF Prompt
  <2>3. c.timer # 0 => c.timer = n /\ fs[n].history # "wait"
    BY <1>4, <1>6, <1>7, <1>8
  <2> QED BY <1>8, <2>1, <2>2, <2>3 DEF Prompt
<1>11. \A j \in 1..n : fs[j].term = fetches[j].term
  BY <1>4, <1>6
<1> QED BY <1>1, <1>2, <1>3, <1>4, <1>5, <1>6, <1>9, <1>10, <1>11, ReturnPrompt

\* A response of an old request settles nothing; one of the last request settles it as
\* the last search's.
LEMMA NetworkPrompt ==
    ASSUME SearchInv, NEW k \in Searches, RemoteLoaded(k) \/ RemoteFailed(k)
    PROVE  SearchInv'
<1>1. TypeInv /\ TypeInv'
  BY NetworkType DEF SearchInv
<1>2. PICK n : n = Len(fetches)
  OBVIOUS
<1>3. /\ n \in Nat /\ k \in 1..n
      /\ Typed(n, fetches, ctl, timers) /\ Prompt(n, fetches, ctl, timers)
  BY <1>1, <1>2, LenProperties DEF TypeInv, Typed, SearchInv, Searches
<1>4. PICK fs :
        /\ fs \in Seq(Fetch) /\ Len(fs) = n
        /\ \A j \in 1..n : j # k => fs[j] = fetches[j]
        /\ fs[k].term = fetches[k].term /\ fs[k].history = fetches[k].history
        /\ fs[k].out = fetches[k].out
        /\ \/ /\ fetches[k].remote # "wait"
              /\ fs[k].remote = fetches[k].remote /\ fs[k].from = fetches[k].from
           \/ /\ fetches[k].remote = "wait" /\ fs[k].remote \in {"ok", "failed"}
              /\ fs[k].from \in {0, ctl.request}
              /\ fs[k].remote = "ok" => fs[k].from = ctl.request
        /\ Return(fs, k, ctl, timers)
  BY <1>1, <1>2, <1>3, LoadArguments
<1>5. /\ fs[k].remote # "wait"
      /\ fs[k].remote \in {"ok", "timeout"} => fs[k].from = k
      /\ k # n => fs[k].history # "wait" /\ fs[k].out # "wait"
  <2>1. /\ fetches[k].remote = "wait" => k = ctl.request
        /\ fetches[k].remote \in {"ok", "timeout"} => fetches[k].from = k
        /\ k # n => fetches[k].history # "wait" /\ fetches[k].out # "wait"
    BY <1>3 DEF Prompt
  <2> QED BY <1>4, <2>1
<1>6. Typed(n, fs, ctl, timers)
  BY <1>3, <1>4 DEF Typed
<1>7. \A j \in 1..n : fs[j].term = fetches[j].term /\ fs[j].history = fetches[j].history
  BY <1>4
<1>8. Prompt(n, fs, ctl, timers)
  <2>1. \A j \in 1..n :
          /\ j # n => fs[j].history # "wait" /\ fs[j].out # "wait"
          /\ fs[j].remote = "wait" => j = ctl.request /\ fs[j].xhr = "sent"
          /\ fs[j].remote \in {"ok", "timeout"} => fs[j].from = j
    BY <1>3, <1>4, <1>5 DEF Prompt
  <2>2. n \in 1..n
    BY <1>3
  <2>3. fs[n].term = fetches[n].term /\ fs[n].history = fetches[n].history
    BY <1>7, <2>2
  <2> QED BY <1>3, <2>1, <2>3 DEF Prompt
<1> QED BY <1>1, <1>2, <1>3, <1>4, <1>6, <1>7, <1>8, ReturnPrompt

\* The timer that fires was started by the last search.
LEMMA TimeoutPrompt ==
    ASSUME SearchInv, NEW i \in timers, RemoteTimeout(i)
    PROVE  SearchInv'
<1>1. TypeInv /\ TypeInv'
  BY TimeoutType DEF SearchInv
<1>2. PICK n : n = Len(fetches)
  OBVIOUS
<1>3. /\ n \in Nat /\ fetches \in Seq(Fetch)
      /\ Typed(n, fetches, ctl, timers) /\ Prompt(n, fetches, ctl, timers)
  BY <1>1, <1>2, LenProperties DEF TypeInv, Typed, SearchInv
<1>4. i = n /\ n \in 1..n /\ timers \ {i} = {}
  BY <1>3 DEF Prompt, Typed
<1>5. PICK c, fs :
        /\ c \in [searchString : Terms \cup {NoTerm}, request : {0}, timer : {0}]
        /\ c.searchString = ctl.searchString
        /\ fs = Resolved(fetches, ctl.request, "timeout", i)
        /\ \/ /\ ctl.request = 0 /\ ctl' = c /\ timers' = timers \ {i}
              /\ UNCHANGED <<fetches, listener, told>>
           \/ /\ ctl.request \in 1..n
              /\ Return(fs, ctl.request, c, timers \ {i})
  <2>1. TypeInv
    BY <1>1
  <2> QED BY <1>2, <2>1, TimeoutArguments
<1>6. CASE /\ ctl.request = 0 /\ ctl' = c /\ timers' = timers \ {i}
           /\ UNCHANGED <<fetches, listener, told>>
  <2>1. Prompt(n, fetches', ctl', timers')
    BY <1>3, <1>4, <1>5, <1>6 DEF Prompt
  <2>2. OwnResults' /\ Pending(fetches')
    BY <1>6 DEF SearchInv, OwnResults, Searches
  <2> QED BY <1>1, <1>2, <1>6, <2>1, <2>2 DEF SearchInv
<1>7. CASE ctl.request \in 1..n /\ Return(fs, ctl.request, c, timers \ {i})
  <2>1. ctl.request = n
    BY <1>3, <1>4, <1>7 DEF Prompt
  <2>2. fs = Resolved(fetches, n, "timeout", n) /\ Return(fs, n, c, {})
    BY <1>4, <1>5, <1>7, <2>1
  <2>3. /\ fs \in Seq(Fetch) /\ Len(fs) = n
        /\ \A j \in 1..n : j # n => fs[j] = fetches[j]
        /\ fs[n].term = fetches[n].term
        /\ \/ fetches[n].remote # "wait" /\ fs[n] = fetches[n]
           \/ fs[n].remote = "timeout" /\ fs[n].from = n
    <3>1. n \in 0..n /\ Len(fetches) = n
      BY <1>2, <1>3
    <3> QED BY <1>3, <1>4, <2>2, <3>1, ResolvedShape
  <2>4. Typed(n, fs, c, {})
    <3>1. \A j \in 1..n : fs[j].from \in 0..n
      BY <1>3, <2>3 DEF Typed
    <3> QED BY <1>5, <2>3, <3>1 DEF Typed
  <2>5. \A j \in 1..n : fs[j].term = fetches[j].term
    BY <2>3
  <2>6. Prompt(n, fs, c, {})
    <3>1. \A j \in 1..n :
            /\ j # n => fs[j].history # "wait" /\ fs[j].out # "wait"
            /\ fs[j].remote # "wait"
            /\ fs[j].remote \in {"ok", "timeout"} => fs[j].from = j
      BY <1>3, <2>1, <2>3 DEF Prompt
    <3> QED BY <1>3, <1>4, <1>5, <2>5, <3>1 DEF Prompt
  <2> QED BY <1>1, <1>2, <1>4, <2>2, <2>3, <2>4, <2>5, <2>6, ReturnPrompt
<1> QED BY <1>5, <1>6, <1>7

LEMMA SearchNext ==
    ASSUME LateHistory = FALSE, SearchInv, [Next]_vars
    PROVE  SearchInv'
<1>1. ASSUME NEW t \in Terms, NEW suggest \in Engines, StartSearch(t, suggest) PROVE SearchInv'
  BY <1>1, StartPrompt
<1>2. CASE StopSearch
  BY <1>2, StopPrompt
<1>3. CASE History
  BY <1>3, HistoryPrompt DEF History
<1>4. CASE Network
  BY <1>4, NetworkPrompt DEF Network
<1>5. CASE Timers
  BY <1>5, TimeoutPrompt DEF Timers
<1>6. CASE UNCHANGED vars
  BY <1>6 DEF vars, SearchInv, TypeInv, Typed, Searches, OwnResults, Prompt, Pending
<1> QED BY <1>1, <1>2, <1>3, <1>4, <1>5, <1>6 DEF Next

\* Where no search starts while the form history is busy, a listener is told the results
\* of its own search under its own term, however many searches and whatever the engine
\* responds, in whichever order.
THEOREM ListenersGetTheirOwn ==
    ASSUME LateHistory = FALSE
    PROVE  Spec => []OwnResults
<1>1. SearchInv => OwnResults
  BY DEF SearchInv
<1> QED BY <1>1, SearchInit, SearchNext, PTL DEF Spec

\* In the same circumstances, an engine is given up only when the time is over that began
\* with the answer of the same search's form history.
THEOREM EnginesGetTheirTime ==
    ASSUME LateHistory = FALSE
    PROVE  Spec => []GivenUpInTime
<1>1. SearchInv => GivenUpInTime
  BY DEF SearchInv, Prompt, GivenUpInTime, Searches
<1> QED BY <1>1, SearchInit, SearchNext, PTL DEF Spec
=============================================================================
