------------------------ MODULE SuggestionController ------------------------
(***************************************************************************)
(* Search suggestions (components/search/service): SuggestAutoComplete and  *)
(* its SearchSuggestionController.  A search asks the form history and, if  *)
(* the engine suggests, the engine; it is answered when both have answered  *)
(* or the engine has been given up.  A new search stops the one before it.  *)
(*                                                                          *)
(* Promise reactions run at the end of the event that settles the promise,  *)
(* so that they belong to the same step.                                    *)
(***************************************************************************)
EXTENDS Naturals, Sequences

CONSTANTS
    Terms,        \* what users type
    NoTerm,       \* stands for _searchString === null
    Engines,      \* may an engine suggest: subset of BOOLEAN
    Responses,    \* how an engine may respond
    LateHistory,  \* may a search start while the form history is busy?
    MaxSearches   \* bound: searches

ASSUME ConstantsAssumption ==
    /\ NoTerm \notin Terms
    /\ Engines \subseteq BOOLEAN
    /\ Responses \subseteq {"ok", "bad"}
    /\ LateHistory \in BOOLEAN
    /\ MaxSearches \in Nat

VARIABLES
    fetches,   \* every fetch ever made; a fetch is named by its index
    ctl,       \* the controller: _searchString, _request (0: null) and
               \* _remoteResultTimer (0: null, otherwise who started it);
               \* _deferredRemoteResult is always that of _request
    timers,    \* the timers that are running
    listener,  \* _listener: the search it was passed with, or 0
    told       \* what the listener of each search was told

vars == <<fetches, ctl, timers, listener, told>>

Idle    == [searchString |-> NoTerm, request |-> 0, timer |-> 0]
Nothing == [by |-> 0, term |-> NoTerm, local |-> FALSE, from |-> 0]

Init ==
    /\ fetches = <<>> /\ told = <<>>
    /\ ctl = Idle /\ timers = {} /\ listener = 0

-----------------------------------------------------------------------------
\* Mutant: _reset forgets the timer without cancelling it.
RunningStill(ts, c) == ts

\* _reset: the timers that go on running.
Running(ts, c) == ts \ {c.timer}

\* Mutant: stop does not abort the request.
StoppedOnly(fs) == fs

\* stop: the request is aborted, which rejects the fetch's promise.  One that has
\* been answered, or given up, is not there to be aborted.
Stopped(fs) ==
    LET r == ctl.request IN
    IF r # 0 /\ fs[r].xhr = "sent"
    THEN [fs EXCEPT ![r].xhr = "aborted", ![r].remote = "aborted", ![r].out = "null"]
    ELSE fs

\* Has the form history answered the searches before?
Quick == LateHistory \/ \A k \in 1..Len(fetches) : fetches[k].history # "wait"

\* SuggestAutoComplete.startSearch; suggest: the term is not empty, and the engine
\* and the preferences offer suggestions.
StartSearch(t, suggest) ==
    LET k == Len(fetches) + 1 IN
    /\ Quick /\ Len(fetches) < MaxSearches
    /\ fetches' = Append(Stopped(fetches),
                     [term |-> t, history |-> "wait",
                      xhr    |-> IF suggest THEN "sent" ELSE "none",
                      remote |-> IF suggest THEN "wait" ELSE "none",
                      from |-> 0, out |-> "wait"])
    /\ ctl' = [searchString |-> t, request |-> IF suggest THEN k ELSE 0, timer |-> 0]
    /\ timers' = Running(timers, ctl)
    /\ listener' = k /\ told' = Append(told, Nothing)

\* Mutant: the timer is cancelled, and the controller keeps its reference to it.
StopSearchKeeps ==
    /\ fetches' = Stopped(fetches)
    /\ ctl' = [Idle EXCEPT !.timer = ctl.timer] /\ timers' = Running(timers, ctl)
    /\ UNCHANGED <<listener, told>>

StopSearch ==
    /\ fetches' = Stopped(fetches)
    /\ ctl' = Idle /\ timers' = Running(timers, ctl)
    /\ UNCHANGED <<listener, told>>

-----------------------------------------------------------------------------
(* Answers.                                                                 *)

Complete(f) == f.out = "wait" /\ f.history # "wait" /\ f.remote # "wait"

\* After an event that has settled something of fetch k, with the controller c and
\* the timers ts: if all its promises are settled, _dedupeAndReturnResults labels the
\* results with the controller's search string and resets the controller.
Return(fs, k, c, ts) ==
    \/ /\ ~Complete(fs[k])
       /\ fetches' = fs /\ ctl' = c /\ timers' = ts
       /\ UNCHANGED <<listener, told>>
    \/ /\ Complete(fs[k]) /\ c.searchString = NoTerm
       /\ fetches' = [fs EXCEPT ![k].out = "null"] /\ ctl' = c /\ timers' = ts
       /\ UNCHANGED <<listener, told>>
    \/ /\ Complete(fs[k]) /\ c.searchString # NoTerm
       /\ fetches' = [fs EXCEPT ![k].out = "results"]
       /\ ctl' = Idle /\ timers' = Running(ts, c)
       /\ told' = IF listener = 0 THEN told
                  ELSE [told EXCEPT ![listener] =
                          [by |-> k, term |-> c.searchString,
                           local |-> fs[k].history = "ok",
                           from |-> IF fs[k].remote = "ok" THEN fs[k].from ELSE 0]]
       /\ listener' = 0

\* Mutant: the timer is started only by another fetch, and only if there is none.
Awaits(k) == ctl.request # 0 /\ timers = {} /\ ctl.request # k

\* onSearchResult starts the timer if any request is under way.
StartsTimer(k) == ctl.request # 0

\* The form history answers fetch k; what it has found counts if the term is still
\* the one that is searched for.
HistoryAnswers(k) ==
    /\ fetches[k].history = "wait"
    /\ \E found \in BOOLEAN :
         Return([fetches EXCEPT ![k].history =
                    IF found /\ fetches[k].term = ctl.searchString THEN "ok" ELSE "failed"],
                k,
                IF StartsTimer(k) THEN [ctl EXCEPT !.timer = k] ELSE ctl,
                IF StartsTimer(k) THEN timers \cup {k} ELSE timers)

\* The deferred of fetch k is resolved, unless it has been before.
Resolved(fs, k, how, from) ==
    IF fs[k].remote = "wait" THEN [fs EXCEPT ![k].remote = how, ![k].from = from] ELSE fs

\* _onRemoteLoaded looks at the controller's request, whichever has loaded, and
\* compares the term the engine repeats with the one that is searched for.
RemoteLoaded(k) ==
    /\ fetches[k].xhr = "sent"
    /\ \E response \in Responses :
         LET fs == [fetches EXCEPT ![k].xhr = response]
             r  == ctl.request
         IN  Return(IF r # 0 /\ fs[r].xhr = "ok" /\ fs[r].term = ctl.searchString
                    THEN Resolved(fs, k, "ok", r)
                    ELSE Resolved(fs, k, "failed", 0),
                    k, ctl, timers)

RemoteFailed(k) ==
    /\ fetches[k].xhr = "sent"
    /\ Return(Resolved([fetches EXCEPT ![k].xhr = "bad"], k, "failed", 0), k, ctl, timers)

\* _onRemoteTimeout gives the controller's request up; the request itself goes on.
RemoteTimeout(i) ==
    LET r == ctl.request
        c == [ctl EXCEPT !.request = 0, !.timer = 0]
    IN
    /\ i \in timers
    /\ \/ /\ r # 0
          /\ Return(Resolved(fetches, r, "timeout", i), r, c, timers \ {i})
       \/ /\ r = 0 /\ ctl' = c /\ timers' = timers \ {i}
          /\ UNCHANGED <<fetches, listener, told>>

-----------------------------------------------------------------------------
Searches == 1..Len(fetches)

History == \E k \in Searches : HistoryAnswers(k)
Network == \E k \in Searches : RemoteLoaded(k) \/ RemoteFailed(k)
Timers  == \E i \in timers : RemoteTimeout(i)

Next ==
    \/ \E t \in Terms, suggest \in Engines : StartSearch(t, suggest)
    \/ StopSearch \/ History \/ Network \/ Timers

Spec == Init /\ [][Next]_vars

\* The form history answers and timers fire; an engine may never respond.
FairSpec == Spec /\ WF_vars(History) /\ WF_vars(Timers)

-----------------------------------------------------------------------------
(* Properties.                                                              *)

\* The type invariant.  The controller's timer, if it has one, is running: neither
\* one that has fired nor one that was cancelled is kept.
TypeOK ==
    /\ fetches \in Seq([term : Terms, history : {"wait", "ok", "failed"},
                        xhr : {"none", "sent", "ok", "bad", "aborted"},
                        remote : {"none", "wait", "ok", "failed", "timeout", "aborted"},
                        from : Nat, out : {"wait", "null", "results"}])
    /\ ctl \in [searchString : Terms \cup {NoTerm}, request : {0} \cup Searches,
                timer : {0} \cup timers]
    /\ timers \subseteq Searches
    /\ listener \in {0} \cup Searches
    /\ told \in Seq([by : {0} \cup Searches, term : Terms \cup {NoTerm}, local : BOOLEAN,
                     from : {0} \cup Searches])
    /\ Len(told) = Len(fetches)

\* A listener is told the results of its own search, under its own term: "Fetches
\* in progress will be stopped and results from them will not be provided" (fetch).
OwnResults ==
    \A k \in Searches : told[k].by # 0 =>
        /\ told[k].by = k /\ told[k].term = fetches[k].term
        /\ told[k].from \in {0, k}

\* An engine is given up only when the time that began with the answer of the same
\* search's form history is over: "The timer starts when form history search is
\* completed" (_remoteResultTimer).
GivenUpInTime ==
    \A k \in Searches : fetches[k].remote = "timeout" => fetches[k].from = k

\* Every search is settled, whether or not the engine ever responds ("the maximum
\* time to wait before giving up").
EverySearchSettles ==
    \A k \in 1..MaxSearches :
        (k \in Searches) ~> (k \in Searches /\ fetches[k].out # "wait")
=============================================================================
