---------------------------- MODULE CloudUpload ----------------------------
(***************************************************************************)
(* Attachments that a message only links to: a compose window               *)
(* (MsgComposeCommands.js, cloudAttachmentLinkManager.js) has them uploaded *)
(* by the provider (nsNextcloud.js), which uploads one file after another:   *)
(* log in, ask for the quota, PUT, ask for the link.  Sending is disabled    *)
(* while a counter of uploads is not zero.  The password is at hand.        *)
(***************************************************************************)
EXTENDS Integers, Sequences, SequencesExt, FiniteSets

CONSTANTS
    Files,      \* the files a user may attach, each once
    None,       \* stands for null
    Faults,     \* what may fail: "logon", "info", "quota", "put", "share"
    Cancels,    \* what a user may cancel: "queued", "first" (before its PUT), "running"
    MaxToggles  \* bound: changes between online and offline

Chained == "callback"    \* the callback that is handed over where an observer should be

ASSUME ConstantsAssumption ==
    /\ None \notin Files /\ Chained \notin Files /\ MaxToggles \in Nat
    /\ Faults \subseteq {"logon", "info", "quota", "put", "share"}
    /\ Cancels \subseteq {"queued", "first", "running"}

VARIABLES
    item,       \* the attachment in the bucket: "none", "uploading", ... "removed"
    count,      \* gNumUploadingAttachments
    links,      \* cloudAttachments: the attachments with a link in the message
    provider,   \* the provider's _loggedIn, requestObserver, _uploadingFile, ...
    flights,    \* its requests under way: [kind, file, observer]
    shared,     \* the files that the server has a link for
    offline,    \* Services.io.offline
    toggles,    \* bound
    astray      \* history: something happened for which the queue is not made

compose == <<item, count, links>>
vars == <<compose, provider, flights, shared, offline, toggles, astray>>

Flight(kind, f, observer) == [kind |-> kind, file |-> f, observer |-> observer]

Init ==
    /\ item = [f \in Files |-> "none"] /\ count = 0 /\ links = {}
    /\ provider \in [loggedIn : BOOLEAN, requestObserver : {None}, uploadingFile : {None},
                     uploader : {None}, uploads : {<<>>}]
    /\ flights = {} /\ shared = {} /\ astray = FALSE
    /\ offline \in BOOLEAN /\ toggles = MaxToggles

-----------------------------------------------------------------------------
(* The compose window's uploadListener.                                     *)

\* Mutant: a failure is not counted down.
ToldKeepsCount(oks, bads, gone) ==
    /\ item' = [f \in Files |-> IF item[f] = "removed" \/ f \in gone THEN "removed"
                                ELSE IF f \in oks THEN "uploaded"
                                ELSE IF f \in bads THEN "failed" ELSE item[f]]
    /\ count' = count - Cardinality(oks)
    /\ links' = links \cup oks

\* onStopRequest of the listeners of the files oks, with success, and bads, without;
\* gone are attachments that the user is just removing.
Told(oks, bads, gone) ==
    /\ item' = [f \in Files |-> IF item[f] = "removed" \/ f \in gone THEN "removed"
                                ELSE IF f \in oks THEN "uploaded"
                                ELSE IF f \in bads THEN "failed" ELSE item[f]]
    /\ count' = count - Cardinality(oks \cup bads)
    /\ links' = links \cup oks

-----------------------------------------------------------------------------
(* The provider.                                                             *)

\* uploadFile when no other file is being uploaded: what is asked of the server first.
First(f, observer) == Flight(IF provider.loggedIn THEN "info" ELSE "logon", f, observer)

\* _uploaderCallback: the listener is told and the next file is uploaded, except that
\* offline all that wait fail at once.  Where the next file's observer should be, this
\* callback is handed over.  fl are the other requests.
UploaderCallback(oks, bads, gone, fl) ==
    LET rest == IF provider.uploads = <<>> THEN <<>> ELSE Tail(provider.uploads)
        idle == [provider EXCEPT !.uploadingFile = None, !.uploader = None, !.uploads = <<>>]
        next == Head(rest)
    IN  IF rest = <<>> \/ offline
        THEN provider' = idle /\ flights' = fl /\ Told(oks, bads \cup ToSet(rest), gone)
        ELSE /\ provider' = [provider EXCEPT !.uploads = rest, !.uploadingFile = next,
                                !.uploader = next, !.requestObserver = Chained]
             /\ flights' = fl \cup {First(next, Chained)} /\ Told(oks, bads, gone)

\* attachToCloud: the attachment is in the bucket and counted; then uploadFile, which
\* throws offline, and queues the file if another is being uploaded.
Attach(f) ==
    /\ item[f] = "none"
    /\ UNCHANGED <<links, shared, offline, toggles, astray>>
    /\ IF offline
       THEN item' = [item EXCEPT ![f] = "failed"] /\ UNCHANGED <<count, provider, flights>>
       ELSE /\ item' = [item EXCEPT ![f] = "uploading"] /\ count' = count + 1
            /\ IF provider.uploadingFile # None
               THEN /\ provider' = [provider EXCEPT !.requestObserver = f,
                                        !.uploads = Append(@, f)]
                    /\ UNCHANGED flights
               ELSE /\ provider' = [provider EXCEPT !.requestObserver = f, !.uploadingFile = f]
                    /\ flights' = flights \cup {First(f, f)}

\* logon, _getUserInfo: a failure is told to the observer stashed last, which may be the
\* callback or another file's; nobody goes on with the file.
Refused(fl) ==
    /\ fl.kind \in Faults /\ flights' = flights \ {fl} /\ astray' = TRUE
    /\ provider' = [provider EXCEPT !.loggedIn = @ /\ fl.kind # "logon"]
    /\ IF provider.requestObserver = Chained THEN UNCHANGED compose
       ELSE Told({}, {provider.requestObserver}, {})

\* Mutant: logged in, the provider does not go on with the file.
LogonAnswerStops(fl) ==
    /\ fl.kind = "logon" /\ UNCHANGED <<shared, offline, toggles>>
    /\ \/ /\ provider' = [provider EXCEPT !.loggedIn = TRUE]
          /\ flights' = flights \ {fl} /\ UNCHANGED <<compose, astray>>
       \/ Refused(fl)

LogonAnswer(fl) ==
    /\ fl.kind = "logon" /\ UNCHANGED <<shared, offline, toggles>>
    /\ \/ /\ provider' = [provider EXCEPT !.loggedIn = TRUE]
          /\ flights' = (flights \ {fl}) \cup {Flight("info", fl.file, fl.observer)}
          /\ UNCHANGED <<compose, astray>>
       \/ Refused(fl)

\* Mutant: the new uploader is put at the end of the queue.
FinishUploadAppends(fl) ==
    LET u == IF provider.uploader = None THEN fl.file ELSE provider.uploader
    IN  \/ /\ provider' = [provider EXCEPT !.uploader = u, !.uploadingFile = fl.file,
                 !.uploads = IF provider.uploader = None THEN @ \o <<u>> ELSE @]
           /\ flights' = (flights \ {fl}) \cup {Flight("put", u, u)}
           /\ UNCHANGED <<compose, astray>>
        \/ /\ "quota" \in Faults /\ flights' = flights \ {fl} /\ astray' = TRUE
           /\ IF fl.observer = Chained THEN UNCHANGED compose ELSE Told({}, {fl.observer}, {})
           /\ UNCHANGED provider

\* _finishUpload: a file over the quota is refused, and the queue with it; otherwise
\* the uploader, or a new one, sends its file.
FinishUpload(fl) ==
    LET u == IF provider.uploader = None THEN fl.file ELSE provider.uploader
    IN  \/ /\ provider' = [provider EXCEPT !.uploader = u, !.uploadingFile = fl.file,
                 !.uploads = IF provider.uploader = None THEN <<u>> \o @ ELSE @]
           /\ flights' = (flights \ {fl}) \cup {Flight("put", u, u)}
           /\ UNCHANGED <<compose, astray>>
        \/ /\ "quota" \in Faults /\ flights' = flights \ {fl} /\ astray' = TRUE
           /\ IF fl.observer = Chained THEN UNCHANGED compose ELSE Told({}, {fl.observer}, {})
           /\ UNCHANGED provider

InfoAnswer(fl) ==
    /\ fl.kind = "info" /\ UNCHANGED <<shared, offline, toggles>>
    /\ FinishUpload(fl) \/ Refused(fl)

\* The uploader's PUT and _getShareUrl.
PutAnswer(fl) ==
    /\ fl.kind = "put" /\ UNCHANGED <<shared, offline, toggles, astray>>
    /\ \/ /\ flights' = (flights \ {fl}) \cup {Flight("share", fl.file, fl.file)}
          /\ UNCHANGED <<compose, provider>>
       \/ "put" \in Faults /\ UploaderCallback({}, {fl.file}, {}, flights \ {fl})

\* For an attachment that has been removed, the listener throws when it is told of the
\* success, and is told a failure instead.
ShareAnswer(fl) ==
    /\ fl.kind = "share" /\ UNCHANGED <<offline, toggles, astray>>
    /\ \/ /\ shared' = shared \cup {fl.file}
          /\ LET oks == {f \in {fl.file} : item[f] # "removed"}
             IN  UploaderCallback(oks, {fl.file} \ oks, {}, flights \ {fl})
       \/ /\ "share" \in Faults /\ UploaderCallback({}, {fl.file}, {}, flights \ {fl})
          /\ UNCHANGED shared

-----------------------------------------------------------------------------
(* What the user does, and the network.                                     *)

\* cancelFileUpload, by the command or for an attachment that is removed: a file in the
\* queue is taken out of it.  The uploader of the running one only calls back, its
\* request goes on; before there is an uploader, nothing can be cancelled.
CancelFileUpload(f, gone) ==
    LET kind == IF provider.uploadingFile # f THEN "queued"
                ELSE IF provider.uploader = None THEN "first" ELSE "running"
        queue == provider.uploads
    IN  /\ item[f] = "uploading" /\ kind \in Cancels /\ gone \subseteq {f}
        /\ astray' = (astray \/ kind = "running")
        /\ UNCHANGED <<shared, offline, toggles>>
        /\ \/ \E i \in DOMAIN queue :
                /\ kind = "queued" /\ queue[i] = f /\ \A j \in 1..(i - 1) : queue[j] # f
                /\ provider' = [provider EXCEPT !.uploads = RemoveAt(@, i)]
                /\ Told({}, {f}, gone) /\ UNCHANGED flights
           \/ /\ kind = "first" \/ (kind = "queued" /\ f \notin ToSet(queue))
              /\ Told({}, {}, gone) /\ UNCHANGED <<provider, flights>>
           \/ kind = "running" /\ UploaderCallback({}, {provider.uploader}, gone, flights)

\* An attachment that has been uploaded, or failed, is removed.
RemoveAttachment(f) ==
    /\ item[f] \in {"uploaded", "failed"} /\ item' = [item EXCEPT ![f] = "removed"]
    /\ links' = links \ {f}
    /\ UNCHANGED <<count, provider, flights, shared, offline, toggles, astray>>

Toggle ==
    /\ toggles > 0 /\ toggles' = toggles - 1 /\ offline' = ~offline
    /\ UNCHANGED <<compose, provider, flights, shared, astray>>

Answer ==
    \E fl \in flights : LogonAnswer(fl) \/ InfoAnswer(fl) \/ PutAnswer(fl) \/ ShareAnswer(fl)

Next ==
    \/ Answer \/ Toggle
    \/ \E f \in Files : \/ Attach(f) \/ RemoveAttachment(f)
                        \/ \E gone \in SUBSET {f} : CancelFileUpload(f, gone)

Spec == Init /\ [][Next]_vars

\* The server answers.
FairSpec == Spec /\ WF_vars(Answer)

-----------------------------------------------------------------------------
Waiting == (ToSet(provider.uploads) \cup {provider.uploadingFile}) \ {None}

\* The state keeps its types; unless something has gone astray, one file is being
\* uploaded at a time, it is the first in the queue, and no file is there twice.
TypeOK ==
    /\ item \in [Files -> {"none", "uploading", "uploaded", "failed", "removed"}]
    /\ count \in Int /\ links \subseteq Files /\ shared \subseteq Files
    /\ provider.uploader \in Files \cup {None} /\ provider.uploadingFile \in Files \cup {None}
    /\ provider.requestObserver \in Files \cup {None, Chained}
    /\ \A fl \in flights : fl.file \in Files /\ fl.observer \in Files \cup {Chained}
    /\ ~astray => /\ IsInjective(provider.uploads) /\ Cardinality(flights) <= 1
                  /\ \A fl \in flights : fl.file = provider.uploadingFile
                  /\ provider.uploader # None =>
                        provider.uploads # <<>> /\ Head(provider.uploads) = provider.uploadingFile

\* Sending is disabled exactly as long as the provider has a file of the message to
\* upload, and an attachment that is shown as uploading is one of them.
SendWaitsForUploads ==
    /\ count = Cardinality(Waiting)
    /\ \A f \in Files : item[f] = "uploading" => f \in Waiting
    /\ \A f \in Waiting : item[f] \in {"uploading", "removed"}

\* The message links only to files of which the server has a link, and to no attachment
\* that has been removed.
LinksAreShared == \A f \in links : f \in shared /\ item[f] # "removed"

\* The compose window agrees with the provider, in whatever order files are attached,
\* answered, cancelled and removed: its links at any time, its counter and its
\* attachments unless something has gone astray.
WindowAgrees == LinksAreShared /\ (astray \/ SendWaitsForUploads)

\* Every upload comes to an end, and sending is possible again, unless something has
\* gone astray.
EveryUploadEnds ==
    /\ \A f \in Files : item[f] = "uploading" ~> (item[f] # "uploading" \/ astray)
    /\ count # 0 ~> (count = 0 \/ astray)
=============================================================================
