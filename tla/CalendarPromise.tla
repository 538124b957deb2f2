--------------------------- MODULE CalendarPromise ---------------------------
(***************************************************************************)
(* What a calendar promises its clients (calICalendar.idl, calIOperation-   *)
(* Listener): a request is answered at most once, and its answer stands; an *)
(* edit is reported as successful only when the calendar keeps it.  Edits   *)
(* that are written together stand or fall together: of the answers given   *)
(* in one step, none reports success when another reports a failed write.   *)
(***************************************************************************)
EXTENDS Naturals, Sequences

CONSTANTS Kinds,     \* kinds of requests
          EditKinds  \* those that change items

VARIABLES made,  \* the kind of each request, by the request's number
          told,  \* what each request's listener has been told, in order
          kept   \* the edits that the calendar has stored for good

vars == <<made, told, kept>>

Answers == {"ok", "mismatch", "failed"}

Init == made = <<>> /\ told = <<>> /\ kept = {}

\* A client makes a request; nobody has been told anything about it.
Make ==
    /\ \E k \in Kinds, id \in (DOMAIN made') \ DOMAIN made :
         /\ DOMAIN made' = DOMAIN made \cup {id}
         /\ made' = [r \in DOMAIN made' |-> IF r = id THEN k ELSE made[r]]
         /\ told' = [r \in DOMAIN made' |-> IF r = id THEN <<>> ELSE told[r]]
    /\ UNCHANGED kept

\* Some edits are stored.
Keep ==
    /\ kept \subseteq kept' /\ kept' \subseteq DOMAIN made
    /\ UNCHANGED <<made, told>>

\* The requests in S are answered.
Tell(S) ==
    /\ \A id \in S : told[id] = <<>> /\ \E a \in Answers : told'[id] = <<a>>
    /\ \A id \in DOMAIN made \ S : told'[id] = told[id]
    /\ \A id \in S : made[id] \in EditKinds /\ told'[id] = <<"ok">> => id \in kept
    /\ ~ \E r, s \in S : told'[r] = <<"ok">> /\ told'[s] = <<"failed">>
    /\ UNCHANGED <<made, kept>>

Next == Make \/ Keep \/ \E S \in SUBSET DOMAIN made : Tell(S)

Spec == Init /\ [][Next]_vars
=============================================================================
