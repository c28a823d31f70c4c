---------------------------- MODULE AtomicEdits ----------------------------
(***************************************************************************)
(* What an organization's files promise to its analysts: there is one set  *)
(* of edits and one history.  An edit is made at one moment and stays; it  *)
(* is answered at the moment the history tells of it; whatever else goes   *)
(* on only adds to the history.  There are no locks, copies or jobs.       *)
(***************************************************************************)
CONSTANT Edits

VARIABLES
    made,       \* the edits that are in the findings
    history,    \* the events
    answered,   \* the edits that were answered with success
    failed      \* the edits that were answered with an error, or never

vars == <<made, history, answered, failed>>

EditEvent(e) == [edit |-> e]

Init == made = {} /\ history = {} /\ answered = {} /\ failed = {}

Make(e) ==
    /\ e \notin made \cup failed
    /\ made' = made \cup {e}
    /\ UNCHANGED <<history, answered, failed>>

Answer(e) ==
    /\ e \in made /\ e \notin answered \cup failed
    /\ history' = history \cup {EditEvent(e)}
    /\ answered' = answered \cup {e}
    /\ UNCHANGED <<made, failed>>

\* Requests fail, one of them or, when the process dies, all that were under way.
\* What was made before stays.
Fail ==
    /\ failed \subseteq failed' /\ failed' \subseteq Edits \ answered
    /\ UNCHANGED <<made, history, answered>>

\* A job leaves an event of its own.
Note ==
    /\ \E ev \in history' : "edit" \notin DOMAIN ev /\ history' = history \cup {ev}
    /\ UNCHANGED <<made, answered, failed>>

Next == (\E e \in Edits : Make(e) \/ Answer(e)) \/ Fail \/ Note

Spec == Init /\ [][Next]_vars
=============================================================================
