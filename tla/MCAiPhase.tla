----------------------------- MODULE MCAiPhase -----------------------------
(***************************************************************************)
(* An instance of AiPhase for TLC.  Two requests change the profiles while *)
(* two threads work off three batches, so that two are at work at once and *)
(* the third waits and may be late; the cap may grow, but not double.      *)
(***************************************************************************)
EXTENDS AiPhase, TLC

CONSTANTS r1, r2, p1, p2, o1, o2

Profiled == [provider |-> "openai", capRetry |-> TRUE]

Local == [provider |-> "ollama", capRetry |-> FALSE]

Keyless == [provider |-> "keyless", capRetry |-> FALSE]

\* The profile in use, p1, may be deleted, and the other one be saved, made the
\* default, or chosen.
SomeQueries ==
    {[op |-> "save", name |-> p2, text |-> Keyless], [op |-> "delete", name |-> p1],
     [op |-> "default", name |-> p2]}
      \cup [op : {"choose"}, names : {{p2}}, org : {o1, o2}]

\* Two profiles, or none yet.
SomeConfigs ==
    {[profiles |-> (p1 :> {Profiled} @@ p2 :> {Local}), default |-> {p1}], NoConfig}

SomeTexts == {Profiled, Local, Keyless}

Symmetric == Permutations(Requests)
=============================================================================
