----------------------------- MODULE MCRegistry -----------------------------
(***************************************************************************)
(* An instance of Registry for TLC.  Two organizations are registered,     *)
(* perhaps twice, while the domains of one are added to and its OpenHack   *)
(* configuration changes; reads and writes may fail, the process may       *)
(* restart once.                                                           *)
(***************************************************************************)
EXTENDS Registry, TLC

CONSTANTS s1, s2, d, r1, r2, r3

SomeQueries ==
    {[op |-> "register", slug |-> s1, domains |-> {}],
     [op |-> "register", slug |-> s2, domains |-> {d}],
     [op |-> "add", slug |-> s1, domains |-> {d}],
     [op |-> "config", slug |-> s1, enabled |-> "on", model |-> "keep"]}

Symmetric == Permutations(Requests)
=============================================================================
