---------------------------- MODULE MCSubstituter ----------------------------
(***************************************************************************)
(* Model-checked instances of Substituter, with Transfer and Gossip below  *)
(* it: three nodes in a row, the last of which fetches and answers nix.    *)
(***************************************************************************)
EXTENDS Substituter

CONSTANTS n1, n2, n3, c1

MCNear == [n \in Node |-> IF n = n2 THEN {n1, n3} ELSE {n2}]

\* The first cache has nothing, the second not always what a row names.
MCHttpCaches == <<[p \in Path |-> {}], [p \in Path |-> {c1}]>>

=============================================================================
