----------------------------- MODULE MCBuildPush -----------------------------
(***************************************************************************)
(* Model-checked instances of BuildPush: every graph over the derivations  *)
(* and every set of them to build.                                         *)
(***************************************************************************)
EXTENDS BuildPush

CONSTANTS kvm, A

MCNeeds == [d \in Drv |-> IF d = A THEN {kvm} ELSE {}]

\* Every builder offers all features.
MCOffered == [b \in Builder |-> {kvm}]

=============================================================================
