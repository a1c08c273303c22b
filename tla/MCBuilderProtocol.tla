-------------------------- MODULE MCBuilderProtocol --------------------------
(* Constants of the model-checked instances of BuilderProtocol. *)
EXTENDS BuilderProtocol, TLC

\* Every builder has every feature.
MCOffersAll == [b \in Builder |-> Feature]

\* Builders differ in nothing; used only where no temporal property is checked.
MCSymmetry == Permutations(Builder)

CONSTANTS d1

MCWithInputs == {d1}

=============================================================================
