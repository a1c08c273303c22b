---------------------------- MODULE Derivations ----------------------------
(* The derivations of a closure, which plans order and jobs build. *)
EXTENDS FiniteSets

CONSTANT Drv  \* derivations (their paths, or the hashes of their paths)

ASSUME DrvAssumption == IsFiniteSet(Drv)

=============================================================================
