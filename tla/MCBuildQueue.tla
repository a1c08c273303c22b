---------------------------- MODULE MCBuildQueue ----------------------------
(* Constants of the model-checked instance of BuildQueue. *)
EXTENDS BuildQueue, TLC

CONSTANTS b1, b2, f1

\* b1 lacks the only feature, so it must skip jobs that require it.
MCOffered == b1 :> {} @@ b2 :> {f1}

\* Submitters and derivations are interchangeable.  The run's only property
\* is about single steps, which symmetry preserves; it has no liveness part.
MCSymmetry == Permutations(Submitter) \cup Permutations(Drv)

=============================================================================
