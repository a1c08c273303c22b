----------------------------- MODULE MCHashIndex -----------------------------
(* Model-checked instances of HashIndex: two paths, two contents. *)
EXTENDS HashIndex, TLC

\* Tasks, paths and contents are interchangeable; used for invariants only.
MCSymmetry == Permutations(Task) \cup Permutations(Path) \cup Permutations(Content)

=============================================================================
