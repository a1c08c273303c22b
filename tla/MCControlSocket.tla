--------------------------- MODULE MCControlSocket ---------------------------
(* Constants of the model-checked instances of ControlSocket. *)
EXTENDS ControlSocket

\* Features play no part in polling: no job requires one.
MCOffered == [b \in Builder |-> {}]

=============================================================================
