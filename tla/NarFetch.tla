------------------------------ MODULE NarFetch ------------------------------
(***************************************************************************)
(* What fetching a NAR promises, whatever peers, connections, caches,      *)
(* stores and retries do below it: a fetch that is asked for a content     *)
(* comes to hold it, under a path that had it, or fails; once it holds it  *)
(* it delivers or fails, and asks nobody any more; it delivers only what   *)
(* it held; and it makes up no content.                                    *)
(* Transfer implements this specification.                                 *)
(***************************************************************************)
CONSTANTS Fetcher,  \* nodes that fetch
          Path, Content,
          Null      \* nothing

VARIABLES phase,    \* where the fetch of each node is
          want,     \* the content it is asked for
          held,     \* the path and the content it has obtained
          had       \* the contents paths have had, or may have, anywhere

nvars == <<phase, want, held, had>>

NInit ==
    /\ phase = [n \in Fetcher |-> "idle"]
    /\ want = [n \in Fetcher |-> Null]
    /\ held = [n \in Fetcher |-> Null]
    /\ had \in SUBSET (Path \X Content)

\* A node has one fetch after the other.
Ask(n, c) ==
    /\ phase[n] \in {"idle", "delivered", "failed"}
    /\ phase' = [phase EXCEPT ![n] = "asked"]
    /\ want' = [want EXCEPT ![n] = c]
    /\ UNCHANGED <<held, had>>

Obtain(n) ==
    /\ phase[n] = "asked"
    /\ \E x \in had : x[2] = want[n] /\ held' = [held EXCEPT ![n] = x]
    /\ phase' = [phase EXCEPT ![n] = "held"]
    /\ UNCHANGED <<want, had>>

Ends(n, from, to) ==
    /\ phase[n] = from
    /\ phase' = [phase EXCEPT ![n] = to]
    /\ want' = [want EXCEPT ![n] = Null]
    /\ held' = [held EXCEPT ![n] = Null]
    /\ UNCHANGED had

Deliver(n) == Ends(n, "held", "delivered")
GiveUp(n) == \E before \in {"asked", "held"} : Ends(n, before, "failed")
Forget(n) == \E over \in {"delivered", "failed"} : Ends(n, over, "idle")

\* Others change the stores.
Appear(p, c) ==
    /\ had' = had \cup {<<p, c>>}
    /\ UNCHANGED <<phase, want, held>>

NNext ==
    \/ \E n \in Fetcher : \/ \E c \in Content : Ask(n, c)
                          \/ Obtain(n) \/ Deliver(n) \/ GiveUp(n) \/ Forget(n)
    \/ \E p \in Path, c \in Content : Appear(p, c)

NSpec == NInit /\ [][NNext]_nvars

=============================================================================
