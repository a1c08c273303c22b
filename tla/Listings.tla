------------------------------ MODULE Listings ------------------------------
(* Sequences that list things: job queues and build orders. *)
EXTENDS Naturals, Sequences, FiniteSets

Elements(s) == {s[i] : i \in DOMAIN s}

NoRepeats(s) == \A i, k \in DOMAIN s : s[i] = s[k] => i = k

\* s without its i-th element (VecDeque::remove).
Without(s, i) ==
    [k \in 1 .. Len(s) - 1 |-> IF k < i THEN s[k] ELSE s[k + 1]]

\* The sequences that list the elements of S, each once, in some order: how a
\* hash map or a hash set may be iterated.
Orderings(S) ==
    {f \in [1 .. Cardinality(S) -> S] : Elements(f) = S /\ NoRepeats(f)}

\* The numbers in S, the least first.
AscendingOrder(S) ==
    CHOOSE f \in Orderings(S) : \A i, k \in DOMAIN f : i < k => f[i] < f[k]

\* What is left of s when only the positions in kept are (Vec::retain).
Retained(s, kept) == [k \in 1 .. Cardinality(kept) |-> s[AscendingOrder(kept)[k]]]

=============================================================================
