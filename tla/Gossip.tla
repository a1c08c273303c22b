------------------------------- MODULE Gossip -------------------------------
(***************************************************************************)
(* Who is said to have which NAR (gossip.rs): nodes broadcast Have, and    *)
(* each node keeps a cache of providers.  NeedBuilder and the requester    *)
(* cache are in BuilderProtocol.  Want is sent and answered by nobody, and *)
(* IHave and BuildComplete are never sent.                                 *)
(*                                                                         *)
(* iroh-gossip hands a message on from neighbor to neighbor and delivers   *)
(* it to each node at most once, or never: reached says which nodes have   *)
(* it.  A node learns of its neighbors' coming and going by events that    *)
(* come in one stream with the messages; when its receiver lags, events    *)
(* are dropped.                                                            *)
(***************************************************************************)
EXTENDS Naturals, Sequences, FiniteSets, Listings

CONSTANTS Node,            \* endpoints
          Path,            \* store paths
          Content,         \* BLAKE3 hashes, which stand for what they are of
          Near,            \* Near[n]: neighbors of n at the start
          Mover,           \* bound: nodes whose neighbors come and go
          MaxBroadcasts,   \* bound: messages ever broadcast
          MaxChurn         \* bound: neighbors' coming and going, in all

ASSUME GossipAssumption ==
    /\ Near \in [Node -> SUBSET Node]
    /\ Mover \subseteq Node
    /\ MaxBroadcasts \in Nat /\ MaxChurn \in Nat

VARIABLES
    neighbors,  \* neighbors[n]: the peers n is connected to in the topic
    haves,      \* the Have messages broadcast so far
    reached,    \* reached[i]: the nodes that have haves[i]
    providers,  \* providers[n][c]: n's provider cache, in order
    churn,      \* how often neighbors have come or gone
    \* history, read by no operation
    missed      \* missed[n]: peers that have gone without n hearing of it

gossipVars == <<neighbors, haves, reached, providers, churn, missed>>

Have == [origin: Node, content: Content, path: Path]
ProviderInfo == [peer: Node, path: Path]

GTypeOK ==
    /\ neighbors \in [Node -> SUBSET Node]
    /\ haves \in Seq(Have)
    /\ reached \in Seq(SUBSET Node)
    /\ Len(reached) = Len(haves)
    /\ providers \in [Node -> [Content -> Seq(ProviderInfo)]]
    /\ churn \in 0 .. MaxChurn
    /\ missed \in [Node -> SUBSET Node]

GInit ==
    /\ neighbors = Near
    /\ haves = <<>>
    /\ reached = <<>>
    /\ providers = [n \in Node |-> [c \in Content |-> <<>>]]
    /\ churn = 0
    /\ missed = [n \in Node |-> {}]

Peers(list) == {list[i].peer : i \in DOMAIN list}

\* Seeded fault: the newest provider comes first.
WithProviderFirst(list, info) ==
    IF info.peer \in Peers(list) THEN list ELSE <<info>> \o list

\* add_provider: a peer is listed once per hash.
WithProvider(list, info) ==
    IF info.peer \in Peers(list) THEN list ELSE Append(list, info)

\* remove_provider: the peer goes from the list of every hash.
WithoutPeer(cache, m) ==
    [c \in Content |->
        Retained(cache[c], {i \in DOMAIN cache[c] : cache[c][i].peer # m})]

-----------------------------------------------------------------------------
(* Seeded faults, used to show that the properties can fail. *)

\* Every message adds an entry.
HandleHaveBlindly(i, n, from) ==
    /\ i \in DOMAIN haves
    /\ n \notin reached[i]
    /\ from \in reached[i] \cap neighbors[n]
    /\ reached' = [reached EXCEPT ![i] = @ \cup {n}]
    /\ providers' = [providers EXCEPT ![n][haves[i].content] =
                         Append(@, [peer |-> from, path |-> haves[i].path])]
    /\ UNCHANGED <<neighbors, haves, churn, missed>>

\* The peer is forgotten for one hash only.
NeighborDownOnce(n, m) ==
    /\ m \in neighbors[n]
    /\ churn < MaxChurn
    /\ churn' = churn + 1
    /\ neighbors' = [neighbors EXCEPT ![n] = @ \ {m}]
    /\ \E c \in Content :
           providers' = [providers EXCEPT ![n][c] = WithoutPeer(providers[n], m)[c]]
    /\ UNCHANGED <<haves, reached, missed>>

-----------------------------------------------------------------------------
\* announce_have.  A broadcast that fails is logged and forgotten.
Announce(n, c, p) ==
    IF Len(haves) < MaxBroadcasts
      THEN /\ haves' = Append(haves, [origin |-> n, content |-> c, path |-> p])
           /\ reached' = Append(reached, {n})
      ELSE UNCHANGED <<haves, reached>>

\* The receiver loop gets message i from a neighbor that has it: that
\* neighbor is entered as the provider.
HandleHave(i, n, from) ==
    /\ i \in DOMAIN haves
    /\ n \notin reached[i]
    /\ from \in reached[i] \cap neighbors[n]
    /\ reached' = [reached EXCEPT ![i] = @ \cup {n}]
    /\ providers' = [providers EXCEPT ![n][haves[i].content] =
                         WithProvider(@, [peer |-> from, path |-> haves[i].path])]
    /\ UNCHANGED <<neighbors, haves, churn, missed>>

NeighborUp(n, m) ==
    /\ m \notin neighbors[n] \cup {n}
    /\ churn < MaxChurn
    /\ churn' = churn + 1
    /\ neighbors' = [neighbors EXCEPT ![n] = @ \cup {m}]
    /\ missed' = [missed EXCEPT ![n] = @ \ {m}]
    /\ UNCHANGED <<haves, reached, providers>>

NeighborDown(n, m) ==
    /\ m \in neighbors[n]
    /\ churn < MaxChurn
    /\ churn' = churn + 1
    /\ neighbors' = [neighbors EXCEPT ![n] = @ \ {m}]
    /\ providers' = [providers EXCEPT ![n] = WithoutPeer(@, m)]
    /\ UNCHANGED <<haves, reached, missed>>

\* The event is among those dropped when the receiver lags: nothing is taken
\* from the cache, then or later.
NeighborDownMissed(n, m) ==
    /\ m \in neighbors[n]
    /\ churn < MaxChurn
    /\ churn' = churn + 1
    /\ neighbors' = [neighbors EXCEPT ![n] = @ \ {m}]
    /\ missed' = [missed EXCEPT ![n] = @ \cup {m}]
    /\ UNCHANGED <<haves, reached, providers>>

GossipStep ==
    \/ \E i \in DOMAIN haves, n, from \in Node : HandleHave(i, n, from)
    \/ \E n \in Mover, m \in Node :
           NeighborUp(n, m) \/ NeighborDown(n, m) \/ NeighborDownMissed(n, m)

-----------------------------------------------------------------------------
(* Properties *)

\* No peer is listed twice for a hash, however often and by whichever way its
\* announcements come (add_provider).
ProvidersOnce ==
    \A n \in Node, c \in Content : \A i, k \in DOMAIN providers[n][c] :
        providers[n][c][i].peer = providers[n][c][k].peer => i = k

\* A peer that has gone is in no list: every provider is a peer the node is
\* connected to, or one whose going it never heard of because its receiver
\* lagged (remove_provider, Event::Lagged).
GoneOnlyIfMissed ==
    \A n \in Node, c \in Content :
        Peers(providers[n][c]) \subseteq neighbors[n] \cup missed[n]

\* The first provider of a hash, the one a fetch takes, is displaced by no
\* other, however many announce the hash and neighbors go: it stays the first
\* until the node loses it as a neighbor (add_provider, remove_provider).
FirstProviderStays ==
    [][\A n \in Node, c \in Content :
          LET list == providers[n][c] IN
          list # <<>> => \/ /\ providers'[n][c] # <<>>
                            /\ Head(providers'[n][c]) = Head(list)
                         \/ Head(list).peer \notin neighbors'[n]]_providers

\* ProviderInfo: "peer that has an artifact".  Whoever is listed for a hash
\* has announced it.
ProvidersAnnounced ==
    \A n \in Node, c \in Content : \A m \in Peers(providers[n][c]) :
        \E i \in DOMAIN haves : haves[i].origin = m /\ haves[i].content = c

=============================================================================
