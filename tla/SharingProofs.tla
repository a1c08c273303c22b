--------------------------- MODULE SharingProofs ---------------------------
(* Proofs about Gossip, Transfer and Substituter, for every value of their  *)
(* constants: any nodes, stores and caches, and any topic.                  *)
EXTENDS Substituter, ListingLemmas

-----------------------------------------------------------------------------
(* The inductive invariant.  A fetch is genuine in the end because of what  *)
(* holds at each stage before: the peer and the path are known, what lies   *)
(* in a store has been there, and an answer that is what was asked for was  *)
(* read from such a place.                                                  *)

\* The tasks' rows are in a function, which STypeOK has no need to say.
IndexingTyped == indexing \in [Node -> SUBSET Row]

\* What is in a store is among what has been there.
DiskWasHad ==
    /\ \A n \in Node, p \in Path : disk[n][p] # Null => <<p, disk[n][p]>> \in had
    /\ InCaches \subseteq had

Over == {"idle", "ended"}
Asking == {"connecting", "lookup", "check", "stream", "narinfo", "download", "reply"}
Genuine(n) ==
    /\ fetch[n].data = fetch[n].want
    /\ <<fetch[n].path, fetch[n].want>> \in had

\* What is known of the fetch of n at each stage.
FetchKnows(n) ==
    /\ fetch[n].at \in Over <=> fetch[n].want = Null
    /\ fetch[n].at \in Asking => fetch[n].peer \in Node
    /\ fetch[n].at \in {"check", "stream", "narinfo", "download"} => fetch[n].path \in Path
    /\ fetch[n].at = "download" => fetch[n].cache # 0
    /\ fetch[n].at = "reply" /\ fetch[n].answer = "data"
           /\ fetch[n].data = fetch[n].want => Genuine(n)
    /\ fetch[n].at \in {"verified", "importing"} => Genuine(n)

\* What is known of the answer to nix at each stage: the path and the hash
\* come from a row, and the node does not fetch for itself meanwhile.
ClientKnows(n) ==
    /\ client[n].at = "narinfo" => client[n].path \in Path
    /\ client[n].at \in {"exists", "serve", "peers", "trying", "fetching"} =>
           client[n].path \in Path /\ client[n].url \in Content
    /\ client[n].at \notin {"idle", "fetching"} => fetch[n].at \in Over

SharingInv ==
    /\ STypeOK /\ IndexingTyped
    /\ ProvidersOnce /\ GoneOnlyIfMissed
    /\ DiskWasHad
    /\ \A n \in Fetcher : FetchKnows(n) /\ ClientKnows(n)

-----------------------------------------------------------------------------
(* Gossip. *)

\* Each peer of a list is listed once.
PeersOnce(list) == \A i, k \in DOMAIN list : list[i].peer = list[k].peer => i = k

\* add_provider appends to the list or leaves it.
LEMMA WithProviderFacts ==
    ASSUME NEW list \in Seq(ProviderInfo), NEW info \in ProviderInfo
    PROVE  /\ WithProvider(list, info) \in Seq(ProviderInfo)
           /\ WithProvider(list, info) # <<>>
           /\ Peers(WithProvider(list, info)) \subseteq Peers(list) \cup {info.peer}
           /\ PeersOnce(list) => PeersOnce(WithProvider(list, info))
  <1>1. CASE info.peer \in Peers(list)
    <2>1. WithProvider(list, info) = list
      BY <1>1 DEF WithProvider
    <2>2. list # <<>>
      BY <1>1 DEF Peers
    <2> QED
      BY <2>1, <2>2
  <1>2. CASE info.peer \notin Peers(list)
    <2> DEFINE w == Append(list, info)
               N == Len(list)
    <2>1. WithProvider(list, info) = w
      BY <1>2 DEF WithProvider
    <2>2. /\ N \in Nat /\ DOMAIN list = 1 .. N
          /\ w \in Seq(ProviderInfo) /\ DOMAIN w = 1 .. N + 1
          /\ w[N + 1] = info /\ \A i \in 1 .. N : w[i] = list[i]
      OBVIOUS
    <2> HIDE DEF w, N
    <2>3. w # <<>>
      BY <2>2
    <2>4. Peers(w) \subseteq Peers(list) \cup {info.peer}
      BY <2>2 DEF Peers
    <2>5. ASSUME PeersOnce(list) PROVE PeersOnce(w)
      <3>1. \A i \in 1 .. N : list[i].peer # info.peer
        BY <1>2, <2>2 DEF Peers
      <3> QED
        BY <2>2, <2>5, <3>1 DEF PeersOnce
    <2> QED
      BY <2>1, <2>2, <2>3, <2>4, <2>5
  <1> QED
    BY <1>1, <1>2

\* remove_provider leaves no entry of the peer, adds none of another, and
\* empties a list only if it had nobody else.
LEMMA WithoutPeerFacts ==
    ASSUME NEW cache \in [Content -> Seq(ProviderInfo)], NEW m, NEW c \in Content
    PROVE  LET w == WithoutPeer(cache, m)[c] IN
           /\ w \in Seq(ProviderInfo)
           /\ Peers(w) \subseteq Peers(cache[c]) \ {m}
           /\ PeersOnce(cache[c]) => PeersOnce(w)
           /\ w = <<>> => Peers(cache[c]) \subseteq {m}
  <1> DEFINE list == cache[c]
             kept == {i \in DOMAIN list : list[i].peer # m}
             w == Retained(list, kept)
  <1>1. WithoutPeer(cache, m)[c] = w
    BY DEF WithoutPeer
  <1>2. list \in Seq(ProviderInfo) /\ kept \in SUBSET (DOMAIN list)
    OBVIOUS
  <1>3. w \in Seq(ProviderInfo)
    BY <1>2, RetainedFacts
  <1>4. PICK f : /\ f \in [DOMAIN w -> kept]
                 /\ \A k \in DOMAIN w : w[k] = list[f[k]]
                 /\ Elements(f) = kept /\ NoRepeats(f)
    <2> HIDE DEF list, kept
    <2>1. \E f : /\ f \in [DOMAIN w -> kept]
                 /\ \A k \in DOMAIN w : w[k] = list[f[k]]
                 /\ Elements(f) = kept /\ NoRepeats(f) /\ Increasing(f)
      BY <1>2, RetainedFacts
    <2> QED
      BY <2>1
  <1>5. \A k \in DOMAIN w : f[k] \in DOMAIN list /\ list[f[k]].peer # m
    BY <1>4
  <1>6. w = <<>> => Peers(list) \subseteq {m}
    <2> SUFFICES ASSUME w = <<>> PROVE Peers(list) \subseteq {m}
      OBVIOUS
    <2>1. kept = {}
      <3>1. DOMAIN f = {}
        BY <1>4
      <3> QED
        BY <1>4, <3>1 DEF Elements
    <2>2. \A i \in DOMAIN list : list[i].peer = m
      BY <2>1
    <2> HIDE DEF list
    <2> QED
      BY <2>2 DEF Peers
  <1> HIDE DEF w, kept, list
  <1>7. Peers(w) \subseteq Peers(list) \ {m}
    BY <1>4, <1>5 DEF Peers
  <1>8. ASSUME PeersOnce(list) PROVE PeersOnce(w)
    BY <1>4, <1>5, <1>8 DEF PeersOnce, NoRepeats
  <1> QED
    BY <1>1, <1>3, <1>6, <1>7, <1>8 DEF list

\* Gossip's variables change when a message or an event arrives, when a row is
\* announced, or not at all.
LEMMA GossipCases ==
    ASSUME SharingInv, [SNext]_substituterVars
    PROVE  \/ GossipStep
           \/ /\ \E n \in Node, c \in Content, p \in Path : Announce(n, c, p)
              /\ UNCHANGED <<neighbors, providers, churn, missed>>
           \/ UNCHANGED gossipVars
  <1>1. CASE StoreStep
    <2>1. ASSUME NEW n \in Host, NEW p \in Path,
                 IndexReads(n, p) \/ \E c \in Content \cup {Null} : NixChanges(n, p, c)
          PROVE  UNCHANGED gossipVars
      BY <2>1 DEF IndexReads, NixChanges
    <2>2. ASSUME NEW n \in Host, IndexInserts(n)
          PROVE  /\ \E k \in Node, c \in Content, p \in Path : Announce(k, c, p)
                 /\ UNCHANGED <<neighbors, providers, churn, missed>>
      <3>1. PICK row \in indexing[n] : Announce(n, row.blake, row.path)
        BY <2>2 DEF IndexInserts
      <3>2. n \in Node
        BY TransferAssumption
      <3>3. row \in Row
        BY <3>1, <3>2 DEF SharingInv, IndexingTyped
      <3>4. row.blake \in Content /\ row.path \in Path
        BY <3>3 DEF Row
      <3> QED
        BY <2>2, <3>1, <3>2, <3>4 DEF IndexInserts
    <2>3. ASSUME NEW n \in Host, IndexFails(n)
          PROVE  UNCHANGED gossipVars
      BY <2>3 DEF IndexFails
    <2> QED
      BY <1>1, <2>1, <2>2, <2>3 DEF StoreStep
  <1>2. ASSUME NEW n \in Fetcher, FetchStarts(n) \/ Transfers(n) \/ CommandRuns(n)
        PROVE  UNCHANGED gossipVars
    BY <1>2 DEF FetchStarts, Transfers, CommandRuns, FetchQueries, FetchFrom,
         Connects, ConnectFails, Receives, AnswerLost, ServeLookup, ServeCheck,
         ServeStream, AsksCache, CacheHasPath, Downloads, QueryFails, FetchLooks,
         FetchLooksAgain, FetchChooses, FetchIndexes, FetchImports, KeepingFails,
         FetchReturns, OnlyFetch
  <1>3. ASSUME NEW n \in Fetcher,
               \/ ClientRuns(n) \/ AsksNar(n) \/ NixGoesOn(n)
               \/ \E p \in Path : AsksNarinfo(n, p)
        PROVE  UNCHANGED gossipVars
    BY <1>3 DEF ClientRuns, AsksNar, NixGoesOn, AsksNarinfo, LooksUpPath,
         ScansProviders, LooksUpNar, ChecksPath, ServesPath, ReadsProviders,
         TriesProvider, ProviderDelivers, ProviderFails, NoProviderLeft,
         Offers, OnlyClient, OnlyFetch, vars
  <1>4. CASE UNCHANGED substituterVars
    BY <1>4 DEF substituterVars, vars
  <1> QED
    BY <1>1, <1>2, <1>3, <1>4 DEF SNext, FetchStep

\* What gossip's lemmas need of the state.
LEMMA GossipState ==
    ASSUME SharingInv
    PROVE  /\ GTypeOK
           /\ \A n \in Node, c \in Content :
                  /\ providers[n][c] \in Seq(ProviderInfo)
                  /\ PeersOnce(providers[n][c])
                  /\ Peers(providers[n][c]) \subseteq neighbors[n] \cup missed[n]
  BY DEF SharingInv, STypeOK, TTypeOK, GTypeOK, ProvidersOnce,
         GoneOnlyIfMissed, PeersOnce

\* The list of c at n loses its last entry only with a neighbor.
EmptiedByLoss(n, c) ==
    providers[n][c] # <<>> /\ providers'[n][c] = <<>> =>
        \E m \in neighbors[n] \ neighbors'[n] : Peers(providers[n][c]) = {m}

\* What holds of the lists, and of who comes and goes, after a step of gossip.
ListsKept ==
    /\ providers' \in [Node -> [Content -> Seq(ProviderInfo)]]
    /\ neighbors' \in [Node -> SUBSET Node]
    /\ missed' \in [Node -> SUBSET Node]
    /\ churn' \in 0 .. MaxChurn
    /\ \A n \in Node, c \in Content :
           /\ PeersOnce(providers'[n][c])
           /\ Peers(providers'[n][c]) \subseteq neighbors'[n] \cup missed'[n]
           /\ EmptiedByLoss(n, c)

\* A message adds its sender to one list.
LEMMA HaveLists ==
    ASSUME SharingInv, NEW i \in DOMAIN haves, NEW n \in Node, NEW from \in Node,
           HandleHave(i, n, from)
    PROVE  ListsKept
  <1> USE GossipState DEF GTypeOK
  <1> DEFINE h == haves[i].content
             info == [peer |-> from, path |-> haves[i].path]
             list == providers[n][h]
             w == WithProvider(list, info)
  <1>1. haves[i] \in Have
    OBVIOUS
  <1>2. h \in Content /\ info \in ProviderInfo /\ info.peer = from
    BY <1>1 DEF Have, ProviderInfo
  <1>3. providers' = [providers EXCEPT ![n] = [providers[n] EXCEPT ![h] = w]]
    BY DEF HandleHave
  <1>4. from \in neighbors[n] /\ UNCHANGED <<neighbors, churn, missed>>
    BY DEF HandleHave
  <1>5. /\ list \in Seq(ProviderInfo) /\ PeersOnce(list)
        /\ Peers(list) \subseteq neighbors[n] \cup missed[n]
    BY <1>2
  <1> HIDE DEF list, info, h
  <1>6. /\ w \in Seq(ProviderInfo) /\ w # <<>> /\ PeersOnce(w)
        /\ Peers(w) \subseteq neighbors[n] \cup missed[n]
    <2>1. /\ w \in Seq(ProviderInfo) /\ w # <<>>
          /\ Peers(w) \subseteq Peers(list) \cup {info.peer}
          /\ PeersOnce(list) => PeersOnce(w)
      BY ONLY <1>2, <1>5, WithProviderFacts
    <2> QED
      BY ONLY <1>2, <1>4, <1>5, <2>1
  <1> HIDE DEF w
  <1>7. providers' \in [Node -> [Content -> Seq(ProviderInfo)]]
    BY <1>2, <1>3, <1>6
  <1>8. \A k \in Node, c \in Content :
            providers'[k][c] = IF k = n /\ c = h THEN w ELSE providers[k][c]
    BY <1>2, <1>3
  <1>9. \A k \in Node, c \in Content :
            /\ PeersOnce(providers'[k][c])
            /\ Peers(providers'[k][c]) \subseteq neighbors[k] \cup missed[k]
            /\ providers[k][c] # <<>> => providers'[k][c] # <<>>
    BY <1>6, <1>8
  <1> QED
    BY <1>4, <1>7, <1>9 DEF ListsKept, EmptiedByLoss

\* A neighbor that comes, or goes unheard of, leaves every list as it is.
LEMMA QuietLists ==
    ASSUME SharingInv, NEW n \in Node, NEW m \in Node,
           NeighborUp(n, m) \/ NeighborDownMissed(n, m)
    PROVE  ListsKept
  <1> USE GossipState DEF GTypeOK
  <1>1. UNCHANGED providers /\ churn' \in 0 .. MaxChurn
    BY GossipAssumption DEF NeighborUp, NeighborDownMissed
  <1>2. \/ /\ neighbors' = [neighbors EXCEPT ![n] = @ \cup {m}]
           /\ missed' = [missed EXCEPT ![n] = @ \ {m}]
        \/ /\ neighbors' = [neighbors EXCEPT ![n] = @ \ {m}]
           /\ missed' = [missed EXCEPT ![n] = @ \cup {m}]
    BY DEF NeighborUp, NeighborDownMissed
  <1>3. neighbors' \in [Node -> SUBSET Node] /\ missed' \in [Node -> SUBSET Node]
    <2>1. \A f \in [Node -> SUBSET Node] :
              /\ [f EXCEPT ![n] = @ \cup {m}] \in [Node -> SUBSET Node]
              /\ [f EXCEPT ![n] = @ \ {m}] \in [Node -> SUBSET Node]
      OBVIOUS
    <2>2. neighbors \in [Node -> SUBSET Node] /\ missed \in [Node -> SUBSET Node]
      OBVIOUS
    <2> QED
      BY ONLY <1>2, <2>1, <2>2
  <1>4. \A k \in Node : neighbors[k] \cup missed[k] \subseteq neighbors'[k] \cup missed'[k]
    <2>1. \A k \in Node : k # n => neighbors'[k] = neighbors[k] /\ missed'[k] = missed[k]
      BY <1>2
    <2>2. \/ neighbors'[n] = neighbors[n] \cup {m} /\ missed'[n] = missed[n] \ {m}
          \/ neighbors'[n] = neighbors[n] \ {m} /\ missed'[n] = missed[n] \cup {m}
      BY <1>2
    <2> QED
      BY <2>1, <2>2
  <1>5. \A k \in Node, c \in Content :
            /\ PeersOnce(providers'[k][c])
            /\ Peers(providers'[k][c]) \subseteq neighbors'[k] \cup missed'[k]
    BY <1>1, <1>4
  <1> QED
    BY <1>1, <1>3, <1>5 DEF ListsKept, EmptiedByLoss

\* A neighbor that is heard to go is taken from the node's lists.
LEMMA DownLists ==
    ASSUME SharingInv, NEW n \in Node, NEW m \in Node, NeighborDown(n, m)
    PROVE  ListsKept
  <1> USE GossipState DEF GTypeOK
  <1> DEFINE W == WithoutPeer(providers[n], m)
  <1>1. /\ providers' = [providers EXCEPT ![n] = W]
        /\ neighbors' = [neighbors EXCEPT ![n] = @ \ {m}]
        /\ UNCHANGED missed /\ m \in neighbors[n]
    BY DEF NeighborDown
  <1>2. churn' \in 0 .. MaxChurn
    BY GossipAssumption DEF NeighborDown
  <1>3. providers[n] \in [Content -> Seq(ProviderInfo)]
    OBVIOUS
  <1>4. \A c \in Content : /\ W[c] \in Seq(ProviderInfo) /\ PeersOnce(W[c])
                           /\ Peers(W[c]) \subseteq Peers(providers[n][c]) \ {m}
                           /\ W[c] = <<>> => Peers(providers[n][c]) \subseteq {m}
    BY <1>3, WithoutPeerFacts
  <1>5. DOMAIN W = Content /\ W = [c \in Content |-> W[c]]
    BY DEF WithoutPeer
  <1> HIDE DEF W
  <1>6. W \in [Content -> Seq(ProviderInfo)]
    BY <1>4, <1>5
  <1>7. /\ providers' \in [Node -> [Content -> Seq(ProviderInfo)]]
        /\ neighbors' \in [Node -> SUBSET Node]
    BY <1>1, <1>6
  <1>8. \A k \in Node, c \in Content :
            /\ PeersOnce(providers'[k][c])
            /\ Peers(providers'[k][c]) \subseteq neighbors'[k] \cup missed'[k]
    BY <1>1, <1>4
  <1>9. ASSUME NEW k \in Node, NEW c \in Content,
               providers[k][c] # <<>>, providers'[k][c] = <<>>
        PROVE  \E x \in neighbors[k] \ neighbors'[k] : Peers(providers[k][c]) = {x}
    <2>1. k = n /\ W[c] = <<>>
      BY <1>1, <1>9
    <2>2. Peers(providers[n][c]) \subseteq {m}
      BY <1>4, <2>1
    <2>3. Peers(providers[n][c]) # {}
      <3>1. providers[n][c] \in Seq(ProviderInfo) /\ providers[n][c] # <<>>
        BY <1>9, <2>1
      <3>2. 1 \in DOMAIN providers[n][c]
        BY <3>1
      <3> QED
        BY <3>2 DEF Peers
    <2>4. m \in neighbors[n] \ neighbors'[n]
      BY <1>1
    <2>5. Peers(providers[n][c]) = {m}
      BY ONLY <2>2, <2>3
    <2> QED
      BY <2>1, <2>4, <2>5
  <1> QED
    BY <1>1, <1>2, <1>7, <1>8, <1>9 DEF ListsKept, EmptiedByLoss

\* The nodes whose neighbors come and go are nodes.
LEMMA GossipStepCases ==
    ASSUME GossipStep
    PROVE  \/ \E i \in DOMAIN haves, n, from \in Node : HandleHave(i, n, from)
           \/ \E n, m \in Node :
                  NeighborUp(n, m) \/ NeighborDown(n, m) \/ NeighborDownMissed(n, m)
  BY GossipAssumption DEF GossipStep

\* What each step does to the lists of providers.
LEMMA ListsStep ==
    ASSUME SharingInv, [SNext]_substituterVars
    PROVE  ListsKept
  <1>1. ASSUME UNCHANGED <<providers, neighbors, missed, churn>>
        PROVE  ListsKept
    BY <1>1, GossipState DEF GTypeOK, ListsKept, EmptiedByLoss
  <1>2. CASE GossipStep
    BY <1>2, GossipStepCases, HaveLists, QuietLists, DownLists
  <1> QED
    BY <1>1, <1>2, GossipCases DEF gossipVars

\* add_provider displaces nobody.
LEMMA WithProviderHead ==
    ASSUME NEW list \in Seq(ProviderInfo), NEW info \in ProviderInfo, list # <<>>
    PROVE  Head(WithProvider(list, info)) = Head(list)
  BY DEF WithProvider

\* remove_provider leaves another peer that is the first where it is.
LEMMA WithoutPeerHead ==
    ASSUME NEW cache \in [Content -> Seq(ProviderInfo)], NEW m, NEW c \in Content,
           cache[c] # <<>>, Head(cache[c]).peer # m
    PROVE  /\ WithoutPeer(cache, m)[c] # <<>>
           /\ Head(WithoutPeer(cache, m)[c]) = Head(cache[c])
  <1> DEFINE list == cache[c]
             kept == {i \in DOMAIN list : list[i].peer # m}
  <1>1. WithoutPeer(cache, m)[c] = Retained(list, kept)
    BY DEF WithoutPeer
  <1>2. list \in Seq(ProviderInfo) /\ kept \in SUBSET (DOMAIN list)
    OBVIOUS
  <1>3. 1 \in DOMAIN list /\ Head(list) = list[1]
    BY <1>2
  <1>4. 1 \in kept
    BY <1>3
  <1> QED
    BY <1>1, <1>2, <1>4, RetainedHead

\* The first of each list keeps its place in every step, or is no neighbor
\* any more.
FirstKept(n, c) ==
    providers[n][c] # <<>> =>
        \/ providers'[n][c] # <<>> /\ Head(providers'[n][c]) = Head(providers[n][c])
        \/ Head(providers[n][c]).peer \notin neighbors'[n]

LEMMA FirstStep ==
    ASSUME SharingInv, [SNext]_substituterVars
    PROVE  \A n \in Node, c \in Content : FirstKept(n, c)
  <1> USE GossipState DEF GTypeOK
  <1>1. ASSUME UNCHANGED providers
        PROVE  \A n \in Node, c \in Content : FirstKept(n, c)
    BY <1>1 DEF FirstKept
  <1>2. ASSUME NEW i \in DOMAIN haves, NEW n \in Node, NEW from \in Node,
               HandleHave(i, n, from)
        PROVE  \A k \in Node, c \in Content : FirstKept(k, c)
    <2> DEFINE h == haves[i].content
               info == [peer |-> from, path |-> haves[i].path]
               list == providers[n][h]
               w == WithProvider(list, info)
    <2>1. haves[i] \in Have
      OBVIOUS
    <2>2. h \in Content /\ info \in ProviderInfo
      BY <2>1 DEF Have, ProviderInfo
    <2>3. providers' = [providers EXCEPT ![n] = [providers[n] EXCEPT ![h] = w]]
      BY <1>2 DEF HandleHave
    <2>4. list \in Seq(ProviderInfo)
      BY <2>2
    <2> HIDE DEF list, info, h
    <2>5. w # <<>> /\ (list # <<>> => Head(w) = Head(list))
      BY ONLY <2>2, <2>4, WithProviderFacts, WithProviderHead
    <2> HIDE DEF w
    <2>6. \A k \in Node, c \in Content :
              providers'[k][c] = IF k = n /\ c = h THEN w ELSE providers[k][c]
      BY <2>2, <2>3
    <2> QED
      BY <2>5, <2>6 DEF FirstKept, list
  <1>3. ASSUME NEW n \in Node, NEW m \in Node, NeighborDown(n, m)
        PROVE  \A k \in Node, c \in Content : FirstKept(k, c)
    <2> DEFINE W == WithoutPeer(providers[n], m)
    <2>1. /\ providers' = [providers EXCEPT ![n] = W]
          /\ neighbors' = [neighbors EXCEPT ![n] = @ \ {m}]
      BY <1>3 DEF NeighborDown
    <2>2. providers[n] \in [Content -> Seq(ProviderInfo)]
      OBVIOUS
    <2>3. \A c \in Content :
              providers[n][c] # <<>> /\ Head(providers[n][c]).peer # m =>
                  W[c] # <<>> /\ Head(W[c]) = Head(providers[n][c])
      BY <2>2, WithoutPeerHead
    <2> HIDE DEF W
    <2>4. /\ \A k \in Node : providers'[k] = IF k = n THEN W ELSE providers[k]
          /\ m \notin neighbors'[n]
      BY <2>1
    <2> QED
      BY <2>3, <2>4 DEF FirstKept
  <1>4. ASSUME NEW n \in Node, NEW m \in Node,
               NeighborUp(n, m) \/ NeighborDownMissed(n, m)
        PROVE  UNCHANGED providers
    BY <1>4 DEF NeighborUp, NeighborDownMissed
  <1>5. CASE GossipStep
    BY <1>1, <1>2, <1>3, <1>4, <1>5, GossipStepCases
  <1> QED
    BY <1>1, <1>5, GossipCases DEF gossipVars

\* Messages and how far they have come keep their type.
LEMMA MessagesStep ==
    ASSUME SharingInv, [SNext]_substituterVars
    PROVE  /\ haves' \in Seq(Have) /\ reached' \in Seq(SUBSET Node)
           /\ Len(reached') = Len(haves')
  <1> USE GossipState DEF GTypeOK
  <1>1. ASSUME NEW n \in Node, NEW c \in Content, NEW p \in Path, Announce(n, c, p)
        PROVE  /\ haves' \in Seq(Have) /\ reached' \in Seq(SUBSET Node)
               /\ Len(reached') = Len(haves')
    <2> DEFINE h == [origin |-> n, content |-> c, path |-> p]
    <2>1. h \in Have
      BY DEF Have
    <2>2. \/ haves' = Append(haves, h) /\ reached' = Append(reached, {n})
          \/ UNCHANGED <<haves, reached>>
      BY <1>1 DEF Announce
    <2> HIDE DEF h
    <2>3. {n} \in SUBSET Node
      OBVIOUS
    <2>4. CASE haves' = Append(haves, h) /\ reached' = Append(reached, {n})
      <3>1. haves' \in Seq(Have) /\ Len(haves') = Len(haves) + 1
        BY <2>1, <2>4
      <3>2. reached' \in Seq(SUBSET Node) /\ Len(reached') = Len(reached) + 1
        BY <2>3, <2>4
      <3> QED
        BY <3>1, <3>2
    <2> QED
      BY <2>2, <2>4
  <1>2. ASSUME NEW i \in DOMAIN haves, NEW n \in Node, NEW from \in Node,
               HandleHave(i, n, from)
        PROVE  /\ haves' \in Seq(Have) /\ reached' \in Seq(SUBSET Node)
               /\ Len(reached') = Len(haves')
    <2> DEFINE N == Len(reached)
    <2>1. /\ N \in Nat /\ reached \in [1 .. N -> SUBSET Node] /\ i \in 1 .. N
          /\ haves' = haves
          /\ reached' = [reached EXCEPT ![i] = @ \cup {n}]
      BY <1>2 DEF HandleHave
    <2>2. reached' \in [1 .. N -> SUBSET Node]
      BY <2>1
    <2> HIDE DEF N
    <2>3. reached' \in Seq(SUBSET Node) /\ Len(reached') = N
      BY <2>1, <2>2
    <2> QED
      BY <2>1, <2>3 DEF N
  <1>3. ASSUME \/ \E n, m \in Node : \/ NeighborUp(n, m) \/ NeighborDown(n, m)
                                      \/ NeighborDownMissed(n, m)
               \/ UNCHANGED gossipVars
        PROVE  UNCHANGED <<haves, reached>>
    BY <1>3 DEF NeighborUp, NeighborDown, NeighborDownMissed, gossipVars
  <1> QED
    BY <1>1, <1>2, <1>3, GossipCases, GossipStepCases

\* Gossip keeps its types, lists each peer once, and lists none that it has
\* heard to be gone.
LEMMA GossipInvStep ==
    ASSUME SharingInv, [SNext]_substituterVars
    PROVE  GTypeOK' /\ ProvidersOnce' /\ GoneOnlyIfMissed'
  BY ListsStep, MessagesStep
  DEF ListsKept, GTypeOK, ProvidersOnce, GoneOnlyIfMissed, PeersOnce

-----------------------------------------------------------------------------
(* Fetching: what the operators that move a fetch do to its record. *)

Result == {"none", "fetched", "noProviders", "panic", "notFound", "mismatch",
           "exhausted", "failed"}

\* Nothing happens to any other fetch.
Elsewhere(n) == \A k \in Fetcher : k # n => fetch'[k] = fetch[k]

Typed == fetch \in [Fetcher -> Fetch]

\* A record put in the place of another.
LEMMA FetchReplaced ==
    ASSUME Typed, NEW n \in Fetcher, NEW g \in Fetch, fetch' = [fetch EXCEPT ![n] = g]
    PROVE  Typed' /\ Elsewhere(n) /\ fetch'[n] = g
  BY DEF Typed, Elsewhere

\* The types of the fields.
LEMMA FetchFields ==
    ASSUME Typed, NEW n \in Fetcher
    PROVE  /\ fetch[n] \in Fetch
           /\ fetch[n].at \in Stage /\ fetch[n].want \in Content \cup {Null}
           /\ fetch[n].peer \in Node \cup {Null} /\ fetch[n].tries \in 0 .. MaxRetries
           /\ fetch[n].path \in Path \cup {Null}
           /\ fetch[n].cache \in 0 .. Len(HttpCaches)
           /\ fetch[n].data \in Content \cup {Null}
           /\ fetch[n].answer \in {"none", "notFound", "broken", "data"}
           /\ fetch[n].result \in Result
  BY DEF Typed, Fetch, Result

\* The record a fetch starts from is one.
LEMMA NoFetchTyped == NoFetch \in Fetch
  <1>1. HttpCaches \in Seq([Path -> SUBSET Content])
    BY TransferAssumption
  <1>2. 0 \in 0 .. Len(HttpCaches) /\ 0 \in 0 .. MaxRetries
    BY <1>1, TransferAssumption
  <1> QED
    BY <1>2 DEF NoFetch, Fetch, Stage

\* Goes changes the stage only.
LEMMA GoesFacts ==
    ASSUME Typed, NEW n \in Fetcher, NEW at \in Stage, Goes(n, at)
    PROVE  /\ Typed' /\ Elsewhere(n)
           /\ fetch'[n].at = at /\ fetch'[n].want = fetch[n].want
           /\ fetch'[n].peer = fetch[n].peer /\ fetch'[n].path = fetch[n].path
           /\ fetch'[n].cache = fetch[n].cache /\ fetch'[n].data = fetch[n].data
           /\ fetch'[n].answer = fetch[n].answer
           /\ fetch'[n].result = fetch[n].result
  <1> DEFINE g == [fetch[n] EXCEPT !.at = at]
  <1>1. fetch[n] \in Fetch
    BY FetchFields
  <1>2. g \in Fetch
    BY <1>1 DEF Fetch
  <1>3. fetch' = [fetch EXCEPT ![n] = g]
    BY DEF Goes
  <1>4. /\ g.at = at /\ g.want = fetch[n].want
        /\ g.peer = fetch[n].peer /\ g.path = fetch[n].path
        /\ g.cache = fetch[n].cache /\ g.data = fetch[n].data
        /\ g.answer = fetch[n].answer /\ g.result = fetch[n].result
    BY <1>1 DEF Fetch
  <1> HIDE DEF g
  <1> QED
    BY <1>2, <1>3, <1>4, FetchReplaced

\* Ends leaves the result only.
LEMMA EndsFacts ==
    ASSUME Typed, NEW n \in Fetcher, NEW result \in Result, Ends(n, result)
    PROVE  /\ Typed' /\ Elsewhere(n)
           /\ fetch'[n].at = "ended" /\ fetch'[n].want = Null
           /\ fetch'[n].result = result
  <1> DEFINE g == [NoFetch EXCEPT !.at = "ended", !.result = result]
  <1>1. g \in Fetch
    <2>1. "ended" \in Stage
      BY DEF Stage
    <2> QED
      BY <2>1, NoFetchTyped DEF Fetch, Result
  <1>2. fetch' = [fetch EXCEPT ![n] = g]
    BY DEF Ends
  <1>3. g.at = "ended" /\ g.want = Null /\ g.result = result
    BY DEF NoFetch
  <1> HIDE DEF g
  <1> QED
    BY <1>1, <1>2, <1>3, FetchReplaced

\* Answers puts the answer there and leaves what was asked and where it is.
LEMMA AnswersFacts ==
    ASSUME Typed, NEW n \in Fetcher, NEW answer \in {"notFound", "broken", "data"},
           NEW data \in Content \cup {Null}, Answers(n, answer, data)
    PROVE  /\ Typed' /\ Elsewhere(n)
           /\ fetch'[n].at = "reply" /\ fetch'[n].answer = answer
           /\ fetch'[n].data = data /\ fetch'[n].want = fetch[n].want
           /\ fetch'[n].peer = fetch[n].peer /\ fetch'[n].path = fetch[n].path
           /\ fetch'[n].result = fetch[n].result
  <1> DEFINE g == [fetch[n] EXCEPT !.at = "reply", !.answer = answer,
                                   !.data = data, !.cache = 0]
  <1>1. fetch[n] \in Fetch
    BY FetchFields
  <1>2. 0 \in 0 .. Len(HttpCaches) /\ "reply" \in Stage
    BY TransferAssumption DEF Stage
  <1>3. g \in Fetch
    BY <1>1, <1>2 DEF Fetch
  <1>4. fetch' = [fetch EXCEPT ![n] = g]
    BY DEF Answers
  <1>5. /\ g.at = "reply" /\ g.answer = answer /\ g.data = data
        /\ g.want = fetch[n].want /\ g.peer = fetch[n].peer
        /\ g.path = fetch[n].path /\ g.result = fetch[n].result
    BY <1>1 DEF Fetch
  <1> HIDE DEF g
  <1> QED
    BY <1>3, <1>4, <1>5, FetchReplaced

\* with_retry starts over with the same peer and the same hash, or ends.
LEMMA RetriesFacts ==
    ASSUME Typed, NEW n \in Fetcher, Retries(n)
    PROVE  /\ Typed' /\ Elsewhere(n)
           /\ \/ /\ fetch'[n].at = "connecting" /\ fetch'[n].want = fetch[n].want
                 /\ fetch'[n].peer = fetch[n].peer /\ fetch'[n].result = "none"
              \/ /\ fetch'[n].at = "ended" /\ fetch'[n].want = Null
                 /\ fetch'[n].result = "exhausted"
  <1>1. CASE fetch[n].tries < MaxRetries
    <2> DEFINE t == fetch[n].tries + 1
               g == [NoFetch EXCEPT !.at = "connecting", !.want = fetch[n].want,
                                    !.peer = fetch[n].peer, !.tries = t]
    <2>1. t \in 0 .. MaxRetries
      BY <1>1, FetchFields, TransferAssumption
    <2>2. fetch' = [fetch EXCEPT ![n] = g]
      BY <1>1 DEF Retries, Again
    <2>3. /\ g.at = "connecting" /\ g.want = fetch[n].want
          /\ g.peer = fetch[n].peer /\ g.result = "none"
      BY DEF NoFetch
    <2> HIDE DEF t
    <2>4. g \in Fetch
      <3>1. "connecting" \in Stage
        BY DEF Stage
      <3> QED
        BY <2>1, <3>1, FetchFields, NoFetchTyped DEF Fetch
    <2> HIDE DEF g
    <2> QED
      BY <2>2, <2>3, <2>4, FetchReplaced
  <1>2. CASE ~(fetch[n].tries < MaxRetries)
    <2>1. Ends(n, "exhausted") /\ "exhausted" \in Result
      BY <1>2 DEF Retries, Result
    <2> QED
      BY <2>1, EndsFacts
  <1> QED
    BY <1>1, <1>2

-----------------------------------------------------------------------------
(* What a step does to the fetch it is about: it moves on as NarFetch says, *)
(* and what has to be known of it afterwards is.                            *)

Held == {"verified", "importing"}

Begins(n) ==
    /\ fetch[n].at \in Over /\ fetch'[n].at \notin Over \cup Held
    /\ fetch'[n].want \in Content

GoesOn(n) ==
    /\ fetch[n].at \notin Over \cup Held /\ fetch'[n].at \notin Over \cup Held
    /\ fetch'[n].want = fetch[n].want

Obtains(n) ==
    /\ fetch[n].at \notin Over \cup Held /\ fetch'[n].at \in Held
    /\ fetch'[n].want = fetch[n].want

Keeps(n) ==
    /\ fetch[n].at \in Held /\ fetch'[n].at \in Held
    /\ fetch'[n].want = fetch[n].want
    /\ fetch'[n].path = fetch[n].path /\ fetch'[n].data = fetch[n].data

Delivers(n) ==
    /\ fetch[n].at \in Held
    /\ fetch'[n].at = "ended" /\ fetch'[n].result = "fetched" /\ fetch'[n].want = Null

GivesUp(n) ==
    /\ fetch[n].at \notin Over
    /\ fetch'[n].at = "ended" /\ fetch'[n].result # "fetched" /\ fetch'[n].want = Null

Forgets(n) ==
    /\ fetch[n].at \in Over
    /\ fetch'[n].at = "idle" /\ fetch'[n].want = Null

\* It panics only at an empty list, and comes to choose only from another.
ChoosesFromAList(n) ==
    /\ fetch'[n].result = "panic" => fetch[n].result = "panic" \/ Stranded(n)
    /\ fetch'[n].at = "choosing" => providers[n][fetch'[n].want] # <<>>

FetchMoves(n) ==
    /\ Typed' /\ Elsewhere(n)
    /\ FetchKnows(n)' /\ ChoosesFromAList(n)
    /\ \/ Begins(n) \/ GoesOn(n) \/ Obtains(n) \/ Keeps(n)
       \/ Delivers(n) \/ GivesUp(n) \/ Forgets(n)

\* What is known when a step is taken.
LEMMA FetchState ==
    ASSUME SharingInv, NEW n \in Fetcher
    PROVE  /\ Typed /\ FetchKnows(n) /\ DiskWasHad /\ n \in Node
           /\ had \subseteq Path \X Content
           /\ disk \in [Node -> [Path -> Content \cup {Null}]]
           /\ index \in [Node -> SUBSET Row]
           /\ \A k \in Node, c \in Content : providers[k][c] \in Seq(ProviderInfo)
  BY TransferAssumption DEF SharingInv, STypeOK, TTypeOK, GTypeOK, Typed

\* A fetch that ends without handing on its content gives up.
LEMMA GivesUpMoves ==
    ASSUME Typed, NEW n \in Fetcher, fetch[n].at \notin Over,
           NEW result \in Result \ {"fetched"}, result = "panic" => Stranded(n),
           Ends(n, result)
    PROVE  FetchMoves(n)
  <1>1. /\ Typed' /\ Elsewhere(n) /\ fetch'[n].at = "ended"
        /\ fetch'[n].want = Null /\ fetch'[n].result = result
    BY EndsFacts
  <1>2. GivesUp(n)
    BY <1>1 DEF GivesUp
  <1>3. FetchKnows(n)'
    BY <1>1 DEF FetchKnows, Over, Asking
  <1> QED
    BY <1>1, <1>2, <1>3 DEF FetchMoves, ChoosesFromAList

\* An attempt that fails is followed by another, or by the end.
LEMMA RetriesMoves ==
    ASSUME SharingInv, NEW n \in Fetcher, fetch[n].at \in Asking, Retries(n), OnlyFetch
    PROVE  FetchMoves(n)
  <1>1. Typed /\ FetchKnows(n)
    BY FetchState
  <1>2. Typed' /\ Elsewhere(n)
    BY <1>1, RetriesFacts
  <1>3. fetch[n].at \notin Over \cup Held /\ fetch[n].want # Null /\ fetch[n].peer \in Node
    BY <1>1 DEF FetchKnows, Asking, Over, Held
  <1>4. CASE /\ fetch'[n].at = "connecting" /\ fetch'[n].want = fetch[n].want
             /\ fetch'[n].peer = fetch[n].peer /\ fetch'[n].result = "none"
    <2>1. GoesOn(n)
      BY <1>3, <1>4 DEF GoesOn, Over, Held
    <2>2. FetchKnows(n)'
      BY <1>3, <1>4 DEF FetchKnows, Over, Asking
    <2> QED
      BY <1>2, <1>4, <2>1, <2>2 DEF FetchMoves, ChoosesFromAList
  <1>5. CASE /\ fetch'[n].at = "ended" /\ fetch'[n].want = Null
             /\ fetch'[n].result = "exhausted"
    <2>1. GivesUp(n)
      BY <1>3, <1>5 DEF GivesUp
    <2>2. FetchKnows(n)'
      BY <1>5 DEF FetchKnows, Over, Asking
    <2> QED
      BY <1>2, <1>5, <2>1, <2>2 DEF FetchMoves, ChoosesFromAList
  <1> QED
    BY <1>1, <1>4, <1>5, RetriesFacts

\* What the peer answers is genuine if it is what was asked for.
LEMMA AnswersMoves ==
    ASSUME SharingInv, NEW n \in Fetcher,
           fetch[n].at \in {"lookup", "check", "stream", "narinfo", "download"},
           NEW answer \in {"notFound", "broken", "data"},
           NEW data \in Content \cup {Null}, Answers(n, answer, data),
           answer = "data" => <<fetch[n].path, data>> \in had,
           UNCHANGED had
    PROVE  FetchMoves(n)
  <1>1. Typed /\ FetchKnows(n)
    BY FetchState
  <1>2. /\ Typed' /\ Elsewhere(n)
        /\ fetch'[n].at = "reply" /\ fetch'[n].answer = answer
        /\ fetch'[n].data = data /\ fetch'[n].want = fetch[n].want
        /\ fetch'[n].peer = fetch[n].peer /\ fetch'[n].path = fetch[n].path
        /\ fetch'[n].result = fetch[n].result
    BY <1>1, AnswersFacts
  <1>3. GoesOn(n)
    BY <1>2 DEF GoesOn, Over, Held
  <1>4. fetch[n].want # Null /\ fetch[n].peer \in Node
    BY <1>1 DEF FetchKnows, Over, Asking
  <1>5. FetchKnows(n)'
    BY <1>1, <1>2, <1>4 DEF FetchKnows, Over, Asking, Genuine
  <1> QED
    BY <1>2, <1>3, <1>5 DEF FetchMoves, ChoosesFromAList

\* A stage that needs nothing but the peer, and the path where it is needed.
LEMMA GoesMoves ==
    ASSUME SharingInv, NEW n \in Fetcher,
           fetch[n].at \in {"connecting", "check"}, NEW at,
           \/ fetch[n].at = "connecting" /\ at = "lookup"
           \/ fetch[n].at = "check" /\ at \in {"stream", "narinfo"},
           Goes(n, at)
    PROVE  FetchMoves(n)
  <1>1. Typed /\ FetchKnows(n) /\ at \in Stage
    BY FetchState DEF Stage
  <1>2. /\ Typed' /\ Elsewhere(n)
        /\ fetch'[n].at = at /\ fetch'[n].want = fetch[n].want
        /\ fetch'[n].peer = fetch[n].peer /\ fetch'[n].path = fetch[n].path
        /\ fetch'[n].result = fetch[n].result
    BY <1>1, GoesFacts
  <1>3. GoesOn(n)
    BY <1>2 DEF GoesOn, Over, Held
  <1>4. /\ fetch[n].want # Null /\ fetch[n].peer \in Node
        /\ fetch[n].at = "check" => fetch[n].path \in Path
    BY <1>1 DEF FetchKnows, Over, Asking
  <1>5. FetchKnows(n)'
    BY <1>2, <1>4 DEF FetchKnows, Over, Asking
  <1> QED
    BY <1>2, <1>3, <1>5 DEF FetchMoves, ChoosesFromAList

\* A fetch begins at a peer that is known, or with a query (fetch,
\* fetch --from, nix's request).
LEMMA BeginsMoves ==
    ASSUME SharingInv, NEW n \in Fetcher, fetch[n].at \in Over, NEW g \in Fetch,
           g.at \in {"connecting", "querying"}, g.want \in Content,
           g.at = "connecting" => g.peer \in Node,
           g.result = "none", fetch' = [fetch EXCEPT ![n] = g]
    PROVE  FetchMoves(n)
  <1>1. Typed /\ g.want # Null
    BY FetchState, TransferAssumption
  <1>2. Typed' /\ Elsewhere(n) /\ fetch'[n] = g
    BY <1>1, FetchReplaced
  <1>3. Begins(n)
    BY <1>2 DEF Begins, Over, Held
  <1>4. FetchKnows(n)'
    BY <1>1, <1>2 DEF FetchKnows, Over, Asking
  <1> QED
    BY <1>2, <1>3, <1>4 DEF FetchMoves, ChoosesFromAList

\* fetch and fetch --from.
LEMMA StartsMove ==
    ASSUME SharingInv, NEW n \in Fetcher, FetchStarts(n)
    PROVE  FetchMoves(n) /\ OnlyFetch
  <1>1. ASSUME NEW c \in Content, NEW m \in Node, FetchFrom(n, c, m)
        PROVE  FetchMoves(n) /\ OnlyFetch
    <2> DEFINE g == [NoFetch EXCEPT !.at = "connecting", !.want = c, !.peer = m]
    <2>1. fetch[n].at \in Over /\ OnlyFetch /\ fetch' = [fetch EXCEPT ![n] = g]
      BY <1>1 DEF FetchFrom, Over
    <2>2. g \in Fetch
      <3>1. "connecting" \in Stage
        BY DEF Stage
      <3> QED
        BY <3>1, NoFetchTyped DEF Fetch
    <2>3. g.at = "connecting" /\ g.want = c /\ g.peer = m /\ g.result = "none"
      BY DEF NoFetch
    <2> HIDE DEF g
    <2> QED
      BY <2>1, <2>2, <2>3, BeginsMoves
  <1>2. ASSUME NEW c \in Content, FetchQueries(n, c)
        PROVE  FetchMoves(n) /\ OnlyFetch
    <2> DEFINE g == [NoFetch EXCEPT !.at = "querying", !.want = c]
    <2>1. fetch[n].at \in Over /\ OnlyFetch /\ fetch' = [fetch EXCEPT ![n] = g]
      BY <1>2 DEF FetchQueries, Over
    <2>2. g \in Fetch
      <3>1. "querying" \in Stage
        BY DEF Stage
      <3> QED
        BY <3>1, NoFetchTyped DEF Fetch
    <2>3. g.at = "querying" /\ g.want = c /\ g.result = "none"
      BY DEF NoFetch
    <2> HIDE DEF g
    <2> QED
      BY <2>1, <2>2, <2>3, BeginsMoves
  <1> QED
    BY <1>1, <1>2 DEF FetchStarts

\* What the command does before and after the attempts: it looks whether there
\* are providers, and looks again if there are none.
LEMMA LooksMoves ==
    ASSUME SharingInv, NEW n \in Fetcher, FetchLooks(n) \/ FetchLooksAgain(n)
    PROVE  FetchMoves(n) /\ OnlyFetch
  <1>1. /\ Typed /\ FetchKnows(n) /\ fetch[n].at \in {"querying", "waiting"} /\ OnlyFetch
    BY FetchState DEF FetchLooks, FetchLooksAgain
  <1>2. CASE Ends(n, "noProviders")
    <2>1. "noProviders" \in Result \ {"fetched"} /\ fetch[n].at \notin Over
      BY <1>1 DEF Result, Over
    <2> QED
      BY <1>1, <1>2, <2>1, GivesUpMoves
  <1>3. ASSUME NEW at \in {"waiting", "choosing"}, Goes(n, at),
               at = "choosing" => providers[n][fetch[n].want] # <<>>
        PROVE  FetchMoves(n)
    <2>1. /\ Typed' /\ Elsewhere(n)
          /\ fetch'[n].at = at /\ fetch'[n].want = fetch[n].want
          /\ fetch'[n].result = fetch[n].result
      BY <1>1, <1>3, GoesFacts DEF Stage
    <2>2. GoesOn(n)
      BY <1>1, <2>1 DEF GoesOn, Over, Held
    <2>3. FetchKnows(n)'
      BY <1>1, <2>1 DEF FetchKnows, Over, Asking
    <2> QED
      BY <1>3, <2>1, <2>2, <2>3 DEF FetchMoves, ChoosesFromAList
  <1>4. \/ Ends(n, "noProviders")
        \/ Goes(n, "waiting")
        \/ Goes(n, "choosing") /\ providers[n][fetch[n].want] # <<>>
    BY DEF FetchLooks, FetchLooksAgain
  <1> QED
    BY <1>1, <1>2, <1>3, <1>4

\* The query cannot be sent, or the NAR not be kept.
LEMMA FailsMoves ==
    ASSUME SharingInv, NEW n \in Fetcher, QueryFails(n) \/ KeepingFails(n)
    PROVE  FetchMoves(n) /\ OnlyFetch
  <1>1. /\ Typed /\ fetch[n].at \notin Over /\ Ends(n, "failed") /\ OnlyFetch
        /\ "failed" \in Result \ {"fetched"}
    BY FetchState DEF QueryFails, KeepingFails, Over, Result
  <1> QED
    BY <1>1, GivesUpMoves

LEMMA ChoosesMoves ==
    ASSUME SharingInv, NEW n \in Fetcher, FetchChooses(n)
    PROVE  FetchMoves(n) /\ OnlyFetch
  <1> DEFINE list == providers[n][fetch[n].want]
  <1>1. Typed /\ FetchKnows(n) /\ fetch[n].at = "choosing" /\ OnlyFetch /\ n \in Node
    BY FetchState DEF FetchChooses
  <1>2. fetch[n].want \in Content
    BY <1>1, FetchFields DEF FetchKnows, Over
  <1>3. CASE list = <<>>
    <2>1. Ends(n, "panic") /\ "panic" \in Result \ {"fetched"}
      BY <1>3 DEF FetchChooses, Result
    <2>2. fetch[n].at \notin Over /\ Stranded(n)
      BY <1>1, <1>3 DEF Over, Stranded
    <2> QED
      BY <1>1, <2>1, <2>2, GivesUpMoves
  <1>4. CASE list # <<>>
    <2> DEFINE m == Head(list).peer
               g == [fetch[n] EXCEPT !.at = "connecting", !.peer = m]
    <2>1. m \in Node
      <3>1. list \in Seq(ProviderInfo)
        BY <1>1, <1>2, FetchState
      <3>2. Head(list) \in ProviderInfo
        BY <1>4, <3>1
      <3> QED
        BY <3>2 DEF ProviderInfo
    <2>2. fetch' = [fetch EXCEPT ![n] = g]
      BY <1>4 DEF FetchChooses
    <2> HIDE DEF m
    <2>3. fetch[n] \in Fetch /\ "connecting" \in Stage
      BY <1>1, FetchFields DEF Stage
    <2>4. g \in Fetch
      BY <2>1, <2>3 DEF Fetch
    <2>5. /\ g.at = "connecting" /\ g.peer = m /\ g.want = fetch[n].want
          /\ g.result = fetch[n].result
      BY <2>3 DEF Fetch
    <2> HIDE DEF g
    <2>6. /\ Typed' /\ Elsewhere(n)
          /\ fetch'[n].at = "connecting" /\ fetch'[n].peer = m
          /\ fetch'[n].want = fetch[n].want /\ fetch'[n].result = fetch[n].result
      BY <1>1, <2>2, <2>4, <2>5, FetchReplaced
    <2>7. GoesOn(n)
      BY <1>1, <2>6 DEF GoesOn, Over, Held
    <2>8. FetchKnows(n)'
      BY <1>1, <2>1, <2>6 DEF FetchKnows, Over, Asking
    <2> QED
      BY <1>1, <2>6, <2>7, <2>8 DEF FetchMoves, ChoosesFromAList
  <1> QED
    BY <1>3, <1>4

LEMMA IndexesMoves ==
    ASSUME SharingInv, NEW n \in Fetcher, FetchIndexes(n)
    PROVE  FetchMoves(n) /\ UNCHANGED <<gossipVars, had>>
  <1>1. /\ Typed /\ FetchKnows(n) /\ fetch[n].at = "verified"
        /\ Goes(n, "importing") /\ UNCHANGED <<gossipVars, had>>
    BY FetchState DEF FetchIndexes
  <1>2. /\ Typed' /\ Elsewhere(n)
        /\ fetch'[n].at = "importing" /\ fetch'[n].want = fetch[n].want
        /\ fetch'[n].path = fetch[n].path /\ fetch'[n].data = fetch[n].data
        /\ fetch'[n].result = fetch[n].result
    BY <1>1, GoesFacts DEF Stage
  <1>3. Keeps(n)
    BY <1>1, <1>2 DEF Keeps, Held
  <1>4. FetchKnows(n)'
    BY <1>1, <1>2 DEF FetchKnows, Over, Asking, Genuine
  <1> QED
    BY <1>1, <1>2, <1>3, <1>4 DEF FetchMoves, ChoosesFromAList

\* Whoever asked for the NAR takes it.
LEMMA DeliversMoves ==
    ASSUME SharingInv, NEW n \in Fetcher, fetch[n].at \in Held, Ends(n, "fetched")
    PROVE  FetchMoves(n)
  <1>1. Typed /\ "fetched" \in Result
    BY FetchState DEF Result
  <1>2. /\ Typed' /\ Elsewhere(n) /\ fetch'[n].at = "ended"
        /\ fetch'[n].want = Null /\ fetch'[n].result = "fetched"
    BY <1>1, EndsFacts
  <1>3. Delivers(n)
    BY <1>2 DEF Delivers
  <1>4. FetchKnows(n)'
    BY <1>2 DEF FetchKnows, Over, Asking
  <1> QED
    BY <1>2, <1>3, <1>4 DEF FetchMoves, ChoosesFromAList

\* What is imported has been in a store or a cache already.
LEMMA ImportsMoves ==
    ASSUME SharingInv, NEW n \in Fetcher, FetchImports(n) \/ FetchReturns(n)
    PROVE  FetchMoves(n) /\ UNCHANGED <<gossipVars, had>>
  <1>1. /\ FetchKnows(n) /\ fetch[n].at = "importing"
        /\ Ends(n, "fetched") /\ UNCHANGED gossipVars
    BY FetchState DEF FetchImports, FetchReturns, OnlyFetch
  <1>2. FetchMoves(n)
    BY <1>1, DeliversMoves DEF Held
  <1>3. <<fetch[n].path, fetch[n].data>> \in had
    BY <1>1 DEF FetchKnows, Genuine
  <1>4. UNCHANGED had
    BY <1>3 DEF FetchImports, FetchReturns, OnlyFetch
  <1> QED
    BY <1>1, <1>2, <1>4

LEMMA CommandMoves ==
    ASSUME SharingInv, NEW n \in Fetcher, CommandRuns(n)
    PROVE  FetchMoves(n) /\ UNCHANGED <<gossipVars, had>>
  BY LooksMoves, FailsMoves, ChoosesMoves, IndexesMoves, ImportsMoves
  DEF CommandRuns, OnlyFetch

\* The attempts at the fetching end.
LEMMA ReceivesMoves ==
    ASSUME SharingInv, NEW n \in Fetcher, Receives(n)
    PROVE  FetchMoves(n) /\ OnlyFetch
  <1>1. Typed /\ FetchKnows(n) /\ fetch[n].at = "reply" /\ OnlyFetch
    BY FetchState DEF Receives
  <1>2. fetch[n].at \in Asking /\ fetch[n].at \notin Over \cup Held
    BY <1>1 DEF Asking, Over, Held
  <1>3. CASE \E result \in {"notFound", "mismatch"} : Ends(n, result)
    <2>1. PICK result \in {"notFound", "mismatch"} : Ends(n, result)
      BY <1>3
    <2>2. result \in Result \ {"fetched"} /\ result # "panic"
      BY DEF Result
    <2> QED
      BY <1>1, <1>2, <2>1, <2>2, GivesUpMoves
  <1>4. CASE Retries(n)
    BY <1>1, <1>2, <1>4, RetriesMoves
  <1>5. CASE /\ fetch[n].answer = "data" /\ fetch[n].data = fetch[n].want
             /\ Goes(n, "verified")
    <2>1. /\ Typed' /\ Elsewhere(n)
          /\ fetch'[n].at = "verified" /\ fetch'[n].want = fetch[n].want
          /\ fetch'[n].path = fetch[n].path /\ fetch'[n].data = fetch[n].data
          /\ fetch'[n].result = fetch[n].result
      BY <1>1, <1>5, GoesFacts DEF Stage
    <2>2. Obtains(n)
      BY <1>2, <2>1 DEF Obtains, Held
    <2>3. FetchKnows(n)'
      BY <1>1, <1>5, <2>1 DEF FetchKnows, Over, Asking, Genuine, OnlyFetch
    <2> QED
      BY <1>1, <2>1, <2>2, <2>3 DEF FetchMoves, ChoosesFromAList
  <1>6. \/ Ends(n, "notFound") \/ Retries(n) \/ Ends(n, "mismatch")
        \/ /\ fetch[n].answer = "data" /\ fetch[n].data = fetch[n].want
           /\ Goes(n, "verified")
    BY DEF Receives
  <1> QED
    BY <1>3, <1>4, <1>5, <1>6

LEMMA AttemptMoves ==
    ASSUME SharingInv, NEW n \in Fetcher,
           Connects(n) \/ ConnectFails(n) \/ Receives(n) \/ AnswerLost(n)
    PROVE  FetchMoves(n) /\ OnlyFetch
  <1>1. CASE Connects(n)
    BY <1>1, GoesMoves DEF Connects
  <1>2. CASE ConnectFails(n) \/ AnswerLost(n)
    <2>1. fetch[n].at \in Asking /\ Retries(n) /\ OnlyFetch
      BY <1>2 DEF ConnectFails, AnswerLost, Asking
    <2> QED
      BY <2>1, RetriesMoves
  <1> QED
    BY <1>1, <1>2, ReceivesMoves

\* A serving stage before the answer: the path is a row's.
LEMMA ServesMoves ==
    ASSUME SharingInv, NEW n \in Fetcher, NEW g \in Fetch,
           fetch[n].at \in {"lookup", "check", "stream", "narinfo", "download"},
           fetch' = [fetch EXCEPT ![n] = g],
           g.at \in {"check", "narinfo", "download"}, g.path \in Path,
           g.at = "download" => g.cache # 0,
           g.want = fetch[n].want, g.peer = fetch[n].peer, g.result = fetch[n].result
    PROVE  FetchMoves(n)
  <1>1. Typed /\ FetchKnows(n)
    BY FetchState
  <1>2. Typed' /\ Elsewhere(n) /\ fetch'[n] = g
    BY <1>1, FetchReplaced
  <1>3. GoesOn(n)
    BY <1>2 DEF GoesOn, Over, Held
  <1>4. fetch[n].want # Null /\ fetch[n].peer \in Node
    BY <1>1 DEF FetchKnows, Over, Asking
  <1>5. FetchKnows(n)'
    BY <1>2, <1>4 DEF FetchKnows, Over, Asking
  <1> QED
    BY <1>2, <1>3, <1>5 DEF FetchMoves, ChoosesFromAList

LEMMA LookupMoves ==
    ASSUME SharingInv, NEW n \in Fetcher, ServeLookup(n)
    PROVE  FetchMoves(n) /\ OnlyFetch
  <1> DEFINE found == {r \in index[fetch[n].peer] : r.blake = fetch[n].want}
  <1>1. /\ Typed /\ FetchKnows(n) /\ fetch[n].at = "lookup" /\ OnlyFetch
        /\ index \in [Node -> SUBSET Row]
    BY FetchState DEF ServeLookup
  <1>2. CASE Answers(n, "notFound", Null)
    BY <1>1, <1>2, AnswersMoves DEF OnlyFetch
  <1>3. CASE \E r \in found :
                 fetch' = [fetch EXCEPT ![n].at = "check", ![n].path = r.path]
    <2>1. PICK r \in found :
              fetch' = [fetch EXCEPT ![n].at = "check", ![n].path = r.path]
      BY <1>3
    <2>2. r.path \in Path
      <3>1. fetch[n].peer \in Node
        BY <1>1 DEF FetchKnows, Asking
      <3>2. r \in Row
        BY <1>1, <3>1
      <3> QED
        BY <3>2 DEF Row
    <2> DEFINE g == [fetch[n] EXCEPT !.at = "check", !.path = r.path]
    <2>3. fetch[n] \in Fetch /\ "check" \in Stage
      BY <1>1, FetchFields DEF Stage
    <2>4. g \in Fetch
      BY <2>2, <2>3 DEF Fetch
    <2>5. fetch' = [fetch EXCEPT ![n] = g]
      BY <2>1
    <2>6. /\ g.at = "check" /\ g.path = r.path /\ g.want = fetch[n].want
          /\ g.peer = fetch[n].peer /\ g.result = fetch[n].result
      BY <2>3 DEF Fetch
    <2> HIDE DEF g, found
    <2> QED
      BY <1>1, <2>2, <2>4, <2>5, <2>6, ServesMoves
  <1> QED
    BY <1>2, <1>3 DEF ServeLookup

LEMMA CheckMoves ==
    ASSUME SharingInv, NEW n \in Fetcher, ServeCheck(n)
    PROVE  FetchMoves(n) /\ OnlyFetch
  <1>1. fetch[n].at = "check" /\ OnlyFetch
    BY DEF ServeCheck
  <1>2. \/ Goes(n, "stream") \/ Goes(n, "narinfo") \/ Answers(n, "notFound", Null)
    BY DEF ServeCheck
  <1>3. CASE Answers(n, "notFound", Null)
    BY <1>1, <1>3, AnswersMoves DEF OnlyFetch
  <1>4. CASE Goes(n, "stream")
    BY <1>1, <1>4, GoesMoves
  <1>5. CASE Goes(n, "narinfo")
    BY <1>1, <1>5, GoesMoves
  <1> QED
    BY <1>2, <1>3, <1>4, <1>5

\* What is read at the path is in the peer's store.
LEMMA StreamMoves ==
    ASSUME SharingInv, NEW n \in Fetcher, ServeStream(n)
    PROVE  FetchMoves(n) /\ OnlyFetch
  <1> DEFINE c == disk[fetch[n].peer][fetch[n].path]
  <1>1. /\ FetchKnows(n) /\ DiskWasHad /\ fetch[n].at = "stream" /\ OnlyFetch
        /\ disk \in [Node -> [Path -> Content \cup {Null}]]
    BY FetchState DEF ServeStream
  <1>2. fetch[n].peer \in Node /\ fetch[n].path \in Path
    BY <1>1 DEF FetchKnows, Asking
  <1>3. c \in Content \cup {Null} /\ (c # Null => <<fetch[n].path, c>> \in had)
    BY <1>1, <1>2 DEF DiskWasHad
  <1>4. (c # Null /\ Answers(n, "data", c)) \/ Answers(n, "broken", Null)
    BY DEF ServeStream
  <1> HIDE DEF c
  <1>5. CASE c # Null /\ Answers(n, "data", c)
    BY <1>1, <1>3, <1>5, AnswersMoves DEF OnlyFetch
  <1>6. CASE Answers(n, "broken", Null)
    BY <1>1, <1>6, AnswersMoves DEF OnlyFetch
  <1> QED
    BY <1>4, <1>5, <1>6

LEMMA CacheMoves ==
    ASSUME SharingInv, NEW n \in Fetcher, AsksCache(n) \/ CacheHasPath(n)
    PROVE  FetchMoves(n) /\ OnlyFetch
  <1>1. /\ Typed /\ FetchKnows(n) /\ fetch[n].at = "narinfo" /\ OnlyFetch
        /\ HttpCaches \in Seq([Path -> SUBSET Content])
    BY FetchState, TransferAssumption DEF AsksCache, CacheHasPath
  <1>2. fetch[n].path \in Path /\ fetch[n].cache \in 0 .. Len(HttpCaches)
    BY <1>1, FetchFields DEF FetchKnows
  <1>3. fetch[n] \in Fetch /\ "download" \in Stage
    BY <1>1, FetchFields DEF Stage
  <1>4. CASE Answers(n, "broken", Null)
    BY <1>1, <1>4, AnswersMoves DEF OnlyFetch
  <1>5. ASSUME NEW i \in DOMAIN HttpCaches, fetch' = [fetch EXCEPT ![n].cache = i]
        PROVE  FetchMoves(n)
    <2> DEFINE g == [fetch[n] EXCEPT !.cache = i]
    <2>1. i \in 0 .. Len(HttpCaches)
      BY <1>1
    <2>2. g \in Fetch
      BY <1>3, <2>1 DEF Fetch
    <2>3. fetch' = [fetch EXCEPT ![n] = g]
      BY <1>5
    <2>4. /\ g.at = "narinfo" /\ g.path = fetch[n].path /\ g.want = fetch[n].want
          /\ g.peer = fetch[n].peer /\ g.result = fetch[n].result
      BY <1>1, <1>3 DEF Fetch
    <2> HIDE DEF g
    <2> QED
      BY <1>1, <1>2, <2>2, <2>3, <2>4, ServesMoves
  <1>6. CASE CacheHasPath(n)
    <2>1. fetch[n].cache # 0
      BY <1>6 DEF CacheHasPath
    <2>2. PICK c \in HttpCaches[fetch[n].cache][fetch[n].path] :
              fetch' = [fetch EXCEPT ![n].at = "download", ![n].data = c]
      BY <1>6 DEF CacheHasPath
    <2>3. c \in Content
      <3>1. fetch[n].cache \in DOMAIN HttpCaches
        BY <1>1, <1>2, <2>1
      <3>2. HttpCaches[fetch[n].cache] \in [Path -> SUBSET Content]
        BY <1>1, <3>1
      <3> QED
        BY <1>2, <2>2, <3>2
    <2> DEFINE g == [fetch[n] EXCEPT !.at = "download", !.data = c]
    <2>4. g \in Fetch
      BY <1>3, <2>3 DEF Fetch
    <2>5. fetch' = [fetch EXCEPT ![n] = g]
      BY <2>2
    <2>6. /\ g.at = "download" /\ g.path = fetch[n].path /\ g.want = fetch[n].want
          /\ g.peer = fetch[n].peer /\ g.result = fetch[n].result
          /\ g.cache = fetch[n].cache
      BY <1>3 DEF Fetch
    <2> HIDE DEF g
    <2> QED
      BY <1>1, <1>2, <2>1, <2>4, <2>5, <2>6, ServesMoves
  <1> QED
    BY <1>1, <1>4, <1>5, <1>6 DEF AsksCache

\* What is downloaded is in a cache.
LEMMA DownloadsMoves ==
    ASSUME SharingInv, NEW n \in Fetcher, Downloads(n)
    PROVE  FetchMoves(n) /\ UNCHANGED <<gossipVars, had>>
  <1>1. /\ Typed /\ FetchKnows(n) /\ DiskWasHad /\ fetch[n].at = "download"
        /\ UNCHANGED <<gossipVars, had>>
        /\ HttpCaches \in Seq([Path -> SUBSET Content])
    BY FetchState, TransferAssumption DEF Downloads
  <1>2. /\ fetch[n].path \in Path /\ fetch[n].cache \in DOMAIN HttpCaches
        /\ fetch[n].want \in Content
    <2>1. fetch[n].cache \in 0 .. Len(HttpCaches) /\ fetch[n].want \in Content \cup {Null}
      BY <1>1, FetchFields
    <2>2. fetch[n].cache # 0 /\ fetch[n].path \in Path /\ fetch[n].want # Null
      BY <1>1 DEF FetchKnows, Over
    <2> QED
      BY <1>1, <2>1, <2>2
  <1>3. CASE Answers(n, "broken", Null)
    BY <1>1, <1>3, AnswersMoves
  <1>4. CASE /\ fetch[n].want \in HttpCaches[fetch[n].cache][fetch[n].path]
             /\ Answers(n, "data", fetch[n].want)
    <2> DEFINE x == <<fetch[n].path, fetch[n].want>>
    <2>1. x \in Path \X Content /\ x[1] = fetch[n].path /\ x[2] = fetch[n].want
      BY <1>2
    <2>2. x \in InCaches
      BY <1>2, <1>4, <2>1 DEF InCaches
    <2>3. <<fetch[n].path, fetch[n].want>> \in had
      BY <1>1, <2>2 DEF DiskWasHad
    <2> QED
      BY <1>1, <1>2, <1>4, <2>3, AnswersMoves
  <1> QED
    BY <1>3, <1>4 DEF Downloads

LEMMA TransferMoves ==
    ASSUME SharingInv, NEW n \in Fetcher, Transfers(n)
    PROVE  FetchMoves(n) /\ UNCHANGED <<gossipVars, had>>
  BY AttemptMoves, LookupMoves, CheckMoves, StreamMoves, CacheMoves, DownloadsMoves
  DEF Transfers, OnlyFetch

-----------------------------------------------------------------------------
(* The answer to nix. *)

ClientTyped == client \in [Fetcher -> Client]

\* What a step does to the answer of a node; the others stay as they are.
ClientMoves(n) ==
    /\ ClientTyped'
    /\ \A k \in Fetcher : k # n => client'[k] = client[k]
    /\ ClientKnows(n)'

LEMMA ClientState ==
    ASSUME SharingInv, NEW n \in Fetcher
    PROVE  /\ ClientTyped /\ ClientKnows(n)
           /\ client[n] \in Client /\ client[n].at \in ClientStage
           /\ client[n].path \in Path \cup {Null} /\ client[n].url \in Content \cup {Null}
           /\ client[n].list \in Seq(ProviderInfo)
  BY DEF SharingInv, STypeOK, ClientTyped, Client

\* A record put in the place of another.
LEMMA ClientReplaced ==
    ASSUME ClientTyped, NEW n \in Fetcher, NEW g \in Client,
           client' = [client EXCEPT ![n] = g]
    PROVE  /\ ClientTyped' /\ client'[n] = g
           /\ \A k \in Fetcher : k # n => client'[k] = client[k]
  BY DEF ClientTyped

LEMMA NoClientTyped == NoClient \in Client
  <1>1. <<>> \in Seq(ProviderInfo)
    OBVIOUS
  <1> QED
    BY <1>1 DEF NoClient, Client, ClientStage

\* The answer goes on to another stage for which it knows enough.
LEMMA StageMoves ==
    ASSUME SharingInv, NEW n \in Fetcher, NEW at \in ClientStage \ {"narinfo"},
           client' = [client EXCEPT ![n].at = at],
           at \in {"exists", "serve", "peers", "trying", "fetching"} =>
               client[n].path \in Path /\ client[n].url \in Content,
           at \notin {"idle", "fetching"} => fetch'[n].at \in Over
    PROVE  ClientMoves(n)
  <1> DEFINE g == [client[n] EXCEPT !.at = at]
  <1>1. ClientTyped /\ client[n] \in Client /\ client' = [client EXCEPT ![n] = g]
    BY ClientState
  <1>2. g \in Client /\ g.at = at /\ g.path = client[n].path /\ g.url = client[n].url
    BY <1>1 DEF Client
  <1> HIDE DEF g
  <1>3. /\ ClientTyped' /\ client'[n] = g
        /\ \A k \in Fetcher : k # n => client'[k] = client[k]
    BY <1>1, <1>2, ClientReplaced
  <1>4. ClientKnows(n)'
    BY <1>2, <1>3 DEF ClientKnows
  <1> QED
    BY <1>3, <1>4 DEF ClientMoves

\* nix is answered.
LEMMA RepliesMoves ==
    ASSUME SharingInv, NEW n \in Fetcher, NEW reply \in {"nar", "notFound", "cut"},
           Replies(n, reply), fetch'[n].at \in Over
    PROVE  ClientMoves(n)
  <1> DEFINE g == [NoClient EXCEPT !.at = "answered", !.reply = reply]
  <1>1. ClientTyped /\ client' = [client EXCEPT ![n] = g]
    BY ClientState DEF Replies
  <1>2. g \in Client
    <2>1. "answered" \in ClientStage
      BY DEF ClientStage
    <2> QED
      BY <2>1, NoClientTyped DEF Client
  <1>3. g.at = "answered"
    BY DEF NoClient
  <1> HIDE DEF g
  <1>4. /\ ClientTyped' /\ client'[n] = g
        /\ \A k \in Fetcher : k # n => client'[k] = client[k]
    BY <1>1, <1>2, ClientReplaced
  <1>5. ClientKnows(n)'
    BY <1>3, <1>4 DEF ClientKnows
  <1> QED
    BY <1>4, <1>5 DEF ClientMoves

\* handle_narinfo: the lookups.
LEMMA NarinfoMoves ==
    ASSUME SharingInv, NEW n \in Fetcher, LooksUpPath(n) \/ ScansProviders(n)
    PROVE  ClientMoves(n) /\ UNCHANGED vars
  <1>1. /\ ClientTyped /\ ClientKnows(n) /\ client[n] \in Client /\ n \in Node
        /\ client[n].at \in {"narinfo", "gossip"} /\ UNCHANGED vars
        /\ index \in [Node -> SUBSET Row]
    BY ClientState, FetchState
    DEF LooksUpPath, ScansProviders, Offers, OnlyClient
  <1>2. fetch'[n].at \in Over
    BY <1>1 DEF ClientKnows, vars, transferVars
  <1>3. ASSUME NEW c \in Content \cup {Null}, Offers(n, c)
        PROVE  ClientMoves(n)
    <2> DEFINE g == [client[n] EXCEPT !.at = "offered", !.url = c]
    <2>1. client' = [client EXCEPT ![n] = g]
      BY <1>3 DEF Offers
    <2>2. g \in Client /\ g.at = "offered"
      <3>1. "offered" \in ClientStage
        BY DEF ClientStage
      <3> QED
        BY <1>1, <3>1 DEF Client
    <2> HIDE DEF g
    <2>3. /\ ClientTyped' /\ client'[n] = g
          /\ \A k \in Fetcher : k # n => client'[k] = client[k]
      BY <1>1, <2>1, <2>2, ClientReplaced
    <2>4. ClientKnows(n)'
      BY <1>2, <2>2, <2>3 DEF ClientKnows
    <2> QED
      BY <2>3, <2>4 DEF ClientMoves
  <1>4. CASE \E r \in index[n] : Offers(n, r.blake)
    <2>1. PICK r \in index[n] : Offers(n, r.blake)
      BY <1>4
    <2>2. r.blake \in Content
      <3>1. r \in Row
        BY <1>1
      <3> QED
        BY <3>1 DEF Row
    <2> QED
      BY <1>1, <1>3, <2>1, <2>2
  <1>5. CASE OnlyClient(n, "gossip")
    <2>1. "gossip" \in ClientStage \ {"narinfo"}
      BY DEF ClientStage
    <2>2. client' = [client EXCEPT ![n].at = "gossip"]
      BY <1>5 DEF OnlyClient
    <2> QED
      BY <1>1, <1>2, <2>1, <2>2, StageMoves
  <1>6. CASE Offers(n, Null)
    BY <1>1, <1>3, <1>6
  <1>7. CASE Replies(n, "notFound")
    BY <1>1, <1>2, <1>7, RepliesMoves
  <1> QED
    BY <1>4, <1>5, <1>6, <1>7 DEF LooksUpPath, ScansProviders

\* handle_nar: the row, the path, and what is in the store.
LEMMA NarMoves ==
    ASSUME SharingInv, NEW n \in Fetcher,
           LooksUpNar(n) \/ ChecksPath(n) \/ ServesPath(n)
    PROVE  ClientMoves(n) /\ UNCHANGED vars
  <1>1. /\ ClientTyped /\ ClientKnows(n) /\ client[n] \in Client /\ n \in Node
        /\ client[n].at \in {"nar", "exists", "serve"} /\ UNCHANGED vars
        /\ index \in [Node -> SUBSET Row]
    BY ClientState, FetchState DEF LooksUpNar, ChecksPath, ServesPath, OnlyClient
  <1>2. fetch'[n].at \in Over
    BY <1>1 DEF ClientKnows, vars, transferVars
  <1>3. CASE LooksUpNar(n)
    <2>1. CASE Replies(n, "notFound")
      BY <1>1, <1>2, <2>1, RepliesMoves
    <2>2. CASE \E r \in index[n] :
                   /\ r.blake = client[n].url
                   /\ client' = [client EXCEPT ![n].at = "exists", ![n].path = r.path]
      <3>1. PICK r \in index[n] :
                /\ r.blake = client[n].url
                /\ client' = [client EXCEPT ![n].at = "exists", ![n].path = r.path]
        BY <2>2
      <3>2. r \in Row
        BY <1>1
      <3>3. r.path \in Path /\ client[n].url \in Content
        BY <3>1, <3>2 DEF Row
      <3> DEFINE g == [client[n] EXCEPT !.at = "exists", !.path = r.path]
      <3>4. client' = [client EXCEPT ![n] = g]
        BY <3>1
      <3>5. g \in Client /\ g.at = "exists" /\ g.path = r.path /\ g.url = client[n].url
        <4>1. "exists" \in ClientStage
          BY DEF ClientStage
        <4> QED
          BY <1>1, <3>3, <4>1 DEF Client
      <3> HIDE DEF g
      <3>6. /\ ClientTyped' /\ client'[n] = g
            /\ \A k \in Fetcher : k # n => client'[k] = client[k]
        BY <1>1, <3>4, <3>5, ClientReplaced
      <3>7. ClientKnows(n)'
        BY <1>2, <3>3, <3>5, <3>6 DEF ClientKnows
      <3> QED
        BY <1>1, <3>6, <3>7 DEF ClientMoves
    <2> QED
      BY <1>1, <1>3, <2>1, <2>2 DEF LooksUpNar
  <1>4. CASE ChecksPath(n)
    <2> DEFINE at == IF disk[n][client[n].path] # Null THEN "serve" ELSE "peers"
    <2>1. client' = [client EXCEPT ![n].at = at] /\ client[n].at = "exists"
      BY <1>4 DEF ChecksPath, OnlyClient
    <2>2. at \in ClientStage \ {"narinfo"}
      BY DEF ClientStage
    <2> HIDE DEF at
    <2>3. client[n].path \in Path /\ client[n].url \in Content
      BY <1>1, <2>1 DEF ClientKnows
    <2> QED
      BY <1>1, <1>2, <2>1, <2>2, <2>3, StageMoves
  <1>5. CASE ServesPath(n)
    <2>1. Replies(n, "nar") \/ Replies(n, "cut")
      BY <1>5 DEF ServesPath
    <2> QED
      BY <1>1, <1>2, <2>1, RepliesMoves
  <1> QED
    BY <1>3, <1>4, <1>5

\* try_fetch_nar_from_peer but for the fetches: the list that is read is of
\* providers.
LEMMA PeersMoves ==
    ASSUME SharingInv, NEW n \in Fetcher,
           ReadsProviders(n) \/ ProviderFails(n) \/ NoProviderLeft(n)
    PROVE  ClientMoves(n) /\ UNCHANGED vars
  <1>1. /\ ClientTyped /\ ClientKnows(n) /\ client[n] \in Client /\ n \in Node
        /\ client[n].at \in {"peers", "trying", "fetching"} /\ UNCHANGED vars
        /\ \A k \in Node, c \in Content : providers[k][c] \in Seq(ProviderInfo)
    BY ClientState, FetchState DEF ReadsProviders, ProviderFails, NoProviderLeft, OnlyClient
  <1>2. client[n].path \in Path /\ client[n].url \in Content
    BY <1>1 DEF ClientKnows
  <1>3. "trying" \in ClientStage \ {"narinfo"}
    BY DEF ClientStage
  <1>4. fetch'[n] = fetch[n] /\ (client[n].at # "fetching" => fetch[n].at \in Over)
    BY <1>1 DEF ClientKnows, vars, transferVars
  <1>5. CASE ReadsProviders(n)
    <2> DEFINE list == providers[n][client[n].url]
               g == [client[n] EXCEPT !.at = "trying", !.list = list]
    <2>1. client' = [client EXCEPT ![n] = g] /\ client[n].at = "peers"
      BY <1>5 DEF ReadsProviders
    <2>2. list \in Seq(ProviderInfo)
      BY <1>1, <1>2
    <2> HIDE DEF list
    <2>3. /\ g \in Client /\ g.at = "trying" /\ g.path = client[n].path
          /\ g.url = client[n].url
      BY <1>1, <1>3, <2>2 DEF Client
    <2> HIDE DEF g
    <2>4. /\ ClientTyped' /\ client'[n] = g
          /\ \A k \in Fetcher : k # n => client'[k] = client[k]
      BY <1>1, <2>1, <2>3, ClientReplaced
    <2>5. ClientKnows(n)'
      BY <1>2, <1>4, <2>1, <2>3, <2>4 DEF ClientKnows
    <2> QED
      BY <1>1, <2>4, <2>5 DEF ClientMoves
  <1>6. CASE ProviderFails(n)
    <2>1. client' = [client EXCEPT ![n].at = "trying"] /\ fetch[n].at \in Over
      BY <1>6 DEF ProviderFails, OnlyClient, Over
    <2> QED
      BY <1>1, <1>2, <1>3, <1>4, <2>1, StageMoves
  <1>7. CASE NoProviderLeft(n)
    <2>1. Replies(n, "notFound") /\ client[n].at = "trying"
      BY <1>7 DEF NoProviderLeft
    <2> QED
      BY <1>1, <1>4, <2>1, RepliesMoves
  <1> QED
    BY <1>5, <1>6, <1>7

\* A provider is asked, its NAR is handed on.
LEMMA ProviderMoves ==
    ASSUME SharingInv, NEW n \in Fetcher, TriesProvider(n) \/ ProviderDelivers(n)
    PROVE  ClientMoves(n) /\ FetchMoves(n) /\ OnlyFetch
  <1>1. /\ ClientTyped /\ ClientKnows(n) /\ client[n] \in Client
        /\ client[n].list \in Seq(ProviderInfo)
        /\ client[n].at \in {"trying", "fetching"} /\ OnlyFetch
    BY ClientState DEF TriesProvider, ProviderDelivers
  <1>2. client[n].path \in Path /\ client[n].url \in Content
    BY <1>1 DEF ClientKnows
  <1>3. CASE TriesProvider(n)
    <2> DEFINE m == Head(client[n].list).peer
               rest == Tail(client[n].list)
               f == [NoFetch EXCEPT !.at = "connecting", !.want = client[n].url,
                                    !.peer = m]
               g == [client[n] EXCEPT !.at = "fetching", !.list = rest]
    <2>1. /\ client[n].at = "trying" /\ client[n].list # <<>>
          /\ client' = [client EXCEPT ![n] = g] /\ fetch' = [fetch EXCEPT ![n] = f]
      BY <1>3 DEF TriesProvider
    <2>2. m \in Node /\ rest \in Seq(ProviderInfo)
      <3>1. Head(client[n].list) \in ProviderInfo
        BY <1>1, <2>1
      <3>2. m \in Node
        BY <3>1 DEF ProviderInfo
      <3>3. rest \in Seq(ProviderInfo)
        BY <1>1, <2>1
      <3> QED
        BY <3>2, <3>3
    <2> HIDE DEF m, rest
    <2>3. f \in Fetch
      <3>1. "connecting" \in Stage
        BY DEF Stage
      <3> QED
        BY <1>2, <2>2, <3>1, NoFetchTyped DEF Fetch
    <2>4. f.at = "connecting" /\ f.want = client[n].url /\ f.peer = m /\ f.result = "none"
      BY DEF NoFetch
    <2>5. g \in Client /\ g.at = "fetching" /\ g.path = client[n].path /\ g.url = client[n].url
      <3>1. "fetching" \in ClientStage
        BY DEF ClientStage
      <3> QED
        BY <1>1, <2>2, <3>1 DEF Client
    <2> HIDE DEF f, g
    <2>6. fetch[n].at \in Over
      BY <1>1, <2>1 DEF ClientKnows
    <2>7. FetchMoves(n)
      BY <1>1, <1>2, <2>1, <2>2, <2>3, <2>4, <2>6, BeginsMoves
    <2>8. /\ ClientTyped' /\ client'[n] = g
          /\ \A k \in Fetcher : k # n => client'[k] = client[k]
      BY <1>1, <2>1, <2>5, ClientReplaced
    <2>9. ClientKnows(n)'
      BY <1>2, <2>5, <2>8 DEF ClientKnows
    <2> QED
      BY <1>1, <2>7, <2>8, <2>9 DEF ClientMoves
  <1>4. CASE ProviderDelivers(n)
    <2>1. fetch[n].at = "verified" /\ Ends(n, "fetched") /\ Replies(n, "nar")
      BY <1>4 DEF ProviderDelivers
    <2>2. FetchMoves(n)
      BY <2>1, DeliversMoves DEF Held
    <2>3. fetch'[n].at \in Over
      <3>1. Typed /\ "fetched" \in Result
        BY FetchState DEF Result
      <3> QED
        BY <2>1, <3>1, EndsFacts DEF Over
    <2> QED
      BY <1>1, <2>1, <2>2, <2>3, RepliesMoves
  <1> QED
    BY <1>3, <1>4

\* nix asks for a narinfo when the last fetch is over: it is forgotten.
LEMMA NarinfoAsked ==
    ASSUME SharingInv, NEW n \in Fetcher, NEW p \in Path, AsksNarinfo(n, p)
    PROVE  ClientMoves(n) /\ FetchMoves(n) /\ OnlyFetch
  <1> DEFINE g == [NoClient EXCEPT !.at = "narinfo", !.path = p]
  <1>1. /\ Typed /\ ClientTyped /\ fetch[n].at \in Over /\ OnlyFetch
        /\ client' = [client EXCEPT ![n] = g] /\ fetch' = [fetch EXCEPT ![n] = NoFetch]
    BY FetchState, ClientState DEF AsksNarinfo, Over
  <1>2. /\ Typed' /\ Elsewhere(n) /\ fetch'[n] = NoFetch
    BY <1>1, NoFetchTyped, FetchReplaced
  <1>3. fetch'[n].at = "idle" /\ fetch'[n].want = Null /\ fetch'[n].result = "none"
    BY <1>2 DEF NoFetch
  <1>4. Forgets(n)
    BY <1>1, <1>3 DEF Forgets
  <1>5. FetchKnows(n)'
    BY <1>3 DEF FetchKnows, Over, Asking
  <1>6. g \in Client
    <2>1. "narinfo" \in ClientStage
      BY DEF ClientStage
    <2> QED
      BY <2>1, NoClientTyped DEF Client
  <1>7. g.at = "narinfo" /\ g.path = p
    BY DEF NoClient
  <1> HIDE DEF g
  <1>8. /\ ClientTyped' /\ client'[n] = g
        /\ \A k \in Fetcher : k # n => client'[k] = client[k]
    BY <1>1, <1>6, ClientReplaced
  <1>9. ClientKnows(n)'
    BY <1>3, <1>7, <1>8 DEF ClientKnows, Over
  <1> QED
    BY <1>1, <1>2, <1>3, <1>4, <1>5, <1>8, <1>9
    DEF FetchMoves, ChoosesFromAList, ClientMoves

\* nix asks for the NAR, or for something else.
LEMMA NixMoves ==
    ASSUME SharingInv, NEW n \in Fetcher, AsksNar(n) \/ NixGoesOn(n)
    PROVE  ClientMoves(n) /\ UNCHANGED vars
  <1>1. /\ ClientTyped /\ ClientKnows(n) /\ UNCHANGED vars
        /\ client[n].at \in {"offered", "answered"}
    BY ClientState DEF AsksNar, NixGoesOn, OnlyClient
  <1>2. fetch'[n].at \in Over
    BY <1>1 DEF ClientKnows, vars, transferVars
  <1>3. CASE AsksNar(n)
    <2>1. client' = [client EXCEPT ![n].at = "nar"] /\ "nar" \in ClientStage \ {"narinfo"}
      BY <1>3 DEF AsksNar, OnlyClient, ClientStage
    <2> QED
      BY <1>1, <1>2, <2>1, StageMoves
  <1>4. CASE NixGoesOn(n)
    <2>1. client' = [client EXCEPT ![n] = NoClient]
      BY <1>4 DEF NixGoesOn
    <2>2. /\ ClientTyped' /\ client'[n] = NoClient
          /\ \A k \in Fetcher : k # n => client'[k] = client[k]
      BY <1>1, <2>1, NoClientTyped, ClientReplaced
    <2>3. ClientKnows(n)'
      BY <2>2 DEF ClientKnows, NoClient
    <2> QED
      BY <1>1, <2>2, <2>3 DEF ClientMoves
  <1> QED
    BY <1>3, <1>4

-----------------------------------------------------------------------------
(* One step of the system. *)

\* Every step moves at most one fetch and at most one answer, and what has been
\* somewhere grows only when nix changes a store.
LEMMA StepCases ==
    ASSUME SharingInv, [SNext]_substituterVars
    PROVE  /\ \/ \E n \in Fetcher : FetchMoves(n) /\ UNCHANGED <<gossipVars, had>>
              \/ UNCHANGED <<fetch, had>>
              \/ /\ UNCHANGED fetch
                 /\ \E p \in Path, c \in Content : had' = had \cup {<<p, c>>}
           /\ \/ \E n \in Fetcher : ClientMoves(n) /\ Elsewhere(n)
              \/ UNCHANGED <<client, fetch>>
              \/ /\ UNCHANGED client
                 /\ \E n \in Fetcher :
                        /\ Elsewhere(n)
                        /\ fetch[n].at \notin Over \/ client[n].at = "idle"
  <1>1. CASE \/ UNCHANGED substituterVars
             \/ GossipStep /\ UNCHANGED <<transferVars, client>>
    BY <1>1 DEF substituterVars, vars, transferVars
  <1>2. CASE StoreStep /\ UNCHANGED client
    <2>1. ASSUME NEW n \in Host, NEW p \in Path,
                 IndexReads(n, p) \/ \E c \in Content \cup {Null} : NixChanges(n, p, c)
          PROVE  /\ UNCHANGED fetch
                 /\ UNCHANGED had \/ \E q \in Path, c \in Content : had' = had \cup {<<q, c>>}
      BY <2>1 DEF IndexReads, NixChanges
    <2>2. ASSUME NEW n \in Host, IndexInserts(n)
          PROVE  UNCHANGED <<fetch, had>>
      BY <2>2 DEF IndexInserts
    <2>3. ASSUME NEW n \in Host, IndexFails(n)
          PROVE  UNCHANGED <<fetch, had>>
      BY <2>3 DEF IndexFails
    <2> QED
      BY <1>2, <2>1, <2>2, <2>3 DEF StoreStep
  <1>3. ASSUME NEW n \in Fetcher, client[n].at = "idle", FetchStarts(n), UNCHANGED client
        PROVE  FetchMoves(n) /\ UNCHANGED <<gossipVars, had>> /\ Elsewhere(n)
    BY <1>3, StartsMove DEF FetchMoves, OnlyFetch
  <1>4. ASSUME NEW n \in Fetcher, FetchStep(n)
        PROVE  /\ FetchMoves(n) /\ UNCHANGED <<gossipVars, had>> /\ Elsewhere(n)
               /\ UNCHANGED client /\ fetch[n].at \notin Over
    <2>1. FetchMoves(n) /\ UNCHANGED <<gossipVars, had>> /\ UNCHANGED client
      BY <1>4, TransferMoves, CommandMoves DEF FetchStep
    <2>2. fetch[n].at \notin Over
      BY <1>4 DEF FetchStep, Transfers, CommandRuns, Connects, ConnectFails,
           Receives, AnswerLost, ServeLookup, ServeCheck, ServeStream, AsksCache,
           CacheHasPath, Downloads, QueryFails, FetchLooks, FetchLooksAgain,
           FetchChooses, FetchIndexes, FetchImports, KeepingFails, FetchReturns, Over
    <2> QED
      BY <2>1, <2>2 DEF FetchMoves
  <1>5. ASSUME NEW n \in Fetcher, ClientRuns(n) \/ AsksNar(n) \/ NixGoesOn(n)
        PROVE  /\ ClientMoves(n)
               /\ \/ UNCHANGED vars
                  \/ FetchMoves(n) /\ OnlyFetch
    BY <1>5, NarinfoMoves, NarMoves, PeersMoves, ProviderMoves, NixMoves DEF ClientRuns
  <1>6. ASSUME NEW n \in Fetcher, NEW p \in Path, AsksNarinfo(n, p)
        PROVE  ClientMoves(n) /\ FetchMoves(n) /\ OnlyFetch
    BY <1>6, NarinfoAsked
  <1>7. ASSUME NEW n \in Fetcher, ClientMoves(n), UNCHANGED vars
        PROVE  UNCHANGED <<fetch, had>> /\ Elsewhere(n)
    BY <1>7 DEF vars, transferVars, Elsewhere
  <1>8. ASSUME NEW n \in Fetcher, FetchMoves(n), OnlyFetch
        PROVE  UNCHANGED <<gossipVars, had>> /\ Elsewhere(n)
    BY <1>8 DEF OnlyFetch, FetchMoves
  <1> DEFINE Goal ==
             /\ \/ \E n \in Fetcher : FetchMoves(n) /\ UNCHANGED <<gossipVars, had>>
                \/ UNCHANGED <<fetch, had>>
                \/ /\ UNCHANGED fetch
                   /\ \E p \in Path, c \in Content : had' = had \cup {<<p, c>>}
             /\ \/ \E n \in Fetcher : ClientMoves(n) /\ Elsewhere(n)
                \/ UNCHANGED <<client, fetch>>
                \/ /\ UNCHANGED client
                   /\ \E n \in Fetcher :
                          /\ Elsewhere(n)
                          /\ fetch[n].at \notin Over \/ client[n].at = "idle"
  <1>9. ASSUME NEW n \in Fetcher, client[n].at = "idle", FetchStarts(n), UNCHANGED client
        PROVE  Goal
    BY <1>3, <1>9
  <1>10. ASSUME NEW n \in Fetcher, FetchStep(n) PROVE Goal
    BY <1>4, <1>10
  <1>11. ASSUME NEW n \in Fetcher, ClientRuns(n) \/ AsksNar(n) \/ NixGoesOn(n) PROVE Goal
    BY <1>5, <1>7, <1>8, <1>11
  <1>12. ASSUME NEW n \in Fetcher, NEW p \in Path, AsksNarinfo(n, p) PROVE Goal
    BY <1>6, <1>8, <1>12
  <1>13. CASE \E n \in Fetcher :
                 \/ client[n].at = "idle" /\ FetchStarts(n) /\ UNCHANGED client
                 \/ FetchStep(n) \/ ClientRuns(n) \/ AsksNar(n) \/ NixGoesOn(n)
                 \/ \E p \in Path : AsksNarinfo(n, p)
    <2> HIDE DEF Goal
    <2>1. Goal
      BY <1>9, <1>10, <1>11, <1>12, <1>13
    <2> QED
      BY <2>1 DEF Goal
  <1> QED
    BY <1>1, <1>2, <1>13 DEF SNext

\* What has been somewhere stays known.
LEMMA HadStep ==
    ASSUME SharingInv, [SNext]_substituterVars
    PROVE  had \subseteq had' /\ had' \subseteq Path \X Content
  <1>1. had \subseteq Path \X Content
    BY DEF SharingInv, STypeOK, TTypeOK
  <1>2. CASE UNCHANGED had
    BY <1>1, <1>2
  <1>3. ASSUME NEW p \in Path, NEW c \in Content, had' = had \cup {<<p, c>>}
        PROVE  had \subseteq had' /\ had' \subseteq Path \X Content
    BY <1>1, <1>3
  <1> QED
    BY <1>2, <1>3, StepCases

\* What is known of a fetch survives the steps of others.
LEMMA KnowsStep ==
    ASSUME SharingInv, [SNext]_substituterVars, NEW n \in Fetcher, fetch'[n] = fetch[n]
    PROVE  FetchKnows(n)'
  <1>1. FetchKnows(n)
    BY FetchState
  <1>2. Genuine(n) => Genuine(n)'
    BY HadStep DEF Genuine
  <1> QED
    BY <1>1, <1>2 DEF FetchKnows

\* Fetches keep their type, and what is known of each is.
LEMMA FetchesStep ==
    ASSUME SharingInv, [SNext]_substituterVars
    PROVE  Typed' /\ \A n \in Fetcher : FetchKnows(n)'
  <1>1. CASE UNCHANGED fetch
    <2>1. Typed'
      BY <1>1 DEF SharingInv, STypeOK, TTypeOK, Typed
    <2> QED
      BY <1>1, <2>1, KnowsStep
  <1>2. ASSUME NEW n \in Fetcher, FetchMoves(n)
        PROVE  Typed' /\ \A k \in Fetcher : FetchKnows(k)'
    <2>1. Typed' /\ Elsewhere(n) /\ FetchKnows(n)'
      BY <1>2 DEF FetchMoves
    <2>2. ASSUME NEW k \in Fetcher, k # n PROVE FetchKnows(k)'
      BY <2>1, <2>2, KnowsStep DEF Elsewhere
    <2> QED
      BY <2>1, <2>2
  <1> QED
    BY <1>1, <1>2, StepCases

\* So is what is known of each answer.
LEMMA ClientsStep ==
    ASSUME SharingInv, [SNext]_substituterVars
    PROVE  ClientTyped' /\ \A n \in Fetcher : ClientKnows(n)'
  <1>1. ClientTyped /\ \A n \in Fetcher : ClientKnows(n)
    BY DEF SharingInv, STypeOK, ClientTyped
  <1>2. ASSUME NEW n \in Fetcher, client'[n] = client[n], fetch'[n] = fetch[n]
        PROVE  ClientKnows(n)'
    BY <1>1, <1>2 DEF ClientKnows
  <1>3. CASE UNCHANGED <<client, fetch>>
    BY <1>1, <1>2, <1>3 DEF ClientTyped
  <1>4. ASSUME NEW n \in Fetcher, ClientMoves(n), Elsewhere(n)
        PROVE  ClientTyped' /\ \A k \in Fetcher : ClientKnows(k)'
    <2>1. ASSUME NEW k \in Fetcher, k # n PROVE ClientKnows(k)'
      BY <1>2, <1>4, <2>1 DEF ClientMoves, Elsewhere
    <2> QED
      BY <1>4, <2>1 DEF ClientMoves
  <1>5. ASSUME NEW n \in Fetcher, UNCHANGED client, Elsewhere(n),
               fetch[n].at \notin Over \/ client[n].at = "idle"
        PROVE  ClientTyped' /\ \A k \in Fetcher : ClientKnows(k)'
    <2>1. ASSUME NEW k \in Fetcher, k # n PROVE ClientKnows(k)'
      BY <1>2, <1>5, <2>1 DEF Elsewhere
    <2>2. client[n].at \in {"idle", "fetching"}
      BY <1>1, <1>5 DEF ClientKnows
    <2>3. ClientKnows(n)'
      BY <1>1, <1>5, <2>2 DEF ClientKnows
    <2> QED
      BY <1>1, <1>5, <2>1, <2>3 DEF ClientTyped
  <1> QED
    BY <1>3, <1>4, <1>5, StepCases

\* INSERT OR REPLACE gives rows.
LEMMA InsertedRows ==
    ASSUME index \in [Node -> SUBSET Row], NEW n \in Node, NEW row \in Row,
           index' = [index EXCEPT ![n] = Inserted(@, row)]
    PROVE  index' \in [Node -> SUBSET Row]
  <1>1. Inserted(index[n], row) \in SUBSET Row
    BY DEF Inserted
  <1> QED
    BY <1>1

\* The stores and the indexes: what each step of theirs does.
StoresTyped ==
    /\ disk \in [Node -> [Path -> Content \cup {Null}]]
    /\ index \in [Node -> SUBSET Row]
    /\ indexing \in [Node -> SUBSET Row]
    /\ \A n \in Node : Cardinality(indexing[n]) <= 1
    /\ changes \in 0 .. MaxChanges
    /\ \A n \in Node, p \in Path : disk[n][p] # Null => <<p, disk[n][p]>> \in had

\* A content that is put into a store has been there from then on.
LEMMA DiskWritten ==
    ASSUME StoresTyped, NEW n \in Node, NEW p \in Path, NEW c \in Content \cup {Null},
           disk' = [disk EXCEPT ![n][p] = c],
           had \subseteq had', c # Null => <<p, c>> \in had'
    PROVE  /\ disk' \in [Node -> [Path -> Content \cup {Null}]]
           /\ \A k \in Node, q \in Path : disk'[k][q] # Null => <<q, disk'[k][q]>> \in had'
  <1>1. disk' = [disk EXCEPT ![n] = [disk[n] EXCEPT ![p] = c]]
    OBVIOUS
  <1>2. disk' \in [Node -> [Path -> Content \cup {Null}]]
    BY <1>1 DEF StoresTyped
  <1>3. \A k \in Node, q \in Path :
            disk'[k][q] = IF k = n /\ q = p THEN c ELSE disk[k][q]
    BY <1>1 DEF StoresTyped
  <1> QED
    BY <1>2, <1>3 DEF StoresTyped

LEMMA StoresStep ==
    ASSUME SharingInv, [SNext]_substituterVars
    PROVE  StoresTyped'
  <1>1. StoresTyped
    BY DEF SharingInv, STypeOK, TTypeOK, IndexingTyped, DiskWasHad, StoresTyped
  <1>2. Host \subseteq Node /\ Fetcher \subseteq Node /\ MaxChanges \in Nat
    BY TransferAssumption
  <1>3. had \subseteq had'
    BY HadStep
  <1>4. ASSUME UNCHANGED <<disk, index, indexing, changes>>
        PROVE  StoresTyped'
    BY <1>1, <1>3, <1>4 DEF StoresTyped
  <1>5. ASSUME NEW n \in Host, NEW p \in Path, IndexReads(n, p)
        PROVE  StoresTyped'
    <2> DEFINE row == [path |-> p, blake |-> disk[n][p]]
    <2>1. /\ disk[n][p] # Null /\ indexing' = [indexing EXCEPT ![n] = {row}]
          /\ UNCHANGED <<disk, index, changes, had>>
      BY <1>5 DEF IndexReads
    <2>2. row \in Row
      BY <1>1, <1>2, <2>1 DEF StoresTyped, Row
    <2> HIDE DEF row
    <2>3. indexing' \in [Node -> SUBSET Row]
      BY <1>1, <1>2, <2>1, <2>2 DEF StoresTyped
    <2>4. Cardinality({row}) = 1
      BY FS_Singleton
    <2>5. \A k \in Node : Cardinality(indexing'[k]) <= 1
      BY <1>1, <1>2, <2>1, <2>4 DEF StoresTyped
    <2> QED
      BY <1>1, <2>1, <2>3, <2>5 DEF StoresTyped
  <1>6. ASSUME NEW n \in Host, IndexInserts(n)
        PROVE  StoresTyped'
    <2>1. PICK row \in indexing[n] : index' = [index EXCEPT ![n] = Inserted(@, row)]
      BY <1>6 DEF IndexInserts
    <2>2. /\ indexing' = [indexing EXCEPT ![n] = {}]
          /\ UNCHANGED <<disk, changes, had>>
      BY <1>6 DEF IndexInserts
    <2>3. row \in Row
      BY <1>1, <1>2 DEF StoresTyped
    <2>4. index' \in [Node -> SUBSET Row]
      BY <1>1, <1>2, <2>1, <2>3, InsertedRows DEF StoresTyped
    <2>5. indexing' \in [Node -> SUBSET Row]
      BY <1>1, <2>2 DEF StoresTyped
    <2>6. Cardinality({}) = 0
      BY FS_EmptySet
    <2>7. \A k \in Node : Cardinality(indexing'[k]) <= 1
      BY <1>1, <2>2, <2>6 DEF StoresTyped
    <2> QED
      BY <1>1, <2>2, <2>4, <2>5, <2>7 DEF StoresTyped
  <1>7. ASSUME NEW n \in Node, NEW p \in Path, NEW c \in Content \cup {Null},
               NixChanges(n, p, c)
        PROVE  StoresTyped'
    <2>1. /\ changes < MaxChanges /\ changes' = changes + 1
          /\ disk' = [disk EXCEPT ![n][p] = c]
          /\ c # Null => <<p, c>> \in had'
          /\ UNCHANGED <<index, indexing>>
      BY <1>7 DEF NixChanges
    <2>2. /\ disk' \in [Node -> [Path -> Content \cup {Null}]]
          /\ \A k \in Node, q \in Path : disk'[k][q] # Null => <<q, disk'[k][q]>> \in had'
      BY <1>1, <1>3, <2>1, DiskWritten
    <2>3. changes' \in 0 .. MaxChanges
      BY <1>1, <1>2, <2>1 DEF StoresTyped
    <2> QED
      BY <1>1, <2>1, <2>2, <2>3 DEF StoresTyped
  <1>8. ASSUME NEW n \in Fetcher, FetchImports(n)
        PROVE  StoresTyped'
    <2>1. /\ FetchKnows(n) /\ fetch[n].at = "importing" /\ had \subseteq Path \X Content
          /\ n \in Node
      BY <1>8, FetchState DEF FetchImports
    <2>2. <<fetch[n].path, fetch[n].data>> \in had
      BY <2>1 DEF FetchKnows, Genuine
    <2>3. fetch[n].path \in Path /\ fetch[n].data \in Content
      BY <2>1, <2>2
    <2>4. /\ disk' = [disk EXCEPT ![n][fetch[n].path] = fetch[n].data]
          /\ UNCHANGED <<index, indexing, changes>>
      BY <1>8 DEF FetchImports
    <2>5. /\ disk' \in [Node -> [Path -> Content \cup {Null}]]
          /\ \A k \in Node, q \in Path : disk'[k][q] # Null => <<q, disk'[k][q]>> \in had'
      BY <1>1, <1>3, <2>1, <2>2, <2>3, <2>4, DiskWritten
    <2> QED
      BY <1>1, <2>4, <2>5 DEF StoresTyped
  <1>9. ASSUME NEW n \in Fetcher, FetchIndexes(n)
        PROVE  StoresTyped'
    <2> DEFINE row == [path |-> fetch[n].path, blake |-> fetch[n].want]
    <2>1. /\ index' = [index EXCEPT ![n] = Inserted(@, row)]
          /\ UNCHANGED <<disk, indexing, changes, had>>
      BY <1>9 DEF FetchIndexes
    <2>2. row \in Row
      <3>1. FetchKnows(n) /\ fetch[n].at = "verified" /\ had \subseteq Path \X Content
        BY <1>9, FetchState DEF FetchIndexes
      <3>2. <<fetch[n].path, fetch[n].want>> \in had
        BY <3>1 DEF FetchKnows, Genuine
      <3> QED
        BY <3>1, <3>2 DEF Row
    <2> HIDE DEF row
    <2>3. index' \in [Node -> SUBSET Row]
      BY <1>1, <1>2, <2>1, <2>2, InsertedRows DEF StoresTyped
    <2> QED
      BY <1>1, <2>1, <2>3 DEF StoresTyped
  <1>10. ASSUME NEW n \in Fetcher, Downloads(n)
         PROVE  StoresTyped'
    <2> DEFINE row == [path |-> fetch[n].path, blake |-> fetch[n].want]
               m == fetch[n].peer
    <2>1. UNCHANGED <<disk, indexing, changes, had>>
      BY <1>10 DEF Downloads
    <2>2. UNCHANGED index \/ index' = [index EXCEPT ![m] = Inserted(@, row)]
      BY <1>10 DEF Downloads
    <2>3. m \in Node /\ row \in Row
      <3>1. FetchKnows(n) /\ fetch[n].at = "download"
        BY <1>10, FetchState DEF Downloads
      <3>2. fetch[n].peer \in Node /\ fetch[n].path \in Path /\ fetch[n].want # Null
        BY <3>1 DEF FetchKnows, Asking, Over
      <3>3. fetch[n].want \in Content
        BY <3>2, FetchState, FetchFields
      <3> QED
        BY <3>2, <3>3 DEF Row
    <2> HIDE DEF row, m
    <2>4. index' \in [Node -> SUBSET Row]
      BY <1>1, <2>2, <2>3, InsertedRows DEF StoresTyped
    <2> QED
      BY <1>1, <2>1, <2>4 DEF StoresTyped
  <1>11. CASE StoreStep
    <2>1. ASSUME NEW n \in Host, IndexFails(n)
          PROVE  StoresTyped'
      <3>1. indexing' = [indexing EXCEPT ![n] = {}] /\ UNCHANGED <<disk, index, changes>>
        BY <2>1 DEF IndexFails
      <3>2. indexing' \in [Node -> SUBSET Row]
        BY <1>1, <3>1 DEF StoresTyped
      <3>3. Cardinality({}) = 0
        BY FS_EmptySet
      <3>4. \A k \in Node : Cardinality(indexing'[k]) <= 1
        BY <1>1, <3>1, <3>3 DEF StoresTyped
      <3> QED
        BY <1>1, <1>3, <3>1, <3>2, <3>4 DEF StoresTyped
    <2> QED
      BY <1>2, <1>5, <1>6, <1>7, <1>11, <2>1 DEF StoreStep
  <1>12. ASSUME NEW n \in Fetcher, FetchStarts(n) \/ Transfers(n) \/ CommandRuns(n)
         PROVE  StoresTyped'
    <2>1. \/ UNCHANGED <<disk, index, indexing, changes>>
          \/ FetchImports(n) \/ FetchIndexes(n) \/ Downloads(n)
      BY <1>12 DEF FetchStarts, Transfers, CommandRuns, FetchQueries, FetchFrom,
           Connects, ConnectFails, Receives, AnswerLost, ServeLookup, ServeCheck,
           ServeStream, AsksCache, CacheHasPath, QueryFails, FetchLooks,
           FetchLooksAgain, FetchChooses, KeepingFails, FetchReturns, OnlyFetch
    <2> QED
      BY <1>4, <1>8, <1>9, <1>10, <2>1
  <1>13. ASSUME NEW n \in Fetcher,
                \/ ClientRuns(n) \/ AsksNar(n) \/ NixGoesOn(n)
                \/ \E p \in Path : AsksNarinfo(n, p)
         PROVE  StoresTyped'
    <2>1. OnlyFetch \/ UNCHANGED vars
      BY <1>13, NarinfoMoves, NarMoves, PeersMoves, ProviderMoves, NarinfoAsked, NixMoves
      DEF ClientRuns
    <2> QED
      BY <1>4, <2>1 DEF OnlyFetch, vars, transferVars
  <1>14. CASE \/ UNCHANGED substituterVars
              \/ GossipStep /\ UNCHANGED <<transferVars, client>>
    BY <1>4, <1>14 DEF substituterVars, vars, transferVars
  <1> QED
    BY <1>11, <1>12, <1>13, <1>14 DEF SNext, FetchStep

-----------------------------------------------------------------------------
(* The invariant holds. *)

\* At the start nothing is listed, asked or served.
LEMMA SharingInit == SInit => SharingInv
  <1> SUFFICES ASSUME SInit PROVE SharingInv
    OBVIOUS
  <1> USE DEF SInit, TInit, GInit
  <1>1. Near \in [Node -> SUBSET Node] /\ MaxChurn \in Nat /\ MaxChanges \in Nat
    BY GossipAssumption, TransferAssumption
  <1>2. GTypeOK
    <2>1. <<>> \in Seq(Have) /\ <<>> \in Seq(SUBSET Node) /\ <<>> \in Seq(ProviderInfo)
      OBVIOUS
    <2>2. providers \in [Node -> [Content -> Seq(ProviderInfo)]]
      BY <2>1
    <2> QED
      BY <1>1, <2>1, <2>2 DEF GTypeOK
  <1>3. \A n \in Node, c \in Content : DOMAIN providers[n][c] = {}
    OBVIOUS
  <1>4. ProvidersOnce /\ GoneOnlyIfMissed
    BY <1>3 DEF ProvidersOnce, GoneOnlyIfMissed, Peers
  <1>5. DiskWasHad
    <2>1. ASSUME NEW n \in Node, NEW p \in Path, disk[n][p] # Null
          PROVE  <<p, disk[n][p]>> \in had
      <3> DEFINE x == <<p, disk[n][p]>>
      <3>1. x \in Path \X Content /\ x[1] = p /\ x[2] = disk[n][p]
        BY <2>1
      <3>2. x \in OnDisk
        BY <3>1 DEF OnDisk
      <3> QED
        BY <3>2
    <2> QED
      BY <2>1 DEF DiskWasHad
  <1>6. \A n \in Node : indexing[n] = {} /\ Cardinality(indexing[n]) <= 1
    BY FS_EmptySet
  <1>7. Typed /\ \A n \in Fetcher : FetchKnows(n)
    <2>1. Typed
      BY NoFetchTyped DEF Typed
    <2>2. \A n \in Fetcher : fetch[n].at = "idle" /\ fetch[n].want = Null
                             /\ fetch[n].result = "none"
      BY DEF NoFetch
    <2> QED
      BY <2>1, <2>2 DEF FetchKnows, Over, Asking
  <1>8. ClientTyped /\ \A n \in Fetcher : ClientKnows(n)
    <2>1. ClientTyped
      BY NoClientTyped DEF ClientTyped
    <2>2. \A n \in Fetcher : client[n].at = "idle"
      BY DEF NoClient
    <2> QED
      BY <2>1, <2>2 DEF ClientKnows
  <1>9. had \subseteq Path \X Content
    BY DEF OnDisk, InCaches
  <1>10. /\ disk \in [Node -> [Path -> Content \cup {Null}]]
         /\ index \in [Node -> SUBSET Row] /\ indexing \in [Node -> SUBSET Row]
         /\ changes \in 0 .. MaxChanges
    BY <1>1
  <1> QED
    BY <1>2, <1>4, <1>5, <1>6, <1>7, <1>8, <1>9, <1>10
    DEF SharingInv, STypeOK, TTypeOK, IndexingTyped, Typed, ClientTyped

\* Every step keeps it.
LEMMA SharingStep ==
    ASSUME SharingInv, [SNext]_substituterVars
    PROVE  SharingInv'
  <1>1. GTypeOK' /\ ProvidersOnce' /\ GoneOnlyIfMissed'
    BY GossipInvStep
  <1>2. StoresTyped'
    BY StoresStep
  <1>3. Typed' /\ \A n \in Fetcher : FetchKnows(n)'
    BY FetchesStep
  <1>4. ClientTyped' /\ \A n \in Fetcher : ClientKnows(n)'
    BY ClientsStep
  <1>5. had' \subseteq Path \X Content /\ InCaches' \subseteq had'
    <2>1. InCaches \subseteq had
      BY DEF SharingInv, DiskWasHad
    <2>2. InCaches' = InCaches
      BY DEF InCaches
    <2> QED
      BY <2>1, <2>2, HadStep
  <1>6. TTypeOK'
    BY <1>1, <1>2, <1>3, <1>5 DEF TTypeOK, StoresTyped, Typed
  <1>7. STypeOK' /\ IndexingTyped' /\ DiskWasHad'
    BY <1>2, <1>4, <1>5, <1>6
    DEF STypeOK, IndexingTyped, DiskWasHad, StoresTyped, ClientTyped
  <1> QED
    BY <1>1, <1>3, <1>4, <1>7 DEF SharingInv

\* Gossip, transfers and the substituter keep the invariant together, whatever
\* nix, the network and the caches do.
THEOREM SharingInvariance == SSpec => []SharingInv
  BY SharingInit, SharingStep, PTL DEF SSpec

\* The provider caches, the indexes, the fetches and the answers to nix hold
\* what their types say.
THEOREM SharingTypesCorrect == SSpec => []STypeOK
  <1>1. SharingInv => STypeOK
    BY DEF SharingInv
  <1> QED
    BY <1>1, SharingInvariance, PTL

\* A peer is listed once for each hash, by whichever way and however often its
\* announcements come (add_provider).
THEOREM ProvidersListedOnce == SSpec => []ProvidersOnce
  <1>1. SharingInv => ProvidersOnce
    BY DEF SharingInv
  <1> QED
    BY <1>1, SharingInvariance, PTL

\* A peer that has gone is listed for no hash until it is back, unless its
\* going was among the events the node's receiver lost (remove_provider at
\* NeighborDown, Event::Lagged).
THEOREM OnlyTheMissedStay == SSpec => []GoneOnlyIfMissed
  <1>1. SharingInv => GoneOnlyIfMissed
    BY DEF SharingInv
  <1> QED
    BY <1>1, SharingInvariance, PTL

\* What a fetch hands on is what it was asked for, under a path that had it,
\* whatever was read from stale indexes, changing stores and other caches
\* (fetch_nar, verified by BLAKE3).
THEOREM FetchesAreGenuine == SSpec => []FetchIsGenuine
  <1>1. SharingInv => FetchIsGenuine
    BY DEF SharingInv, FetchKnows, Genuine, FetchIsGenuine
  <1> QED
    BY <1>1, SharingInvariance, PTL

\* A fetch comes to stand before an empty list only while it stands before the
\* list of one neighbor, which goes; and only there it panics.
LEMMA PanicStep ==
    ASSUME SharingInv, [SNext]_substituterVars, NEW n \in Fetcher
    PROVE  /\ fetch'[n].result = "panic" => fetch[n].result = "panic" \/ Stranded(n)
           /\ Stranded(n)' => \/ Stranded(n)
                              \/ /\ fetch[n].at = "choosing"
                                 /\ \E m \in neighbors[n] \ neighbors'[n] :
                                        Peers(providers[n][fetch[n].want]) = {m}
  <1>1. CASE fetch'[n] = fetch[n]
    <2>1. ASSUME Stranded(n)', ~Stranded(n)
          PROVE  /\ fetch[n].at = "choosing"
                 /\ \E m \in neighbors[n] \ neighbors'[n] :
                        Peers(providers[n][fetch[n].want]) = {m}
      <3>1. /\ fetch[n].at = "choosing" /\ providers[n][fetch[n].want] # <<>>
            /\ providers'[n][fetch[n].want] = <<>>
        BY <1>1, <2>1 DEF Stranded
      <3>2. n \in Node /\ fetch[n].want \in Content
        BY <3>1, FetchState, FetchFields DEF FetchKnows, Over
      <3> QED
        BY <3>1, <3>2, ListsStep DEF ListsKept, EmptiedByLoss
    <2> QED
      BY <1>1, <2>1
  <1>2. CASE FetchMoves(n) /\ UNCHANGED <<gossipVars, had>>
    <2>1. ChoosesFromAList(n) /\ UNCHANGED providers
      BY <1>2 DEF FetchMoves, gossipVars
    <2> QED
      BY <2>1 DEF ChoosesFromAList, Stranded
  <1>3. ASSUME NEW k \in Fetcher, FetchMoves(k), k # n
        PROVE  fetch'[n] = fetch[n]
    BY <1>3 DEF FetchMoves, Elsewhere
  <1> QED
    BY <1>1, <1>2, <1>3, StepCases

\* The fetch command panics at an empty list only if, after it found providers,
\* the last of them has gone from among its neighbors (fetch_nar_cmd).
THEOREM PanicOnlyAfterLoss == SSpec => PanicsOnlyOnLoss
  <1>1. SharingInv /\ [SNext]_substituterVars =>
            [\A n \in Fetcher :
                /\ fetch'[n].result = "panic" => fetch[n].result = "panic" \/ Stranded(n)
                /\ Stranded(n)' => \/ Stranded(n)
                                   \/ /\ fetch[n].at = "choosing"
                                      /\ \E m \in neighbors[n] \ neighbors'[n] :
                                             Peers(providers[n][fetch[n].want]) = {m}]_vars
    BY PanicStep
  <1> QED
    BY <1>1, SharingInvariance, PTL DEF SSpec, PanicsOnlyOnLoss

\* However many peers announce a hash and whoever of them goes, the provider a
\* fetch would take first is displaced by no other while it is connected
\* (add_provider, remove_provider).
THEOREM FirstProviderIsKept == SSpec => FirstProviderStays
  <1>1. SharingInv /\ [SNext]_substituterVars =>
            [\A n \in Node, c \in Content :
                LET list == providers[n][c] IN
                list # <<>> => \/ /\ providers'[n][c] # <<>>
                                  /\ Head(providers'[n][c]) = Head(list)
                               \/ Head(list).peer \notin neighbors'[n]]_providers
    BY FirstStep DEF FirstKept
  <1> QED
    BY <1>1, SharingInvariance, PTL DEF SSpec, FirstProviderStays

-----------------------------------------------------------------------------
(* The peers asked for nix.  The list that is gone through has each peer    *)
(* once because the provider cache has; retries leave the peer of a fetch   *)
(* as it is.                                                                *)

\* The list is being gone through.
GoesThrough(n) == client[n].at \in {"trying", "fetching"}

AskedOnce(n) ==
    GoesThrough(n) =>
        /\ PeersOnce(client[n].list)
        /\ fetch[n].at \notin Over => fetch[n].peer \notin Peers(client[n].list)

\* The peer of a fetch that nix waits for stays until it is over.
PeerStays(n) == fetch'[n].at \in Over \/ fetch'[n].peer = fetch[n].peer

\* A step of a fetch that does not belong to the command leaves the peer.
LEMMA TransferKeepsPeer ==
    ASSUME SharingInv, NEW n \in Fetcher, Transfers(n)
    PROVE  PeerStays(n)
  <1>1. Typed /\ fetch[n] \in Fetch
    BY FetchState, FetchFields
  <1>2. ASSUME NEW result \in Result, Ends(n, result) PROVE PeerStays(n)
    BY <1>1, <1>2, EndsFacts DEF PeerStays, Over
  <1>3. ASSUME Retries(n) PROVE PeerStays(n)
    BY <1>1, <1>3, RetriesFacts DEF PeerStays, Over
  <1>4. ASSUME NEW at \in Stage, Goes(n, at) PROVE PeerStays(n)
    BY <1>1, <1>4, GoesFacts DEF PeerStays
  <1>5. ASSUME NEW answer, NEW data, Answers(n, answer, data) PROVE PeerStays(n)
    BY <1>1, <1>5 DEF Answers, PeerStays, Typed, Fetch
  <1>6. {"lookup", "stream", "narinfo", "verified"} \subseteq Stage
        /\ {"notFound", "mismatch"} \subseteq Result
    BY DEF Stage, Result
  <1>7. CASE Connects(n) \/ ConnectFails(n) \/ Receives(n) \/ AnswerLost(n)
    BY <1>2, <1>3, <1>4, <1>6, <1>7 DEF Connects, ConnectFails, Receives, AnswerLost
  <1>8. CASE ServeLookup(n)
    <2>1. \/ Answers(n, "notFound", Null)
          \/ \E p : fetch' = [fetch EXCEPT ![n].at = "check", ![n].path = p]
      BY <1>8 DEF ServeLookup
    <2> QED
      BY <1>1, <1>5, <2>1 DEF PeerStays, Typed, Fetch
  <1>9. CASE ServeCheck(n) \/ ServeStream(n)
    BY <1>4, <1>5, <1>6, <1>9 DEF ServeCheck, ServeStream
  <1>10. CASE AsksCache(n) \/ CacheHasPath(n)
    <2>1. \/ Answers(n, "broken", Null)
          \/ \E i : fetch' = [fetch EXCEPT ![n].cache = i]
          \/ \E c : fetch' = [fetch EXCEPT ![n].at = "download", ![n].data = c]
      BY <1>10 DEF AsksCache, CacheHasPath
    <2> QED
      BY <1>1, <1>5, <2>1 DEF PeerStays, Typed, Fetch
  <1>11. CASE Downloads(n)
    BY <1>5, <1>11 DEF Downloads
  <1> QED
    BY <1>7, <1>8, <1>9, <1>10, <1>11 DEF Transfers

\* The first of the list is asked: it is none of the rest.
LEMMA FirstIsAnother ==
    ASSUME NEW list \in Seq(ProviderInfo), list # <<>>, PeersOnce(list)
    PROVE  PeersOnce(Tail(list)) /\ Head(list).peer \notin Peers(Tail(list))
  <1> DEFINE N == Len(list)
             rest == Tail(list)
  <1>1. /\ N \in Nat \ {0} /\ DOMAIN list = 1 .. N /\ Head(list) = list[1]
        /\ DOMAIN rest = 1 .. N - 1 /\ \A i \in 1 .. N - 1 : rest[i] = list[i + 1]
    OBVIOUS
  <1> HIDE DEF N, rest
  <1>2. PeersOnce(rest)
    <2> SUFFICES ASSUME NEW i \in DOMAIN rest, NEW k \in DOMAIN rest,
                        rest[i].peer = rest[k].peer
                 PROVE  i = k
      BY DEF PeersOnce
    <2>1. i \in 1 .. N - 1 /\ k \in 1 .. N - 1 /\ N \in Nat /\ DOMAIN list = 1 .. N
      BY <1>1
    <2>2. i + 1 \in 1 .. N /\ k + 1 \in 1 .. N
      BY ONLY <2>1
    <2>3. list[i + 1].peer = list[k + 1].peer
      BY <1>1, <2>1
    <2>4. i + 1 = k + 1
      BY <2>1, <2>2, <2>3 DEF PeersOnce
    <2> QED
      BY <2>1, <2>4
  <1>3. \A i \in 1 .. N - 1 : rest[i].peer # list[1].peer
    <2> SUFFICES ASSUME NEW i \in 1 .. N - 1 PROVE list[i + 1].peer # list[1].peer
      BY <1>1
    <2>1. 1 \in 1 .. N /\ i + 1 \in 1 .. N /\ i + 1 # 1
      BY <1>1
    <2> QED
      BY <1>1, <2>1 DEF PeersOnce
  <1>4. list[1].peer \notin Peers(rest)
    BY <1>1, <1>3 DEF Peers
  <1> QED
    BY <1>1, <1>2, <1>4 DEF rest

\* What each step of nix's answer does to its list.
LEMMA AskedByClient ==
    ASSUME SharingInv, NEW n \in Fetcher, AskedOnce(n), ClientRuns(n)
    PROVE  AskedOnce(n)'
  <1>1. /\ ClientTyped /\ ClientKnows(n) /\ client[n] \in Client /\ Typed
        /\ client[n].list \in Seq(ProviderInfo) /\ n \in Node
    BY ClientState, FetchState
  <1>2. ASSUME client'[n].at \notin {"trying", "fetching"}
        PROVE  AskedOnce(n)'
    BY <1>2 DEF AskedOnce, GoesThrough
  <1>3. CASE \/ LooksUpPath(n) \/ ScansProviders(n) \/ LooksUpNar(n)
             \/ ChecksPath(n) \/ ServesPath(n)
             \/ ProviderDelivers(n) \/ NoProviderLeft(n)
    <2> USE <1>1 DEF ClientTyped
    <2>1. \A c : [client[n] EXCEPT !.at = "offered", !.url = c].at = "offered"
      BY DEF Client
    <2>2. \A reply : [NoClient EXCEPT !.at = "answered", !.reply = reply].at = "answered"
      BY DEF NoClient
    <2>3. ASSUME NEW c, Offers(n, c) PROVE client'[n].at = "offered"
      BY <2>1, <2>3 DEF Offers
    <2>4. ASSUME NEW reply, Replies(n, reply) PROVE client'[n].at = "answered"
      BY <2>2, <2>4 DEF Replies
    <2>5. ASSUME NEW at, OnlyClient(n, at) PROVE client'[n].at = at
      BY <2>5 DEF OnlyClient, Client
    <2>6. CASE LooksUpPath(n) \/ ScansProviders(n)
      BY <1>2, <2>3, <2>4, <2>5, <2>6 DEF LooksUpPath, ScansProviders
    <2>7. CASE LooksUpNar(n)
      <3>1. \/ Replies(n, "notFound")
            \/ \E p : client' = [client EXCEPT ![n].at = "exists", ![n].path = p]
        BY <2>7 DEF LooksUpNar
      <3> QED
        BY <1>2, <2>4, <3>1 DEF Client
    <2>8. CASE ChecksPath(n)
      BY <1>2, <2>5, <2>8 DEF ChecksPath
    <2>9. CASE ServesPath(n) \/ ProviderDelivers(n) \/ NoProviderLeft(n)
      BY <1>2, <2>4, <2>9 DEF ServesPath, ProviderDelivers, NoProviderLeft
    <2> QED
      BY <1>3, <2>6, <2>7, <2>8, <2>9
  <1>4. CASE ReadsProviders(n)
    <2>1. /\ client'[n].list = providers[n][client[n].url] /\ fetch' = fetch
          /\ client[n].at = "peers"
      BY <1>1, <1>4 DEF ReadsProviders, ClientTyped, Client, vars, transferVars
    <2>2. client[n].url \in Content /\ fetch[n].at \in Over
      BY <1>1, <2>1 DEF ClientKnows
    <2>3. PeersOnce(providers[n][client[n].url])
      BY <1>1, <2>2, GossipState
    <2> QED
      BY <2>1, <2>2, <2>3 DEF AskedOnce
  <1>5. CASE TriesProvider(n)
    <2> DEFINE list == client[n].list
               f == [NoFetch EXCEPT !.at = "connecting", !.want = client[n].url,
                                    !.peer = Head(list).peer]
    <2>1. /\ client[n].at = "trying" /\ list # <<>>
          /\ client'[n].list = Tail(list) /\ fetch' = [fetch EXCEPT ![n] = f]
      BY <1>1, <1>5 DEF TriesProvider, ClientTyped, Client
    <2>2. PeersOnce(list)
      BY <2>1 DEF AskedOnce, GoesThrough
    <2>3. PeersOnce(Tail(list)) /\ Head(list).peer \notin Peers(Tail(list))
      BY <1>1, <2>1, <2>2, FirstIsAnother
    <2>4. f.peer = Head(list).peer
      BY DEF NoFetch
    <2> HIDE DEF f, list
    <2>5. fetch'[n] = f
      BY <1>1, <2>1 DEF Typed
    <2> QED
      BY <2>1, <2>3, <2>4, <2>5 DEF AskedOnce
  <1>6. CASE ProviderFails(n)
    <2>1. /\ client[n].at = "fetching" /\ fetch' = fetch
          /\ client'[n].list = client[n].list
      BY <1>1, <1>6 DEF ProviderFails, OnlyClient, ClientTyped, Client, vars, transferVars
    <2> QED
      BY <2>1 DEF AskedOnce, GoesThrough
  <1> QED
    BY <1>3, <1>4, <1>5, <1>6 DEF ClientRuns

\* Every step leaves the lists gone through in order.
LEMMA AskedStep ==
    ASSUME SharingInv, \A n \in Fetcher : AskedOnce(n), [SNext]_substituterVars
    PROVE  \A n \in Fetcher : AskedOnce(n)'
  <1> SUFFICES ASSUME NEW n \in Fetcher PROVE AskedOnce(n)'
    OBVIOUS
  <1>1. ClientTyped /\ Typed /\ ClientKnows(n)
    BY ClientState, FetchState
  <1>2. ASSUME client'[n] = client[n], PeerStays(n) \/ client[n].at = "idle",
               fetch[n].at \notin Over \/ fetch'[n] = fetch[n] \/ client[n].at = "idle"
        PROVE  AskedOnce(n)'
    BY <1>2 DEF AskedOnce, GoesThrough, PeerStays
  <1>3. ASSUME client'[n] = client[n], fetch'[n] = fetch[n] PROVE AskedOnce(n)'
    BY <1>3 DEF AskedOnce, GoesThrough
  <1>4. CASE \/ UNCHANGED substituterVars
             \/ GossipStep /\ UNCHANGED <<transferVars, client>>
    BY <1>3, <1>4 DEF substituterVars, vars, transferVars
  <1>5. CASE StoreStep /\ UNCHANGED client
    BY <1>3, <1>5 DEF StoreStep, IndexReads, NixChanges, IndexInserts, IndexFails
  <1>6. ASSUME NEW k \in Fetcher,
               client[k].at = "idle" /\ FetchStarts(k) /\ UNCHANGED client
        PROVE  AskedOnce(n)'
    <2>1. k # n => fetch'[n] = fetch[n]
      BY <1>1, <1>6, StartsMove DEF FetchMoves, Elsewhere
    <2> QED
      BY <1>2, <1>3, <1>6, <2>1
  <1>7. ASSUME NEW k \in Fetcher, FetchStep(k) PROVE AskedOnce(n)'
    <2>1. UNCHANGED client
      BY <1>7 DEF FetchStep
    <2>2. CASE Transfers(k)
      <3>1. PeerStays(k) /\ (k # n => fetch'[n] = fetch[n])
        BY <2>2, TransferKeepsPeer, TransferMoves DEF FetchMoves, Elsewhere
      <3>2. fetch[k].at \notin Over
        BY <2>2 DEF Transfers, Connects, ConnectFails, Receives, AnswerLost,
           ServeLookup, ServeCheck, ServeStream, AsksCache, CacheHasPath,
           Downloads, Over
      <3> QED
        BY <1>2, <1>3, <2>1, <3>1, <3>2
    <2>3. CASE client[k].at # "fetching" /\ CommandRuns(k)
      <3>1. k # n => fetch'[n] = fetch[n]
        BY <2>3, CommandMoves DEF FetchMoves, Elsewhere
      <3>2. fetch[k].at \notin Over
        BY <2>3 DEF CommandRuns, QueryFails, FetchLooks, FetchLooksAgain,
           FetchChooses, FetchIndexes, FetchImports, KeepingFails, FetchReturns, Over
      <3>3. k = n => ~GoesThrough(n)
        BY <1>1, <2>3, <3>2 DEF ClientKnows, GoesThrough
      <3> QED
        BY <1>3, <2>1, <3>1, <3>3 DEF AskedOnce, GoesThrough
    <2> QED
      BY <1>7, <2>2, <2>3 DEF FetchStep
  <1>8. ASSUME NEW k \in Fetcher,
               \/ ClientRuns(k) \/ AsksNar(k) \/ NixGoesOn(k)
               \/ \E p \in Path : AsksNarinfo(k, p)
        PROVE  AskedOnce(n)'
    <2>1. CASE k # n
      <3>1. ClientMoves(k) /\ (UNCHANGED fetch \/ FetchMoves(k))
        BY <1>8, NarinfoMoves, NarMoves, PeersMoves, ProviderMoves, NixMoves,
           NarinfoAsked DEF ClientRuns, vars, transferVars
      <3>2. client'[n] = client[n] /\ fetch'[n] = fetch[n]
        BY <2>1, <3>1 DEF ClientMoves, FetchMoves, Elsewhere
      <3> QED
        BY <1>3, <3>2
    <2>2. CASE k = n /\ ClientRuns(k)
      BY <2>2, AskedByClient
    <2>3. CASE k = n /\ ~ClientRuns(k)
      <3>1. client[n] \in Client /\ client \in [Fetcher -> Client]
        BY <1>1 DEF ClientTyped
      <3>2. CASE AsksNar(n)
        BY <3>1, <3>2 DEF AsksNar, OnlyClient, AskedOnce, GoesThrough
      <3>3. CASE NixGoesOn(n)
        BY <3>1, <3>3 DEF NixGoesOn, NoClient, AskedOnce, GoesThrough
      <3>4. CASE \E p \in Path : AsksNarinfo(n, p)
        <4>1. \A p : [NoClient EXCEPT !.at = "narinfo", !.path = p].at = "narinfo"
          BY DEF NoClient
        <4> QED
          BY <3>1, <3>4, <4>1 DEF AsksNarinfo, AskedOnce, GoesThrough
      <3> QED
        BY <1>8, <2>3, <3>2, <3>3, <3>4
    <2> QED
      BY <2>1, <2>2, <2>3
  <1> QED
    BY <1>4, <1>5, <1>6, <1>7, <1>8 DEF SNext

\* Whichever providers go, come back and announce more while nix waits for a
\* NAR, no peer is asked for it twice (try_fetch_nar_from_peer).
THEOREM NoPeerIsAskedTwice == SSpec => []EachPeerAskedOnce
  <1> DEFINE Inv == \A n \in Fetcher : AskedOnce(n)
  <1>1. SInit => Inv
    <2>1. SInit => \A n \in Fetcher : client[n].at = "idle"
      BY DEF SInit, NoClient
    <2> QED
      BY <2>1 DEF AskedOnce, GoesThrough
  <1>2. SharingInv /\ Inv /\ [SNext]_substituterVars => Inv'
    BY AskedStep
  <1>3. Inv => EachPeerAskedOnce
    BY DEF AskedOnce, GoesThrough, EachPeerAskedOnce, PeersOnce, Over
  <1> HIDE DEF Inv
  <1> QED
    BY <1>1, <1>2, <1>3, SharingInvariance, PTL DEF SSpec

-----------------------------------------------------------------------------
(* Fetching implements NarFetch. *)

wantOf == [n \in Fetcher |-> fetch[n].want]

\* Where NarFetch sees each fetch.
Phases ==
    \A n \in Fetcher :
        /\ fetch[n].at = "idle" => phaseOf[n] = "idle"
        /\ fetch[n].at \in Held => phaseOf[n] = "held"
        /\ fetch[n].at = "ended" =>
               phaseOf[n] = IF fetch[n].result = "fetched" THEN "delivered" ELSE "failed"
        /\ fetch[n].at \notin Over \cup Held => phaseOf[n] = "asked"
        /\ fetch[n].at \in Held => heldOf[n] = <<fetch[n].path, fetch[n].data>>
        /\ fetch[n].at \notin Held => heldOf[n] = Null
        /\ wantOf[n] = fetch[n].want

LEMMA PhasesHold == Phases
  <1> SUFFICES ASSUME NEW n \in Fetcher
               PROVE  /\ fetch[n].at = "idle" => phaseOf[n] = "idle"
                      /\ fetch[n].at \in Held => phaseOf[n] = "held"
                      /\ fetch[n].at = "ended" =>
                             phaseOf[n] = IF fetch[n].result = "fetched"
                                            THEN "delivered" ELSE "failed"
                      /\ fetch[n].at \notin Over \cup Held => phaseOf[n] = "asked"
                      /\ fetch[n].at \in Held =>
                             heldOf[n] = <<fetch[n].path, fetch[n].data>>
                      /\ fetch[n].at \notin Held => heldOf[n] = Null
                      /\ wantOf[n] = fetch[n].want
    BY DEF Phases
  <1>1. phaseOf[n] =
            CASE fetch[n].at = "idle" -> "idle"
              [] fetch[n].at \in {"verified", "importing"} -> "held"
              [] fetch[n].at = "ended" ->
                     IF fetch[n].result = "fetched" THEN "delivered" ELSE "failed"
              [] OTHER -> "asked"
    BY DEF phaseOf
  <1>2. CASE fetch[n].at = "idle"
    BY <1>1, <1>2 DEF heldOf, wantOf, Held, Over
  <1>3. CASE fetch[n].at \in Held
    BY <1>1, <1>3 DEF heldOf, wantOf, Held, Over
  <1>4. CASE fetch[n].at = "ended"
    BY <1>1, <1>4 DEF heldOf, wantOf, Held, Over
  <1>5. CASE fetch[n].at \notin Over \cup Held
    BY <1>1, <1>5 DEF heldOf, wantOf, Held, Over
  <1> QED
    BY <1>2, <1>3, <1>4, <1>5 DEF Over

\* NarFetch sees a step of one fetch at that fetch only.
LEMMA SeenAt ==
    ASSUME NEW n \in Fetcher, Elsewhere(n)
    PROVE  /\ phaseOf' = [phaseOf EXCEPT ![n] = phaseOf'[n]]
           /\ heldOf' = [heldOf EXCEPT ![n] = heldOf'[n]]
           /\ wantOf' = [wantOf EXCEPT ![n] = wantOf'[n]]
  <1>1. /\ phaseOf = [k \in Fetcher |-> phaseOf[k]]
        /\ phaseOf' = [k \in Fetcher |-> phaseOf'[k]]
        /\ \A k \in Fetcher : k # n => phaseOf'[k] = phaseOf[k]
    BY DEF phaseOf, Elsewhere
  <1>2. /\ wantOf = [k \in Fetcher |-> wantOf[k]]
        /\ wantOf' = [k \in Fetcher |-> wantOf'[k]]
        /\ \A k \in Fetcher : k # n => wantOf'[k] = wantOf[k]
    BY DEF wantOf, Elsewhere
  <1>3. /\ heldOf = [k \in Fetcher |-> heldOf[k]]
        /\ heldOf' = [k \in Fetcher |-> heldOf'[k]]
        /\ \A k \in Fetcher : k # n => heldOf'[k] = heldOf[k]
    <2>1. \A k \in Fetcher : k # n => heldOf'[k] = heldOf[k]
      BY <1>1 DEF heldOf, Elsewhere
    <2> QED
      BY <2>1 DEF heldOf
  <1>4. ASSUME NEW f, NEW g, f = [k \in Fetcher |-> f[k]], g = [k \in Fetcher |-> g[k]],
               \A k \in Fetcher : k # n => g[k] = f[k]
        PROVE  g = [f EXCEPT ![n] = g[n]]
    BY <1>4
  <1> QED
    BY <1>1, <1>2, <1>3, <1>4

LEMMA NarFetchInit == SInit => Abstractly!NInit
  <1> SUFFICES ASSUME SInit PROVE Abstractly!NInit
    OBVIOUS
  <1>1. fetch = [n \in Fetcher |-> NoFetch] /\ had \in SUBSET (Path \X Content)
    BY DEF SInit, TInit, OnDisk, InCaches
  <1>2. \A n \in Fetcher : fetch[n].at = "idle" /\ fetch[n].want = Null
    BY <1>1 DEF NoFetch
  <1>3. \A n \in Fetcher : phaseOf[n] = "idle" /\ heldOf[n] = Null
    BY <1>2, PhasesHold DEF Phases, Held
  <1>4. phaseOf = [n \in Fetcher |-> "idle"]
    BY <1>3 DEF phaseOf
  <1>5. heldOf = [n \in Fetcher |-> Null]
    BY <1>3 DEF heldOf
  <1>6. [n \in Fetcher |-> fetch[n].want] = [n \in Fetcher |-> Null]
    BY <1>2
  <1> QED
    BY <1>1, <1>4, <1>5, <1>6 DEF Abstractly!NInit

\* Each step of a fetch is a step of NarFetch or none.
LEMMA FetchSeen ==
    ASSUME SharingInv, NEW n \in Fetcher, FetchMoves(n), UNCHANGED had
    PROVE  [Abstractly!NNext]_(Abstractly!nvars)
  <1>1. Phases /\ Phases'
    BY PhasesHold, PTL
  <1>2. /\ Elsewhere(n) /\ FetchKnows(n) /\ FetchKnows(n)'
    BY FetchState DEF FetchMoves
  <1>3. /\ phaseOf' = [phaseOf EXCEPT ![n] = phaseOf'[n]]
        /\ heldOf' = [heldOf EXCEPT ![n] = heldOf'[n]]
        /\ wantOf' = [wantOf EXCEPT ![n] = wantOf'[n]]
    BY <1>2, SeenAt
  <1>4. /\ phaseOf = [k \in Fetcher |-> phaseOf[k]]
        /\ heldOf = [k \in Fetcher |-> heldOf[k]]
        /\ wantOf = [k \in Fetcher |-> wantOf[k]]
    BY DEF phaseOf, heldOf, wantOf
  <1>5. ASSUME phaseOf'[n] = phaseOf[n], heldOf'[n] = heldOf[n], wantOf'[n] = wantOf[n]
        PROVE  UNCHANGED Abstractly!nvars
    <2>1. phaseOf' = phaseOf /\ heldOf' = heldOf /\ wantOf' = wantOf
      BY <1>3, <1>4, <1>5
    <2> QED
      BY <2>1 DEF Abstractly!nvars, wantOf
  <1>6. CASE Begins(n)
    <2>1. /\ phaseOf[n] \in {"idle", "delivered", "failed"} /\ phaseOf'[n] = "asked"
          /\ heldOf[n] = Null /\ heldOf'[n] = Null /\ wantOf'[n] = fetch'[n].want
      BY <1>1, <1>6 DEF Begins, Phases, Over, Held
    <2>2. heldOf' = heldOf
      BY <1>3, <1>4, <2>1
    <2>3. PICK c \in Content : c = fetch'[n].want
      BY <1>6 DEF Begins
    <2>4. Abstractly!Ask(n, c)
      BY <1>3, <2>1, <2>2, <2>3 DEF Abstractly!Ask, wantOf
    <2> QED
      BY <2>4 DEF Abstractly!NNext
  <1>7. CASE GoesOn(n)
    <2>1. /\ phaseOf'[n] = phaseOf[n] /\ heldOf'[n] = heldOf[n] /\ wantOf'[n] = wantOf[n]
      BY <1>1, <1>7 DEF GoesOn, Phases
    <2> QED
      BY <1>5, <2>1
  <1>8. CASE Obtains(n)
    <2> DEFINE x == <<fetch'[n].path, fetch'[n].data>>
    <2>1. /\ phaseOf[n] = "asked" /\ phaseOf'[n] = "held"
          /\ heldOf'[n] = x /\ wantOf'[n] = wantOf[n] /\ wantOf[n] = fetch'[n].want
      BY <1>1, <1>8 DEF Obtains, Phases
    <2>2. fetch'[n].data = fetch'[n].want /\ <<fetch'[n].path, fetch'[n].want>> \in had
      BY <1>2, <1>8 DEF FetchKnows, Genuine, Obtains, Held
    <2>3. x \in had /\ x[2] = wantOf[n]
      BY <2>1, <2>2
    <2> HIDE DEF x
    <2>4. wantOf' = wantOf
      BY <1>3, <1>4, <2>1
    <2>5. Abstractly!Obtain(n)
      BY <1>3, <2>1, <2>3, <2>4 DEF Abstractly!Obtain, wantOf
    <2> QED
      BY <2>5 DEF Abstractly!NNext
  <1>9. CASE Keeps(n)
    <2>1. /\ phaseOf'[n] = phaseOf[n] /\ heldOf'[n] = heldOf[n] /\ wantOf'[n] = wantOf[n]
      BY <1>1, <1>9 DEF Keeps, Phases
    <2> QED
      BY <1>5, <2>1
  <1>10. CASE Delivers(n)
    <2>1. /\ phaseOf[n] = "held" /\ phaseOf'[n] = "delivered"
          /\ heldOf'[n] = Null /\ wantOf'[n] = Null
      BY <1>1, <1>10 DEF Delivers, Phases, Held
    <2>2. Abstractly!Deliver(n)
      BY <1>3, <2>1 DEF Abstractly!Deliver, Abstractly!Ends, wantOf
    <2> QED
      BY <2>2 DEF Abstractly!NNext
  <1>11. CASE GivesUp(n)
    <2>1. /\ phaseOf[n] \in {"asked", "held"} /\ phaseOf'[n] = "failed"
          /\ heldOf'[n] = Null /\ wantOf'[n] = Null
      BY <1>1, <1>11 DEF GivesUp, Phases, Held
    <2>2. Abstractly!GiveUp(n)
      BY <1>3, <2>1 DEF Abstractly!GiveUp, Abstractly!Ends, wantOf
    <2> QED
      BY <2>2 DEF Abstractly!NNext
  <1>12. CASE Forgets(n)
    <2>1. phaseOf'[n] = "idle" /\ heldOf'[n] = Null /\ wantOf'[n] = Null
      BY <1>1, <1>12 DEF Forgets, Phases, Held
    <2>2. CASE fetch[n].at = "idle"
      <3>1. phaseOf[n] = "idle" /\ heldOf[n] = Null /\ wantOf[n] = Null
        BY <1>1, <1>2, <2>2 DEF Phases, Held, FetchKnows, Over
      <3> QED
        BY <1>5, <2>1, <3>1
    <2>3. CASE fetch[n].at = "ended"
      <3>1. phaseOf[n] \in {"delivered", "failed"}
        BY <1>1, <2>3 DEF Phases
      <3>2. Abstractly!Forget(n)
        BY <1>3, <2>1, <3>1 DEF Abstractly!Forget, Abstractly!Ends, wantOf
      <3> QED
        BY <3>2 DEF Abstractly!NNext
    <2> QED
      BY <1>12, <2>2, <2>3 DEF Forgets, Over
  <1> QED
    BY <1>6, <1>7, <1>8, <1>9, <1>10, <1>11, <1>12 DEF FetchMoves

\* Every step of the system is a step of NarFetch or none.
LEMMA NarFetchStep ==
    ASSUME SharingInv, [SNext]_substituterVars
    PROVE  [Abstractly!NNext]_(Abstractly!nvars)
  <1>1. CASE \E n \in Fetcher : FetchMoves(n) /\ UNCHANGED had
    BY <1>1, FetchSeen
  <1>2. CASE UNCHANGED fetch
    <2>1. UNCHANGED <<phaseOf, heldOf, [n \in Fetcher |-> fetch[n].want]>>
      BY <1>2 DEF phaseOf, heldOf
    <2>2. CASE UNCHANGED had
      BY <2>1, <2>2 DEF Abstractly!nvars
    <2>3. ASSUME NEW p \in Path, NEW c \in Content, had' = had \cup {<<p, c>>}
          PROVE  Abstractly!NNext
      <3>1. Abstractly!Appear(p, c)
        BY <2>1, <2>3 DEF Abstractly!Appear
      <3> QED
        BY <3>1 DEF Abstractly!NNext
    <2> QED
      BY <1>2, <2>2, <2>3, StepCases, <1>1
  <1> QED
    BY <1>1, <1>2, StepCases

\* Whatever the peer's index and store, the caches, the retries, nix and other
\* fetches do, a fetch obtains what it was asked for under a path that had it,
\* or fails, and once it has obtained it nobody is asked any more, whether it
\* is delivered then or indexing or importing it fails (fetch_nar with
\* with_retry, and what its callers do with the NAR).
THEOREM FetchRefinement == SSpec => ImplementsFetch
  BY NarFetchInit, NarFetchStep, SharingInvariance, PTL
  DEF SSpec, ImplementsFetch, Abstractly!NSpec

=============================================================================
