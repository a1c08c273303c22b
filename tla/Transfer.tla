------------------------------ MODULE Transfer ------------------------------
(***************************************************************************)
(* Fetching a NAR by its hash from a peer (transfer.rs, node.rs,           *)
(* main.rs fetch_nar_cmd, retry.rs): the fetcher picks a provider from the *)
(* gossip cache, connects, asks, verifies, indexes and imports; the peer   *)
(* looks the hash up, looks whether the path is there and serializes it,   *)
(* or asks the HTTP caches.  Nix changes the stores meanwhile.             *)
(*                                                                         *)
(* fetch[n] is a fetch of node n together with the task that serves it at  *)
(* the peer.  Both see only their own node's index and store.  A hash      *)
(* stands for its content; HashIndex has the other key and the cleanup.    *)
(* Connections that fail are noticed when they are opened or when the      *)
(* answer is read.  Delays between attempts are left out.  Workers import  *)
(* before they index: HashIndex has that order.                            *)
(***************************************************************************)
EXTENDS Gossip

CONSTANTS Host,        \* nodes whose stores nix changes and that index
          Fetcher,     \* nodes that fetch
          Proxy,       \* nodes with HTTP caches to fall back on
          HttpCaches,  \* in order of priority, what each may have for a path
          MaxRetries,  \* max_retries
          MaxChanges,  \* bound: changes nix makes to the stores
          Null         \* nothing

ASSUME TransferAssumption ==
    /\ Host \subseteq Node /\ Fetcher \subseteq Node /\ Proxy \subseteq Node
    /\ Null \notin Content
    /\ HttpCaches \in Seq([Path -> SUBSET Content])
    /\ MaxRetries \in Nat /\ MaxChanges \in Nat

VARIABLES
    disk,      \* disk[n][p]: the content of p in n's nix store, or Null
    index,     \* index[n]: the rows of n's hash index
    indexing,  \* indexing[n]: the row n's indexing task has computed, or none
    fetch,     \* fetch[n]: the fetch of node n
    changes,   \* how often nix has changed a store
    \* history, read by no operation
    had        \* what has been in a store or may be in an HTTP cache

transferVars == <<disk, index, indexing, fetch, changes, had>>
vars == <<gossipVars, transferVars>>

Row == [path: Path, blake: Content]

Stage == {"idle", "querying", "waiting", "choosing", "connecting", "lookup",
          "check", "stream", "narinfo", "download", "reply", "verified",
          "importing", "ended"}

\* cache is the HTTP cache the peer asks; data what a narinfo promises, then
\* what is sent; answer what the peer sends ("broken": the stream ends early);
\* result what the fetch returns.
Fetch ==
    [at: Stage, want: Content \cup {Null}, peer: Node \cup {Null},
     tries: 0 .. MaxRetries, path: Path \cup {Null},
     cache: 0 .. Len(HttpCaches), data: Content \cup {Null},
     answer: {"none", "notFound", "broken", "data"},
     result: {"none", "fetched", "noProviders", "panic", "notFound",
              "mismatch", "exhausted", "failed"}]

NoFetch ==
    [at |-> "idle", want |-> Null, peer |-> Null, tries |-> 0, path |-> Null,
     cache |-> 0, data |-> Null, answer |-> "none", result |-> "none"]

TTypeOK ==
    /\ GTypeOK
    /\ disk \in [Node -> [Path -> Content \cup {Null}]]
    /\ index \in [Node -> SUBSET Row]
    /\ \A n \in Node : indexing[n] \in SUBSET Row /\ Cardinality(indexing[n]) <= 1
    /\ fetch \in [Fetcher -> Fetch]
    /\ changes \in 0 .. MaxChanges
    /\ had \subseteq Path \X Content

OnDisk == {x \in Path \X Content : \E n \in Node : disk[n][x[1]] = x[2]}
InCaches == {x \in Path \X Content :
                \E i \in DOMAIN HttpCaches : x[2] \in HttpCaches[i][x[1]]}

TInit ==
    /\ GInit
    /\ disk \in [Node -> [Path -> Content \cup {Null}]]
    /\ \A n \in Node \ Host : disk[n] = [p \in Path |-> Null]
    /\ index = [n \in Node |-> {}]
    /\ indexing = [n \in Node |-> {}]
    /\ fetch = [n \in Fetcher |-> NoFetch]
    /\ changes = 0
    /\ had = OnDisk \cup InCaches

\* INSERT OR REPLACE: both columns are unique.
Inserted(rows, row) ==
    {r \in rows : r.path # row.path /\ r.blake # row.blake} \cup {row}

\* The fetch of n goes on at stage at.
Goes(n, at) == fetch' = [fetch EXCEPT ![n].at = at]

Ends(n, result) ==
    fetch' = [fetch EXCEPT ![n] = [NoFetch EXCEPT !.at = "ended", !.result = result]]

Answers(n, answer, data) ==
    fetch' = [fetch EXCEPT ![n].at = "reply", ![n].answer = answer,
                           ![n].data = data, ![n].cache = 0]

Again(n, tries) ==
    fetch' = [fetch EXCEPT ![n] = [NoFetch EXCEPT
                 !.at = "connecting", !.want = fetch[n].want,
                 !.peer = fetch[n].peer, !.tries = tries]]

\* Two seeded faults: one attempt too many, and attempts that are not counted.
RetriesOnceMore(n) ==
    IF fetch[n].tries <= MaxRetries
      THEN Again(n, fetch[n].tries + 1) ELSE Ends(n, "exhausted")

RetriesForEver(n) == Again(n, fetch[n].tries)

\* with_retry: another attempt, or the last error.
Retries(n) ==
    IF fetch[n].tries < MaxRetries
      THEN Again(n, fetch[n].tries + 1) ELSE Ends(n, "exhausted")

OnlyFetch == UNCHANGED <<gossipVars, disk, index, indexing, changes, had>>

-----------------------------------------------------------------------------
(* Seeded faults, used to show that the properties can fail. *)

\* The data is not compared with the hash asked for.
ReceiveUnverified(n) ==
    /\ fetch[n].at = "reply"
    /\ \/ fetch[n].answer = "notFound" /\ Ends(n, "notFound")
       \/ fetch[n].answer = "broken" /\ Retries(n)
       \/ fetch[n].answer = "data" /\ Goes(n, "verified")
    /\ OnlyFetch

\* The list that was just found not empty is taken to stay so.
LooksOnce(n) ==
    /\ fetch[n].at = "waiting"
    /\ Goes(n, "choosing")
    /\ OnlyFetch

\* A NAR whose path is there by now is fetched once more.
ImportsAgain(n) ==
    /\ fetch[n].at = "importing"
    /\ IF disk[n][fetch[n].path] = Null
         THEN /\ disk' = [disk EXCEPT ![n][fetch[n].path] = fetch[n].data]
              /\ had' = had \cup {<<fetch[n].path, fetch[n].data>>}
              /\ Ends(n, "fetched")
         ELSE Retries(n) /\ UNCHANGED <<disk, had>>
    /\ UNCHANGED <<gossipVars, index, indexing, changes>>

-----------------------------------------------------------------------------
(* Indexing: index_store_path *)

IndexReads(n, p) ==
    /\ indexing[n] = {}
    /\ disk[n][p] # Null
    /\ indexing' = [indexing EXCEPT ![n] = {[path |-> p, blake |-> disk[n][p]]}]
    /\ UNCHANGED <<gossipVars, disk, index, fetch, changes, had>>

IndexInserts(n) ==
    /\ \E row \in indexing[n] :
           /\ index' = [index EXCEPT ![n] = Inserted(@, row)]
           /\ Announce(n, row.blake, row.path)
    /\ indexing' = [indexing EXCEPT ![n] = {}]
    /\ UNCHANGED <<neighbors, providers, churn, missed, disk, fetch, changes, had>>

\* The path or the table cannot be read or written: nothing is announced.
IndexFails(n) ==
    /\ indexing[n] # {}
    /\ indexing' = [indexing EXCEPT ![n] = {}]
    /\ UNCHANGED <<gossipVars, disk, index, fetch, changes, had>>

-----------------------------------------------------------------------------
(* Fetching *)

\* fetch --from, build-push and workers: the peer is given.
FetchFrom(n, c, m) ==
    /\ fetch[n].at \in {"idle", "ended"}
    /\ m # n
    /\ fetch' = [fetch EXCEPT ![n] = [NoFetch EXCEPT !.at = "connecting",
                                                     !.want = c, !.peer = m]]
    /\ OnlyFetch

\* fetch without a peer: a Want is broadcast, which nobody answers.
FetchQueries(n, c) ==
    /\ fetch[n].at \in {"idle", "ended"}
    /\ fetch' = [fetch EXCEPT ![n] = [NoFetch EXCEPT !.at = "querying", !.want = c]]
    /\ OnlyFetch

QueryFails(n) ==
    /\ fetch[n].at = "querying"
    /\ Ends(n, "failed")
    /\ OnlyFetch

\* The cache is read now, again after two seconds if it had none, and once
\* more to take the first.
FetchLooks(n) ==
    /\ fetch[n].at = "querying"
    /\ Goes(n, IF providers[n][fetch[n].want] = <<>> THEN "waiting" ELSE "choosing")
    /\ OnlyFetch

FetchLooksAgain(n) ==
    /\ fetch[n].at = "waiting"
    /\ IF providers[n][fetch[n].want] = <<>>
         THEN Ends(n, "noProviders") ELSE Goes(n, "choosing")
    /\ OnlyFetch

FetchChooses(n) ==
    /\ fetch[n].at = "choosing"
    /\ LET list == providers[n][fetch[n].want] IN
       IF list = <<>> THEN Ends(n, "panic")
       ELSE fetch' = [fetch EXCEPT ![n].at = "connecting", ![n].peer = Head(list).peer]
    /\ OnlyFetch

Connects(n) ==
    /\ fetch[n].at = "connecting"
    /\ Goes(n, "lookup")
    /\ OnlyFetch

ConnectFails(n) ==
    /\ fetch[n].at = "connecting"
    /\ Retries(n)
    /\ OnlyFetch

\* The peer's answer, or the end of its stream, arrives.  Only the content is
\* verified.  "not found" is not tried again.
Receives(n) ==
    /\ fetch[n].at = "reply"
    /\ \/ fetch[n].answer = "notFound" /\ Ends(n, "notFound")
       \/ fetch[n].answer = "broken" /\ Retries(n)
       \/ /\ fetch[n].answer = "data"
          /\ IF fetch[n].data = fetch[n].want
               THEN Goes(n, "verified") ELSE Ends(n, "mismatch")
    /\ OnlyFetch

\* The connection closes before the answer is read to its end.
AnswerLost(n) ==
    /\ fetch[n].at = "reply"
    /\ Retries(n)
    /\ OnlyFetch

FetchIndexes(n) ==
    /\ fetch[n].at = "verified"
    /\ index' = [index EXCEPT ![n] =
                    Inserted(@, [path |-> fetch[n].path, blake |-> fetch[n].want])]
    /\ Goes(n, "importing")
    /\ UNCHANGED <<gossipVars, disk, indexing, changes, had>>

FetchImports(n) ==
    /\ fetch[n].at = "importing"
    /\ disk[n][fetch[n].path] = Null
    /\ disk' = [disk EXCEPT ![n][fetch[n].path] = fetch[n].data]
    /\ had' = had \cup {<<fetch[n].path, fetch[n].data>>}
    /\ Ends(n, "fetched")
    /\ UNCHANGED <<gossipVars, index, indexing, changes>>

\* The row cannot be inserted, or nix-store --restore fails, as it does if the
\* path exists: an error, and no other attempt.
KeepingFails(n) ==
    /\ fetch[n].at \in {"verified", "importing"}
    /\ Ends(n, "failed")
    /\ OnlyFetch

\* The fetch command keeps the row and drops the data.
FetchReturns(n) ==
    /\ fetch[n].at = "importing"
    /\ Ends(n, "fetched")
    /\ OnlyFetch

-----------------------------------------------------------------------------
(* Serving: handle_nar_by_blake3 at the peer *)

ServeLookup(n) ==
    /\ fetch[n].at = "lookup"
    /\ LET found == {r \in index[fetch[n].peer] : r.blake = fetch[n].want} IN
       \/ found = {} /\ Answers(n, "notFound", Null)
       \/ \E r \in found :
              fetch' = [fetch EXCEPT ![n].at = "check", ![n].path = r.path]
    /\ OnlyFetch

ServeCheck(n) ==
    /\ fetch[n].at = "check"
    /\ \/ disk[fetch[n].peer][fetch[n].path] # Null /\ Goes(n, "stream")
       \/ /\ disk[fetch[n].peer][fetch[n].path] = Null
          /\ IF fetch[n].peer \in Proxy
               THEN Goes(n, "narinfo") ELSE Answers(n, "notFound", Null)
    /\ OnlyFetch

\* The header has been sent when the path is read, with the size the row has:
\* the stream ends early if the path is gone or its content is shorter now.
ServeStream(n) ==
    /\ fetch[n].at = "stream"
    /\ LET c == disk[fetch[n].peer][fetch[n].path] IN
       \/ c # Null /\ Answers(n, "data", c)
       \/ c # fetch[n].want /\ Answers(n, "broken", Null)
    /\ OnlyFetch

\* fetch_narinfo: the caches are asked in order.  One that cannot be reached
\* or does not have the path is passed over; a narinfo that cannot be read, or
\* is of another path, ends the search.
AsksCache(n) ==
    /\ fetch[n].at = "narinfo"
    /\ LET i == fetch[n].cache + 1 IN
       \/ i \in DOMAIN HttpCaches /\ fetch' = [fetch EXCEPT ![n].cache = i]
       \/ Answers(n, "broken", Null)
    /\ OnlyFetch

CacheHasPath(n) ==
    /\ fetch[n].at = "narinfo"
    /\ fetch[n].cache # 0
    /\ \E c \in HttpCaches[fetch[n].cache][fetch[n].path] :
           fetch' = [fetch EXCEPT ![n].at = "download", ![n].data = c]
    /\ OnlyFetch

\* The NAR is another request to the same cache, which may have another one by
\* now.  It must have the SHA256 of the narinfo and the BLAKE3 of the request.
Downloads(n) ==
    /\ fetch[n].at = "download"
    /\ \/ /\ fetch[n].data = fetch[n].want
          /\ fetch[n].want \in HttpCaches[fetch[n].cache][fetch[n].path]
          /\ index' = [index EXCEPT ![fetch[n].peer] =
                 Inserted(@, [path |-> fetch[n].path, blake |-> fetch[n].want])]
          /\ Answers(n, "data", fetch[n].want)
       \/ Answers(n, "broken", Null) /\ UNCHANGED index
    /\ UNCHANGED <<gossipVars, disk, indexing, changes, had>>

-----------------------------------------------------------------------------
(* The nix store, which the program does not own *)

NixChanges(n, p, c) ==
    /\ changes < MaxChanges
    /\ disk[n][p] # c
    /\ disk' = [disk EXCEPT ![n][p] = c]
    /\ changes' = changes + 1
    /\ had' = IF c = Null THEN had ELSE had \cup {<<p, c>>}
    /\ UNCHANGED <<gossipVars, index, indexing, fetch>>

-----------------------------------------------------------------------------
FetchStarts(n) ==
    \E c \in Content : FetchQueries(n, c) \/ \E m \in Node : FetchFrom(n, c, m)

\* fetch_nar: attempts, at both ends.
Transfers(n) ==
    \/ Connects(n) \/ ConnectFails(n) \/ Receives(n) \/ AnswerLost(n)
    \/ ServeLookup(n) \/ ServeCheck(n) \/ ServeStream(n)
    \/ AsksCache(n) \/ CacheHasPath(n) \/ Downloads(n)

\* What the command does before and after it.
CommandRuns(n) ==
    \/ QueryFails(n) \/ FetchLooks(n) \/ FetchLooksAgain(n) \/ FetchChooses(n)
    \/ FetchIndexes(n) \/ FetchImports(n) \/ KeepingFails(n) \/ FetchReturns(n)

StoreStep ==
    \/ \E n \in Host, p \in Path :
           IndexReads(n, p) \/ \E c \in Content \cup {Null} : NixChanges(n, p, c)
    \/ \E n \in Host : IndexInserts(n) \/ IndexFails(n)

TNext ==
    \/ GossipStep /\ UNCHANGED transferVars
    \/ StoreStep
    \/ \E n \in Fetcher : FetchStarts(n) \/ Transfers(n) \/ CommandRuns(n)

TSpec == TInit /\ [][TNext]_vars

\* A fetch and the task that serves it run on; connections either come up
\* and deliver or fail.
TFairSpec ==
    TSpec /\ \A n \in Fetcher : WF_vars(Transfers(n) \/ CommandRuns(n))

-----------------------------------------------------------------------------
(* Properties *)

\* A fetch that succeeds hands on what was asked for, under a path that had
\* this content, although the peer's index is older than its store, the store
\* changes while it is read, the cache may have something else, and only the
\* content is verified.
FetchIsGenuine ==
    \A n \in Fetcher : fetch[n].at \in {"verified", "importing"} =>
        /\ fetch[n].data = fetch[n].want
        /\ <<fetch[n].path, fetch[n].want>> \in had

\* The fetch is about to take the first provider of an empty list.
Stranded(n) == fetch[n].at = "choosing" /\ providers[n][fetch[n].want] = <<>>

\* The fetch command takes the first provider of a list it reads again after
\* it found it not empty (fetch_nar_cmd).  It panics for one reason only: after
\* it found providers and before it takes one, the last of them, a neighbor
\* until then, goes.
PanicsOnlyOnLoss ==
    [][\A n \in Fetcher :
          /\ fetch'[n].result = "panic" => fetch[n].result = "panic" \/ Stranded(n)
          /\ Stranded(n)' => \/ Stranded(n)
                             \/ /\ fetch[n].at = "choosing"
                                /\ \E m \in neighbors[n] \ neighbors'[n] :
                                       Peers(providers[n][fetch[n].want]) = {m}]_vars

\* What of a fetch NarFetch speaks of.
phaseOf ==
    [n \in Fetcher |->
        CASE fetch[n].at = "idle" -> "idle"
          [] fetch[n].at \in {"verified", "importing"} -> "held"
          [] fetch[n].at = "ended" ->
                 IF fetch[n].result = "fetched" THEN "delivered" ELSE "failed"
          [] OTHER -> "asked"]

heldOf ==
    [n \in Fetcher |->
        IF phaseOf[n] = "held" THEN <<fetch[n].path, fetch[n].data>> ELSE Null]

Abstractly == INSTANCE NarFetch WITH
    phase <- phaseOf, held <- heldOf, want <- [n \in Fetcher |-> fetch[n].want]

\* Fetching implements NarFetch: whatever the peer's index and store, the
\* caches, the retries and nix do, a fetch holds what it was asked for under a
\* path that had it or fails, and once it holds it nobody is asked any more,
\* not even if indexing or importing it fails (fetch_nar with with_retry, and
\* what its callers do with the NAR).
ImplementsFetch == Abstractly!NSpec

\* A fetch ends, whatever fails and however often.
FetchEnds ==
    \A n \in Fetcher : fetch[n].at # "idle" ~> fetch[n].at = "ended"

=============================================================================
