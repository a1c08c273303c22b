----------------------------- MODULE Substituter -----------------------------
(***************************************************************************)
(* The HTTP binary cache that nix asks for paths (substituter.rs): a       *)
(* narinfo from the node's index or the provider cache, then the NAR from  *)
(* the node's store or, as a fetch of Transfer, from a peer.               *)
(*                                                                         *)
(* client[n] is one request after the other of nix at node n together with *)
(* the task that answers it.  Requests without a body (HEAD), for other    *)
(* URLs and malformed ones are left out: they read the same state or none. *)
(* A node either fetches for a command or answers nix at a time (a bound). *)
(***************************************************************************)
EXTENDS Transfer

VARIABLE client   \* client[n]: what nix asks node n, and where the answer is

substituterVars == <<vars, client>>

ClientStage ==
    {"idle", "narinfo", "gossip", "offered", "nar", "exists", "serve", "peers",
     "trying", "fetching", "answered"}

\* url is the BLAKE3 of an offer, Null if it is all zeros; list the providers
\* not yet asked.
Client ==
    [at: ClientStage, path: Path \cup {Null}, url: Content \cup {Null},
     list: Seq(ProviderInfo), reply: {"none", "nar", "notFound", "cut"}]

NoClient == [at |-> "idle", path |-> Null, url |-> Null, list |-> <<>>,
             reply |-> "none"]

STypeOK == TTypeOK /\ client \in [Fetcher -> Client]

SInit == TInit /\ client = [n \in Fetcher |-> NoClient]

OnlyClient(n, at) ==
    /\ client' = [client EXCEPT ![n].at = at]
    /\ UNCHANGED vars

Replies(n, reply) ==
    client' = [client EXCEPT ![n] =
                   [NoClient EXCEPT !.at = "answered", !.reply = reply]]

-----------------------------------------------------------------------------
(* nix *)

AsksNarinfo(n, p) ==
    /\ client[n].at = "idle" /\ fetch[n].at \in {"idle", "ended"}
    /\ client' = [client EXCEPT ![n] = [NoClient EXCEPT !.at = "narinfo", !.path = p]]
    /\ fetch' = [fetch EXCEPT ![n] = NoFetch]
    /\ OnlyFetch

\* Any time after the offer.
AsksNar(n) ==
    /\ client[n].at = "offered"
    /\ OnlyClient(n, "nar")

NixGoesOn(n) ==
    /\ client[n].at \in {"offered", "answered"}
    /\ client' = [client EXCEPT ![n] = NoClient]
    /\ UNCHANGED vars

-----------------------------------------------------------------------------
(* handle_narinfo *)

Offers(n, c) ==
    /\ client' = [client EXCEPT ![n].at = "offered", ![n].url = c]
    /\ UNCHANGED vars

LooksUpPath(n) ==
    /\ client[n].at = "narinfo"
    /\ LET found == {r \in index[n] : r.path = client[n].path} IN
       \/ \E r \in found : Offers(n, r.blake)
       \/ found = {} /\ OnlyClient(n, "gossip")

Listed(n, p) ==
    \E c \in Content : \E i \in DOMAIN providers[n][c] : providers[n][c][i].path = p

\* try_find_via_gossip: a provider of the path.  The hash it is listed under
\* is not used, and no row has the hash of zeros that is offered instead.
ScansProviders(n) ==
    /\ client[n].at = "gossip"
    /\ \/ Listed(n, client[n].path) /\ Offers(n, Null)
       \/ /\ ~Listed(n, client[n].path)
          /\ Replies(n, "notFound")
          /\ UNCHANGED vars

-----------------------------------------------------------------------------
(* handle_nar *)

\* The path of a NAR is the one the index has now.
LooksUpNar(n) ==
    /\ client[n].at = "nar"
    /\ LET found == {r \in index[n] : r.blake = client[n].url} IN
       \/ \E r \in found :
              client' = [client EXCEPT ![n].at = "exists", ![n].path = r.path]
       \/ found = {} /\ Replies(n, "notFound")
    /\ UNCHANGED vars

ChecksPath(n) ==
    /\ client[n].at = "exists"
    /\ OnlyClient(n, IF disk[n][client[n].path] # Null THEN "serve" ELSE "peers")

\* The header with the row's size is sent before the path is read, and what is
\* read is not compared with anything.
ServesPath(n) ==
    /\ client[n].at = "serve"
    /\ LET c == disk[n][client[n].path] IN
       \/ c # Null /\ Replies(n, "nar")
       \/ c # client[n].url /\ Replies(n, "cut")
    /\ UNCHANGED vars

\* try_fetch_nar_from_peer: the providers listed now, one after the other.
ReadsProviders(n) ==
    /\ client[n].at = "peers"
    /\ client' = [client EXCEPT ![n].at = "trying",
                                ![n].list = providers[n][client[n].url]]
    /\ UNCHANGED vars

\* Seeded fault: a provider that fails is tried again.
TriesSameProvider(n) ==
    /\ client[n].at = "trying"
    /\ client[n].list # <<>>
    /\ client' = [client EXCEPT ![n].at = "fetching"]
    /\ fetch' = [fetch EXCEPT ![n] = [NoFetch EXCEPT
                    !.at = "connecting", !.want = client[n].url,
                    !.peer = Head(client[n].list).peer]]
    /\ OnlyFetch

TriesProvider(n) ==
    /\ client[n].at = "trying"
    /\ client[n].list # <<>>
    /\ client' = [client EXCEPT ![n].at = "fetching", ![n].list = Tail(@)]
    /\ fetch' = [fetch EXCEPT ![n] = [NoFetch EXCEPT
                    !.at = "connecting", !.want = client[n].url,
                    !.peer = Head(client[n].list).peer]]
    /\ OnlyFetch

\* What a peer sent is handed on and not indexed.
ProviderDelivers(n) ==
    /\ client[n].at = "fetching"
    /\ fetch[n].at = "verified"
    /\ Ends(n, "fetched")
    /\ Replies(n, "nar")
    /\ OnlyFetch

ProviderFails(n) ==
    /\ client[n].at = "fetching"
    /\ fetch[n].at = "ended"
    /\ OnlyClient(n, "trying")

NoProviderLeft(n) ==
    /\ client[n].at = "trying"
    /\ client[n].list = <<>>
    /\ Replies(n, "notFound")
    /\ UNCHANGED vars

-----------------------------------------------------------------------------
ClientRuns(n) ==
    \/ LooksUpPath(n) \/ ScansProviders(n)
    \/ LooksUpNar(n) \/ ChecksPath(n) \/ ServesPath(n) \/ ReadsProviders(n)
    \/ TriesProvider(n) \/ ProviderDelivers(n) \/ ProviderFails(n)
    \/ NoProviderLeft(n)

\* The rest of Transfer: what a peer sends for nix is not the command's.
FetchStep(n) ==
    /\ \/ Transfers(n)
       \/ client[n].at # "fetching" /\ CommandRuns(n)
    /\ UNCHANGED client

SNext ==
    \/ GossipStep /\ UNCHANGED <<transferVars, client>>
    \/ StoreStep /\ UNCHANGED client
    \/ \E n \in Fetcher :
           \/ client[n].at = "idle" /\ FetchStarts(n) /\ UNCHANGED client
           \/ FetchStep(n) \/ ClientRuns(n) \/ AsksNar(n) \/ NixGoesOn(n)
           \/ \E p \in Path : AsksNarinfo(n, p)

SSpec == SInit /\ [][SNext]_substituterVars

\* As in Transfer; the task that answers nix runs on.  nix owes nothing.
SFairSpec ==
    /\ SSpec
    /\ \A n \in Fetcher : /\ WF_substituterVars(FetchStep(n))
                          /\ WF_substituterVars(ClientRuns(n))

-----------------------------------------------------------------------------
(* Properties *)

\* While nix waits for a NAR no peer is asked for it a second time, retries
\* aside: whatever providers go, come back and announce since the list was read,
\* those still to be asked are different peers, and none is the one asked now
\* (try_fetch_nar_from_peer).
EachPeerAskedOnce ==
    \A n \in Fetcher : client[n].at \in {"trying", "fetching"} =>
        LET list == client[n].list IN
        /\ \A i, k \in DOMAIN list : list[i].peer = list[k].peer => i = k
        /\ fetch[n].at \notin {"idle", "ended"} => fetch[n].peer \notin Peers(list)

\* nix waits for no answer for ever, whichever peers fail, go or come while
\* one after the other is asked (try_fetch_nar_from_peer).
NixIsAnswered ==
    \A n \in Fetcher :
        client[n].at \notin {"idle", "offered"} ~> client[n].at \in {"answered", "offered"}

=============================================================================
