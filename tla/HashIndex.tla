------------------------------ MODULE HashIndex ------------------------------
(***************************************************************************)
(* A node's hash index (hash_index.rs) with the tasks that fill it         *)
(* (node.rs, builder.rs, transfer.rs), the periodic cleanup (gc.rs), and   *)
(* the nix store under them, which nix changes at any time.                *)
(*                                                                         *)
(* The index is one SQLite table behind a mutex; each statement on it is   *)
(* atomic, but a task computes the hashes before it inserts the row, and   *)
(* the cleanup lists the rows, looks at the disk and deletes under three   *)
(* separate locks.                                                         *)
(*                                                                         *)
(* A hash stands for the content it was computed from: blake and sha are   *)
(* contents.  Size, references and deriver follow from the rest of a row   *)
(* and are left out.  A fetched NAR's hashes are taken to agree.           *)
(***************************************************************************)
EXTENDS FiniteSets

CONSTANTS Path,     \* store paths
          Content,  \* contents a store path can have
          Task,     \* tasks that index and fetch concurrently
          Null      \* nothing

ASSUME IndexAssumption == Null \notin Content /\ Null \notin Path

VARIABLES
    disk,      \* disk[p]: the content of p in the nix store, or Null
    rows,      \* the rows of the table
    work,      \* what each task has computed so far
    cleaning,  \* whether a cleanup pass is running
    listed,    \* entries the pass has still to look at
    doomed,    \* the entry found missing, about to be deleted, or Null
    \* history of the running pass, read by no operation
    missing,   \* paths that were missing during the whole pass so far
    standing,  \* rows that have stood since the pass listed them
    undeleted  \* entries the pass could not delete

storeVars == <<disk, missing>>
cleanVars == <<cleaning, listed, doomed, undeleted>>
vars == <<disk, rows, work, cleaning, listed, doomed, missing, standing, undeleted>>

Row == [path: Path, blake: Content, sha: Content]

ASSUME RowAssumption == Null \notin Row

Idle == [at |-> "idle", path |-> Null, blake |-> Null, sha |-> Null]

HTypeOK ==
    /\ disk \in [Path -> Content \cup {Null}]
    /\ rows \in SUBSET Row
    /\ work \in [Task -> [at: {"idle", "queried", "hashed", "fetched", "indexed"},
                          path: Path \cup {Null},
                          blake: Content \cup {Null},
                          sha: Content \cup {Null}]]
    /\ \A t \in Task : work[t].at # "idle" =>
           /\ work[t].path # Null /\ work[t].sha # Null
           /\ work[t].at # "queried" => work[t].blake # Null
    /\ cleaning \in BOOLEAN
    /\ listed \in SUBSET Row
    /\ doomed \in Row \cup {Null}
    /\ missing \in SUBSET Path
    /\ standing \in SUBSET Row
    /\ undeleted \in SUBSET Row

\* A new database over any store.
HInit ==
    /\ disk \in [Path -> Content \cup {Null}]
    /\ rows = {}
    /\ work = [t \in Task |-> Idle]
    /\ cleaning = FALSE
    /\ listed = {}
    /\ doomed = Null
    /\ missing = {}
    /\ standing = {}
    /\ undeleted = {}

-----------------------------------------------------------------------------
(* Helpers *)

\* Rows that share a key with e: each of the three columns is unique.
Conflicting(e) ==
    {r \in rows : r.path = e.path \/ r.blake = e.blake \/ r.sha = e.sha}

RowOf(w) == [path |-> w.path, blake |-> w.blake, sha |-> w.sha]

Work(t, at, p, blake, sha) ==
    work' = [work EXCEPT ![t] = [at |-> at, path |-> p, blake |-> blake, sha |-> sha]]

\* p appears in the store.
Store(p, c) ==
    /\ disk' = [disk EXCEPT ![p] = c]
    /\ missing' = missing \ {p}

\* Nothing is left of a pass.
PassOver ==
    /\ cleaning' = FALSE
    /\ listed' = {} /\ doomed' = Null
    /\ missing' = {} /\ standing' = {} /\ undeleted' = {}

-----------------------------------------------------------------------------
(* Seeded faults, used to show that the properties can fail. *)

\* The row is hashed although the path is gone.
SerializeAnything(t) ==
    /\ work[t].at = "queried"
    /\ work' = [work EXCEPT ![t].at = "hashed", ![t].blake = disk[work[t].path]]
    /\ UNCHANGED <<storeVars, rows, cleanVars, standing>>

\* The insert replaces only the row with the same primary key.
InsertByPrimaryKey(t) ==
    /\ work[t].at \in {"hashed", "fetched"}
    /\ LET e == RowOf(work[t]) IN
       /\ rows' = {r \in rows : r.blake # e.blake} \cup {e}
       /\ standing' = (standing \cap rows') \ {e}
    /\ work' = [work EXCEPT ![t] = IF @.at = "hashed" THEN Idle
                                   ELSE [@ EXCEPT !.at = "indexed"]]
    /\ UNCHANGED <<storeVars, cleanVars>>

\* The insert replaces only the row with the same store path.
InsertByPath(t) ==
    /\ work[t].at \in {"hashed", "fetched"}
    /\ LET e == RowOf(work[t]) IN
       /\ rows' = {r \in rows : r.path # e.path} \cup {e}
       /\ standing' = (standing \cap rows') \ {e}
    /\ work' = [work EXCEPT ![t] = IF @.at = "hashed" THEN Idle
                                   ELSE [@ EXCEPT !.at = "indexed"]]
    /\ UNCHANGED <<storeVars, cleanVars>>

\* The pass stops at the first entry it prunes.
CleanDeleteOnce ==
    /\ doomed # Null
    /\ rows' = {r \in rows : r.blake # doomed.blake}
    /\ doomed' = Null
    /\ standing' = standing \cap rows'
    /\ listed' = {}
    /\ UNCHANGED <<storeVars, work, cleaning, undeleted>>

\* The pass deletes nothing.
CleanSkip(e) ==
    /\ e \in listed
    /\ doomed = Null
    /\ listed' = listed \ {e}
    /\ UNCHANGED <<storeVars, rows, work, cleaning, doomed, standing, undeleted>>

-----------------------------------------------------------------------------
(* Indexing *)

\* index_store_path: nix knows the path; its SHA256 and size come from nix.
QueryNix(t, p) ==
    /\ work[t] = Idle
    /\ disk[p] # Null
    /\ Work(t, "queried", p, Null, disk[p])
    /\ UNCHANGED <<storeVars, rows, cleanVars, standing>>

\* The BLAKE3 hash comes from the NAR of what is on disk now.
Serialize(t) ==
    /\ work[t].at = "queried"
    /\ LET c == disk[work[t].path] IN
       work' = [work EXCEPT ![t] = IF c = Null THEN Idle
                                   ELSE [@ EXCEPT !.at = "hashed", !.blake = c]]
    /\ UNCHANGED <<storeVars, rows, cleanVars, standing>>

\* Nix does not answer, or the path is a fresh build output: both hashes
\* come from the same NAR.
SerializeForBoth(t, p) ==
    /\ work[t] = Idle
    /\ disk[p] # Null
    /\ Work(t, "hashed", p, disk[p], disk[p])
    /\ UNCHANGED <<storeVars, rows, cleanVars, standing>>

\* A NAR is fetched from a peer or a cache and verified; its row is inserted
\* first, and the store path imported afterwards or never.
FetchNar(t, p, c) ==
    /\ work[t] = Idle
    /\ Work(t, "fetched", p, c, c)
    /\ UNCHANGED <<storeVars, rows, cleanVars, standing>>

\* A builder restores a missing dependency first and indexes it afterwards.
RestoreDependency(t, p, c) ==
    /\ work[t] = Idle
    /\ disk[p] = Null
    /\ Store(p, c)
    /\ Work(t, "hashed", p, c, c)
    /\ UNCHANGED <<rows, cleanVars, standing>>

\* insert: INSERT OR REPLACE removes every row the new one conflicts with.
Insert(t) ==
    /\ work[t].at \in {"hashed", "fetched"}
    /\ LET e == RowOf(work[t]) IN
       /\ rows' = (rows \ Conflicting(e)) \cup {e}
       /\ standing' = (standing \cap rows') \ {e}
    /\ work' = [work EXCEPT ![t] = IF @.at = "hashed" THEN Idle
                                   ELSE [@ EXCEPT !.at = "indexed"]]
    /\ UNCHANGED <<storeVars, cleanVars>>

\* The fetched NAR is imported as the path p that was asked for, unless p is
\* there already.  The row has the path the sender knows the content by.
Import(t, p) ==
    /\ work[t].at = "indexed"
    /\ IF disk[p] = Null THEN Store(p, work[t].blake) ELSE UNCHANGED storeVars
    /\ work' = [work EXCEPT ![t] = Idle]
    /\ UNCHANGED <<rows, cleanVars, standing>>

\* What a task asks of nix, the disk or the table fails, or the fetch was only
\* to serve somebody else: the task ends where it is.
GivesUp(t) ==
    /\ work[t] # Idle
    /\ work' = [work EXCEPT ![t] = Idle]
    /\ UNCHANGED <<storeVars, rows, cleanVars, standing>>

-----------------------------------------------------------------------------
(* Cleanup *)

\* A pass begins: list_all.  If that fails the pass is over, and nothing has
\* changed.
CleanList ==
    /\ ~cleaning
    /\ cleaning' = TRUE
    /\ listed' = rows
    /\ standing' = rows
    /\ missing' = {p \in Path : disk[p] = Null}
    /\ UNCHANGED <<disk, rows, work, doomed, undeleted>>

\* The pass looks whether the path of its next entry exists.
CleanCheck(e) ==
    /\ e \in listed
    /\ doomed = Null
    /\ listed' = listed \ {e}
    /\ doomed' = IF disk[e.path] = Null THEN e ELSE Null
    /\ UNCHANGED <<storeVars, rows, work, cleaning, standing, undeleted>>

\* delete_by_blake3: whatever row has that hash now is deleted.
CleanDelete ==
    /\ doomed # Null
    /\ rows' = {r \in rows : r.blake # doomed.blake}
    /\ doomed' = Null
    /\ standing' = standing \cap rows'
    /\ UNCHANGED <<storeVars, work, cleaning, listed, undeleted>>

\* delete_by_blake3 fails: a warning, and the pass goes on to its next entry.
CleanDeleteFails ==
    /\ doomed # Null
    /\ undeleted' = undeleted \cup ({doomed} \cap standing)
    /\ doomed' = Null
    /\ UNCHANGED <<storeVars, rows, work, cleaning, listed, standing>>

CleanEnd ==
    /\ cleaning
    /\ listed = {} /\ doomed = Null
    /\ PassOver
    /\ UNCHANGED <<disk, rows, work>>

-----------------------------------------------------------------------------
\* The node stops or dies and is started again: the table is on disk, what
\* its tasks were doing is gone.
Restart ==
    /\ cleaning \/ \E t \in Task : work[t] # Idle
    /\ work' = [t \in Task |-> Idle]
    /\ PassOver
    /\ UNCHANGED <<disk, rows>>

(* Nix, at any time: a path is built or substituted, or garbage-collected. *)

PathAppears(p, c) ==
    /\ disk[p] = Null
    /\ Store(p, c)
    /\ UNCHANGED <<rows, work, cleanVars, standing>>

PathVanishes(p) ==
    /\ disk[p] # Null
    /\ disk' = [disk EXCEPT ![p] = Null]
    /\ UNCHANGED <<missing, rows, work, cleanVars, standing>>

-----------------------------------------------------------------------------
Cleanup == CleanList \/ (\E e \in Row : CleanCheck(e)) \/ CleanDelete \/ CleanEnd

Trouble == CleanDeleteFails \/ Restart

HNext ==
    \/ \E t \in Task, p \in Path :
           QueryNix(t, p) \/ SerializeForBoth(t, p) \/ Import(t, p)
    \/ \E t \in Task, p \in Path, c \in Content :
           FetchNar(t, p, c) \/ RestoreDependency(t, p, c)
    \/ \E t \in Task : Serialize(t) \/ Insert(t) \/ GivesUp(t)
    \/ Cleanup
    \/ \E p \in Path : PathVanishes(p) \/ \E c \in Content : PathAppears(p, c)

HSpec == HInit /\ [][HNext \/ Trouble]_vars

\* The cleanup task keeps running, the table can be listed, and the node is
\* not restarted and does not fail to delete for ever; nothing else has to
\* happen.
HFairSpec == HSpec /\ WF_vars(Cleanup) /\ <>[][~Trouble]_vars

-----------------------------------------------------------------------------
(* Properties *)

\* BLAKE3, SHA256 and store path each identify a row: the index can be read
\* in every direction, whatever tasks insert concurrently.
UniqueKeys ==
    \A r, q \in rows :
        r.path = q.path \/ r.blake = q.blake \/ r.sha = q.sha => r = q

\* A cleanup pass misses nothing, also after a delete that fails: when it ends,
\* no row is left that has stood since it listed the index and whose path was
\* missing from the disk all the time, but those it failed to delete.  (A row
\* inserted again meanwhile has not stood since.)
CleanupMissesNothing ==
    cleaning /\ listed = {} /\ doomed = Null =>
        \A r \in standing \ undeleted : r.path \notin missing

\* A pass deletes by BLAKE3, some time after it looked, and by then another row
\* may have that hash.  Still it takes no row that has stood since it listed
\* the index but the one it looked at: what else it takes was inserted since.
PruneHitsItsRow ==
    [][doomed # Null /\ doomed' = Null =>
          \A r \in standing \ rows' : r = doomed]_vars

\* A row whose path is gone does not stay: it goes, or the path comes back.
\* (The path itself may stay indexed for ever, if it is always indexed again
\* with another content: a pass deletes the row it looked at, by its BLAKE3.)
StaleRowsGo ==
    \A r \in Row : (r \in rows /\ disk[r.path] = Null)
                       ~> (r \notin rows \/ disk[r.path] # Null)

\* "Periodically removes hash index entries whose store paths no longer exist
\* on disk": the cleanup deletes no row whose path exists.
CleanupKeepsLiveRows ==
    [][doomed # Null /\ doomed' = Null =>
          \A r \in rows \ rows' : disk[r.path] = Null]_vars

=============================================================================
