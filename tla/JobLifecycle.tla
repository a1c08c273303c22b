---------------------------- MODULE JobLifecycle ----------------------------
(***************************************************************************)
(* What a build queue promises about each job, whatever the locking, the   *)
(* wire protocol and the timeouts below it: a job is submitted once, is    *)
(* held by at most one builder at a time, goes back to waiting only when   *)
(* its lease is withdrawn, is finished only by the builder that holds it,  *)
(* and once finished never changes again.  BuildQueue implements this      *)
(* specification under the mapping given at its end; the programs built on *)
(* it, which never withdraw a lease, implement RunSpec or RestartSpec.     *)
(***************************************************************************)
CONSTANTS JobId,    \* identifiers of jobs
          Builder,  \* endpoints that may hold a lease
          Null      \* "nobody"

VARIABLES phase,    \* where each job is in its life
          owner     \* the builder holding each job, or Null

lvars == <<phase, owner>>

Phase == {"none", "waiting", "leased", "done"}

LTypeOK ==
    /\ phase \in [JobId -> Phase]
    /\ owner \in [JobId -> Builder \cup {Null}]

LInit ==
    /\ phase = [j \in JobId |-> "none"]
    /\ owner = [j \in JobId |-> Null]

\* A client's job starts to wait for a builder.
Submit(j) ==
    /\ phase[j] = "none"
    /\ phase' = [phase EXCEPT ![j] = "waiting"]
    /\ UNCHANGED owner

\* A waiting job is handed to one builder.
Lease(j, b) ==
    /\ owner[j] = Null
    /\ owner' = [owner EXCEPT ![j] = b]
    /\ phase[j] = "waiting"
    /\ phase' = [phase EXCEPT ![j] = "leased"]

\* The leases of the jobs in S are withdrawn together; the jobs wait again.
Withdraw(S) ==
    /\ S # {}
    /\ \A j \in S : phase[j] = "leased"
    /\ phase' = [j \in JobId |-> IF j \in S THEN "waiting" ELSE phase[j]]
    /\ owner' = [j \in JobId |-> IF j \in S THEN Null ELSE owner[j]]

\* The builder that holds j reports its end, as a success or as a failure.
Finish(j, b) ==
    /\ owner[j] = b
    /\ phase[j] = "leased"
    /\ phase' = [phase EXCEPT ![j] = "done"]
    /\ owner' = [owner EXCEPT ![j] = Null]

\* A job moves on in its life.
Advance ==
    \/ \E j \in JobId : Submit(j)
    \/ \E j \in JobId, b \in Builder : Lease(j, b) \/ Finish(j, b)

LNext == Advance \/ \E S \in SUBSET JobId : Withdraw(S)

LSpec == LInit /\ [][LNext]_lvars

-----------------------------------------------------------------------------
(* The life of jobs in a program that withdraws no lease: it only advances. *)

RunSpec == LInit /\ [][Advance]_lvars

\* The queue, in memory only, starts anew and knows no job of the old one.
Forget ==
    /\ owner' = [j \in JobId |-> Null]
    /\ phase' = [j \in JobId |-> "none"]

RestartSpec == LInit /\ [][Advance \/ Forget]_lvars

=============================================================================
