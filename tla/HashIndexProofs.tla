--------------------------- MODULE HashIndexProofs ---------------------------
(* Proofs about HashIndex, for any paths, contents and tasks. *)
EXTENDS HashIndex, TLAPS

HStep == HNext \/ Trouble

\* What a running pass still has to do: a row it listed, whose path is gone
\* for good, is either still to be looked at or about to be deleted, unless it
\* could not be deleted.
PassRemembers ==
    cleaning => \A r \in standing \ undeleted :
                    r.path \in missing => r \in listed \/ r = doomed

\* What has stood since the pass listed it is still there.
StandingStands == standing \subseteq rows

\* Between passes nothing is left of one.
PassIsOver == ~cleaning => listed = {} /\ doomed = Null

\* What a pass has listed, looked at and not seen inserted again comes from one
\* state of the table, whose hashes are unique, although the table has changed
\* since.
Seen == standing \cup listed \cup ({doomed} \ {Null})

SeenHashesDiffer == \A r, q \in Seen : r.blake = q.blake => r = q

\* The history variable tells the truth about the disk.
MissingIsMissing == \A p \in missing : disk[p] = Null

IndexInv ==
    /\ HTypeOK
    /\ UniqueKeys
    /\ MissingIsMissing
    /\ PassRemembers
    /\ StandingStands
    /\ PassIsOver
    /\ SeenHashesDiffer

-----------------------------------------------------------------------------
\* The initial state satisfies the invariant.
LEMMA InitEstablishes == HInit => IndexInv
<1> SUFFICES ASSUME HInit PROVE IndexInv
  OBVIOUS
<1>1. HTypeOK
  BY DEF HInit, HTypeOK, Idle
<1>2. UniqueKeys /\ MissingIsMissing /\ PassRemembers
  BY DEF HInit, UniqueKeys, MissingIsMissing, PassRemembers
<1>3. StandingStands /\ PassIsOver /\ SeenHashesDiffer
  BY DEF HInit, StandingStands, PassIsOver, SeenHashesDiffer, Seen
<1> QED
  BY <1>1, <1>2, <1>3 DEF IndexInv

\* Every step keeps every variable in its type.
LEMMA TypeStep == HTypeOK /\ [HStep]_vars => HTypeOK'
<1> SUFFICES ASSUME HTypeOK, [HStep]_vars PROVE HTypeOK'
  OBVIOUS
<1> USE IndexAssumption DEF HTypeOK
<1>1. CASE UNCHANGED vars
  BY <1>1 DEF vars
<1>2. ASSUME NEW t \in Task, NEW p \in Path, QueryNix(t, p) PROVE HTypeOK'
  BY <1>2 DEF QueryNix, Work, storeVars, cleanVars
<1>3. ASSUME NEW t \in Task, NEW p \in Path, SerializeForBoth(t, p) PROVE HTypeOK'
  BY <1>3 DEF SerializeForBoth, Work, storeVars, cleanVars
<1>4. ASSUME NEW t \in Task, NEW p \in Path, NEW c \in Content, FetchNar(t, p, c)
      PROVE HTypeOK'
  BY <1>4 DEF FetchNar, Work, storeVars, cleanVars
<1>5. ASSUME NEW t \in Task, NEW p \in Path, NEW c \in Content, RestoreDependency(t, p, c)
      PROVE HTypeOK'
  BY <1>5 DEF RestoreDependency, Store, Work, cleanVars
<1>6. ASSUME NEW t \in Task, Serialize(t) PROVE HTypeOK'
  BY <1>6 DEF Serialize, Idle, storeVars, cleanVars
<1>7. ASSUME NEW t \in Task, Insert(t) PROVE HTypeOK'
  BY <1>7 DEF Insert, RowOf, Conflicting, Row, Idle, storeVars, cleanVars
<1>8. ASSUME NEW t \in Task, NEW p \in Path, Import(t, p) PROVE HTypeOK'
  BY <1>8 DEF Import, Store, Idle, storeVars, cleanVars
<1>9. ASSUME NEW t \in Task, GivesUp(t) PROVE HTypeOK'
  BY <1>9 DEF GivesUp, Idle, storeVars, cleanVars
<1>10. CASE CleanList
  BY <1>10 DEF CleanList
<1>11. ASSUME NEW e \in Row, CleanCheck(e) PROVE HTypeOK'
  BY <1>11 DEF CleanCheck, storeVars
<1>12. CASE CleanDelete
  BY <1>12 DEF CleanDelete, storeVars
<1>13. CASE CleanEnd
  BY <1>13 DEF CleanEnd, PassOver
<1>14. ASSUME NEW p \in Path, PathVanishes(p) PROVE HTypeOK'
  BY <1>14 DEF PathVanishes, cleanVars
<1>15. ASSUME NEW p \in Path, NEW c \in Content, PathAppears(p, c) PROVE HTypeOK'
  BY <1>15 DEF PathAppears, Store, cleanVars
<1>16. CASE Restart
  BY <1>16 DEF Restart, PassOver, Idle
<1>17. CASE CleanDeleteFails
  BY <1>17 DEF CleanDeleteFails, storeVars
<1> QED
  BY <1>1, <1>2, <1>3, <1>4, <1>5, <1>6, <1>7, <1>8, <1>9, <1>10, <1>11, <1>12,
     <1>13, <1>14, <1>15, <1>16, <1>17 DEF HStep, HNext, Cleanup, Trouble

-----------------------------------------------------------------------------
\* Only Insert adds a row, and it first removes those that share a key.
LEMMA KeysStep == UniqueKeys /\ [HStep]_vars => UniqueKeys'
<1> SUFFICES ASSUME UniqueKeys, [HStep]_vars PROVE UniqueKeys'
  OBVIOUS
<1>1. ASSUME rows' \subseteq rows PROVE UniqueKeys'
  BY <1>1 DEF UniqueKeys
<1>2. ASSUME NEW t \in Task, Insert(t) PROVE UniqueKeys'
  <2>1. rows' = (rows \ Conflicting(RowOf(work[t]))) \cup {RowOf(work[t])}
    BY <1>2 DEF Insert
  <2> QED
    BY <2>1 DEF UniqueKeys, Conflicting
<1>3. \/ rows' \subseteq rows
      \/ \E t \in Task : Insert(t)
  <2>1. CASE UNCHANGED vars
    BY <2>1 DEF vars
  <2>2. CASE Trouble
    BY <2>2 DEF Trouble, Restart, CleanDeleteFails
  <2>3. CASE HNext
    BY <2>3 DEF HNext, Cleanup, QueryNix, SerializeForBoth, Import, FetchNar,
       RestoreDependency, Serialize, GivesUp, CleanList, CleanCheck,
       CleanDelete, CleanEnd, PathVanishes, PathAppears
  <2> QED
    BY <2>1, <2>2, <2>3 DEF HStep
<1> QED
  BY <1>1, <1>2, <1>3

-----------------------------------------------------------------------------
\* A path enters missing only when a pass begins and the disk lacks it, and
\* leaves it when it appears on the disk.
LEMMA MissingStep ==
    HTypeOK /\ MissingIsMissing /\ [HStep]_vars => MissingIsMissing'
<1> SUFFICES ASSUME HTypeOK, MissingIsMissing, [HStep]_vars PROVE MissingIsMissing'
  OBVIOUS
<1> USE DEF MissingIsMissing
<1>1. ASSUME UNCHANGED storeVars PROVE MissingIsMissing'
  BY <1>1 DEF storeVars
<1>2. ASSUME NEW p \in Path, NEW c, Store(p, c) PROVE MissingIsMissing'
  BY <1>2 DEF Store, HTypeOK
<1>3. CASE CleanList \/ PassOver
  BY <1>3 DEF CleanList, PassOver
<1>4. ASSUME NEW p \in Path, PathVanishes(p) PROVE MissingIsMissing'
  BY <1>4 DEF PathVanishes, HTypeOK
<1>5. \/ UNCHANGED storeVars
      \/ \E p \in Path : \E c : Store(p, c)
      \/ CleanList \/ PassOver
      \/ \E p \in Path : PathVanishes(p)
  <2>1. CASE UNCHANGED vars
    BY <2>1 DEF vars, storeVars
  <2>2. CASE Trouble
    BY <2>2 DEF Trouble, Restart, CleanDeleteFails
  <2>3. ASSUME NEW t \in Task, NEW p \in Path, Import(t, p)
        PROVE UNCHANGED storeVars \/ Store(p, work[t].blake)
    BY <2>3 DEF Import
  <2>4. CASE HNext
    BY <2>3, <2>4 DEF HNext, Cleanup, QueryNix, SerializeForBoth, FetchNar,
       RestoreDependency, Serialize, Insert, GivesUp, CleanCheck,
       CleanDelete, CleanEnd, PathAppears
  <2> QED
    BY <2>1, <2>2, <2>4 DEF HStep
<1> QED
  BY <1>1, <1>2, <1>3, <1>4, <1>5

-----------------------------------------------------------------------------
\* What happens beside a pass never adds to what the pass has to remember.
LEMMA BesideThePass ==
    ASSUME PassRemembers, UNCHANGED cleanVars,
           standing' \subseteq standing,
           missing' \subseteq missing
    PROVE  PassRemembers'
BY DEF PassRemembers, cleanVars

\* A running pass forgets a row only by finding its path or by deleting it or
\* failing to.
LEMMA PassStep ==
    HTypeOK /\ MissingIsMissing /\ PassRemembers /\ [HStep]_vars => PassRemembers'
<1> SUFFICES ASSUME HTypeOK, MissingIsMissing, PassRemembers, [HStep]_vars
             PROVE  PassRemembers'
  OBVIOUS
<1>1. CASE UNCHANGED vars
  BY <1>1, BesideThePass DEF vars, cleanVars
<1>2. ASSUME NEW t \in Task, NEW p \in Path,
             QueryNix(t, p) \/ SerializeForBoth(t, p) \/ Import(t, p)
      PROVE  PassRemembers'
  BY <1>2, BesideThePass DEF QueryNix, SerializeForBoth, Import, Store, storeVars
<1>3. ASSUME NEW t \in Task, NEW p \in Path, NEW c \in Content,
             FetchNar(t, p, c) \/ RestoreDependency(t, p, c)
      PROVE  PassRemembers'
  BY <1>3, BesideThePass DEF FetchNar, RestoreDependency, Store, storeVars
<1>4. ASSUME NEW t \in Task, Serialize(t) \/ GivesUp(t) PROVE PassRemembers'
  BY <1>4, BesideThePass DEF Serialize, GivesUp, storeVars
<1>5. ASSUME NEW t \in Task, Insert(t) PROVE PassRemembers'
  <2>1. standing' \subseteq standing /\ UNCHANGED <<storeVars, cleanVars>>
    BY <1>5 DEF Insert
  <2> QED
    BY <2>1, BesideThePass DEF storeVars
<1>6. CASE CleanList
  BY <1>6 DEF CleanList, PassRemembers
<1>7. ASSUME NEW e \in Row, CleanCheck(e) PROVE PassRemembers'
  <2>1. SUFFICES ASSUME cleaning, NEW r \in standing \ undeleted, r.path \in missing
                 PROVE  r \in listed' \/ r = doomed'
    BY <1>7 DEF CleanCheck, storeVars, PassRemembers
  <2>2. r \in listed
    <3>1. doomed = Null /\ r \in Row
      BY <1>7 DEF CleanCheck, HTypeOK
    <3> QED
      BY <2>1, <3>1, RowAssumption DEF PassRemembers
  <2>3. CASE r = e
    BY <1>7, <2>1, <2>3 DEF CleanCheck, MissingIsMissing
  <2>4. CASE r # e
    BY <1>7, <2>2, <2>4 DEF CleanCheck
  <2> QED
    BY <2>3, <2>4
<1>8. CASE CleanDelete
  BY <1>8 DEF CleanDelete, storeVars, PassRemembers
<1>9. CASE CleanEnd
  BY <1>9 DEF CleanEnd, PassOver, PassRemembers
<1>10. ASSUME NEW p \in Path, PathVanishes(p) PROVE PassRemembers'
  BY <1>10, BesideThePass DEF PathVanishes
<1>11. ASSUME NEW p \in Path, NEW c \in Content, PathAppears(p, c)
       PROVE  PassRemembers'
  BY <1>11, BesideThePass DEF PathAppears, Store
<1>12. CASE Restart
  BY <1>12 DEF Restart, PassOver, PassRemembers
<1>13. CASE CleanDeleteFails
  BY <1>13 DEF CleanDeleteFails, storeVars, PassRemembers
<1> QED
  BY <1>1, <1>2, <1>3, <1>4, <1>5, <1>6, <1>7, <1>8, <1>9, <1>10, <1>11, <1>12,
     <1>13 DEF HStep, HNext, Cleanup, Trouble

\* A row that goes has not stood, and what is inserted has not either.
LEMMA StandingStep == StandingStands /\ [HStep]_vars => StandingStands'
<1> SUFFICES ASSUME StandingStands, [HStep]_vars PROVE StandingStands'
  OBVIOUS
<1> USE DEF StandingStands
<1>1. CASE UNCHANGED vars
  BY <1>1 DEF vars
<1>2. CASE Trouble
  BY <1>2 DEF Trouble, Restart, PassOver, CleanDeleteFails
<1>3. CASE HNext
  BY <1>3 DEF HNext, Cleanup, QueryNix, SerializeForBoth, Import, FetchNar,
     RestoreDependency, Serialize, Insert, GivesUp, CleanList, CleanCheck,
     CleanDelete, CleanEnd, PassOver, PathVanishes, PathAppears
<1> QED
  BY <1>1, <1>2, <1>3 DEF HStep

\* A pass that has nothing left to do has forgotten no row it listed.
LEMMA DonePassMissesNothing ==
    HTypeOK /\ PassRemembers => CleanupMissesNothing
BY RowAssumption DEF HTypeOK, PassRemembers, CleanupMissesNothing

-----------------------------------------------------------------------------
\* A step begins a pass, ends one, or goes on without adding to what was seen.
LEMMA SeenCases ==
    [HStep]_vars =>
        \/ CleanList \/ CleanEnd \/ Restart
        \/ /\ cleaning' = cleaning
           /\ listed' \subseteq listed
           /\ doomed' \in listed \cup {doomed, Null}
           /\ standing' \subseteq standing
<1> SUFFICES ASSUME [HStep]_vars, ~CleanList, ~CleanEnd, ~Restart
             PROVE  /\ cleaning' = cleaning
                    /\ listed' \subseteq listed
                    /\ doomed' \in listed \cup {doomed, Null}
                    /\ standing' \subseteq standing
  OBVIOUS
<1>1. CASE UNCHANGED vars
  BY <1>1 DEF vars
<1>2. CASE HNext
  BY <1>2 DEF HNext, Cleanup, cleanVars, QueryNix, SerializeForBoth, Import,
     FetchNar, RestoreDependency, Serialize, Insert, GivesUp, CleanCheck,
     CleanDelete, PathVanishes, PathAppears
<1>3. CASE CleanDeleteFails
  BY <1>3 DEF CleanDeleteFails
<1> QED
  BY <1>1, <1>2, <1>3 DEF HStep, Trouble

\* Only a running pass has something listed or is about to delete.
LEMMA OverStep == PassIsOver /\ [HStep]_vars => PassIsOver'
BY SeenCases DEF PassIsOver, CleanList, CleanEnd, Restart, PassOver

\* Only the beginning of a pass adds to what is seen: the rows, each of which
\* has a hash of its own.
LEMMA SeenStep ==
    UniqueKeys /\ PassIsOver /\ SeenHashesDiffer /\ [HStep]_vars => SeenHashesDiffer'
<1> SUFFICES ASSUME UniqueKeys, PassIsOver, SeenHashesDiffer, [HStep]_vars
             PROVE  SeenHashesDiffer'
  OBVIOUS
<1>1. ASSUME Seen' \subseteq Seen PROVE SeenHashesDiffer'
  BY <1>1 DEF SeenHashesDiffer
<1>2. CASE CleanList
  <2>1. Seen' = rows
    BY <1>2 DEF CleanList, PassIsOver, Seen
  <2> QED
    BY <2>1 DEF UniqueKeys, SeenHashesDiffer
<1>3. CASE CleanEnd \/ Restart
  BY <1>1, <1>3 DEF CleanEnd, Restart, PassOver, Seen
<1>4. ASSUME listed' \subseteq listed,
             doomed' \in listed \cup {doomed, Null},
             standing' \subseteq standing
      PROVE  SeenHashesDiffer'
  BY <1>1, <1>4 DEF Seen
<1> QED
  BY <1>2, <1>3, <1>4, SeenCases

\* The pass deletes the row it looked at: of those it has seen, no other has
\* that hash.
LEMMA PruneStep ==
    StandingStands /\ SeenHashesDiffer /\ [HStep]_vars =>
        (doomed # Null /\ doomed' = Null =>
            \A r \in standing \ rows' : r = doomed)
<1> SUFFICES ASSUME StandingStands, SeenHashesDiffer, [HStep]_vars,
                    doomed # Null, doomed' = Null,
                    NEW r \in standing \ rows'
             PROVE  r = doomed
  OBVIOUS
<1> r \in rows
  BY DEF StandingStands
<1>1. CASE CleanDelete
  <2>1. r.blake = doomed.blake
    BY <1>1 DEF CleanDelete
  <2>2. r \in Seen /\ doomed \in Seen
    BY DEF Seen
  <2> QED
    BY <2>1, <2>2 DEF SeenHashesDiffer
<1>2. CASE Trouble
  BY <1>2 DEF Trouble, Restart, CleanDeleteFails
<1>3. CASE UNCHANGED vars
  BY <1>3 DEF vars
<1>4. CASE HNext /\ ~CleanDelete
  <2>1. doomed' = doomed \/ \E e \in Row : CleanCheck(e)
    BY <1>4 DEF HNext, Cleanup, cleanVars, QueryNix, SerializeForBoth, Import,
       FetchNar, RestoreDependency, Serialize, Insert, GivesUp, CleanList,
       CleanEnd, PathVanishes, PathAppears
  <2>2. doomed' # doomed
    OBVIOUS
  <2> QED
    BY <2>1, <2>2 DEF CleanCheck
<1> QED
  BY <1>1, <1>2, <1>3, <1>4 DEF HStep

-----------------------------------------------------------------------------
\* The invariant holds in every reachable state.
THEOREM IndexInvariant == HSpec => []IndexInv
<1>1. HInit => IndexInv
  BY InitEstablishes
<1>2. IndexInv /\ [HStep]_vars => IndexInv'
  BY TypeStep, KeysStep, MissingStep, PassStep, StandingStep, OverStep, SeenStep
     DEF IndexInv
<1> QED
  BY <1>1, <1>2, PTL DEF HSpec, HStep

\* Whatever tasks index, fetch and clean concurrently and however often the
\* node restarts, the table, the tasks and the pass keep their types: in
\* particular a row is only ever inserted from complete hashes.
THEOREM IndexTypeCorrect == HSpec => []HTypeOK
BY IndexInvariant, PTL DEF IndexInv

\* INSERT OR REPLACE keeps all three columns unique.
THEOREM KeysStayUnique == HSpec => []UniqueKeys
BY IndexInvariant, PTL DEF IndexInv

\* A cleanup pass that ends has deleted, or tried to delete in vain, every row
\* that has stood since it listed the index and whose path was missing all the
\* time; a delete that fails keeps it from no other row.
THEOREM CleanupIsComplete == HSpec => []CleanupMissesNothing
BY IndexInvariant, DonePassMissesNothing, PTL DEF IndexInv

\* However the table changes between the three looks of a pass, what the pass
\* deletes of the rows that have stood since it listed them is the row it found
\* missing (run_stale_cleanup deletes by BLAKE3).
THEOREM PruneIsAimed == HSpec => PruneHitsItsRow
<1>1. IndexInv /\ [HStep]_vars =>
          [doomed # Null /\ doomed' = Null =>
              \A r \in standing \ rows' : r = doomed]_vars
  BY PruneStep DEF IndexInv
<1> QED
  BY <1>1, IndexInvariant, PTL DEF HSpec, HStep, PruneHitsItsRow

=============================================================================
