--------------------------- MODULE SnapshotProofs ---------------------------
(* Proofs of the safety properties of Snapshot, for every finite set of     *)
(* keys, every set of values and every bound on the counter.                *)
EXTENDS Snapshot, FiniteSetTheorems, TLAPS

IInv == TypeOK /\ Phases

USE NoneNotValue, UntouchedNotValue, CountKeyOther, BoundAssumption

\* pop_blocks never writes a count above the one it starts from.
LEMMA PoppedCount ==
    ASSUME NEW n \in Counts, NEW S \in SUBSET Keys, n - Cardinality(S) >= 0
    PROVE  n - Cardinality(S) \in Counts /\ n - Cardinality(S) <= n
<1>1. IsFiniteSet(S)
  BY KeysFinite, FS_Subset
<1>2. Cardinality(S) \in Nat
  BY <1>1, FS_CardinalityType
<1> QED BY <1>2 DEF Counts

\* The counters and the rest of the state satisfy IInv initially.
LEMMA InitInvariant == Init => IInv
<1> SUFFICES ASSUME Init PROVE IInv
  OBVIOUS
<1>1. count \in Counts
  <2>1. Cardinality({k \in Keys : disk[k] # None}) \in Nat
        /\ Cardinality({k \in Keys : disk[k] # None}) <= Cardinality(Keys)
    <3> DEFINE S == {k \in Keys : disk[k] # None}
    <3>1. S \in SUBSET Keys
      OBVIOUS
    <3>2. IsFiniteSet(S) /\ Cardinality(S) <= Cardinality(Keys)
      BY <3>1, KeysFinite, FS_Subset
    <3> QED BY <3>2, FS_CardinalityType
  <2>2. Cardinality(Keys) \in Nat
    BY KeysFinite, FS_CardinalityType
  <2> QED BY <2>1, <2>2 DEF Init, Counts
<1>2. TypeOK
  BY <1>1 DEF Init, TypeOK, Counts, ReadAll, View, Load, Touched, Count, Blank, NoWrites
<1>3. Phases
  BY <1>1 DEF Init, Phases, KeepsUp, Counts, Blank
<1> QED BY <1>2, <1>3 DEF IInv

\* Every action preserves the type invariant.
LEMMA TypeStep == IInv /\ [Next]_vars => TypeOK'
<1> SUFFICES ASSUME TypeOK, Phases, [Next]_vars PROVE TypeOK'
  BY DEF IInv
<1> USE DEF TypeOK, Counts, counters
<1>1. ASSUME NEW k \in Keys, Read(k) PROVE TypeOK'
  BY <1>1 DEF Read, View, Load, Touched
<1>2. ASSUME NEW k \in Keys, Remove(k) PROVE TypeOK'
  BY <1>2 DEF Remove, RemoveEntries, StoreCount, Count
<1>3. ASSUME NEW k \in Keys, ApplyKey(k) PROVE TypeOK'
  BY <1>3 DEF ApplyKey, Phases
<1>4. ASSUME NEW k \in Keys, NEW v \in Values, Insert(k, v) PROVE TypeOK'
  BY <1>4 DEF Insert, StoreCount, Count
<1>5. ASSUME NEW S \in SUBSET Keys, PopBlocks(S) PROVE TypeOK'
  <2> DEFINE from == IF mode = "open" THEN snapCount ELSE LoadCount
             left == from - Cardinality(S)
  <2>1. from \in Counts /\ LoadCount \in Counts
    BY DEF LoadCount
  <2>2. tree = "blocks" => left \in Counts
    BY <1>5, <2>1, PoppedCount DEF PopBlocks
  <2>3. batchCount' \in Counts \cup {Untouched} /\ diskCount' \in Counts
    BY <1>5, <2>2 DEF PopBlocks
  <2>4. count' \in Counts /\ cache' = Blank /\ RemoveEntries(S)
        /\ UNCHANGED <<tree, cached, mode, pending, snapCount, before>>
    BY <1>5, <2>1 DEF PopBlocks
  <2> QED BY <2>3, <2>4 DEF RemoveEntries, Blank
<1>13. ASSUME NEW S \in SUBSET Keys, PopFails(S) PROVE TypeOK'
  BY <1>13 DEF PopFails, RemoveEntries
<1>14. ASSUME NEW k \in Keys, NEW v \in Values \cup {None}, DeleteVersion(k, v) PROVE TypeOK'
  BY <1>14 DEF DeleteVersion, RemoveEntries
<1>6. CASE StartCommitPoint
  BY <1>6 DEF StartCommitPoint, NoWrites, ReadAll, View, Load, Touched, Count
<1>7. CASE StartApply
  BY <1>7 DEF StartApply, Blank, ReadAll, View, Load, Touched, Count
<1>8. CASE ApplyCount
  BY <1>8 DEF ApplyCount, Phases
<1>9. CASE EndApply
  BY <1>9 DEF EndApply
<1>10. CASE Discard
  BY <1>10 DEF Discard, Blank
<1>11. CASE Restart
  BY <1>11 DEF Restart, Blank
<1>12. CASE UNCHANGED vars
  BY <1>12 DEF vars
<1> QED BY <1>1, <1>2, <1>3, <1>4, <1>5, <1>6, <1>7, <1>8, <1>9, <1>10, <1>11, <1>12, <1>13, <1>14 DEF Next

\* Every action preserves what the phases of a commit point hold.
LEMMA PhasesStep == IInv /\ [Next]_vars => Phases'
<1> SUFFICES ASSUME TypeOK, Phases, [Next]_vars PROVE Phases'
  BY DEF IInv
<1> USE DEF TypeOK, Counts, counters, Phases, KeepsUp, Touched
<1>1. ASSUME NEW k \in Keys, Read(k) PROVE Phases'
  BY <1>1 DEF Read, View, Load
<1>2. ASSUME NEW k \in Keys, Remove(k) PROVE Phases'
  <2> USE <1>2 DEF Remove, RemoveEntries
  <2>1. ~cached' => cache' = Blank
    BY DEF Blank
  <2>2. \A j \in Keys : cache'[j] # None => Touched(j)' \/ cache'[j] = disk'[j]
    OBVIOUS
  <2>3. mode # "applying" /\ UNCHANGED <<mode, pending, before>>
    OBVIOUS
  <2>4. mode = "closed" => KeepsUp(count, diskCount)'
    BY DEF StoreCount, Count
  <2>5. mode = "open" =>
          /\ UNCHANGED <<disk, diskCount>>
          /\ KeepsUp(snapCount, IF batchCount = Untouched THEN diskCount ELSE batchCount)'
    BY DEF StoreCount, Count
  <2>6. tree' = tree
    OBVIOUS
  <2> QED BY <2>1, <2>2, <2>3, <2>4, <2>5, <2>6
<1>3. ASSUME NEW k \in Keys, ApplyKey(k) PROVE Phases'
  BY <1>3 DEF ApplyKey, Blank
<1>4. ASSUME NEW k \in Keys, NEW v \in Values, Insert(k, v) PROVE Phases'
  BY <1>4 DEF Insert, StoreCount, Count, Blank
<1>5. ASSUME NEW S \in SUBSET Keys, PopBlocks(S) PROVE Phases'
  <2> DEFINE from == IF mode = "open" THEN snapCount ELSE LoadCount
             left == from - Cardinality(S)
  <2>1. /\ cache' = Blank /\ count' = LoadCount /\ RemoveEntries(S) /\ mode # "applying"
        /\ UNCHANGED <<tree, cached, mode, pending, snapCount, before>>
    BY <1>5 DEF PopBlocks
  <2>2. from \in Counts
    BY DEF LoadCount
  <2>3. tree = "blocks" => left \in Counts /\ left <= from
    BY <1>5, <2>2, PoppedCount DEF PopBlocks
  <2>4. mode = "closed" => KeepsUp(count, diskCount)'
    <3>1. CASE tree = "blocks"
      BY <1>5, <2>1, <2>3, <3>1 DEF PopBlocks, LoadCount
    <3>2. CASE tree # "blocks"
      BY <1>5, <2>1, <3>2 DEF PopBlocks, LoadCount
    <3> QED BY <3>1, <3>2
  <2>5. mode = "open" =>
          /\ disk' = disk /\ diskCount' = diskCount
          /\ KeepsUp(snapCount, IF batchCount = Untouched THEN diskCount ELSE batchCount)'
    <3> SUFFICES ASSUME mode = "open"
                 PROVE  /\ disk' = disk /\ diskCount' = diskCount
                        /\ KeepsUp(snapCount, IF batchCount = Untouched THEN diskCount ELSE batchCount)'
      OBVIOUS
    <3>1. disk' = disk
      BY <2>1 DEF RemoveEntries
    <3>2. CASE tree = "blocks"
      <4>1. batchCount' = left /\ diskCount' = diskCount
        BY <1>5, <3>2 DEF PopBlocks
      <4> QED BY <2>1, <2>3, <3>1, <3>2, <4>1
    <3>3. CASE tree # "blocks"
      BY <1>5, <2>1, <3>1, <3>3 DEF PopBlocks
    <3> QED BY <3>2, <3>3
  <2> QED BY <2>1, <2>4, <2>5 DEF Blank
<1>13. ASSUME NEW S \in SUBSET Keys, PopFails(S) PROVE Phases'
  BY <1>13 DEF PopFails, RemoveEntries, Blank
<1>14. ASSUME NEW k \in Keys, NEW v \in Values \cup {None}, DeleteVersion(k, v) PROVE Phases'
  <2>1. /\ mode # "applying" /\ ~cached /\ cache = Blank
        /\ UNCHANGED <<tree, cache, cached, mode, pending, counters, before>>
    BY <1>14 DEF DeleteVersion
  <2>2. mode = "open" => disk' = disk
    BY <1>14 DEF DeleteVersion, RemoveEntries
  <2> QED BY <2>1, <2>2 DEF Blank
<1>6. CASE StartCommitPoint
  BY <1>6 DEF StartCommitPoint, NoWrites, ReadAll, View, Load, Count, Blank
<1>7. CASE StartApply
  BY <1>7 DEF StartApply, Blank, ReadAll, View, Load, Count
<1>8. CASE ApplyCount
  BY <1>8 DEF ApplyCount, Blank
<1>9. CASE EndApply
  BY <1>9 DEF EndApply, Blank
<1>10. CASE Discard
  BY <1>10 DEF Discard, Blank
<1>11. CASE Restart
  BY <1>11 DEF Restart, Blank
<1>12. CASE UNCHANGED vars
  BY <1>12 DEF vars
<1> QED BY <1>1, <1>2, <1>3, <1>4, <1>5, <1>6, <1>7, <1>8, <1>9, <1>10, <1>11, <1>12, <1>13, <1>14 DEF Next

\* IInv is an inductive invariant.
LEMMA Invariance == Spec => []IInv
<1>1. IInv /\ [Next]_vars => IInv'
  BY TypeStep, PhasesStep DEF IInv
<1> QED BY <1>1, InitInvariant, PTL DEF Spec

\* The three read paths of SledStorage agree on every key, inside a commit
\* point, while it is applied, after it was given up and after a restart.
THEOREM ReadPathsAgree == Spec => []ReadsAgree
<1>1. IInv => ReadsAgree
  BY DEF IInv, TypeOK, Phases, ReadsAgree, View, Load, Contains, IterKeys, Touched, Blank
<1> QED BY <1>1, Invariance, PTL

\* The count on the disk is the one in memory when no commit point is open,
\* except that pop_blocks may have lowered the count of blocks on the disk.
THEOREM CountStored == Spec => []CountOnDisk
<1>1. IInv => CountOnDisk
  BY DEF IInv, Phases, CountOnDisk
<1> QED BY <1>1, Invariance, PTL

\* end_commit_point(false) brings back every entry that was read when the
\* commit point was started, the count the disk held then, and the count of
\* accounts that was read then.
THEOREM RollbackRestores == Spec => DiscardRestores
<1>1. IInv /\ [Next]_vars =>
        [Discard => /\ ReadAll'.entries = before.entries
                    /\ Count' = before.stored
                    /\ tree # "blocks" => Count' = before.count]_vars
  <2> SUFFICES ASSUME IInv, Discard
               PROVE  /\ ReadAll'.entries = before.entries
                      /\ Count' = before.stored
                      /\ tree # "blocks" => Count' = before.count
    OBVIOUS
  <2>1. before.entries = [k \in Keys |-> View(k)']
    BY DEF IInv, TypeOK, Phases, Discard, View, Load, Touched, Blank
  <2>2. Count' = before.stored /\ (tree # "blocks" => Count' = before.count)
    BY DEF IInv, Phases, KeepsUp, Discard, Count
  <2> QED BY <2>1, <2>2 DEF ReadAll
<1> QED BY <1>1, Invariance, PTL DEF Spec, DiscardRestores

\* end_commit_point(true) leaves what was read inside the commit point.
THEOREM ApplyKeeps == Spec => ApplyKeepsReads
<1>1. IInv /\ [Next]_vars =>
        [EndApply => ReadAll'.entries = before.entries /\ Count' = before.count]_vars
  <2> SUFFICES ASSUME IInv, EndApply
               PROVE  ReadAll'.entries = before.entries /\ Count' = before.count
    OBVIOUS
  <2>1. before.entries = [k \in Keys |-> View(k)'] /\ before.count = Count'
    BY DEF IInv, TypeOK, Phases, EndApply, View, Load, Touched, Count, Blank, counters
  <2> QED BY <2>1 DEF ReadAll
<1> QED BY <1>1, Invariance, PTL DEF Spec, ApplyKeepsReads
=============================================================================
