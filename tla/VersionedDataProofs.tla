------------------------ MODULE VersionedDataProofs ------------------------
(***************************************************************************)
(* The chains of versions stay well formed, for any set of keys, any       *)
(* length of the chain and any sequence of re-orderings and rewinds.       *)
(***************************************************************************)
EXTENDS VersionedData, TLAPS

\* How the counters of the operation under way relate to the order.
ModeInv ==
    /\ mode = "idle" => 0 <= ordered /\ ordered <= top
    /\ mode = "clean" => ordered = from - 1 /\ from <= at /\ at <= top + 1
    /\ mode = "execute" => at = ordered + 1 /\ from <= at
    /\ mode = "rewind" => 0 <= ordered /\ ordered <= at /\ at <= top

\* The inductive invariant.
IInv == TypeOK /\ ModeInv /\ ChainsWellFormed /\ NoVersionAboveOrder

\* A version whose chain is unchanged at and below it keeps its predecessor.
LEMMA PreviousUnchanged ==
    ASSUME NEW k, NEW t \in Topo,
           PreviousIsLastBelow(k, t),
           \A u \in Topo : u <= t => versioned'[k][u] = versioned[k][u],
           versioned[k][t].prev \in Topo \cup {None}
    PROVE  PreviousIsLastBelow(k, t)'
  BY MaxTopoAssumption, NoneAssumption DEF PreviousIsLastBelow, Live, Topo

\* The genesis block establishes the invariant.
LEMMA InitIInv == Init => IInv
  <1> SUFFICES ASSUME Init PROVE IInv
    OBVIOUS
  <1>1. PICK W \in SUBSET Cleaned, v \in Values :
          /\ pointer = [k \in Keys |-> IF k \in W THEN 0 ELSE None]
          /\ versioned = [k \in Keys |-> [t \in Topo |->
                            IF k \in W /\ t = 0 THEN [prev |-> None, val |-> v]
                                                ELSE None]]
    BY DEF Init
  <1>2. 0 \in Topo /\ \A t \in Topo : t \in Int /\ 0 <= t /\ t <= MaxTopo
    BY MaxTopoAssumption DEF Topo
  <1>3. [prev |-> None, val |-> v] \in Version /\ [prev |-> None, val |-> v] # None
    BY NoneAssumption DEF Version
  <1>4. TypeOK /\ ModeInv
    BY <1>1, <1>2, <1>3, MaxTopoAssumption DEF Init, TypeOK, ModeInv, Modes
  <1>5. \A k \in Keys, t \in Topo : Live(k, t) <=> (k \in W /\ t = 0)
    BY <1>1, <1>3 DEF Live
  <1>6. ASSUME NEW k \in Keys PROVE ChainBelow(k, MaxTopo + 1)
    <2>1. pointer[k] # None => pointer[k] = 0 /\ k \in W
      BY <1>1
    <2>2. ASSUME NEW t \in Topo, Live(k, t) PROVE pointer[k] = 0 /\ t = 0
      BY <1>1, <1>5, <2>2
    <2>3. ASSUME NEW t \in Topo, Live(k, t) PROVE PreviousIsLastBelow(k, t)
      <3>1. versioned[k][t].prev = None
        BY <1>1, <1>2, <1>5, <2>3
      <3> QED
        BY <1>2, <1>5, <2>3, <3>1 DEF PreviousIsLastBelow
    <2> QED
      BY <1>2, <1>5, <2>1, <2>2, <2>3, MaxTopoAssumption, NoneAssumption DEF ChainBelow
  <1>7. ChainsWellFormed
    BY <1>6 DEF ChainsWellFormed, Cleaned
  <1>8. NoVersionAboveOrder
    BY <1>2, <1>5 DEF NoVersionAboveOrder, Init, Cleaned
  <1> QED
    BY <1>4, <1>7, <1>8 DEF IInv

----------------------------------------------------------------------------
\* What deleting topoheight t leaves of the chain of k below s, when no
\* version lies between s and t: the part below s, which the pointer now
\* shows if the version at t was there or the pointer was already below.
LEMMA DeleteShowsBelow ==
    ASSUME TypeOK, NEW k \in Cleaned, NEW t \in Topo, NEW s \in Int, s <= t,
           pointer' = DeletePointers(t), versioned' = DeleteVersions(t),
           \/ ChainBelow(k, s)
           \/ /\ ChainBelow(k, MaxTopo + 1)
              /\ Live(k, t)
              /\ \A u \in Topo : s <= u /\ u < t => ~Live(k, u)
    PROVE  ChainBelow(k, s)'
  <1>1. k \in Keys
    BY DEF Cleaned
  <1>2. /\ pointer[k] \in Topo \cup {None}
        /\ \A u \in Topo : versioned[k][u] \in Version \cup {None}
        /\ \A u \in Topo : u \in Int /\ 0 <= u /\ u <= MaxTopo
        /\ t \in Int
    BY <1>1, MaxTopoAssumption DEF TypeOK, Topo
  <1>3. \A u \in Topo : versioned'[k][u] = IF u = t THEN None ELSE versioned[k][u]
    BY <1>1, <1>2 DEF DeleteVersions, TypeOK
  <1>4. pointer'[k] = IF Live(k, t) /\ pointer[k] # None /\ pointer[k] >= t
                      THEN versioned[k][t].prev ELSE pointer[k]
    BY <1>1 DEF DeletePointers
  <1>5. \A u \in Topo : Live(k, u)' <=> (u # t /\ Live(k, u))
    BY <1>3 DEF Live
  <1>6. ASSUME NEW u \in Topo, u < s, Live(k, u), PreviousIsLastBelow(k, u)
        PROVE  PreviousIsLastBelow(k, u)'
    <2>1. versioned[k][u].prev \in Topo \cup {None}
      BY <1>2, <1>6 DEF Live, Version
    <2>2. \A w \in Topo : w <= u => versioned'[k][w] = versioned[k][w]
      BY <1>2, <1>3, <1>6, MaxTopoAssumption DEF Topo
    <2> QED
      BY <1>6, <2>1, <2>2, PreviousUnchanged
  <1>7. CASE ChainBelow(k, s)
    <2>1. pointer'[k] = pointer[k]
      BY <1>2, <1>4, <1>7, MaxTopoAssumption, NoneAssumption DEF ChainBelow, Topo
    <2> QED
      BY <1>2, <1>5, <1>6, <1>7, <2>1, MaxTopoAssumption, NoneAssumption DEF ChainBelow, Topo
  <1>8. CASE /\ ChainBelow(k, MaxTopo + 1)
             /\ Live(k, t)
             /\ \A u \in Topo : s <= u /\ u < t => ~Live(k, u)
    <2>1. /\ pointer[k] # None
          /\ t <= pointer[k]
          /\ PreviousIsLastBelow(k, t)
      BY <1>2, <1>8, MaxTopoAssumption DEF ChainBelow, Topo
    <2>2. pointer'[k] = versioned[k][t].prev
      BY <1>2, <1>4, <1>8, <2>1, NoneAssumption
    <2>3. versioned[k][t].prev \in Topo \cup {None}
      BY <1>2, <1>8 DEF Live, Version
    <2>4. pointer'[k] # None => pointer'[k] < s /\ Live(k, pointer'[k])
      BY <1>2, <1>8, <2>1, <2>2, <2>3, MaxTopoAssumption, NoneAssumption
      DEF PreviousIsLastBelow, Topo
    <2>5. ASSUME NEW u \in Topo, Live(k, u)', u < s
          PROVE  pointer'[k] # None /\ u <= pointer'[k] /\ PreviousIsLastBelow(k, u)'
      <3>1. Live(k, u) /\ u < t
        BY <1>2, <1>5, <2>5, MaxTopoAssumption DEF Topo
      <3>2. PreviousIsLastBelow(k, u)
        BY <1>2, <1>8, <3>1, MaxTopoAssumption DEF ChainBelow, Topo
      <3> QED
        BY <1>2, <1>6, <2>1, <2>2, <2>5, <3>1, <3>2, MaxTopoAssumption
        DEF PreviousIsLastBelow, Topo
    <2>6. pointer'[k] # None => Live(k, pointer[k])'
      <3> SUFFICES ASSUME pointer'[k] # None PROVE versioned'[k][pointer'[k]] # None
        BY DEF Live
      <3>1. pointer'[k] \in Topo /\ pointer'[k] < s /\ Live(k, pointer'[k])
        BY <2>2, <2>3, <2>4
      <3> QED
        BY <1>2, <1>3, <3>1, MaxTopoAssumption DEF Live, Topo
    <2> QED
      BY <2>4, <2>5, <2>6 DEF ChainBelow
  <1> QED
    BY <1>7, <1>8

\* A key without a version at t is left alone.
LEMMA DeleteLeavesOthers ==
    ASSUME TypeOK, NEW k \in Cleaned, NEW t \in Topo, ~Live(k, t),
           pointer' = DeletePointers(t), versioned' = DeleteVersions(t),
           NEW s \in Int, ChainBelow(k, s)
    PROVE  ChainBelow(k, s)'
  <1>1. k \in Keys
    BY DEF Cleaned
  <1>2. pointer'[k] = pointer[k]
    BY <1>1 DEF DeletePointers
  <1>3. versioned'[k] = versioned[k]
    BY <1>1 DEF DeleteVersions, TypeOK, Live
  <1> QED
    BY <1>2, <1>3 DEF ChainBelow, PreviousIsLastBelow, Live

\* The types are kept.
LEMMA DeleteTypes ==
    ASSUME TypeOK, NEW t \in Topo
    PROVE  /\ DeletePointers(t) \in [Keys -> Topo \cup {None}]
           /\ DeleteVersions(t) \in [Keys -> [Topo -> Version \cup {None}]]
  BY DEF TypeOK, DeletePointers, DeleteVersions, Version, Live, Cleaned

\* A step that touches no tree leaves the chains alone.
LEMMA SameTrees ==
    ASSUME UNCHANGED <<pointer, versioned>>
    PROVE  /\ \A k, s : ChainBelow(k, s)' <=> ChainBelow(k, s)
           /\ \A k, t : Live(k, t)' <=> Live(k, t)
  BY DEF ChainBelow, PreviousIsLastBelow, Live

----------------------------------------------------------------------------
\* Each operation preserves the invariant: one step per action.
LEMMA NextIInv == IInv /\ [Next]_vars => IInv'
  <1> SUFFICES ASSUME IInv, [Next]_vars PROVE IInv'
    OBVIOUS
  <1> USE MaxTopoAssumption
  <1>0. /\ TypeOK /\ ModeInv /\ ChainsWellFormed /\ NoVersionAboveOrder
        /\ Cleaned \subseteq Keys
        /\ \A t \in Topo : t \in Int /\ 0 <= t /\ t <= MaxTopo
    BY DEF IInv, Cleaned, Topo
  <1>1. ASSUME NEW b \in 0 .. ordered + 1, StartReorder(b) PROVE IInv'
    <2>1. TypeOK' /\ ModeInv'
      BY <1>0, <1>1 DEF StartReorder, TypeOK, ModeInv, Modes, Topo
    <2>2. ChainsWellFormed'
      BY <1>0, <1>1, SameTrees DEF StartReorder, ChainsWellFormed
    <2>3. NoVersionAboveOrder'
      BY <1>0, <1>1, SameTrees DEF StartReorder, NoVersionAboveOrder, TypeOK, ModeInv, Topo
    <2> QED
      BY <2>1, <2>2, <2>3 DEF IInv
  <1>2. CASE CleanTopoheight
    <2>0. /\ at \in Topo /\ from \in Int /\ from <= at /\ at <= top
          /\ ordered = from - 1 /\ top \in Int
          /\ pointer' = DeletePointers(at) /\ versioned' = DeleteVersions(at)
          /\ mode = "clean" /\ mode' = "clean" /\ from' = from /\ at' = at + 1
      BY <1>0, <1>2 DEF CleanTopoheight, TypeOK, ModeInv, Topo
    <2>1. TypeOK' /\ ModeInv'
      BY <1>0, <1>2, <2>0, DeleteTypes DEF CleanTopoheight, TypeOK, ModeInv, Topo
    <2>2. ASSUME NEW k \in Cleaned
          PROVE  ChainBelow(k, MaxTopo + 1)' \/ ChainBelow(k, from)'
      <3>1. CASE ChainBelow(k, from)
        BY <1>0, <2>0, <3>1, DeleteShowsBelow
      <3>2. CASE ChainBelow(k, MaxTopo + 1) /\ Live(k, at)
        <4>1. \A u \in Topo : from <= u /\ u < at => ~Live(k, u)
          BY <1>0, <2>0 DEF NoVersionAboveOrder, Topo
        <4> QED
          BY <1>0, <2>0, <3>2, <4>1, DeleteShowsBelow
      <3>3. CASE ChainBelow(k, MaxTopo + 1) /\ ~Live(k, at)
        BY <1>0, <2>0, <3>3, DeleteLeavesOthers
      <3> QED
        BY <1>0, <3>1, <3>2, <3>3 DEF ChainsWellFormed
    <2>3. ChainsWellFormed'
      BY <2>0, <2>2 DEF ChainsWellFormed, ChainBelow
    <2>4. \A k \in Cleaned, t \in Topo : Live(k, t)' => t # at /\ Live(k, t)
      BY <1>0, <2>0 DEF DeleteVersions, Live, TypeOK
    <2>5. NoVersionAboveOrder'
      BY <1>0, <1>2, <2>0, <2>4 DEF CleanTopoheight, NoVersionAboveOrder, TypeOK, Topo
    <2> QED
      BY <2>1, <2>3, <2>5 DEF IInv
  <1>3. CASE EndClean
    <2>1. TypeOK' /\ ModeInv'
      BY <1>0, <1>3 DEF EndClean, TypeOK, ModeInv, Modes, Topo
    <2>2. ASSUME NEW k \in Cleaned, NEW t \in Topo, Live(k, t) PROVE t <= ordered
      BY <1>0, <1>3, <2>2 DEF EndClean, NoVersionAboveOrder, TypeOK, Topo
    <2>3. NoVersionAboveOrder'
      BY <1>3, <2>2, SameTrees DEF EndClean, NoVersionAboveOrder
    <2>4. ASSUME NEW k \in Cleaned PROVE ChainBelow(k, MaxTopo + 1)
      <3>1. CASE ChainBelow(k, from)
        <4>1. pointer[k] \in Topo \cup {None}
          BY <1>0 DEF TypeOK
        <4>2. \A t \in Topo : Live(k, t) => t < from
          BY <1>0, <1>3, <2>2 DEF EndClean, ModeInv, TypeOK, Topo
        <4> QED
          BY <1>0, <3>1, <4>1, <4>2 DEF ChainBelow, Topo
      <3> QED
        BY <1>0, <3>1 DEF ChainsWellFormed
    <2>5. ChainsWellFormed'
      BY <1>3, <2>4, SameTrees DEF EndClean, ChainsWellFormed
    <2> QED
      BY <2>1, <2>3, <2>5 DEF IInv
  <1>4. ASSUME NEW W \in SUBSET Keys, NEW v \in Values, ExecuteBlock(W, v) PROVE IInv'
    <2>0. PICK n \in Topo :
            /\ at = n /\ n = ordered + 1 /\ ordered \in Int /\ ordered' = n
            /\ mode = "execute" /\ mode' = "execute" /\ at' = n + 1
      BY <1>0, <1>4 DEF ExecuteBlock, TypeOK, ModeInv, Topo
    <2>a. PICK read \in [W -> Topo \cup {None}] : \A k \in W : read[k] = AtMaximum(k, n)
      <3>1. \A k \in W : AtMaximum(k, n) \in Topo \cup {None}
        BY <1>4, <2>0 DEF ExecuteBlock
      <3>2. [k \in W |-> AtMaximum(k, n)] \in [W -> Topo \cup {None}]
        BY <3>1
      <3> QED
        BY <3>2
    <2>1. \A k \in W : [prev |-> read[k], val |-> v] \in Version
      BY <2>a DEF Version
    <2>2. pointer' = [k \in Keys |-> IF k \in W THEN n ELSE pointer[k]]
      BY <1>4, <2>0 DEF ExecuteBlock, SetLast
    <2>3. versioned' = [k \in Keys |->
                          IF k \in W
                          THEN [versioned[k] EXCEPT ![n] = [prev |-> read[k], val |-> v]]
                          ELSE versioned[k]]
      BY <1>4, <2>0, <2>a DEF ExecuteBlock, SetLast
    <2>4. TypeOK' /\ ModeInv'
      <3>1. pointer' \in [Keys -> Topo \cup {None}]
        BY <1>0, <2>2 DEF TypeOK
      <3>2. versioned' \in [Keys -> [Topo -> Version \cup {None}]]
        BY <1>0, <2>1, <2>3 DEF TypeOK
      <3> QED
        BY <1>0, <1>4, <2>0, <3>1, <3>2 DEF ExecuteBlock, TypeOK, ModeInv, Modes, Topo
    <2>5. /\ \A k \in W : versioned'[k][n] = [prev |-> read[k], val |-> v]
          /\ \A k \in Keys : \A t \in Topo :
                ~(k \in W /\ t = n) => versioned'[k][t] = versioned[k][t]
      BY <1>0, <2>3 DEF TypeOK
    <2>6. \A k \in Keys, t \in Topo : Live(k, t)' <=> (k \in W /\ t = n) \/ Live(k, t)
      <3>1. \A k \in W : versioned'[k][n] # None
        BY <2>1, <2>5, NoneAssumption
      <3>2. \A k \in Keys : \A t \in Topo :
              versioned'[k][t] # None <=> (k \in W /\ t = n) \/ versioned[k][t] # None
        BY <2>5, <3>1
      <3> QED
        BY <3>2 DEF Live
    <2>7. NoVersionAboveOrder'
      BY <1>0, <2>0, <2>6 DEF NoVersionAboveOrder, Topo
    <2>8. ASSUME NEW k \in Cleaned PROVE ChainBelow(k, MaxTopo + 1)'
      <3>0. k \in Keys /\ pointer[k] \in Topo \cup {None}
        BY <1>0 DEF TypeOK
      <3>1. ChainBelow(k, MaxTopo + 1)
        BY <1>0, <2>0 DEF ChainsWellFormed
      <3>2. \A t \in Topo : Live(k, t) => t < n
        BY <1>0, <2>0 DEF NoVersionAboveOrder, Topo
      <3>3. pointer'[k] = IF k \in W THEN n ELSE pointer[k]
        BY <2>2, <3>0
      <3>4. pointer[k] # None => pointer[k] \in Topo /\ pointer[k] < n /\ Live(k, pointer[k])
        BY <3>0, <3>1, <3>2 DEF ChainBelow
      <3>5. ASSUME NEW t \in Topo, Live(k, t)
            PROVE  pointer[k] # None /\ t <= pointer[k] /\ PreviousIsLastBelow(k, t)'
        <4>1. pointer[k] # None /\ t <= pointer[k] /\ PreviousIsLastBelow(k, t)
          BY <1>0, <3>1, <3>5 DEF ChainBelow, Topo
        <4>2. versioned[k][t].prev \in Topo \cup {None}
          BY <1>0, <3>0, <3>5 DEF TypeOK, Live, Version
        <4>3. \A u \in Topo : u <= t => versioned'[k][u] = versioned[k][u]
          BY <1>0, <2>5, <3>0, <3>2, <3>5 DEF Topo
        <4> QED
          BY <4>1, <4>2, <4>3, PreviousUnchanged
      <3>6. CASE k \notin W
        BY <1>0, <2>6, <3>0, <3>1, <3>3, <3>5, <3>6, NoneAssumption DEF ChainBelow, Topo
      <3>7. CASE k \in W
        <4>1. versioned'[k][n].prev = pointer[k]
          <5>1. AtMaximum(k, n) = pointer[k]
            <6>1. ~Live(k, n)
              BY <3>2 DEF Topo
            <6>2. pointer[k] # None => pointer[k] <= n
              BY <3>4 DEF Topo
            <6> QED
              BY <6>1, <6>2 DEF AtMaximum
          <5>2. read[k] = pointer[k]
            BY <2>a, <3>7, <5>1
          <5>3. versioned'[k][n] = [prev |-> read[k], val |-> v]
            BY <2>5, <3>7
          <5> QED
            BY <5>2, <5>3
        <4>2. Live(k, pointer[k])'
          <5>1. versioned'[k][n] # None
            BY <2>6, <3>0, <3>7 DEF Live
          <5> QED
            BY <3>3, <3>7, <5>1 DEF Live
        <4>3. PreviousIsLastBelow(k, n)'
          <5>1. pointer[k] # None => pointer[k] < n /\ Live(k, pointer[k])
            BY <3>4
          <5>2. pointer[k] # None => versioned'[k][pointer[k]] # None
            BY <2>5, <3>0, <3>4 DEF Live, Topo
          <5>3. \A u \in Topo : Live(k, u)' /\ u < n => pointer[k] # None /\ u <= pointer[k]
            BY <2>6, <3>0, <3>5 DEF Topo
          <5> QED
            BY <4>1, <5>1, <5>2, <5>3 DEF PreviousIsLastBelow, Live
        <4>4. ASSUME NEW t \in Topo, Live(k, t)'
              PROVE  t <= n /\ PreviousIsLastBelow(k, t)'
          <5>1. CASE t = n
            BY <4>3, <5>1 DEF Topo
          <5>2. CASE t # n
            BY <2>6, <3>0, <3>2, <3>5, <4>4, <5>2 DEF Topo
          <5> QED
            BY <5>1, <5>2
        <4> QED
          BY <3>3, <3>7, <4>2, <4>4, NoneAssumption DEF ChainBelow, Topo
      <3> QED
        BY <3>6, <3>7
    <2>9. ChainsWellFormed'
      BY <2>8 DEF ChainsWellFormed, ChainBelow
    <2> QED
      BY <2>4, <2>7, <2>9 DEF IInv
  <1>5. CASE EndReorder
    <2>1. TypeOK' /\ ModeInv'
      BY <1>0, <1>5 DEF EndReorder, TypeOK, ModeInv, Modes, Topo
    <2>2. ChainsWellFormed' /\ NoVersionAboveOrder'
      BY <1>0, <1>5, SameTrees DEF EndReorder, ChainsWellFormed, NoVersionAboveOrder
    <2> QED
      BY <2>1, <2>2 DEF IInv
  <1>6. CASE StartRewind
    <2>1. TypeOK' /\ ModeInv'
      BY <1>0, <1>6 DEF StartRewind, TypeOK, ModeInv, Modes, Topo
    <2>2. ChainsWellFormed' /\ NoVersionAboveOrder'
      BY <1>0, <1>6, SameTrees DEF StartRewind, ChainsWellFormed, NoVersionAboveOrder
    <2> QED
      BY <2>1, <2>2 DEF IInv
  <1>7. CASE PopTopoheight
    <2>0. PICK n \in Topo :
            /\ at = n /\ at' = n - 1 /\ 0 < n /\ ordered \in Int /\ ordered <= n
            /\ ordered' = (IF ordered < n THEN ordered ELSE n - 1)
            /\ pointer' = DeletePointers(n) /\ versioned' = DeleteVersions(n)
            /\ mode = "rewind" /\ mode' = "rewind"
      BY <1>0, <1>7 DEF PopTopoheight, TypeOK, ModeInv, Topo
    <2>1. TypeOK' /\ ModeInv'
      BY <1>0, <1>7, <2>0, DeleteTypes DEF PopTopoheight, TypeOK, ModeInv, Topo
    <2>2. \A k \in Cleaned, t \in Topo : Live(k, t)' => t # n /\ Live(k, t)
      BY <1>0, <2>0 DEF DeleteVersions, Live, TypeOK
    <2>3. NoVersionAboveOrder'
      BY <1>0, <2>0, <2>2 DEF NoVersionAboveOrder, Topo
    <2>4. ASSUME NEW k \in Cleaned PROVE ChainBelow(k, MaxTopo + 1)'
      <3>1. ChainBelow(k, MaxTopo + 1)
        BY <1>0, <2>0 DEF ChainsWellFormed
      <3>2. CASE ~Live(k, n)
        BY <1>0, <2>0, <3>1, <3>2, DeleteLeavesOthers
      <3>3. CASE Live(k, n)
        <4>1. \A u \in Topo : n <= u /\ u < n => ~Live(k, u)
          BY DEF Topo
        <4>2. ChainBelow(k, n)'
          BY <1>0, <2>0, <3>1, <3>3, <4>1, DeleteShowsBelow DEF Topo
        <4>3. \A t \in Topo : Live(k, t)' => t < n
          BY <1>0, <2>0, <2>2 DEF NoVersionAboveOrder, Topo
        <4>4. pointer'[k] \in Topo \cup {None}
          BY <1>0, <2>1 DEF TypeOK
        <4> QED
          BY <4>2, <4>3, <4>4, NoneAssumption DEF ChainBelow, Topo
      <3> QED
        BY <3>2, <3>3
    <2>5. ChainsWellFormed'
      BY <2>4 DEF ChainsWellFormed, ChainBelow
    <2> QED
      BY <2>1, <2>3, <2>5 DEF IInv
  <1>8. CASE EndRewind
    <2>1. TypeOK' /\ ModeInv'
      BY <1>0, <1>8 DEF EndRewind, TypeOK, ModeInv, Modes, Topo
    <2>2. ChainsWellFormed' /\ NoVersionAboveOrder'
      BY <1>0, <1>8, SameTrees DEF EndRewind, ChainsWellFormed, NoVersionAboveOrder
    <2> QED
      BY <2>1, <2>2 DEF IInv
  <1>9. CASE UNCHANGED vars
    <2>1. TypeOK' /\ ModeInv'
      BY <1>0, <1>9 DEF vars, TypeOK, ModeInv
    <2>2. ChainsWellFormed' /\ NoVersionAboveOrder'
      BY <1>0, <1>9, SameTrees DEF vars, ChainsWellFormed, NoVersionAboveOrder
    <2> QED
      BY <2>1, <2>2 DEF IInv
  <1> QED
    BY <1>1, <1>2, <1>3, <1>4, <1>5, <1>6, <1>7, <1>8, <1>9 DEF Next

\* The trees, their pointers and the counters keep their types.
THEOREM TypeCorrect == Spec => []TypeOK
  <1>1. IInv => TypeOK
    BY DEF IInv
  <1> QED
    BY <1>1, InitIInv, NextIInv, PTL DEF Spec

\* delete_versioned_tree_at_topoheight, applied in ascending order by a
\* re-ordering or in descending order by a rewind, never leaves a pointer or
\* a previous_topoheight to a version that is gone, and skips no version.
THEOREM ChainsStayWellFormed == Spec => []ChainsWellFormed
  <1>1. IInv => ChainsWellFormed
    BY DEF IInv
  <1> QED
    BY <1>1, InitIInv, NextIInv, PTL DEF Spec

\* No version written by a block that left the order is there when the next
\* block is executed at its topoheight.
THEOREM NothingAboveTheOrder == Spec => []NoVersionAboveOrder
  <1>1. IInv => NoVersionAboveOrder
    BY DEF IInv
  <1> QED
    BY <1>1, InitIInv, NextIInv, PTL DEF Spec
============================================================================
