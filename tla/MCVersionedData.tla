-------------------------- MODULE MCVersionedData --------------------------
(* Instance of VersionedData for TLC. *)
EXTENDS VersionedData, TLC
CONSTANTS k1, k2, v1, v2

MCKeys == {k1, k2}
MCContractBalanceKeys == {}
MCValues == {v1, v2}
MCSymmetry == Permutations(MCKeys) \cup Permutations(MCValues)
============================================================================
