------------------------- MODULE MCContractBalances -------------------------
(* Instance of VersionedData for TLC: one balance of a contract. *)
EXTENDS VersionedData
CONSTANTS contract, v1

MCKeys == {contract}
MCValues == {v1}
=============================================================================
