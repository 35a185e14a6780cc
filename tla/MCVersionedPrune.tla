-------------------------- MODULE MCVersionedPrune --------------------------
(* Instance of VersionedPrune for TLC: one balance. *)
EXTENDS VersionedPrune
CONSTANTS balance, received, spent

MCKeys == {balance}
MCValues == {received, spent}
MCOutputValues == {spent}
MCNone == {}
============================================================================
