----------------------------- MODULE MCSnapshot -----------------------------
(* Instance of Snapshot for TLC. *)
EXTENDS Snapshot
CONSTANTS k1, k2, v1, v2

MCKeys == {k1, k2}
MCValues == {v1, v2}
=============================================================================
