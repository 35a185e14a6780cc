------------------------------ MODULE MCChain ------------------------------
(* Instance of Chain for TLC. *)
EXTENDS Chain

\* Bound: a rewind, reload or restart may come at any point.  After it blocks
\* are added if fewer than four were ever received, or if all of them have the
\* lowest difficulty.
InterruptedBound(received) ==
    interruptions > 0 =>
        \/ Cardinality(DOMAIN headers \ {Genesis}) < 4
        \/ \A b \in DOMAIN received \ {Genesis} : received[b].difficulty = Min(Difficulties)

MCAddNewBlock(past) ==
    /\ InterruptedBound(headers)
    /\ AddNewBlock(past)
    /\ InterruptedBound(headers')

MCNext ==
    \/ \E past \in Pasts(storage) : MCAddNewBlock(past)
    \/ \E count \in 1..topoheight, stop \in BOOLEAN : RewindChain(count, stop)
    \/ ReloadFromDisk
    \/ Restart

MCSpec == Init /\ [][MCNext]_vars
============================================================================
