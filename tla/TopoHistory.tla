---------------------------- MODULE TopoHistory ----------------------------
(***************************************************************************)
(* What the versioned trees promise: the state of the chain as of every    *)
(* topoheight of the current order.  history[i] is the value of each key   *)
(* after the first i blocks of the order (topoheights 0 .. i - 1).         *)
(***************************************************************************)
EXTENDS Integers, Sequences

CONSTANTS Keys, Values, None

VARIABLE history

Blank == [k \in Keys |-> None]

StateAtTop == IF history = << >> THEN Blank ELSE history[Len(history)]

Execute(W, v) ==
    history' = Append(history, [k \in Keys |-> IF k \in W THEN v
                                               ELSE StateAtTop[k]])

\* A re-ordering or a rewind keeps the first n blocks.
Keep(n) == history' = SubSeq(history, 1, n)

Init == \E W \in SUBSET Keys, v \in Values :
            history = << [k \in Keys |-> IF k \in W THEN v ELSE None] >>

Next == \/ \E W \in SUBSET Keys, v \in Values : Execute(W, v)
        \/ \E n \in 0 .. Len(history) : Keep(n)

Spec == Init /\ [][Next]_history
============================================================================
