------------------------------- MODULE MCPool -------------------------------
(* Model-checking instances of Pool.                                         *)
EXTENDS Pool, TLC

CONSTANTS a, b   \* names

Symmetry == Permutations(Callers)

\* The daemon's filter is a regular expression: "a" lets through "ab", say.
Regexp == [n \in {a, b} |-> IF n = a THEN {a, b} ELSE {b}]

\* Two goroutines at once with a lost call; a sequence of operations.
AtOnce == [serial |-> FALSE, networkID |-> TRUE, ops |-> 4, maxFaults |-> 1]
InTurn == [serial |-> TRUE, networkID |-> FALSE, ops |-> 6, maxFaults |-> 0]
Both   == {AtOnce, InTurn}
=============================================================================
