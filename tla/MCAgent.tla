------------------------------ MODULE MCAgent ------------------------------
(* An instance of StatusAgent for TLC.                                     *)
EXTENDS StatusAgent, TLC

CONSTANTS u1, u2, w1, w2, s1, s2

SameKind == [u \in UIDs |-> K]
AllInOne == [m \in {AW} |-> UIDs]

\* Goroutines and objects are interchangeable.
Symmetry == Permutations(Workers) \cup Permutations(Starters) \cup Permutations(UIDs)
=============================================================================
