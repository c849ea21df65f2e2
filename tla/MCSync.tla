------------------------------- MODULE MCSync -------------------------------
(* Instances of WorkStatusSync for TLC.                                    *)
EXTENDS WorkStatusSync, TLC

CONSTANTS o1, w1, w2

\* Worker goroutines are interchangeable.
Threads == Permutations(Workers)
=============================================================================
