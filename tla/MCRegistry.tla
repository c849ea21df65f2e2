----------------------------- MODULE MCRegistry -----------------------------
(* Instances of InformerRegistry for TLC.                                  *)
EXTENDS InformerRegistry, TLC

CONSTANTS n1, n2, u1, u2, u3, k1, k2, w1, w2, s1, s2

\* All objects are of the same kind.
SameKind == [u \in UIDs |-> k1]
\* Three objects, the third of a kind without status.
WithExcluded == [u \in {u1, u2, u3} |-> IF u = u3 THEN k2 ELSE k1]

\* Each work has objects of its own.
Disjoint == [n \in {n1, n2} |-> IF n = n1 THEN {u1} ELSE {u2}]
\* One work owns everything.
AllInOne == [n \in {n1} |-> UIDs]

\* Goroutines are interchangeable; so are the objects of the first kind.
Threads == Permutations(Workers) \cup Permutations(Starters)
ThreadsAndUIDs == Threads \cup Permutations({u1, u2})
=============================================================================
