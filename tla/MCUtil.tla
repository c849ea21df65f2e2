------------------------------- MODULE MCUtil -------------------------------
(* The pure helpers of pkg/util for TLC: an initial state has the inputs   *)
(* of one of them.                                                         *)
EXTENDS AddedRemovedInfo, WorkStatusNames, TLC

CONSTANTS u1, u2, u3, g1, g2

\* Neither UIDs nor GVRs are told apart.
Symmetry == Permutations(UIDs) \cup Permutations(GVRs)

TwoWorks   == {<<"1">>, <<"2">>}
OneWork    == {<<"1">>}
CoreGroup  == {<< >>}
OneVersion == {<<"v">>}
OneKind    == {<<"K">>}
TwoGroups  == {<< >>, <<"g">>}
TwoVersions == {<<"v">>, <<"g", "v">>}
TwoKinds   == {<<"K">>, <<"k">>}
Dashes     == {<< >>, <<"a">>, <<"a", "-", "a">>}
ShortAndLong == {<<"a">>, <<"a", "-", "a">>, <<"a", "a", "a", "a">>,
                 <<"a", "a", "a", "g">>}
Characters == {"1", "2", "g", "v", "K", "k", "a", "-", "/"}
LowerCase  == [c \in Characters |-> IF c = "K" THEN "k" ELSE c]

UtilInit ==
    \/ Init /\ objects = << >> /\ built = << >>
    \/ /\ NamesInit
       /\ base = Empty /\ updated = Empty /\ pc = "none" /\ mapBase = << >>
       /\ mapUpdated = << >> /\ todo = {} /\ added = Empty /\ removed = Empty

UtilNext ==
    \/ Next /\ UNCHANGED nameVars
    \/ build /\ UNCHANGED vars

UtilSpec == UtilInit /\ [][UtilNext]_<<vars, nameVars>>
=============================================================================
