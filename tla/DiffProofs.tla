----------------------------- MODULE DiffProofs -----------------------------
(***************************************************************************)
(* Proofs about AddedRemovedInfo, for lists of any length.                 *)
(***************************************************************************)
EXTENDS AddedRemovedInfo, WellFoundedInduction, TLAPS

(* A list with the UID and the GVR of the i-th object at index i.          *)
IsInfo(info) ==
    /\ info \in [ObjectUIDs : Seq(UIDs), GVRs : Seq(GVRs)]
    /\ Len(info.ObjectUIDs) = Len(info.GVRs)

(* What a map of the code stands for: entries of a list.                   *)
Entries(m, info) == \A u \in DOMAIN m : <<u, m[u]>> \in ElementsOf(info)

(* The largest number of a set of indexes is one of them.                  *)
LEMMA MaxIsIndex ==
    ASSUME NEW n \in Nat, NEW S \in SUBSET (1 .. n), S # {}
    PROVE  Max(S) \in S
<1> DEFINE T == {n - i : i \in S}
           R == OpToRel(<, Nat)
<1> HIDE DEF R
<1>1. T \subseteq Nat /\ T # {}
  <2>1. \A i \in S : n - i \in Nat
    OBVIOUS
  <2>2. T \subseteq Nat
    BY <2>1
  <2>3. T # {}
    BY Zenon
  <2> QED
    BY <2>2, <2>3
<1>2. \A x, y \in Nat : <<x, y>> \in R <=> x < y
  BY Zenon DEF R, OpToRel
<1>3. PICK t \in T : \A y \in T : ~(<<y, t>> \in R)
  <2>1. IsWellFoundedOn(R, Nat)
    BY NatLessThanWellFounded, Zenon DEF R
  <2> HIDE DEF T
  <2> QED
    BY <1>1, <2>1, WFMin
<1>4. PICK i \in S : t = n - i
  OBVIOUS
<1>5. \A j \in S : i >= j
  <2> SUFFICES ASSUME NEW j \in S PROVE i >= j
    OBVIOUS
  <2>1. n - j \in T /\ n - j \in Nat /\ t \in Nat
    BY <1>1
  <2>2. ~(n - j < t)
    BY <1>2, <1>3, <2>1
  <2> QED
    BY <1>4, <2>2
<1> QED
  BY <1>5 DEF Max

(* The arguments are such lists.                                           *)
LEMMA InfoIsInfo == \A info \in Info : IsInfo(info)
<1> SUFFICES ASSUME NEW n \in 0 .. MaxLen,
                    NEW info \in [ObjectUIDs : [1 .. n -> UIDs], GVRs : [1 .. n -> GVRs]]
             PROVE  IsInfo(info)
  BY DEF Info
<1>1. n \in Nat
  BY MaxLenAssumption
<1>2. info.ObjectUIDs \in Seq(UIDs) /\ info.GVRs \in Seq(GVRs)
  BY <1>1
<1>3. Len(info.ObjectUIDs) = n /\ Len(info.GVRs) = n
  BY <1>1
<1> QED
  BY <1>2, <1>3 DEF IsInfo

(* The empty list, and what it lists.                                      *)
LEMMA EmptyIsInfo ==
    /\ IsInfo(Empty) /\ UIDsOf(Empty) = {} /\ ElementsOf(Empty) = {}
    /\ \A info : IsInfo(info) /\ Len(info.ObjectUIDs) = 0 => UIDsOf(info) = {}
  BY DEF IsInfo, Empty, UIDsOf, ElementsOf, Range

(* append adds one entry, at the same index of both slices.                *)
LEMMA AppendEntry ==
    ASSUME NEW info, IsInfo(info), NEW u \in UIDs, NEW g \in GVRs
    PROVE  /\ IsInfo(append(info, u, g))
           /\ UIDsOf(append(info, u, g)) = UIDsOf(info) \cup {u}
           /\ ElementsOf(append(info, u, g)) = ElementsOf(info) \cup {<<u, g>>}
<1> DEFINE s == info.ObjectUIDs
           t == info.GVRs
           n == Len(s)
           a == append(info, u, g)
<1>1. s \in Seq(UIDs) /\ t \in Seq(GVRs) /\ Len(t) = n /\ n \in Nat
  BY DEF IsInfo
<1>2. a.ObjectUIDs = Append(s, u) /\ a.GVRs = Append(t, g) /\ a = [ObjectUIDs |-> Append(s, u), GVRs |-> Append(t, g)]
  BY DEF append
<1> HIDE DEF s, t, a
<1>3. /\ Append(s, u) \in Seq(UIDs) /\ Append(t, g) \in Seq(GVRs)
      /\ Len(Append(s, u)) = n + 1 /\ Len(Append(t, g)) = n + 1
      /\ DOMAIN Append(s, u) = 1 .. n + 1 /\ DOMAIN s = 1 .. n
      /\ Append(s, u)[n + 1] = u /\ Append(t, g)[n + 1] = g
      /\ \A i \in 1 .. n : Append(s, u)[i] = s[i] /\ Append(t, g)[i] = t[i]
  BY <1>1
<1>4. IsInfo(a)
  BY <1>2, <1>3 DEF IsInfo
<1>5. 1 .. n + 1 = (1 .. n) \cup {n + 1}
  BY <1>1
<1>6. UIDsOf(a) = UIDsOf(info) \cup {u}
  BY <1>2, <1>3, <1>5 DEF UIDsOf, Range, s
<1>7. ElementsOf(a) = ElementsOf(info) \cup {<<u, g>>}
  BY <1>2, <1>3, <1>5 DEF ElementsOf, s, t
<1> QED
  BY <1>4, <1>6, <1>7 DEF a

(* Entries of a list have their types, and a UID of the list is in one.    *)
LEMMA ElementsType ==
    ASSUME NEW info, IsInfo(info)
    PROVE  /\ ElementsOf(info) \subseteq UIDs \X GVRs
           /\ UIDsOf(info) \subseteq UIDs
<1>1. /\ info.ObjectUIDs \in Seq(UIDs) /\ info.GVRs \in Seq(GVRs)
      /\ DOMAIN info.ObjectUIDs = DOMAIN info.GVRs
  BY DEF IsInfo
<1> QED
  BY <1>1 DEF ElementsOf, UIDsOf, Range

(* The map made of a list has its UIDs, each with the GVR of an entry.     *)
LEMMA ToMapEntries ==
    ASSUME NEW info, IsInfo(info)
    PROVE  DOMAIN ToMap(info) = UIDsOf(info) /\ Entries(ToMap(info), info)
<1>1. DOMAIN ToMap(info) = UIDsOf(info)
  BY DEF ToMap, UIDsOf
<1>2. ASSUME NEW u \in UIDsOf(info)
      PROVE  <<u, ToMap(info)[u]>> \in ElementsOf(info)
  <2> DEFINE n == Len(info.ObjectUIDs)
             S == {i \in DOMAIN info.ObjectUIDs : info.ObjectUIDs[i] = u}
  <2>1. n \in Nat /\ DOMAIN info.ObjectUIDs = 1 .. n
    BY DEF IsInfo
  <2>2. S # {} /\ S \in SUBSET (1 .. n)
    BY <2>1 DEF UIDsOf, Range
  <2>3. Max(S) \in S
    <3> HIDE DEF S, n
    <3> QED
      BY <2>1, <2>2, MaxIsIndex
  <2>4. ToMap(info)[u] = info.GVRs[Max(S)]
    BY DEF ToMap, UIDsOf
  <2> QED
    BY <2>3, <2>4 DEF ElementsOf
<1> QED
  BY <1>1, <1>2 DEF Entries
-----------------------------------------------------------------------------
(* How far the loops have come: what was visited is in a result or, when   *)
(* both lists have it, in none and no longer in mapUpdated.                *)
BaseLoop ==
    /\ DOMAIN mapBase = UIDsOf(base) /\ Entries(mapBase, base)
    /\ todo \subseteq UIDsOf(base)
    /\ DOMAIN mapUpdated = UIDsOf(updated) \ (UIDsOf(base) \ todo)
    /\ UIDsOf(removed) = (UIDsOf(base) \ todo) \ UIDsOf(updated)
    /\ UIDsOf(added) = {}

UpdatedLoop ==
    /\ DOMAIN mapUpdated = UIDsOf(updated) \ UIDsOf(base)
    /\ todo \subseteq DOMAIN mapUpdated
    /\ UIDsOf(removed) = UIDsOf(base) \ UIDsOf(updated)
    /\ UIDsOf(added) = DOMAIN mapUpdated \ todo

DiffInv ==
    /\ IsInfo(base) /\ IsInfo(updated) /\ IsInfo(added) /\ IsInfo(removed)
    /\ ElementsOf(added) \subseteq ElementsOf(updated)
    /\ ElementsOf(removed) \subseteq ElementsOf(base)
    /\ pc = "start" => UIDsOf(added) = {} /\ UIDsOf(removed) = {}
    /\ pc \in {"base", "updated"} => Entries(mapUpdated, updated)
    /\ pc = "base" => BaseLoop
    /\ pc = "updated" => UpdatedLoop
    /\ DifferencesOfUIDs

(* Every step keeps the invariant.                                         *)
LEMMA DiffStep == DiffInv /\ [Next]_vars => DiffInv'
<1> SUFFICES ASSUME DiffInv, [Next]_vars PROVE DiffInv'
  OBVIOUS
<1> USE DEF DiffInv
<1>1. CASE UNCHANGED vars
  BY <1>1 DEF vars, BaseLoop, UpdatedLoop, DifferencesOfUIDs
<1>2. CASE baseEmpty
  BY <1>2, EmptyIsInfo DEF baseEmpty, DifferencesOfUIDs
<1>3. CASE updatedEmpty
  BY <1>3, EmptyIsInfo DEF updatedEmpty, DifferencesOfUIDs
<1>4. CASE buildMaps
  <2>1. /\ UNCHANGED <<base, updated, added, removed>> /\ pc = "start" /\ pc' = "base"
        /\ mapBase' = ToMap(base) /\ mapUpdated' = ToMap(updated) /\ todo' = DOMAIN mapBase'
    BY <1>4 DEF buildMaps
  <2>2. /\ DOMAIN mapBase' = UIDsOf(base) /\ Entries(mapBase', base)
        /\ DOMAIN mapUpdated' = UIDsOf(updated) /\ Entries(mapUpdated', updated)
    BY <2>1, ToMapEntries
  <2>3. BaseLoop' /\ Entries(mapUpdated, updated)'
    BY <2>1, <2>2 DEF BaseLoop, Entries
  <2> QED
    BY <2>1, <2>3 DEF DifferencesOfUIDs
<1>5. ASSUME NEW u \in todo, rangeBase(u) PROVE DiffInv'
  <2>1. /\ UNCHANGED <<base, updated, pc, mapBase, added>> /\ pc = "base" /\ todo' = todo \ {u}
        /\ BaseLoop /\ Entries(mapUpdated, updated) /\ u \in UIDsOf(base)
    BY <1>5 DEF rangeBase, BaseLoop
  <2>2. CASE u \notin DOMAIN mapUpdated
    <3>1. removed' = append(removed, u, mapBase[u]) /\ UNCHANGED mapUpdated
      BY <1>5, <2>2 DEF rangeBase
    <3>2. <<u, mapBase[u]>> \in ElementsOf(base)
      BY <2>1 DEF BaseLoop, Entries
    <3>3. u \in UIDs /\ mapBase[u] \in GVRs
      BY <3>2, ElementsType
    <3>4. /\ IsInfo(removed') /\ UIDsOf(removed') = UIDsOf(removed) \cup {u}
          /\ ElementsOf(removed') = ElementsOf(removed) \cup {<<u, mapBase[u]>>}
      BY <3>1, <3>3, AppendEntry
    <3>5. BaseLoop'
      BY <2>1, <2>2, <3>1, <3>4 DEF BaseLoop, Entries
    <3> QED
      BY <2>1, <3>1, <3>2, <3>4, <3>5 DEF DifferencesOfUIDs, Entries
  <2>3. CASE u \in DOMAIN mapUpdated
    <3>1. mapUpdated' = delete(mapUpdated, u) /\ UNCHANGED removed
      BY <1>5, <2>3 DEF rangeBase
    <3>2. /\ DOMAIN mapUpdated' = DOMAIN mapUpdated \ {u}
          /\ \A x \in DOMAIN mapUpdated' : mapUpdated'[x] = mapUpdated[x]
      BY <3>1 DEF delete, Restrict
    <3>3. BaseLoop'
      BY <2>1, <2>3, <3>1, <3>2 DEF BaseLoop, Entries
    <3>4. Entries(mapUpdated, updated)'
      BY <2>1, <3>2 DEF Entries
    <3> QED
      BY <2>1, <3>1, <3>3, <3>4 DEF DifferencesOfUIDs
  <2> QED
    BY <2>2, <2>3
<1>6. CASE baseDone
  <2>1. /\ UNCHANGED <<base, updated, mapBase, mapUpdated, added, removed>>
        /\ pc = "base" /\ pc' = "updated" /\ todo = {} /\ todo' = DOMAIN mapUpdated
    BY <1>6 DEF baseDone
  <2>2. UpdatedLoop'
    BY <2>1 DEF BaseLoop, UpdatedLoop
  <2> QED
    BY <2>1, <2>2 DEF DifferencesOfUIDs, Entries
<1>7. ASSUME NEW u \in todo, rangeUpdated(u) PROVE DiffInv'
  <2>1. /\ UNCHANGED <<base, updated, pc, mapBase, mapUpdated, removed>> /\ pc = "updated"
        /\ todo' = todo \ {u} /\ added' = append(added, u, mapUpdated[u])
    BY <1>7 DEF rangeUpdated
  <2>2. u \in DOMAIN mapUpdated /\ <<u, mapUpdated[u]>> \in ElementsOf(updated)
    BY <2>1 DEF UpdatedLoop, Entries
  <2>3. u \in UIDs /\ mapUpdated[u] \in GVRs
    BY <2>2, ElementsType
  <2>4. /\ IsInfo(added') /\ UIDsOf(added') = UIDsOf(added) \cup {u}
        /\ ElementsOf(added') = ElementsOf(added) \cup {<<u, mapUpdated[u]>>}
    BY <2>1, <2>3, AppendEntry
  <2>5. UpdatedLoop'
    BY <2>1, <2>2, <2>4 DEF UpdatedLoop
  <2> QED
    BY <2>1, <2>2, <2>4, <2>5 DEF DifferencesOfUIDs, Entries
<1>8. CASE updatedDone
  BY <1>8 DEF updatedDone, UpdatedLoop, DifferencesOfUIDs
<1> QED
  BY <1>1, <1>2, <1>3, <1>4, <1>5, <1>6, <1>7, <1>8 DEF Next

(* The initial states are states of the invariant.                         *)
LEMMA DiffInit == Init => DiffInv
  BY InfoIsInfo, EmptyIsInfo DEF Init, DiffInv, DifferencesOfUIDs

(* Whatever order the maps are visited in, the results are the differences *)
(* of the two lists on UIDs, for lists of any length.                      *)
THEOREM Differences == Spec => []DifferencesOfUIDs
<1>1. DiffInv => DifferencesOfUIDs
  BY DEF DiffInv
<1> QED
  BY <1>1, DiffInit, DiffStep, PTL DEF Spec

(* The UID and the GVR at an index of a result belong to one object.       *)
THEOREM SameIndex == Spec => []IndexesAgree
<1>1. DiffInv => IndexesAgree
  BY DEF DiffInv, IndexesAgree, IsInfo
<1> QED
  BY <1>1, DiffInit, DiffStep, PTL DEF Spec
=============================================================================
