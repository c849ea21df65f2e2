-------------------------- MODULE AddedRemovedInfo --------------------------
(***************************************************************************)
(* GetAddedRemovedInfo of pkg/util/utils.go, which compares the list of    *)
(* objects a work had with the one it has now.  An AppliedManifestInfo is  *)
(* two slices with the UID and the GVR of the i-th object at index i; the  *)
(* caller starts and stops informers by walking both by index.  The order  *)
(* in which Go ranges over a map is arbitrary.                             *)
(***************************************************************************)
EXTENDS Naturals, Sequences, FiniteSetsExt, Functions

CONSTANTS UIDs, GVRs, MaxLen   \* MaxLen bounds the length of a list

ASSUME MaxLenAssumption == MaxLen \in Nat

VARIABLES
    base, updated,        \* the arguments
    pc,                   \* "start", "base", "updated", "done"
    mapBase, mapUpdated,  \* UID -> GVR, for the keys the Go map has
    todo,                 \* keys the current range loop has not visited
    added, removed        \* the results

vars == <<base, updated, pc, mapBase, mapUpdated, todo, added, removed>>

Info  == UNION {[ObjectUIDs : [1 .. n -> UIDs], GVRs : [1 .. n -> GVRs]]
                    : n \in 0 .. MaxLen}
Empty == [ObjectUIDs |-> << >>, GVRs |-> << >>]

\* A UID listed twice keeps the GVR of its last entry.
ToMap(info) == [u \in Range(info.ObjectUIDs) |->
    info.GVRs[Max({i \in DOMAIN info.ObjectUIDs : info.ObjectUIDs[i] = u})]]

\* Mutant: the GVR is put at the front.
appendSwapped(info, u, g) == [ObjectUIDs |-> Append(info.ObjectUIDs, u),
                              GVRs       |-> <<g>> \o info.GVRs]
append(info, u, g) == [ObjectUIDs |-> Append(info.ObjectUIDs, u),
                       GVRs       |-> Append(info.GVRs, g)]

\* Mutant: nothing is deleted.
keep(m, u)   == m
delete(m, u) == Restrict(m, DOMAIN m \ {u})

Init ==
    /\ base \in Info /\ updated \in Info
    /\ pc = "start"
    /\ mapBase = << >> /\ mapUpdated = << >> /\ todo = {}
    /\ added = Empty /\ removed = Empty

(* The early returns hand out the argument itself.                         *)
baseEmpty ==
    /\ pc = "start" /\ Len(base.ObjectUIDs) = 0
    /\ added' = updated /\ pc' = "done"
    /\ UNCHANGED <<base, updated, mapBase, mapUpdated, todo, removed>>

updatedEmpty ==
    /\ pc = "start" /\ Len(base.ObjectUIDs) # 0 /\ Len(updated.ObjectUIDs) = 0
    /\ removed' = base /\ pc' = "done"
    /\ UNCHANGED <<base, updated, mapBase, mapUpdated, todo, added>>

buildMaps ==
    /\ pc = "start" /\ Len(base.ObjectUIDs) # 0 /\ Len(updated.ObjectUIDs) # 0
    /\ mapBase' = ToMap(base) /\ mapUpdated' = ToMap(updated)
    /\ todo' = DOMAIN mapBase' /\ pc' = "base"
    /\ UNCHANGED <<base, updated, added, removed>>

rangeBase(u) ==
    /\ pc = "base" /\ u \in todo
    /\ todo' = todo \ {u}
    /\ \/ /\ u \notin DOMAIN mapUpdated
          /\ removed' = append(removed, u, mapBase[u])
          /\ UNCHANGED mapUpdated
       \/ /\ u \in DOMAIN mapUpdated
          /\ mapUpdated' = delete(mapUpdated, u)
          /\ UNCHANGED removed
    /\ UNCHANGED <<base, updated, pc, mapBase, added>>

baseDone ==
    /\ pc = "base" /\ todo = {}
    /\ todo' = DOMAIN mapUpdated /\ pc' = "updated"
    /\ UNCHANGED <<base, updated, mapBase, mapUpdated, added, removed>>

rangeUpdated(u) ==
    /\ pc = "updated" /\ u \in todo
    /\ todo' = todo \ {u}
    /\ added' = append(added, u, mapUpdated[u])
    /\ UNCHANGED <<base, updated, pc, mapBase, mapUpdated, removed>>

updatedDone ==
    /\ pc = "updated" /\ todo = {}
    /\ pc' = "done"
    /\ UNCHANGED <<base, updated, mapBase, mapUpdated, todo, added, removed>>

Next ==
    \/ baseEmpty \/ updatedEmpty \/ buildMaps
    \/ \E u \in todo : rangeBase(u) \/ rangeUpdated(u)
    \/ baseDone \/ updatedDone

Spec == Init /\ [][Next]_vars
-----------------------------------------------------------------------------
UIDsOf(info)     == Range(info.ObjectUIDs)
ElementsOf(info) == {<<info.ObjectUIDs[i], info.GVRs[i]>> : i \in DOMAIN info.ObjectUIDs}

(* The loops compute set differences on UIDs, whatever order the maps are  *)
(* visited in: what InformerRegistry's Added and Removed stand for.        *)
DifferencesOfUIDs ==
    pc = "done" =>
        /\ UIDsOf(added) = UIDsOf(updated) \ UIDsOf(base)
        /\ UIDsOf(removed) = UIDsOf(base) \ UIDsOf(updated)

(* At every index of a result the UID and the GVR belong to one entry of   *)
(* the list it comes from: walking both slices by index never counts an    *)
(* object under the kind of another.                                       *)
IndexesAgree ==
    /\ Len(added.GVRs) = Len(added.ObjectUIDs)
    /\ Len(removed.GVRs) = Len(removed.ObjectUIDs)
    /\ ElementsOf(added) \subseteq ElementsOf(updated)
    /\ ElementsOf(removed) \subseteq ElementsOf(base)
=============================================================================
