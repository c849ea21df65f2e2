------------------------------ MODULE SafeMaps ------------------------------
(***************************************************************************)
(* The maps of pkg/util/safemaps.go.  Each operation holds the map's mutex *)
(* for its whole body, so each is one atomic update of a function value;   *)
(* two operations in a row are two steps.                                  *)
(*                                                                         *)
(* A SafeMap is a function from keys to values, with the value Absent for  *)
(* a key that is not in the Go map.  A SafeUIDMap is a function from keys  *)
(* to sets of UIDs; a missing inner map and an empty one have the same     *)
(* count and are both {}.                                                  *)
(***************************************************************************)
EXTENDS Naturals, FiniteSets

Set(m, key, value) == [m EXCEPT ![key] = value]

\* Mutant: the entry stays.
DeleteNothing(m, key, Absent) == m
Delete(m, key, Absent) == [m EXCEPT ![key] = Absent]

\* Mutant: the key is stored in place of the UID.
AddKey(m, key, uid) == [m EXCEPT ![key] = @ \cup {key}]
AddUID(m, key, uid) == [m EXCEPT ![key] = @ \cup {uid}]

\* Mutant: the whole inner map goes.
DeleteAllUIDs(m, key, uid) == [m EXCEPT ![key] = {}]
DeleteUID(m, key, uid) == [m EXCEPT ![key] = @ \ {uid}]

GetUIDCount(m, key) == Cardinality(m[key])
=============================================================================
