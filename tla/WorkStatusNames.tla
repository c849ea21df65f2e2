--------------------------- MODULE WorkStatusNames ---------------------------
(***************************************************************************)
(* The names pkg/util gives to things: the keys of the agent's maps and of *)
(* its queue, and the names of WorkStatuses.  WorkStatusSync takes for     *)
(* granted that every object has a WorkStatus and a key of its own; this   *)
(* module says when that is so.  A text is a sequence of characters.       *)
(***************************************************************************)
EXTENDS Naturals, Sequences

CONSTANTS
    WorkUIDs,   \* UIDs of AppliedManifestWorks
    Groups, Versions, KindNames, Namespaces, Names,  \* what objects are called
    MaxNameLen, \* 253 in the code
    Chars,      \* characters
    Lower       \* character -> its lower case

ASSUME CharsAssumption ==
    /\ {"-", "/"} \subseteq Chars /\ Lower \in [Chars -> Chars]
    /\ WorkUIDs \subseteq Seq(Chars)
    /\ Groups \cup Versions \cup KindNames \cup Namespaces \cup Names \subseteq Seq(Chars)

\* UIDs have one length, and the API server accepts no "/" in the others.
ASSUME TextsAssumption ==
    /\ MaxNameLen \in Nat
    /\ \A s, t \in WorkUIDs : Len(s) = Len(t) /\ Len(s) <= MaxNameLen
    /\ \A s \in Groups \cup Versions \cup KindNames \cup Namespaces \cup Names :
          \A i \in DOMAIN s : s[i] # "/"

VARIABLES
    objects,  \* two objects, or none
    built     \* what was built for them: for each its name and its keys

nameVars == <<objects, built>>

Obj == [uid : WorkUIDs, group : Groups, version : Versions, kind : KindNames,
        namespace : Namespaces, name : Names]
-----------------------------------------------------------------------------
(* schema.GroupVersion.String and cache.MetaNamespaceKeyFunc.              *)
GroupVersion(o) ==
    IF o.group = << >> THEN o.version ELSE o.group \o <<"/">> \o o.version
MetaNamespaceKey(o) ==
    IF o.namespace = << >> THEN o.name ELSE o.namespace \o <<"/">> \o o.name

KeyForGroupVersionKindNamespaceName(o) ==
    [GvkKey           |-> GroupVersion(o) \o <<"/">> \o o.kind,
     NamespaceNameKey |-> MetaNamespaceKey(o)]

\* Mutant: no special case for the core group.
KeyWithGroup(group, version, kind) ==
    group \o <<"/">> \o version \o <<"/">> \o kind
KeyForGroupVersionKind(group, version, kind) ==
    IF group = << >>
    THEN version \o <<"/">> \o kind
    ELSE group \o <<"/">> \o version \o <<"/">> \o kind

\* strings.ReplaceAll(s, c, "").
RemoveAll(s, c) ==
    LET rest[i \in 0 .. Len(s)] ==
            IF i = 0 THEN << >>
            ELSE IF s[i] = c THEN rest[i - 1] ELSE Append(rest[i - 1], s[i])
    IN  rest[Len(s)]

ToLower(s) == [i \in DOMAIN s |-> Lower[s[i]]]

truncateString(s, maxLen) == IF Len(s) > maxLen THEN SubSeq(s, 1, maxLen) ELSE s

FullName(o) ==
    o.uid \o <<"-">>
    \o ToLower(RemoveAll(GroupVersion(o), "/")) \o <<"-">>
    \o ToLower(o.kind) \o <<"-">> \o o.namespace \o <<"-">> \o o.name

BuildWorkstatusName(o) == truncateString(FullName(o), MaxNameLen)
-----------------------------------------------------------------------------
NamesInit == objects \in Obj \X Obj /\ built = << >>

build ==
    /\ objects # << >> /\ built = << >>
    /\ built' = [i \in 1 .. 2 |-> LET o == objects[i] IN
           [name   |-> BuildWorkstatusName(o),
            key    |-> KeyForGroupVersionKindNamespaceName(o),
            gvkKey |-> KeyForGroupVersionKind(o.group, o.version, o.kind)]]
    /\ UNCHANGED objects

NamesSpec == NamesInit /\ [][build]_nameVars
-----------------------------------------------------------------------------
(* Properties.                                                             *)

Dashed(s) == \E i \in DOMAIN s : s[i] = "-"

(* Every object has "a unique work status name" (pkg/util/utils.go:51).    *)
NamesUnique ==
    built # << >> /\ built[1].name = built[2].name => objects[1] = objects[2]

(* What is left of that: two objects share a WorkStatus only if one work   *)
(* delivers them, and they differ in kind, one name was cut, or a          *)
(* namespace has a dash and both namespace and name differ.                *)
SharedNamesExplained ==
    built # << >> /\ built[1].name = built[2].name =>
        LET x == objects[1]
            y == objects[2]
        IN  /\ x.uid = y.uid
            /\ \/ x = y
               \/ <<x.group, x.version, x.kind>> # <<y.group, y.version, y.kind>>
               \/ Len(FullName(x)) > MaxNameLen \/ Len(FullName(y)) > MaxNameLen
               \/ /\ x.namespace # y.namespace /\ x.name # y.name
                  /\ Dashed(x.namespace) \/ Dashed(y.namespace)

(* The key startInformer writes the maps with is the one the lookup of an  *)
(* object reads them with, and two objects have the same key only if they  *)
(* are the same object.                                                    *)
KeysTellApart ==
    built # << >> =>
        /\ \A i \in 1 .. 2 : built[i].key.GvkKey = built[i].gvkKey
        /\ built[1].key = built[2].key =>
              [objects[1] EXCEPT !.uid = << >>] = [objects[2] EXCEPT !.uid = << >>]
=============================================================================
