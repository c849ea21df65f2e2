----------------------------- MODULE NamesProofs -----------------------------
(***************************************************************************)
(* Proofs about WorkStatusNames, for texts of any length over any          *)
(* characters.                                                             *)
(***************************************************************************)
EXTENDS WorkStatusNames, SequenceTheorems, WellFoundedInduction, TLAPS

(* A character that does not occur in a text.                              *)
Free(c, s) == \A i \in 1 .. Len(s) : s[i] # c

(* Two texts with a separator between them.                                *)
Join(c, s, t) == s \o <<c>> \o t

(* What a text followed by a separator and another text has at an index.   *)
LEMMA JoinedAt ==
    ASSUME NEW c \in Chars, NEW s \in Seq(Chars), NEW t \in Seq(Chars)
    PROVE  /\ s \o <<c>> \in Seq(Chars) /\ Join(c, s, t) \in Seq(Chars)
           /\ Len(Join(c, s, t)) = Len(s) + 1 + Len(t)
           /\ \A i \in 1 .. Len(s) : Join(c, s, t)[i] = s[i]
           /\ Join(c, s, t)[Len(s) + 1] = c
<1>1. <<c>> \in Seq(Chars) /\ Len(<<c>>) = 1 /\ <<c>>[1] = c
  OBVIOUS
<1>2. /\ s \o <<c>> \in Seq(Chars)
      /\ Len(s \o <<c>>) = Len(s) + 1
      /\ \A i \in 1 .. Len(s) + 1 :
             (s \o <<c>>)[i] = IF i <= Len(s) THEN s[i] ELSE <<c>>[i - Len(s)]
  BY <1>1, ConcatProperties
<1> DEFINE p == s \o <<c>>
<1> HIDE DEF p
<1>3. /\ p \o t \in Seq(Chars)
      /\ Len(p \o t) = Len(p) + Len(t)
      /\ \A i \in 1 .. Len(p) + Len(t) :
             (p \o t)[i] = IF i <= Len(p) THEN p[i] ELSE t[i - Len(p)]
  BY <1>2, ConcatProperties DEF p
<1>4. Len(s) \in Nat /\ Len(t) \in Nat
  BY LenProperties
<1>5. Len(p) = Len(s) + 1 /\ p[Len(s) + 1] = c /\ \A i \in 1 .. Len(s) : p[i] = s[i]
  BY <1>1, <1>2, <1>4 DEF p
<1> QED
  BY <1>2, <1>3, <1>4, <1>5 DEF p, Join

(* A text is split at the first separator in one way only.                 *)
LEMMA SplitAtFirst ==
    ASSUME NEW c \in Chars,
           NEW a \in Seq(Chars), NEW b \in Seq(Chars),
           NEW x \in Seq(Chars), NEW y \in Seq(Chars),
           Free(c, a), Free(c, b)
    PROVE  Join(c, a, x) = Join(c, b, y) => a = b /\ x = y
<1> DEFINE l == Join(c, a, x)
           r == Join(c, b, y)
           p == a \o <<c>>
<1>0. Len(a) \in Nat /\ Len(b) \in Nat
  BY LenProperties
<1>1. p \in Seq(Chars) /\ l[Len(a) + 1] = c /\ \A i \in 1 .. Len(a) : l[i] = a[i]
  BY JoinedAt
<1>2. r[Len(b) + 1] = c /\ \A i \in 1 .. Len(b) : r[i] = b[i]
  BY JoinedAt
<1> SUFFICES ASSUME l = r PROVE a = b /\ x = y
  OBVIOUS
<1>3. l = r /\ (a = b => p \o x = p \o y)
  BY DEF Join
<1> HIDE DEF l, r, p
<1>4. ~(Len(a) < Len(b)) /\ ~(Len(b) < Len(a))
  <2>1. ASSUME Len(a) < Len(b) PROVE FALSE
    <3>1. Len(a) + 1 \in 1 .. Len(b)
      BY <1>0, <2>1
    <3> QED
      BY <1>1, <1>2, <1>3, <3>1 DEF Free
  <2>2. ASSUME Len(b) < Len(a) PROVE FALSE
    <3>1. Len(b) + 1 \in 1 .. Len(a)
      BY <1>0, <2>2
    <3> QED
      BY <1>1, <1>2, <1>3, <3>1 DEF Free
  <2> QED
    BY <2>1, <2>2
<1>5. Len(a) = Len(b)
  BY <1>0, <1>4
<1>6. a = b
  BY <1>0, <1>1, <1>2, <1>3, <1>5, SeqEqual
<1> QED
  BY <1>1, <1>3, <1>6, ConcatSimplifications

(* Neither a text with a separator nor one without is taken for the other. *)
LEMMA JoinedIsNotFree ==
    ASSUME NEW c \in Chars, NEW a \in Seq(Chars), NEW b \in Seq(Chars),
           NEW y \in Seq(Chars), Free(c, a)
    PROVE  a # Join(c, b, y)
<1> SUFFICES ASSUME a = Join(c, b, y) PROVE FALSE
  OBVIOUS
<1>1. /\ Len(a) = Len(b) + 1 + Len(y) /\ a[Len(b) + 1] = c
      /\ Len(b) \in Nat /\ Len(y) \in Nat
  BY JoinedAt, LenProperties
<1> QED
  BY <1>1 DEF Free

(* The parts of an object are texts without a slash.                       *)
LEMMA PartsOf ==
    ASSUME NEW o \in Obj
    PROVE  /\ o.uid \in WorkUIDs /\ o.uid \in Seq(Chars)
           /\ o.group \in Seq(Chars) /\ Free("/", o.group)
           /\ o.version \in Seq(Chars) /\ Free("/", o.version)
           /\ o.kind \in Seq(Chars) /\ Free("/", o.kind)
           /\ o.namespace \in Seq(Chars) /\ Free("/", o.namespace)
           /\ o.name \in Seq(Chars) /\ Free("/", o.name)
           /\ "/" \in Chars /\ "-" \in Chars
<1> DEFINE T == Groups \cup Versions \cup KindNames \cup Namespaces \cup Names
<1>1. \A s \in T : s \in Seq(Chars) /\ Free("/", s)
  <2> SUFFICES ASSUME NEW s \in T PROVE s \in Seq(Chars) /\ Free("/", s)
    OBVIOUS
  <2>1. s \in Seq(Chars) /\ \A i \in DOMAIN s : s[i] # "/"
    BY CharsAssumption, TextsAssumption
  <2>2. DOMAIN s = 1 .. Len(s)
    BY <2>1, LenProperties
  <2> QED
    BY <2>1, <2>2 DEF Free
<1>2. /\ o.uid \in WorkUIDs /\ o.group \in T /\ o.version \in T /\ o.kind \in T
      /\ o.namespace \in T /\ o.name \in T
  BY DEF Obj
<1> HIDE DEF T
<1> QED
  BY <1>1, <1>2, CharsAssumption
-----------------------------------------------------------------------------
(* Keys.                                                                   *)

(* Joining is associative, so that the first separator may be taken first. *)
LEMMA JoinedTwice ==
    ASSUME NEW c \in Chars, NEW g \in Seq(Chars), NEW v \in Seq(Chars),
           NEW k \in Seq(Chars)
    PROVE  Join(c, Join(c, g, v), k) = Join(c, g, Join(c, v, k))
<1> DEFINE p == g \o <<c>>
           d == <<c>>
           e == v \o <<c>>
<1>0. \A r, s, t \in Seq(Chars) : (r \o s) \o t = r \o (s \o t)
  <2> TAKE r, s, t \in Seq(Chars)
  <2> QED
    BY ONLY ConcatAssociative, r \in Seq(Chars), s \in Seq(Chars), t \in Seq(Chars)
<1>1. p \in Seq(Chars) /\ d \in Seq(Chars) /\ e \in Seq(Chars)
  BY JoinedAt
<1>2. (p \o v) \o d = p \o e
  BY <1>0, <1>1
<1> HIDE DEF p, d, e
<1>3. (p \o e) \o k = p \o (e \o k)
  <2>1. \A s, t \in Seq(Chars) : (p \o s) \o t = p \o (s \o t)
    BY <1>0, <1>1, Zenon
  <2>2. \A t \in Seq(Chars) : (p \o e) \o t = p \o (e \o t)
    BY <1>1, <2>1, Zenon
  <2> QED
    BY <2>2, Zenon
<1>4. ((p \o v) \o d) \o k = p \o (e \o k)
  BY <1>2, <1>3, Zenon
<1> QED
  BY <1>4, Zenon DEF p, d, e, Join

(* Two parts are not taken for three.                                      *)
LEMMA TwoAreNotThree ==
    ASSUME NEW c \in Chars,
           NEW v \in Seq(Chars), NEW k \in Seq(Chars),
           NEW h \in Seq(Chars), NEW w \in Seq(Chars), NEW l \in Seq(Chars),
           Free(c, v), Free(c, k), Free(c, h)
    PROVE  Join(c, v, k) # Join(c, Join(c, h, w), l)
<1>1. Join(c, w, l) \in Seq(Chars) /\ k # Join(c, w, l)
  BY JoinedAt, JoinedIsNotFree
<1>2. Join(c, Join(c, h, w), l) = Join(c, h, Join(c, w, l))
  BY JoinedTwice
<1> QED
  BY <1>1, <1>2, SplitAtFirst

(* Objects with the same GvkKey are of the same group, version and kind.   *)
LEMMA GvkTellsApart ==
    ASSUME NEW o \in Obj, NEW q \in Obj,
           Join("/", GroupVersion(o), o.kind) = Join("/", GroupVersion(q), q.kind)
    PROVE  o.group = q.group /\ o.version = q.version /\ o.kind = q.kind
<1>1. /\ o.group \in Seq(Chars) /\ o.version \in Seq(Chars) /\ o.kind \in Seq(Chars)
      /\ Free("/", o.group) /\ Free("/", o.version) /\ Free("/", o.kind)
      /\ "/" \in Chars
  BY PartsOf
<1>2. /\ q.group \in Seq(Chars) /\ q.version \in Seq(Chars) /\ q.kind \in Seq(Chars)
      /\ Free("/", q.group) /\ Free("/", q.version) /\ Free("/", q.kind)
  BY PartsOf
<1>3. /\ o.group = << >> => GroupVersion(o) = o.version
      /\ o.group # << >> => GroupVersion(o) = Join("/", o.group, o.version)
      /\ q.group = << >> => GroupVersion(q) = q.version
      /\ q.group # << >> => GroupVersion(q) = Join("/", q.group, q.version)
  BY Zenon DEF GroupVersion, Join
<1>4. CASE o.group = << >> /\ q.group = << >>
  BY <1>1, <1>2, <1>3, <1>4, SplitAtFirst
<1>5. CASE o.group # << >> /\ q.group # << >>
  <2> DEFINE t == Join("/", o.version, o.kind)
             u == Join("/", q.version, q.kind)
  <2>1. t \in Seq(Chars) /\ u \in Seq(Chars)
    BY <1>1, <1>2, JoinedAt
  <2>2. GroupVersion(o) = Join("/", o.group, o.version)
    BY <1>3, <1>5
  <2>3. GroupVersion(q) = Join("/", q.group, q.version)
    BY <1>3, <1>5
  <2>4. Join("/", GroupVersion(o), o.kind) = Join("/", o.group, t)
    BY <1>1, <2>2, JoinedTwice
  <2>5. Join("/", GroupVersion(q), q.kind) = Join("/", q.group, u)
    BY <1>1, <1>2, <2>3, JoinedTwice
  <2>6. t = u => o.version = q.version /\ o.kind = q.kind
    BY <1>1, <1>2, SplitAtFirst
  <2> HIDE DEF t, u
  <2>7. o.group = q.group /\ t = u
    BY <1>1, <1>2, <2>1, <2>4, <2>5, SplitAtFirst
  <2> QED
    BY <2>6, <2>7
<1>6. CASE o.group = << >> /\ q.group # << >>
  BY <1>1, <1>2, <1>3, <1>6, TwoAreNotThree
<1>7. CASE o.group # << >> /\ q.group = << >>
  BY <1>1, <1>2, <1>3, <1>7, TwoAreNotThree
<1> QED
  BY <1>4, <1>5, <1>6, <1>7

(* Objects with the same NamespaceNameKey have the same namespace and      *)
(* name.                                                                   *)
LEMMA NamespaceNameTellsApart ==
    ASSUME NEW o \in Obj, NEW q \in Obj, MetaNamespaceKey(o) = MetaNamespaceKey(q)
    PROVE  o.namespace = q.namespace /\ o.name = q.name
<1>0. /\ o.namespace \in Seq(Chars) /\ o.name \in Seq(Chars)
      /\ Free("/", o.namespace) /\ Free("/", o.name)
      /\ q.namespace \in Seq(Chars) /\ q.name \in Seq(Chars)
      /\ Free("/", q.namespace) /\ Free("/", q.name) /\ "/" \in Chars
  BY PartsOf
<1>1. CASE o.namespace = << >> /\ q.namespace = << >>
  BY <1>1 DEF MetaNamespaceKey
<1>2. CASE o.namespace # << >> /\ q.namespace # << >>
  <2>1. Join("/", o.namespace, o.name) = Join("/", q.namespace, q.name)
    BY <1>2 DEF MetaNamespaceKey, Join
  <2> QED
    BY <1>0, <2>1, SplitAtFirst
<1>3. CASE o.namespace = << >> /\ q.namespace # << >>
  <2>1. o.name = Join("/", q.namespace, q.name)
    BY <1>3 DEF MetaNamespaceKey, Join
  <2> QED
    BY <1>0, <2>1, JoinedIsNotFree
<1>4. CASE o.namespace # << >> /\ q.namespace = << >>
  <2>1. q.name = Join("/", o.namespace, o.name)
    BY <1>4 DEF MetaNamespaceKey, Join
  <2> QED
    BY <1>0, <2>1, JoinedIsNotFree
<1> QED
  BY <1>1, <1>2, <1>3, <1>4

(* What build leaves: two objects, and what the code makes of them.        *)
BuiltFor(o) ==
    [name   |-> BuildWorkstatusName(o),
     key    |-> KeyForGroupVersionKindNamespaceName(o),
     gvkKey |-> KeyForGroupVersionKind(o.group, o.version, o.kind)]

NamesInv ==
    /\ objects \in Obj \X Obj
    /\ built # << >> => \A i \in 1 .. 2 : built[i] = BuiltFor(objects[i])

LEMMA NamesInvariant == NamesSpec => []NamesInv
<1>1. NamesInit => NamesInv
  BY DEF NamesInit, NamesInv
<1>2. NamesInv /\ [build]_nameVars => NamesInv'
  <2> SUFFICES ASSUME NamesInv, [build]_nameVars PROVE NamesInv'
    OBVIOUS
  <2>1. CASE build
    BY <2>1, Zenon DEF build, NamesInv, BuiltFor
  <2>2. CASE UNCHANGED nameVars
    BY <2>2, Zenon DEF nameVars, NamesInv
  <2> QED
    BY <2>1, <2>2
<1> QED
  BY <1>1, <1>2, PTL DEF NamesSpec

(* The maps of the agent are read with the keys they are written with, and *)
(* two objects have the same key only if they are the same object          *)
(* (KeyForGroupVersionKindNamespaceName and KeyForGroupVersionKind), for   *)
(* texts of any length.                                                    *)
THEOREM KeysApart == NamesSpec => []KeysTellApart
<1>1. NamesInv => KeysTellApart
  <2> SUFFICES ASSUME NamesInv, built # << >> PROVE KeysTellApart!2
    BY DEF KeysTellApart
  <2> DEFINE x == objects[1]
             y == objects[2]
  <2>1. x \in Obj /\ y \in Obj
    BY DEF NamesInv
  <2>2. \A i \in 1 .. 2 : built[i] = BuiltFor(objects[i])
    BY DEF NamesInv
  <2>3. \A i \in 1 .. 2 : built[i].key.GvkKey = built[i].gvkKey
    <3> SUFFICES ASSUME NEW i \in 1 .. 2 PROVE built[i].key.GvkKey = built[i].gvkKey
      OBVIOUS
    <3> DEFINE o == objects[i]
    <3>1. /\ built[i].gvkKey = KeyForGroupVersionKind(o.group, o.version, o.kind)
          /\ built[i].key = KeyForGroupVersionKindNamespaceName(o)
      BY <2>2 DEF BuiltFor
    <3> HIDE DEF o
    <3>2. KeyForGroupVersionKindNamespaceName(o).GvkKey = GroupVersion(o) \o <<"/">> \o o.kind
      BY DEF KeyForGroupVersionKindNamespaceName
    <3>3. GroupVersion(o) \o <<"/">> \o o.kind
            = KeyForGroupVersionKind(o.group, o.version, o.kind)
      BY Zenon DEF KeyForGroupVersionKind, GroupVersion
    <3> QED
      BY <3>1, <3>2, <3>3, Zenon
  <2>4. ASSUME built[1].key = built[2].key
        PROVE  [x EXCEPT !.uid = << >>] = [y EXCEPT !.uid = << >>]
    <3>1. KeyForGroupVersionKindNamespaceName(x) = KeyForGroupVersionKindNamespaceName(y)
      BY <2>2, <2>4 DEF BuiltFor
    <3> HIDE DEF x, y
    <3>2. /\ Join("/", GroupVersion(x), x.kind) = Join("/", GroupVersion(y), y.kind)
          /\ MetaNamespaceKey(x) = MetaNamespaceKey(y)
      BY <3>1 DEF KeyForGroupVersionKindNamespaceName, Join
    <3>3. x.group = y.group /\ x.version = y.version /\ x.kind = y.kind
      BY <2>1, <3>2, GvkTellsApart
    <3>4. x.namespace = y.namespace /\ x.name = y.name
      BY <2>1, <3>2, NamespaceNameTellsApart
    <3> QED
      BY <2>1, <3>3, <3>4 DEF Obj
  <2> QED
    BY <2>3, <2>4
<1> QED
  BY <1>1, NamesInvariant, PTL
-----------------------------------------------------------------------------
(* Names of WorkStatuses.                                                  *)

(* A set of natural numbers has a least element.                           *)
LEMMA LeastOf ==
    ASSUME NEW S \in SUBSET Nat, S # {}
    PROVE  \E n \in S : \A m \in S : ~(m < n)
<1> DEFINE R == OpToRel(<, Nat)
<1>1. IsWellFoundedOn(R, Nat)
  BY NatLessThanWellFounded, Zenon DEF R
<1>2. \A x, y \in Nat : <<x, y>> \in R <=> x < y
  BY Zenon DEF R, OpToRel
<1> HIDE DEF R
<1>3. PICK n \in S : \A m \in S : ~(<<m, n>> \in R)
  BY <1>1, WFMin
<1> QED
  BY <1>2, <1>3

(* What is left of a text after the removal of a character is a text.      *)
LEMMA RemoveAllIsText ==
    ASSUME NEW s \in Seq(Chars), NEW c \in Chars
    PROVE  RemoveAll(s, c) \in Seq(Chars)
<1> DEFINE Body(f, i) == IF i = 0 THEN << >>
                         ELSE IF s[i] = c THEN f[i - 1] ELSE Append(f[i - 1], s[i])
           Is(f, n) == f = [i \in 0 .. n |-> Body(f, i)]
           N == Len(s)
<1>0. N \in Nat /\ \A i \in 1 .. N : s[i] \in Chars
  BY LenProperties, ElementOfSeq
<1> HIDE DEF N
<1>1. \E f : Is(f, N)
  <2> DEFINE B == {n \in Nat : ~ \E f : Is(f, n)}
  <2> SUFFICES ASSUME N \in B PROVE FALSE
    BY <1>0
  <2>1. PICK n \in B : \A m \in B : ~(m < n)
    <3>1. B \in SUBSET Nat /\ B # {}
      OBVIOUS
    <3> HIDE DEF B
    <3> QED
      BY <3>1, LeastOf
  <2>2. n # 0
    <3>1. Is([i \in 0 .. 0 |-> << >>], 0)
      OBVIOUS
    <3> QED
      BY <3>1
  <2>3. n - 1 \in Nat /\ n - 1 \notin B
    <3> HIDE DEF B
    <3>1. n \in Nat
      BY <2>1 DEF B
    <3> QED
      BY <2>1, <2>2, <3>1
  <2>4. PICK f : Is(f, n - 1)
    BY <2>3, Zenon
  <2> DEFINE g == [i \in 0 .. n |-> Body(f, i)]
  <2>5. \A i \in 0 .. n - 1 : g[i] = f[i]
    <3> HIDE DEF Body
    <3>1. f = [i \in 0 .. n - 1 |-> Body(f, i)]
      BY <2>4
    <3>2. \A i \in 0 .. n - 1 : f[i] = Body(f, i)
      BY <3>1
    <3> QED
      BY <2>3, <3>2
  <2>6. \A i \in 0 .. n : Body(g, i) = Body(f, i)
    <3> SUFFICES ASSUME NEW i \in 0 .. n PROVE Body(g, i) = Body(f, i)
      OBVIOUS
    <3> HIDE DEF g
    <3>1. i # 0 => g[i - 1] = f[i - 1]
      BY <2>3, <2>5
    <3> QED
      BY <3>1, Zenon
  <2>7. Is(g, n)
    <3> HIDE DEF Body
    <3> QED
      BY <2>6
  <2> QED
    BY <2>7, Zenon
<1> DEFINE rest == CHOOSE f : Is(f, N)
<1>2. Is(rest, N)
  BY <1>1, Zenon
<1>3. RemoveAll(s, c) = rest[N]
  BY Zenon DEF RemoveAll, N
<1> HIDE DEF rest
<1>4. /\ rest[0] = << >>
      /\ \A i \in 1 .. N : rest[i] = IF s[i] = c THEN rest[i - 1]
                                     ELSE Append(rest[i - 1], s[i])
  <2>1. \A i \in 0 .. N : rest[i] = Body(rest, i)
    <3> HIDE DEF Body
    <3> QED
      BY <1>2
  <2>2. 0 \in 0 .. N /\ \A i \in 1 .. N : i \in 0 .. N /\ i # 0
    BY <1>0
  <2> QED
    BY <2>1, <2>2, Zenon
<1>5. rest[N] \in Seq(Chars)
  <2> DEFINE B == {n \in 0 .. N : rest[n] \notin Seq(Chars)}
  <2> SUFFICES ASSUME rest[N] \notin Seq(Chars) PROVE FALSE
    OBVIOUS
  <2>1. PICK n \in B : \A m \in B : ~(m < n)
    <3>1. B \in SUBSET Nat /\ B # {}
      BY <1>0
    <3> HIDE DEF B
    <3> QED
      BY <3>1, LeastOf
  <2>2. n \in 1 .. N
    <3>1. rest[0] \in Seq(Chars)
      BY <1>4, EmptySeq
    <3>2. n \in 0 .. N /\ n # 0
      BY <2>1, <3>1
    <3> QED
      BY <1>0, <3>2
  <2>3. rest[n - 1] \in Seq(Chars)
    BY <1>0, <2>1, <2>2
  <2>4. s[n] \in Chars /\ Append(rest[n - 1], s[n]) \in Seq(Chars)
    BY <1>0, <2>2, <2>3
  <2>5. rest[n] \in Seq(Chars)
    BY <1>4, <2>2, <2>3, <2>4, Zenon
  <2> QED
    BY <2>1, <2>5
<1> QED
  BY <1>3, <1>5

(* Lower case letters make a text.                                         *)
LEMMA ToLowerIsText == \A s \in Seq(Chars) : ToLower(s) \in Seq(Chars)
<1> SUFFICES ASSUME NEW s \in Seq(Chars) PROVE ToLower(s) \in Seq(Chars)
  OBVIOUS
<1>1. Len(s) \in Nat /\ DOMAIN s = 1 .. Len(s) /\ \A i \in 1 .. Len(s) : s[i] \in Chars
  BY LenProperties, ElementOfSeq
<1>2. \A i \in 1 .. Len(s) : Lower[s[i]] \in Chars
  BY <1>1, CharsAssumption
<1>3. ToLower(s) \in [1 .. Len(s) -> Chars]
  BY <1>1, <1>2 DEF ToLower
<1> QED
  BY <1>1, <1>3

(* A text that another one starts with.                                    *)
Starts(s, t) == Len(s) <= Len(t) /\ \A i \in 1 .. Len(s) : t[i] = s[i]

LEMMA JoinedStarts ==
    ASSUME NEW c \in Chars, NEW s \in Seq(Chars), NEW t \in Seq(Chars)
    PROVE  Join(c, s, t) \in Seq(Chars) /\ Starts(s, Join(c, s, t))
<1>1. Len(s) \in Nat /\ Len(t) \in Nat
  BY LenProperties
<1> DEFINE j == Join(c, s, t)
<1>2. j \in Seq(Chars) /\ Len(j) = Len(s) + 1 + Len(t)
  BY JoinedAt
<1>3. \A i \in 1 .. Len(s) : j[i] = s[i]
  BY JoinedAt
<1> HIDE DEF j
<1>4. Len(s) <= Len(j)
  BY <1>1, <1>2
<1>5. Starts(s, j)
  BY <1>3, <1>4, Zenon DEF Starts
<1> QED
  BY <1>2, <1>5 DEF j

LEMMA StartsTransitive ==
    ASSUME NEW r \in Seq(Chars), NEW s \in Seq(Chars), NEW t \in Seq(Chars),
           Starts(r, s), Starts(s, t)
    PROVE  Starts(r, t)
<1>1. Len(r) \in Nat /\ Len(s) \in Nat /\ Len(t) \in Nat
  BY LenProperties
<1>2. Len(r) <= Len(s) /\ Len(s) <= Len(t)
  BY DEF Starts
<1>3. \A i \in 1 .. Len(r) : i \in 1 .. Len(s) /\ s[i] = r[i]
  BY <1>1, <1>2 DEF Starts
<1>4. \A i \in 1 .. Len(s) : t[i] = s[i]
  BY DEF Starts
<1>5. Len(r) <= Len(t)
  BY <1>1, <1>2
<1> QED
  BY <1>3, <1>4, <1>5, Zenon DEF Starts

(* The first part of a name: the work and the kind of the object.          *)
Prefix(o) ==
    Join("-", Join("-", o.uid, ToLower(RemoveAll(GroupVersion(o), "/"))), ToLower(o.kind))

(* A full name is made of texts, and starts with the UID of the work.      *)
LEMMA FullNameParts ==
    ASSUME NEW o \in Obj
    PROVE  /\ Prefix(o) \in Seq(Chars)
           /\ FullName(o) = Join("-", Prefix(o), Join("-", o.namespace, o.name))
           /\ FullName(o) \in Seq(Chars) /\ Starts(o.uid, FullName(o))
<1> DEFINE gv == ToLower(RemoveAll(GroupVersion(o), "/"))
           k == ToLower(o.kind)
           a == Join("-", o.uid, gv)
           b == Join("-", a, k)
           c == Join("-", b, o.namespace)
           d == Join("-", c, o.name)
<1>1. /\ "-" \in Chars /\ o.uid \in Seq(Chars)
      /\ o.namespace \in Seq(Chars) /\ o.name \in Seq(Chars)
  BY PartsOf
<1>2. k \in Seq(Chars)
  BY PartsOf, ToLowerIsText
<1>3. gv \in Seq(Chars)
  <2>1. GroupVersion(o) \in Seq(Chars)
    <3>1. Join("/", o.group, o.version) \in Seq(Chars)
      BY PartsOf, JoinedAt
    <3> QED
      BY <3>1, PartsOf, Zenon DEF GroupVersion, Join
  <2>2. RemoveAll(GroupVersion(o), "/") \in Seq(Chars)
    BY <2>1, PartsOf, RemoveAllIsText
  <2> QED
    BY <2>2, ToLowerIsText
<1>4. FullName(o) = d /\ Prefix(o) = b
  BY Zenon DEF FullName, Prefix, Join
<1> HIDE DEF gv, k
<1>5. a \in Seq(Chars) /\ Starts(o.uid, a)
  BY <1>1, <1>3, JoinedStarts
<1> HIDE DEF a
<1>6. b \in Seq(Chars) /\ Starts(a, b)
  BY <1>1, <1>2, <1>5, JoinedStarts
<1> HIDE DEF b
<1>7. c \in Seq(Chars) /\ Starts(b, c)
  BY <1>1, <1>6, JoinedStarts
<1>8. d = Join("-", b, Join("-", o.namespace, o.name))
  BY <1>1, <1>6, JoinedTwice
<1> HIDE DEF c
<1>9. d \in Seq(Chars) /\ Starts(c, d)
  BY <1>1, <1>7, JoinedStarts
<1> HIDE DEF d
<1>10. Starts(o.uid, b)
  BY <1>1, <1>5, <1>6, StartsTransitive
<1>11. Starts(b, d)
  BY <1>6, <1>7, <1>9, StartsTransitive
<1>12. Starts(o.uid, d)
  BY <1>1, <1>6, <1>9, <1>10, <1>11, StartsTransitive
<1> QED
  BY <1>4, <1>6, <1>8, <1>9, <1>12

(* A name that is not cut is the full name, and the UID is never cut.      *)
LEMMA NameStartsWithUID ==
    ASSUME NEW o \in Obj
    PROVE  /\ Len(FullName(o)) <= MaxNameLen => BuildWorkstatusName(o) = FullName(o)
           /\ \A i \in 1 .. Len(o.uid) : BuildWorkstatusName(o)[i] = o.uid[i]
<1> DEFINE f == FullName(o)
           n == MaxNameLen
<1>1. /\ f \in Seq(Chars) /\ Len(o.uid) <= Len(f)
      /\ \A i \in 1 .. Len(o.uid) : f[i] = o.uid[i]
  BY FullNameParts DEF Starts
<1>2. /\ n \in Nat /\ Len(o.uid) <= n /\ Len(o.uid) \in Nat /\ Len(f) \in Nat
  BY <1>1, PartsOf, TextsAssumption, LenProperties
<1>3. BuildWorkstatusName(o) = IF Len(f) > n THEN SubSeq(f, 1, n) ELSE f
  BY DEF BuildWorkstatusName, truncateString
<1> HIDE DEF f, n
<1>4. CASE Len(f) > n
  <2>1. \A i \in 1 .. n : f[i] \in Chars
    BY <1>1, <1>2, <1>4, ElementOfSeq
  <2>2. \A i \in 1 .. n : SubSeq(f, 1, n)[i] = f[i]
    BY <1>2, <2>1, SubSeqProperties
  <2> QED
    BY <1>1, <1>2, <1>3, <1>4, <2>2 DEF f, n
<1>5. CASE ~(Len(f) > n)
  BY <1>1, <1>3, <1>5 DEF f
<1> QED
  BY <1>4, <1>5

(* Equal parts on one side of a separator leave equal parts on the other.  *)
LEMMA JoinedCancel ==
    ASSUME NEW c \in Chars, NEW s \in Seq(Chars), NEW t \in Seq(Chars),
           NEW r \in Seq(Chars)
    PROVE  /\ Join(c, r, s) = Join(c, r, t) => s = t
           /\ Join(c, s, r) = Join(c, t, r) => s = t
<1> DEFINE d == <<c>>
<1>1. d \in Seq(Chars)
  OBVIOUS
<1>2. /\ Join(c, r, s) = (r \o d) \o s /\ Join(c, r, t) = (r \o d) \o t
      /\ Join(c, s, r) = (s \o d) \o r /\ Join(c, t, r) = (t \o d) \o r
  BY Zenon DEF Join
<1> HIDE DEF d
<1>3. r \o d \in Seq(Chars) /\ s \o d \in Seq(Chars) /\ t \o d \in Seq(Chars)
  BY <1>1, ConcatProperties
<1>4. (r \o d) \o s = (r \o d) \o t => s = t
  BY <1>3, ConcatSimplifications
<1>5. (s \o d) \o r = (t \o d) \o r => s \o d = t \o d
  BY <1>3, ConcatSimplifications
<1>6. s \o d = t \o d => s = t
  BY <1>1, ConcatSimplifications
<1> QED
  BY <1>2, <1>4, <1>5, <1>6

(* Two objects share the name of their WorkStatus only if they belong to   *)
(* the same work, and differ in kind, have a name that was cut, or a dash  *)
(* in a namespace (BuildWorkstatusName), for texts of any length.          *)
THEOREM SharedNames == NamesSpec => []SharedNamesExplained
<1>1. NamesInv => SharedNamesExplained
  <2> DEFINE x == objects[1]
             y == objects[2]
             SameKind == <<x.group, x.version, x.kind>> = <<y.group, y.version, y.kind>>
             Cut == Len(FullName(x)) > MaxNameLen \/ Len(FullName(y)) > MaxNameLen
             Dash == Dashed(x.namespace) \/ Dashed(y.namespace)
  <2> SUFFICES ASSUME NamesInv, built # << >>, built[1].name = built[2].name
               PROVE  /\ x.uid = y.uid
                      /\ \/ x = y \/ ~SameKind \/ Cut
                         \/ x.namespace # y.namespace /\ x.name # y.name /\ Dash
    BY Zenon DEF SharedNamesExplained
  <2>1. x \in Obj /\ y \in Obj
    BY DEF NamesInv
  <2>2. BuildWorkstatusName(x) = BuildWorkstatusName(y)
    BY DEF NamesInv, BuiltFor
  <2> HIDE DEF x, y
  <2>3. /\ x.uid \in Seq(Chars) /\ y.uid \in Seq(Chars) /\ Len(x.uid) = Len(y.uid)
        /\ x.namespace \in Seq(Chars) /\ y.namespace \in Seq(Chars)
        /\ x.name \in Seq(Chars) /\ y.name \in Seq(Chars) /\ "-" \in Chars
    BY <2>1, PartsOf, TextsAssumption
  <2>4. x.uid = y.uid
    <3>1. \A i \in 1 .. Len(x.uid) : x.uid[i] = y.uid[i]
      BY <2>1, <2>2, <2>3, NameStartsWithUID
    <3> QED
      BY <2>3, <3>1, SeqEqual
  <2>5. ASSUME SameKind, ~Cut, x # y
        PROVE  x.namespace # y.namespace /\ x.name # y.name /\ Dash
    <3> DEFINE p == Prefix(x)
               s == Join("-", x.namespace, x.name)
               t == Join("-", y.namespace, y.name)
    <3>1. x.group = y.group /\ x.version = y.version /\ x.kind = y.kind
      BY <2>5
    <3>2. p = Prefix(y)
      BY <2>4, <3>1, Zenon DEF Prefix, GroupVersion
    <3>3. FullName(x) \in Seq(Chars) /\ FullName(y) \in Seq(Chars)
      BY <2>1, FullNameParts
    <3>4. Len(FullName(x)) <= MaxNameLen /\ Len(FullName(y)) <= MaxNameLen
      BY <2>5, <3>3, TextsAssumption, LenProperties
    <3>5. FullName(x) = FullName(y)
      BY <2>1, <2>2, <3>4, NameStartsWithUID
    <3>6. Join("-", p, s) = Join("-", p, t)
      BY <2>1, <3>2, <3>5, FullNameParts
    <3>7. p \in Seq(Chars) /\ s \in Seq(Chars) /\ t \in Seq(Chars)
      BY <2>1, <2>3, FullNameParts, JoinedAt
    <3> HIDE DEF p
    <3>8. s = t
      <4> HIDE DEF s, t
      <4> QED
        BY <2>3, <3>6, <3>7, JoinedCancel
    <3>9. x.namespace = y.namespace => x.name = y.name
      BY <2>3, <3>8, JoinedCancel
    <3>10. x.name = y.name => x.namespace = y.namespace
      BY <2>3, <3>8, JoinedCancel
    <3>11. x.namespace # y.namespace /\ x.name # y.name
      BY <2>1, <2>4, <2>5, <3>1, <3>9, <3>10 DEF Obj
    <3>12. Dash
      <4> SUFFICES ASSUME ~Dash PROVE FALSE
        OBVIOUS
      <4>1. Free("-", x.namespace) /\ Free("-", y.namespace)
        BY <2>3, LenProperties DEF Free, Dashed
      <4> QED
        BY <2>3, <3>8, <3>11, <4>1, SplitAtFirst
    <3> QED
      BY <3>11, <3>12
  <2> QED
    BY <2>4, <2>5
<1> QED
  BY <1>1, NamesInvariant, PTL
=============================================================================
