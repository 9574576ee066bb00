-------------------------- MODULE ResponderProofs --------------------------
(***************************************************************************)
(* Proofs about Responder for every zone, every configuration and every    *)
(* set of queries.                                                         *)
(*                                                                         *)
(* Truth says what the zone holds, from the configuration alone.  Every    *)
(* record the build_ functions put into a section is exact, and a set with *)
(* several records is there as a whole; emit_section groups, sorts and     *)
(* signs the records, and neither loses nor adds one but signatures.  So   *)
(* every answer tells only what the zone holds (Faithful), and two answers *)
(* agree because both agree with the zone.  That none denies what another  *)
(* serves needs more: the code serves three things by name before it looks *)
(* at the others, the texts, the apex and the name servers, and no two of  *)
(* them may have the same name (NamesApart).  The code does not check it,  *)
(* so that it is a hypothesis of the two theorems that need it; the        *)
(* instances of MCResponder satisfy it.                                    *)
(*                                                                         *)
(* That every signature validates needs that a group is a whole record set *)
(* without a repetition, although grouping looks at neighbours only: the   *)
(* sections are Tidy, and then the groups are Neat.  For the name servers  *)
(* and their glue it needs a configuration that lists none of them twice   *)
(* (NsAreASet), which the code does not check either.                      *)
(***************************************************************************)
EXTENDS Responder, SequenceLemmas

(* f is how FoldLeft groups the records of rrs, from the first on. *)
FoldStep(f, rrs, u) == IF u = {} THEN <<>> ELSE Grow(f[u \ {Max(u)}], rrs[Max(u)])

FoldIs(f, rrs) == f = [u \in SUBSET DOMAIN rrs |-> FoldStep(f, rrs, u)]

LEMMA GroupedIs ==
  ASSUME NEW rrs
  PROVE  Grouped(rrs) = (CHOOSE f : FoldIs(f, rrs))[DOMAIN rrs]
BY DEF Grouped, FoldLeft, MapThenFoldSet, FoldIs, FoldStep

LEMMA FoldAt ==
  ASSUME NEW f, NEW rrs, FoldIs(f, rrs), NEW u \in SUBSET DOMAIN rrs
  PROVE  f[u] = FoldStep(f, rrs, u)
BY DEF FoldIs

LEMMA FoldExtends ==
  ASSUME NEW E, NEW s \in Seq(E), NEW x \in E, NEW f, FoldIs(f, s)
  PROVE  \E g : FoldIs(g, Append(s, x))
<1>1. PICK n \in Nat : n = Len(s)
  <2>1. Len(s) \in Nat
    OBVIOUS
  <2>2. QED
    BY <2>1
<1>2. PICK t \in Seq(E) : t = Append(s, x)
  BY Appended
<1>3. /\ DOMAIN s = 1..n /\ DOMAIN t = 1..n + 1
      /\ t[n + 1] = x
      /\ \A k \in 1..n : t[k] = s[k]
  BY <1>1, <1>2
<1>4. PICK g : g = [u \in SUBSET (1..n + 1) |->
                      IF n + 1 \in u THEN Grow(f[u \ {n + 1}], x) ELSE f[u]]
  OBVIOUS
<1>5. \A u \in SUBSET (1..n) : u \in SUBSET (1..n + 1) /\ g[u] = f[u]
  <2>1. SUFFICES ASSUME NEW u \in SUBSET (1..n)
                 PROVE  u \in SUBSET (1..n + 1) /\ g[u] = f[u]
    OBVIOUS
  <2>2. u \in SUBSET (1..n + 1) /\ n + 1 \notin u
    OBVIOUS
  <2>3. QED
    BY <1>4, <2>2
<1>6. ASSUME NEW u \in SUBSET (1..n + 1)
      PROVE  g[u] = FoldStep(g, t, u)
  <2>1. CASE n + 1 \in u
    <3>1. Max(u) = n + 1 /\ u \ {n + 1} \in SUBSET (1..n) /\ u # {}
      BY <2>1, MaxOfFirst
    <3>2. g[u \ {n + 1}] = f[u \ {n + 1}]
      BY <1>5, <3>1
    <3>3. g[u] = Grow(f[u \ {n + 1}], x)
      BY <1>4, <2>1
    <3>4. FoldStep(g, t, u) = Grow(g[u \ {n + 1}], t[n + 1])
      BY <3>1 DEF FoldStep
    <3>5. QED
      BY <1>3, <3>2, <3>3, <3>4
  <2>2. CASE n + 1 \notin u
    <3>1. u \in SUBSET (1..n)
      BY <2>2
    <3>2. f[u] = FoldStep(f, s, u)
      BY <1>3, <3>1, FoldAt
    <3>3. CASE u = {}
      BY <1>5, <3>1, <3>2, <3>3 DEF FoldStep
    <3>4. CASE u # {}
      <4>1. Max(u) \in u
        BY <3>1, <3>4, MaxIs
      <4>2. PICK m \in 1..n : m = Max(u)
        BY <3>1, <4>1
      <4>3. u \ {m} \in SUBSET (1..n)
        BY <3>1
      <4>4. g[u \ {m}] = f[u \ {m}] /\ t[m] = s[m]
        BY <1>3, <1>5, <4>3
      <4>5. FoldStep(g, t, u) = FoldStep(f, s, u)
        BY <4>2, <4>4 DEF FoldStep
      <4>6. QED
        BY <1>5, <3>1, <3>2, <4>5
    <3>5. QED
      BY <3>3, <3>4
  <2>3. QED
    BY <2>1, <2>2
<1>7. FoldIs(g, t)
  <2>1. g = [u \in SUBSET (1..n + 1) |-> g[u]]
    BY <1>4
  <2>2. g = [u \in SUBSET (1..n + 1) |-> FoldStep(g, t, u)]
    BY <1>6, <2>1
  <2>3. QED
    BY <1>3, <2>2 DEF FoldIs
<1>8. QED
  BY <1>2, <1>7

LEMMA FoldExists ==
  ASSUME NEW E
  PROVE  \A s \in Seq(E) : \E f : FoldIs(f, s)
<1> DEFINE T == {s \in Seq(E) : \E f : FoldIs(f, s)}
<1>1. <<>> \in T
  <2>1. PICK f : f = [u \in {{}} |-> <<>>]
    OBVIOUS
  <2>2. SUBSET DOMAIN <<>> = {{}}
    OBVIOUS
  <2>3. \A u \in {{}} : FoldStep(f, <<>>, u) = <<>>
    BY DEF FoldStep
  <2>4. f = [u \in {{}} |-> FoldStep(f, <<>>, u)]
    BY <2>1, <2>3
  <2>5. FoldIs(f, <<>>)
    BY <2>2, <2>4 DEF FoldIs
  <2>6. QED
    BY <2>5
<1>2. ASSUME NEW s \in T, NEW x \in E PROVE Append(s, x) \in T
  <2>1. s \in Seq(E) /\ Append(s, x) \in Seq(E)
    BY Appended
  <2>2. PICK f : FoldIs(f, s)
    OBVIOUS
  <2>3. \E g : FoldIs(g, Append(s, x))
    BY <2>1, <2>2, FoldExtends
  <2>4. QED
    BY <2>1, <2>3
<1>3. T \in SUBSET Seq(E)
  OBVIOUS
<1> HIDE DEF T
<1>4. T = Seq(E)
  BY <1>1, <1>2, <1>3, SeqInduction
<1>5. QED
  BY <1>4 DEF T

LEMMA FoldsAgree ==
  ASSUME NEW f, NEW g, NEW s, NEW t, NEW n \in Nat, FoldIs(f, s), FoldIs(g, t),
         1..n \subseteq DOMAIN s, 1..n \subseteq DOMAIN t, \A k \in 1..n : s[k] = t[k]
  PROVE  f[1..n] = g[1..n]
<1> DEFINE T == {m \in Nat : m <= n => f[1..m] = g[1..m]}
<1>1. 0 \in T
  <2>1. 1..0 = {} /\ {} \in SUBSET DOMAIN s /\ {} \in SUBSET DOMAIN t
    OBVIOUS
  <2>2. f[{}] = <<>> /\ g[{}] = <<>>
    BY <2>1, FoldAt DEF FoldStep
  <2>3. QED
    BY <2>1, <2>2
<1>2. ASSUME NEW m \in T PROVE m + 1 \in T
  <2>1. SUFFICES ASSUME m + 1 <= n PROVE f[1..m + 1] = g[1..m + 1]
    OBVIOUS
  <2>2. m \in Nat /\ f[1..m] = g[1..m]
    BY <2>1
  <2>3. PICK u : u = 1..m + 1
    OBVIOUS
  <2>4. /\ u \in SUBSET DOMAIN s /\ u \in SUBSET DOMAIN t
        /\ u \in SUBSET (1..m + 1) /\ m + 1 \in u /\ u # {}
        /\ u \ {m + 1} = 1..m
    BY <2>1, <2>2, <2>3
  <2>5. Max(u) = m + 1
    BY <2>2, <2>4, MaxOfFirst
  <2>6. f[u] = FoldStep(f, s, u) /\ g[u] = FoldStep(g, t, u)
    BY <2>4, FoldAt
  <2>7. s[m + 1] = t[m + 1]
    BY <2>1, <2>2
  <2>8. FoldStep(f, s, u) = FoldStep(g, t, u)
    BY <2>2, <2>4, <2>5, <2>7 DEF FoldStep
  <2>9. QED
    BY <2>3, <2>6, <2>8
<1>3. T \in SUBSET Nat
  OBVIOUS
<1> HIDE DEF T
<1>4. T = Nat
  BY <1>1, <1>2, <1>3, SetInduction
<1>5. QED
  BY <1>4 DEF T

(* The records are grouped one after another. *)
LEMMA GroupedEmpty == Grouped(<<>>) = <<>>
<1>1. <<>> \in Seq({})
  OBVIOUS
<1>2. PICK f : FoldIs(f, <<>>) /\ Grouped(<<>>) = f[DOMAIN <<>>]
  BY <1>1, FoldExists, GroupedIs
<1>3. DOMAIN <<>> = {} /\ {} \in SUBSET DOMAIN <<>>
  OBVIOUS
<1>4. QED
  BY <1>2, <1>3, FoldAt DEF FoldStep

LEMMA GroupedAppend ==
  ASSUME NEW E, NEW s \in Seq(E), NEW x \in E
  PROVE  Grouped(Append(s, x)) = Grow(Grouped(s), x)
<1>1. PICK n \in Nat : n = Len(s)
  <2>1. Len(s) \in Nat
    OBVIOUS
  <2>2. QED
    BY <2>1
<1>2. PICK t \in Seq(E) : t = Append(s, x)
  BY Appended
<1>3. /\ DOMAIN s = 1..n /\ DOMAIN t = 1..n + 1
      /\ t[n + 1] = x
      /\ \A k \in 1..n : t[k] = s[k]
  BY <1>1, <1>2
<1>4. PICK f : FoldIs(f, s) /\ Grouped(s) = f[DOMAIN s]
  BY FoldExists, GroupedIs
<1>5. PICK g : FoldIs(g, t) /\ Grouped(t) = g[DOMAIN t]
  BY FoldExists, GroupedIs
<1>6. f[1..n] = g[1..n]
  <2>1. 1..n \subseteq DOMAIN s /\ 1..n \subseteq DOMAIN t
    BY <1>3
  <2>2. \A k \in 1..n : s[k] = t[k]
    BY <1>3
  <2>3. QED
    BY <1>4, <1>5, <2>1, <2>2, FoldsAgree
<1>7. PICK u : u = 1..n + 1
  OBVIOUS
<1>8. /\ u \in SUBSET DOMAIN t /\ u \in SUBSET (1..n + 1)
      /\ n + 1 \in u /\ u # {} /\ u \ {n + 1} = 1..n
  <2>1. u \in SUBSET DOMAIN t /\ u \in SUBSET (1..n + 1)
    BY <1>3, <1>7
  <2>2. n + 1 \in u /\ u # {}
    <3>1. n + 1 \in 1..n + 1
      OBVIOUS
    <3>2. QED
      BY <1>7, <3>1
  <2>3. u \ {n + 1} = 1..n
    BY <1>7
  <2>4. QED
    BY <2>1, <2>2, <2>3
<1>9. Max(u) = n + 1
  BY <1>8, MaxOfFirst
<1>10. g[u] = FoldStep(g, t, u)
  BY <1>5, <1>8, FoldAt
<1>11. g[u] = Grow(g[1..n], x)
  BY <1>3, <1>8, <1>9, <1>10 DEF FoldStep
<1>12. QED
  BY <1>2, <1>3, <1>4, <1>5, <1>6, <1>7, <1>11

-----------------------------------------------------------------------------
(* The records of a group belong together and can be sorted: two records   *)
(* of one set hold naturals, for a set has at most one NSEC.               *)
Sortable(g) == Len(g) = 1 \/ \A k \in DOMAIN g : g[k].data \in Nat

Alike(g) == g # <<>> /\ \A k \in DOMAIN g : SameSet(g[1], g[k])

Comparable(E) == \A r \in E : r.typ # TYPE_NSEC => r.data \in Nat

OneProof(s) ==
  \A i, j \in DOMAIN s : s[i].typ = TYPE_NSEC /\ s[j].typ = TYPE_NSEC => i = j

Groups(E, gs) == gs \in Seq(Seq(E)) /\ \A g \in ToSet(gs) : Alike(g) /\ Sortable(g)

LEMMA SingleGroup ==
  ASSUME NEW E, NEW x \in E
  PROVE  <<x>> \in Seq(E) /\ Alike(<<x>>) /\ Sortable(<<x>>) /\ ToSet(<<x>>) = {x}
<1>1. <<x>> \in Seq(E) /\ <<x>> # <<>> /\ Len(<<x>>) = 1
  OBVIOUS
<1>2. DOMAIN <<x>> = {1} /\ <<x>>[1] = x
  OBVIOUS
<1>3. SameSet(x, x)
  BY DEF SameSet
<1>4. QED
  BY <1>1, <1>2, <1>3 DEF Alike, Sortable, ToSet

LEMMA GrownGroup ==
  ASSUME NEW E, Comparable(E), NEW g \in Seq(E), Alike(g), NEW x \in E, SameSet(Head(g), x),
         x.typ = TYPE_NSEC => \A r \in ToSet(g) : r.typ # TYPE_NSEC
  PROVE  Append(g, x) \in Seq(E) /\ Alike(Append(g, x)) /\ Sortable(Append(g, x))
<1>1. PICK n \in Nat : n = Len(g)
  <2>1. Len(g) \in Nat
    OBVIOUS
  <2>2. QED
    BY <2>1
<1>2. PICK t \in Seq(E) : t = Append(g, x)
  BY Appended
<1>3. /\ DOMAIN g = 1..n /\ DOMAIN t = 1..n + 1
      /\ t[n + 1] = x
      /\ \A k \in 1..n : t[k] = g[k]
  BY <1>1, <1>2
<1>4. n # 0
  BY <1>1 DEF Alike
<1>5. 1 \in 1..n /\ 1 \in 1..n + 1 /\ \A k \in 1..n + 1 : k # n + 1 => k \in 1..n
  BY <1>4
<1>6. Head(g) = g[1] /\ t[1] = g[1] /\ g[1] \in ToSet(g)
  BY <1>3, <1>5 DEF ToSet
<1>7. \A k \in 1..n + 1 : SameSet(t[1], t[k])
  BY <1>3, <1>5, <1>6 DEF Alike
<1>8. x.typ # TYPE_NSEC
  BY <1>6 DEF SameSet
<1>9. \A k \in 1..n + 1 : t[k].typ = x.typ
  BY <1>6, <1>7 DEF SameSet
<1>10. \A k \in 1..n + 1 : t[k] \in E
  BY <1>3
<1>11. \A k \in 1..n + 1 : t[k].data \in Nat
  BY <1>8, <1>9, <1>10 DEF Comparable
<1>12. Alike(t) /\ Sortable(t)
  <2>1. t # <<>>
    BY <1>3, <1>5
  <2>2. QED
    BY <1>3, <1>7, <1>11, <2>1 DEF Alike, Sortable
<1>13. QED
  BY <1>2, <1>12

LEMMA ItemsOfMore ==
  ASSUME NEW F, NEW h, NEW G, G = F \cup {h}
  PROVE  (UNION {ToSet(v) : v \in G}) = (UNION {ToSet(v) : v \in F}) \cup ToSet(h)
<1>1. ASSUME NEW x
      PROVE  x \in UNION {ToSet(v) : v \in G} <=> \E v \in G : x \in ToSet(v)
  BY Zenon
<1>2. ASSUME NEW x
      PROVE  x \in UNION {ToSet(v) : v \in F} <=> \E v \in F : x \in ToSet(v)
  BY Zenon
<1>3. ASSUME NEW x
      PROVE  (\E v \in G : x \in ToSet(v)) <=> (\E v \in F : x \in ToSet(v)) \/ x \in ToSet(h)
  BY Zenon
<1>4. QED
  BY <1>1, <1>2, <1>3

LEMMA GrowKeeps ==
  ASSUME NEW E, Comparable(E), NEW gs, Groups(E, gs), NEW x \in E,
         x.typ = TYPE_NSEC => \A r \in Items(gs) : r.typ # TYPE_NSEC
  PROVE  Groups(E, Grow(gs, x)) /\ Items(Grow(gs, x)) = Items(gs) \cup {x}
<1>1. gs \in Seq(Seq(E))
  BY DEF Groups
<1>2. CASE gs # <<>> /\ SameSet(Head(Last(gs)), x)
  <2>1. Front(gs) \in Seq(Seq(E)) /\ Last(gs) \in Seq(E) /\ Append(Front(gs), Last(gs)) = gs
    BY <1>1, <1>2, FrontLast
  <2>2. PICK f \in Seq(Seq(E)) : f = Front(gs)
    BY <2>1
  <2>3. PICK g \in Seq(E) : g = Last(gs)
    BY <2>1
  <2>4. ToSet(gs) = ToSet(f) \cup {g}
    <3>1. ToSet(Append(f, g)) = ToSet(f) \cup {g}
      BY ItemsAppend
    <3>2. QED
      BY <2>1, <2>2, <2>3, <3>1
  <2>5. Alike(g)
    BY <2>4 DEF Groups
  <2>6. \A r \in ToSet(g) : r \in Items(gs)
    BY <2>4 DEF Items
  <2>7. Append(g, x) \in Seq(E) /\ Alike(Append(g, x)) /\ Sortable(Append(g, x))
    BY <1>2, <2>3, <2>5, <2>6, GrownGroup
  <2>8. ToSet(Append(g, x)) = ToSet(g) \cup {x}
    BY ItemsAppend
  <2>9. PICK h \in Seq(E) : h = Append(g, x)
    BY <2>7
  <2>10. Grow(gs, x) = Append(f, h)
    BY <1>2, <2>2, <2>3, <2>9 DEF Grow
  <2>11. Append(f, h) \in Seq(Seq(E)) /\ ToSet(Append(f, h)) = ToSet(f) \cup {h}
    BY ItemsAppend, Appended
  <2>12. Items(Append(f, h)) = Items(gs) \cup {x}
    <3>1. Items(gs) = Items(f) \cup ToSet(g)
      BY <2>4 DEF Items
    <3>2. Items(Append(f, h)) = Items(f) \cup ToSet(h)
      <4>1. PICK u : u = ToSet(Append(f, h)) /\ u = ToSet(f) \cup {h}
        BY <2>11
      <4>2. (UNION {ToSet(v) : v \in u}) = (UNION {ToSet(v) : v \in ToSet(f)}) \cup ToSet(h)
        BY <4>1, ItemsOfMore
      <4>3. QED
        BY <4>1, <4>2 DEF Items
    <3>3. ToSet(h) = ToSet(g) \cup {x}
      BY <2>8, <2>9
    <3>4. QED
      BY <3>1, <3>2, <3>3
  <2>13. \A u \in ToSet(f) : Alike(u) /\ Sortable(u)
    BY <2>4 DEF Groups
  <2>14. Groups(E, Append(f, h))
    BY <2>7, <2>9, <2>11, <2>13 DEF Groups
  <2>15. QED
    BY <2>10, <2>12, <2>14
<1>3. CASE ~(gs # <<>> /\ SameSet(Head(Last(gs)), x))
  <2>1. PICK h \in Seq(E) : h = <<x>> /\ Alike(h) /\ Sortable(h) /\ ToSet(h) = {x}
    BY SingleGroup
  <2>2. Grow(gs, x) = Append(gs, h)
    BY <1>3, <2>1 DEF Grow
  <2>3. Append(gs, h) \in Seq(Seq(E)) /\ ToSet(Append(gs, h)) = ToSet(gs) \cup {h}
    BY <1>1, ItemsAppend, Appended
  <2>4. Items(Append(gs, h)) = Items(gs) \cup {x}
    BY <2>1, <2>3 DEF Items
  <2>5. Groups(E, Append(gs, h))
    BY <2>1, <2>3 DEF Groups
  <2>6. QED
    BY <2>2, <2>4, <2>5
<1>4. QED
  BY <1>2, <1>3

(* Grouping neither loses nor invents a record. *)
LEMMA GroupedKeeps ==
  ASSUME NEW E, Comparable(E)
  PROVE  \A s \in Seq(E) : OneProof(s) => Groups(E, Grouped(s)) /\ Items(Grouped(s)) = ToSet(s)
<1> DEFINE Kept(s) == OneProof(s) => Groups(E, Grouped(s)) /\ Items(Grouped(s)) = ToSet(s)
           T == {s \in Seq(E) : Kept(s)}
<1>1. <<>> \in T
  <2>1. <<>> \in Seq(E) /\ <<>> \in Seq(Seq(E)) /\ ToSet(<<>>) = {}
    BY DEF ToSet
  <2>2. Groups(E, <<>>) /\ Items(<<>>) = {}
    BY <2>1 DEF Groups, Items
  <2>3. QED
    BY <2>1, <2>2, GroupedEmpty
<1>2. ASSUME NEW s \in T, NEW x \in E PROVE Append(s, x) \in T
  <2>1. s \in Seq(E) /\ Kept(s)
    OBVIOUS
  <2>2. PICK t \in Seq(E) : t = Append(s, x)
    BY <2>1, Appended
  <2>3. SUFFICES ASSUME OneProof(t)
                 PROVE  Groups(E, Grouped(t)) /\ Items(Grouped(t)) = ToSet(t)
    BY <2>2
  <2>4. PICK n \in Nat : n = Len(s)
    <3>1. Len(s) \in Nat
      BY <2>1
    <3>2. QED
      BY <3>1
  <2>5. /\ DOMAIN s = 1..n /\ DOMAIN t = 1..n + 1
        /\ t[n + 1] = x
        /\ \A k \in 1..n : t[k] = s[k]
    BY <2>1, <2>2, <2>4
  <2>6. \A k \in 1..n : k \in 1..n + 1 /\ n + 1 \in 1..n + 1 /\ k # n + 1
    OBVIOUS
  <2>7. OneProof(s)
    BY <2>3, <2>5, <2>6 DEF OneProof
  <2>8. Groups(E, Grouped(s)) /\ Items(Grouped(s)) = ToSet(s)
    BY <2>1, <2>7
  <2>9. x.typ = TYPE_NSEC => \A r \in ToSet(s) : r.typ # TYPE_NSEC
    BY <2>3, <2>5, <2>6 DEF OneProof, ToSet
  <2>10. Groups(E, Grow(Grouped(s), x)) /\ Items(Grow(Grouped(s), x)) = Items(Grouped(s)) \cup {x}
    BY <2>8, <2>9, GrowKeeps
  <2>11. Grouped(t) = Grow(Grouped(s), x)
    BY <2>1, <2>2, GroupedAppend
  <2>12. ToSet(t) = ToSet(s) \cup {x}
    BY <2>1, <2>2, ItemsAppend
  <2>13. QED
    BY <2>8, <2>10, <2>11, <2>12
<1>3. T \in SUBSET Seq(E)
  OBVIOUS
<1> HIDE DEF T
<1>4. T = Seq(E)
  BY <1>1, <1>2, <1>3, SeqInduction
<1>5. QED
  BY <1>4 DEF T

-----------------------------------------------------------------------------
(* A sorted group holds the same records. *)
LEMMA SortedOrder ==
  ASSUME NEW E, NEW g \in Seq(E), Alike(g), Sortable(g)
  PROVE  \E p \in Bijection(DOMAIN g, DOMAIN g) : Ascends(g, p)
<1>1. PICK n \in Nat : n = Len(g)
  <2>1. Len(g) \in Nat
    OBVIOUS
  <2>2. QED
    BY <2>1
<1>2. DOMAIN g = 1..n
  BY <1>1
<1>3. CASE n = 1
  <2>1. PICK p : p = [k \in 1..1 |-> k]
    OBVIOUS
  <2>2. p \in Bijection(1..1, 1..1)
    BY <2>1 DEF Bijection, Injection, Surjection, IsInjective
  <2>3. \A j, k \in 1..1 : ~(j < k)
    OBVIOUS
  <2>4. DOMAIN g = 1..1
    BY <1>2, <1>3
  <2>5. Ascends(g, p)
    BY <2>3, <2>4 DEF Ascends
  <2>6. QED
    BY <2>2, <2>4, <2>5
<1>4. CASE n # 1
  <2>1. \A k \in 1..n : g[k].data \in Nat
    BY <1>1, <1>2, <1>4 DEF Sortable
  <2>2. PICK d : d = [k \in 1..n |-> g[k].data]
    OBVIOUS
  <2>3. d \in [1..n -> Nat] /\ \A k \in 1..n : d[k] = g[k].data
    BY <2>1, <2>2
  <2>4. PICK p \in Bijection(1..n, 1..n) : \A j, k \in 1..n : j < k => d[p[j]] <= d[p[k]]
    BY <2>3, SortExists
  <2>5. \A k \in 1..n : p[k] \in 1..n
    BY <2>4 DEF Bijection, Injection
  <2>6. Ascends(g, p)
    BY <1>2, <2>3, <2>4, <2>5 DEF Ascends
  <2>7. QED
    BY <1>2, <2>4, <2>6
<1>5. QED
  BY <1>3, <1>4

LEMMA SortedKeeps ==
  ASSUME NEW E, NEW g \in Seq(E), Alike(g), Sortable(g)
  PROVE  Sorted(g) \in Seq(E) /\ ToSet(Sorted(g)) = ToSet(g) /\ Alike(Sorted(g))
<1>1. PICK p : p = CHOOSE o \in Bijection(DOMAIN g, DOMAIN g) : Ascends(g, o)
  OBVIOUS
<1>2. p \in Bijection(DOMAIN g, DOMAIN g)
  BY <1>1, SortedOrder
<1>3. PICK n \in Nat : n = Len(g)
  <2>1. Len(g) \in Nat
    OBVIOUS
  <2>2. QED
    BY <2>1
<1>4. DOMAIN g = 1..n
  BY <1>3
<1>5. /\ \A k \in 1..n : p[k] \in 1..n
      /\ \A k \in 1..n : \E j \in 1..n : p[j] = k
  BY <1>2, <1>4 DEF Bijection, Injection, Surjection
<1>6. Sorted(g) = [k \in DOMAIN g |-> g[p[k]]]
  BY <1>1 DEF Sorted
<1>7. PICK h : h = [k \in 1..n |-> g[p[k]]]
  OBVIOUS
<1>8. DOMAIN h = 1..n /\ \A k \in 1..n : h[k] = g[p[k]]
  BY <1>7
<1>9. \A k \in 1..n : g[k] \in E
  BY <1>4
<1>10. h \in Seq(E)
  BY <1>5, <1>7, <1>9
<1>11. ToSet(h) = ToSet(g)
  <2>1. \A k \in 1..n : h[k] \in ToSet(g)
    BY <1>4, <1>5, <1>8 DEF ToSet
  <2>2. ASSUME NEW k \in 1..n PROVE g[k] \in ToSet(h)
    <3>1. PICK j \in 1..n : p[j] = k
      BY <1>5
    <3>2. j \in DOMAIN h /\ h[j] = g[k]
      BY <1>8, <3>1
    <3>3. QED
      BY <3>2 DEF ToSet
  <2>3. QED
    BY <1>4, <1>8, <2>1, <2>2 DEF ToSet
<1>12. Alike(h)
  <2>1. n # 0
    BY <1>3 DEF Alike
  <2>2. h # <<>> /\ 1 \in 1..n
    BY <1>8, <2>1
  <2>3. \A k \in 1..n : SameSet(g[1], g[k])
    BY <1>4 DEF Alike
  <2>4. ASSUME NEW k \in 1..n PROVE SameSet(h[1], h[k])
    <3>1. p[1] \in 1..n /\ p[k] \in 1..n
      BY <1>5, <2>2
    <3>2. SameSet(g[1], g[p[1]]) /\ SameSet(g[1], g[p[k]])
      BY <2>3, <3>1
    <3>3. h[1] = g[p[1]] /\ h[k] = g[p[k]]
      BY <1>8, <2>2
    <3>4. QED
      BY <3>2, <3>3 DEF SameSet
  <2>5. QED
    BY <1>8, <2>2, <2>4 DEF Alike
<1>13. QED
  BY <1>4, <1>6, <1>7, <1>10, <1>11, <1>12

-----------------------------------------------------------------------------
(* A group as it is emitted: sorted, and signed unless it is signatures. *)
Part(g, signed) ==
  IF signed /\ Head(Sorted(g)).typ # TYPE_RRSIG
  THEN Append(Sorted(g), Rrsig(Sorted(g)))
  ELSE Sorted(g)

LEMMA EmitIs ==
  ASSUME NEW rrs, NEW signed
  PROVE  Emit(rrs, signed) =
           FlattenSeq([k \in DOMAIN Grouped(rrs) |-> Part(Grouped(rrs)[k], signed)])
BY DEF Emit, Part

WithSignatures(E) == E \cup {Rrsig(g) : g \in Seq(E)}

LEMMA PartKeeps ==
  ASSUME NEW E, NEW g \in Seq(E), Alike(g), Sortable(g), NEW signed \in BOOLEAN
  PROVE  /\ Part(g, signed) \in Seq(WithSignatures(E))
         /\ ToSet(g) \subseteq ToSet(Part(g, signed))
         /\ \A r \in ToSet(Part(g, signed)) : r \in ToSet(g) \/ r.typ = TYPE_RRSIG
<1>1. PICK h \in Seq(E) : h = Sorted(g) /\ ToSet(h) = ToSet(g)
  BY SortedKeeps
<1>2. h \in Seq(WithSignatures(E)) /\ Rrsig(h) \in WithSignatures(E)
  <2>1. E \subseteq WithSignatures(E) /\ Rrsig(h) \in WithSignatures(E)
    BY DEF WithSignatures
  <2>2. QED
    BY <2>1
<1>3. Rrsig(h).typ = TYPE_RRSIG
  BY DEF Rrsig, Rr
<1>4. PICK s : s = Rrsig(h)
  OBVIOUS
<1>5. Append(h, s) \in Seq(WithSignatures(E)) /\ ToSet(Append(h, s)) = ToSet(h) \cup {s}
  BY <1>2, <1>4, Appended, ItemsAppend
<1>6. Part(g, signed) \in {h, Append(h, s)}
  BY <1>1, <1>4 DEF Part
<1>7. QED
  BY <1>1, <1>2, <1>3, <1>4, <1>5, <1>6

(* Emission adds signatures to the records and nothing else. *)
LEMMA EmitKeeps ==
  ASSUME NEW E, Comparable(E), NEW rrs \in Seq(E), OneProof(rrs), NEW signed \in BOOLEAN
  PROVE  /\ ToSet(rrs) \subseteq ToSet(Emit(rrs, signed))
         /\ \A r \in ToSet(Emit(rrs, signed)) : r \in ToSet(rrs) \/ r.typ = TYPE_RRSIG
         /\ Emit(rrs, signed) = <<>> => rrs = <<>>
<1>1. PICK gs \in Seq(Seq(E)) : gs = Grouped(rrs) /\ Groups(E, gs) /\ Items(gs) = ToSet(rrs)
  BY GroupedKeeps DEF Groups
<1>2. PICK ps : ps = [k \in DOMAIN gs |-> Part(gs[k], signed)]
  OBVIOUS
<1>3. DOMAIN ps = DOMAIN gs /\ \A k \in DOMAIN gs : ps[k] = Part(gs[k], signed)
  BY <1>2
<1>4. ASSUME NEW k \in DOMAIN gs
      PROVE  /\ ps[k] \in Seq(WithSignatures(E))
             /\ ToSet(gs[k]) \subseteq ToSet(ps[k])
             /\ \A r \in ToSet(ps[k]) : r \in ToSet(gs[k]) \/ r.typ = TYPE_RRSIG
  <2>1. gs[k] \in Seq(E)
    OBVIOUS
  <2>2. gs[k] \in ToSet(gs)
    BY DEF ToSet
  <2>3. Alike(gs[k]) /\ Sortable(gs[k])
    BY <1>1, <2>2 DEF Groups
  <2>4. QED
    BY <1>3, <2>1, <2>3, PartKeeps
<1>5. ps \in Seq(Seq(WithSignatures(E)))
  <2>1. PICK n \in Nat : n = Len(gs)
    <3>1. Len(gs) \in Nat
      OBVIOUS
    <3>2. QED
      BY <3>1
  <2>2. DOMAIN gs = 1..n
    BY <2>1
  <2>3. \A k \in 1..n : Part(gs[k], signed) \in Seq(WithSignatures(E))
    BY <1>3, <1>4, <2>2
  <2>4. QED
    BY <1>2, <2>2, <2>3
<1>6. FlattenSeq(ps) \in Seq(WithSignatures(E)) /\ ToSet(FlattenSeq(ps)) = Items(ps)
  BY <1>5, FlattenKeeps
<1>7. Emit(rrs, signed) = FlattenSeq(ps)
  BY <1>1, <1>2, EmitIs
<1>8. ASSUME NEW r \in Items(gs) PROVE r \in Items(ps)
  <2>1. PICK k \in DOMAIN gs : r \in ToSet(gs[k])
    BY DEF Items, ToSet
  <2>2. r \in ToSet(ps[k])
    BY <1>4, <2>1
  <2>3. ps[k] \in ToSet(ps)
    BY <1>3 DEF ToSet
  <2>4. QED
    BY <2>2, <2>3 DEF Items
<1>9. ASSUME NEW r \in Items(ps) PROVE r \in Items(gs) \/ r.typ = TYPE_RRSIG
  <2>1. PICK k \in DOMAIN gs : r \in ToSet(ps[k])
    BY <1>3 DEF Items, ToSet
  <2>2. gs[k] \in ToSet(gs)
    BY DEF ToSet
  <2>3. QED
    BY <1>4, <2>1, <2>2 DEF Items
<1>10. ToSet(rrs) \subseteq ToSet(Emit(rrs, signed))
  BY <1>1, <1>6, <1>7, <1>8
<1>11. Emit(rrs, signed) = <<>> => rrs = <<>>
  <2>1. SUFFICES ASSUME Emit(rrs, signed) = <<>> PROVE rrs = <<>>
    OBVIOUS
  <2>2. ToSet(<<>>) = {}
    BY DEF ToSet
  <2>3. ToSet(rrs) = {}
    BY <1>10, <2>1, <2>2
  <2>4. DOMAIN rrs = {}
    BY <2>3 DEF ToSet
  <2>5. QED
    BY <2>4
<1>12. QED
  BY <1>1, <1>6, <1>7, <1>9, <1>10, <1>11

-----------------------------------------------------------------------------
(* In a tidy section the records of one set are neighbours, and differ. *)
SameKey(r, s) == r.owner = s.owner /\ r.typ = s.typ

Tidy(rrs) ==
  \A j, k \in DOMAIN rrs :
    j < k /\ SameKey(rrs[j], rrs[k]) =>
      /\ rrs[j].data # rrs[k].data
      /\ \A i \in DOMAIN rrs : j <= i /\ i <= k => SameSet(rrs[i], rrs[k])

Unlike(g) == \A j, k \in DOMAIN g : g[j].data = g[k].data => j = k

Severed(g, h) == \A r \in ToSet(g), s \in ToSet(h) : ~SameKey(r, s)

(* Its groups are its record sets: a set is in one group, each record once, *)
Neat(gs) ==
  /\ \A k \in DOMAIN gs : Unlike(gs[k])
  /\ \A j, k \in DOMAIN gs : j # k => Severed(gs[j], gs[k])

(* and the last group is the set of the record added last. *)
Latest(gs, s) == s # <<>> => gs # <<>> /\ SameSet(Head(Last(gs)), s[Len(s)])

LEMMA HeadIsFirst ==
  ASSUME NEW E, NEW g \in Seq(E), g # <<>>
  PROVE  1 \in DOMAIN g /\ Head(g) = g[1] /\ g[1] \in ToSet(g)
<1>1. Len(g) \in Nat /\ Len(g) # 0
  OBVIOUS
<1>2. 1 \in DOMAIN g
  BY <1>1
<1>3. Head(g) = g[1]
  BY <1>1
<1>4. g[1] \in ToSet(g)
  BY <1>2 DEF ToSet
<1>5. QED
  BY <1>2, <1>3, <1>4

LEMMA AlikeHead ==
  ASSUME NEW E, NEW g \in Seq(E), Alike(g), NEW r \in ToSet(g)
  PROVE  SameSet(Head(g), r)
<1>1. g # <<>>
  BY DEF Alike
<1>2. Head(g) = g[1]
  BY <1>1, HeadIsFirst
<1>3. PICK k \in DOMAIN g : r = g[k]
  BY DEF ToSet
<1>4. SameSet(g[1], g[k])
  BY <1>3 DEF Alike
<1>5. QED
  BY <1>2, <1>3, <1>4

LEMMA AppendedAt ==
  ASSUME NEW E, NEW s \in Seq(E), NEW x \in E, NEW t, t = Append(s, x), NEW n, n = Len(s)
  PROVE  /\ n \in Nat /\ t \in Seq(E)
         /\ DOMAIN s = 1..n /\ DOMAIN t = 1..n + 1 /\ Len(t) = n + 1
         /\ t[n + 1] = x /\ \A k \in 1..n : t[k] = s[k]
<1>1. n \in Nat /\ DOMAIN s = 1..n
  OBVIOUS
<1>2. t \in Seq(E)
  BY Appended
<1>3. DOMAIN t = 1..n + 1 /\ Len(t) = n + 1
  BY <1>1
<1>4. t[n + 1] = x /\ \A k \in 1..n : t[k] = s[k]
  BY <1>1
<1>5. QED
  BY <1>1, <1>2, <1>3, <1>4

LEMMA LastIs ==
  ASSUME NEW E, NEW s \in Seq(E), NEW x \in E
  PROVE  Last(Append(s, x)) = x /\ Append(s, x) # <<>>
<1>1. PICK t : t = Append(s, x)
  OBVIOUS
<1>2. PICK n : n = Len(s)
  OBVIOUS
<1>3. n \in Nat /\ Len(t) = n + 1 /\ t[n + 1] = x
  BY <1>1, <1>2, AppendedAt
<1>4. Last(t) = x
  BY <1>3 DEF Last
<1>5. t # <<>>
  BY <1>1, AppendedIsNonempty
<1>6. QED
  BY <1>1, <1>4, <1>5

(* A record that begins a set is unlike all before it; one that goes on    *)
(* with a set differs from every record of it.                             *)
LEMMA TidyAppend ==
  ASSUME NEW E, NEW s \in Seq(E), NEW x \in E, NEW t, t = Append(s, x), Tidy(t)
  PROVE  /\ Tidy(s)
         /\ \A r \in ToSet(s) : SameKey(r, x) =>
              r.data # x.data /\ s # <<>> /\ SameSet(s[Len(s)], x)
<1>1. PICK n : n = Len(s)
  OBVIOUS
<1>2. /\ n \in Nat /\ DOMAIN s = 1..n /\ DOMAIN t = 1..n + 1
      /\ t[n + 1] = x /\ \A k \in 1..n : t[k] = s[k]
  BY <1>1, AppendedAt
<1>3. \A k \in 1..n : k \in 1..n + 1
  BY <1>2
<1>4. Tidy(s)
  <2>1. SUFFICES ASSUME NEW j \in 1..n, NEW k \in 1..n, j < k, SameKey(s[j], s[k])
                 PROVE  /\ s[j].data # s[k].data
                        /\ \A i \in 1..n : j <= i /\ i <= k => SameSet(s[i], s[k])
    BY <1>2 DEF Tidy
  <2>2. j \in DOMAIN t /\ k \in DOMAIN t /\ t[j] = s[j] /\ t[k] = s[k]
    BY <1>2, <1>3
  <2>3. /\ t[j].data # t[k].data
        /\ \A i \in DOMAIN t : j <= i /\ i <= k => SameSet(t[i], t[k])
    BY <2>1, <2>2 DEF Tidy
  <2>4. QED
    BY <1>2, <1>3, <2>2, <2>3
<1>5. ASSUME NEW r \in ToSet(s), SameKey(r, x)
      PROVE  r.data # x.data /\ s # <<>> /\ SameSet(s[Len(s)], x)
  <2>1. PICK j \in 1..n : r = s[j]
    BY <1>2 DEF ToSet
  <2>2. /\ j \in DOMAIN t /\ n + 1 \in DOMAIN t /\ n \in 1..n /\ n \in DOMAIN t
        /\ j < n + 1 /\ j <= n /\ n <= n + 1
    BY <1>2
  <2>3. t[j] = r /\ t[n + 1] = x /\ t[n] = s[n]
    BY <1>2, <2>1, <2>2
  <2>4. SameKey(t[j], t[n + 1])
    BY <1>5, <2>3
  <2>5. t[j].data # t[n + 1].data /\ SameSet(t[n], t[n + 1])
    BY <2>2, <2>4 DEF Tidy
  <2>6. s # <<>>
    BY <1>2, <2>2
  <2>7. QED
    BY <1>1, <2>3, <2>5, <2>6
<1>6. QED
  BY <1>4, <1>5

LEMMA GrownUnlike ==
  ASSUME NEW E, NEW g \in Seq(E), NEW x \in E, Unlike(g), \A r \in ToSet(g) : r.data # x.data
  PROVE  Unlike(Append(g, x))
<1>1. PICK n : n = Len(g)
  OBVIOUS
<1>2. PICK t : t = Append(g, x)
  OBVIOUS
<1>3. /\ n \in Nat /\ DOMAIN g = 1..n /\ DOMAIN t = 1..n + 1
      /\ t[n + 1] = x /\ \A k \in 1..n : t[k] = g[k]
  BY <1>1, <1>2, AppendedAt
<1>4. \A k \in 1..n : t[k].data # x.data
  BY <1>3 DEF ToSet
<1>5. \A k \in 1..n + 1 : k # n + 1 => k \in 1..n
  BY <1>3
<1>6. SUFFICES ASSUME NEW j \in 1..n + 1, NEW k \in 1..n + 1, t[j].data = t[k].data
               PROVE  j = k
  BY <1>2, <1>3 DEF Unlike
<1>7. CASE j \in 1..n /\ k \in 1..n
  <2>1. g[j].data = g[k].data
    BY <1>3, <1>6, <1>7
  <2>2. QED
    BY <1>3, <1>7, <2>1 DEF Unlike
<1>8. CASE j = n + 1 \/ k = n + 1
  BY <1>3, <1>4, <1>5, <1>6, <1>8
<1>9. QED
  BY <1>5, <1>7, <1>8

(* Groups stay neat when the last of them is replaced or one is added. *)
LEMMA NeatAppend ==
  ASSUME NEW F, NEW f \in Seq(F), NEW h \in F, NEW u, u = Append(f, h), Unlike(h),
         \A k \in DOMAIN f : Unlike(f[k]) /\ Severed(f[k], h),
         \A j, k \in DOMAIN f : j # k => Severed(f[j], f[k])
  PROVE  Neat(u)
<1>1. PICK n : n = Len(f)
  OBVIOUS
<1>2. /\ n \in Nat /\ DOMAIN f = 1..n /\ DOMAIN u = 1..n + 1
      /\ u[n + 1] = h /\ \A k \in 1..n : u[k] = f[k]
  BY <1>1, AppendedAt
<1>3. \A k \in 1..n + 1 : k # n + 1 => k \in 1..n
  BY <1>2
<1>4. \A k \in DOMAIN u : Unlike(u[k])
  BY <1>2, <1>3
<1>5. \A k \in 1..n : Severed(u[k], h) /\ Severed(h, u[k])
  BY <1>2 DEF Severed, SameKey
<1>6. ASSUME NEW j \in 1..n + 1, NEW k \in 1..n + 1, j # k PROVE Severed(u[j], u[k])
  <2>1. CASE j = n + 1
    BY <1>2, <1>3, <1>5, <1>6, <2>1
  <2>2. CASE k = n + 1
    BY <1>2, <1>3, <1>5, <1>6, <2>2
  <2>3. CASE j # n + 1 /\ k # n + 1
    <3>1. j \in 1..n /\ k \in 1..n
      BY <1>3, <2>3
    <3>2. QED
      BY <1>2, <1>6, <3>1
  <2>4. QED
    BY <2>1, <2>2, <2>3
<1>7. QED
  BY <1>2, <1>4, <1>6 DEF Neat

LEMMA NeatParts ==
  ASSUME NEW F, NEW f \in Seq(F), NEW g \in F, NEW gs, gs = Append(f, g), Neat(gs)
  PROVE  /\ Unlike(g)
         /\ \A k \in DOMAIN f : Unlike(f[k]) /\ Severed(f[k], g)
         /\ \A j, k \in DOMAIN f : j # k => Severed(f[j], f[k])
<1>1. PICK n : n = Len(f)
  OBVIOUS
<1>2. /\ n \in Nat /\ DOMAIN f = 1..n /\ DOMAIN gs = 1..n + 1
      /\ gs[n + 1] = g /\ \A k \in 1..n : gs[k] = f[k]
  BY <1>1, AppendedAt
<1>3. n + 1 \in 1..n + 1 /\ \A k \in 1..n : k \in 1..n + 1 /\ k # n + 1
  BY <1>2
<1>4. \A k \in 1..n + 1 : Unlike(gs[k])
  BY <1>2 DEF Neat
<1>5. \A j, k \in 1..n + 1 : j # k => Severed(gs[j], gs[k])
  BY <1>2 DEF Neat
<1>6. Unlike(g)
  BY <1>2, <1>3, <1>4
<1>7. \A k \in 1..n : Unlike(f[k])
  BY <1>2, <1>3, <1>4
<1>8. \A k \in 1..n : Severed(f[k], g)
  BY <1>2, <1>3, <1>5
<1>9. \A j, k \in 1..n : j # k => Severed(f[j], f[k])
  BY <1>2, <1>3, <1>5
<1>10. QED
  BY <1>2, <1>6, <1>7, <1>8, <1>9

(* One more record of a tidy section leaves the groups neat. *)
LEMMA GrowNeat ==
  ASSUME NEW E, NEW gs, Groups(E, gs), NEW s \in Seq(E), Items(gs) = ToSet(s),
         Neat(gs), Latest(gs, s), NEW x \in E, NEW t, t = Append(s, x), Tidy(t)
  PROVE  Neat(Grow(gs, x)) /\ Latest(Grow(gs, x), t)
<1>1. gs \in Seq(Seq(E))
  BY DEF Groups
<1>2. \A r \in ToSet(s) : SameKey(r, x) =>
        r.data # x.data /\ s # <<>> /\ SameSet(s[Len(s)], x)
  BY TidyAppend
<1>3. t # <<>> /\ t[Len(t)] = x
  <2>1. PICK n : n = Len(s)
    OBVIOUS
  <2>2. n \in Nat /\ Len(t) = n + 1 /\ t[n + 1] = x
    BY <2>1, AppendedAt
  <2>3. t # <<>>
    BY AppendedIsNonempty
  <2>4. QED
    BY <2>2, <2>3
<1>4. CASE gs # <<>> /\ SameSet(Head(Last(gs)), x)
  <2>1. Front(gs) \in Seq(Seq(E)) /\ Last(gs) \in Seq(E) /\ Append(Front(gs), Last(gs)) = gs
    BY <1>1, <1>4, FrontLast
  <2>2. PICK f \in Seq(Seq(E)) : f = Front(gs)
    BY <2>1
  <2>3. PICK g \in Seq(E) : g = Last(gs)
    BY <2>1
  <2>4. PICK h : h = Append(g, x)
    OBVIOUS
  <2>5. h \in Seq(E) /\ ToSet(h) = ToSet(g) \cup {x}
    BY <2>4, Appended, ItemsAppend
  <2>6. gs = Append(f, g)
    BY <2>1, <2>2, <2>3
  <2>7. /\ Unlike(g)
        /\ \A k \in DOMAIN f : Unlike(f[k]) /\ Severed(f[k], g)
        /\ \A j, k \in DOMAIN f : j # k => Severed(f[j], f[k])
    BY <2>6, NeatParts
  <2>8. ToSet(gs) = ToSet(f) \cup {g}
    BY <2>6, ItemsAppend
  <2>9. Alike(g) /\ ToSet(g) \subseteq ToSet(s)
    BY <2>8 DEF Groups, Items
  <2>10. \A r \in ToSet(g) : SameSet(Head(g), r)
    BY <2>9, AlikeHead
  <2>11. \A r \in ToSet(g) : SameKey(r, x)
    BY <1>4, <2>3, <2>10 DEF SameSet, SameKey
  <2>12. Unlike(h)
    <3>1. \A r \in ToSet(g) : r.data # x.data
      BY <1>2, <2>9, <2>11
    <3>2. QED
      BY <2>4, <2>7, <3>1, GrownUnlike
  <2>13. g # <<>> /\ 1 \in DOMAIN g /\ Head(g) = g[1] /\ g[1] \in ToSet(g)
    <3>1. g # <<>>
      BY <2>9 DEF Alike
    <3>2. QED
      BY <3>1, HeadIsFirst
  <2>14. \A k \in DOMAIN f : Severed(f[k], h)
    <3>1. SUFFICES ASSUME NEW k \in DOMAIN f, NEW r \in ToSet(f[k]), NEW v \in ToSet(h)
                   PROVE  ~SameKey(r, v)
      BY DEF Severed
    <3>2. \A w \in ToSet(g) : ~SameKey(r, w)
      BY <2>7 DEF Severed
    <3>3. CASE v \in ToSet(g)
      BY <3>2, <3>3
    <3>4. CASE v = x
      <4>1. ~SameKey(r, g[1]) /\ SameKey(g[1], x)
        BY <2>11, <2>13, <3>2
      <4>2. QED
        BY <3>4, <4>1 DEF SameKey
    <3>5. QED
      BY <2>5, <3>3, <3>4
  <2>15. Grow(gs, x) = Append(f, h)
    BY <1>4, <2>2, <2>3, <2>4 DEF Grow
  <2>16. Neat(Append(f, h))
    <3>1. PICK u : u = Append(f, h)
      OBVIOUS
    <3>2. Neat(u)
      BY <2>5, <2>7, <2>12, <2>14, <3>1, NeatAppend
    <3>3. QED
      BY <3>1, <3>2
  <2>17. Last(Append(f, h)) = h /\ Append(f, h) # <<>>
    BY <2>5, LastIs
  <2>18. SameSet(Head(h), x)
    <3>1. h # <<>>
      BY <2>4, AppendedIsNonempty
    <3>2. Head(h) = h[1]
      BY <2>5, <3>1, HeadIsFirst
    <3>3. h[1] = g[1]
      <4>1. PICK n : n = Len(g)
        OBVIOUS
      <4>2. DOMAIN g = 1..n /\ \A k \in 1..n : h[k] = g[k]
        BY <2>4, <4>1, AppendedAt
      <4>3. QED
        BY <2>13, <4>2
    <3>4. QED
      BY <1>4, <2>3, <2>13, <3>2, <3>3
  <2>19. QED
    BY <1>3, <2>15, <2>16, <2>17, <2>18 DEF Latest
<1>5. CASE ~(gs # <<>> /\ SameSet(Head(Last(gs)), x))
  <2>1. PICK h : h = <<x>>
    OBVIOUS
  <2>2. h \in Seq(E) /\ ToSet(h) = {x} /\ Head(h) = x
    BY <2>1, SingleGroup
  <2>3. Grow(gs, x) = Append(gs, h)
    BY <1>5, <2>1 DEF Grow
  <2>4. Unlike(h)
    <3>1. DOMAIN h = {1}
      BY <2>1
    <3>2. QED
      BY <3>1 DEF Unlike
  <2>5. \A r \in ToSet(s) : ~SameKey(r, x)
    <3>1. SUFFICES ASSUME NEW r \in ToSet(s), SameKey(r, x) PROVE FALSE
      OBVIOUS
    <3>2. s # <<>> /\ SameSet(s[Len(s)], x)
      BY <1>2, <3>1
    <3>3. gs # <<>> /\ SameSet(Head(Last(gs)), s[Len(s)])
      BY <3>2 DEF Latest
    <3>4. SameSet(Head(Last(gs)), x)
      BY <3>2, <3>3 DEF SameSet
    <3>5. QED
      BY <1>5, <3>3, <3>4
  <2>6. \A k \in DOMAIN gs : Severed(gs[k], h)
    <3>1. SUFFICES ASSUME NEW k \in DOMAIN gs, NEW r \in ToSet(gs[k]) PROVE ~SameKey(r, x)
      BY <2>2 DEF Severed
    <3>2. gs[k] \in ToSet(gs)
      BY DEF ToSet
    <3>3. r \in ToSet(s)
      BY <3>2 DEF Items
    <3>4. QED
      BY <2>5, <3>3
  <2>7. \A k \in DOMAIN gs : Unlike(gs[k])
    BY DEF Neat
  <2>8. \A j, k \in DOMAIN gs : j # k => Severed(gs[j], gs[k])
    BY DEF Neat
  <2>9. Neat(Append(gs, h))
    <3>1. PICK u : u = Append(gs, h)
      OBVIOUS
    <3>2. Neat(u)
      BY <1>1, <2>2, <2>4, <2>6, <2>7, <2>8, <3>1, NeatAppend
    <3>3. QED
      BY <3>1, <3>2
  <2>10. Last(Append(gs, h)) = h /\ Append(gs, h) # <<>>
    BY <1>1, <2>2, LastIs
  <2>11. SameSet(Head(h), x)
    BY <2>2 DEF SameSet
  <2>12. QED
    BY <1>3, <2>3, <2>9, <2>10, <2>11 DEF Latest
<1>6. QED
  BY <1>4, <1>5

LEMMA GroupedNeat ==
  ASSUME NEW E, Comparable(E)
  PROVE  \A s \in Seq(E) : OneProof(s) /\ Tidy(s) => Neat(Grouped(s)) /\ Latest(Grouped(s), s)
<1> DEFINE Kept(s) == OneProof(s) /\ Tidy(s) => Neat(Grouped(s)) /\ Latest(Grouped(s), s)
           T == {s \in Seq(E) : Kept(s)}
<1>1. <<>> \in T
  <2>1. <<>> \in Seq(E) /\ DOMAIN <<>> = {}
    OBVIOUS
  <2>2. Neat(<<>>) /\ Latest(<<>>, <<>>)
    BY <2>1 DEF Neat, Latest
  <2>3. QED
    BY <2>1, <2>2, GroupedEmpty
<1>2. ASSUME NEW s \in T, NEW x \in E PROVE Append(s, x) \in T
  <2>1. s \in Seq(E) /\ Kept(s)
    OBVIOUS
  <2>2. PICK t \in Seq(E) : t = Append(s, x)
    BY <2>1, Appended
  <2>3. SUFFICES ASSUME OneProof(t), Tidy(t)
                 PROVE  Neat(Grouped(t)) /\ Latest(Grouped(t), t)
    BY <2>2
  <2>4. Tidy(s)
    BY <2>1, <2>2, <2>3, TidyAppend
  <2>5. OneProof(s)
    <3>1. PICK n : n = Len(s)
      OBVIOUS
    <3>2. /\ n \in Nat /\ DOMAIN s = 1..n /\ DOMAIN t = 1..n + 1
          /\ \A k \in 1..n : t[k] = s[k]
      BY <2>1, <2>2, <3>1, AppendedAt
    <3>3. \A k \in 1..n : k \in 1..n + 1
      BY <3>2
    <3>4. QED
      BY <2>3, <3>2, <3>3 DEF OneProof
  <2>6. Neat(Grouped(s)) /\ Latest(Grouped(s), s)
    BY <2>1, <2>4, <2>5
  <2>7. Groups(E, Grouped(s)) /\ Items(Grouped(s)) = ToSet(s)
    BY <2>1, <2>5, GroupedKeeps
  <2>8. PICK gs : gs = Grouped(s)
    OBVIOUS
  <2>9. Neat(Grow(gs, x)) /\ Latest(Grow(gs, x), t)
    BY <2>1, <2>2, <2>3, <2>6, <2>7, <2>8, GrowNeat
  <2>10. Grouped(t) = Grow(gs, x)
    BY <2>1, <2>2, <2>8, GroupedAppend
  <2>11. QED
    BY <2>9, <2>10
<1>3. T \in SUBSET Seq(E)
  OBVIOUS
<1> HIDE DEF T
<1>4. T = Seq(E)
  BY <1>1, <1>2, <1>3, SeqInduction
<1>5. QED
  BY <1>4 DEF T

(* A sorted group is in canonical order. *)
LEMMA SortedAscends ==
  ASSUME NEW E, NEW g \in Seq(E), Alike(g), Sortable(g), Unlike(g), NEW h, h = Sorted(g)
  PROVE  \A j, k \in DOMAIN h : j < k => h[j].data < h[k].data
<1>1. PICK p : p = CHOOSE o \in Bijection(DOMAIN g, DOMAIN g) : Ascends(g, o)
  OBVIOUS
<1>2. p \in Bijection(DOMAIN g, DOMAIN g) /\ Ascends(g, p)
  BY <1>1, SortedOrder
<1>3. PICK n \in Nat : n = Len(g)
  <2>1. Len(g) \in Nat
    OBVIOUS
  <2>2. QED
    BY <2>1
<1>4. DOMAIN g = 1..n
  BY <1>3
<1>5. /\ \A k \in 1..n : p[k] \in 1..n
      /\ \A j, k \in 1..n : p[j] = p[k] => j = k
  BY <1>2, <1>4 DEF Bijection, Injection, IsInjective
<1>6. Sorted(g) = [k \in DOMAIN g |-> g[p[k]]]
  BY <1>1 DEF Sorted
<1>7. DOMAIN h = 1..n /\ \A k \in 1..n : h[k] = g[p[k]]
  BY <1>4, <1>6
<1>8. SUFFICES ASSUME NEW j \in 1..n, NEW k \in 1..n, j < k
               PROVE  h[j].data < h[k].data
  BY <1>7
<1>9. p[j] \in 1..n /\ p[k] \in 1..n /\ p[j] # p[k]
  BY <1>5, <1>8
<1>10. n # 1
  BY <1>8
<1>11. \A i \in 1..n : g[i].data \in Nat
  BY <1>3, <1>4, <1>10 DEF Sortable
<1>12. g[p[j]].data <= g[p[k]].data
  BY <1>2, <1>4, <1>8 DEF Ascends
<1>13. g[p[j]].data # g[p[k]].data
  BY <1>4, <1>9 DEF Unlike
<1>14. g[p[j]].data < g[p[k]].data
  BY <1>9, <1>11, <1>12, <1>13
<1>15. QED
  BY <1>7, <1>14

(* A part of the emission is emitted. *)
LEMMA PartIsSent ==
  ASSUME NEW E, NEW rrs, NEW gs \in Seq(Seq(E)), gs = Grouped(rrs), Groups(E, gs),
         NEW signed \in BOOLEAN, NEW k \in DOMAIN gs
  PROVE  ToSet(Part(gs[k], signed)) \subseteq ToSet(Emit(rrs, signed))
<1>1. PICK ps : ps = [j \in DOMAIN gs |-> Part(gs[j], signed)]
  OBVIOUS
<1>2. DOMAIN ps = DOMAIN gs /\ \A j \in DOMAIN gs : ps[j] = Part(gs[j], signed)
  BY <1>1
<1>3. \A j \in DOMAIN gs : Part(gs[j], signed) \in Seq(WithSignatures(E))
  <2>1. SUFFICES ASSUME NEW j \in DOMAIN gs PROVE Part(gs[j], signed) \in Seq(WithSignatures(E))
    OBVIOUS
  <2>2. gs[j] \in Seq(E) /\ gs[j] \in ToSet(gs)
    BY DEF ToSet
  <2>3. Alike(gs[j]) /\ Sortable(gs[j])
    BY <2>2 DEF Groups
  <2>4. QED
    BY <2>2, <2>3, PartKeeps
<1>4. ps \in Seq(Seq(WithSignatures(E)))
  <2>1. PICK n \in Nat : n = Len(gs)
    <3>1. Len(gs) \in Nat
      OBVIOUS
    <3>2. QED
      BY <3>1
  <2>2. DOMAIN gs = 1..n
    BY <2>1
  <2>3. \A j \in 1..n : Part(gs[j], signed) \in Seq(WithSignatures(E))
    BY <1>3, <2>2
  <2>4. QED
    BY <1>1, <2>2, <2>3
<1>5. ToSet(FlattenSeq(ps)) = Items(ps)
  BY <1>4, FlattenKeeps
<1>6. Emit(rrs, signed) = FlattenSeq(ps)
  BY <1>1, EmitIs
<1>7. Part(gs[k], signed) \in ToSet(ps)
  BY <1>2 DEF ToSet
<1>8. ToSet(Part(gs[k], signed)) \subseteq Items(ps)
  BY <1>7 DEF Items
<1>9. QED
  BY <1>5, <1>6, <1>8

(* What emission makes of a group: all of it, followed by its signature. *)
LEMMA SignedPart ==
  ASSUME NEW E, NEW g \in Seq(E), Alike(g), Sortable(g), Unlike(g),
         NEW r \in ToSet(g), r.typ # TYPE_RRSIG, \A s \in ToSet(g) : s.ttl = r.ttl
  PROVE  \E s \in ToSet(Part(g, TRUE)) :
           /\ s.typ = TYPE_RRSIG /\ s.owner = r.owner
           /\ s.data[1] = r.typ /\ s.data[2] = r.ttl
           /\ Canonical(s.data[3], {i.data : i \in ToSet(g)})
<1>1. PICK h \in Seq(E) : h = Sorted(g) /\ ToSet(h) = ToSet(g) /\ Alike(h)
  BY SortedKeeps
<1>2. h # <<>>
  BY <1>1 DEF Alike
<1>3. PICK first : first = Head(h)
  OBVIOUS
<1>4. first \in ToSet(g) /\ SameSet(first, r)
  BY <1>1, <1>2, <1>3, HeadIsFirst, AlikeHead
<1>5. first.owner = r.owner /\ first.typ = r.typ /\ first.ttl = r.ttl
  BY <1>4 DEF SameSet
<1>6. PICK d : d = [k \in DOMAIN h |-> h[k].data]
  OBVIOUS
<1>7. PICK s : s = Rrsig(h)
  OBVIOUS
<1>8. s.typ = TYPE_RRSIG /\ s.owner = first.owner /\ s.data = <<first.typ, first.ttl, d>>
  BY <1>3, <1>6, <1>7 DEF Rrsig, Rr
<1>9. s.data[1] = r.typ /\ s.data[2] = r.ttl /\ s.data[3] = d
  BY <1>5, <1>8
<1>10. DOMAIN d = DOMAIN h /\ \A k \in DOMAIN h : d[k] = h[k].data
  BY <1>6
<1>11. ToSet(d) = {i.data : i \in ToSet(g)}
  <2>1. ToSet(d) = {h[k].data : k \in DOMAIN h}
    BY <1>10 DEF ToSet
  <2>2. {h[k].data : k \in DOMAIN h} = {i.data : i \in ToSet(h)}
    BY DEF ToSet
  <2>3. QED
    BY <1>1, <2>1, <2>2
<1>12. \A j, k \in DOMAIN h : j < k => h[j].data < h[k].data
  BY <1>1, SortedAscends
<1>13. \A j, k \in DOMAIN d : j < k => d[j] < d[k]
  BY <1>10, <1>12
<1>14. Canonical(d, {i.data : i \in ToSet(g)})
  BY <1>11, <1>13 DEF Canonical
<1>15. Part(g, TRUE) = Append(h, s)
  BY <1>1, <1>3, <1>5, <1>7 DEF Part
<1>16. s \in ToSet(Part(g, TRUE))
  <2>1. PICK F : F = E \cup {s}
    OBVIOUS
  <2>2. h \in Seq(F) /\ s \in F
    BY <2>1
  <2>3. ToSet(Append(h, s)) = ToSet(h) \cup {s}
    BY <2>2, ItemsAppend
  <2>4. QED
    BY <1>15, <2>3
<1>17. QED
  BY <1>5, <1>8, <1>9, <1>14, <1>16

(* The record set of a record is what its group holds. *)
SetOf(e, r) == {s \in ToSet(e) : s.owner = r.owner /\ s.typ = r.typ}

LEMMA SetOfGroup ==
  ASSUME NEW gs, Neat(gs), NEW e, NEW k \in DOMAIN gs, NEW r \in ToSet(gs[k]),
         r.typ # TYPE_RRSIG, Alike(gs[k]), NEW E, gs[k] \in Seq(E),
         Items(gs) \subseteq ToSet(e),
         \A s \in ToSet(e) : s \in Items(gs) \/ s.typ = TYPE_RRSIG
  PROVE  SetOf(e, r) = ToSet(gs[k])
<1>1. ASSUME NEW s \in ToSet(gs[k])
      PROVE  s \in ToSet(e) /\ s.owner = r.owner /\ s.typ = r.typ
  <2>1. gs[k] \in ToSet(gs)
    BY DEF ToSet
  <2>2. s \in Items(gs)
    BY <2>1 DEF Items
  <2>3. SameSet(Head(gs[k]), r) /\ SameSet(Head(gs[k]), s)
    BY AlikeHead
  <2>4. QED
    BY <2>2, <2>3 DEF SameSet
<1>2. ASSUME NEW s \in ToSet(e), s.owner = r.owner, s.typ = r.typ
      PROVE  s \in ToSet(gs[k])
  <2>1. PICK j \in DOMAIN gs : s \in ToSet(gs[j])
    BY <1>2 DEF Items, ToSet
  <2>2. SameKey(s, r)
    BY <1>2 DEF SameKey
  <2>3. j # k => Severed(gs[j], gs[k])
    BY DEF Neat
  <2>4. j = k
    BY <2>1, <2>2, <2>3 DEF Severed
  <2>5. QED
    BY <2>1, <2>4
<1>3. QED
  BY <1>1, <1>2 DEF SetOf

(* Every record set of a tidy section that is signed validates. *)
LEMMA EmitSeals ==
  ASSUME NEW E, Comparable(E), NEW rrs \in Seq(E), OneProof(rrs), Tidy(rrs),
         \A r \in ToSet(rrs) : r.typ # TYPE_RRSIG,
         \A r, s \in ToSet(rrs) : r.typ = s.typ => r.ttl = s.ttl,
         NEW e, e = Emit(rrs, TRUE), NEW x \in Rrsets(e)
  PROVE  Validates(e, x)
<1>1. PICK gs \in Seq(Seq(E)) : gs = Grouped(rrs) /\ Groups(E, gs) /\ Items(gs) = ToSet(rrs)
  BY GroupedKeeps DEF Groups
<1>2. Neat(gs)
  BY <1>1, GroupedNeat
<1>3. /\ ToSet(rrs) \subseteq ToSet(e)
      /\ \A s \in ToSet(e) : s \in ToSet(rrs) \/ s.typ = TYPE_RRSIG
  BY EmitKeeps
<1>4. PICK r \in ToSet(e) :
        /\ r.typ # TYPE_RRSIG
        /\ x = [owner |-> r.owner, typ |-> r.typ, ttl |-> r.ttl,
                datas |-> {s.data : s \in {s \in ToSet(e) : s.owner = r.owner /\ s.typ = r.typ}}]
  BY DEF Rrsets
<1>5. PICK k \in DOMAIN gs : r \in ToSet(gs[k])
  <2>1. r \in Items(gs)
    BY <1>1, <1>3, <1>4
  <2>2. QED
    BY <2>1 DEF Items, ToSet
<1>6. PICK g \in Seq(E) : g = gs[k]
  BY <1>5
<1>7. g \in ToSet(gs) /\ Alike(g) /\ Sortable(g) /\ ToSet(g) \subseteq ToSet(rrs)
  <2>1. g \in ToSet(gs)
    BY <1>5, <1>6 DEF ToSet
  <2>2. Alike(g) /\ Sortable(g)
    BY <1>1, <2>1 DEF Groups
  <2>3. ToSet(g) \subseteq ToSet(rrs)
    BY <1>1, <2>1 DEF Items
  <2>4. QED
    BY <2>1, <2>2, <2>3
<1>8. x.datas = {s.data : s \in ToSet(g)}
  <2>1. SetOf(e, r) = ToSet(gs[k])
    <3>1. Items(gs) \subseteq ToSet(e)
      BY <1>1, <1>3
    <3>2. \A s \in ToSet(e) : s \in Items(gs) \/ s.typ = TYPE_RRSIG
      BY <1>1, <1>3
    <3>3. Alike(gs[k]) /\ gs[k] \in Seq(E)
      BY <1>6, <1>7
    <3>4. r.typ # TYPE_RRSIG
      BY <1>4
    <3>5. QED
      BY <1>2, <1>5, <3>1, <3>2, <3>3, <3>4, SetOfGroup, Zenon
  <2>2. x.datas = {s.data : s \in SetOf(e, r)}
    BY <1>4 DEF SetOf
  <2>3. QED
    BY <1>6, <2>1, <2>2
<1>9. x.owner = r.owner /\ x.typ = r.typ /\ x.ttl = r.ttl
  BY <1>4
<1>10. \A s \in ToSet(g) : s.ttl = r.ttl
  <2>1. \A s \in ToSet(g) : SameSet(Head(g), s) /\ SameSet(Head(g), r)
    BY <1>5, <1>6, <1>7, AlikeHead
  <2>2. \A s \in ToSet(g) : s.typ = r.typ
    BY <2>1 DEF SameSet
  <2>3. QED
    BY <1>5, <1>6, <1>7, <2>2
<1>11. Unlike(g)
  BY <1>2, <1>5, <1>6 DEF Neat
<1>12. PICK s \in ToSet(Part(g, TRUE)) :
         /\ s.typ = TYPE_RRSIG /\ s.owner = r.owner
         /\ s.data[1] = r.typ /\ s.data[2] = r.ttl
         /\ Canonical(s.data[3], {i.data : i \in ToSet(g)})
  BY <1>4, <1>5, <1>6, <1>7, <1>10, <1>11, SignedPart
<1>13. s \in ToSet(e)
  BY <1>1, <1>5, <1>6, PartIsSent
<1>14. Canonical(s.data[3], x.datas)
  BY <1>8, <1>12
<1>15. QED
  BY <1>9, <1>12, <1>13, <1>14 DEF Validates


(* The sections the code puts together are tidy. *)
LEMMA FewAreTidy ==
  ASSUME NEW r
  PROVE  Tidy(<<>>) /\ Tidy(<<r>>)
<1>1. DOMAIN <<>> = {} /\ DOMAIN <<r>> = {1}
  OBVIOUS
<1>2. Tidy(<<>>)
  BY <1>1 DEF Tidy
<1>3. \A j, k \in {1} : ~(j < k)
  OBVIOUS
<1>4. Tidy(<<r>>)
  BY <1>1, <1>3 DEF Tidy
<1>5. QED
  BY <1>2, <1>4

LEMMA JoinedAt ==
  ASSUME NEW E, NEW s \in Seq(E), NEW t \in Seq(E), NEW u, u = s \o t
  PROVE  \A k \in DOMAIN u :
           \/ k \in DOMAIN s /\ k <= Len(s) /\ u[k] = s[k]
           \/ k - Len(s) \in DOMAIN t /\ k > Len(s) /\ u[k] = t[k - Len(s)]
<1>1. PICK m \in Nat : m = Len(s) /\ DOMAIN s = 1..m
  <2>1. Len(s) \in Nat /\ DOMAIN s = 1..Len(s)
    OBVIOUS
  <2>2. QED
    BY <2>1
<1>2. PICK n \in Nat : n = Len(t) /\ DOMAIN t = 1..n
  <2>1. Len(t) \in Nat /\ DOMAIN t = 1..Len(t)
    OBVIOUS
  <2>2. QED
    BY <2>1
<1>3. /\ DOMAIN u = 1..m + n
      /\ \A k \in 1..m + n : u[k] = IF k <= m THEN s[k] ELSE t[k - m]
  BY <1>1, <1>2
<1>4. SUFFICES ASSUME NEW k \in 1..m + n
               PROVE  \/ k \in 1..m /\ k <= m /\ u[k] = s[k]
                      \/ k - m \in 1..n /\ k > m /\ u[k] = t[k - m]
  BY <1>1, <1>2, <1>3
<1>5. CASE k <= m
  <2>1. k \in 1..m
    BY <1>5
  <2>2. QED
    BY <1>3, <1>5, <2>1
<1>6. CASE k > m
  <2>1. k - m \in 1..n /\ ~(k <= m)
    BY <1>6
  <2>2. QED
    BY <1>3, <1>6, <2>1
<1>7. k <= m \/ k > m
  OBVIOUS
<1>8. QED
  BY Zenon, <1>5, <1>6, <1>7

LEMMA TidyJoin ==
  ASSUME NEW E, NEW s \in Seq(E), NEW t \in Seq(E), NEW u, u = s \o t,
         Tidy(s), Tidy(t), Severed(s, t)
  PROVE  Tidy(u)
<1>1. PICK m \in Nat : m = Len(s)
  <2>1. Len(s) \in Nat
    OBVIOUS
  <2>2. QED
    BY <2>1
<1>2. \A k \in DOMAIN u : \/ k \in DOMAIN s /\ k <= m /\ u[k] = s[k]
                          \/ k - m \in DOMAIN t /\ k > m /\ u[k] = t[k - m]
  BY <1>1, JoinedAt
<1>3. DOMAIN u \subseteq Nat
  OBVIOUS
<1>4. \A j \in DOMAIN s, k \in DOMAIN t : ~SameKey(s[j], t[k]) /\ ~SameKey(t[k], s[j])
  BY DEF Severed, ToSet, SameKey
<1>5. SUFFICES ASSUME NEW j \in DOMAIN u, NEW k \in DOMAIN u, j < k, SameKey(u[j], u[k])
               PROVE  /\ u[j].data # u[k].data
                      /\ \A i \in DOMAIN u : j <= i /\ i <= k => SameSet(u[i], u[k])
  BY DEF Tidy
<1>6. CASE k <= m
  <2>1. k \in DOMAIN s /\ u[k] = s[k]
    BY <1>2, <1>3, <1>6
  <2>2. \A i \in DOMAIN u : i <= k => i \in DOMAIN s /\ u[i] = s[i]
    BY <1>2, <1>3, <1>6
  <2>3. j \in DOMAIN s /\ u[j] = s[j]
    BY <1>3, <1>5, <2>2
  <2>4. /\ s[j].data # s[k].data
        /\ \A i \in DOMAIN s : j <= i /\ i <= k => SameSet(s[i], s[k])
    BY <1>5, <2>1, <2>3 DEF Tidy
  <2>5. QED
    BY <2>1, <2>2, <2>3, <2>4
<1>7. CASE k > m
  <2>1. k - m \in DOMAIN t /\ u[k] = t[k - m]
    BY <1>2, <1>3, <1>7
  <2>2. j > m
    <3>1. SUFFICES ASSUME j <= m PROVE FALSE
      BY <1>3
    <3>2. j \in DOMAIN s /\ u[j] = s[j]
      BY <1>2, <1>3, <3>1
    <3>3. QED
      BY <1>4, <1>5, <2>1, <3>2
  <2>3. \A i \in DOMAIN u : j <= i => i - m \in DOMAIN t /\ u[i] = t[i - m]
    BY <1>2, <1>3, <2>2
  <2>4. j - m \in DOMAIN t /\ u[j] = t[j - m] /\ j - m < k - m
    BY <1>3, <1>5, <2>3
  <2>5. PICK jj, kk : jj = j - m /\ kk = k - m
    OBVIOUS
  <2>6. /\ t[jj].data # t[kk].data
        /\ \A i \in DOMAIN t : jj <= i /\ i <= kk => SameSet(t[i], t[kk])
    <3>1. jj \in DOMAIN t /\ kk \in DOMAIN t /\ jj < kk
      BY <2>1, <2>4, <2>5
    <3>2. SameKey(t[jj], t[kk])
      BY <1>5, <2>1, <2>4, <2>5
    <3>3. QED
      BY <3>1, <3>2 DEF Tidy
  <2>7. ASSUME NEW i \in DOMAIN u, j <= i, i <= k PROVE SameSet(u[i], u[k])
    <3>1. i - m \in DOMAIN t /\ u[i] = t[i - m]
      BY <2>3, <2>7
    <3>2. jj <= i - m /\ i - m <= kk
      BY <1>3, <2>5, <2>7
    <3>3. SameSet(t[i - m], t[kk])
      BY <2>6, <3>1, <3>2
    <3>4. QED
      BY <2>1, <2>5, <3>1, <3>3
  <2>8. u[j].data # u[k].data
    BY <2>1, <2>4, <2>5, <2>6
  <2>9. QED
    BY <2>7, <2>8
<1>8. QED
  BY <1>3, <1>6, <1>7

(* A section without two records of one set. *)
Sole(rrs) == \A j, k \in DOMAIN rrs : SameKey(rrs[j], rrs[k]) => j = k

LEMMA FewAreSole ==
  ASSUME NEW r
  PROVE  Sole(<<>>) /\ Sole(<<r>>)
<1>1. DOMAIN <<>> = {} /\ DOMAIN <<r>> = {1}
  OBVIOUS
<1>2. QED
  BY <1>1 DEF Sole

LEMMA SoleIsTidy ==
  ASSUME NEW E, NEW rrs \in Seq(E), Sole(rrs)
  PROVE  Tidy(rrs)
<1>1. \A j, k \in DOMAIN rrs : j < k => j # k
  OBVIOUS
<1>2. QED
  BY <1>1 DEF Tidy, Sole

LEMMA SoleJoin ==
  ASSUME NEW E, NEW s \in Seq(E), NEW t \in Seq(E), NEW u, u = s \o t,
         Sole(s), Sole(t), Severed(s, t)
  PROVE  Sole(u)
<1>1. PICK m \in Nat : m = Len(s)
  <2>1. Len(s) \in Nat
    OBVIOUS
  <2>2. QED
    BY <2>1
<1>2. \A k \in DOMAIN u : \/ k \in DOMAIN s /\ k <= m /\ u[k] = s[k]
                          \/ k - m \in DOMAIN t /\ k > m /\ u[k] = t[k - m]
  BY <1>1, JoinedAt
<1>3. DOMAIN u \subseteq Nat
  OBVIOUS
<1>4. \A j \in DOMAIN s, k \in DOMAIN t : ~SameKey(s[j], t[k]) /\ ~SameKey(t[k], s[j])
  BY DEF Severed, ToSet, SameKey
<1>5. SUFFICES ASSUME NEW j \in DOMAIN u, NEW k \in DOMAIN u, SameKey(u[j], u[k])
               PROVE  j = k
  BY DEF Sole
<1>6. CASE j \in DOMAIN s /\ u[j] = s[j]
  <2>1. CASE k \in DOMAIN s /\ u[k] = s[k]
    BY <1>5, <1>6, <2>1 DEF Sole
  <2>2. CASE k - m \in DOMAIN t /\ u[k] = t[k - m]
    BY <1>4, <1>5, <1>6, <2>2
  <2>3. QED
    BY <1>2, <2>1, <2>2
<1>7. CASE j - m \in DOMAIN t /\ u[j] = t[j - m]
  <2>1. CASE k \in DOMAIN s /\ u[k] = s[k]
    BY <1>4, <1>5, <1>7, <2>1
  <2>2. CASE k - m \in DOMAIN t /\ u[k] = t[k - m]
    <3>1. j - m = k - m
      BY <1>5, <1>7, <2>2 DEF Sole
    <3>2. QED
      BY <1>3, <3>1
  <2>3. QED
    BY <1>2, <2>1, <2>2
<1>8. QED
  BY <1>2, <1>6, <1>7

LEMMA SoleFlatten ==
  ASSUME NEW E
  PROVE  \A gs \in Seq(Seq(E)) :
           /\ \A k \in DOMAIN gs : Sole(gs[k])
           /\ \A j, k \in DOMAIN gs : j # k => Severed(gs[j], gs[k])
           => Sole(FlattenSeq(gs))
<1> DEFINE Apart1(gs) == /\ \A k \in DOMAIN gs : Sole(gs[k])
                         /\ \A j, k \in DOMAIN gs : j # k => Severed(gs[j], gs[k])
           Kept(gs) == Apart1(gs) => Sole(FlattenSeq(gs))
           T == {gs \in Seq(Seq(E)) : Kept(gs)}
<1>1. <<>> \in T
  <2>1. <<>> \in Seq(Seq(E)) /\ DOMAIN <<>> = {}
    OBVIOUS
  <2>2. Sole(<<>>)
    BY <2>1 DEF Sole
  <2>3. QED
    BY <2>1, <2>2, FlattenEmpty
<1>2. ASSUME NEW gs \in T, NEW g \in Seq(E) PROVE Append(gs, g) \in T
  <2>1. gs \in Seq(Seq(E)) /\ Kept(gs)
    OBVIOUS
  <2>2. PICK hs \in Seq(Seq(E)) : hs = Append(gs, g)
    BY <2>1, Appended
  <2>3. SUFFICES ASSUME Apart1(hs) PROVE Sole(FlattenSeq(hs))
    BY <2>2
  <2>4. PICK n : n = Len(gs)
    OBVIOUS
  <2>5. /\ n \in Nat /\ DOMAIN gs = 1..n /\ DOMAIN hs = 1..n + 1
        /\ hs[n + 1] = g /\ \A k \in 1..n : hs[k] = gs[k]
    BY <2>1, <2>2, <2>4, AppendedAt
  <2>6. n + 1 \in 1..n + 1 /\ \A k \in 1..n : k \in 1..n + 1 /\ k # n + 1
    BY <2>5
  <2>7. \A k \in 1..n : Sole(gs[k])
    BY <2>3, <2>5, <2>6
  <2>8. \A j, k \in 1..n : j # k => Severed(gs[j], gs[k])
    BY <2>3, <2>5, <2>6
  <2>9. Sole(g) /\ \A k \in 1..n : Severed(gs[k], g)
    BY <2>3, <2>5, <2>6
  <2>10. Sole(FlattenSeq(gs))
    BY <2>1, <2>5, <2>7, <2>8
  <2>11. PICK f \in Seq(E) : f = FlattenSeq(gs)
    BY <2>1, FlattenAppend
  <2>12. FlattenSeq(hs) = f \o g
    BY <2>1, <2>2, <2>11, FlattenAppend
  <2>13. Severed(f, g)
    <3>1. ToSet(f) = Items(gs)
      BY <2>1, <2>11, FlattenKeeps
    <3>2. ASSUME NEW r \in Items(gs), NEW v \in ToSet(g) PROVE ~SameKey(r, v)
      <4>1. PICK h \in ToSet(gs) : r \in ToSet(h)
        BY DEF Items
      <4>2. PICK k \in DOMAIN gs : h = gs[k]
        BY DEF ToSet
      <4>3. Severed(h, g)
        BY <2>5, <2>9, <4>2
      <4>4. QED
        BY <4>1, <4>3 DEF Severed
    <3>3. QED
      BY <3>1, <3>2 DEF Severed
  <2>14. PICK u : u = f \o g
    OBVIOUS
  <2>15. Sole(u)
    BY <2>9, <2>10, <2>11, <2>13, <2>14, SoleJoin
  <2>16. QED
    BY <2>12, <2>14, <2>15
<1>3. T \in SUBSET Seq(Seq(E))
  OBVIOUS
<1> HIDE DEF T
<1>4. T = Seq(Seq(E))
  BY <1>1, <1>2, <1>3, SeqInduction
<1>5. QED
  BY <1>4 DEF T


-----------------------------------------------------------------------------
(* What the zone holds, told without any answer: the types of a name, and  *)
(* the lifetime and the contents of each of its record sets.               *)
ConfiguredNs(p, n) == n \in ToSet(p.ns_names) \cup {p.soa_name}

ApexTypes(p) ==
  {TYPE_SOA, TYPE_NS, TYPE_A}
    \cup (IF p.glue_ip6 # None THEN {TYPE_AAAA} ELSE {})
    \cup (IF p.spf # None THEN {TYPE_TXT} ELSE {})
    \cup (IF p.dnssec THEN {TYPE_DNSKEY, TYPE_CDS, TYPE_CDNSKEY} ELSE {})

AddressOf(p, n) ==
  IF n = Apex \/ ConfiguredNs(p, n) THEN [v4 |-> p.glue_ip, v6 |-> p.glue_ip6] ELSE Address[n]

TextOf(p, n) ==
  IF n \in Version THEN p.version ELSE IF n = Dmarc THEN p.dmarc ELSE p.spf

Types(p, n) ==
  IF n \in Version THEN {TYPE_TXT}
  ELSE IF n \notin InZone THEN {}
  ELSE IF n = Dmarc /\ p.dmarc # None THEN {TYPE_TXT}
  ELSE IF n = Apex THEN ApexTypes(p)
  ELSE address_types(AddressOf(p, n))

Ttl(p, t) ==
  IF t \in {TYPE_SOA, TYPE_DNSKEY, TYPE_CDS, TYPE_CDNSKEY} THEN TTL_SOA
  ELSE IF t = TYPE_NSEC THEN p.minimum ELSE TTL_RR

Datas(p, n, t) ==
  IF t = TYPE_SOA THEN {p.serial}
  ELSE IF t = TYPE_NS THEN {Rank[p.ns_names[k]] : k \in DOMAIN p.ns_names}
  ELSE IF t = TYPE_A THEN {AddressOf(p, n).v4}
  ELSE IF t = TYPE_AAAA THEN {AddressOf(p, n).v6}
  ELSE IF t = TYPE_TXT THEN {Smaller(TextOf(p, n), 255)}
  ELSE IF t = TYPE_NSEC THEN {nsec_types(Types(p, n))}
  ELSE {0}

Truth(p, n, t) == [owner |-> n, typ |-> t, ttl |-> Ttl(p, t), datas |-> Datas(p, n, t)]

(* A message tells no record set but as it is in the zone, ...             *)
Right(p, m) == \A x \in Learned(m) : x = Truth(p, x.owner, x.typ)

(* ... tells none that the zone does not have, ...                         *)
Listed(p, m) == \A x \in Learned(m) : x.typ \in Types(p, x.owner) \cup {TYPE_NSEC}

(* ... and denies none that the zone has.                                  *)
Denied(p, m) == Denies(m) => m.qtype \notin Types(p, m.name)

-----------------------------------------------------------------------------
(* Sections before they are emitted. *)
IsSeq(s) == \E E : s \in Seq(E)

Started(p) == p \in Environment /\ p.ns_names \in Seq(Name) /\ p.ns_names # <<>>

(* A record that is alone of its type. *)
Exact(p, r) ==
  /\ r.typ # TYPE_RRSIG
  /\ r.typ # TYPE_NSEC => r.data \in Nat
  /\ r.ttl = Ttl(p, r.typ)
  /\ Datas(p, r.owner, r.typ) = {r.data}

Tells(p, rrs) ==
  \A r \in ToSet(rrs) :
    /\ r.typ # TYPE_RRSIG
    /\ r.typ # TYPE_NSEC => r.data \in Nat
    /\ r.ttl = Ttl(p, r.typ)
    /\ r.data \in Datas(p, r.owner, r.typ)
    /\ \A d \in Datas(p, r.owner, r.typ) :
         \E s \in ToSet(rrs) : s.owner = r.owner /\ s.typ = r.typ /\ s.data = d

(* No name server is configured twice. *)
NsDistinct(p) ==
  \A j, k \in DOMAIN p.ns_names : Rank[p.ns_names[j]] = Rank[p.ns_names[k]] => j = k

Good(p, rrs) ==
  IsSeq(rrs) /\ Tells(p, rrs) /\ OneProof(rrs) /\ (NsDistinct(p) => Tidy(rrs))

NoProof(rrs) == \A r \in ToSet(rrs) : r.typ # TYPE_NSEC

LEMMA SeqOfItems == ASSUME NEW rrs, IsSeq(rrs) PROVE rrs \in Seq(ToSet(rrs))
<1>1. PICK E : rrs \in Seq(E)
  BY DEF IsSeq
<1>2. PICK n \in Nat : n = Len(rrs)
  <2>1. Len(rrs) \in Nat
    BY <1>1
  <2>2. QED
    BY <2>1
<1>3. \A k \in 1..n : rrs[k] \in ToSet(rrs)
  BY <1>1, <1>2 DEF ToSet
<1>4. rrs = [k \in 1..n |-> rrs[k]]
  BY <1>1, <1>2
<1>5. [k \in 1..n |-> rrs[k]] \in Seq(ToSet(rrs))
  BY <1>3
<1>6. QED
  BY <1>4, <1>5

LEMMA Joint ==
  ASSUME NEW s, NEW t, IsSeq(s), IsSeq(t)
  PROVE  IsSeq(s \o t) /\ ToSet(s \o t) = ToSet(s) \cup ToSet(t)
<1>1. PICK A1 : s \in Seq(A1)
  BY DEF IsSeq
<1>2. PICK B1 : t \in Seq(B1)
  BY DEF IsSeq
<1>3. PICK C1 : C1 = A1 \cup B1
  OBVIOUS
<1>4. s \in Seq(C1) /\ t \in Seq(C1)
  BY <1>1, <1>2, <1>3
<1>5. s \o t \in Seq(C1) /\ ToSet(s \o t) = ToSet(s) \cup ToSet(t)
  BY <1>4, ItemsConcat
<1>6. QED
  BY <1>5 DEF IsSeq

LEMMA NoneIsGood ==
  ASSUME NEW p
  PROVE  Good(p, <<>>) /\ ToSet(<<>>) = {}
<1>1. <<>> \in Seq({}) /\ ToSet(<<>>) = {} /\ DOMAIN <<>> = {}
  BY DEF ToSet
<1>2. Tidy(<<>>)
  BY FewAreTidy
<1>3. QED
  BY <1>1, <1>2 DEF Good, IsSeq, Tells, OneProof

LEMMA OneIsGood ==
  ASSUME NEW p, NEW r, Exact(p, r)
  PROVE  Good(p, <<r>>) /\ ToSet(<<r>>) = {r}
<1>1. <<r>> \in Seq({r}) /\ DOMAIN <<r>> = {1} /\ <<r>>[1] = r
  OBVIOUS
<1>2. ToSet(<<r>>) = {r}
  BY <1>1 DEF ToSet
<1>3. IsSeq(<<r>>)
  BY <1>1 DEF IsSeq
<1>4. OneProof(<<r>>)
  BY <1>1 DEF OneProof
<1>5. Tells(p, <<r>>)
  BY <1>2 DEF Tells, Exact
<1>6. Tidy(<<r>>)
  BY FewAreTidy
<1>7. QED
  BY <1>2, <1>3, <1>4, <1>5, <1>6 DEF Good

LEMMA NoProofIsOne ==
  ASSUME NEW rrs, NoProof(rrs)
  PROVE  OneProof(rrs)
BY DEF NoProof, OneProof, ToSet

LEMMA BothAreGood ==
  ASSUME NEW p, NEW s, NEW t, NEW u, u = s \o t,
         Good(p, s), Good(p, t), NoProof(s), NoProof(t), Severed(s, t)
  PROVE  Good(p, u) /\ NoProof(u) /\ ToSet(u) = ToSet(s) \cup ToSet(t)
<1>1. IsSeq(s \o t) /\ ToSet(s \o t) = ToSet(s) \cup ToSet(t)
  BY Joint DEF Good
<1>2. u = s \o t
  OBVIOUS
<1>3. ToSet(u) = ToSet(s) \cup ToSet(t)
  BY <1>1, <1>2
<1>4. NoProof(u)
  BY <1>3 DEF NoProof
<1>5. Tells(p, s) /\ Tells(p, t)
  BY DEF Good
<1>6. Tells(p, u)
  <2>1. ASSUME NEW v, Tells(p, v), ToSet(v) \subseteq ToSet(u), NEW r \in ToSet(v)
        PROVE  /\ r.typ # TYPE_RRSIG
               /\ r.typ # TYPE_NSEC => r.data \in Nat
               /\ r.ttl = Ttl(p, r.typ)
               /\ r.data \in Datas(p, r.owner, r.typ)
               /\ \A d \in Datas(p, r.owner, r.typ) :
                    \E i \in ToSet(u) : i.owner = r.owner /\ i.typ = r.typ /\ i.data = d
    <3>1. /\ r.typ # TYPE_RRSIG
          /\ r.typ # TYPE_NSEC => r.data \in Nat
          /\ r.ttl = Ttl(p, r.typ)
          /\ r.data \in Datas(p, r.owner, r.typ)
      BY <2>1, Zenon DEF Tells
    <3>2. \A d \in Datas(p, r.owner, r.typ) :
            \E i \in ToSet(v) : i.owner = r.owner /\ i.typ = r.typ /\ i.data = d
      BY <2>1, Zenon DEF Tells
    <3>3. \A d \in Datas(p, r.owner, r.typ) :
            \E i \in ToSet(u) : i.owner = r.owner /\ i.typ = r.typ /\ i.data = d
      BY <2>1, <3>2
    <3>4. QED
      BY <3>1, <3>3
  <2>2. ToSet(s) \subseteq ToSet(u) /\ ToSet(t) \subseteq ToSet(u)
    BY <1>3
  <2>3. SUFFICES ASSUME NEW r \in ToSet(u)
                 PROVE  /\ r.typ # TYPE_RRSIG
                        /\ r.typ # TYPE_NSEC => r.data \in Nat
                        /\ r.ttl = Ttl(p, r.typ)
                        /\ r.data \in Datas(p, r.owner, r.typ)
                        /\ \A d \in Datas(p, r.owner, r.typ) :
                             \E i \in ToSet(u) : i.owner = r.owner /\ i.typ = r.typ /\ i.data = d
    BY DEF Tells
  <2>4. CASE r \in ToSet(s)
    BY <1>5, <2>1, <2>2, <2>4, Zenon
  <2>5. CASE r \in ToSet(t)
    BY <1>5, <2>1, <2>2, <2>5, Zenon
  <2>6. QED
    BY <1>3, <2>4, <2>5
<1>7. NsDistinct(p) => Tidy(u)
  <2>1. PICK E : E = ToSet(s) \cup ToSet(t)
    OBVIOUS
  <2>2. s \in Seq(ToSet(s)) /\ t \in Seq(ToSet(t))
    BY SeqOfItems DEF Good
  <2>3. s \in Seq(E) /\ t \in Seq(E)
    BY <2>1, <2>2
  <2>4. SUFFICES ASSUME Tidy(s), Tidy(t) PROVE Tidy(u)
    BY DEF Good
  <2>5. QED
    BY <1>2, <2>3, <2>4, TidyJoin
<1>8. OneProof(u)
  BY <1>4, NoProofIsOne
<1>9. QED
  BY <1>1, <1>2, <1>3, <1>4, <1>6, <1>7, <1>8 DEF Good

(* What is learned from a section that was emitted. *)
LEMMA Emitted ==
  ASSUME NEW p, NEW rrs, Good(p, rrs), NEW signed \in BOOLEAN
  PROVE  /\ \A x \in Rrsets(Emit(rrs, signed)) :
              /\ x = Truth(p, x.owner, x.typ)
              /\ \E r \in ToSet(rrs) : x.owner = r.owner /\ x.typ = r.typ
         /\ Emit(rrs, signed) = <<>> => rrs = <<>>
<1>1. rrs \in Seq(ToSet(rrs))
  BY SeqOfItems DEF Good
<1>2. Comparable(ToSet(rrs))
  BY DEF Good, Tells, Comparable
<1>3. PICK e : e = Emit(rrs, signed)
  OBVIOUS
<1>4. /\ ToSet(rrs) \subseteq ToSet(e)
      /\ \A r \in ToSet(e) : r \in ToSet(rrs) \/ r.typ = TYPE_RRSIG
      /\ e = <<>> => rrs = <<>>
  BY <1>1, <1>2, <1>3, EmitKeeps DEF Good
<1>5. ASSUME NEW x \in Rrsets(e)
      PROVE  /\ x = Truth(p, x.owner, x.typ)
             /\ \E r \in ToSet(rrs) : x.owner = r.owner /\ x.typ = r.typ
  <2>1. PICK r \in ToSet(e) :
          /\ r.typ # TYPE_RRSIG
          /\ x = [owner |-> r.owner, typ |-> r.typ, ttl |-> r.ttl,
                  datas |-> {s.data : s \in {s \in ToSet(e) : s.owner = r.owner /\ s.typ = r.typ}}]
    BY DEF Rrsets
  <2>2. r \in ToSet(rrs)
    BY <1>4, <2>1
  <2>3. x.owner = r.owner /\ x.typ = r.typ
    BY <2>1
  <2>4. PICK D : D = {s.data : s \in {s \in ToSet(e) : s.owner = r.owner /\ s.typ = r.typ}}
    OBVIOUS
  <2>5. ASSUME NEW s \in ToSet(e), s.owner = r.owner, s.typ = r.typ
        PROVE  s.data \in Datas(p, r.owner, r.typ)
    <3>1. s \in ToSet(rrs)
      BY <1>4, <2>1, <2>5
    <3>2. s.data \in Datas(p, s.owner, s.typ)
      BY <3>1 DEF Good, Tells
    <3>3. QED
      BY <2>5, <3>2
  <2>6. ASSUME NEW d \in Datas(p, r.owner, r.typ) PROVE d \in D
    <3>1. PICK s \in ToSet(rrs) : s.owner = r.owner /\ s.typ = r.typ /\ s.data = d
      BY <2>2 DEF Good, Tells
    <3>2. s \in ToSet(e)
      BY <1>4
    <3>3. QED
      BY <2>4, <3>1, <3>2
  <2>7. D = Datas(p, r.owner, r.typ)
    BY <2>4, <2>5, <2>6
  <2>8. r.ttl = Ttl(p, r.typ)
    BY <2>2 DEF Good, Tells
  <2>9. QED
    BY <2>1, <2>2, <2>3, <2>4, <2>7, <2>8 DEF Truth
<1>6. QED
  BY <1>3, <1>4, <1>5

-----------------------------------------------------------------------------
(* Records as they are in the zone. *)
OfType(r, n, t) == r.owner = n /\ r.typ = t

LEMMA ExactSoa ==
  ASSUME NEW p, Started(p), NEW n, NEW b
  PROVE  Exact(p, Soa(n, b, p)) /\ OfType(Soa(n, b, p), n, TYPE_SOA)
<1>1. p.serial \in Nat
  BY DEF Started, Environment
<1>2. PICK r : r = Soa(n, b, p)
  OBVIOUS
<1>3. r.owner = n /\ r.typ = TYPE_SOA /\ r.ttl = TTL_SOA /\ r.data = p.serial
  BY <1>2 DEF Soa, Rr
<1>4. TYPE_SOA # TYPE_RRSIG /\ TYPE_SOA # TYPE_NSEC
  BY DEF TYPE_SOA, TYPE_RRSIG, TYPE_NSEC
<1>5. Ttl(p, TYPE_SOA) = TTL_SOA /\ Datas(p, n, TYPE_SOA) = {p.serial}
  BY DEF Ttl, Datas
<1>6. QED
  BY <1>1, <1>2, <1>3, <1>4, <1>5 DEF Exact, OfType

LEMMA ExactA ==
  ASSUME NEW p, NEW n, NEW b, AddressOf(p, n).v4 \in Nat
  PROVE  Exact(p, A(n, b, AddressOf(p, n).v4)) /\ OfType(A(n, b, AddressOf(p, n).v4), n, TYPE_A)
<1>1. PICK ip \in Nat : ip = AddressOf(p, n).v4
  OBVIOUS
<1>2. PICK r : r = A(n, b, ip)
  OBVIOUS
<1>3. r.owner = n /\ r.typ = TYPE_A /\ r.ttl = TTL_RR /\ r.data = ip
  BY <1>2 DEF A, Rr
<1>4. TYPE_A # TYPE_RRSIG
  BY DEF TYPE_A, TYPE_RRSIG
<1>5. Ttl(p, TYPE_A) = TTL_RR
  BY DEF Ttl, TYPE_A, TYPE_SOA, TYPE_DNSKEY, TYPE_CDS, TYPE_CDNSKEY, TYPE_NSEC
<1>6. Datas(p, n, TYPE_A) = {ip}
  BY <1>1 DEF Datas, TYPE_A, TYPE_SOA, TYPE_NS
<1>7. QED
  BY <1>1, <1>2, <1>3, <1>4, <1>5, <1>6 DEF Exact, OfType

LEMMA ExactAaaa ==
  ASSUME NEW p, NEW n, NEW b, AddressOf(p, n).v6 \in Nat
  PROVE  /\ Exact(p, Aaaa(n, b, AddressOf(p, n).v6))
         /\ OfType(Aaaa(n, b, AddressOf(p, n).v6), n, TYPE_AAAA)
<1>1. PICK ip \in Nat : ip = AddressOf(p, n).v6
  OBVIOUS
<1>2. PICK r : r = Aaaa(n, b, ip)
  OBVIOUS
<1>3. r.owner = n /\ r.typ = TYPE_AAAA /\ r.ttl = TTL_RR /\ r.data = ip
  BY <1>2 DEF Aaaa, Rr
<1>4. TYPE_AAAA # TYPE_RRSIG
  BY DEF TYPE_AAAA, TYPE_RRSIG
<1>5. Ttl(p, TYPE_AAAA) = TTL_RR
  BY DEF Ttl, TYPE_AAAA, TYPE_SOA, TYPE_DNSKEY, TYPE_CDS, TYPE_CDNSKEY, TYPE_NSEC
<1>6. Datas(p, n, TYPE_AAAA) = {ip}
  BY <1>1 DEF Datas, TYPE_AAAA, TYPE_A, TYPE_SOA, TYPE_NS
<1>7. QED
  BY <1>1, <1>2, <1>3, <1>4, <1>5, <1>6 DEF Exact, OfType

LEMMA ExactTxt ==
  ASSUME NEW p, NEW n, TextOf(p, n) \in Nat
  PROVE  Exact(p, Txt(n, TextOf(p, n))) /\ OfType(Txt(n, TextOf(p, n)), n, TYPE_TXT)
<1>1. PICK text \in Nat : text = TextOf(p, n)
  OBVIOUS
<1>2. PICK r : r = Txt(n, text)
  OBVIOUS
<1>3. r.owner = n /\ r.typ = TYPE_TXT /\ r.ttl = TTL_RR /\ r.data = Smaller(text, 255)
  BY <1>2 DEF Txt, Rr
<1>4. TYPE_TXT # TYPE_RRSIG
  BY DEF TYPE_TXT, TYPE_RRSIG
<1>5. Ttl(p, TYPE_TXT) = TTL_RR
  BY DEF Ttl, TYPE_TXT, TYPE_SOA, TYPE_DNSKEY, TYPE_CDS, TYPE_CDNSKEY, TYPE_NSEC
<1>6. Datas(p, n, TYPE_TXT) = {Smaller(text, 255)}
  BY <1>1 DEF Datas, TYPE_TXT, TYPE_AAAA, TYPE_A, TYPE_SOA, TYPE_NS
<1>7. Smaller(text, 255) \in Nat
  BY DEF Smaller
<1>8. QED
  BY <1>1, <1>2, <1>3, <1>4, <1>5, <1>6, <1>7 DEF Exact, OfType

LEMMA ExactKeys ==
  ASSUME NEW p, NEW n
  PROVE  /\ Exact(p, Dnskey(n)) /\ OfType(Dnskey(n), n, TYPE_DNSKEY)
         /\ Exact(p, Cds(n)) /\ OfType(Cds(n), n, TYPE_CDS)
         /\ Exact(p, Cdnskey(n)) /\ OfType(Cdnskey(n), n, TYPE_CDNSKEY)
<1>1. ASSUME NEW t \in {TYPE_DNSKEY, TYPE_CDS, TYPE_CDNSKEY}, NEW r,
             r.owner = n, r.typ = t, r.ttl = TTL_SOA, r.data = 0
      PROVE  Exact(p, r) /\ OfType(r, n, t)
  <2>1. t # TYPE_RRSIG /\ t # TYPE_NSEC
    BY DEF TYPE_DNSKEY, TYPE_CDS, TYPE_CDNSKEY, TYPE_RRSIG, TYPE_NSEC
  <2>2. Ttl(p, t) = TTL_SOA
    BY DEF Ttl
  <2>3. Datas(p, n, t) = {0}
    BY DEF Datas, TYPE_DNSKEY, TYPE_CDS, TYPE_CDNSKEY, TYPE_NSEC, TYPE_TXT, TYPE_AAAA, TYPE_A,
           TYPE_SOA, TYPE_NS
  <2>4. QED
    BY <1>1, <2>1, <2>2, <2>3 DEF Exact, OfType
<1>2. LET r == Dnskey(n) IN
      r.owner = n /\ r.typ = TYPE_DNSKEY /\ r.ttl = TTL_SOA /\ r.data = 0
  BY DEF Dnskey, Rr
<1>3. LET r == Cds(n) IN
      r.owner = n /\ r.typ = TYPE_CDS /\ r.ttl = TTL_SOA /\ r.data = 0
  BY DEF Cds, Rr
<1>4. LET r == Cdnskey(n) IN
      r.owner = n /\ r.typ = TYPE_CDNSKEY /\ r.ttl = TTL_SOA /\ r.data = 0
  BY DEF Cdnskey, Rr
<1>5. QED
  BY <1>1, <1>2, <1>3, <1>4

LEMMA ExactNsec ==
  ASSUME NEW p, NEW n
  PROVE  /\ Exact(p, Nsec(n, Types(p, n), p.minimum))
         /\ OfType(Nsec(n, Types(p, n), p.minimum), n, TYPE_NSEC)
<1>1. PICK r : r = Nsec(n, Types(p, n), p.minimum)
  OBVIOUS
<1>2. r.owner = n /\ r.typ = TYPE_NSEC /\ r.ttl = p.minimum /\ r.data = nsec_types(Types(p, n))
  BY <1>1 DEF Nsec, Rr
<1>3. TYPE_NSEC # TYPE_RRSIG
  BY DEF TYPE_NSEC, TYPE_RRSIG
<1>4. Ttl(p, TYPE_NSEC) = p.minimum
  BY DEF Ttl, TYPE_SOA, TYPE_DNSKEY, TYPE_CDS, TYPE_CDNSKEY, TYPE_NSEC
<1>5. Datas(p, n, TYPE_NSEC) = {nsec_types(Types(p, n))}
  BY DEF Datas, TYPE_TXT, TYPE_AAAA, TYPE_A, TYPE_SOA, TYPE_NS, TYPE_NSEC
<1>6. QED
  BY <1>1, <1>2, <1>3, <1>4, <1>5 DEF Exact, OfType

-----------------------------------------------------------------------------
(* Answers as the zone is.  That the server denies nothing it serves needs *)
(* names apart: version and _dmarc are neither a name server of the zone   *)
(* nor, in the case of version, the zone itself.                           *)
Apart(p) ==
  /\ Apex \notin Version
  /\ \A n \in InZone : ConfiguredNs(p, n) => n \notin Version /\ n # Dmarc

Faithful(p, m) == Right(p, m) /\ (Apart(p) => Listed(p, m) /\ Denied(p, m))

Lists(p, rrs) == \A r \in ToSet(rrs) : r.typ \in Types(p, r.owner) \cup {TYPE_NSEC}

LEMMA LearnedIs ==
  ASSUME NEW m
  PROVE  Learned(m) = Rrsets(m.answers) \cup Rrsets(m.authority) \cup Rrsets(m.additional)
<1>1. PICK s : s = Sections(m)
  OBVIOUS
<1>2. s[1] = m.answers /\ s[2] = m.authority /\ s[3] = m.additional
  BY <1>1 DEF Sections
<1>3. Learned(m) = UNION {Rrsets(s[k]) : k \in 1..3}
  BY <1>1 DEF Learned
<1>4. 1..3 = {1, 2, 3}
  OBVIOUS
<1>5. QED
  BY <1>2, <1>3, <1>4

LEMMA NothingLearned == Rrsets(<<>>) = {}
<1>1. ToSet(<<>>) = {}
  BY DEF ToSet
<1>2. QED
  BY <1>1 DEF Rrsets

LEMMA FinishIs ==
  ASSUME NEW q, NEW signed, NEW a, NEW b, NEW c
  PROVE  LET m == Finish(q, signed, <<a, b, c>>) IN
         /\ m.answers = Emit(a, signed)
         /\ m.authority = Emit(b, signed)
         /\ m.additional = Emit(c, signed)
         /\ m.name = q.name /\ m.qtype = q.qtype
<1>1. PICK s : s = [k \in 1..3 |-> Emit(<<a, b, c>>[k], signed)]
  OBVIOUS
<1>2. s[1] = Emit(a, signed) /\ s[2] = Emit(b, signed) /\ s[3] = Emit(c, signed)
  BY <1>1
<1>3. Finish(q, signed, <<a, b, c>>) = Message(q, "NOERROR", TRUE, s, Opt(q, signed))
  BY <1>1 DEF Finish
<1>4. QED
  BY <1>2, <1>3 DEF Message

LEMMA FinishFaithful ==
  ASSUME NEW p, NEW q, NEW signed \in BOOLEAN, NEW a, NEW b, NEW c,
         Good(p, a), Good(p, b), Good(p, c),
         Apart(p) => Lists(p, a) /\ Lists(p, b) /\ Lists(p, c),
         Apart(p) /\ a = <<>> => q.qtype \notin Types(p, q.name)
  PROVE  Faithful(p, Finish(q, signed, <<a, b, c>>))
<1>1. PICK m : m = Finish(q, signed, <<a, b, c>>)
  OBVIOUS
<1>2. /\ m.answers = Emit(a, signed)
      /\ m.authority = Emit(b, signed)
      /\ m.additional = Emit(c, signed)
      /\ m.name = q.name /\ m.qtype = q.qtype
  BY <1>1, FinishIs
<1>3. ASSUME NEW x \in Learned(m)
      PROVE  /\ x = Truth(p, x.owner, x.typ)
             /\ \E r \in ToSet(a) \cup ToSet(b) \cup ToSet(c) : x.owner = r.owner /\ x.typ = r.typ
  <2>1. \/ x \in Rrsets(Emit(a, signed))
        \/ x \in Rrsets(Emit(b, signed))
        \/ x \in Rrsets(Emit(c, signed))
    BY <1>2, LearnedIs
  <2>2. CASE x \in Rrsets(Emit(a, signed))
    BY <2>2, Emitted
  <2>3. CASE x \in Rrsets(Emit(b, signed))
    BY <2>3, Emitted
  <2>4. CASE x \in Rrsets(Emit(c, signed))
    BY <2>4, Emitted
  <2>5. QED
    BY <2>1, <2>2, <2>3, <2>4
<1>4. Right(p, m)
  BY <1>3 DEF Right
<1>5. Apart(p) => Listed(p, m)
  BY <1>3 DEF Lists, Listed
<1>6. m.answers = <<>> => a = <<>>
  <2>1. Emit(a, signed) = <<>> => a = <<>>
    BY Emitted
  <2>2. QED
    BY <1>2, <2>1
<1>7. Apart(p) => Denied(p, m)
  BY <1>2, <1>6 DEF Denied, Denies
<1>8. QED
  BY <1>1, <1>4, <1>5, <1>7 DEF Faithful

(* A message without records is faithful, unless it denies something. *)
LEMMA EmptyFaithful ==
  ASSUME NEW p, NEW m, m.answers = <<>>, m.authority = <<>>, m.additional = <<>>, ~Denies(m)
  PROVE  Faithful(p, m)
<1>1. Learned(m) = {}
  BY LearnedIs, NothingLearned
<1>2. QED
  BY <1>1 DEF Faithful, Right, Listed, Denied

LEMMA ErrorFaithful ==
  ASSUME NEW p, NEW q, NEW rcode, rcode # "NOERROR"
  PROVE  Faithful(p, error_response(q, rcode))
<1>1. PICK m : m = error_response(q, rcode)
  OBVIOUS
<1>2. m.answers = <<>> /\ m.authority = <<>> /\ m.additional = <<>> /\ m.rcode = rcode
  BY <1>1 DEF error_response, Message, Empty
<1>3. ~Denies(m)
  BY <1>2 DEF Denies
<1>4. QED
  BY <1>1, <1>2, <1>3, EmptyFaithful

LEMMA SilenceFaithful ==
  ASSUME NEW p, NEW q
  PROVE  Faithful(p, Silence(q))
<1>1. PICK m : m = Silence(q)
  OBVIOUS
<1>2. m.answers = <<>> /\ m.authority = <<>> /\ m.additional = <<>> /\ m.rcode = None
  BY <1>1 DEF Silence, Message, Empty
<1>3. ~Denies(m)
  BY <1>2, ResponderAssumption DEF Denies
<1>4. QED
  BY <1>1, <1>2, <1>3, EmptyFaithful

-----------------------------------------------------------------------------
(* The answers that src/dns/response.rs builds, one after another. *)
LEMMA ParamsAre ==
  ASSUME Started(params), NEW q \in Query
  PROVE  /\ sign(q) \in BOOLEAN
         /\ params.glue_ip \in Nat /\ params.glue_ip # None
         /\ params.glue_ip6 # None => params.glue_ip6 \in Nat
         /\ params.spf # None => params.spf \in Nat
         /\ params.dmarc # None => params.dmarc \in Nat
         /\ params.version \in Nat
         /\ q.name \in Name
<1>1. /\ params.glue_ip \in Nat /\ params.version \in Nat
      /\ params.glue_ip6 \in Maybe /\ params.spf \in Maybe /\ params.dmarc \in Maybe
      /\ params.dnssec \in BOOLEAN
  BY DEF Started, Environment
<1>2. q.name \in Name /\ q.do \in BOOLEAN
  BY ResponderAssumption
<1>3. sign(q) \in BOOLEAN
  BY <1>1, <1>2 DEF sign
<1>4. QED
  BY <1>1, <1>2, <1>3, ResponderAssumption DEF Maybe

(* An answer is honest if it is faithful and, where it is signed and no    *)
(* name server is configured twice, every record set in it validates.      *)
Sealed(m) ==
  \A s \in 1..3 : \A x \in Rrsets(Sections(m)[s]) : Validates(Sections(m)[s], x)

Honest(q, m) == Faithful(params, m) /\ (sign(q) /\ NsDistinct(params) => Sealed(m))

LEMMA EmittedSeals ==
  ASSUME NEW p, NEW rrs, Good(p, rrs), NsDistinct(p), NEW e, e = Emit(rrs, TRUE),
         NEW x \in Rrsets(e)
  PROVE  Validates(e, x)
<1>1. rrs \in Seq(ToSet(rrs))
  BY SeqOfItems DEF Good
<1>2. Comparable(ToSet(rrs))
  BY DEF Good, Tells, Comparable
<1>3. OneProof(rrs) /\ Tidy(rrs)
  BY DEF Good
<1>4. \A r \in ToSet(rrs) : r.typ # TYPE_RRSIG /\ r.ttl = Ttl(p, r.typ)
  BY DEF Good, Tells
<1>5. \A r, s \in ToSet(rrs) : r.typ = s.typ => r.ttl = s.ttl
  BY <1>4
<1>6. QED
  BY <1>1, <1>2, <1>3, <1>4, <1>5, EmitSeals

LEMMA SealedIs ==
  ASSUME NEW m,
         \A x \in Rrsets(m.answers) : Validates(m.answers, x),
         \A x \in Rrsets(m.authority) : Validates(m.authority, x),
         \A x \in Rrsets(m.additional) : Validates(m.additional, x)
  PROVE  Sealed(m)
<1>1. PICK v : v = Sections(m)
  OBVIOUS
<1>2. v[1] = m.answers /\ v[2] = m.authority /\ v[3] = m.additional
  BY <1>1 DEF Sections
<1>3. \A s \in 1..3 : s = 1 \/ s = 2 \/ s = 3
  OBVIOUS
<1>4. \A s \in 1..3 : \A x \in Rrsets(v[s]) : Validates(v[s], x)
  BY <1>2, <1>3
<1>5. QED
  BY <1>1, <1>4 DEF Sealed

LEMMA FinishHonest ==
  ASSUME NEW q, sign(q) \in BOOLEAN, NEW a, NEW b, NEW c,
         Good(params, a), Good(params, b), Good(params, c),
         Apart(params) => Lists(params, a) /\ Lists(params, b) /\ Lists(params, c),
         Apart(params) /\ a = <<>> => q.qtype \notin Types(params, q.name)
  PROVE  Honest(q, Finish(q, sign(q), <<a, b, c>>))
<1>1. PICK m : m = Finish(q, sign(q), <<a, b, c>>)
  OBVIOUS
<1>2. Faithful(params, m)
  BY <1>1, FinishFaithful
<1>3. ASSUME sign(q), NsDistinct(params) PROVE Sealed(m)
  <2>1. PICK signed : signed = sign(q) /\ signed = TRUE
    BY <1>3
  <2>2. m = Finish(q, signed, <<a, b, c>>)
    BY <1>1, <2>1
  <2>3. /\ m.answers = Emit(a, signed)
        /\ m.authority = Emit(b, signed)
        /\ m.additional = Emit(c, signed)
    BY <2>2, FinishIs
  <2>4. \A x \in Rrsets(m.answers) : Validates(m.answers, x)
    BY <1>3, <2>1, <2>3, EmittedSeals
  <2>5. \A x \in Rrsets(m.authority) : Validates(m.authority, x)
    BY <1>3, <2>1, <2>3, EmittedSeals
  <2>6. \A x \in Rrsets(m.additional) : Validates(m.additional, x)
    BY <1>3, <2>1, <2>3, EmittedSeals
  <2>7. QED
    BY <2>4, <2>5, <2>6, SealedIs
<1>4. QED
  BY <1>1, <1>2, <1>3 DEF Honest

LEMMA EmptySealed ==
  ASSUME NEW m, m.answers = <<>>, m.authority = <<>>, m.additional = <<>>
  PROVE  Sealed(m)
BY NothingLearned, SealedIs

LEMMA ErrorHonest ==
  ASSUME NEW q, NEW rcode, rcode # "NOERROR"
  PROVE  Honest(q, error_response(q, rcode))
<1>1. PICK m : m = error_response(q, rcode)
  OBVIOUS
<1>2. m.answers = <<>> /\ m.authority = <<>> /\ m.additional = <<>>
  BY <1>1 DEF error_response, Message, Empty
<1>3. Sealed(m)
  BY <1>2, EmptySealed
<1>4. Faithful(params, m)
  BY <1>1, ErrorFaithful
<1>5. QED
  BY <1>1, <1>3, <1>4 DEF Honest

LEMMA SilenceHonest ==
  ASSUME NEW q
  PROVE  Honest(q, Silence(q))
<1>1. PICK m : m = Silence(q)
  OBVIOUS
<1>2. m.answers = <<>> /\ m.authority = <<>> /\ m.additional = <<>>
  BY <1>1 DEF Silence, Message, Empty
<1>3. Sealed(m)
  BY <1>2, EmptySealed
<1>4. Faithful(params, m)
  BY <1>1, SilenceFaithful
<1>5. QED
  BY <1>1, <1>3, <1>4 DEF Honest

(* A section of one record, or of none. *)
Alone(p, rrs, n, t) ==
  /\ Good(p, rrs)
  /\ \A r \in ToSet(rrs) : OfType(r, n, t)

LEMMA OneIsAlone ==
  ASSUME NEW p, NEW r, NEW n, NEW t, Exact(p, r), OfType(r, n, t)
  PROVE  Alone(p, <<r>>, n, t) /\ <<r>> # <<>>
<1>1. Good(p, <<r>>) /\ ToSet(<<r>>) = {r}
  BY OneIsGood
<1>2. QED
  BY <1>1 DEF Alone

LEMMA NoneIsAlone ==
  ASSUME NEW p, NEW n, NEW t
  PROVE  Alone(p, <<>>, n, t)
BY NoneIsGood DEF Alone

LEMMA AloneLists ==
  ASSUME NEW p, NEW rrs, NEW n, NEW t, Alone(p, rrs, n, t),
         rrs # <<>> => t \in Types(p, n) \cup {TYPE_NSEC}
  PROVE  Lists(p, rrs)
<1>1. rrs = <<>> => ToSet(rrs) = {}
  BY DEF ToSet
<1>2. QED
  BY <1>1 DEF Alone, OfType, Lists

LEMMA AloneNoProof ==
  ASSUME NEW p, NEW rrs, NEW n, NEW t, Alone(p, rrs, n, t), t # TYPE_NSEC
  PROVE  NoProof(rrs)
BY DEF Alone, OfType, NoProof

LEMMA ApexHasSoa ==
  ASSUME NEW p, Apart(p)
  PROVE  Types(p, Apex) = ApexTypes(p) /\ TYPE_SOA \in Types(p, Apex)
<1>1. Apex \in InZone /\ Apex # Dmarc
  BY ResponderAssumption
<1>2. QED
  BY <1>1 DEF Types, ApexTypes, Apart

LEMMA TwoAre ==
  ASSUME NEW x, NEW y
  PROVE  LET s == <<x>> \o <<y>> IN DOMAIN s = {1, 2} /\ s[1] = x /\ s[2] = y
<1>1. PICK E : E = {x, y}
  OBVIOUS
<1>2. PICK s : s = <<x>>
  OBVIOUS
<1>3. PICK t : t = <<y>>
  OBVIOUS
<1>4. s \in Seq(E) /\ t \in Seq(E)
  BY <1>1, <1>2, <1>3
<1>5. Len(s) = 1 /\ s[1] = x
  BY <1>2
<1>6. Len(t) = 1 /\ t[1] = y
  BY <1>3
<1>7. PICK u : u = s \o t
  OBVIOUS
<1>8. u \in Seq(E)
  BY <1>4, <1>7, ItemsConcat
<1>9. /\ Len(u) = Len(s) + Len(t)
      /\ \A i \in 1..Len(u) : u[i] = IF i <= Len(s) THEN s[i] ELSE t[i - Len(s)]
  BY <1>4, <1>7
<1>10. Len(u) = 2 /\ DOMAIN u = 1..Len(u)
  BY <1>5, <1>6, <1>8, <1>9
<1>11. u[1] = x /\ u[2] = y
  BY <1>5, <1>6, <1>9, <1>10
<1>12. DOMAIN u = {1, 2}
  BY <1>10
<1>13. QED
  BY <1>2, <1>3, <1>7, <1>11, <1>12

LEMMA NodataHonest ==
  ASSUME Started(params), NEW q \in Query, NEW existing,
         existing = Types(params, q.name),
         Apart(params) => q.qtype \notin Types(params, q.name)
  PROVE  Honest(q, nodata(q, existing))
<1>1. PICK soa : soa = Soa(Apex, FALSE, params)
  OBVIOUS
<1>2. Exact(params, soa) /\ OfType(soa, Apex, TYPE_SOA)
  BY <1>1, ExactSoa
<1>3. PICK nsec : nsec = Nsec(q.name, existing, params.minimum)
  OBVIOUS
<1>4. Exact(params, nsec) /\ OfType(nsec, q.name, TYPE_NSEC)
  BY <1>3, ExactNsec
<1>5. PICK b : b = <<soa>> \o (IF sign(q) THEN <<nsec>> ELSE <<>>)
  OBVIOUS
<1>6. Good(params, <<soa>>) /\ ToSet(<<soa>>) = {soa}
  BY <1>2, OneIsGood
<1>7. Good(params, <<nsec>>) /\ ToSet(<<nsec>>) = {nsec}
  BY <1>4, OneIsGood
<1>8. TYPE_SOA # TYPE_NSEC
  BY DEF TYPE_SOA, TYPE_NSEC
<1>9. Good(params, b) /\ ToSet(b) \subseteq {soa, nsec}
  <2>1. CASE sign(q)
    <3>1. b = <<soa>> \o <<nsec>>
      BY <1>5, <2>1
    <3>2. IsSeq(<<soa>>) /\ IsSeq(<<nsec>>)
      BY <1>6, <1>7 DEF Good
    <3>3. IsSeq(b) /\ ToSet(b) = {soa, nsec}
      BY <1>6, <1>7, <3>1, <3>2, Joint
    <3>4. DOMAIN b = {1, 2} /\ b[1] = soa /\ b[2] = nsec
      BY <3>1, TwoAre
    <3>5. OneProof(b)
      BY <1>2, <1>4, <1>8, <3>4 DEF OneProof, OfType
    <3>6. Tells(params, b)
      BY <1>2, <1>4, <3>3 DEF Tells, Exact
    <3>7. Tidy(b)
      <4>1. ~SameKey(b[1], b[2]) /\ \A j, k \in {1, 2} : j < k => j = 1 /\ k = 2
        BY <1>2, <1>4, <1>8, <3>4 DEF SameKey, OfType
      <4>2. QED
        BY <3>4, <4>1 DEF Tidy
    <3>8. QED
      BY <3>3, <3>5, <3>6, <3>7 DEF Good
  <2>2. CASE ~sign(q)
    <3>1. b = <<soa>>
      BY <1>5, <2>2
    <3>2. QED
      BY <1>6, <3>1
  <2>3. QED
    BY <2>1, <2>2
<1>10. Apart(params) => Lists(params, b)
  <2>1. Apart(params) => TYPE_SOA \in Types(params, Apex)
    BY ApexHasSoa
  <2>2. QED
    BY <1>2, <1>4, <1>9, <2>1 DEF Lists, OfType
<1>11. Good(params, <<>>) /\ Lists(params, <<>>)
  BY NoneIsGood DEF Lists
<1>12. sign(q) \in BOOLEAN
  BY ParamsAre
<1>13. nodata(q, existing) = Finish(q, sign(q), <<<<>>, b, <<>>>>)
  BY <1>1, <1>3, <1>5 DEF nodata, NoRecords
<1>14. Honest(q, Finish(q, sign(q), <<<<>>, b, <<>>>>))
  BY <1>9, <1>10, <1>11, <1>12, FinishHonest
<1>15. QED
  BY <1>13, <1>14

(* An answer section and nothing else. *)
LEMMA AnswerHonest ==
  ASSUME Started(params), NEW q \in Query, NEW a, Good(params, a),
         Apart(params) => Lists(params, a), a # <<>>
  PROVE  Honest(q, Finish(q, sign(q), <<a, NoRecords, NoRecords>>))
<1>1. Good(params, <<>>) /\ Lists(params, <<>>)
  BY NoneIsGood DEF Lists
<1>2. sign(q) \in BOOLEAN
  BY ParamsAre
<1>3. Honest(q, Finish(q, sign(q), <<a, <<>>, <<>>>>))
  BY <1>1, <1>2, FinishHonest
<1>4. QED
  BY <1>3 DEF NoRecords

LEMMA TextHonest ==
  ASSUME Started(params), NEW q \in Query, NEW text \in Nat, text = TextOf(params, q.name),
         Types(params, q.name) = {TYPE_TXT}
  PROVE  Honest(q, TextOnly(q, text))
<1>1. CASE q.qtype \in {TYPE_TXT, TYPE_ANY}
  <2>1. PICK r : r = Txt(q.name, text)
    OBVIOUS
  <2>2. Exact(params, r) /\ OfType(r, q.name, TYPE_TXT)
    BY <2>1, ExactTxt
  <2>3. Alone(params, <<r>>, q.name, TYPE_TXT) /\ <<r>> # <<>>
    BY <2>2, OneIsAlone
  <2>4. Lists(params, <<r>>)
    BY <2>3, AloneLists
  <2>5. Good(params, <<r>>)
    BY <2>3 DEF Alone
  <2>6. Honest(q, Finish(q, sign(q), <<<<r>>, NoRecords, NoRecords>>))
    BY <2>3, <2>4, <2>5, AnswerHonest
  <2>7. QED
    BY <1>1, <2>1, <2>6 DEF TextOnly, build_txt_response
<1>2. CASE q.qtype \notin {TYPE_TXT, TYPE_ANY}
  <2>1. Honest(q, nodata(q, {TYPE_TXT}))
    BY <1>2, NodataHonest
  <2>2. QED
    BY <1>2, <2>1 DEF TextOnly
<1>3. QED
  BY <1>1, <1>2

(* The addresses of a name that is not the apex. *)
LEMMA AddressHonest ==
  ASSUME Started(params), NEW q \in Query, NEW ip,
         ip = AddressOf(params, q.name), Types(params, q.name) = address_types(ip),
         ip.v4 \in Maybe, ip.v6 \in Maybe
  PROVE  Honest(q, build_address_response(q, ip))
<1>1. PICK a : a = IF q.qtype \in {TYPE_A, TYPE_ANY}
                   THEN Optional(ip.v4, A(q.name, TRUE, ip.v4)) ELSE <<>>
  OBVIOUS
<1>2. PICK b : b = IF q.qtype \in {TYPE_AAAA, TYPE_ANY}
                   THEN Optional(ip.v6, Aaaa(q.name, TRUE, ip.v6)) ELSE <<>>
  OBVIOUS
<1>3. /\ ip.v4 # None => ip.v4 \in Nat
      /\ ip.v6 # None => ip.v6 \in Nat
  BY DEF Maybe
<1>4. /\ ip.v4 # None => TYPE_A \in Types(params, q.name)
      /\ ip.v6 # None => TYPE_AAAA \in Types(params, q.name)
  BY DEF address_types
<1>5. Alone(params, a, q.name, TYPE_A) /\ Lists(params, a)
  <2>1. CASE a = <<>>
    BY <2>1, NoneIsAlone, AloneLists
  <2>2. CASE a # <<>>
    <3>1. ip.v4 # None /\ a = <<A(q.name, TRUE, ip.v4)>>
      BY <1>1, <2>2 DEF Optional
    <3>2. PICK r : r = A(q.name, TRUE, ip.v4)
      OBVIOUS
    <3>3. Exact(params, r) /\ OfType(r, q.name, TYPE_A)
      BY <1>3, <3>1, <3>2, ExactA
    <3>4. Alone(params, <<r>>, q.name, TYPE_A)
      BY <3>3, OneIsAlone
    <3>5. Lists(params, <<r>>)
      BY <1>4, <3>1, <3>4, AloneLists
    <3>6. QED
      BY <3>1, <3>2, <3>4, <3>5
  <2>3. QED
    BY <2>1, <2>2
<1>6. Alone(params, b, q.name, TYPE_AAAA) /\ Lists(params, b)
  <2>1. CASE b = <<>>
    BY <2>1, NoneIsAlone, AloneLists
  <2>2. CASE b # <<>>
    <3>1. ip.v6 # None /\ b = <<Aaaa(q.name, TRUE, ip.v6)>>
      BY <1>2, <2>2 DEF Optional
    <3>2. PICK r : r = Aaaa(q.name, TRUE, ip.v6)
      OBVIOUS
    <3>3. Exact(params, r) /\ OfType(r, q.name, TYPE_AAAA)
      BY <1>3, <3>1, <3>2, ExactAaaa
    <3>4. Alone(params, <<r>>, q.name, TYPE_AAAA)
      BY <3>3, OneIsAlone
    <3>5. Lists(params, <<r>>)
      BY <1>4, <3>1, <3>4, AloneLists
    <3>6. QED
      BY <3>1, <3>2, <3>4, <3>5
  <2>3. QED
    BY <2>1, <2>2
<1>7. NoProof(a) /\ NoProof(b)
  <2>1. TYPE_A # TYPE_NSEC /\ TYPE_AAAA # TYPE_NSEC
    BY DEF TYPE_A, TYPE_AAAA, TYPE_NSEC
  <2>2. QED
    BY <1>5, <1>6, <2>1, AloneNoProof
<1>8. PICK c : c = a \o b
  OBVIOUS
<1>9. Good(params, c) /\ ToSet(c) = ToSet(a) \cup ToSet(b) /\ Lists(params, c)
  <2>1. Good(params, a) /\ Good(params, b)
    BY <1>5, <1>6 DEF Alone
  <2>2. TYPE_A # TYPE_AAAA
    BY DEF TYPE_A, TYPE_AAAA
  <2>3. Severed(a, b)
    BY <1>5, <1>6, <2>2 DEF Severed, SameKey, Alone, OfType
  <2>4. Good(params, c) /\ ToSet(c) = ToSet(a) \cup ToSet(b)
    BY <1>7, <1>8, <2>1, <2>3, BothAreGood
  <2>5. Lists(params, c)
    BY <1>5, <1>6, <2>4 DEF Lists
  <2>6. QED
    BY <2>4, <2>5
<1>10. CASE c = <<>>
  <2>1. ToSet(a) = {} /\ ToSet(b) = {}
    <3>1. ToSet(<<>>) = {}
      BY DEF ToSet
    <3>2. QED
      BY <1>9, <1>10, <3>1
  <2>2. a = <<>> /\ b = <<>>
    <3>1. \A x : ToSet(<<x>>) # {}
      <4>1. \A x : DOMAIN <<x>> = {1} /\ <<x>>[1] = x
        OBVIOUS
      <4>2. QED
        BY <4>1 DEF ToSet
    <3>2. a # <<>> => a = <<A(q.name, TRUE, ip.v4)>>
      BY <1>1 DEF Optional
    <3>3. b # <<>> => b = <<Aaaa(q.name, TRUE, ip.v6)>>
      BY <1>2 DEF Optional
    <3>4. QED
      BY <2>1, <3>1, <3>2, <3>3
  <2>3. /\ q.qtype = TYPE_A => ip.v4 = None
        /\ q.qtype = TYPE_AAAA => ip.v6 = None
    <3>1. \A option, x : Optional(option, x) = <<>> => option = None
      BY DEF Optional
    <3>2. q.qtype = TYPE_A => Optional(ip.v4, A(q.name, TRUE, ip.v4)) = <<>>
      BY <1>1, <2>2
    <3>3. q.qtype = TYPE_AAAA => Optional(ip.v6, Aaaa(q.name, TRUE, ip.v6)) = <<>>
      BY <1>2, <2>2
    <3>4. QED
      BY <3>1, <3>2, <3>3
  <2>4. q.qtype \notin address_types(ip)
    BY <2>3 DEF address_types, TYPE_A, TYPE_AAAA
  <2>5. Honest(q, nodata(q, address_types(ip)))
    BY <2>4, NodataHonest
  <2>6. build_address_response(q, ip) = nodata(q, address_types(ip))
    BY <1>1, <1>2, <1>8, <1>10 DEF build_address_response
  <2>7. QED
    BY <2>5, <2>6
<1>11. CASE c # <<>>
  <2>1. Honest(q, Finish(q, sign(q), <<c, NoRecords, NoRecords>>))
    BY <1>9, <1>11, AnswerHonest
  <2>2. build_address_response(q, ip) = Finish(q, sign(q), <<c, NoRecords, NoRecords>>)
    BY <1>1, <1>2, <1>8, <1>11 DEF build_address_response
  <2>3. QED
    BY <2>1, <2>2
<1>12. QED
  BY <1>10, <1>11

-----------------------------------------------------------------------------
LEMMA ExactAreGood ==
  ASSUME NEW p, NEW rrs, IsSeq(rrs), \A r \in ToSet(rrs) : Exact(p, r) /\ r.typ # TYPE_NSEC,
         NsDistinct(p) => Tidy(rrs)
  PROVE  Good(p, rrs) /\ NoProof(rrs)
<1>1. Tells(p, rrs)
  BY DEF Tells, Exact
<1>2. NoProof(rrs)
  BY DEF NoProof
<1>3. QED
  BY <1>1, <1>2, NoProofIsOne DEF Good

(* The addresses of a name server, if it lies in the zone. *)
GlueOf(p, n) ==
  IF n \in InZone
  THEN <<A(n, FALSE, p.glue_ip)>> \o Optional(p.glue_ip6, Aaaa(n, FALSE, p.glue_ip6))
  ELSE <<>>

GlueOk(p, r) ==
  /\ Exact(p, r)
  /\ r.owner \in InZone /\ ConfiguredNs(p, r.owner)
  /\ r.typ = TYPE_A \/ (r.typ = TYPE_AAAA /\ p.glue_ip6 # None)

LEMMA GlueOfOne ==
  ASSUME NEW p, Started(p), NEW n \in Name, ConfiguredNs(p, n)
  PROVE  /\ IsSeq(GlueOf(p, n)) /\ Sole(GlueOf(p, n))
         /\ \A r \in ToSet(GlueOf(p, n)) : GlueOk(p, r) /\ r.owner = n
<1>1. /\ p.glue_ip \in Nat /\ p.glue_ip6 \in Maybe
      /\ AddressOf(p, n).v4 = p.glue_ip /\ AddressOf(p, n).v6 = p.glue_ip6
  BY DEF Started, Environment, AddressOf
<1>2. CASE n \notin InZone
  <2>1. GlueOf(p, n) = <<>>
    BY <1>2 DEF GlueOf
  <2>2. Sole(<<>>)
    BY FewAreSole
  <2>3. QED
    BY <2>1, <2>2, NoneIsGood DEF Good
<1>3. CASE n \in InZone
  <2>1. PICK a : a = A(n, FALSE, p.glue_ip)
    OBVIOUS
  <2>2. Exact(p, a) /\ OfType(a, n, TYPE_A)
    BY <1>1, <2>1, ExactA
  <2>3. Good(p, <<a>>) /\ ToSet(<<a>>) = {a} /\ Sole(<<a>>)
    BY <2>2, OneIsGood, FewAreSole
  <2>4. GlueOk(p, a)
    BY <1>3, <2>2 DEF GlueOk, OfType
  <2>5. PICK rest : rest = Optional(p.glue_ip6, Aaaa(n, FALSE, p.glue_ip6))
    OBVIOUS
  <2>6. /\ IsSeq(rest) /\ Sole(rest)
        /\ \A r \in ToSet(rest) : GlueOk(p, r) /\ OfType(r, n, TYPE_AAAA)
    <3>1. CASE p.glue_ip6 = None
      <4>1. rest = <<>>
        BY <2>5, <3>1 DEF Optional
      <4>2. Sole(<<>>)
        BY FewAreSole
      <4>3. QED
        BY <4>1, <4>2, NoneIsGood DEF Good
    <3>2. CASE p.glue_ip6 # None
      <4>1. PICK aaaa : aaaa = Aaaa(n, FALSE, p.glue_ip6)
        OBVIOUS
      <4>2. rest = <<aaaa>>
        BY <2>5, <3>2, <4>1 DEF Optional
      <4>3. p.glue_ip6 \in Nat
        BY <1>1, <3>2 DEF Maybe
      <4>4. Exact(p, aaaa) /\ OfType(aaaa, n, TYPE_AAAA)
        BY <1>1, <4>1, <4>3, ExactAaaa
      <4>5. GlueOk(p, aaaa)
        BY <1>3, <3>2, <4>4 DEF GlueOk, OfType
      <4>6. Good(p, <<aaaa>>) /\ ToSet(<<aaaa>>) = {aaaa} /\ Sole(<<aaaa>>)
        BY <4>4, OneIsGood, FewAreSole
      <4>7. QED
        BY <4>2, <4>4, <4>5, <4>6 DEF Good
    <3>3. QED
      BY <3>1, <3>2
  <2>7. PICK g : g = <<a>> \o rest
    OBVIOUS
  <2>8. IsSeq(<<a>>)
    BY <2>3 DEF Good
  <2>9. IsSeq(g) /\ ToSet(g) = {a} \cup ToSet(rest)
    <3>1. IsSeq(<<a>> \o rest) /\ ToSet(<<a>> \o rest) = ToSet(<<a>>) \cup ToSet(rest)
      BY <2>6, <2>8, Joint
    <3>2. QED
      BY <2>3, <2>7, <3>1
  <2>10. Sole(g)
    <3>1. TYPE_A # TYPE_AAAA
      BY DEF TYPE_A, TYPE_AAAA
    <3>2. Severed(<<a>>, rest)
      BY <2>2, <2>3, <2>6, <3>1 DEF Severed, SameKey, OfType
    <3>3. PICK E : E = ToSet(<<a>>) \cup ToSet(rest)
      OBVIOUS
    <3>4. <<a>> \in Seq(ToSet(<<a>>)) /\ rest \in Seq(ToSet(rest))
      BY <2>6, <2>8, SeqOfItems
    <3>5. <<a>> \in Seq(E) /\ rest \in Seq(E)
      BY <3>3, <3>4
    <3>6. PICK s \in Seq(E) : s = <<a>>
      BY <3>5
    <3>7. QED
      BY <2>3, <2>6, <2>7, <3>2, <3>5, <3>6, SoleJoin
  <2>11. GlueOf(p, n) = g
    BY <1>3, <2>1, <2>5, <2>7 DEF GlueOf
  <2>12. \A r \in ToSet(g) : GlueOk(p, r) /\ r.owner = n
    BY <2>2, <2>4, <2>6, <2>9 DEF OfType
  <2>13. QED
    BY <2>9, <2>10, <2>11, <2>12
<1>4. QED
  BY <1>2, <1>3

LEMMA NsAreNames ==
  ASSUME NEW p, Started(p), NEW k \in DOMAIN p.ns_names
  PROVE  p.ns_names[k] \in Name /\ ConfiguredNs(p, p.ns_names[k])
<1>1. p.ns_names[k] \in Name
  BY DEF Started
<1>2. p.ns_names[k] \in ToSet(p.ns_names)
  BY DEF ToSet
<1>3. QED
  BY <1>1, <1>2 DEF ConfiguredNs

LEMMA GlueIsGood ==
  ASSUME Started(params)
  PROVE  /\ Good(params, in_bailiwick_glue)
         /\ \A r \in ToSet(in_bailiwick_glue) : GlueOk(params, r)
<1>1. PICK ns \in Seq(Name) : ns = params.ns_names
  BY DEF Started
<1>2. PICK n \in Nat : n = Len(ns)
  <2>1. Len(ns) \in Nat
    OBVIOUS
  <2>2. QED
    BY <2>1
<1>3. PICK parts : parts = [k \in DOMAIN ns |-> GlueOf(params, ns[k])]
  OBVIOUS
<1>4. in_bailiwick_glue = FlattenSeq(parts)
  BY <1>1, <1>3 DEF in_bailiwick_glue, GlueOf
<1>5. ASSUME NEW k \in DOMAIN ns
      PROVE  /\ IsSeq(parts[k]) /\ Sole(parts[k])
             /\ \A r \in ToSet(parts[k]) : GlueOk(params, r) /\ r.owner = ns[k]
  <2>1. ns[k] \in Name /\ ConfiguredNs(params, ns[k])
    BY <1>1, NsAreNames
  <2>2. parts[k] = GlueOf(params, ns[k])
    BY <1>3
  <2>3. QED
    BY <2>1, <2>2, GlueOfOne
<1>6. PICK E : E = UNION {ToSet(parts[k]) : k \in DOMAIN ns}
  OBVIOUS
<1>7. \A k \in DOMAIN ns : parts[k] \in Seq(E)
  <2>1. SUFFICES ASSUME NEW k \in DOMAIN ns PROVE parts[k] \in Seq(E)
    OBVIOUS
  <2>2. parts[k] \in Seq(ToSet(parts[k]))
    BY <1>5, SeqOfItems
  <2>3. ToSet(parts[k]) \subseteq E
    BY <1>6
  <2>4. QED
    BY <2>2, <2>3
<1>8. parts \in Seq(Seq(E))
  <2>1. DOMAIN ns = 1..n
    BY <1>2
  <2>2. \A k \in 1..n : parts[k] \in Seq(E)
    BY <1>7, <2>1
  <2>3. parts = [k \in 1..n |-> parts[k]]
    BY <1>3, <2>1
  <2>4. [k \in 1..n |-> parts[k]] \in Seq(Seq(E))
    BY <2>2
  <2>5. QED
    BY <2>3, <2>4
<1>9. PICK g : g = FlattenSeq(parts)
  OBVIOUS
<1>10. g \in Seq(E) /\ ToSet(g) = Items(parts)
  BY <1>8, <1>9, FlattenKeeps
<1>11. ASSUME NEW r \in ToSet(g) PROVE GlueOk(params, r)
  <2>1. PICK k \in DOMAIN parts : r \in ToSet(parts[k])
    BY <1>10 DEF Items, ToSet
  <2>2. k \in DOMAIN ns
    BY <1>3
  <2>3. QED
    BY <1>5, <2>1, <2>2
<1>12. TYPE_A # TYPE_NSEC /\ TYPE_AAAA # TYPE_NSEC
  BY DEF TYPE_A, TYPE_AAAA, TYPE_NSEC
<1>13. \A r \in ToSet(g) : Exact(params, r) /\ r.typ # TYPE_NSEC
  BY <1>11, <1>12 DEF GlueOk
<1>14. IsSeq(g)
  BY <1>10 DEF IsSeq
<1>15. NsDistinct(params) => Tidy(g)
  <2>1. SUFFICES ASSUME NsDistinct(params) PROVE Tidy(g)
    OBVIOUS
  <2>2. DOMAIN parts = DOMAIN ns
    BY <1>3
  <2>3. \A k \in DOMAIN parts : Sole(parts[k])
    BY <1>5, <2>2
  <2>4. ASSUME NEW j \in DOMAIN parts, NEW k \in DOMAIN parts, j # k
        PROVE  Severed(parts[j], parts[k])
    <3>1. ns[j] # ns[k]
      BY <1>1, <2>1, <2>2, <2>4 DEF NsDistinct
    <3>2. \A r \in ToSet(parts[j]) : r.owner = ns[j]
      BY <1>5, <2>2
    <3>3. \A r \in ToSet(parts[k]) : r.owner = ns[k]
      BY <1>5, <2>2
    <3>4. QED
      BY <3>1, <3>2, <3>3 DEF Severed, SameKey
  <2>5. Sole(g)
    BY <1>8, <1>9, <2>3, <2>4, SoleFlatten
  <2>6. QED
    BY <1>10, <2>5, SoleIsTidy
<1>16. Good(params, g)
  BY <1>13, <1>14, <1>15, ExactAreGood
<1>17. QED
  BY <1>4, <1>9, <1>11, <1>16

LEMMA GlueLists ==
  ASSUME Started(params), Apart(params)
  PROVE  Lists(params, in_bailiwick_glue)
<1>1. SUFFICES ASSUME NEW r \in ToSet(in_bailiwick_glue) PROVE r.typ \in Types(params, r.owner)
  BY DEF Lists
<1>2. GlueOk(params, r)
  BY GlueIsGood
<1>3. PICK n : n = r.owner
  OBVIOUS
<1>4. n \in InZone /\ ConfiguredNs(params, n) /\ n \notin Version /\ n # Dmarc
  BY <1>2, <1>3 DEF GlueOk, Apart
<1>5. params.glue_ip # None
  <2>1. params.glue_ip \in Nat
    BY DEF Started, Environment
  <2>2. QED
    BY <2>1, ResponderAssumption
<1>6. CASE n = Apex
  <2>1. Types(params, n) = ApexTypes(params)
    BY <1>4, <1>6 DEF Types
  <2>2. r.typ \in ApexTypes(params)
    BY <1>2 DEF GlueOk, ApexTypes
  <2>3. QED
    BY <1>3, <2>1, <2>2
<1>7. CASE n # Apex
  <2>1. Types(params, n) = address_types([v4 |-> params.glue_ip, v6 |-> params.glue_ip6])
    BY <1>4, <1>7 DEF Types, AddressOf
  <2>2. r.typ \in Types(params, n)
    BY <1>2, <1>5, <2>1 DEF GlueOk, address_types
  <2>3. QED
    BY <1>3, <2>2
<1>8. QED
  BY <1>6, <1>7

LEMMA NsAlone ==
  ASSUME Started(params), NEW q \in Query
  PROVE  Alone(params, ns_set(q), q.name, TYPE_NS) /\ ns_set(q) # <<>>
<1>1. PICK ns \in Seq(Name) : ns = params.ns_names /\ ns # <<>>
  BY DEF Started
<1>2. PICK n \in Nat : n = Len(ns)
  <2>1. Len(ns) \in Nat
    OBVIOUS
  <2>2. QED
    BY <2>1
<1>3. DOMAIN ns = 1..n /\ n # 0
  BY <1>1, <1>2
<1>4. PICK s : s = [k \in 1..n |-> Ns(q.name, ns[k])]
  OBVIOUS
<1>5. ns_set(q) = s
  BY <1>1, <1>3, <1>4 DEF ns_set
<1>6. DOMAIN s = 1..n /\ \A k \in 1..n : s[k] = Ns(q.name, ns[k])
  BY <1>4
<1>7. \A k \in 1..n : Rank[ns[k]] \in Nat
  <2>1. \A k \in 1..n : ns[k] \in Name
    BY <1>3
  <2>2. QED
    BY <2>1, MessageAssumption
<1>8. IsSeq(s)
  <2>1. PICK E : E = {Ns(q.name, ns[k]) : k \in 1..n}
    OBVIOUS
  <2>2. \A k \in 1..n : Ns(q.name, ns[k]) \in E
    BY <2>1
  <2>3. s \in Seq(E)
    BY <1>4, <2>2
  <2>4. QED
    BY <2>3 DEF IsSeq
<1>9. \A k \in 1..n : /\ s[k].owner = q.name /\ s[k].typ = TYPE_NS /\ s[k].ttl = TTL_RR
                      /\ s[k].data = Rank[ns[k]]
  BY <1>6 DEF Ns, Rr
<1>10. Datas(params, q.name, TYPE_NS) = {Rank[ns[k]] : k \in 1..n}
  BY <1>1, <1>3 DEF Datas, TYPE_NS, TYPE_SOA
<1>11. Ttl(params, TYPE_NS) = TTL_RR
  BY DEF Ttl, TYPE_NS, TYPE_SOA, TYPE_DNSKEY, TYPE_CDS, TYPE_CDNSKEY, TYPE_NSEC
<1>12. TYPE_NS # TYPE_RRSIG /\ TYPE_NS # TYPE_NSEC
  BY DEF TYPE_NS, TYPE_RRSIG, TYPE_NSEC
<1>13. \A k \in 1..n : s[k] \in ToSet(s)
  BY <1>6 DEF ToSet
<1>14. ASSUME NEW r \in ToSet(s)
       PROVE  /\ OfType(r, q.name, TYPE_NS)
              /\ r.data \in Nat
              /\ r.ttl = Ttl(params, r.typ)
              /\ r.data \in Datas(params, r.owner, r.typ)
              /\ \A d \in Datas(params, r.owner, r.typ) :
                   \E i \in ToSet(s) : i.owner = r.owner /\ i.typ = r.typ /\ i.data = d
  <2>1. PICK k \in 1..n : r = s[k]
    BY <1>6 DEF ToSet
  <2>2. r.owner = q.name /\ r.typ = TYPE_NS /\ r.ttl = TTL_RR /\ r.data = Rank[ns[k]]
    BY <1>9, <2>1
  <2>3. r.data \in Nat /\ r.data \in Datas(params, r.owner, r.typ) /\ r.ttl = Ttl(params, r.typ)
    BY <1>7, <1>10, <1>11, <2>2
  <2>4. ASSUME NEW d \in Datas(params, r.owner, r.typ)
        PROVE  \E i \in ToSet(s) : i.owner = r.owner /\ i.typ = r.typ /\ i.data = d
    <3>1. PICK j \in 1..n : d = Rank[ns[j]]
      BY <1>10, <2>2
    <3>2. s[j] \in ToSet(s) /\ s[j].owner = r.owner /\ s[j].typ = r.typ /\ s[j].data = d
      BY <1>9, <1>13, <2>2, <3>1
    <3>3. QED
      BY <3>2
  <2>5. OfType(r, q.name, TYPE_NS)
    BY <2>2 DEF OfType
  <2>6. QED
    BY <2>3, <2>4, <2>5
<1>15. Tells(params, s)
  BY <1>12, <1>14 DEF Tells, OfType
<1>16. NoProof(s)
  BY <1>12, <1>14 DEF NoProof, OfType
<1>17. NsDistinct(params) => Tidy(s)
  <2>1. SUFFICES ASSUME NsDistinct(params), NEW j \in 1..n, NEW k \in 1..n, j < k
                 PROVE  /\ s[j].data # s[k].data
                        /\ \A i \in 1..n : SameSet(s[i], s[k])
    BY <1>6 DEF Tidy
  <2>2. j # k
    BY <2>1
  <2>3. Rank[ns[j]] # Rank[ns[k]]
    BY <1>1, <1>3, <2>1, <2>2 DEF NsDistinct
  <2>4. s[j].data # s[k].data
    BY <1>9, <2>3
  <2>5. \A i \in 1..n : s[i].owner = q.name /\ s[i].question = TRUE /\ s[i].typ = TYPE_NS
    BY <1>6 DEF Ns, Rr
  <2>6. \A i \in 1..n : SameSet(s[i], s[k])
    BY <2>5 DEF SameSet
  <2>7. QED
    BY <2>4, <2>6
<1>18. OneProof(s)
  BY <1>16, NoProofIsOne
<1>19. Good(params, s)
  BY <1>8, <1>15, <1>17, <1>18 DEF Good
<1>20. s # <<>>
  BY <1>3, <1>6
<1>21. QED
  BY <1>5, <1>14, <1>19, <1>20 DEF Alone

-----------------------------------------------------------------------------
(* The apex: each type has a section of its own. *)
LEMMA ApexTypesAre ==
  ASSUME Apex \notin Version
  PROVE  Types(params, Apex) = apex_types /\ ApexTypes(params) = apex_types
<1>1. Apex \in InZone /\ Apex # Dmarc
  BY ResponderAssumption
<1>2. ApexTypes(params) = apex_types
  BY DEF ApexTypes, apex_types
<1>3. QED
  BY <1>1, <1>2 DEF Types

(* A section of the apex holds the records of a type it has. *)
Fits(p, rrs, t) ==
  /\ Alone(p, rrs, Apex, t)
  /\ rrs # <<>> => t \in Types(p, Apex) \cup {TYPE_NSEC}
  /\ rrs = <<>> => t \notin Types(p, Apex)

LEMMA OneFits ==
  ASSUME NEW p, NEW r, NEW t, Exact(p, r), OfType(r, Apex, t),
         t \in Types(p, Apex) \cup {TYPE_NSEC}
  PROVE  Fits(p, <<r>>, t)
BY OneIsAlone DEF Fits

LEMMA NoneFits ==
  ASSUME NEW p, NEW t, t \notin Types(p, Apex)
  PROVE  Fits(p, <<>>, t)
BY NoneIsAlone DEF Fits

LEMMA FitIsGood ==
  ASSUME NEW p, NEW rrs, NEW t, Fits(p, rrs, t)
  PROVE  /\ Good(p, rrs) /\ Lists(p, rrs)
         /\ t # TYPE_NSEC => NoProof(rrs)
         /\ rrs = <<>> => t \notin Types(p, Apex)
<1>1. Alone(p, rrs, Apex, t)
  BY DEF Fits
<1>2. Lists(p, rrs)
  BY <1>1, AloneLists DEF Fits
<1>3. t # TYPE_NSEC => NoProof(rrs)
  BY <1>1, AloneNoProof
<1>4. QED
  BY <1>1, <1>2, <1>3 DEF Fits, Alone

Key(rr) == IF params.dnssec THEN <<rr>> ELSE <<>>

LEMMA ApexSections ==
  ASSUME Started(params), NEW q \in Query, q.name = Apex, Apex \notin Version
  PROVE  /\ Fits(params, <<Soa(Apex, TRUE, params)>>, TYPE_SOA)
         /\ Fits(params, ns_set(q), TYPE_NS)
         /\ Fits(params, <<A(Apex, TRUE, params.glue_ip)>>, TYPE_A)
         /\ Fits(params, Optional(params.glue_ip6, Aaaa(Apex, TRUE, params.glue_ip6)), TYPE_AAAA)
         /\ Fits(params, Optional(params.spf, Txt(Apex, params.spf)), TYPE_TXT)
         /\ Fits(params, Key(Dnskey(Apex)), TYPE_DNSKEY)
         /\ Fits(params, Key(Cds(Apex)), TYPE_CDS)
         /\ Fits(params, Key(Cdnskey(Apex)), TYPE_CDNSKEY)
         /\ Fits(params, Key(Nsec(Apex, apex_types, params.minimum)), TYPE_NSEC)
<1>1. /\ params.glue_ip \in Nat
      /\ params.glue_ip6 # None => params.glue_ip6 \in Nat
      /\ params.spf # None => params.spf \in Nat
  BY ParamsAre
<1>2. Types(params, Apex) = apex_types
  BY ApexTypesAre
<1>3. /\ AddressOf(params, Apex).v4 = params.glue_ip
      /\ AddressOf(params, Apex).v6 = params.glue_ip6
  BY DEF AddressOf
<1>4. TextOf(params, Apex) = params.spf
  BY ResponderAssumption DEF TextOf
<1>5. TYPE_SOA \in apex_types /\ TYPE_NS \in apex_types /\ TYPE_A \in apex_types
  BY DEF apex_types
<1>6. params.glue_ip6 # None <=> TYPE_AAAA \in apex_types
  BY DEF apex_types, TYPE_AAAA, TYPE_SOA, TYPE_NS, TYPE_A, TYPE_TXT, TYPE_DNSKEY, TYPE_CDS,
         TYPE_CDNSKEY
<1>7. params.spf # None <=> TYPE_TXT \in apex_types
  BY DEF apex_types, TYPE_AAAA, TYPE_SOA, TYPE_NS, TYPE_A, TYPE_TXT, TYPE_DNSKEY, TYPE_CDS,
         TYPE_CDNSKEY
<1>8. \A t \in {TYPE_DNSKEY, TYPE_CDS, TYPE_CDNSKEY} : params.dnssec <=> t \in apex_types
  BY DEF apex_types, TYPE_AAAA, TYPE_SOA, TYPE_NS, TYPE_A, TYPE_TXT, TYPE_DNSKEY, TYPE_CDS,
         TYPE_CDNSKEY
<1>9. TYPE_NSEC \notin apex_types
  BY DEF apex_types, TYPE_AAAA, TYPE_SOA, TYPE_NS, TYPE_A, TYPE_TXT, TYPE_DNSKEY, TYPE_CDS,
         TYPE_CDNSKEY, TYPE_NSEC
<1>10. Fits(params, <<Soa(Apex, TRUE, params)>>, TYPE_SOA)
  BY <1>2, <1>5, ExactSoa, OneFits
<1>11. Fits(params, ns_set(q), TYPE_NS)
  BY <1>2, <1>5, NsAlone DEF Fits
<1>12. Fits(params, <<A(Apex, TRUE, params.glue_ip)>>, TYPE_A)
  <2>1. PICK r : r = A(Apex, TRUE, params.glue_ip)
    OBVIOUS
  <2>2. Exact(params, r) /\ OfType(r, Apex, TYPE_A)
    BY <1>1, <1>3, <2>1, ExactA
  <2>3. QED
    BY <1>2, <1>5, <2>1, <2>2, OneFits
<1>13. Fits(params, Optional(params.glue_ip6, Aaaa(Apex, TRUE, params.glue_ip6)), TYPE_AAAA)
  <2>1. PICK r : r = Aaaa(Apex, TRUE, params.glue_ip6)
    OBVIOUS
  <2>2. CASE params.glue_ip6 # None
    <3>1. Exact(params, r) /\ OfType(r, Apex, TYPE_AAAA)
      BY <1>1, <1>3, <2>1, <2>2, ExactAaaa
    <3>2. Fits(params, <<r>>, TYPE_AAAA)
      BY <1>2, <1>6, <2>2, <3>1, OneFits
    <3>3. QED
      BY <2>1, <2>2, <3>2 DEF Optional
  <2>3. CASE params.glue_ip6 = None
    <3>1. Fits(params, <<>>, TYPE_AAAA)
      BY <1>2, <1>6, <2>3, NoneFits
    <3>2. QED
      BY <2>3, <3>1 DEF Optional
  <2>4. QED
    BY <2>2, <2>3
<1>14. Fits(params, Optional(params.spf, Txt(Apex, params.spf)), TYPE_TXT)
  <2>1. PICK r : r = Txt(Apex, params.spf)
    OBVIOUS
  <2>2. CASE params.spf # None
    <3>1. Exact(params, r) /\ OfType(r, Apex, TYPE_TXT)
      BY <1>1, <1>4, <2>1, <2>2, ExactTxt
    <3>2. Fits(params, <<r>>, TYPE_TXT)
      BY <1>2, <1>7, <2>2, <3>1, OneFits
    <3>3. QED
      BY <2>1, <2>2, <3>2 DEF Optional
  <2>3. CASE params.spf = None
    <3>1. Fits(params, <<>>, TYPE_TXT)
      BY <1>2, <1>7, <2>3, NoneFits
    <3>2. QED
      BY <2>3, <3>1 DEF Optional
  <2>4. QED
    BY <2>2, <2>3
<1>15. ASSUME NEW t \in {TYPE_DNSKEY, TYPE_CDS, TYPE_CDNSKEY, TYPE_NSEC}, NEW r,
              Exact(params, r), OfType(r, Apex, t)
       PROVE  Fits(params, Key(r), t)
  <2>1. CASE params.dnssec
    <3>1. t \in Types(params, Apex) \cup {TYPE_NSEC}
      BY <1>2, <1>8, <2>1
    <3>2. Fits(params, <<r>>, t)
      BY <1>15, <3>1, OneFits
    <3>3. QED
      BY <2>1, <3>2 DEF Key
  <2>2. CASE ~params.dnssec
    <3>1. t \notin Types(params, Apex)
      BY <1>2, <1>8, <1>9, <2>2
    <3>2. Fits(params, <<>>, t)
      BY <3>1, NoneFits
    <3>3. QED
      BY <2>2, <3>2 DEF Key
  <2>3. QED
    BY <2>1, <2>2
<1>16. /\ Fits(params, Key(Dnskey(Apex)), TYPE_DNSKEY)
       /\ Fits(params, Key(Cds(Apex)), TYPE_CDS)
       /\ Fits(params, Key(Cdnskey(Apex)), TYPE_CDNSKEY)
  BY <1>15, ExactKeys
<1>17. Fits(params, Key(Nsec(Apex, apex_types, params.minimum)), TYPE_NSEC)
  <2>1. PICK r : r = Nsec(Apex, apex_types, params.minimum)
    OBVIOUS
  <2>2. Exact(params, r) /\ OfType(r, Apex, TYPE_NSEC)
    BY <1>2, <2>1, ExactNsec
  <2>3. QED
    BY <1>15, <2>1, <2>2
<1>18. QED
  BY <1>10, <1>11, <1>12, <1>13, <1>14, <1>16, <1>17

(* Sections without an NSEC, and of different types, can be joined. *)
Plain(p, rrs, types) ==
  /\ Good(p, rrs) /\ Lists(p, rrs) /\ NoProof(rrs)
  /\ \A r \in ToSet(rrs) : r.typ \in types

LEMMA BothArePlain ==
  ASSUME NEW p, NEW s, NEW t, NEW u, u = s \o t, NEW types, NEW typ,
         Plain(p, s, types), Plain(p, t, {typ}), typ \notin types
  PROVE  Plain(p, u, types \cup {typ})
<1>1. Good(p, u) /\ NoProof(u) /\ ToSet(u) = ToSet(s) \cup ToSet(t)
  <2>1. Good(p, s) /\ Good(p, t) /\ NoProof(s) /\ NoProof(t)
    BY DEF Plain
  <2>2. Severed(s, t)
    BY DEF Plain, Severed, SameKey
  <2>3. QED
    BY Zenon, <2>1, <2>2, BothAreGood
<1>2. Lists(p, u)
  BY <1>1 DEF Plain, Lists
<1>3. \A r \in ToSet(u) : r.typ \in types \cup {typ}
  BY <1>1 DEF Plain
<1>4. QED
  BY <1>1, <1>2, <1>3 DEF Plain

LEMMA FitIsPlain ==
  ASSUME NEW p, NEW rrs, NEW t, Fits(p, rrs, t), t # TYPE_NSEC
  PROVE  Plain(p, rrs, {t})
<1>1. Good(p, rrs) /\ Lists(p, rrs) /\ NoProof(rrs)
  BY FitIsGood
<1>2. \A r \in ToSet(rrs) : r.typ \in {t}
  BY DEF Fits, Alone, OfType
<1>3. QED
  BY <1>1, <1>2 DEF Plain

LEMMA ApexAnswerFits ==
  ASSUME Started(params), NEW q \in Query, q.name = Apex, Apex \notin Version
  PROVE  /\ Good(params, ApexAnswer(q)) /\ Lists(params, ApexAnswer(q))
         /\ ApexAnswer(q) = <<>> => q.qtype \notin Types(params, Apex)
<1>1. PICK soa : soa = <<Soa(Apex, TRUE, params)>>
  OBVIOUS
<1>2. PICK ns : ns = ns_set(q)
  OBVIOUS
<1>3. PICK a : a = <<A(Apex, TRUE, params.glue_ip)>>
  OBVIOUS
<1>4. PICK aaaa : aaaa = Optional(params.glue_ip6, Aaaa(Apex, TRUE, params.glue_ip6))
  OBVIOUS
<1>5. PICK txt : txt = Optional(params.spf, Txt(Apex, params.spf))
  OBVIOUS
<1>6. PICK dnskey : dnskey = Key(Dnskey(Apex))
  OBVIOUS
<1>7. PICK cds : cds = Key(Cds(Apex))
  OBVIOUS
<1>8. PICK cdnskey : cdnskey = Key(Cdnskey(Apex))
  OBVIOUS
<1>9. PICK nsec : nsec = Key(Nsec(Apex, apex_types, params.minimum))
  OBVIOUS
<1>10. /\ Fits(params, soa, TYPE_SOA) /\ Fits(params, ns, TYPE_NS)
       /\ Fits(params, a, TYPE_A) /\ Fits(params, aaaa, TYPE_AAAA)
       /\ Fits(params, txt, TYPE_TXT) /\ Fits(params, dnskey, TYPE_DNSKEY)
       /\ Fits(params, cds, TYPE_CDS) /\ Fits(params, cdnskey, TYPE_CDNSKEY)
       /\ Fits(params, nsec, TYPE_NSEC)
  BY <1>1, <1>2, <1>3, <1>4, <1>5, <1>6, <1>7, <1>8, <1>9, ApexSections
<1>11. PICK any : any = soa \o ns \o a \o aaaa \o txt \o dnskey \o cds \o cdnskey
  OBVIOUS
<1>12. ApexAnswer(q) =
         CASE q.qtype = TYPE_SOA     -> soa
           [] q.qtype = TYPE_NS      -> ns
           [] q.qtype = TYPE_A       -> a
           [] q.qtype = TYPE_AAAA    -> aaaa
           [] q.qtype = TYPE_TXT     -> txt
           [] q.qtype = TYPE_DNSKEY  -> dnskey
           [] q.qtype = TYPE_CDS     -> cds
           [] q.qtype = TYPE_CDNSKEY -> cdnskey
           [] q.qtype = TYPE_NSEC    -> nsec
           [] q.qtype = TYPE_ANY     -> any
           [] OTHER                  -> <<>>
  BY <1>1, <1>2, <1>3, <1>4, <1>5, <1>6, <1>7, <1>8, <1>9, <1>11 DEF ApexAnswer, Key
<1>13. Good(params, any) /\ Lists(params, any)
  <2>1. /\ TYPE_SOA # TYPE_NSEC /\ TYPE_NS # TYPE_NSEC /\ TYPE_A # TYPE_NSEC
        /\ TYPE_AAAA # TYPE_NSEC /\ TYPE_TXT # TYPE_NSEC /\ TYPE_DNSKEY # TYPE_NSEC
        /\ TYPE_CDS # TYPE_NSEC /\ TYPE_CDNSKEY # TYPE_NSEC
    BY DEF TYPE_AAAA, TYPE_SOA, TYPE_NS, TYPE_A, TYPE_TXT, TYPE_DNSKEY, TYPE_CDS,
           TYPE_CDNSKEY, TYPE_NSEC
  <2>2. /\ Plain(params, soa, {TYPE_SOA}) /\ Plain(params, ns, {TYPE_NS})
        /\ Plain(params, a, {TYPE_A}) /\ Plain(params, aaaa, {TYPE_AAAA})
        /\ Plain(params, txt, {TYPE_TXT}) /\ Plain(params, dnskey, {TYPE_DNSKEY})
        /\ Plain(params, cds, {TYPE_CDS}) /\ Plain(params, cdnskey, {TYPE_CDNSKEY})
    BY <1>10, <2>1, FitIsPlain
  <2>3. PICK s2 : s2 = soa \o ns
    OBVIOUS
  <2>4. PICK t2 : t2 = {TYPE_SOA} \cup {TYPE_NS}
    OBVIOUS
  <2>5. Plain(params, s2, t2)
    <3>1. TYPE_NS \notin {TYPE_SOA}
      BY DEF TYPE_SOA, TYPE_NS
    <3>2. QED
      BY <2>2, <2>3, <2>4, <3>1, BothArePlain
  <2>6. PICK s3 : s3 = s2 \o a
    OBVIOUS
  <2>7. PICK t3 : t3 = t2 \cup {TYPE_A}
    OBVIOUS
  <2>8. Plain(params, s3, t3)
    <3>1. TYPE_A \notin t2
      BY <2>4 DEF TYPE_SOA, TYPE_NS, TYPE_A
    <3>2. QED
      BY <2>2, <2>6, <2>7, <3>1, <2>5, BothArePlain
  <2>9. PICK s4 : s4 = s3 \o aaaa
    OBVIOUS
  <2>10. PICK t4 : t4 = t3 \cup {TYPE_AAAA}
    OBVIOUS
  <2>11. Plain(params, s4, t4)
    <3>1. TYPE_AAAA \notin t3
      BY <2>4, <2>7 DEF TYPE_SOA, TYPE_NS, TYPE_A, TYPE_AAAA
    <3>2. QED
      BY <2>2, <2>9, <2>10, <3>1, <2>8, BothArePlain
  <2>12. PICK s5 : s5 = s4 \o txt
    OBVIOUS
  <2>13. PICK t5 : t5 = t4 \cup {TYPE_TXT}
    OBVIOUS
  <2>14. Plain(params, s5, t5)
    <3>1. TYPE_TXT \notin t4
      BY <2>4, <2>7, <2>10 DEF TYPE_SOA, TYPE_NS, TYPE_A, TYPE_AAAA, TYPE_TXT
    <3>2. QED
      BY <2>2, <2>12, <2>13, <3>1, <2>11, BothArePlain
  <2>15. PICK s6 : s6 = s5 \o dnskey
    OBVIOUS
  <2>16. PICK t6 : t6 = t5 \cup {TYPE_DNSKEY}
    OBVIOUS
  <2>17. Plain(params, s6, t6)
    <3>1. TYPE_DNSKEY \notin t5
      BY <2>4, <2>7, <2>10, <2>13 DEF TYPE_SOA, TYPE_NS, TYPE_A, TYPE_AAAA, TYPE_TXT, TYPE_DNSKEY
    <3>2. QED
      BY <2>2, <2>15, <2>16, <3>1, <2>14, BothArePlain
  <2>18. PICK s7 : s7 = s6 \o cds
    OBVIOUS
  <2>19. PICK t7 : t7 = t6 \cup {TYPE_CDS}
    OBVIOUS
  <2>20. Plain(params, s7, t7)
    <3>1. TYPE_CDS \notin t6
      BY <2>4, <2>7, <2>10, <2>13, <2>16 DEF TYPE_SOA, TYPE_NS, TYPE_A, TYPE_AAAA, TYPE_TXT, TYPE_DNSKEY, TYPE_CDS
    <3>2. QED
      BY <2>2, <2>18, <2>19, <3>1, <2>17, BothArePlain
  <2>21. PICK s8 : s8 = s7 \o cdnskey
    OBVIOUS
  <2>22. PICK t8 : t8 = t7 \cup {TYPE_CDNSKEY}
    OBVIOUS
  <2>23. Plain(params, s8, t8)
    <3>1. TYPE_CDNSKEY \notin t7
      BY <2>4, <2>7, <2>10, <2>13, <2>16, <2>19 DEF TYPE_SOA, TYPE_NS, TYPE_A, TYPE_AAAA, TYPE_TXT, TYPE_DNSKEY, TYPE_CDS,
              TYPE_CDNSKEY
    <3>2. QED
      BY <2>2, <2>21, <2>22, <3>1, <2>20, BothArePlain
  <2>24. any = s8
    BY <1>11, <2>3, <2>6, <2>9, <2>12, <2>15, <2>18, <2>21
  <2>25. QED
    BY <2>23, <2>24 DEF Plain
<1>14. TYPE_ANY \notin Types(params, Apex)
  <2>1. Types(params, Apex) = apex_types
    BY ApexTypesAre
  <2>2. TYPE_ANY \notin apex_types
    BY DEF apex_types, TYPE_AAAA, TYPE_SOA, TYPE_NS, TYPE_A, TYPE_TXT, TYPE_DNSKEY, TYPE_CDS,
           TYPE_CDNSKEY, TYPE_ANY
  <2>3. QED
    BY <2>1, <2>2
<1>15. CASE q.qtype \in {TYPE_SOA, TYPE_NS, TYPE_A, TYPE_AAAA, TYPE_TXT, TYPE_DNSKEY, TYPE_CDS,
                         TYPE_CDNSKEY, TYPE_NSEC}
  <2>1. Fits(params, ApexAnswer(q), q.qtype)
    <3>1. CASE q.qtype = TYPE_SOA
      <4>1. ApexAnswer(q) = soa
        BY <1>12, <3>1 DEF TYPE_AAAA, TYPE_SOA, TYPE_NS, TYPE_A, TYPE_TXT, TYPE_DNSKEY, TYPE_CDS,
               TYPE_CDNSKEY, TYPE_NSEC, TYPE_ANY
      <4>2. QED
        BY <1>10, <3>1, <4>1
    <3>2. CASE q.qtype = TYPE_NS
      <4>1. ApexAnswer(q) = ns
        BY <1>12, <3>2 DEF TYPE_AAAA, TYPE_SOA, TYPE_NS, TYPE_A, TYPE_TXT, TYPE_DNSKEY, TYPE_CDS,
               TYPE_CDNSKEY, TYPE_NSEC, TYPE_ANY
      <4>2. QED
        BY <1>10, <3>2, <4>1
    <3>3. CASE q.qtype = TYPE_A
      <4>1. ApexAnswer(q) = a
        BY <1>12, <3>3 DEF TYPE_AAAA, TYPE_SOA, TYPE_NS, TYPE_A, TYPE_TXT, TYPE_DNSKEY, TYPE_CDS,
               TYPE_CDNSKEY, TYPE_NSEC, TYPE_ANY
      <4>2. QED
        BY <1>10, <3>3, <4>1
    <3>4. CASE q.qtype = TYPE_AAAA
      <4>1. ApexAnswer(q) = aaaa
        BY <1>12, <3>4 DEF TYPE_AAAA, TYPE_SOA, TYPE_NS, TYPE_A, TYPE_TXT, TYPE_DNSKEY, TYPE_CDS,
               TYPE_CDNSKEY, TYPE_NSEC, TYPE_ANY
      <4>2. QED
        BY <1>10, <3>4, <4>1
    <3>5. CASE q.qtype = TYPE_TXT
      <4>1. ApexAnswer(q) = txt
        BY <1>12, <3>5 DEF TYPE_AAAA, TYPE_SOA, TYPE_NS, TYPE_A, TYPE_TXT, TYPE_DNSKEY, TYPE_CDS,
               TYPE_CDNSKEY, TYPE_NSEC, TYPE_ANY
      <4>2. QED
        BY <1>10, <3>5, <4>1
    <3>6. CASE q.qtype = TYPE_DNSKEY
      <4>1. ApexAnswer(q) = dnskey
        BY <1>12, <3>6 DEF TYPE_AAAA, TYPE_SOA, TYPE_NS, TYPE_A, TYPE_TXT, TYPE_DNSKEY, TYPE_CDS,
               TYPE_CDNSKEY, TYPE_NSEC, TYPE_ANY
      <4>2. QED
        BY <1>10, <3>6, <4>1
    <3>7. CASE q.qtype = TYPE_CDS
      <4>1. ApexAnswer(q) = cds
        BY <1>12, <3>7 DEF TYPE_AAAA, TYPE_SOA, TYPE_NS, TYPE_A, TYPE_TXT, TYPE_DNSKEY, TYPE_CDS,
               TYPE_CDNSKEY, TYPE_NSEC, TYPE_ANY
      <4>2. QED
        BY <1>10, <3>7, <4>1
    <3>8. CASE q.qtype = TYPE_CDNSKEY
      <4>1. ApexAnswer(q) = cdnskey
        BY <1>12, <3>8 DEF TYPE_AAAA, TYPE_SOA, TYPE_NS, TYPE_A, TYPE_TXT, TYPE_DNSKEY, TYPE_CDS,
               TYPE_CDNSKEY, TYPE_NSEC, TYPE_ANY
      <4>2. QED
        BY <1>10, <3>8, <4>1
    <3>9. CASE q.qtype = TYPE_NSEC
      <4>1. ApexAnswer(q) = nsec
        BY <1>12, <3>9 DEF TYPE_AAAA, TYPE_SOA, TYPE_NS, TYPE_A, TYPE_TXT, TYPE_DNSKEY, TYPE_CDS,
               TYPE_CDNSKEY, TYPE_NSEC, TYPE_ANY
      <4>2. QED
        BY <1>10, <3>9, <4>1
    <3>10. QED
      BY <1>15, <3>1, <3>2, <3>3, <3>4, <3>5, <3>6, <3>7, <3>8, <3>9
  <2>2. QED
    BY <2>1, FitIsGood
<1>16. CASE q.qtype = TYPE_ANY
  <2>1. ApexAnswer(q) = any
    BY <1>12, <1>16 DEF TYPE_AAAA, TYPE_SOA, TYPE_NS, TYPE_A, TYPE_TXT, TYPE_DNSKEY,
           TYPE_CDS, TYPE_CDNSKEY, TYPE_NSEC, TYPE_ANY
  <2>2. QED
    BY <1>13, <1>14, <1>16, <2>1
<1>17. CASE q.qtype \notin {TYPE_SOA, TYPE_NS, TYPE_A, TYPE_AAAA, TYPE_TXT, TYPE_DNSKEY, TYPE_CDS,
                            TYPE_CDNSKEY, TYPE_NSEC, TYPE_ANY}
  <2>1. ApexAnswer(q) = <<>>
    BY <1>12, <1>17
  <2>2. Types(params, Apex) = apex_types
    BY ApexTypesAre
  <2>3. q.qtype \notin apex_types
    BY <1>17 DEF apex_types
  <2>4. Good(params, <<>>) /\ Lists(params, <<>>)
    BY NoneIsGood DEF Lists
  <2>5. QED
    BY <2>1, <2>2, <2>3, <2>4
<1>18. QED
  BY <1>15, <1>16, <1>17

LEMMA ApexHonest ==
  ASSUME Started(params), NEW q \in Query, q.name = Apex, Apex \notin Version
  PROVE  Honest(q, build_apex_response(q))
<1>1. Types(params, q.name) = apex_types
  BY ApexTypesAre
<1>2. PICK a : a = ApexAnswer(q)
  OBVIOUS
<1>3. /\ Good(params, a) /\ Lists(params, a)
      /\ a = <<>> => q.qtype \notin Types(params, q.name)
  BY <1>2, ApexAnswerFits
<1>4. CASE a = <<>>
  <2>1. Honest(q, nodata(q, apex_types))
    BY <1>1, <1>3, <1>4, NodataHonest
  <2>2. QED
    BY <1>2, <1>4, <2>1 DEF build_apex_response
<1>5. CASE a # <<>>
  <2>1. PICK b : b = IF q.qtype = TYPE_SOA THEN ns_set(q) ELSE <<>>
    OBVIOUS
  <2>2. PICK c : c = IF q.qtype \in {TYPE_SOA, TYPE_NS, TYPE_ANY} THEN in_bailiwick_glue
                     ELSE <<>>
    OBVIOUS
  <2>3. Good(params, <<>>) /\ Lists(params, <<>>)
    BY NoneIsGood DEF Lists
  <2>4. Good(params, b) /\ Lists(params, b)
    <3>1. Good(params, ns_set(q)) /\ Lists(params, ns_set(q))
      BY ApexSections, FitIsGood
    <3>2. QED
      BY <2>1, <2>3, <3>1
  <2>5. Good(params, c) /\ (Apart(params) => Lists(params, c))
    BY <2>2, <2>3, GlueIsGood, GlueLists
  <2>6. sign(q) \in BOOLEAN
    BY ParamsAre
  <2>7. Honest(q, Finish(q, sign(q), <<a, b, c>>))
    BY <1>3, <1>5, <2>4, <2>5, <2>6, FinishHonest
  <2>8. build_apex_response(q) = Finish(q, sign(q), <<a, b, c>>)
    BY <1>2, <1>5, <2>1, <2>2 DEF build_apex_response
  <2>9. QED
    BY <2>7, <2>8
<1>6. QED
  BY <1>4, <1>5

LEMMA VersionHonest ==
  ASSUME Started(params), NEW q \in Query, q.name \in Version
  PROVE  Honest(q, version_response(q))
<1>1. Types(params, q.name) = {TYPE_TXT} /\ TextOf(params, q.name) = params.version
  BY DEF Types, TextOf
<1>2. params.version \in Nat
  BY ParamsAre
<1>3. Honest(q, TextOnly(q, params.version))
  BY <1>1, <1>2, TextHonest
<1>4. Honest(q, error_response(q, "REFUSED"))
  BY ErrorHonest
<1>5. QED
  BY <1>3, <1>4 DEF version_response

LEMMA HostHonest ==
  ASSUME Started(params), NEW q \in Query, q.name \notin Version, q.name \in InZone,
         ~(q.name = Dmarc /\ params.dmarc # None), q.name # Apex
  PROVE  Honest(q, Host(q))
<1>1. Types(params, q.name) = address_types(AddressOf(params, q.name))
  BY DEF Types
<1>2. is_configured_ns(q.name) <=> ConfiguredNs(params, q.name)
  BY DEF is_configured_ns, ConfiguredNs
<1>3. CASE is_configured_ns(q.name)
  <2>1. glue = AddressOf(params, q.name)
    BY <1>2, <1>3 DEF AddressOf, glue
  <2>2. glue.v4 \in Maybe /\ glue.v6 \in Maybe
    BY DEF glue, Started, Environment, Maybe
  <2>3. Honest(q, build_address_response(q, glue))
    BY <1>1, <2>1, <2>2, AddressHonest
  <2>4. Host(q) = build_address_response(q, glue)
    BY <1>3 DEF Host
  <2>5. QED
    BY <2>3, <2>4
<1>4. CASE ~is_configured_ns(q.name)
  <2>1. Address[q.name] = AddressOf(params, q.name)
    BY <1>2, <1>4 DEF AddressOf
  <2>2. CASE Address[q.name] # NoAddress
    <3>1. PICK ip : ip = Address[q.name]
      OBVIOUS
    <3>2. ip \in [v4 : Maybe, v6 : Maybe]
      BY <3>1, ParamsAre, ResponderAssumption
    <3>3. ip.v4 \in Maybe /\ ip.v6 \in Maybe
      BY <3>2
    <3>4. Honest(q, build_address_response(q, ip))
      BY <1>1, <2>1, <3>1, <3>3, AddressHonest
    <3>5. Host(q) = build_address_response(q, ip)
      BY <1>4, <2>2, <3>1 DEF Host
    <3>6. QED
      BY <3>4, <3>5
  <2>3. CASE Address[q.name] = NoAddress
    <3>1. address_types(NoAddress) = {}
      BY DEF address_types, NoAddress
    <3>2. Types(params, q.name) = {}
      BY <1>1, <2>1, <2>3, <3>1
    <3>3. Honest(q, nodata(q, {}))
      BY <3>2, NodataHonest
    <3>4. Host(q) = nodata(q, {})
      BY <1>4, <2>3 DEF Host
    <3>5. QED
      BY <3>3, <3>4
  <2>4. QED
    BY <2>2, <2>3
<1>5. QED
  BY <1>3, <1>4

LEMMA ByNameHonest ==
  ASSUME Started(params), NEW q \in Query
  PROVE  Honest(q, ByName(q))
<1>1. CASE q.name \in Version
  BY <1>1, VersionHonest DEF ByName
<1>2. CASE q.name \notin Version /\ q.name \notin InZone
  <2>1. q.name # Dmarc /\ q.name # Apex
    BY <1>2, ResponderAssumption
  <2>2. ByName(q) = error_response(q, "REFUSED")
    BY <1>2, <2>1 DEF ByName
  <2>3. QED
    BY <2>2, ErrorHonest
<1>3. CASE q.name \notin Version /\ q.name = Dmarc /\ params.dmarc # None
  <2>1. q.name \in InZone /\ q.name # Apex
    BY <1>3, ResponderAssumption
  <2>2. ByName(q) = TextOnly(q, params.dmarc)
    BY <1>3, <2>1 DEF ByName
  <2>3. Types(params, q.name) = {TYPE_TXT} /\ TextOf(params, q.name) = params.dmarc
    BY <1>3, <2>1 DEF Types, TextOf
  <2>4. params.dmarc \in Nat
    BY <1>3, ParamsAre
  <2>5. Honest(q, TextOnly(q, params.dmarc))
    BY <2>3, <2>4, TextHonest
  <2>6. QED
    BY <2>2, <2>5
<1>4. CASE q.name \notin Version /\ q.name = Apex
  <2>1. q.name \in InZone /\ q.name # Dmarc
    BY <1>4, ResponderAssumption
  <2>2. ByName(q) = build_apex_response(q)
    BY <1>4, <2>1 DEF ByName
  <2>3. Honest(q, build_apex_response(q))
    BY <1>4, ApexHonest
  <2>4. QED
    BY <2>2, <2>3
<1>5. CASE /\ q.name \notin Version /\ q.name \in InZone
           /\ ~(q.name = Dmarc /\ params.dmarc # None) /\ q.name # Apex
  <2>1. ByName(q) = Host(q)
    BY <1>5 DEF ByName
  <2>2. QED
    BY <1>5, <2>1, HostHonest
<1>6. QED
  BY <1>1, <1>2, <1>3, <1>4, <1>5

LEMMA AnswersHonest ==
  ASSUME Started(params), NEW q \in Query
  PROVE  Honest(q, handle_query_internal(q))
<1>1. q.kind \in {"opcode", "unreadable", "class", "query"}
  BY ResponderAssumption
<1>2. CASE q.kind = "opcode"
  BY <1>2, ErrorHonest DEF handle_query_internal
<1>3. CASE q.kind = "unreadable"
  BY <1>3, SilenceHonest DEF handle_query_internal
<1>4. CASE q.kind = "class"
  BY <1>4, ErrorHonest DEF handle_query_internal
<1>5. CASE q.kind = "query"
  BY <1>5, ByNameHonest DEF handle_query_internal
<1>6. QED
  BY <1>1, <1>2, <1>3, <1>4, <1>5

-----------------------------------------------------------------------------
(* The answer to a question does not change while the server runs. *)
LEMMA SameNodata ==
  ASSUME NEW q, NEW existing, params' = params
  PROVE  nodata(q, existing)' = nodata(q, existing)
BY DEF nodata, sign

LEMMA SameFinish ==
  ASSUME NEW q, NEW s, params' = params
  PROVE  Finish(q, sign(q), s)' = Finish(q, sign(q), s)
BY DEF sign

LEMMA SameText ==
  ASSUME NEW q, NEW text, params' = params
  PROVE  TextOnly(q, text)' = TextOnly(q, text)
<1>1. nodata(q, {TYPE_TXT})' = nodata(q, {TYPE_TXT})
  BY SameNodata
<1>2. build_txt_response(q, text)' = build_txt_response(q, text)
  BY DEF build_txt_response, sign
<1>3. QED
  BY <1>1, <1>2 DEF TextOnly

LEMMA SameAddress ==
  ASSUME NEW q, NEW ip, params' = params
  PROVE  build_address_response(q, ip)' = build_address_response(q, ip)
<1>1. nodata(q, address_types(ip))' = nodata(q, address_types(ip))
  BY SameNodata
<1>2. sign(q)' = sign(q)
  BY DEF sign
<1>3. QED
  BY <1>1, <1>2 DEF build_address_response

LEMMA SameApex ==
  ASSUME NEW q, params' = params
  PROVE  build_apex_response(q)' = build_apex_response(q)
<1>1. apex_types' = apex_types
  BY DEF apex_types
<1>2. nodata(q, apex_types)' = nodata(q, apex_types)
  BY <1>1 DEF nodata, sign
<1>3. ns_set(q)' = ns_set(q)
  BY DEF ns_set
<1>4. in_bailiwick_glue' = in_bailiwick_glue
  BY DEF in_bailiwick_glue
<1>5. ApexAnswer(q)' = ApexAnswer(q)
  BY <1>1, <1>3 DEF ApexAnswer
<1>6. sign(q)' = sign(q)
  BY DEF sign
<1>7. QED
  BY <1>2, <1>3, <1>4, <1>5, <1>6 DEF build_apex_response

LEMMA SameHost ==
  ASSUME NEW q, params' = params
  PROVE  Host(q)' = Host(q)
<1>1. is_configured_ns(q.name)' <=> is_configured_ns(q.name)
  BY DEF is_configured_ns
<1>2. glue' = glue
  BY DEF glue
<1>3. build_address_response(q, glue)' = build_address_response(q, glue)
  BY <1>2, SameAddress
<1>4. build_address_response(q, Address[q.name])' = build_address_response(q, Address[q.name])
  BY SameAddress
<1>5. nodata(q, {})' = nodata(q, {})
  BY SameNodata
<1>6. QED
  BY <1>1, <1>3, <1>4, <1>5 DEF Host

LEMMA SameAnswer ==
  ASSUME NEW q, params' = params
  PROVE  handle_query_internal(q)' = handle_query_internal(q)
<1>1. version_response(q)' = version_response(q)
  <2>1. TextOnly(q, params.version)' = TextOnly(q, params.version)
    BY SameText
  <2>2. QED
    BY <2>1 DEF version_response
<1>2. TextOnly(q, params.dmarc)' = TextOnly(q, params.dmarc)
  BY SameText
<1>3. build_apex_response(q)' = build_apex_response(q)
  BY SameApex
<1>4. Host(q)' = Host(q)
  BY SameHost
<1>5. ByName(q)' = ByName(q)
  BY <1>1, <1>2, <1>3, <1>4 DEF ByName
<1>6. QED
  BY <1>5 DEF handle_query_internal

-----------------------------------------------------------------------------
(* Every answer is a whole message without TC, and one that is an error    *)
(* claims nothing.                                                         *)
IsMessage(m) ==
  \E n, t, rcode, aa, opt, a, b, c :
    m = [name |-> n, qtype |-> t, rcode |-> rcode, aa |-> aa, tc |-> FALSE, opt |-> opt,
         answers |-> a, authority |-> b, additional |-> c]

Modest(m) ==
  \/ m.rcode = "NOERROR"
  \/ /\ m.rcode \in {"REFUSED", "NOTIMP", None} /\ m.aa = FALSE
     /\ m.answers = <<>> /\ m.authority = <<>> /\ m.additional = <<>>

Whole(m) == IsMessage(m) /\ Modest(m)

LEMMA MessageIs ==
  ASSUME NEW q, NEW rcode, NEW aa, NEW s, NEW opt, NEW m, m = Message(q, rcode, aa, s, opt)
  PROVE  /\ IsMessage(m)
         /\ m.rcode = rcode /\ m.aa = aa
         /\ m.answers = s[1] /\ m.authority = s[2] /\ m.additional = s[3]
<1>1. IsMessage(m)
  BY Zenon DEF Message, IsMessage
<1>2. /\ m.rcode = rcode /\ m.aa = aa
      /\ m.answers = s[1] /\ m.authority = s[2] /\ m.additional = s[3]
  BY DEF Message
<1>3. QED
  BY <1>1, <1>2

LEMMA FinishWhole ==
  ASSUME NEW q, NEW signed, NEW s
  PROVE  Whole(Finish(q, signed, s))
<1>1. PICK e : e = [k \in 1..3 |-> Emit(s[k], signed)]
  OBVIOUS
<1>2. PICK opt : opt = Opt(q, signed)
  OBVIOUS
<1>3. PICK m : m = Message(q, "NOERROR", TRUE, e, opt)
  OBVIOUS
<1>4. Finish(q, signed, s) = m
  BY <1>1, <1>2, <1>3 DEF Finish
<1>5. IsMessage(m)
  BY <1>3, MessageIs
<1>6. m.rcode = "NOERROR"
  BY <1>3 DEF Message
<1>7. QED
  BY <1>4, <1>5, <1>6 DEF Whole, Modest

LEMMA EmptyWhole ==
  ASSUME NEW q, NEW rcode \in {"REFUSED", "NOTIMP", None}, NEW opt
  PROVE  Whole(Message(q, rcode, FALSE, Empty, opt))
<1>1. Empty[1] = <<>> /\ Empty[2] = <<>> /\ Empty[3] = <<>>
  BY DEF Empty
<1>2. PICK m : m = Message(q, rcode, FALSE, Empty, opt)
  OBVIOUS
<1>3. IsMessage(m)
  BY <1>2, MessageIs
<1>4. m.rcode = rcode /\ m.aa = FALSE
  BY <1>2 DEF Message
<1>5. m.answers = <<>> /\ m.authority = <<>> /\ m.additional = <<>>
  BY <1>1, <1>2 DEF Message
<1>6. QED
  BY <1>2, <1>3, <1>4, <1>5 DEF Whole, Modest

LEMMA ErrorWhole ==
  ASSUME NEW q, NEW rcode \in {"REFUSED", "NOTIMP"}
  PROVE  Whole(error_response(q, rcode))
<1>1. PICK opt : opt = Opt(q, FALSE)
  OBVIOUS
<1>2. Whole(Message(q, rcode, FALSE, Empty, opt))
  BY EmptyWhole
<1>3. QED
  BY <1>1, <1>2 DEF error_response

LEMMA AnswersWhole ==
  ASSUME NEW q \in Query
  PROVE  Whole(handle_query_internal(q))
<1>1. \A e : Whole(nodata(q, e))
  BY FinishWhole DEF nodata
<1>2. \A text : Whole(TextOnly(q, text))
  BY <1>1, FinishWhole DEF TextOnly, build_txt_response
<1>3. \A ip : Whole(build_address_response(q, ip))
  BY <1>1, FinishWhole DEF build_address_response
<1>4. Whole(build_apex_response(q))
  BY <1>1, FinishWhole DEF build_apex_response
<1>5. Whole(error_response(q, "REFUSED")) /\ Whole(error_response(q, "NOTIMP"))
  BY ErrorWhole
<1>6. Whole(version_response(q))
  BY <1>2, <1>5 DEF version_response
<1>7. Whole(Host(q))
  <2>1. CASE is_configured_ns(q.name)
    BY <1>3, <2>1 DEF Host
  <2>2. CASE ~is_configured_ns(q.name) /\ Address[q.name] # NoAddress
    BY <1>3, <2>2 DEF Host
  <2>3. CASE ~is_configured_ns(q.name) /\ Address[q.name] = NoAddress
    BY <1>1, <2>3 DEF Host
  <2>4. QED
    BY <2>1, <2>2, <2>3
<1>8. Whole(ByName(q))
  <2>1. CASE q.name \in Version
    BY <1>6, <2>1 DEF ByName
  <2>2. CASE q.name \notin Version /\ q.name \notin InZone
    <3>1. q.name # Dmarc /\ q.name # Apex
      BY <2>2, ResponderAssumption
    <3>2. QED
      BY <1>5, <2>2, <3>1 DEF ByName
  <2>3. CASE q.name \notin Version /\ q.name \in InZone /\ q.name = Dmarc /\ params.dmarc # None
    <3>1. q.name # Apex
      BY <2>3, ResponderAssumption
    <3>2. QED
      BY <1>2, <2>3, <3>1 DEF ByName
  <2>4. CASE q.name \notin Version /\ q.name \in InZone /\ q.name = Apex
    <3>1. q.name # Dmarc
      BY <2>4, ResponderAssumption
    <3>2. QED
      BY <1>4, <2>4, <3>1 DEF ByName
  <2>5. CASE /\ q.name \notin Version /\ q.name \in InZone /\ q.name # Apex
             /\ ~(q.name = Dmarc /\ params.dmarc # None)
    BY <1>7, <2>5 DEF ByName
  <2>6. QED
    BY <2>1, <2>2, <2>3, <2>4, <2>5
<1>9. Whole(Silence(q))
  BY EmptyWhole DEF Silence
<1>10. q.kind \in {"opcode", "unreadable", "class", "query"}
  BY ResponderAssumption
<1>11. QED
  <2>1. CASE q.kind = "opcode"
    BY <1>5, <2>1 DEF handle_query_internal
  <2>2. CASE q.kind = "unreadable"
    BY <1>9, <2>2 DEF handle_query_internal
  <2>3. CASE q.kind = "class"
    BY <1>5, <2>3 DEF handle_query_internal
  <2>4. CASE q.kind = "query"
    BY <1>8, <2>4 DEF handle_query_internal
  <2>5. QED
    BY <1>10, <2>1, <2>2, <2>3, <2>4

-----------------------------------------------------------------------------
(* Truncation: all of an answer or none of it. *)
LEMMA BareAgain ==
  ASSUME NEW m, IsMessage(m), NEW o, NEW x
  PROVE  Bare(Bare(m, o), x) = Bare(m, x)
<1>1. PICK n, t, rcode, aa, opt, a, b, c :
        m = [name |-> n, qtype |-> t, rcode |-> rcode, aa |-> aa, tc |-> FALSE, opt |-> opt,
             answers |-> a, authority |-> b, additional |-> c]
  BY Zenon DEF IsMessage
<1>2. PICK r : r = Bare(m, o)
  OBVIOUS
<1>3. PICK v : v = Bare(m, x)
  OBVIOUS
<1>4. PICK w : w = Bare(r, x)
  OBVIOUS
<1>5. r = [name |-> n, qtype |-> t, rcode |-> rcode, aa |-> aa, tc |-> TRUE, opt |-> o,
           answers |-> <<>>, authority |-> <<>>, additional |-> <<>>]
  BY <1>1, <1>2 DEF Bare
<1>6. v = [name |-> n, qtype |-> t, rcode |-> rcode, aa |-> aa, tc |-> TRUE, opt |-> x,
           answers |-> <<>>, authority |-> <<>>, additional |-> <<>>]
  BY <1>1, <1>3 DEF Bare
<1>7. w = [name |-> n, qtype |-> t, rcode |-> rcode, aa |-> aa, tc |-> TRUE, opt |-> x,
           answers |-> <<>>, authority |-> <<>>, additional |-> <<>>]
  BY <1>4, <1>5 DEF Bare
<1>8. v = w
  BY <1>6, <1>7
<1>9. QED
  BY <1>2, <1>3, <1>4, <1>8

(* r is what is left of m: no record, and marked truncated. *)
Emptied(r, m) ==
  /\ r.tc = TRUE /\ r.rcode = m.rcode /\ r.aa = m.aa
  /\ r.answers = <<>> /\ r.authority = <<>> /\ r.additional = <<>>

LEMMA BareIs ==
  ASSUME NEW m, IsMessage(m), NEW o, NEW r, r = Bare(m, o)
  PROVE  Emptied(r, m) /\ Bare(r, None) = Bare(m, None)
<1>1. PICK n, t, rcode, aa, opt, a, b, c :
        m = [name |-> n, qtype |-> t, rcode |-> rcode, aa |-> aa, tc |-> FALSE, opt |-> opt,
             answers |-> a, authority |-> b, additional |-> c]
  BY Zenon DEF IsMessage
<1>2. r = [name |-> n, qtype |-> t, rcode |-> rcode, aa |-> aa, tc |-> TRUE, opt |-> o,
           answers |-> <<>>, authority |-> <<>>, additional |-> <<>>]
  BY <1>1 DEF Bare
<1>3. r.tc = TRUE /\ r.answers = <<>> /\ r.authority = <<>> /\ r.additional = <<>>
  BY <1>2
<1>4. r.rcode = m.rcode /\ r.aa = m.aa
  BY <1>1, <1>2
<1>5. r = Bare(m, o)
  OBVIOUS
<1>6. Bare(r, None) = Bare(m, None)
  BY <1>5, BareAgain
<1>7. QED
  BY <1>3, <1>4, <1>6 DEF Emptied

Fitting(m, q) == MessageLen(m) <= udp_response_limit(q)

(* What is sent over UDP in place of m. *)
Sent(m, r, q) ==
  \/ r = m /\ Fitting(m, q)
  \/ Emptied(r, m) /\ (Fitting(r, q) \/ r = Bare(r, None))

LEMMA TruncatedIs ==
  ASSUME NEW m, IsMessage(m), NEW q
  PROVE  Sent(m, maybe_truncate_udp(m, q), q)
<1>1. PICK o : o = Opt(q, FALSE)
  OBVIOUS
<1>2. CASE Fitting(m, q)
  BY <1>2 DEF maybe_truncate_udp, Sent, Fitting
<1>3. CASE ~Fitting(m, q) /\ Fitting(Bare(m, o), q)
  <2>1. PICK r : r = Bare(m, o)
    OBVIOUS
  <2>2. maybe_truncate_udp(m, q) = r
    BY <1>1, <1>3, <2>1 DEF maybe_truncate_udp, Fitting
  <2>3. Emptied(r, m)
    BY Zenon, <2>1, BareIs
  <2>4. Fitting(r, q)
    BY <1>3, <2>1
  <2>5. QED
    BY <2>2, <2>3, <2>4 DEF Sent
<1>4. CASE ~Fitting(m, q) /\ ~Fitting(Bare(m, o), q)
  <2>1. PICK r : r = Bare(m, None)
    OBVIOUS
  <2>2. maybe_truncate_udp(m, q) = r
    BY <1>1, <1>4, <2>1 DEF maybe_truncate_udp, Fitting
  <2>3. Emptied(r, m) /\ Bare(r, None) = Bare(m, None)
    BY Zenon, <2>1, BareIs
  <2>4. QED
    BY <2>1, <2>2, <2>3 DEF Sent
<1>5. QED
  BY <1>2, <1>3, <1>4

LEMMA SentFaithful ==
  ASSUME NEW p, NEW m, NEW r, NEW q, Faithful(p, m), Sent(m, r, q)
  PROVE  Faithful(p, r)
<1>1. CASE r = m
  BY <1>1
<1>2. CASE r.tc = TRUE /\ r.answers = <<>> /\ r.authority = <<>> /\ r.additional = <<>>
  <2>1. ~Denies(r)
    BY <1>2 DEF Denies
  <2>2. QED
    BY <1>2, <2>1, EmptyFaithful
<1>3. QED
  BY <1>1, <1>2 DEF Sent, Emptied

(* The part of the type invariant about one reply. *)
Typed(m) ==
  /\ m.rcode \in {"NOERROR", "REFUSED", "NOTIMP", None}
  /\ m.rcode # "NOERROR" => Learned(m) = {} /\ ~m.aa

LEMMA WholeTyped ==
  ASSUME NEW m, Whole(m)
  PROVE  Typed(m)
<1>1. CASE m.rcode = "NOERROR"
  BY <1>1 DEF Typed
<1>2. CASE m.rcode # "NOERROR"
  <2>1. Learned(m) = {}
    BY <1>2, LearnedIs, NothingLearned DEF Whole, Modest
  <2>2. QED
    BY <1>2, <2>1 DEF Typed, Whole, Modest
<1>3. QED
  BY <1>1, <1>2

LEMMA SentTyped ==
  ASSUME NEW m, Whole(m), NEW r, NEW q, Sent(m, r, q)
  PROVE  Typed(r)
<1>1. CASE r = m
  BY <1>1, WholeTyped
<1>2. CASE /\ r.rcode = m.rcode /\ r.aa = m.aa
           /\ r.answers = <<>> /\ r.authority = <<>> /\ r.additional = <<>>
  <2>1. Learned(r) = {}
    BY <1>2, LearnedIs, NothingLearned
  <2>2. Typed(m)
    BY WholeTyped
  <2>3. QED
    BY <1>2, <2>1, <2>2 DEF Typed
<1>3. QED
  BY <1>1, <1>2 DEF Sent, Emptied

-----------------------------------------------------------------------------
(* The configuration the server starts with. *)
LEMMA NamesParsed ==
  ASSUME NEW raw \in Seq(Name \cup {Blank}), NEW soa \in Name
  PROVE  LET names == parse_ns_names(raw, soa) IN
         /\ names \in Seq(Name) /\ names # <<>>
         /\ ToSet(names) \subseteq ToSet(raw) \cup {soa}
<1>1. PICK s : s = [k \in DOMAIN raw |-> IF raw[k] = Blank THEN <<>> ELSE <<raw[k]>>]
  OBVIOUS
<1>2. PICK n \in Nat : n = Len(raw)
  <2>1. Len(raw) \in Nat
    OBVIOUS
  <2>2. QED
    BY <2>1
<1>3. DOMAIN raw = 1..n /\ \A k \in 1..n : raw[k] \in Name \cup {Blank}
  BY <1>2
<1>4. \A k \in 1..n : s[k] = IF raw[k] = Blank THEN <<>> ELSE <<raw[k]>>
  BY <1>1, <1>3
<1>5. ASSUME NEW k \in 1..n
      PROVE  s[k] \in Seq(Name) /\ ToSet(s[k]) \subseteq ToSet(raw)
  <2>1. CASE raw[k] = Blank
    <3>1. s[k] = <<>>
      BY <1>4, <2>1
    <3>2. QED
      BY <3>1 DEF ToSet
  <2>2. CASE raw[k] # Blank
    <3>1. s[k] = <<raw[k]>> /\ raw[k] \in Name
      BY <1>3, <1>4, <2>2
    <3>2. PICK x \in Name : x = raw[k]
      BY <3>1
    <3>3. <<x>> \in Seq(Name) /\ ToSet(<<x>>) = {x}
      BY DEF ToSet
    <3>4. x \in ToSet(raw)
      BY <1>3, <3>2 DEF ToSet
    <3>5. QED
      BY <3>1, <3>2, <3>3, <3>4
  <2>3. QED
    BY <2>1, <2>2
<1>6. s \in Seq(Seq(Name)) /\ DOMAIN s = 1..n
  <2>1. s = [k \in 1..n |-> s[k]]
    BY <1>1, <1>3
  <2>2. QED
    BY <1>5, <2>1
<1>7. PICK names : names = FlattenSeq(s)
  OBVIOUS
<1>8. names \in Seq(Name) /\ ToSet(names) = Items(s)
  BY <1>6, <1>7, FlattenKeeps
<1>9. Items(s) \subseteq ToSet(raw)
  <2>1. ToSet(s) = {s[k] : k \in 1..n}
    BY <1>6 DEF ToSet
  <2>2. \A x \in ToSet(s) : ToSet(x) \subseteq ToSet(raw)
    BY <1>5, <2>1
  <2>3. QED
    BY <2>2 DEF Items
<1>10. parse_ns_names(raw, soa) = IF names = <<>> THEN <<soa>> ELSE names
  BY <1>1, <1>7 DEF parse_ns_names
<1>11. <<soa>> \in Seq(Name) /\ <<soa>> # <<>> /\ ToSet(<<soa>>) = {soa}
  BY DEF ToSet
<1>12. QED
  BY <1>8, <1>9, <1>10, <1>11

(* No name server that lies in the zone has a name that holds a text, and  *)
(* neither has the apex.                                                   *)
NamesApart ==
  /\ Apex \notin Version
  /\ \A env \in Env, n \in InZone :
       n \in ToSet(env.ns_names) \cup {env.soa_name} => n \notin Version /\ n # Dmarc

(* The list of name servers that the server reads holds none of them twice. *)
NsAreASet == \A env \in Env : NsDistinct(from_env(env))

LEMMA EnvironmentsStart ==
  ASSUME NEW env \in Env
  PROVE  Started(from_env(env)) /\ (NamesApart => Apart(from_env(env)))
<1>1. /\ env \in Environment
      /\ env.ns_names \in Seq(Name \cup {Blank}) /\ env.soa_name \in Name
  BY ResponderAssumption DEF Environment
<1>2. PICK names : names = parse_ns_names(env.ns_names, env.soa_name)
  OBVIOUS
<1>3. /\ names \in Seq(Name) /\ names # <<>>
      /\ ToSet(names) \subseteq ToSet(env.ns_names) \cup {env.soa_name}
  BY <1>1, <1>2, NamesParsed
<1>4. PICK p : p = from_env(env)
  OBVIOUS
<1>5. p = [env EXCEPT !.ns_names = names]
  BY <1>2, <1>4 DEF from_env
<1>6. names \in Seq(Name \cup {Blank})
  BY <1>3
<1>7. p \in Environment
  BY <1>1, <1>5, <1>6 DEF Environment
<1>8. p.ns_names = names /\ p.soa_name = env.soa_name
  BY <1>1, <1>5 DEF Environment
<1>9. Started(p)
  BY <1>3, <1>7, <1>8 DEF Started
<1>10. NamesApart => Apart(p)
  <2>1. \A n : ConfiguredNs(p, n) => n \in ToSet(env.ns_names) \cup {env.soa_name}
    BY <1>3, <1>8 DEF ConfiguredNs
  <2>2. QED
    BY <2>1 DEF NamesApart, Apart
<1>11. QED
  BY <1>4, <1>9, <1>10

-----------------------------------------------------------------------------
(* The inductive invariant.  The last answer is what the code computes for *)
(* the last question, whole over TCP and perhaps cut short over UDP, and   *)
(* every answer a resolver holds tells only what the zone holds.           *)
Answered ==
  reply = None \/ \E q \in Query :
    /\ query = q
    /\ \/ via = "udp" /\ reply = maybe_truncate_udp(handle_query_internal(q), q)
       \/ via = "tcp" /\ reply = handle_query_internal(q)

Told == \A m \in Replies : Faithful(params, m) /\ Typed(m)

RInv ==
  /\ Started(params)
  /\ NamesApart => Apart(params)
  /\ NsAreASet => NsDistinct(params)
  /\ query \in Query \cup {None}
  /\ via \in {"udp", "tcp"}
  /\ asks \in 0..MaxAsks
  /\ Answered
  /\ Told

LEMMA RInvInit == Init => RInv
<1> SUFFICES ASSUME Init PROVE RInv
  OBVIOUS
<1>1. PICK env \in Env : params = from_env(env)
  BY DEF Init
<1>2. /\ Started(params)
      /\ NamesApart => Apart(params)
      /\ NsAreASet => NsDistinct(params)
  BY <1>1, EnvironmentsStart DEF NsAreASet
<1>3. Replies = {}
  BY DEF Init, Replies
<1>4. /\ query \in Query \cup {None} /\ via \in {"udp", "tcp"}
      /\ asks \in 0..MaxAsks /\ Answered
  BY ResponderAssumption DEF Init, Answered
<1>5. QED
  BY <1>2, <1>3, <1>4 DEF RInv, Told

(* An answer is sent as it is, or over UDP perhaps truncated. *)
LEMMA AnswerTold ==
  ASSUME Started(params), NEW q \in Query, NEW m, m = handle_query_internal(q),
         NEW r, r = m \/ r = maybe_truncate_udp(m, q)
  PROVE  Faithful(params, r) /\ Typed(r)
<1>1. Faithful(params, m) /\ Whole(m)
  BY AnswersHonest, AnswersWhole DEF Honest
<1>2. CASE r = m
  BY <1>1, <1>2, WholeTyped
<1>3. CASE r = maybe_truncate_udp(m, q)
  <2>1. Sent(m, r, q)
    BY <1>1, <1>3, TruncatedIs DEF Whole
  <2>2. QED
    BY <1>1, <2>1, SentFaithful, SentTyped
<1>4. QED
  BY <1>2, <1>3

(* Started and Apart speak of params alone, so what holds of it stays. *)
LEMMA ToldKept ==
  ASSUME RInv, params' = params, before' \in {before, reply},
         reply' = None \/ (Faithful(params, reply') /\ Typed(reply'))
  PROVE  Told'
<1>1. PICK p : p = params /\ p = params'
  OBVIOUS
<1>2. ASSUME NEW m \in Replies' PROVE Faithful(p, m) /\ Typed(m)
  <2>1. m # None /\ m \in {before, reply, reply'}
    BY DEF Replies
  <2>2. CASE m \in {before, reply}
    <3>1. m \in Replies
      BY <2>1, <2>2 DEF Replies
    <3>2. QED
      BY <1>1, <3>1 DEF RInv, Told
  <2>3. CASE m = reply'
    BY <1>1, <2>1, <2>3
  <2>4. QED
    BY <2>1, <2>2, <2>3
<1>3. QED
  BY <1>1, <1>2 DEF Told

LEMMA AskKeeps ==
  ASSUME RInv, NEW q \in Query, Ask(q)
  PROVE  RInv'
<1>1. params' = params
  BY DEF Ask
<1>2. PICK m : m = handle_query_internal(q)
  OBVIOUS
<1>3. reply' = maybe_truncate_udp(m, q) /\ query' = q /\ via' = "udp" /\ before' = reply
  BY <1>2 DEF Ask
<1>4. Faithful(params, reply') /\ Typed(reply')
  BY <1>2, <1>3, AnswerTold DEF RInv
<1>5. Told'
  BY <1>1, <1>3, <1>4, ToldKept
<1>6. Answered'
  <2>1. handle_query_internal(q)' = m
    BY <1>1, <1>2, SameAnswer
  <2>2. QED
    BY <1>3, <2>1 DEF Answered
<1>7. asks' \in 0..MaxAsks
  BY ResponderAssumption DEF Ask, RInv
<1>8. /\ Started(params)'
      /\ NamesApart => Apart(params)'
      /\ NsAreASet => NsDistinct(params)'
  BY <1>1 DEF RInv
<1>9. query' \in Query \cup {None} /\ via' \in {"udp", "tcp"}
  BY <1>3
<1>10. QED
  BY <1>5, <1>6, <1>7, <1>8, <1>9 DEF RInv

LEMMA RetryKeeps ==
  ASSUME RInv, Retry
  PROVE  RInv'
<1>1. params' = params /\ query' = query /\ before' = before /\ asks' = asks /\ via' = "tcp"
  BY DEF Retry
<1>2. PICK q \in Query : query = q
  BY DEF Retry, RInv, Answered
<1>3. PICK m : m = handle_query_internal(q)
  OBVIOUS
<1>4. reply' = m
  BY <1>2, <1>3 DEF Retry
<1>5. Faithful(params, reply') /\ Typed(reply')
  BY <1>3, <1>4, AnswerTold DEF RInv
<1>6. Told'
  BY <1>1, <1>5, ToldKept
<1>7. Answered'
  <2>1. handle_query_internal(q)' = m
    BY <1>1, <1>3, SameAnswer
  <2>2. QED
    BY <1>1, <1>2, <1>4, <2>1 DEF Answered
<1>8. /\ Started(params)'
      /\ NamesApart => Apart(params)'
      /\ NsAreASet => NsDistinct(params)'
  BY <1>1 DEF RInv
<1>9. query' \in Query \cup {None} /\ via' \in {"udp", "tcp"} /\ asks' \in 0..MaxAsks
  BY <1>1 DEF RInv
<1>10. QED
  BY <1>6, <1>7, <1>8, <1>9 DEF RInv

LEMMA RInvNext == RInv /\ [Next]_vars => RInv'
<1> SUFFICES ASSUME RInv, [Next]_vars PROVE RInv'
  OBVIOUS
<1>1. CASE Retry
  BY <1>1, RetryKeeps
<1>2. ASSUME NEW q \in Query, Ask(q) PROVE RInv'
  BY <1>2, AskKeeps
<1>3. CASE UNCHANGED vars
  <2>1. /\ params' = params /\ query' = query /\ reply' = reply
        /\ via' = via /\ before' = before /\ asks' = asks
    BY <1>3 DEF vars
  <2>2. \A q : handle_query_internal(q)' = handle_query_internal(q)
    BY <2>1, SameAnswer
  <2>3. Answered'
    BY <2>1, <2>2 DEF RInv, Answered
  <2>4. reply' = None \/ (Faithful(params, reply') /\ Typed(reply'))
    BY <2>1 DEF RInv, Told, Replies
  <2>5. Told'
    BY <2>1, <2>4, ToldKept
  <2>6. QED
    BY <2>1, <2>3, <2>5 DEF RInv
<1>4. QED
  BY <1>1, <1>2, <1>3 DEF Next

LEMMA SpecRInv == Spec => []RInv
BY RInvInit, RInvNext, PTL DEF Spec

-----------------------------------------------------------------------------
(* Every answer tells its record sets exactly as the configuration has   *)
(* them and, if names are apart, denies none of them (query.rs,            *)
(* response.rs).                                                           *)
THEOREM AnswersAreFaithful == Spec => []Told
<1>1. RInv => Told
  BY DEF RInv
<1>2. QED
  BY <1>1, SpecRInv, PTL

(* Every reply is one the server can send: only a NOERROR answer claims    *)
(* authority or carries records (error_response, query.rs).                *)
THEOREM SpecTypeOK == Spec => []TypeOK
<1>1. RInv => TypeOK
  BY DEF RInv, Started, Told, Typed, TypeOK
<1>2. QED
  BY <1>1, SpecRInv, PTL

(* The resolver that is answered over UDP has the whole answer, the same   *)
(* one TCP would bring, or an empty one marked TC (maybe_truncate_udp).    *)
THEOREM SpecCompleteOrTruncated == Spec => []CompleteOrTruncated
<1>1. ASSUME RInv, reply # None PROVE CompleteOrTruncated
  <2>1. PICK q \in Query :
          /\ query = q
          /\ \/ via = "udp" /\ reply = maybe_truncate_udp(handle_query_internal(q), q)
             \/ via = "tcp" /\ reply = handle_query_internal(q)
    BY <1>1 DEF RInv, Answered
  <2>2. PICK m : m = handle_query_internal(q)
    OBVIOUS
  <2>3. IsMessage(m)
    BY <2>2, AnswersWhole DEF Whole
  <2>4. m.tc = FALSE
    BY <2>3 DEF IsMessage
  <2>5. m = handle_query_internal(query)
    BY <2>1, <2>2
  <2>6. CASE via = "tcp"
    <3>1. reply = m /\ via # "udp"
      BY <2>1, <2>2, <2>6
    <3>2. QED
      BY <2>4, <2>5, <2>6, <3>1 DEF CompleteOrTruncated
  <2>7. CASE via = "udp"
    <3>1. PICK r : r = reply
      OBVIOUS
    <3>2. r = maybe_truncate_udp(m, q)
      BY <2>1, <2>2, <2>7, <3>1
    <3>3. Sent(m, r, q)
      BY <2>3, <3>2, TruncatedIs
    <3>4. Fitting(r, q) \/ r = Bare(r, None)
      BY <3>3 DEF Sent, Emptied
    <3>5. r.tc => Learned(r) = {}
      <4>1. r.answers = <<>> /\ r.authority = <<>> /\ r.additional = <<>> => Learned(r) = {}
        BY LearnedIs, NothingLearned
      <4>2. QED
        BY <2>4, <3>3, <4>1 DEF Sent, Emptied
    <3>6. ~r.tc => r = m
      BY <3>3 DEF Sent, Emptied
    <3>7. QED
      BY <2>1, <2>5, <2>7, <3>1, <3>4, <3>5, <3>6 DEF CompleteOrTruncated, Fitting
  <2>8. QED
    BY <1>1, <2>6, <2>7 DEF RInv
<1>2. RInv => CompleteOrTruncated
  BY <1>1 DEF CompleteOrTruncated
<1>3. QED
  BY <1>2, SpecRInv, PTL

(* Whichever two answers, sections and transports a resolver learns a      *)
(* record set from, it learns the same one: glue, negative answers and the *)
(* answers themselves are built from one zone.  For every configuration.   *)
THEOREM SpecAnswersAgree == Spec => []AnswersAgree
<1>1. ASSUME RInv, NEW m \in Replies, NEW n \in Replies,
             NEW x \in Learned(m), NEW y \in Learned(n),
             x.owner = y.owner, x.typ = y.typ
      PROVE  x = y
  <2>1. x = Truth(params, x.owner, x.typ) /\ y = Truth(params, y.owner, y.typ)
    BY <1>1 DEF RInv, Told, Faithful, Right
  <2>2. QED
    BY <1>1, <2>1
<1>2. RInv => AnswersAgree
  BY <1>1 DEF AnswersAgree
<1>3. QED
  BY <1>2, SpecRInv, PTL

(* No answer denies what another one serves, if name servers and texts     *)
(* have names of their own.                                                *)
THEOREM SpecNoContradiction ==
  ASSUME NamesApart
  PROVE  Spec => []NoContradiction
<1>1. ASSUME RInv, NEW m \in Replies, NEW n \in Replies, Denies(m), m.qtype # TYPE_NSEC,
             NEW x \in Learned(n)
      PROVE  ~(x.owner = m.name /\ x.typ = m.qtype)
  <2>1. m.qtype \notin Types(params, m.name)
    BY <1>1 DEF RInv, Told, Faithful, Denied
  <2>2. x.typ \in Types(params, x.owner) \cup {TYPE_NSEC}
    BY <1>1 DEF RInv, Told, Faithful, Listed
  <2>3. QED
    BY <1>1, <2>1, <2>2
<1>2. RInv => NoContradiction
  BY <1>1 DEF NoContradiction
<1>3. QED
  BY <1>2, SpecRInv, PTL

(* What an NSEC omits is not served and what it lists is not denied, if    *)
(* name servers and texts have names of their own (nsec_types, nodata).    *)
THEOREM SpecProofsAreTrue ==
  ASSUME NamesApart
  PROVE  Spec => []ProofsAreTrue
<1>1. ASSUME RInv, NEW m \in Replies, NEW n \in Replies, NEW x \in Learned(m),
             x.typ = TYPE_NSEC, NEW types \in x.datas
      PROVE  /\ \A y \in Learned(n) : y.owner = x.owner => y.typ \in types
             /\ Denies(n) /\ n.name = x.owner => n.qtype \notin types \ {TYPE_NSEC, TYPE_RRSIG}
  <2>1. PICK t : t = Types(params, x.owner)
    OBVIOUS
  <2>2. x = Truth(params, x.owner, x.typ)
    BY <1>1 DEF RInv, Told, Faithful, Right
  <2>3. x.datas = Datas(params, x.owner, TYPE_NSEC)
    BY <1>1, <2>2 DEF Truth
  <2>4. Datas(params, x.owner, TYPE_NSEC) = {nsec_types(t)}
    BY <2>1 DEF Datas, TYPE_NSEC, TYPE_SOA, TYPE_NS, TYPE_A, TYPE_AAAA, TYPE_TXT
  <2>5. types = t \cup {TYPE_NSEC, TYPE_RRSIG}
    BY <2>3, <2>4 DEF nsec_types
  <2>6. \A y \in Learned(n) : y.typ \in Types(params, y.owner) \cup {TYPE_NSEC}
    BY <1>1 DEF RInv, Told, Faithful, Listed
  <2>7. Denies(n) => n.qtype \notin Types(params, n.name)
    BY <1>1 DEF RInv, Told, Faithful, Denied
  <2>8. QED
    BY <2>1, <2>5, <2>6, <2>7
<1>2. RInv => ProofsAreTrue
  BY <1>1 DEF ProofsAreTrue
<1>3. QED
  BY <1>2, SpecRInv, PTL

(* To a query with DO a signing server signs every record set it sends, in *)
(* canonical order and as a whole, if no name server is configured twice   *)
(* (emit_section, response.rs; sign_rrsig, dnssec.rs).                     *)
THEOREM SpecSignaturesValidate ==
  ASSUME NsAreASet
  PROVE  Spec => []SignaturesValidate
<1>1. ASSUME RInv, reply # None, params.dnssec, query.do PROVE Sealed(reply)
  <2>1. PICK q \in Query :
          /\ query = q
          /\ \/ via = "udp" /\ reply = maybe_truncate_udp(handle_query_internal(q), q)
             \/ via = "tcp" /\ reply = handle_query_internal(q)
    BY <1>1 DEF RInv, Answered
  <2>2. PICK m : m = handle_query_internal(q)
    OBVIOUS
  <2>3. Honest(q, m) /\ IsMessage(m)
    BY <1>1, <2>2, AnswersHonest, AnswersWhole DEF RInv, Whole
  <2>4. sign(q) /\ NsDistinct(params)
    BY <1>1, <2>1 DEF RInv, sign
  <2>5. Sealed(m)
    BY <2>3, <2>4 DEF Honest
  <2>6. CASE reply = m
    BY <2>5, <2>6
  <2>7. CASE reply = maybe_truncate_udp(m, q)
    <3>1. Sent(m, reply, q)
      BY <2>3, <2>7, TruncatedIs
    <3>2. QED
      BY <2>5, <3>1, EmptySealed DEF Sent, Emptied
  <2>8. QED
    BY <2>1, <2>2, <2>6, <2>7
<1>2. RInv => SignaturesValidate
  BY <1>1 DEF SignaturesValidate, Sealed
<1>3. QED
  BY <1>2, SpecRInv, PTL
=============================================================================
