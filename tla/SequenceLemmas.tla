-------------------------- MODULE SequenceLemmas --------------------------
(***************************************************************************)
(* What FlattenSeq joins and FoldLeft folds, and that a sequence of        *)
(* naturals can be sorted.  These are defined by recursion over data; the  *)
(* lemmas are proved by induction in the form of SetInduction: a set of    *)
(* naturals with zero and all successors is the set of naturals.           *)
(***************************************************************************)
EXTENDS Naturals, SequencesExt, SequenceTheorems, WellFoundedInduction, TLAPS

LEMMA SetInduction ==
  ASSUME NEW T \in SUBSET Nat, 0 \in T, \A n \in T : n + 1 \in T
  PROVE  T = Nat
<1>1. SUFFICES ASSUME Nat \ T # {} PROVE FALSE
  OBVIOUS
<1>2. PICK R : R = OpToRel(<, Nat)
  OBVIOUS
<1>3. \A x, y \in Nat : x < y => <<x, y>> \in R
  BY <1>2 DEF OpToRel
<1>4. PICK m \in Nat \ T : \A y \in Nat \ T : ~(<<y, m>> \in R)
  <2>1. Nat \ T \subseteq Nat
    OBVIOUS
  <2>2. IsWellFoundedOn(R, Nat)
    BY <1>2, NatLessThanWellFounded
  <2>3. QED
    BY <1>1, <2>1, <2>2, WFMin
<1>5. m # 0 /\ m - 1 \in Nat /\ m - 1 < m
  BY <1>4
<1>6. m - 1 \in T
  BY <1>3, <1>4, <1>5
<1>7. m - 1 + 1 \in T /\ m - 1 + 1 = m
  BY <1>5, <1>6
<1>8. QED
  BY <1>4, <1>7
(* f is how FlattenSeq joins the sequences of s, one after another. *)
Joined(f, s, i) == IF i = 1 THEN s[i] ELSE f[i - 1] \o s[i]

Flat(f, s) == f = [i \in 1..Len(s) |-> Joined(f, s, i)]

LEMMA FlattenIs ==
  ASSUME NEW s, Len(s) # 0
  PROVE FlattenSeq(s) = (CHOOSE f : Flat(f, s))[Len(s)]
BY DEF FlattenSeq, Flat, Joined

LEMMA FlatIs ==
  ASSUME NEW f, NEW s, Flat(f, s)
  PROVE  \A i \in 1..Len(s) : f[i] = Joined(f, s, i)
BY DEF Flat

LEMMA FlatExists ==
  ASSUME NEW S, NEW s \in Seq(Seq(S))
  PROVE  \E f \in [1..Len(s) -> Seq(S)] : Flat(f, s)
<1> DEFINE Joins(f, n) == \A i \in 1..n : f[i] = Joined(f, s, i)
           Some(n) == n <= Len(s) => \E f \in [1..n -> Seq(S)] : Joins(f, n)
           T == {n \in Nat : Some(n)}
<1>1. Len(s) \in Nat /\ \A i \in 1..Len(s) : s[i] \in Seq(S)
  OBVIOUS
<1>2. Some(0)
  <2>1. [i \in 1..0 |-> <<>>] \in [1..0 -> Seq(S)] /\ Joins([i \in 1..0 |-> <<>>], 0)
    OBVIOUS
  <2>2. QED
    BY <2>1
<1>3. ASSUME NEW n \in Nat, Some(n), n + 1 <= Len(s)
      PROVE  \E g \in [1..n + 1 -> Seq(S)] : Joins(g, n + 1)
  <2>1. PICK f \in [1..n -> Seq(S)] : Joins(f, n)
    BY <1>1, <1>3
  <2>2. PICK last \in Seq(S) : last = IF n = 0 THEN s[1] ELSE f[n] \o s[n + 1]
    <3>1. n + 1 \in 1..Len(s) /\ 1 \in 1..Len(s)
      BY <1>1, <1>3
    <3>2. n # 0 => n \in 1..n
      OBVIOUS
    <3>3. s[1] \in Seq(S) /\ s[n + 1] \in Seq(S)
      BY <1>1, <3>1
    <3>4. n # 0 => f[n] \in Seq(S)
      BY <3>2
    <3>5. n # 0 => f[n] \o s[n + 1] \in Seq(S)
      BY <3>3, <3>4
    <3>6. (IF n = 0 THEN s[1] ELSE f[n] \o s[n + 1]) \in Seq(S)
      BY <3>3, <3>5
    <3>7. QED
      BY <3>6
  <2>3. PICK g : g = [i \in 1..n + 1 |-> IF i <= n THEN f[i] ELSE last]
    OBVIOUS
  <2>4. /\ \A i \in 1..n : g[i] = f[i]
        /\ g[n + 1] = last
        /\ g \in [1..n + 1 -> Seq(S)]
    BY <2>3
  <2>5. ASSUME NEW i \in 1..n + 1 PROVE g[i] = Joined(g, s, i)
    <3>1. CASE i = n + 1
      <4>1. CASE n = 0
        BY <2>2, <2>4, <3>1, <4>1 DEF Joined
      <4>2. CASE n # 0
        <5>1. n \in 1..n /\ i - 1 = n /\ i # 1
          BY <3>1, <4>2
        <5>2. Joined(g, s, i) = f[n] \o s[n + 1]
          BY <2>4, <3>1, <5>1 DEF Joined
        <5>3. QED
          BY <2>2, <2>4, <3>1, <4>2, <5>2
      <4>3. QED
        BY <4>1, <4>2
    <3>2. CASE i \in 1..n
      <4>1. i # 1 => i - 1 \in 1..n
        BY <3>2
      <4>2. Joined(g, s, i) = Joined(f, s, i)
        BY <2>4, <4>1 DEF Joined
      <4>3. QED
        BY <2>1, <2>4, <3>2, <4>2
    <3>3. QED
      BY <3>1, <3>2
  <2>6. QED
    BY <2>4, <2>5
<1>4. ASSUME NEW n \in Nat, Some(n) PROVE Some(n + 1)
  BY <1>3, <1>4
<1> HIDE DEF Some
<1>5. T \in SUBSET Nat /\ 0 \in T /\ \A n \in T : n + 1 \in T
  BY <1>2, <1>4
<1> HIDE DEF T
<1>6. T = Nat
  BY <1>5, SetInduction
<1>7. Some(Len(s))
  BY <1>1, <1>6 DEF T
<1>8. PICK f \in [1..Len(s) -> Seq(S)] : Joins(f, Len(s))
  BY <1>1, <1>7 DEF Some
<1>9. Flat(f, s)
  BY <1>8 DEF Flat
<1>10. QED
  BY <1>9

Agree(s, t, n) == \A i \in 1..n : s[i] = t[i]

(* As far as two sequences agree, so do their joins. *)
LEMMA FlatAgrees ==
  ASSUME NEW s, NEW t, NEW f, NEW g, Flat(f, s), Flat(g, t),
         Len(s) \in Nat, Len(t) \in Nat, Len(s) <= Len(t), Agree(s, t, Len(s))
  PROVE  Agree(f, g, Len(s))
<1> DEFINE T == {i \in Nat : i \in 1..Len(s) => f[i] = g[i]}
<1>1. /\ \A i \in 1..Len(s) : f[i] = Joined(f, s, i)
      /\ \A i \in 1..Len(s) : g[i] = Joined(g, t, i)
  <2>1. \A i \in 1..Len(s) : i \in 1..Len(t)
    OBVIOUS
  <2>2. QED
    BY <2>1, FlatIs
<1>2. 0 \in T
  OBVIOUS
<1>3. ASSUME NEW n \in T PROVE n + 1 \in T
  <2>1. SUFFICES ASSUME n + 1 \in 1..Len(s) PROVE f[n + 1] = g[n + 1]
    OBVIOUS
  <2>2. CASE n = 0
    BY <1>1, <2>1, <2>2 DEF Joined, Agree
  <2>3. CASE n # 0
    <3>1. n \in 1..Len(s) /\ n + 1 - 1 = n /\ n + 1 # 1
      BY <2>1, <2>3
    <3>2. f[n] = g[n]
      BY <3>1
    <3>3. PICK m \in 1..Len(s) : m = n + 1
      BY <2>1
    <3>4. f[m - 1] = g[m - 1]
      BY <3>1, <3>2, <3>3
    <3>5. Joined(f, s, m) = Joined(g, t, m)
      BY <3>4 DEF Joined, Agree
    <3>6. QED
      BY <1>1, <3>3, <3>5
  <2>4. QED
    BY <2>2, <2>3
<1>4. T \in SUBSET Nat
  OBVIOUS
<1> HIDE DEF T
<1>5. T = Nat
  BY <1>2, <1>3, <1>4, SetInduction
<1>6. QED
  BY <1>5 DEF T, Agree

LEMMA Appended ==
  ASSUME NEW E, NEW s \in Seq(E), NEW x \in E
  PROVE  Append(s, x) \in Seq(E)
OBVIOUS

LEMMA AppendedIsNonempty ==
  ASSUME NEW E, NEW s \in Seq(E), NEW x \in E
  PROVE  Append(s, x) # <<>>
<1>1. PICK n \in Nat : n = Len(s)
  <2>1. Len(s) \in Nat
    OBVIOUS
  <2>2. QED
    BY <2>1
<1>2. PICK t \in Seq(E) : t = Append(s, x)
  BY Appended
<1>3. Len(t) = n + 1
  BY <1>1, <1>2
<1>4. Len(t) # 0
  BY <1>3
<1>5. QED
  BY <1>2, <1>4

LEMMA FlattenAppend ==
  ASSUME NEW S, NEW s \in Seq(Seq(S)), NEW x \in Seq(S)
  PROVE  /\ FlattenSeq(s) \in Seq(S)
         /\ FlattenSeq(Append(s, x)) = FlattenSeq(s) \o x
<1>1. PICK t \in Seq(Seq(S)) : t = Append(s, x)
  BY Appended
<1>2. /\ Len(s) \in Nat /\ Len(t) \in Nat /\ Len(t) = Len(s) + 1
      /\ t[Len(s) + 1] = x
      /\ \A i \in 1..Len(s) : s[i] = t[i]
  BY <1>1
<1>3. PICK g : Flat(g, t) /\ FlattenSeq(t) = g[Len(t)]
  <2>1. \E f : Flat(f, t)
    BY FlatExists
  <2>2. Len(t) # 0
    BY <1>2
  <2>3. QED
    BY <2>1, <2>2, FlattenIs
<1>4. g[Len(s) + 1] = IF Len(s) + 1 = 1 THEN x ELSE g[Len(s)] \o x
  <2>1. Len(s) + 1 \in 1..Len(t) /\ Len(s) + 1 - 1 = Len(s)
    BY <1>2
  <2>2. g[Len(s) + 1] = Joined(g, t, Len(s) + 1)
    BY <1>3, <2>1, FlatIs
  <2>3. QED
    BY <1>2, <2>1, <2>2 DEF Joined
<1>5. CASE Len(s) = 0
  <2>1. s = <<>>
    BY <1>5
  <2>2. FlattenSeq(s) = s
    BY <1>5 DEF FlattenSeq
  <2>3. FlattenSeq(t) = x
    BY <1>2, <1>3, <1>4, <1>5
  <2>4. <<>> \in Seq(S) /\ <<>> \o x = x
    OBVIOUS
  <2>5. QED
    BY <1>1, <2>1, <2>2, <2>3, <2>4
<1>6. CASE Len(s) # 0
  <2>1. PICK f \in [1..Len(s) -> Seq(S)] : Flat(f, s)
    BY FlatExists
  <2>2. PICK h : Flat(h, s) /\ FlattenSeq(s) = h[Len(s)]
    BY <1>6, <2>1, FlattenIs
  <2>3. Len(s) \in 1..Len(s) /\ Len(s) <= Len(s) /\ Len(s) <= Len(t) /\ Len(s) + 1 # 1
    BY <1>2, <1>6
  <2>4. h[Len(s)] = f[Len(s)]
    <3>1. Agree(s, s, Len(s))
      BY DEF Agree
    <3>2. Agree(h, f, Len(s))
      BY <1>2, <2>1, <2>2, <2>3, <3>1, FlatAgrees
    <3>3. QED
      BY <2>3, <3>2 DEF Agree
  <2>5. h[Len(s)] = g[Len(s)]
    <3>1. Agree(s, t, Len(s))
      BY <1>2 DEF Agree
    <3>2. Agree(h, g, Len(s))
      BY <1>2, <1>3, <2>2, <2>3, <3>1, FlatAgrees
    <3>3. QED
      BY <2>3, <3>2 DEF Agree
  <2>6. FlattenSeq(t) = FlattenSeq(s) \o x
    BY <1>2, <1>3, <1>4, <2>2, <2>3, <2>5
  <2>7. FlattenSeq(s) \in Seq(S)
    BY <2>2, <2>3, <2>4
  <2>8. QED
    BY <1>1, <2>6, <2>7
<1>7. QED
  BY <1>5, <1>6

LEMMA FlattenEmpty == FlattenSeq(<<>>) = <<>>
BY DEF FlattenSeq

(* A set of sequences with the empty one and all extensions is all of them. *)
LEMMA SeqInduction ==
  ASSUME NEW E, NEW T \in SUBSET Seq(E), <<>> \in T,
         \A s \in T : \A x \in E : Append(s, x) \in T
  PROVE  T = Seq(E)
<1> DEFINE N == {n \in Nat : \A s \in Seq(E) : Len(s) = n => s \in T}
<1>1. 0 \in N
  <2>1. \A s \in Seq(E) : Len(s) = 0 => s = <<>>
    OBVIOUS
  <2>2. QED
    BY <2>1
<1>2. ASSUME NEW n \in N PROVE n + 1 \in N
  <2>1. SUFFICES ASSUME NEW s \in Seq(E), Len(s) = n + 1 PROVE s \in T
    OBVIOUS
  <2>2. n \in Nat /\ s # <<>>
    BY <2>1
  <2>3. PICK f \in Seq(E) : f = [k \in 1..n |-> s[k]]
    <3>1. \A k \in 1..n : s[k] \in E
      BY <2>1, <2>2
    <3>2. [k \in 1..n |-> s[k]] \in Seq(E)
      BY <2>2, <3>1
    <3>3. QED
      BY <3>2
  <2>4. PICK x \in E : x = s[n + 1]
    BY <2>1, <2>2
  <2>5. Append(f, x) = s
    <3>1. PICK t \in Seq(E) : t = Append(f, x)
      BY Appended
    <3>2. Len(f) = n /\ \A k \in 1..n : f[k] = s[k]
      BY <2>2, <2>3
    <3>3. /\ Len(t) = Len(f) + 1 /\ t[Len(f) + 1] = x
          /\ \A k \in 1..Len(f) : t[k] = f[k]
      BY <3>1
    <3>a. Len(t) = n + 1 /\ t[n + 1] = x /\ \A k \in 1..n : t[k] = f[k]
      BY <3>2, <3>3
    <3>4. ASSUME NEW k \in 1..n + 1 PROVE t[k] = s[k]
      <4>1. CASE k = n + 1
        BY <2>4, <3>a, <4>1
      <4>2. CASE k \in 1..n
        BY <3>2, <3>a, <4>2
      <4>3. QED
        BY <2>2, <4>1, <4>2
    <3>5. Len(t) = Len(s) /\ \A k \in 1..Len(s) : t[k] = s[k]
      BY <2>1, <3>a, <3>4
    <3>6. t = s
      BY <3>1, <3>5, SeqEqual
    <3>7. QED
      BY <3>1, <3>6
  <2>6. Len(f) = n
    BY <2>1, <2>2, <2>3
  <2>7. f \in T
    BY <2>5, <2>6
  <2>8. QED
    BY <2>5, <2>7
<1>3. N \in SUBSET Nat
  OBVIOUS
<1> HIDE DEF N
<1>4. N = Nat
  BY <1>1, <1>2, <1>3, SetInduction
<1>5. \A s \in Seq(E) : s \in T
  <2>1. SUFFICES ASSUME NEW s \in Seq(E) PROVE s \in T
    OBVIOUS
  <2>2. Len(s) \in N
    BY <1>4
  <2>3. QED
    BY <2>2 DEF N
<1>6. QED
  BY <1>5

Items(s) == UNION {ToSet(x) : x \in ToSet(s)}

LEMMA ItemsAppend ==
  ASSUME NEW E, NEW s \in Seq(E), NEW x \in E
  PROVE  ToSet(Append(s, x)) = ToSet(s) \cup {x}
<1>1. PICK t \in Seq(E) : t = Append(s, x)
  BY Appended
<1>2. /\ Len(s) \in Nat
      /\ DOMAIN t = 1..Len(s) + 1 /\ DOMAIN s = 1..Len(s)
      /\ t[Len(s) + 1] = x
      /\ \A k \in 1..Len(s) : t[k] = s[k]
  BY <1>1
<1>3. \A k \in DOMAIN t : t[k] \in ToSet(s) \cup {x}
  BY <1>2 DEF ToSet
<1>4. \A k \in DOMAIN s : s[k] \in ToSet(t)
  <2>1. \A k \in DOMAIN s : k \in DOMAIN t /\ s[k] = t[k]
    BY <1>2
  <2>2. QED
    BY <2>1 DEF ToSet
<1>5. x \in ToSet(t)
  <2>1. Len(s) + 1 \in DOMAIN t
    BY <1>2
  <2>2. QED
    BY <1>2, <2>1 DEF ToSet
<1>6. ToSet(t) = ToSet(s) \cup {x}
  BY <1>3, <1>4, <1>5 DEF ToSet
<1>7. QED
  BY <1>1, <1>6

LEMMA ItemsConcat ==
  ASSUME NEW E, NEW s \in Seq(E), NEW t \in Seq(E)
  PROVE  s \o t \in Seq(E) /\ ToSet(s \o t) = ToSet(s) \cup ToSet(t)
<1>1. PICK u : u = s \o t
  OBVIOUS
<1>2. /\ u \in Seq(E) /\ Len(u) = Len(s) + Len(t)
      /\ \A i \in 1..Len(u) : u[i] = IF i <= Len(s) THEN s[i] ELSE t[i - Len(s)]
  BY <1>1
<1>3. ASSUME NEW i \in DOMAIN u PROVE u[i] \in ToSet(s) \cup ToSet(t)
  <2>1. /\ Len(s) \in Nat /\ Len(t) \in Nat
        /\ DOMAIN s = 1..Len(s) /\ DOMAIN t = 1..Len(t) /\ DOMAIN u = 1..Len(u)
    BY <1>2
  <2>2. CASE i <= Len(s)
    <3>1. i \in DOMAIN s /\ u[i] = s[i]
      BY <1>2, <2>1, <2>2
    <3>2. QED
      BY <3>1 DEF ToSet
  <2>3. CASE ~(i <= Len(s))
    <3>1. PICK j : j = i - Len(s)
      OBVIOUS
    <3>2. j \in DOMAIN t /\ u[i] = t[j]
      BY <1>2, <2>1, <2>3, <3>1
    <3>3. QED
      BY <3>2 DEF ToSet
  <2>4. QED
    BY <2>2, <2>3
<1>4. ASSUME NEW i \in DOMAIN s PROVE s[i] \in ToSet(u)
  <2>1. i \in DOMAIN u /\ u[i] = s[i]
    BY <1>2
  <2>2. QED
    BY <2>1 DEF ToSet
<1>5. ASSUME NEW i \in DOMAIN t PROVE t[i] \in ToSet(u)
  <2>1. Len(s) + i \in DOMAIN u /\ u[Len(s) + i] = t[i]
    BY <1>2
  <2>2. QED
    BY <2>1 DEF ToSet
<1>6. ToSet(u) = ToSet(s) \cup ToSet(t)
  BY <1>3, <1>4, <1>5 DEF ToSet
<1>7. QED
  BY <1>1, <1>2, <1>6

(* Joining sequences neither loses nor invents an item. *)
LEMMA FlattenKeeps ==
  ASSUME NEW S
  PROVE  \A s \in Seq(Seq(S)) : FlattenSeq(s) \in Seq(S) /\ ToSet(FlattenSeq(s)) = Items(s)
<1> DEFINE Kept(s) == FlattenSeq(s) \in Seq(S) /\ ToSet(FlattenSeq(s)) = Items(s)
           T == {s \in Seq(Seq(S)) : Kept(s)}
<1>1. <<>> \in T
  <2>1. <<>> \in Seq(S) /\ <<>> \in Seq(Seq(S)) /\ ToSet(<<>>) = {}
    BY DEF ToSet
  <2>2. QED
    BY <2>1, FlattenEmpty DEF Items
<1>2. ASSUME NEW s \in T, NEW x \in Seq(S) PROVE Append(s, x) \in T
  <2>1. s \in Seq(Seq(S)) /\ Kept(s)
    OBVIOUS
  <2>2. Append(s, x) \in Seq(Seq(S)) /\ FlattenSeq(Append(s, x)) = FlattenSeq(s) \o x
    BY <2>1, FlattenAppend
  <2>3. ToSet(FlattenSeq(s) \o x) = ToSet(FlattenSeq(s)) \cup ToSet(x)
        /\ FlattenSeq(s) \o x \in Seq(S)
    BY <2>1, ItemsConcat
  <2>4. ToSet(Append(s, x)) = ToSet(s) \cup {x}
    BY <2>1, ItemsAppend
  <2>5. Items(Append(s, x)) = Items(s) \cup ToSet(x)
    BY <2>4 DEF Items
  <2>6. Kept(Append(s, x))
    BY <2>1, <2>2, <2>3, <2>5
  <2>7. QED
    BY <2>2, <2>6
<1>3. T \in SUBSET Seq(Seq(S))
  OBVIOUS
<1> HIDE DEF T
<1>4. T = Seq(Seq(S))
  BY <1>1, <1>2, <1>3, SeqInduction
<1>5. QED
  BY <1>4 DEF T

-----------------------------------------------------------------------------
(* The largest of some of the first naturals, from which a fold goes down. *)
LEMMA LargestExists ==
  \A n \in Nat : \A u \in SUBSET (1..n) : u # {} => \E m \in u : \A k \in u : m >= k
<1> DEFINE Bounded(n) ==
             \A u \in SUBSET (1..n) : u # {} => \E m \in u : \A k \in u : m >= k
           T == {n \in Nat : Bounded(n)}
<1>1. 0 \in T
  <2>1. \A u \in SUBSET (1..0) : u = {}
    OBVIOUS
  <2>2. QED
    BY <2>1
<1>2. ASSUME NEW n \in T PROVE n + 1 \in T
  <2>1. n \in Nat /\ Bounded(n)
    OBVIOUS
  <2>2. SUFFICES ASSUME NEW u \in SUBSET (1..n + 1), u # {}
                 PROVE  \E m \in u : \A k \in u : m >= k
    BY <2>1
  <2>3. CASE n + 1 \in u
    BY <2>1, <2>3
  <2>4. CASE n + 1 \notin u
    <3>1. u \in SUBSET (1..n)
      BY <2>1, <2>4
    <3>2. QED
      BY <2>1, <2>2, <3>1
  <2>5. QED
    BY <2>3, <2>4
<1>3. T \in SUBSET Nat
  OBVIOUS
<1> HIDE DEF T
<1>4. T = Nat
  BY <1>1, <1>2, <1>3, SetInduction
<1>5. QED
  BY <1>4 DEF T

LEMMA MaxIs ==
  ASSUME NEW n \in Nat, NEW u \in SUBSET (1..n), u # {}
  PROVE  Max(u) \in u /\ \A k \in u : Max(u) >= k
BY LargestExists DEF Max

LEMMA MaxOfFirst ==
  ASSUME NEW n \in Nat, NEW u \in SUBSET (1..n + 1), n + 1 \in u
  PROVE  Max(u) = n + 1 /\ u \ {n + 1} \in SUBSET (1..n)
<1>1. n + 1 \in Nat /\ u # {}
  OBVIOUS
<1>2. Max(u) \in u /\ Max(u) >= n + 1
  BY <1>1, MaxIs
<1>3. Max(u) \in 1..n + 1
  BY <1>2
<1>4. Max(u) = n + 1
  BY <1>2, <1>3
<1>5. u \ {n + 1} \in SUBSET (1..n)
  OBVIOUS
<1>6. QED
  BY <1>4, <1>5

LEMMA FrontLast ==
  ASSUME NEW E, NEW s \in Seq(E), s # <<>>
  PROVE  Front(s) \in Seq(E) /\ Last(s) \in E /\ Append(Front(s), Last(s)) = s
<1>1. PICK n \in Nat : Len(s) = n + 1
  <2>1. Len(s) \in Nat /\ Len(s) # 0
    OBVIOUS
  <2>2. Len(s) - 1 \in Nat /\ Len(s) = Len(s) - 1 + 1
    BY <2>1
  <2>3. QED
    BY <2>2
<1>2. Last(s) = s[n + 1] /\ Front(s) = SubSeq(s, 1, n)
  <2>1. Len(s) - 1 = n
    BY <1>1
  <2>2. QED
    BY <1>1, <2>1 DEF Last, Front
<1>3. n + 1 \in 1..Len(s) /\ s[n + 1] \in E
  BY <1>1
<1>4. PICK f \in Seq(E) : f = Front(s) /\ Len(f) = n /\ \A k \in 1..n : f[k] = s[k]
  <2>1. SubSeq(s, 1, n) = [k \in 1..n |-> s[k]]
    BY <1>1
  <2>2. \A k \in 1..n : s[k] \in E
    BY <1>1
  <2>3. PICK f : f = [k \in 1..n |-> s[k]]
    OBVIOUS
  <2>4. f \in Seq(E)
    BY <2>2, <2>3
  <2>5. Len(f) = n /\ \A k \in 1..n : f[k] = s[k]
    BY <2>3
  <2>6. QED
    BY <1>2, <2>1, <2>3, <2>4, <2>5
<1>5. PICK x \in E : x = s[n + 1]
  BY <1>3
<1>6. PICK t \in Seq(E) : t = Append(f, x)
  BY Appended
<1>7. Len(t) = Len(f) + 1 /\ t[Len(f) + 1] = x /\ \A k \in 1..Len(f) : t[k] = f[k]
  BY <1>6
<1>8. Len(t) = n + 1 /\ t[n + 1] = x /\ \A k \in 1..n : t[k] = s[k]
  BY <1>4, <1>7
<1>9. ASSUME NEW k \in 1..n + 1 PROVE t[k] = s[k]
  <2>1. CASE k = n + 1
    BY <1>5, <1>8, <2>1
  <2>2. CASE k \in 1..n
    BY <1>8, <2>2
  <2>3. QED
    BY <2>1, <2>2
<1>10. Len(t) = Len(s) /\ \A k \in 1..Len(s) : t[k] = s[k]
  BY <1>1, <1>8, <1>9
<1>11. t = s
  BY <1>6, <1>10, SeqEqual
<1>12. QED
  BY <1>2, <1>3, <1>4, <1>5, <1>6, <1>11

-----------------------------------------------------------------------------
(* The naturals of a sequence have a largest, and can be sorted. *)
LEMMA LargestValue ==
  \A n \in Nat : \A d \in [1..n + 1 -> Nat] :
    \E m \in 1..n + 1 : \A k \in 1..n + 1 : d[k] <= d[m]
<1> DEFINE Dominated(n) == \A d \in [1..n + 1 -> Nat] :
                           \E m \in 1..n + 1 : \A k \in 1..n + 1 : d[k] <= d[m]
           T == {n \in Nat : Dominated(n)}
<1>1. 0 \in T
  <2>1. SUFFICES ASSUME NEW d \in [1..0 + 1 -> Nat]
                 PROVE  \E m \in 1..0 + 1 : \A k \in 1..0 + 1 : d[k] <= d[m]
    OBVIOUS
  <2>2. 1 \in 1..0 + 1 /\ \A k \in 1..0 + 1 : k = 1
    OBVIOUS
  <2>3. d[1] \in Nat
    BY <2>2
  <2>4. QED
    BY <2>2, <2>3
<1>2. ASSUME NEW n \in T PROVE n + 1 \in T
  <2>1. n \in Nat /\ Dominated(n)
    OBVIOUS
  <2>2. SUFFICES ASSUME NEW d \in [1..n + 1 + 1 -> Nat]
                 PROVE  \E m \in 1..n + 1 + 1 : \A k \in 1..n + 1 + 1 : d[k] <= d[m]
    <3>1. n + 1 \in Nat
      BY <2>1
    <3>2. QED
      BY <3>1, Zenon
  <2>3. PICK e : e = [k \in 1..n + 1 |-> d[k]]
    OBVIOUS
  <2>4. e \in [1..n + 1 -> Nat] /\ \A k \in 1..n + 1 : e[k] = d[k]
    BY <2>1, <2>3
  <2>5. PICK m \in 1..n + 1 : \A k \in 1..n + 1 : e[k] <= e[m]
    BY <2>1, <2>4
  <2>6. PICK l \in 1..n + 1 + 1 : l = IF d[m] <= d[n + 1 + 1] THEN n + 1 + 1 ELSE m
    BY <2>1
  <2>7. m \in 1..n + 1 + 1 /\ n + 1 + 1 \in 1..n + 1 + 1 /\ d[m] \in Nat /\ d[n + 1 + 1] \in Nat
    BY <2>1
  <2>8. ASSUME NEW k \in 1..n + 1 + 1 PROVE d[k] <= d[l]
    <3>1. d[k] \in Nat
      OBVIOUS
    <3>2. CASE k = n + 1 + 1
      BY <2>6, <2>7, <3>2
    <3>3. CASE k # n + 1 + 1
      <4>1. k \in 1..n + 1
        BY <2>1, <3>3
      <4>2. d[k] <= d[m]
        BY <2>4, <2>5, <4>1
      <4>3. QED
        BY <2>6, <2>7, <3>1, <4>2
    <3>4. QED
      BY <3>2, <3>3
  <2>9. QED
    BY <2>8
<1>3. T \in SUBSET Nat
  OBVIOUS
<1> HIDE DEF T
<1>4. T = Nat
  BY <1>1, <1>2, <1>3, SetInduction
<1>5. QED
  BY <1>4 DEF T

LEMMA SortExists ==
  \A n \in Nat : \A d \in [1..n -> Nat] :
    \E p \in Bijection(1..n, 1..n) : \A j, k \in 1..n : j < k => d[p[j]] <= d[p[k]]
<1> DEFINE Sorts(n, d, p) == \A j, k \in 1..n : j < k => d[p[j]] <= d[p[k]]
           Sortable(n) == \A d \in [1..n -> Nat] : \E p \in Bijection(1..n, 1..n) : Sorts(n, d, p)
           T == {n \in Nat : Sortable(n)}
<1>1. 0 \in T
  <2>1. SUFFICES ASSUME NEW d \in [1..0 -> Nat]
                 PROVE  \E p \in Bijection(1..0, 1..0) : Sorts(0, d, p)
    OBVIOUS
  <2>2. PICK p : p = [k \in 1..0 |-> k]
    OBVIOUS
  <2>3. p \in Bijection(1..0, 1..0)
    BY <2>2 DEF Bijection, Injection, Surjection, IsInjective
  <2>4. Sorts(0, d, p)
    OBVIOUS
  <2>5. QED
    BY <2>3, <2>4
<1>2. ASSUME NEW n \in T PROVE n + 1 \in T
  <2>1. n \in Nat /\ Sortable(n)
    OBVIOUS
  <2>2. SUFFICES ASSUME NEW d \in [1..n + 1 -> Nat]
                 PROVE  \E p \in Bijection(1..n + 1, 1..n + 1) : Sorts(n + 1, d, p)
    BY <2>1
  <2>3. PICK m \in 1..n + 1 : \A k \in 1..n + 1 : d[k] <= d[m]
    BY <2>1, LargestValue
  <2>4. PICK e : e = [k \in 1..n |-> IF k = m THEN d[n + 1] ELSE d[k]]
    OBVIOUS
  <2>5. e \in [1..n -> Nat]
    BY <2>1, <2>4
  <2>6. PICK q \in Bijection(1..n, 1..n) : Sorts(n, e, q)
    BY <2>1, <2>5
  <2>7. /\ q \in [1..n -> 1..n]
        /\ \A j, k \in 1..n : q[j] = q[k] => j = k
        /\ \A k \in 1..n : \E j \in 1..n : q[j] = k
    BY <2>6 DEF Bijection, Injection, Surjection, IsInjective
  <2>8. PICK p : p = [k \in 1..n + 1 |-> IF k = n + 1 THEN m
                                        ELSE IF q[k] = m THEN n + 1 ELSE q[k]]
    OBVIOUS
  <2>9. /\ p[n + 1] = m
        /\ \A k \in 1..n : p[k] = IF q[k] = m THEN n + 1 ELSE q[k]
    BY <2>1, <2>8
  <2>10. p \in [1..n + 1 -> 1..n + 1]
    <3>1. \A k \in 1..n + 1 : k # n + 1 => k \in 1..n
      BY <2>1
    <3>2. \A k \in 1..n : q[k] \in 1..n + 1
      <4>1. \A k \in 1..n : q[k] \in 1..n
        BY <2>7
      <4>2. \A k \in 1..n : k \in 1..n + 1
        BY <2>1
      <4>3. QED
        BY <4>1, <4>2
    <3>3. n + 1 \in 1..n + 1
      BY <2>1
    <3>4. QED
      BY <2>8, <3>1, <3>2, <3>3
  <2>11. ASSUME NEW j \in 1..n + 1, NEW k \in 1..n + 1, p[j] = p[k] PROVE j = k
    <3>1. \A i \in 1..n + 1 : i # n + 1 => i \in 1..n
      BY <2>1
    <3>2. \A i \in 1..n : q[i] # n + 1
      BY <2>1, <2>7
    <3>3. \A i \in 1..n : p[i] # m
      BY <2>9, <3>2
    <3>4. CASE j = n + 1 \/ k = n + 1
      BY <2>9, <2>11, <3>1, <3>3, <3>4
    <3>5. CASE j # n + 1 /\ k # n + 1
      <4>1. j \in 1..n /\ k \in 1..n
        BY <3>1, <3>5
      <4>2. q[j] = q[k]
        BY <2>9, <2>11, <3>2, <4>1
      <4>3. QED
        BY <2>7, <4>1, <4>2
    <3>6. QED
      BY <3>4, <3>5
  <2>12. ASSUME NEW k \in 1..n + 1 PROVE \E j \in 1..n + 1 : p[j] = k
    <3>1. CASE k = m
      BY <2>1, <2>9, <3>1
    <3>2. CASE k # m /\ k = n + 1
      <4>1. m \in 1..n
        BY <2>1, <3>2
      <4>2. PICK j \in 1..n : q[j] = m
        BY <2>7, <4>1
      <4>3. j \in 1..n + 1 /\ p[j] = k
        BY <2>1, <2>9, <3>2, <4>2
      <4>4. QED
        BY <4>3
    <3>3. CASE k # m /\ k # n + 1
      <4>1. k \in 1..n
        BY <2>1, <3>3
      <4>2. PICK j \in 1..n : q[j] = k
        BY <2>7, <4>1
      <4>3. j \in 1..n + 1 /\ p[j] = k
        BY <2>1, <2>9, <3>3, <4>2
      <4>4. QED
        BY <4>3
    <3>4. QED
      BY <3>1, <3>2, <3>3
  <2>13. p \in Bijection(1..n + 1, 1..n + 1)
    <3>1. p \in Injection(1..n + 1, 1..n + 1)
      BY <2>10, <2>11 DEF Injection, IsInjective
    <3>2. p \in Surjection(1..n + 1, 1..n + 1)
      BY <2>10, <2>12 DEF Surjection
    <3>3. QED
      BY <3>1, <3>2 DEF Bijection
  <2>14. \A k \in 1..n : d[p[k]] = e[q[k]]
    BY <2>4, <2>7, <2>9
  <2>15. ASSUME NEW j \in 1..n + 1, NEW k \in 1..n + 1, j < k
         PROVE  d[p[j]] <= d[p[k]]
    <3>1. CASE k = n + 1
      BY <2>3, <2>9, <2>10, <3>1
    <3>2. CASE k # n + 1
      <4>1. j \in 1..n /\ k \in 1..n
        BY <2>1, <2>15, <3>2
      <4>2. e[q[j]] <= e[q[k]]
        BY <2>6, <2>15, <4>1
      <4>3. QED
        BY <2>14, <4>1, <4>2
    <3>3. QED
      BY <3>1, <3>2
  <2>16. QED
    BY <2>13, <2>15
<1>3. T \in SUBSET Nat
  OBVIOUS
<1> HIDE DEF T
<1>4. T = Nat
  BY <1>1, <1>2, <1>3, SetInduction
<1>5. QED
  BY <1>4 DEF T
=============================================================================
