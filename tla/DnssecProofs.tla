---------------------------- MODULE DnssecProofs ----------------------------
(***************************************************************************)
(* Proofs about Dnssec for any types, any times and any length of an era.  *)
(*                                                                         *)
(* The loop of type_bitmap is right because its input ascends: what is     *)
(* still to encode belongs to the window at hand or a later one, so that   *)
(* blocks are written once and in order.  The times of a signature are     *)
(* right inside an era because every time it is used at is then a fixed    *)
(* multiple of Era away from its 32-bit form.  The key tag is right in     *)
(* whatever order MapThenSumSet takes the octets: there is a sum of which  *)
(* every octet can be taken off first, and every way of adding finds it.   *)
(***************************************************************************)
EXTENDS Dnssec, FiniteSetTheorems, SequenceLemmas

(* The bound of Type by a name: a numeral this large is unfolded by Zenon.  *)
MaxType == 65535

Index == 0..31

Octet == SUBSET (0..7)

(* The type that the power of two e in octet i of window w stands for. *)
TypeAt(w, i, e) == 256 * w + 8 * i + (7 - e)

Bits == [0..31 -> Octet]

Block == [window : 0..255, octets : UNION {[0..last -> Octet] : last \in -1..31}]

EndsInABit(octets) ==
  \E last \in 0..31 : DOMAIN octets = 0..last /\ octets[last] # {}

WindowsAscend == \A j, k \in DOMAIN out : j < k => out[j].window < out[k].window

BlocksEndInABit == types # {} => \A k \in DOMAIN out : EndsInABit(out[k].octets)

Sorted(s) == \A j, k \in 1..Len(s) : j < k => s[j] < s[k]

RestIsSorted ==
  /\ rest \in Seq(types)
  /\ Sorted(rest)

(* Nothing was encoded before the first window. *)
NothingYet ==
  window = None =>
    /\ bits = NoBits /\ max_byte = 0
    /\ types = ToSet(rest)
    /\ ~done => out = <<>>

(* The window at hand ends in an octet with a bit, and comes after those    *)
(* written and before those of the types that are still to encode.         *)
WindowIsGathered ==
  window # None =>
    /\ types # {}
    /\ window \in 0..255 /\ max_byte \in 0..31
    /\ bits \in Bits
    /\ bits[max_byte] # {}
    /\ \A i \in 0..31 : i > max_byte => bits[i] = {}
    /\ \A k \in 1..Len(rest) : rest[k] \div 256 >= window
    /\ ~done => \A k \in 1..Len(out) : out[k].window < window

BitmapInv ==
  /\ types \subseteq Type
  /\ RestIsSorted
  /\ NothingYet
  /\ WindowIsGathered
  /\ out \in Seq(Block)
  /\ done \in BOOLEAN /\ (done => rest = <<>>)
  /\ WindowsAscend /\ BlocksEndInABit
  /\ NothingLostOrInvented

(* What is cached was made when history says, and history is past. *)
SignedInv ==
  /\ now \in Int /\ made \in Int /\ made <= now
  /\ rrsig # None =>
       rrsig = [key_tag |-> key_tag(rdata),
                inception |-> inception(made), expiration |-> expiration(made)]

-----------------------------------------------------------------------------
(* The input of the loop: Ascending sorts a set. *)

LEMMA AscendingSorts ==
  ASSUME NEW S \in SUBSET Int, IsFiniteSet(S)
  PROVE  /\ Ascending(S) \in Seq(S)
         /\ \A j, k \in 1..Len(Ascending(S)) : j < k => Ascending(S)[j] < Ascending(S)[k]
         /\ ToSet(Ascending(S)) = S
<1> DEFINE Below(x) == {y \in S : y < x}
           n == Cardinality(S)
           f == [x \in S |-> Cardinality(Below(x))]
<1>1. n \in Nat /\ \A x \in S : x \in Int
  BY FS_CardinalityType
<1>2. ASSUME NEW x \in S
      PROVE  IsFiniteSet(Below(x)) /\ Cardinality(Below(x)) \in 0..n - 1
  <2>1. IsFiniteSet(S \ {x}) /\ Cardinality(S \ {x}) = n - 1
    BY FS_RemoveElement
  <2>2. Below(x) \in SUBSET (S \ {x})
    BY <1>1
  <2>3. IsFiniteSet(Below(x)) /\ Cardinality(Below(x)) <= n - 1
    BY <2>1, <2>2, FS_Subset
  <2>4. Cardinality(Below(x)) \in Nat
    BY <2>3, FS_CardinalityType
  <2>5. QED
    BY <1>1, <2>3, <2>4
<1>3. ASSUME NEW x \in S, NEW y \in S, x < y
      PROVE  f[x] < f[y]
  <2>1. IsFiniteSet(Below(x)) /\ x \notin Below(x)
    BY <1>2
  <2>2. /\ IsFiniteSet(Below(x) \cup {x})
        /\ Cardinality(Below(x) \cup {x}) = Cardinality(Below(x)) + 1
    BY <2>1, FS_AddElement
  <2>3. Below(x) \cup {x} \in SUBSET Below(y)
    <3>1. x \in Int /\ y \in Int
      BY <1>1
    <3>2. ASSUME NEW z \in Below(x) \cup {x} PROVE z \in Below(y)
      <4>1. z \in S /\ z \in Int /\ z <= x
        BY <1>1
      <4>2. QED
        BY <1>3, <3>1, <4>1
    <3>3. QED
      BY <3>2
  <2>4. Cardinality(Below(x) \cup {x}) <= Cardinality(Below(y))
    BY <1>2, <2>3, FS_Subset
  <2>5. QED
    BY <1>2, <2>2, <2>4
<1>4. f \in [S -> 0..n - 1]
  BY <1>2
<1>5. ASSUME NEW x \in S, NEW y \in S, f[x] = f[y] PROVE x = y
  <2>1. f[x] \in Int /\ f[y] \in Int
    BY <1>4
  <2>2. ~(x < y) /\ ~(y < x)
    BY <1>3, <1>5, <2>1
  <2>3. x \in Int /\ y \in Int
    BY <1>1
  <2>4. QED
    BY <2>2, <2>3
<1>6. f \in Injection(S, 0..n - 1)
  BY <1>4, <1>5 DEF Injection, IsInjective
<1>7. IsFiniteSet(0..n - 1) /\ Cardinality(0..n - 1) = n
  BY <1>1, FS_Interval
<1>8. f \in Surjection(S, 0..n - 1)
  BY <1>6, <1>7, FS_Injection
<1>9. \A m \in 0..n - 1 : \E x \in S : f[x] = m
  BY <1>8 DEF Surjection
<1> DEFINE s == Ascending(S)
<1>10. s = [k \in 1..n |-> CHOOSE x \in S : Cardinality(Below(x)) = k - 1]
  BY DEF Ascending
<1>11. ASSUME NEW k \in 1..n PROVE s[k] \in S /\ f[s[k]] = k - 1
  <2>1. k - 1 \in 0..n - 1
    BY <1>1
  <2>2. PICK x \in S : f[x] = k - 1
    BY <1>9, <2>1
  <2>3. \E y \in S : Cardinality(Below(y)) = k - 1
    BY <2>2
  <2>4. s[k] = CHOOSE y \in S : Cardinality(Below(y)) = k - 1
    BY <1>10
  <2>5. s[k] \in S /\ Cardinality(Below(s[k])) = k - 1
    BY <2>3, <2>4
  <2>6. QED
    BY <2>5
<1>12. s \in Seq(S) /\ Len(s) = n
  <2>1. s \in [1..n -> S]
    BY <1>10, <1>11
  <2>2. QED
    BY <1>1, <2>1
<1>13. ASSUME NEW j \in 1..n, NEW k \in 1..n, j < k PROVE s[j] < s[k]
  <2>1. /\ s[j] \in S /\ s[k] \in S
        /\ f[s[j]] = j - 1 /\ f[s[k]] = k - 1
    BY <1>11
  <2>2. ~(f[s[k]] < f[s[j]]) /\ f[s[k]] # f[s[j]]
    BY <1>1, <1>13, <2>1
  <2>3. ~(s[k] < s[j]) /\ s[k] # s[j]
    BY <1>3, <2>1, <2>2
  <2>4. s[j] \in Int /\ s[k] \in Int
    BY <1>1, <2>1
  <2>5. QED
    BY <2>3, <2>4
<1>14. ASSUME NEW x \in S PROVE x \in ToSet(s)
  <2>1. f[x] \in 0..n - 1
    BY <1>4
  <2>2. f[x] + 1 \in 1..n
    BY <1>1, <2>1
  <2>3. s[f[x] + 1] \in S /\ f[s[f[x] + 1]] = f[x]
    BY <1>11, <2>1, <2>2
  <2>4. x = s[f[x] + 1]
    BY <1>5, <2>3
  <2>5. QED
    BY <1>10, <2>2, <2>4 DEF ToSet
<1>15. ToSet(s) \subseteq S
  BY <1>10, <1>11 DEF ToSet
<1>16. QED
  BY <1>12, <1>13, <1>14, <1>15

-----------------------------------------------------------------------------
(* A type and its place in the bitmap. *)

LEMMA TypesAreNumbers == Type \subseteq Nat /\ Type \subseteq Int
BY DEF Type

(* A type is bit r of window w. *)
LiesIn(typ, w, r) == w = typ \div 256 /\ r = typ % 256 /\ typ = 256 * w + r

LEMMA TypesUpTo == MaxType \in Nat /\ MaxType < 65536 /\ Type = 0..MaxType
<1>1. MaxType \in Nat /\ MaxType < 65536
  BY SMT DEF MaxType
<1>2. Type = 0..MaxType
  BY SMT DEF Type, MaxType
<1>3. QED
  BY <1>1, <1>2

LEMMA Split256 ==
  ASSUME NEW typ \in Type
  PROVE  \E w \in 0..255, r \in 0..255 : LiesIn(typ, w, r)
<1>1. typ \in Nat /\ typ < 65536
  BY SMT, TypesUpTo
<1>2. PICK w \in Int : w = typ \div 256
  BY <1>1
<1>3. PICK r \in Int : r = typ % 256
  BY <1>1
<1>4. typ = 256 * w + r
  BY <1>1, <1>2, <1>3
<1>5. r \in 0..255
  BY <1>1, <1>3
<1>6. w \in 0..255
  BY SMT, <1>1, <1>4, <1>5
<1>7. LiesIn(typ, w, r)
  BY <1>2, <1>3, <1>4 DEF LiesIn
<1>8. QED
  BY Zenon, <1>5, <1>6, <1>7

(* A type is bit e of octet i of window w. *)
LiesAt(typ, w, i, e) ==
  /\ w = typ \div 256 /\ i = (typ % 256) \div 8 /\ e = 7 - ((typ % 256) % 8)
  /\ typ = TypeAt(w, i, e)

LEMMA Place ==
  ASSUME NEW typ \in Type
  PROVE  \E w \in 0..255, i \in 0..31, e \in 0..7 : LiesAt(typ, w, i, e)
<1>1. PICK w \in 0..255, r \in 0..255 : LiesIn(typ, w, r)
  BY Zenon, Split256
<1>2. PICK i \in 0..31, b \in 0..7 : i = r \div 8 /\ b = r % 8 /\ r = 8 * i + b
  OBVIOUS
<1>3. PICK e \in 0..7 : e = 7 - b /\ b = 7 - e
  OBVIOUS
<1>4. 256 * w + 8 * i + (7 - e) = typ
  BY <1>1, <1>2, <1>3 DEF LiesIn
<1>5. LiesAt(typ, w, i, e)
  BY <1>1, <1>2, <1>3, <1>4 DEF LiesAt, LiesIn, TypeAt
<1>6. QED
  BY Zenon, <1>5

LEMMA WindowsOfTypes ==
  ASSUME NEW x \in Type, NEW y \in Type, x > y
  PROVE  x \div 256 >= y \div 256
<1>1. PICK v \in 0..255, r \in 0..255 : LiesIn(x, v, r)
  BY Zenon, Split256
<1>2. PICK w \in 0..255, z \in 0..255 : LiesIn(y, w, z)
  BY Zenon, Split256
<1>3. 256 * v + r > 256 * w + z
  BY <1>1, <1>2 DEF LiesIn
<1>4. v >= w
  BY <1>3
<1>5. QED
  BY <1>1, <1>2, <1>4 DEF LiesIn

LEMMA BlockWindow == \A block \in Block : block.window \in 0..255 /\ block.window \in Int
<1>1. \A block \in Block : block.window \in 0..255
  BY Zenon DEF Block
<1>2. QED
  BY <1>1

LEMMA InTypes ==
  ASSUME NEW w, NEW octets, NEW x
  PROVE  x \in TypesIn(w, octets) <=>
           \E i \in DOMAIN octets : \E e \in octets[i] : x = TypeAt(w, i, e)
BY DEF TypesIn, TypeAt

LEMMA MaxOfTwo ==
  ASSUME NEW a \in Int, NEW b \in Int
  PROVE  Max({a, b}) = IF a >= b THEN a ELSE b
<1>1. \E x \in {a, b} : \A y \in {a, b} : x >= y
  OBVIOUS
<1>2. Max({a, b}) \in {a, b} /\ \A y \in {a, b} : Max({a, b}) >= y
  BY <1>1 DEF Max
<1>3. QED
  BY <1>2

LEMMA MinOfTwo ==
  ASSUME NEW a \in Int, NEW b \in Int
  PROVE  Min({a, b}) = IF a <= b THEN a ELSE b
<1>1. \E x \in {a, b} : \A y \in {a, b} : x <= y
  OBVIOUS
<1>2. Min({a, b}) \in {a, b} /\ \A y \in {a, b} : Min({a, b}) <= y
  BY <1>1 DEF Min
<1>3. QED
  BY <1>2

(* Bit e was set in octet i. *)
OneMore(new, old, i, e) ==
  \A j \in 0..31 : new[j] = IF j = i THEN old[j] \cup {e} ELSE old[j]

NoneAfter(top, octets) == \A j \in 0..31 : j > top => octets[j] = {}

OneMoreType(w, new, old, typ) == TypesIn(w, new) = TypesIn(w, old) \cup {typ}

(* A bit set is a type gathered. *)
LEMMA OneMoreBit ==
  ASSUME NEW w, NEW old \in Bits, NEW new \in Bits,
         NEW i \in Index, NEW e, OneMore(new, old, i, e)
  PROVE  OneMoreType(w, new, old, TypeAt(w, i, e))
<1>1. /\ DOMAIN new = 0..31 /\ DOMAIN old = 0..31 /\ i \in 0..31
  BY DEF Bits, Index
<1>2. ASSUME NEW x, x \in TypesIn(w, new)
      PROVE  x \in TypesIn(w, old) \/ x = TypeAt(w, i, e)
  <2>1. PICK j \in DOMAIN new : \E b \in new[j] : x = TypeAt(w, j, b)
    BY <1>2, InTypes
  <2>2. PICK b \in new[j] : x = TypeAt(w, j, b)
    BY <2>1
  <2>3. CASE b \in old[j]
    <3>1. j \in DOMAIN old
      BY <1>1
    <3>2. QED
      BY <2>2, <2>3, <3>1, InTypes
  <2>4. CASE j = i /\ b = e
    BY <2>2, <2>4
  <2>5. b \in old[j] \/ (j = i /\ b = e)
    BY <1>1 DEF OneMore
  <2>6. QED
    BY <2>3, <2>4, <2>5
<1>3. ASSUME NEW x, x \in TypesIn(w, old) PROVE x \in TypesIn(w, new)
  <2>1. PICK j \in DOMAIN old : \E b \in old[j] : x = TypeAt(w, j, b)
    BY <1>3, InTypes
  <2>2. PICK b \in old[j] : x = TypeAt(w, j, b)
    BY <2>1
  <2>3. j \in DOMAIN new /\ b \in new[j]
    BY <1>1 DEF OneMore
  <2>4. QED
    BY <2>2, <2>3, InTypes
<1>4. TypeAt(w, i, e) \in TypesIn(w, new)
  <2>1. i \in DOMAIN new /\ e \in new[i]
    BY <1>1 DEF OneMore
  <2>2. QED
    BY <2>1, InTypes
<1>5. QED
  BY <1>2, <1>3, <1>4 DEF OneMoreType

LEMMA NoTypes == \A w : TypesIn(w, NoBits) = {}
  BY DEF TypesIn, NoBits

(* The octets after max_byte are left out, and nothing is lost by it. *)
LEMMA Flushed ==
  ASSUME NEW w \in 0..255, NEW old \in Bits, NEW top \in 0..31,
         \A i \in 0..31 : i > top => old[i] = {},
         NEW kept, kept = [i \in 0..top |-> old[i]]
  PROVE  /\ [window |-> w, octets |-> kept] \in Block
         /\ TypesIn(w, kept) = TypesIn(w, old)
<1>1. /\ DOMAIN kept = 0..top /\ DOMAIN old = 0..31
      /\ \A i \in 0..top : kept[i] = old[i]
      /\ kept \in [0..top -> Octet]
  BY DEF Bits, Octet
<1>2. \A i \in 0..top : i \in 0..31
  OBVIOUS
<1>3. \A i \in 0..31 : i \in 0..top \/ old[i] = {}
  OBVIOUS
<1>4. ASSUME NEW x, x \in TypesIn(w, kept) PROVE x \in TypesIn(w, old)
  <2>1. PICK i \in DOMAIN kept : \E e \in kept[i] : x = TypeAt(w, i, e)
    BY <1>4, InTypes
  <2>2. i \in DOMAIN old /\ kept[i] = old[i]
    BY <1>1, <1>2
  <2>3. QED
    BY <2>1, <2>2, InTypes
<1>5. ASSUME NEW x, x \in TypesIn(w, old) PROVE x \in TypesIn(w, kept)
  <2>1. PICK i \in DOMAIN old : \E e \in old[i] : x = TypeAt(w, i, e)
    BY <1>5, InTypes
  <2>2. i \in DOMAIN kept /\ kept[i] = old[i]
    BY <1>1, <1>3, <2>1
  <2>3. QED
    BY <2>1, <2>2, InTypes
<1>6. kept \in UNION {[0..m -> Octet] : m \in -1..31}
  <2>1. top \in -1..31
    OBVIOUS
  <2>2. [0..top -> Octet] \in {[0..m -> Octet] : m \in -1..31}
    BY <2>1
  <2>3. QED
    BY <1>1, <2>2
<1>7. QED
  BY <1>4, <1>5, <1>6 DEF Block

(* A block more at the end of out. *)
LEMMA Written ==
  ASSUME out \in Seq(Block), NEW block \in Block, out' = Append(out, block)
  PROVE  /\ out' \in Seq(Block)
         /\ Len(out') = Len(out) + 1 /\ Len(out) \in Nat
         /\ DOMAIN out' = 1..Len(out) + 1 /\ DOMAIN out = 1..Len(out)
         /\ \A k \in 1..Len(out) : out[k].window \in Int
         /\ out'[Len(out) + 1] = block
         /\ \A k \in 1..Len(out) : out'[k] = out[k]
         /\ Decoded' = Decoded \cup TypesIn(block.window, block.octets)
<1>1. /\ out' \in Seq(Block)
      /\ Len(out') = Len(out) + 1 /\ Len(out) \in Nat
      /\ out'[Len(out) + 1] = block
      /\ \A k \in 1..Len(out) : out'[k] = out[k]
  OBVIOUS
<1>2. DOMAIN out' = 1..Len(out) + 1 /\ DOMAIN out = 1..Len(out)
  BY <1>1
<1>3. \A k \in 1..Len(out) : out[k].window \in Int
  <2>1. \A k \in 1..Len(out) : out[k] \in Block
    OBVIOUS
  <2>2. QED
    BY <2>1, BlockWindow
<1>4. ASSUME NEW x
      PROVE  x \in Decoded' <=> x \in Decoded \/ x \in TypesIn(block.window, block.octets)
  <2>1. x \in Decoded' <=>
          \E k \in DOMAIN out' : x \in TypesIn(out'[k].window, out'[k].octets)
    BY DEF Decoded, TypesIn
  <2>2. x \in Decoded <=>
          \E k \in DOMAIN out : x \in TypesIn(out[k].window, out[k].octets)
    BY DEF Decoded
  <2>3. DOMAIN out' = DOMAIN out \cup {Len(out) + 1}
    BY <1>1, <1>2
  <2>4. QED
    BY <1>1, <1>2, <2>1, <2>2, <2>3
<1>5. QED
  BY <1>1, <1>2, <1>3, <1>4

-----------------------------------------------------------------------------
(* The loop. *)

LEMMA TailIsSorted ==
  ASSUME NEW S, S \subseteq Int, NEW s \in Seq(S), Sorted(s), s # <<>>,
         NEW t, t = Tail(s)
  PROVE  /\ Head(s) \in S
         /\ t \in Seq(S) /\ Sorted(t)
         /\ S \ ToSet(t) = (S \ ToSet(s)) \cup {Head(s)}
         /\ \A k \in 1..Len(t) : t[k] > Head(s) /\ t[k] \in S
<1>1. /\ Head(s) = s[1] /\ Len(s) \in Nat /\ Len(s) >= 1
      /\ t \in Seq(S) /\ Len(t) = Len(s) - 1
      /\ \A k \in 1..Len(t) : t[k] = s[k + 1]
  OBVIOUS
<1>2. \A k \in 1..Len(s) : s[k] \in S /\ s[k] \in Int
  <2>1. \A k \in 1..Len(s) : s[k] \in S
    OBVIOUS
  <2>2. QED
    BY <2>1
<1>3. 1 \in 1..Len(s)
  BY <1>1
<1>4. DOMAIN s = 1..Len(s) /\ DOMAIN t = 1..Len(t)
  BY <1>1
<1>5. ASSUME NEW k \in 1..Len(t)
      PROVE  t[k] > Head(s) /\ t[k] \in S
  <2>1. k + 1 \in 1..Len(s) /\ 1 < k + 1
    BY <1>1
  <2>2. s[1] < s[k + 1]
    BY <1>3, <2>1 DEF Sorted
  <2>3. QED
    BY <1>1, <1>2, <1>3, <2>1, <2>2
<1>6. ASSUME NEW j \in 1..Len(t), NEW k \in 1..Len(t), j < k
      PROVE  t[j] < t[k]
  <2>1. j + 1 \in 1..Len(s) /\ k + 1 \in 1..Len(s) /\ j + 1 < k + 1
    BY <1>1, <1>6
  <2>2. QED
    BY <1>1, <2>1 DEF Sorted
<1>7. ASSUME NEW x, x \in ToSet(s) PROVE x = Head(s) \/ x \in ToSet(t)
  <2>1. PICK k \in 1..Len(s) : x = s[k]
    BY <1>4, <1>7 DEF ToSet
  <2>2. k = 1 \/ (k - 1 \in 1..Len(t) /\ t[k - 1] = s[k])
    BY <1>1
  <2>3. QED
    BY <1>1, <1>4, <2>1, <2>2 DEF ToSet
<1>8. ASSUME NEW x, x \in ToSet(t) PROVE x \in ToSet(s) /\ x # Head(s)
  <2>1. PICK k \in 1..Len(t) : x = t[k]
    BY <1>4, <1>8 DEF ToSet
  <2>2. k + 1 \in 1..Len(s) /\ x = s[k + 1]
    BY <1>1, <2>1
  <2>3. x \in ToSet(s)
    BY <1>4, <2>2 DEF ToSet
  <2>4. x > Head(s) /\ x \in Int /\ Head(s) \in Int
    BY <1>1, <1>2, <1>3, <1>5, <2>1, <2>2
  <2>5. QED
    BY <2>3, <2>4
<1>9. Head(s) \in S
  BY <1>1, <1>2, <1>3
<1>10. S \ ToSet(t) = (S \ ToSet(s)) \cup {Head(s)}
  BY <1>7, <1>8, <1>9
<1>11. QED
  BY <1>1, <1>5, <1>6, <1>9, <1>10 DEF Sorted

(* The last octet with a bit is max_byte, before and after a bit is set. *)
LEMMA LastOctet ==
  ASSUME NEW old, NEW new, NEW top \in 0..31, NEW i \in 0..31, NEW e,
         NoneAfter(top, old),
         old[top] # {} \/ top = 0,
         OneMore(new, old, i, e),
         NEW m \in 0..31, m = top \/ m = i, m >= top, m >= i
  PROVE  new[m] # {} /\ NoneAfter(m, new)
<1>1. new[m] # {}
  <2>1. CASE m = i
    <3>1. e \in new[m]
      BY <2>1 DEF OneMore
    <3>2. QED
      BY <3>1
  <2>2. CASE m # i
    <3>1. m = top /\ top # 0
      BY <2>2
    <3>2. QED
      BY <2>2, <3>1 DEF OneMore
  <2>3. QED
    BY <2>1, <2>2
<1>2. ASSUME NEW j \in 0..31, j > m PROVE new[j] = {}
  <2>1. j > top /\ j # i
    BY <1>2
  <2>2. QED
    BY <2>1 DEF OneMore, NoneAfter
<1>3. QED
  BY <1>1, <1>2 DEF NoneAfter

(* A window is written: it is the last one so far, and holds its types. *)
LEMMA FlushKeeps ==
  ASSUME BitmapInv, window # None, ~done, out' = flush, types' = types
  PROVE  /\ out' \in Seq(Block)
         /\ WindowsAscend' /\ BlocksEndInABit'
         /\ Decoded' = Decoded \cup TypesIn(window, bits)
         /\ \A k \in 1..Len(out') : out'[k].window <= window
<1>1. /\ window \in 0..255 /\ max_byte \in 0..31 /\ bits \in Bits
      /\ bits[max_byte] # {} /\ \A i \in 0..31 : i > max_byte => bits[i] = {}
      /\ \A k \in 1..Len(out) : out[k].window < window
      /\ out \in Seq(Block) /\ window \in Int
  <2>1. WindowIsGathered /\ out \in Seq(Block)
    BY DEF BitmapInv
  <2>2. \A w \in 0..255 : w \in Int
    OBVIOUS
  <2>3. QED
    BY <2>1, <2>2 DEF WindowIsGathered
<1>2. WindowsAscend /\ BlocksEndInABit
  BY DEF BitmapInv
<1>3. PICK kept, block : /\ kept = [i \in 0..max_byte |-> bits[i]]
                         /\ block = [window |-> window, octets |-> kept]
  OBVIOUS
<1>4. block \in Block /\ TypesIn(window, kept) = TypesIn(window, bits)
  BY <1>1, <1>3, Flushed
<1>5. block.window = window /\ block.octets = kept
  BY <1>3
<1>6. /\ out' \in Seq(Block)
      /\ Len(out') = Len(out) + 1
      /\ out'[Len(out) + 1] = block
      /\ \A k \in 1..Len(out) : out'[k] = out[k]
      /\ Decoded' = Decoded \cup TypesIn(block.window, block.octets)
  BY <1>1, <1>3, <1>4, Written DEF flush
<1>7. /\ Len(out) \in Nat /\ DOMAIN out' = 1..Len(out) + 1 /\ DOMAIN out = 1..Len(out)
      /\ \A k \in 1..Len(out) : out[k].window \in Int
  <2>1. out \in Seq(Block)
    BY <1>1
  <2>2. QED
    BY <1>3, <1>4, <2>1, Written DEF flush
<1>8. \A k \in DOMAIN out' : k \in DOMAIN out \/ k = Len(out) + 1
  BY <1>7
<1>9. ASSUME NEW j \in DOMAIN out', NEW k \in DOMAIN out', j < k
      PROVE  out'[j].window < out'[k].window
  <2>1. j \in DOMAIN out /\ j \in 1..Len(out) /\ out'[j] = out[j]
    BY <1>6, <1>7, <1>9
  <2>2. CASE k \in DOMAIN out
    <3>1. out[j].window < out[k].window
      BY <1>2, <1>9, <2>1, <2>2 DEF WindowsAscend
    <3>2. out'[k] = out[k]
      BY <1>6, <1>7, <2>2
    <3>3. QED
      BY <2>1, <3>1, <3>2
  <2>3. CASE k = Len(out) + 1
    BY <1>1, <1>5, <1>6, <2>1, <2>3
  <2>4. QED
    BY <1>8, <2>2, <2>3
<1>10. ASSUME types # {}, NEW k \in DOMAIN out'
      PROVE  EndsInABit(out'[k].octets)
  <2>1. CASE k \in DOMAIN out
    <3>1. EndsInABit(out[k].octets)
      BY <1>2, <1>10, <2>1 DEF BlocksEndInABit
    <3>2. out'[k] = out[k]
      BY <1>6, <1>7, <2>1
    <3>3. QED
      BY <3>1, <3>2
  <2>2. CASE k = Len(out) + 1
    <3>1. DOMAIN block.octets = 0..max_byte /\ block.octets[max_byte] = bits[max_byte]
      <4>1. max_byte \in 0..max_byte
        BY <1>1
      <4>2. DOMAIN kept = 0..max_byte /\ kept[max_byte] = bits[max_byte]
        BY <1>3, <4>1
      <4>3. QED
        BY <1>5, <4>2
    <3>2. EndsInABit(block.octets)
      BY <1>1, <3>1 DEF EndsInABit
    <3>3. QED
      BY <1>6, <2>2, <3>2
  <2>3. QED
    BY <1>8, <2>1, <2>2
<1>11. WindowsAscend' /\ BlocksEndInABit'
  BY <1>9, <1>10 DEF WindowsAscend, BlocksEndInABit
<1>12. ASSUME NEW k \in 1..Len(out') PROVE out'[k].window <= window
  <2>1. k \in DOMAIN out'
    BY <1>6, <1>7
  <2>2. CASE k \in DOMAIN out
    <3>1. out[k].window < window /\ out[k].window \in Int /\ out'[k] = out[k]
      BY <1>1, <1>6, <1>7, <2>2
    <3>2. window \in Int
      BY <1>1
    <3>3. QED
      BY <3>1, <3>2
  <2>3. CASE k = Len(out) + 1
    <3>1. out'[k].window = window /\ window \in Int
      BY <1>1, <1>5, <1>6, <2>3
    <3>2. QED
      BY <3>1
  <2>4. QED
    BY <1>8, <2>1, <2>2, <2>3
<1>13. Decoded' = Decoded \cup TypesIn(window, bits)
  BY <1>4, <1>5, <1>6
<1>14. QED
  BY <1>6, <1>11, <1>12, <1>13

LEMMA NoBitsAreOctets ==
  /\ NoBits \in Bits
  /\ \A i \in 0..31 : NoBits[i] = {}
BY DEF NoBits, Bits, Octet

(* The window at hand comes before that of every type still to encode. *)
LEMMA EncodeKeeps == BitmapInv /\ Encode => BitmapInv'
<1>1. SUFFICES ASSUME BitmapInv, Encode PROVE BitmapInv'
  OBVIOUS
<1>2. PICK typ : typ = Head(rest)
  OBVIOUS
<1>3. PICK w : w = typ \div 256
  OBVIOUS
<1>4. PICK turn \in BOOLEAN : turn = (window # None /\ window # w)
  OBVIOUS
<1>5. /\ rest # <<>> /\ rest' = Tail(rest)
      /\ types' = types /\ done' = done
      /\ out' = IF turn THEN flush ELSE out
      /\ window' = w
      /\ bits' = BitsWith(typ % 256, turn)
      /\ max_byte' = MaxByteWith(typ % 256, turn)
  <2>1. rest # <<>> /\ rest' = Tail(rest) /\ types' = types /\ done' = done
    BY <1>1 DEF Encode
  <2>2. window' = w
    BY <1>1, <1>2, <1>3 DEF Encode
  <2>3. out' = IF turn THEN flush ELSE out
    BY <1>1, <1>2, <1>3, <1>4 DEF Encode
  <2>4. bits' = BitsWith(typ % 256, turn)
    BY <1>1, <1>2, <1>3, <1>4 DEF Encode
  <2>5. max_byte' = MaxByteWith(typ % 256, turn)
    BY <1>1, <1>2, <1>3, <1>4 DEF Encode
  <2>6. QED
    BY <2>1, <2>2, <2>3, <2>4, <2>5
<1>6. ~done /\ types \subseteq Type /\ RestIsSorted
  BY <1>1, <1>5 DEF BitmapInv
<1>7. /\ typ \in types
      /\ rest' \in Seq(types) /\ Sorted(rest')
      /\ types \ ToSet(rest') = (types \ ToSet(rest)) \cup {typ}
      /\ \A k \in 1..Len(rest') : rest'[k] > typ /\ rest'[k] \in types
  <2>1. types \subseteq Int
    BY <1>6, TypesAreNumbers
  <2>2. rest \in Seq(types) /\ Sorted(rest)
    BY <1>6 DEF RestIsSorted
  <2>3. QED
    BY <1>2, <1>5, <2>1, <2>2, TailIsSorted
<1>8. typ \in Type
  BY <1>6, <1>7
<1>9. PICK v \in 0..255, i \in 0..31, e \in 0..7 : LiesAt(typ, v, i, e)
  BY Zenon, <1>8, Place
<1>10. /\ w \in 0..255 /\ i \in 0..31 /\ e \in 0..7
      /\ i = (typ % 256) \div 8 /\ e = 7 - ((typ % 256) % 8)
      /\ typ = TypeAt(w, i, e)
  BY Zenon, <1>3, <1>9 DEF LiesAt
<1>11. PICK old, top : /\ old = IF turn THEN NoBits ELSE bits
                       /\ top = IF turn THEN 0 ELSE max_byte
  OBVIOUS
<1>12. /\ old \in Bits /\ top \in 0..31
       /\ \A j \in 0..31 : j > top => old[j] = {}
       /\ old[top] # {} \/ top = 0
  <2>1. CASE turn \/ window = None
    <3>1. old = NoBits /\ top = 0
      BY <1>1, <1>11, <2>1 DEF BitmapInv, NothingYet
    <3>2. QED
      BY <3>1, NoBitsAreOctets
  <2>2. CASE ~turn /\ window # None
    <3>1. old = bits /\ top = max_byte
      BY <1>11, <2>2
    <3>2. WindowIsGathered
      BY <1>1 DEF BitmapInv
    <3>3. QED
      BY <2>2, <3>1, <3>2 DEF WindowIsGathered
  <2>3. QED
    BY <2>1, <2>2
<1>13. PICK new, m : /\ new = [old EXCEPT ![i] = @ \cup {e}]
                     /\ m = IF top >= i THEN top ELSE i
  BY Zenon
<1>14. bits' = new
  <2>1. bits' = [old EXCEPT ![(typ % 256) \div 8] = @ \cup {7 - ((typ % 256) % 8)}]
    BY <1>5, <1>11 DEF BitsWith
  <2>2. QED
    BY Zenon, <1>10, <1>13, <2>1
<1>15. max_byte' = m
  <2>1. max_byte' = Max({top, i})
    BY <1>5, <1>10, <1>11 DEF MaxByteWith
  <2>2. top \in Int /\ i \in Int
    BY <1>12
  <2>3. QED
    BY <1>13, <2>1, <2>2, MaxOfTwo
<1>16. /\ new \in Bits /\ OneMore(new, old, i, e)
       /\ TypesIn(w, new) = TypesIn(w, old) \cup {typ}
  <2>1. OneMore(new, old, i, e)
    BY <1>12, <1>13 DEF Bits, Octet, OneMore
  <2>2. new \in Bits
    <3>1. old \in Bits /\ i \in 0..31 /\ e \in 0..7
      BY <1>10, <1>12
    <3>2. QED
      BY <1>13, <3>1 DEF Bits, Octet
  <2>3. old \in Bits /\ i \in Index
    BY <1>10, <1>12 DEF Index
  <2>4. OneMoreType(w, new, old, TypeAt(w, i, e))
    BY Zenon, <2>1, <2>2, <2>3, OneMoreBit
  <2>5. typ = TypeAt(w, i, e)
    BY <1>10
  <2>6. QED
    BY <2>1, <2>2, <2>4, <2>5 DEF OneMoreType
<1>17. m \in 0..31 /\ new[m] # {} /\ NoneAfter(m, new)
  <2>1. m \in 0..31 /\ (m = top \/ m = i) /\ m >= top /\ m >= i
    BY <1>12, <1>13
  <2>2. top \in 0..31 /\ NoneAfter(top, old)
    BY <1>12 DEF NoneAfter
  <2>3. old[top] # {} \/ top = 0
    BY <1>12
  <2>4. OneMore(new, old, i, e)
    BY <1>16
  <2>5. QED
    BY <2>1, <2>2, <2>3, <2>4, LastOctet
<1>18. /\ out' \in Seq(Block) /\ WindowsAscend' /\ BlocksEndInABit'
       /\ \A k \in 1..Len(out') : out'[k].window < w
       /\ Decoded' \cup TypesIn(w, old) = Decoded \cup Gathered
  <2>1. CASE turn
    <3>1. window # None /\ window # w /\ out' = flush /\ old = NoBits
      BY <1>4, <1>5, <1>11, <2>1
    <3>2. /\ out' \in Seq(Block) /\ WindowsAscend' /\ BlocksEndInABit'
          /\ Decoded' = Decoded \cup TypesIn(window, bits)
          /\ \A k \in 1..Len(out') : out'[k].window <= window
      BY <1>1, <1>5, <1>6, <3>1, FlushKeeps
    <3>3. Gathered = TypesIn(window, bits) /\ TypesIn(w, old) = {}
      BY <1>6, <3>1, NoTypes DEF Gathered
    <3>4. window \in Int /\ window <= w
      <4>1. WindowIsGathered
        BY <1>1 DEF BitmapInv
      <4>2. window \in 0..255 /\ \A k \in 1..Len(rest) : rest[k] \div 256 >= window
        BY <3>1, <4>1 DEF WindowIsGathered
      <4>3. rest \in Seq(types)
        BY <1>6 DEF RestIsSorted
      <4>4. 1 \in 1..Len(rest) /\ typ = rest[1]
        BY <1>2, <1>5, <4>3
      <4>5. typ \div 256 >= window
        BY <4>2, <4>4
      <4>6. QED
        BY <1>3, <1>10, <4>2, <4>5
    <3>5. ASSUME NEW k \in 1..Len(out') PROVE out'[k].window < w
      <4>1. out'[k] \in Block
        BY <3>2
      <4>2. out'[k].window \in Int /\ out'[k].window <= window
        BY <3>2, <4>1, BlockWindow
      <4>3. w \in Int
        BY <1>10
      <4>4. QED
        BY <3>1, <3>4, <4>2, <4>3
    <3>6. QED
      BY <3>2, <3>3, <3>5
  <2>2. CASE ~turn
    <3>1. out' = out /\ old = bits
      BY <1>5, <1>11, <2>2
    <3>2. /\ out' \in Seq(Block) /\ WindowsAscend' /\ BlocksEndInABit' /\ Decoded' = Decoded
      BY <1>1, <1>5, <3>1 DEF BitmapInv, WindowsAscend, BlocksEndInABit, Decoded
    <3>3. CASE window = None
      <4>1. NothingYet
        BY <1>1 DEF BitmapInv
      <4>2. out = <<>> /\ bits = NoBits
        BY <1>6, <3>3, <4>1 DEF NothingYet
      <4>3. Gathered = {} /\ TypesIn(w, old) = {}
        BY <3>1, <3>3, <4>2, NoTypes DEF Gathered
      <4>4. \A k \in 1..Len(out') : out'[k].window < w
        BY <3>1, <4>2
      <4>5. QED
        BY <3>2, <4>3, <4>4
    <3>4. CASE window # None
      <4>1. window = w
        BY <1>4, <2>2, <3>4
      <4>2. Gathered = TypesIn(w, old)
        BY <1>6, <3>1, <3>4, <4>1 DEF Gathered
      <4>3. WindowIsGathered
        BY <1>1 DEF BitmapInv
      <4>4. \A k \in 1..Len(out) : out[k].window < window
        BY <1>6, <3>4, <4>3 DEF WindowIsGathered
      <4>5. QED
        BY <3>1, <3>2, <4>1, <4>2, <4>4
    <3>5. QED
      BY <3>3, <3>4
  <2>3. QED
    BY <2>1, <2>2
<1>19. window' # None
  <2>1. w \in Int
    BY <1>10
  <2>2. QED
    BY <1>5, <2>1, DnssecAssumption
<1>20. ASSUME NEW k \in 1..Len(rest') PROVE rest'[k] \div 256 >= w
  <2>1. rest'[k] \in types /\ rest'[k] > typ
    BY <1>7
  <2>2. rest'[k] \in Type
    BY <1>6, <2>1
  <2>3. QED
    BY <1>3, <1>8, <2>1, <2>2, WindowsOfTypes
<1>21. WindowIsGathered'
  <2>1. types' # {}
    BY <1>5, <1>7
  <2>2. window' \in 0..255 /\ max_byte' \in 0..31
    BY <1>5, <1>10, <1>15, <1>17
  <2>3. bits' \in Bits /\ bits'[max_byte'] # {}
    BY <1>14, <1>15, <1>16, <1>17
  <2>4. \A j \in 0..31 : j > max_byte' => bits'[j] = {}
    BY <1>14, <1>15, <1>17 DEF NoneAfter
  <2>5. \A k \in 1..Len(rest') : rest'[k] \div 256 >= window'
    BY <1>5, <1>20
  <2>6. \A k \in 1..Len(out') : out'[k].window < window'
    BY <1>5, <1>18
  <2>7. QED
    BY <2>1, <2>2, <2>3, <2>4, <2>5, <2>6 DEF WindowIsGathered
<1>22. RestIsSorted'
  BY <1>5, <1>7 DEF RestIsSorted
<1>23. NothingLostOrInvented'
  <2>1. Gathered' = TypesIn(w, new)
    BY <1>5, <1>6, <1>14, <1>19 DEF Gathered, TypesIn
  <2>2. Decoded \cup Gathered = types \ ToSet(rest)
    BY <1>1 DEF BitmapInv, NothingLostOrInvented
  <2>3. Decoded' \cup Gathered' = types \ ToSet(rest')
    BY <1>7, <1>16, <1>18, <2>1, <2>2
  <2>4. QED
    BY <1>5, <2>3 DEF NothingLostOrInvented
<1>24. done' \in BOOLEAN /\ ~done'
  BY <1>1, <1>5, <1>6 DEF BitmapInv
<1>25. NothingYet' /\ types' \subseteq Type
  BY <1>5, <1>6, <1>19 DEF NothingYet
<1>26. QED
  BY <1>18, <1>21, <1>22, <1>23, <1>24, <1>25 DEF BitmapInv

(* An empty bitmap is a block without octets, of no type at all. *)
LEMMA EmptyBlock ==
  ASSUME NEW block, block = [window |-> 0, octets |-> [i \in {} |-> {}]]
  PROVE  block \in Block /\ TypesIn(block.window, block.octets) = {}
<1>1. DOMAIN block.octets = {}
  OBVIOUS
<1>2. [i \in {} |-> {}] \in [0..-1 -> Octet]
  <2>1. 0..-1 = {}
    OBVIOUS
  <2>2. [i \in {} |-> {}] \in [{} -> Octet]
    OBVIOUS
  <2>3. QED
    BY <2>1, <2>2
<1>3. [i \in {} |-> {}] \in UNION {[0..last -> Octet] : last \in -1..31}
  <2>1. -1 \in -1..31
    OBVIOUS
  <2>2. [0..-1 -> Octet] \in {[0..last -> Octet] : last \in -1..31}
    BY <2>1
  <2>3. QED
    BY <1>2, <2>2
<1>4. 0 \in 0..255
  OBVIOUS
<1>5. block \in Block
  BY <1>3, <1>4 DEF Block
<1>6. QED
  BY <1>1, <1>5, InTypes

(* With the last window everything is written. *)
LEMMA FinishKeeps == BitmapInv /\ Finish => BitmapInv'
<1>1. SUFFICES ASSUME BitmapInv, Finish PROVE BitmapInv'
  OBVIOUS
<1>2. /\ rest = <<>> /\ ~done /\ done' = TRUE
      /\ types' = types /\ rest' = rest /\ window' = window
      /\ bits' = bits /\ max_byte' = max_byte
  BY <1>1 DEF Finish
<1>3. types \subseteq Type /\ RestIsSorted /\ NothingYet /\ WindowIsGathered
  BY <1>1 DEF BitmapInv
<1>4. /\ out \in Seq(Block) /\ WindowsAscend /\ BlocksEndInABit
      /\ Decoded \cup Gathered = types \ ToSet(rest)
  BY <1>1 DEF BitmapInv, NothingLostOrInvented
<1>5. ToSet(rest) = {}
  BY <1>2 DEF ToSet
<1>6. /\ out' \in Seq(Block) /\ WindowsAscend' /\ BlocksEndInABit'
      /\ Decoded' = Decoded \cup Gathered
  <2>1. CASE window # None
    <3>1. out' = flush
      BY <1>1, <2>1 DEF Finish
    <3>2. Gathered = TypesIn(window, bits)
      BY <1>2, <2>1 DEF Gathered
    <3>3. QED
      BY <1>1, <1>2, <2>1, <3>1, <3>2, FlushKeeps
  <2>2. CASE window = None
    <3>1. PICK block : block = [window |-> 0, octets |-> [i \in {} |-> {}]]
      OBVIOUS
    <3>2. out' = <<block>>
      BY <1>1, <2>2, <3>1 DEF Finish
    <3>3. block \in Block /\ TypesIn(block.window, block.octets) = {}
      BY <3>1, EmptyBlock
    <3>4. out = <<>> /\ types = {}
      BY <1>2, <1>3, <1>5, <2>2 DEF NothingYet
    <3>5. out' = Append(out, block)
      BY <3>2, <3>4
    <3>6. out' \in Seq(Block) /\ Decoded' = Decoded
      BY <1>4, <3>3, <3>5, Written
    <3>7. DOMAIN out' = {1}
      BY <3>2
    <3>8. WindowsAscend'
      BY <3>7 DEF WindowsAscend
    <3>9. BlocksEndInABit'
      BY <1>2, <3>4 DEF BlocksEndInABit
    <3>10. Gathered = {}
      BY <2>2 DEF Gathered
    <3>11. QED
      BY <3>6, <3>8, <3>9, <3>10
  <2>3. QED
    BY <2>1, <2>2
<1>7. NothingLostOrInvented'
  <2>1. Gathered' = {}
    BY <1>2 DEF Gathered
  <2>2. QED
    BY <1>2, <1>4, <1>6, <2>1 DEF NothingLostOrInvented
<1>8. NothingYet'
  BY <1>2, <1>3 DEF NothingYet
<1>9. WindowIsGathered'
  <2>1. CASE window = None
    BY <1>2, <2>1 DEF WindowIsGathered
  <2>2. CASE window # None
    <3>1. /\ types # {}
          /\ window \in 0..255 /\ max_byte \in 0..31 /\ bits \in Bits
          /\ bits[max_byte] # {}
          /\ \A i \in 0..31 : i > max_byte => bits[i] = {}
          /\ \A k \in 1..Len(rest) : rest[k] \div 256 >= window
      BY <1>3, <2>2 DEF WindowIsGathered
    <3>2. /\ types' = types /\ window' = window /\ max_byte' = max_byte
          /\ bits' = bits /\ rest' = rest
      BY <1>2
    <3>3. done' = TRUE
      BY <1>2
    <3>4. QED
      BY <3>1, <3>2, <3>3 DEF WindowIsGathered
  <2>3. QED
    BY <2>1, <2>2
<1>10. RestIsSorted'
  BY <1>2, <1>3 DEF RestIsSorted
<1>11. done' \in BOOLEAN /\ rest' = <<>> /\ types' \subseteq Type
  BY <1>2, <1>3
<1>12. QED
  BY <1>6, <1>7, <1>8, <1>9, <1>10, <1>11 DEF BitmapInv

LEMMA BitmapIsLeft == BitmapInv /\ UNCHANGED bitmap => BitmapInv'
<1>1. SUFFICES ASSUME BitmapInv, UNCHANGED bitmap PROVE BitmapInv'
  OBVIOUS
<1>2. /\ types' = types /\ rest' = rest /\ window' = window /\ bits' = bits
      /\ max_byte' = max_byte /\ out' = out /\ done' = done
  BY <1>1 DEF bitmap
<1>3. RestIsSorted' /\ NothingYet' /\ WindowIsGathered'
  BY <1>1, <1>2 DEF BitmapInv, RestIsSorted, NothingYet, WindowIsGathered
<1>4. WindowsAscend' /\ BlocksEndInABit'
  BY <1>1, <1>2 DEF BitmapInv, WindowsAscend, BlocksEndInABit
<1>5. NothingLostOrInvented'
  BY <1>1, <1>2 DEF BitmapInv, NothingLostOrInvented, Decoded, Gathered, TypesIn
<1>6. QED
  BY <1>1, <1>2, <1>3, <1>4, <1>5 DEF BitmapInv

LEMMA TypesAreFinite == IsFiniteSet(Type)
BY TypesUpTo, FS_Interval

LEMMA InitBitmap == Init => BitmapInv
<1>1. SUFFICES ASSUME Init PROVE BitmapInv
  OBVIOUS
<1>2. /\ rest = Ascending(types) /\ window = None /\ bits = NoBits
      /\ max_byte = 0 /\ out = <<>> /\ done = FALSE
  BY <1>1 DEF Init
<1>3. types \subseteq Type
  <2>1. PICK case \in Case : types = case.types
    BY <1>1 DEF Init
  <2>2. QED
    BY <2>1, DnssecAssumption
<1>4. types \in SUBSET Int /\ IsFiniteSet(types)
  <2>1. Type \subseteq Int
    BY DEF Type
  <2>2. QED
    BY <1>3, <2>1, TypesAreFinite, FS_Subset
<1>5. rest \in Seq(types) /\ Sorted(rest) /\ ToSet(rest) = types
  BY <1>2, <1>4, AscendingSorts DEF Sorted
<1>6. Decoded = {} /\ Gathered = {}
  BY <1>2 DEF Decoded, Gathered
<1>7. NothingLostOrInvented
  BY <1>5, <1>6 DEF NothingLostOrInvented
<1>8. NothingYet /\ WindowIsGathered
  BY <1>2, <1>5 DEF NothingYet, WindowIsGathered
<1>9. WindowsAscend /\ BlocksEndInABit
  BY <1>2 DEF WindowsAscend, BlocksEndInABit
<1>10. RestIsSorted
  BY <1>5 DEF RestIsSorted
<1>11. done \in BOOLEAN /\ ~done
  BY <1>2, Zenon
<1>12. out \in Seq(Block)
  BY <1>2
<1>13. QED
  BY <1>3, <1>7, <1>8, <1>9, <1>10, <1>11, <1>12 DEF BitmapInv

LEMMA BitmapStep == BitmapInv /\ [Next]_vars => BitmapInv'
<1>1. SUFFICES ASSUME BitmapInv, [Next]_vars PROVE BitmapInv'
  OBVIOUS
<1>2. CASE Encode
  BY <1>1, <1>2, EncodeKeeps
<1>3. CASE Finish
  BY <1>1, <1>3, FinishKeeps
<1>4. CASE Tick
  BY <1>1, <1>4, BitmapIsLeft DEF Tick
<1>5. CASE sign_rrsig
  BY <1>1, <1>5, BitmapIsLeft DEF sign_rrsig
<1>6. CASE Expire
  BY <1>1, <1>6, BitmapIsLeft DEF Expire
<1>7. CASE UNCHANGED vars
  BY <1>1, <1>7, BitmapIsLeft DEF vars
<1>8. QED
  BY <1>1, <1>2, <1>3, <1>4, <1>5, <1>6, <1>7 DEF Next

LEMMA BitmapAlways == Spec => []BitmapInv
<1>1. QED
  BY InitBitmap, BitmapStep, PTL DEF Spec

(* Whatever its types, a bitmap's windows ascend and its blocks have at     *)
(* most 32 octets, the last of them with a bit: type_bitmap writes what     *)
(* validators accept (RFC 4034 section 4.1.2).                              *)
THEOREM BlocksAreCanonicalHolds == Spec => []BlocksAreCanonical
<1>1. BitmapInv => BlocksAreCanonical
  BY DEF BitmapInv, WindowsAscend, BlocksEndInABit, EndsInABit, BlocksAreCanonical
<1>2. QED
  BY <1>1, BitmapAlways, PTL

(* Whatever its types, after every turn of type_bitmap's loop the blocks    *)
(* and the window at hand hold the types encoded, and in the end all.       *)
THEOREM NothingIsLost == Spec => []NothingLostOrInvented
<1>1. BitmapInv => NothingLostOrInvented
  BY DEF BitmapInv
<1>2. QED
  BY <1>1, BitmapAlways, PTL

(* A finite set of numbers that is not empty has a maximum: its last in     *)
(* order.                                                                  *)
LEMMA MaxIsThere ==
  ASSUME NEW S \in SUBSET Int, IsFiniteSet(S), S # {}
  PROVE  Max(S) \in S /\ \A y \in S : Max(S) >= y
<1>1. PICK s \in Seq(S) : Sorted(s) /\ ToSet(s) = S
  BY AscendingSorts DEF Sorted
<1>2. PICK n \in Nat : n = Len(s) /\ DOMAIN s = 1..n
  OBVIOUS
<1>3. S = {s[k] : k \in 1..n}
  BY <1>1, <1>2 DEF ToSet
<1>4. n \in 1..n
  BY <1>2, <1>3
<1>5. \A k \in 1..n : s[k] \in Int /\ s[k] \in S
  <2>1. \A k \in 1..n : s[k] \in S
    BY <1>3
  <2>2. QED
    BY <2>1
<1>6. ASSUME NEW y \in S PROVE s[n] >= y
  <2>1. PICK k \in 1..n : y = s[k]
    BY <1>3
  <2>2. k = n \/ k < n
    BY <1>2, <2>1
  <2>3. k < n => s[k] < s[n]
    BY <1>1, <1>2, <1>4 DEF Sorted
  <2>4. s[k] \in Int /\ s[n] \in Int
    BY <1>4, <1>5
  <2>5. QED
    BY <2>1, <2>2, <2>3, <2>4
<1>7. \E x \in S : \A y \in S : x >= y
  BY <1>4, <1>5, <1>6
<1>8. QED
  BY <1>7 DEF Max

(* What a block with an octet e in place i says of its type. *)
LEMMA TypeInBlock ==
  ASSUME NEW w \in 0..255, NEW i \in 0..31, NEW e \in 0..7
  PROVE  /\ TypeAt(w, i, e) \in 0..255 => w = 0
         /\ w = 0 => TypeAt(w, i, e) \div 8 = i
BY DEF TypeAt

LEMMA OctetsOf ==
  ASSUME NEW block \in Block
  PROVE  /\ block.window \in 0..255
         /\ \A i \in DOMAIN block.octets :
              i \in 0..31 /\ \A e \in block.octets[i] : e \in 0..7
<1>1. block.window \in 0..255
  BY BlockWindow
<1>2. PICK last \in -1..31 : block.octets \in [0..last -> Octet]
  BY DEF Block
<1>3. \A i \in DOMAIN block.octets : i \in 0..31 /\ block.octets[i] \in Octet
  <2>1. \A i \in 0..last : i \in 0..31
    OBVIOUS
  <2>2. DOMAIN block.octets = 0..last /\ \A i \in 0..last : block.octets[i] \in Octet
    BY <1>2
  <2>3. QED
    BY <2>1, <2>2
<1>4. \A o \in Octet : \A e \in o : e \in 0..7
  BY DEF Octet
<1>5. QED
  BY <1>1, <1>3, <1>4

(* The bitmap of types below 256 is one block as long as the greatest of    *)
(* them asks: the length by which messages are counted.                     *)
LEMMA LengthOfTheBlock ==
  ASSUME BitmapInv, done, types # {}, types \subseteq 0..255
  PROVE  Len(out) = 1 /\ Cardinality(DOMAIN out[1].octets) = Max(types) \div 8 + 1
<1>1. /\ out \in Seq(Block) /\ WindowsAscend /\ BlocksEndInABit
      /\ rest = <<>> /\ Decoded \cup Gathered = types \ ToSet(rest)
  BY DEF BitmapInv, NothingLostOrInvented
<1>2. Decoded = types
  <2>1. Gathered = {}
    BY DEF Gathered
  <2>2. ToSet(rest) = {}
    BY <1>1 DEF ToSet
  <2>3. QED
    BY <1>1, <2>1, <2>2
<1>3. PICK n \in Nat : n = Len(out) /\ DOMAIN out = 1..n
  BY <1>1
<1>4. \A k \in 1..n : out[k] \in Block
  BY <1>1, <1>3
<1>5. \A x : x \in types <=>
        \E k \in 1..n : \E i \in DOMAIN out[k].octets : \E e \in out[k].octets[i] :
          x = TypeAt(out[k].window, i, e)
  <2>1. \A x : x \in Decoded <=> \E k \in DOMAIN out : x \in TypesIn(out[k].window, out[k].octets)
    BY DEF Decoded
  <2>2. QED
    BY <1>2, <1>3, <2>1, InTypes
<1>6. ASSUME NEW k \in 1..n
      PROVE  /\ out[k].window = 0
             /\ \E last \in 0..31 : /\ DOMAIN out[k].octets = 0..last
                                    /\ \E x \in types : x \div 8 = last
  <2>1. EndsInABit(out[k].octets)
    BY <1>1, <1>3 DEF BlocksEndInABit
  <2>2. PICK last \in 0..31 : DOMAIN out[k].octets = 0..last /\ out[k].octets[last] # {}
    BY <2>1 DEF EndsInABit
  <2>3. PICK e \in out[k].octets[last] : TRUE
    BY <2>2
  <2>4. last \in DOMAIN out[k].octets
    BY <2>2
  <2>5. out[k].window \in 0..255 /\ e \in 0..7
    BY <1>4, <2>3, <2>4, OctetsOf
  <2>6. PICK x : x = TypeAt(out[k].window, last, e)
    OBVIOUS
  <2>7. x \in types
    BY <1>5, <2>3, <2>4, <2>6
  <2>8. TypeAt(out[k].window, last, e) \in 0..255
    BY <2>6, <2>7
  <2>9. out[k].window = 0 /\ TypeAt(out[k].window, last, e) \div 8 = last
    BY <2>5, <2>8, TypeInBlock
  <2>10. QED
    BY <2>2, <2>6, <2>7, <2>9
<1>7. n = 1
  <2>1. n >= 1
    <3>1. \E k \in 1..n : TRUE
      BY <1>5
    <3>2. QED
      BY <1>3, <3>1
  <2>2. ~(n >= 2)
    <3>1. SUFFICES ASSUME n >= 2 PROVE FALSE
      OBVIOUS
    <3>2. 1 \in 1..n /\ 2 \in 1..n
      BY <1>3, <3>1
    <3>3. out[1].window < out[2].window
      BY <1>1, <1>3, <3>2 DEF WindowsAscend
    <3>4. out[1].window = 0 /\ out[2].window = 0
      BY <1>6, <3>2
    <3>5. QED
      BY <3>3, <3>4
  <2>3. QED
    BY <1>3, <2>1, <2>2
<1>8. 1 \in 1..n
  BY <1>7
<1>9. out[1].window = 0
  BY <1>6, <1>8
<1>10. PICK last \in 0..31 : /\ DOMAIN out[1].octets = 0..last
                             /\ \E x \in types : x \div 8 = last
  BY <1>6, <1>8
<1>11. ASSUME NEW y \in types PROVE y \div 8 <= last /\ y \in Int
  <2>1. PICK k \in 1..n :
          \E i \in DOMAIN out[k].octets : \E e \in out[k].octets[i] :
            y = TypeAt(out[k].window, i, e)
    BY <1>5
  <2>2. PICK i \in DOMAIN out[k].octets :
          \E e \in out[k].octets[i] : y = TypeAt(out[k].window, i, e)
    BY <2>1
  <2>3. PICK e \in out[k].octets[i] : y = TypeAt(out[k].window, i, e)
    BY <2>2
  <2>4. k = 1
    BY <1>7
  <2>5. i \in 0..last
    BY <1>10, <2>4
  <2>6. out[k].window \in 0..255 /\ i \in 0..31 /\ e \in 0..7
    BY <1>4, OctetsOf
  <2>7. out[k].window = 0
    BY <1>9, <2>4
  <2>8. y = TypeAt(0, i, e) /\ 0 \in 0..255
    BY <2>7, <2>3
  <2>9. y \div 8 = i
    BY <2>6, <2>8 DEF TypeAt
  <2>10. y \in Int
    BY <2>6, <2>8 DEF TypeAt
  <2>11. QED
    BY <2>5, <2>9, <2>10
<1>12. Max(types) \in types /\ \A y \in types : Max(types) >= y
  <2>1. types \in SUBSET Int
    BY <1>11
  <2>2. IsFiniteSet(types)
    <3>1. types \subseteq Type
      BY DEF BitmapInv
    <3>2. QED
      BY <3>1, TypesAreFinite, FS_Subset
  <2>3. QED
    BY <2>1, <2>2, MaxIsThere
<1>13. Max(types) \div 8 = last
  <2>1. PICK x \in types : x \div 8 = last
    BY <1>10
  <2>2. x \in Int /\ Max(types) \in Int /\ Max(types) >= x /\ Max(types) \div 8 <= last
    BY <1>11, <1>12
  <2>3. \A a, b \in Int : a >= b => a \div 8 >= b \div 8
    OBVIOUS
  <2>4. Max(types) \div 8 >= last /\ Max(types) \div 8 \in Int
    BY <2>1, <2>2, <2>3
  <2>5. QED
    BY <2>2, <2>4
<1>14. Cardinality(0..last) = last + 1
  BY FS_Interval
<1>15. QED
  BY <1>3, <1>7, <1>10, <1>13, <1>14

(* The bitmap of the types this server has is one block, as long as the     *)
(* greatest type asks: what Message!BitmapLen counts.                       *)
THEOREM LengthIsKnownHolds == Spec => []LengthIsKnown
<1>1. BitmapInv => LengthIsKnown
  BY LengthOfTheBlock DEF LengthIsKnown
<1>2. QED
  BY <1>1, BitmapAlways, PTL

-----------------------------------------------------------------------------
(* Times in the circle of Era seconds. *)

LEMMA DivisionIsUnique ==
  ASSUME NEW E \in Nat \ {0}, NEW q \in Int, NEW u \in 0..E - 1,
         NEW a \in Int, a = E * q + u
  PROVE  a \div E = q /\ a % E = u
<1> DEFINE r == a \div E
           v == a % E
           d == q - r
<1>1. a = E * r + v
  BY Z3
<1>2. v \in 0..E - 1 /\ r \in Int
  BY Z3
<1>3. d \in Int /\ E * d = v - u
  <2>1. E * q + u = E * r + v
    BY <1>1
  <2> HIDE DEF r, v
  <2>2. E * (q - r) = E * q - E * r
    BY <1>2
  <2>3. E * q \in Int /\ E * r \in Int
    BY <1>2
  <2>4. QED
    BY <1>2, <2>1, <2>2, <2>3
<1> HIDE DEF r, v, d
<1>4. CASE d >= 1
  <2>1. E * d >= E
    BY <1>3, <1>4
  <2>2. QED
    BY <1>2, <1>3, <2>1
<1>5. CASE d <= -1
  <2>1. E * d <= -E
    BY <1>3, <1>5
  <2>2. QED
    BY <1>2, <1>3, <2>1
<1>6. CASE d = 0
  <2>1. v = u
    <3>1. E * d = 0
      BY <1>6
    <3>2. QED
      BY <1>2, <1>3, <3>1
  <2>2. r = q
    BY <1>2, <1>6 DEF d
  <2>3. QED
    BY <2>1, <2>2 DEF r, v
<1>7. QED
  BY <1>3, <1>4, <1>5, <1>6

LEMMA Division ==
  ASSUME NEW E \in Nat \ {0}, NEW a \in Int
  PROVE  a = E * (a \div E) + (a % E) /\ a % E \in 0..E - 1 /\ a \div E \in Int
BY Z3

(* A time in another era is at least an era away, but for its seconds. *)
LEMMA OtherEras ==
  ASSUME NEW E \in Nat \ {0}, NEW t \in Int, NEW q \in Int, t \div E # q
  PROVE  t >= E * q + E + (t % E) \/ t <= E * q - E + (t % E)
<1> DEFINE r == t \div E
           v == t % E
<1>1. t = E * r + v /\ v \in 0..E - 1 /\ r \in Int /\ r # q
  BY Division
<1> HIDE DEF r, v
<1>2. CASE r >= q + 1
  <2>1. E * r >= E * (q + 1)
    BY <1>1, <1>2
  <2>2. E * (q + 1) = E * q + E
    OBVIOUS
  <2>3. t >= E * q + E + v
    BY <1>1, <2>1, <2>2
  <2>4. QED
    BY <2>3 DEF v
<1>3. CASE r <= q - 1
  <2>1. E * r <= E * (q - 1)
    BY <1>1, <1>3
  <2>2. E * (q - 1) = E * q - E
    OBVIOUS
  <2>3. t <= E * q - E + v
    BY <1>1, <2>1, <2>2
  <2>4. QED
    BY <2>3 DEF v
<1>4. QED
  BY <1>1, <1>2, <1>3

LEMMA Constants ==
  /\ Era \in Nat \ {0} /\ Validity \in Nat /\ Skew \in Nat /\ Ttl \in Nat /\ Drift \in Nat
  /\ Era \div 2 \in Nat /\ Era >= 2 * (Era \div 2) /\ Era - 1 >= Era \div 2
  /\ Validity + Skew + Drift < Era \div 2 /\ Ttl < Era \div 2
<1>1. Era \in Nat /\ Validity \in Nat /\ Skew \in Nat /\ Ttl \in Nat /\ Drift \in Nat
  BY DnssecAssumption
<1>2. Validity + Skew + Drift < Era \div 2 /\ Ttl < Era \div 2
  BY DnssecAssumption
<1>3. \A e \in Nat : e \div 2 \in Nat /\ 2 * (e \div 2) <= e
  OBVIOUS
<1>4. Era \div 2 \in Nat /\ 2 * (Era \div 2) <= Era
  BY <1>1, <1>3
<1>5. Era \div 2 >= 1
  BY <1>1, <1>2, <1>4
<1>6. QED
  BY <1>1, <1>2, <1>4, <1>5

(* When a signature made at m was born. *)
BornAt(m) == IF m < 0 THEN 0 ELSE m

LEMMA SecondsOfTheEra ==
  ASSUME NEW m \in Int
  PROVE  /\ BornAt(m) \in Nat /\ BornAt(m) >= m /\ (m >= 0 => BornAt(m) = m)
         /\ BornAt(m) \div Era \in Int /\ seconds(m) \in 0..Era - 1
         /\ BornAt(m) = Era * (BornAt(m) \div Era) + seconds(m)
<1>1. BornAt(m) \in Nat /\ BornAt(m) >= m /\ (m >= 0 => BornAt(m) = m)
  BY DEF BornAt
<1>2. /\ BornAt(m) = Era * (BornAt(m) \div Era) + (BornAt(m) % Era)
      /\ BornAt(m) % Era \in 0..Era - 1 /\ BornAt(m) \div Era \in Int
  <2>1. PICK born \in Int : born = BornAt(m)
    BY <1>1
  <2>2. QED
    BY <2>1, Division, Constants
<1>3. seconds(m) = BornAt(m) % Era
  <2>1. CASE m < 0
    <3>1. 0 = Era * 0 + 0 /\ 0 \in 0..Era - 1
      BY Constants
    <3>2. 0 % Era = 0
      BY <3>1, DivisionIsUnique, Constants
    <3>3. QED
      BY <2>1, <3>2 DEF seconds, BornAt
  <2>2. CASE ~(m < 0)
    BY <2>2 DEF seconds, BornAt
  <2>3. QED
    BY <2>1, <2>2
<1>4. QED
  BY <1>1, <1>2, <1>3

LEMMA TimesOfASignature ==
  ASSUME NEW m \in Int
  PROVE  /\ inception(m) = IF seconds(m) >= Skew THEN seconds(m) - Skew ELSE 0
         /\ expiration(m) = IF seconds(m) + Validity <= Era - 1
                              THEN seconds(m) + Validity ELSE Era - 1
<1>1. seconds(m) \in Int /\ seconds(m) >= 0 /\ Skew \in Nat /\ Validity \in Nat /\ Era \in Nat
  BY SecondsOfTheEra, Constants
<1>2. inception(m) = IF 0 >= seconds(m) - Skew THEN 0 ELSE seconds(m) - Skew
  BY <1>1, MaxOfTwo DEF inception
<1>3. expiration(m) = IF Era - 1 <= seconds(m) + Validity
                        THEN Era - 1 ELSE seconds(m) + Validity
  BY <1>1, MinOfTwo DEF expiration
<1>4. QED
  BY <1>1, <1>2, <1>3

(* What the circle's comparison says of two numbers of one era. *)
LEMMA NotAfterIs ==
  ASSUME NEW a \in 0..Era - 1, NEW b \in 0..Era - 1
  PROVE  NotAfter(a, b) <=> IF a <= b THEN b - a < Era \div 2 ELSE b - a + Era < Era \div 2
<1>1. Era \in Nat \ {0} /\ b - a \in Int
  BY Constants
<1>2. CASE a <= b
  <2>1. b - a \in 0..Era - 1 /\ b - a = Era * 0 + (b - a)
    BY <1>1, <1>2
  <2>2. (b - a) % Era = b - a
    BY <1>1, <2>1, DivisionIsUnique
  <2>3. QED
    BY <1>2, <2>2 DEF NotAfter
<1>3. CASE ~(a <= b)
  <2>1. b - a + Era \in 0..Era - 1 /\ b - a = Era * (-1) + (b - a + Era)
    BY <1>1, <1>3
  <2>2. (b - a) % Era = b - a + Era
    BY <1>1, <2>1, DivisionIsUnique
  <2>3. QED
    BY <1>3, <2>2 DEF NotAfter
<1>4. QED
  BY <1>2, <1>3

Valid(m, t) == NotAfter(inception(m), t % Era) /\ NotAfter(t % Era, expiration(m))

(* The two times of a signature are less than half a circle apart: whoever *)
(* passes both comparisons is between them.                                *)
LEMMA ValidIs ==
  ASSUME NEW m \in Int, NEW t \in Int
  PROVE  Valid(m, t) <=> inception(m) <= t % Era /\ t % Era <= expiration(m)
<1> DEFINE s == seconds(m)
           u == t % Era
           inc == inception(m)
           exp == expiration(m)
<1>1. s \in 0..Era - 1
  BY SecondsOfTheEra
<1>2. u \in 0..Era - 1
  BY Division, Constants
<1>3. /\ inc = IF s >= Skew THEN s - Skew ELSE 0
      /\ exp = IF s + Validity <= Era - 1 THEN s + Validity ELSE Era - 1
  BY TimesOfASignature
<1>4. Valid(m, t) <=> NotAfter(inc, u) /\ NotAfter(u, exp)
  BY DEF Valid
<1> HIDE DEF s, u, inc, exp
<1>5. /\ inc \in 0..Era - 1 /\ exp \in 0..Era - 1
      /\ inc <= exp /\ exp - inc < Era \div 2
  BY <1>1, <1>3, Constants
<1>6. /\ NotAfter(inc, u) <=> IF inc <= u THEN u - inc < Era \div 2
                                           ELSE u - inc + Era < Era \div 2
      /\ NotAfter(u, exp) <=> IF u <= exp THEN exp - u < Era \div 2
                                           ELSE exp - u + Era < Era \div 2
  BY <1>2, <1>5, NotAfterIs
<1>7. NotAfter(inc, u) /\ NotAfter(u, exp) <=> inc <= u /\ u <= exp
  <2>1. CASE inc <= u /\ u <= exp
    <3>1. u - inc < Era \div 2 /\ exp - u < Era \div 2
      BY <1>2, <1>5, <2>1, Constants
    <3>2. QED
      BY <1>6, <2>1, <3>1
  <2>2. CASE u < inc
    BY <1>2, <1>5, <1>6, <2>2, Constants
  <2>3. CASE u > exp
    BY <1>2, <1>5, <1>6, <2>3, Constants
  <2>4. QED
    BY <1>2, <1>5, <2>1, <2>2, <2>3
<1>8. QED
  BY <1>4, <1>7 DEF u, inc, exp

(* Validators are nearer to the birth of a signature than an era less its  *)
(* span, so another era's seconds never fall between its times.            *)
LEMMA ValidWhen ==
  ASSUME NEW m \in Int, NEW t \in Int,
         t >= 0, m - Drift <= t, t <= m + Ttl + Drift
  PROVE  Valid(m, t) <=> /\ t \div Era = BornAt(m) \div Era
                         /\ t \in BornAt(m) - Skew .. BornAt(m) + Validity
<1> DEFINE s == seconds(m)
           u == t % Era
           born == BornAt(m)
           q == BornAt(m) \div Era
<1>1. born \in Nat /\ born >= m /\ (m >= 0 => born = m) /\ q \in Int /\ s \in 0..Era - 1
  BY SecondsOfTheEra
<1>2. PICK b \in Int : b = Era * q /\ born = b + s
  BY <1>1, SecondsOfTheEra, Constants
<1>3. u \in 0..Era - 1 /\ t = Era * (t \div Era) + u
  BY Division, Constants
<1>4. Valid(m, t) <=>
        /\ (IF s >= Skew THEN s - Skew ELSE 0) <= u
        /\ u <= IF s + Validity <= Era - 1 THEN s + Validity ELSE Era - 1
  BY ValidIs, TimesOfASignature
<1>5. t \div Era # q => t >= b + Era + u \/ t <= b - Era + u
  <2>1. t \div Era # q => t >= Era * q + Era + u \/ t <= Era * q - Era + u
    BY <1>1, OtherEras, Constants
  <2>2. QED
    BY <1>2, <2>1
<1> HIDE DEF s, u, born, q
<1>6. born - Drift <= t /\ t <= born + Ttl + Drift
  <2>1. CASE m >= 0
    BY <1>1, <2>1
  <2>2. CASE m < 0
    <3>1. born = 0
      BY <2>2 DEF born, BornAt
    <3>2. QED
      BY <2>2, <3>1, Constants
  <2>3. QED
    BY <2>1, <2>2
<1>7. CASE t \div Era = q
  <2>1. t = b + u
    BY <1>2, <1>3, <1>7
  <2>2. Valid(m, t) <=> t >= born - Skew /\ t <= born + Validity
    BY <1>1, <1>2, <1>3, <1>4, <2>1, Constants
  <2>3. QED
    BY <1>1, <1>7, <2>2, Constants DEF born, q
<1>8. CASE t \div Era # q
  <2>1. ~Valid(m, t)
    <3>1. SUFFICES ASSUME Valid(m, t) PROVE FALSE
      OBVIOUS
    <3>2. s - Skew <= u /\ u <= s + Validity
      BY <1>1, <1>3, <1>4, <3>1, Constants
    <3>3. CASE t >= b + Era + u
      BY <1>1, <1>2, <1>3, <1>6, <3>2, <3>3, Constants
    <3>4. CASE t <= b - Era + u
      BY <1>1, <1>2, <1>3, <1>6, <3>2, <3>4, Constants
    <3>5. QED
      BY <1>5, <1>8, <3>3, <3>4
  <2>2. QED
    BY <1>8, <2>1 DEF q
<1>9. QED
  BY <1>7, <1>8

LEMMA UseTimesAre ==
  ASSUME now \in Int, made \in Int, NEW t \in UseTimes
  PROVE  t \in Int /\ t >= 0 /\ made - Drift <= t /\ t <= made + Ttl + Drift
<1>1. Min({now, made + Ttl}) = IF now <= made + Ttl THEN now ELSE made + Ttl
  BY Constants, MinOfTwo
<1>2. PICK last \in Int : last = Min({now, made + Ttl}) /\ last <= made + Ttl
  BY <1>1, Constants
<1>3. t \in made - Drift .. last + Drift /\ t >= 0
  BY <1>2 DEF UseTimes
<1>4. QED
  BY <1>2, <1>3, Constants

LEMMA SignedStep == SignedInv /\ [Next]_vars => SignedInv'
<1>1. SUFFICES ASSUME SignedInv, [Next]_vars PROVE SignedInv'
  OBVIOUS
<1>2. /\ now \in Int /\ made \in Int /\ made <= now
      /\ rrsig # None =>
           rrsig = [key_tag |-> key_tag(rdata),
                    inception |-> inception(made), expiration |-> expiration(made)]
  BY <1>1 DEF SignedInv
<1>3. CASE UNCHANGED signed
  BY <1>2, <1>3 DEF signed, SignedInv
<1>4. CASE Tick
  <2>1. now' = now + 1 /\ made' = made /\ rrsig' = rrsig /\ rdata' = rdata
    BY <1>4 DEF Tick
  <2>2. now' \in Int /\ made' <= now'
    BY <1>2, <2>1
  <2>3. QED
    BY <1>2, <2>1, <2>2 DEF SignedInv
<1>5. CASE sign_rrsig
  <2>1. /\ now' = now /\ made' = now /\ rdata' = rdata
        /\ rrsig' = [key_tag |-> key_tag(rdata),
                     inception |-> inception(now), expiration |-> expiration(now)]
    BY <1>5 DEF sign_rrsig
  <2>2. QED
    BY <1>2, <2>1 DEF SignedInv
<1>6. CASE Expire
  BY <1>2, <1>6 DEF Expire, SignedInv
<1>7. QED
  BY <1>1, <1>3, <1>4, <1>5, <1>6 DEF Next, Encode, Finish, vars

LEMMA SignedInit == Init => SignedInv
<1>1. SUFFICES ASSUME Init PROVE SignedInv
  OBVIOUS
<1>2. PICK case \in Case : now = case.time
  BY <1>1 DEF Init
<1>3. now \in Int
  BY <1>2, DnssecAssumption
<1>4. rrsig = None /\ made = now
  BY <1>1 DEF Init
<1>5. QED
  BY <1>3, <1>4 DEF SignedInv

LEMMA SignedAlways == Spec => []SignedInv
<1>1. QED
  BY SignedInit, SignedStep, PTL DEF Spec

(* For any length of an era, any validity, skew and clock drift that are   *)
(* together less than half of it, any TTL that is, longer than the validity *)
(* or not, and at any time: a cached signature is good to a validator      *)
(* exactly in the era it was made in, from Skew before to Validity after.  *)
(* The saturation of signature_times is harmful at the end of an era and   *)
(* nowhere else, and no signature comes back to life on the circle.        *)
THEOREM SignaturesHold == Spec => []HoldsInTimeAndEra
<1>1. ASSUME SignedInv, rrsig # None, NEW t \in UseTimes
      PROVE  ValidAt(t) <=> t \div Era = Born \div Era /\ t \in Born - Skew .. Born + Validity
  <2>1. now \in Int /\ made \in Int
    BY <1>1 DEF SignedInv
  <2>2. rrsig.inception = inception(made) /\ rrsig.expiration = expiration(made)
    BY <1>1 DEF SignedInv
  <2>3. ValidAt(t) <=> Valid(made, t)
    BY <2>2 DEF ValidAt, Valid
  <2>4. t \in Int /\ t >= 0 /\ made - Drift <= t /\ t <= made + Ttl + Drift
    BY <1>1, <2>1, UseTimesAre
  <2>5. QED
    BY <2>1, <2>3, <2>4, ValidWhen DEF Born, BornAt
<1>2. SignedInv => HoldsInTimeAndEra
  BY <1>1 DEF HoldsInTimeAndEra
<1>3. QED
  BY <1>2, SignedAlways, PTL

(* A set of sets of numbers up to n with the empty one, and with every set *)
(* that becomes one of its members wherever a number is taken out of it.   *)
LEMMA SubsetInduction ==
  ASSUME NEW n \in Nat, NEW T \in SUBSET SUBSET (1..n), {} \in T,
         \A u \in SUBSET (1..n) : u # {} /\ (\A x \in u : u \ {x} \in T) => u \in T
  PROVE  T = SUBSET (1..n)
<1> DEFINE Sized(k) == \A u \in SUBSET (1..n) : Cardinality(u) = k => u \in T
           N == {k \in Nat : Sized(k)}
<1>1. \A u \in SUBSET (1..n) : IsFiniteSet(u) /\ Cardinality(u) \in Nat
  <2>1. SUFFICES ASSUME NEW u \in SUBSET (1..n)
                 PROVE  IsFiniteSet(u) /\ Cardinality(u) \in Nat
    OBVIOUS
  <2>2. IsFiniteSet(1..n)
    BY FS_Interval
  <2>3. IsFiniteSet(u)
    BY <2>2, FS_Subset
  <2>4. QED
    BY <2>3, FS_CardinalityType
<1>2. Sized(0)
  <2>1. \A u \in SUBSET (1..n) : Cardinality(u) = 0 => u = {}
    BY <1>1, FS_EmptySet
  <2>2. QED
    BY <2>1
<1>3. ASSUME NEW k \in Nat, Sized(k) PROVE Sized(k + 1)
  <2>1. SUFFICES ASSUME NEW u \in SUBSET (1..n), Cardinality(u) = k + 1 PROVE u \in T
    OBVIOUS
  <2>2. u # {}
    <3>1. k + 1 # 0
      OBVIOUS
    <3>2. QED
      BY <2>1, <3>1, FS_EmptySet
  <2>3. ASSUME NEW x \in u PROVE u \ {x} \in T
    <3>1. Cardinality(u \ {x}) = Cardinality(u) - 1
      BY <1>1, FS_RemoveElement
    <3>2. Cardinality(u \ {x}) = k
      BY <2>1, <3>1
    <3>3. u \ {x} \in SUBSET (1..n)
      OBVIOUS
    <3>4. QED
      BY <1>3, <3>2, <3>3
  <2>4. QED
    BY <2>2, <2>3
<1> HIDE DEF Sized
<1>4. N \in SUBSET Nat /\ 0 \in N /\ \A k \in N : k + 1 \in N
  BY <1>2, <1>3
<1> HIDE DEF N
<1>5. N = Nat
  BY <1>4, SetInduction
<1>6. \A u \in SUBSET (1..n) : u \in T
  <2>1. SUFFICES ASSUME NEW u \in SUBSET (1..n) PROVE u \in T
    OBVIOUS
  <2>2. Cardinality(u) \in N
    BY <1>1, <1>5
  <2>3. QED
    BY <2>2 DEF N, Sized
<1>7. QED
  BY <1>6

(* f adds up weights: an element adds its own, in whatever order. *)
Adds(f, w, n) ==
  /\ f \in [SUBSET (1..n) -> Nat]
  /\ f[{}] = 0
  /\ \A u \in SUBSET (1..n) : \A x \in u : f[u] = w[x] + f[u \ {x}]

LEMMA SumExists ==
  ASSUME NEW n \in Nat, NEW w \in [1..n -> Nat]
  PROVE  \E f : Adds(f, w, n)
<1> DEFINE Some(k) == k <= n => \E f : Adds(f, w, k)
           N == {k \in Nat : Some(k)}
<1>1. Some(0)
  <2>1. PICK f : f = [u \in SUBSET (1..0) |-> 0]
    OBVIOUS
  <2>2. \A u \in SUBSET (1..0) : u = {} /\ f[u] = 0
    BY <2>1
  <2>3. {} \in SUBSET (1..0)
    OBVIOUS
  <2>4. f \in [SUBSET (1..0) -> Nat]
    BY <2>1
  <2>5. Adds(f, w, 0)
    BY <2>2, <2>3, <2>4 DEF Adds
  <2>6. QED
    BY <2>5
<1>2. ASSUME NEW k \in Nat, Some(k) PROVE Some(k + 1)
  <2>1. SUFFICES ASSUME k + 1 <= n PROVE \E g : Adds(g, w, k + 1)
    OBVIOUS
  <2>2. PICK f : Adds(f, w, k)
    <3>1. k <= n
      BY <2>1
    <3>2. QED
      BY <1>2, <3>1
  <2>3. /\ f \in [SUBSET (1..k) -> Nat] /\ f[{}] = 0
        /\ \A u \in SUBSET (1..k) : \A x \in u : f[u] = w[x] + f[u \ {x}]
    BY <2>2 DEF Adds
  <2>4. PICK m \in Nat : m = k + 1
    OBVIOUS
  <2>5. m \in 1..n /\ 1..m = 1..k \cup {m} /\ m \notin 1..k
    BY <2>1, <2>4
  <2>6. PICK wm \in Nat : wm = w[m]
    BY <2>5
  <2>7. PICK g : g = [u \in SUBSET (1..m) |-> IF m \in u THEN wm + f[u \ {m}] ELSE f[u]]
    OBVIOUS
  <2>8. ASSUME NEW u \in SUBSET (1..m)
        PROVE  /\ m \in u => u \ {m} \in SUBSET (1..k) /\ g[u] = wm + f[u \ {m}]
               /\ m \notin u => u \in SUBSET (1..k) /\ g[u] = f[u]
               /\ g[u] \in Nat
    <3>1. m \in u => u \ {m} \in SUBSET (1..k) /\ g[u] = wm + f[u \ {m}]
      BY <2>5, <2>7
    <3>2. m \notin u => u \in SUBSET (1..k) /\ g[u] = f[u]
      BY <2>5, <2>7
    <3>3. g[u] \in Nat
      <4>1. CASE m \in u
        <5>1. f[u \ {m}] \in Nat
          BY <2>3, <3>1, <4>1
        <5>2. QED
          BY <3>1, <4>1, <5>1
      <4>2. CASE m \notin u
        BY <2>3, <3>2, <4>2
      <4>3. QED
        BY <4>1, <4>2
    <3>4. QED
      BY <3>1, <3>2, <3>3
  <2>9. ASSUME NEW u \in SUBSET (1..m), NEW x \in u PROVE g[u] = w[x] + g[u \ {x}]
    <3>1. u \ {x} \in SUBSET (1..m)
      OBVIOUS
    <3>2. CASE x = m
      <4>1. m \notin u \ {x}
        BY <3>2
      <4>2. g[u \ {x}] = f[u \ {x}]
        BY <2>8, <3>1, <4>1
      <4>3. g[u] = wm + f[u \ {m}]
        BY <2>8, <3>2
      <4>4. QED
        BY <2>6, <3>2, <4>2, <4>3
    <3>3. CASE x # m /\ m \in u
      <4>1. m \in u \ {x} /\ x \in u \ {m} /\ u \ {m} \in SUBSET (1..k)
        BY <2>8, <3>3
      <4>2. g[u] = wm + f[u \ {m}] /\ g[u \ {x}] = wm + f[(u \ {x}) \ {m}]
        BY <2>8, <3>1, <3>3, <4>1
      <4>3. f[u \ {m}] = w[x] + f[(u \ {m}) \ {x}]
        BY <2>3, <4>1
      <4>4. (u \ {x}) \ {m} = (u \ {m}) \ {x}
        OBVIOUS
      <4>5. PICK r \in Nat : r = f[(u \ {m}) \ {x}]
        <5>1. (u \ {m}) \ {x} \in SUBSET (1..k)
          BY <4>1
        <5>2. QED
          BY <2>3, <5>1
      <4>6. PICK wx \in Nat : wx = w[x]
        <5>1. x \in 1..n
          BY <2>1, <2>4
        <5>2. QED
          BY <5>1
      <4>7. g[u] = wm + (wx + r) /\ g[u \ {x}] = wm + r
        BY <4>2, <4>3, <4>4, <4>5, <4>6
      <4>8. wm + (wx + r) = wx + (wm + r)
        OBVIOUS
      <4>9. QED
        BY <4>6, <4>7, <4>8
    <3>4. CASE m \notin u
      <4>1. u \in SUBSET (1..k) /\ g[u] = f[u] /\ g[u \ {x}] = f[u \ {x}]
        <5>1. m \notin u \ {x}
          BY <3>4
        <5>2. QED
          BY <2>8, <3>1, <3>4, <5>1
      <4>2. QED
        BY <2>3, <4>1
    <3>5. QED
      BY <3>2, <3>3, <3>4
  <2>10. g[{}] = 0
    <3>1. {} \in SUBSET (1..m) /\ m \notin {}
      OBVIOUS
    <3>2. QED
      BY <2>3, <2>8, <3>1
  <2>11. g \in [SUBSET (1..m) -> Nat]
    BY <2>7, <2>8
  <2>12. Adds(g, w, m)
    BY <2>9, <2>10, <2>11 DEF Adds
  <2>13. QED
    BY <2>4, <2>12
<1> HIDE DEF Some
<1>3. N \in SUBSET Nat /\ 0 \in N /\ \A k \in N : k + 1 \in N
  BY <1>1, <1>2
<1> HIDE DEF N
<1>4. N = Nat
  BY <1>3, SetInduction
<1>5. Some(n)
  BY <1>4 DEF N
<1>6. QED
  BY <1>5 DEF Some

(* What octet i adds to the tag, and word k of the RDATA. *)
Weight(d, i) == IF i % 2 = 1 THEN d[i] * 256 ELSE d[i]

Word(d, k) == d[2 * k - 1] * 256 + d[2 * k]

(* f is how MapThenSumSet adds the weights, one chosen after another. *)
SumStep(f, d, u) ==
  IF u = {} THEN 0 ELSE LET x == CHOOSE x \in u : TRUE IN Weight(d, x) + f[u \ {x}]

SumIs(f, d) == f = [u \in SUBSET DOMAIN d |-> SumStep(f, d, u)]

Plain(d) == (CHOOSE f : SumIs(f, d))[DOMAIN d]

LEMMA TagIs ==
  ASSUME NEW d
  PROVE  key_tag(d) = (Plain(d) + (Plain(d) \div 65536)) % 65536
BY DEF key_tag, MapThenSumSet, MapThenFoldSet, Plain, SumIs, SumStep, Weight

LEMMA SumAt ==
  ASSUME NEW f, NEW d, SumIs(f, d), NEW u \in SUBSET DOMAIN d
  PROVE  f[u] = SumStep(f, d, u)
BY DEF SumIs

(* f is how FoldLeft adds the words in 16 bits, and the carries beside. *)
Carry(acc, word) == <<(acc[1] + word) % 65536, acc[2] + (acc[1] + word) \div 65536>>

Numbers(d) == [k \in 1..Len(d) \div 2 |-> k]

WordStep(f, d, u) ==
  IF u = {} THEN <<0, 0>> ELSE Carry(f[u \ {Max(u)}], Word(d, Numbers(d)[Max(u)]))

WordsAre(f, d) == f = [u \in SUBSET DOMAIN Numbers(d) |-> WordStep(f, d, u)]

Words(d) == (CHOOSE f : WordsAre(f, d))[DOMAIN Numbers(d)]

LEMMA TagBySumIs ==
  ASSUME NEW d
  PROVE  TagBySum(d) = (Words(d)[1] + Words(d)[2]) % 65536
BY DEF TagBySum, FoldLeft, MapThenFoldSet, Words, WordsAre, WordStep, Carry, Word, Numbers

LEMMA WordAt ==
  ASSUME NEW f, NEW d, WordsAre(f, d), NEW u \in SUBSET DOMAIN Numbers(d)
  PROVE  f[u] = WordStep(f, d, u)
BY DEF WordsAre

(* w holds the weights of the octets of d, and v is w in pairs. *)
Weighs(w, d, n) == \A i \in 1..n : w[i] = Weight(d, i)

Pairs(v, w, m) == \A k \in 1..m : v[k] = w[2 * k - 1] + w[2 * k]

Halves(f, w, n, h, v, m) ==
  /\ n \in Nat /\ w \in [1..n -> Nat] /\ Adds(f, w, n)
  /\ m \in Nat /\ v \in [1..m -> Nat] /\ Adds(h, v, m)
  /\ n = 2 * m /\ Pairs(v, w, m)

LEMMA PlainAdds ==
  ASSUME NEW d, NEW n \in Nat, DOMAIN d = 1..n, NEW f, NEW w \in [1..n -> Nat],
         Weighs(w, d, n), Adds(f, w, n)
  PROVE  Plain(d) = f[1..n]
<1>1. /\ f \in [SUBSET (1..n) -> Nat] /\ f[{}] = 0
      /\ \A u \in SUBSET (1..n) : \A x \in u : f[u] = w[x] + f[u \ {x}]
  BY DEF Adds
<1>2. ASSUME NEW u \in SUBSET (1..n) PROVE f[u] = SumStep(f, d, u)
  <2>1. CASE u = {}
    BY <1>1, <2>1 DEF SumStep
  <2>2. CASE u # {}
    <3>1. PICK x \in u : x = CHOOSE y \in u : TRUE
      BY <2>2
    <3>2. f[u] = Weight(d, x) + f[u \ {x}]
      <4>1. f[u] = w[x] + f[u \ {x}]
        BY <1>1
      <4>2. QED
        BY <4>1 DEF Weighs
    <3>3. QED
      BY <2>2, <3>1, <3>2 DEF SumStep
  <2>3. QED
    BY <2>1, <2>2
<1>3. SumIs(f, d)
  BY <1>1, <1>2 DEF SumIs
<1>4. PICK g : SumIs(g, d) /\ Plain(d) = g[1..n]
  BY <1>3 DEF Plain
<1> DEFINE T == {u \in SUBSET (1..n) : f[u] = g[u]}
<1>5. {} \in T
  <2>1. {} \in SUBSET DOMAIN d
    OBVIOUS
  <2>2. f[{}] = 0 /\ g[{}] = 0
    BY <1>3, <1>4, <2>1, SumAt DEF SumStep
  <2>3. QED
    BY <2>1, <2>2
<1>6. ASSUME NEW u \in SUBSET (1..n), u # {}, \A x \in u : u \ {x} \in T PROVE u \in T
  <2>1. PICK x \in u : x = CHOOSE y \in u : TRUE
    BY <1>6
  <2>2. f[u \ {x}] = g[u \ {x}]
    BY <1>6
  <2>3. f[u] = SumStep(f, d, u) /\ g[u] = SumStep(g, d, u)
    BY <1>3, <1>4, SumAt
  <2>4. SumStep(f, d, u) = Weight(d, x) + f[u \ {x}] /\ SumStep(g, d, u) = Weight(d, x) + g[u \ {x}]
    BY <1>6, <2>1 DEF SumStep
  <2>5. QED
    BY <2>2, <2>3, <2>4
<1>7. T \in SUBSET SUBSET (1..n)
  OBVIOUS
<1> HIDE DEF T
<1>8. T = SUBSET (1..n)
  BY <1>5, <1>6, <1>7, SubsetInduction
<1>9. 1..n \in SUBSET (1..n)
  OBVIOUS
<1>10. QED
  BY <1>4, <1>8, <1>9 DEF T

LEMMA CarryKeeps ==
  ASSUME NEW a \in Nat, NEW word \in Nat
  PROVE  /\ ((a % 65536) + word) % 65536 = (word + a) % 65536
         /\ (a \div 65536) + ((a % 65536) + word) \div 65536 = (word + a) \div 65536
OBVIOUS

(* A sum as its low 16 bits and its carries. *)
Carried(sum) == <<sum % 65536, sum \div 65536>>

LEMMA WordsAdd ==
  ASSUME NEW d, NEW m \in Nat, m = Len(d) \div 2, NEW h, NEW w \in [1..m -> Nat],
         \A k \in 1..m : w[k] = Word(d, k), Adds(h, w, m)
  PROVE  Words(d) = Carried(h[1..m])
<1>1. /\ h \in [SUBSET (1..m) -> Nat] /\ h[{}] = 0
      /\ \A u \in SUBSET (1..m) : \A x \in u : h[u] = w[x] + h[u \ {x}]
  BY DEF Adds
<1>2. DOMAIN Numbers(d) = 1..m /\ \A k \in 1..m : Numbers(d)[k] = k
  BY DEF Numbers
<1>3. PICK f : f = [u \in SUBSET (1..m) |-> Carried(h[u])]
  OBVIOUS
<1>4. ASSUME NEW u \in SUBSET (1..m), u # {}
      PROVE  \E x \in u : x = Max(u) /\ x \in 1..m /\ u \ {x} \in SUBSET (1..m)
  <2>1. Max(u) \in u
    BY <1>4, MaxIs
  <2>2. QED
    BY <2>1
<1>5. ASSUME NEW u \in SUBSET (1..m) PROVE f[u] = WordStep(f, d, u)
  <2>1. CASE u = {}
    <3>1. f[u] = Carried(0)
      BY <1>1, <1>3, <2>1
    <3>2. Carried(0) = <<0, 0>>
      BY DEF Carried
    <3>3. QED
      BY <2>1, <3>1, <3>2 DEF WordStep
  <2>2. CASE u # {}
    <3>1. PICK x \in u : x = Max(u) /\ x \in 1..m /\ u \ {x} \in SUBSET (1..m)
      BY <1>4, <2>2
    <3>2. PICK a \in Nat : a = h[u \ {x}]
      BY <1>1, <3>1
    <3>3. PICK word \in Nat : word = Word(d, x) /\ word = w[x]
      BY <3>1
    <3>4. h[u] = word + a
      <4>1. h[u] = w[x] + h[u \ {x}]
        BY <1>1
      <4>2. QED
        BY <3>2, <3>3, <4>1
    <3>5. f[u] = Carried(word + a) /\ f[u \ {x}] = Carried(a)
      BY <1>3, <3>1, <3>2, <3>4
    <3>6. Carry(Carried(a), word) = Carried(word + a)
      BY CarryKeeps DEF Carry, Carried
    <3>7. WordStep(f, d, u) = Carry(f[u \ {x}], word)
      BY <1>2, <2>2, <3>1, <3>3 DEF WordStep
    <3>8. QED
      BY <3>5, <3>6, <3>7
  <2>3. QED
    BY <2>1, <2>2
<1>6. WordsAre(f, d)
  BY <1>2, <1>3, <1>5 DEF WordsAre
<1>7. PICK g : WordsAre(g, d) /\ Words(d) = g[1..m]
  BY <1>2, <1>6 DEF Words
<1> DEFINE T == {u \in SUBSET (1..m) : f[u] = g[u]}
<1>8. {} \in T
  <2>1. {} \in SUBSET (1..m)
    OBVIOUS
  <2>2. f[{}] = <<0, 0>> /\ g[{}] = <<0, 0>>
    BY <1>2, <1>6, <1>7, <2>1, WordAt DEF WordStep
  <2>3. QED
    BY <2>1, <2>2
<1>9. ASSUME NEW u \in SUBSET (1..m), u # {}, \A x \in u : u \ {x} \in T PROVE u \in T
  <2>1. PICK x \in u : x = Max(u)
    BY <1>4, <1>9
  <2>2. f[u \ {x}] = g[u \ {x}]
    BY <1>9
  <2>3. f[u] = WordStep(f, d, u) /\ g[u] = WordStep(g, d, u)
    BY <1>2, <1>6, <1>7, WordAt
  <2>4. QED
    BY <1>9, <2>1, <2>2, <2>3 DEF WordStep
<1>10. T \in SUBSET SUBSET (1..m)
  OBVIOUS
<1> HIDE DEF T
<1>11. T = SUBSET (1..m)
  BY <1>8, <1>9, <1>10, SubsetInduction
<1>12. 1..m \in SUBSET (1..m)
  OBVIOUS
<1>13. f[1..m] = g[1..m]
  BY <1>11, <1>12 DEF T
<1>14. QED
  BY <1>3, <1>7, <1>12, <1>13

LEMMA LastOff ==
  ASSUME NEW i \in Nat, NEW j \in Nat, j = i + 1
  PROVE  (1..j) \ {j} = 1..i
OBVIOUS

(* Two weights make a word. *)
LEMMA SumsAgree ==
  ASSUME NEW m, NEW n, NEW w, NEW v, NEW f, NEW h, Halves(f, w, n, h, v, m)
  PROVE  f[1..n] = h[1..m]
<1>1. /\ n \in Nat /\ w \in [1..n -> Nat] /\ m \in Nat /\ v \in [1..m -> Nat] /\ n = 2 * m
      /\ Pairs(v, w, m)
  BY DEF Halves
<1> DEFINE N == {k \in Nat : k <= m => f[1..2 * k] = h[1..k]}
<1>2. /\ f \in [SUBSET (1..n) -> Nat] /\ f[{}] = 0
      /\ \A u \in SUBSET (1..n) : \A x \in u : f[u] = w[x] + f[u \ {x}]
      /\ h \in [SUBSET (1..m) -> Nat] /\ h[{}] = 0
      /\ \A u \in SUBSET (1..m) : \A x \in u : h[u] = v[x] + h[u \ {x}]
  BY DEF Adds, Halves
<1>3. 0 \in N
  <2>1. 1..2 * 0 = {} /\ 1..0 = {}
    OBVIOUS
  <2>2. QED
    BY <1>2, <2>1
<1>4. ASSUME NEW k \in N PROVE k + 1 \in N
  <2>1. SUFFICES ASSUME k + 1 <= m PROVE f[1..2 * (k + 1)] = h[1..k + 1]
    OBVIOUS
  <2>2. k \in Nat /\ f[1..2 * k] = h[1..k]
    BY <1>1, <2>1
  <2>3. PICK a \in Nat, b \in Nat, j \in Nat : j = k + 1 /\ a = 2 * j - 1 /\ b = 2 * j
    <3>1. k + 1 \in Nat /\ 2 * (k + 1) - 1 \in Nat /\ 2 * (k + 1) \in Nat
      BY <2>2
    <3>2. QED
      BY <3>1
  <2>4. /\ a \in 1..n /\ b \in 1..n /\ j \in 1..m
        /\ 1..b \in SUBSET (1..n) /\ 1..a \in SUBSET (1..n) /\ 1..2 * k \in SUBSET (1..n)
        /\ 1..j \in SUBSET (1..m) /\ 1..k \in SUBSET (1..m)
    BY <1>1, <2>1, <2>2, <2>3
  <2>5. (1..b) \ {b} = 1..a /\ (1..a) \ {a} = 1..2 * k /\ (1..j) \ {j} = 1..k
    <3>1. b = a + 1 /\ a = 2 * k + 1 /\ 2 * k \in Nat
      BY <2>2, <2>3
    <3>2. (1..b) \ {b} = 1..a
      BY <3>1, LastOff
    <3>3. (1..a) \ {a} = 1..2 * k
      BY <3>1, LastOff
    <3>4. (1..j) \ {j} = 1..k
      BY <2>2, <2>3, LastOff
    <3>5. QED
      BY <3>2, <3>3, <3>4
  <2>6. b \in 1..b /\ a \in 1..a /\ j \in 1..j
    BY <2>3
  <2>7. f[1..b] = w[b] + f[1..a] /\ f[1..a] = w[a] + f[1..2 * k] /\ h[1..j] = v[j] + h[1..k]
    <3>1. f[1..b] = w[b] + f[(1..b) \ {b}]
      BY <1>2, <2>4, <2>6
    <3>2. f[1..a] = w[a] + f[(1..a) \ {a}]
      BY <1>2, <2>4, <2>6
    <3>3. h[1..j] = v[j] + h[(1..j) \ {j}]
      BY <1>2, <2>4, <2>6
    <3>4. QED
      BY <2>5, <3>1, <3>2, <3>3
  <2>8. PICK wa \in Nat, wb \in Nat, r \in Nat : wa = w[a] /\ wb = w[b] /\ r = h[1..k]
    BY <1>1, <1>2, <2>4
  <2>9. v[j] = wa + wb
    BY <1>1, <2>3, <2>4, <2>8 DEF Pairs
  <2>10. f[1..b] = wb + (wa + r) /\ h[1..j] = (wa + wb) + r
    BY <2>2, <2>7, <2>8, <2>9
  <2>11. wb + (wa + r) = (wa + wb) + r
    OBVIOUS
  <2>12. QED
    BY <2>3, <2>10, <2>11
<1>5. N \in SUBSET Nat
  OBVIOUS
<1> HIDE DEF N
<1>6. N = Nat
  BY <1>3, <1>4, <1>5, SetInduction
<1>7. m <= m => f[1..2 * m] = h[1..m]
  BY <1>1, <1>6 DEF N
<1>8. QED
  BY <1>7, <1>1

(* A DNSKEY of an even number of octets, as every key of P-256 makes: both *)
(* ways of adding up its octets give one tag.                              *)
LEMMA TagsAgree ==
  ASSUME NEW d \in Seq(0..255), Len(d) % 2 = 0
  PROVE  key_tag(d) = TagBySum(d)
<1>1. PICK n \in Nat : n = Len(d) /\ DOMAIN d = 1..n
  OBVIOUS
<1>2. PICK m \in Nat : n = 2 * m /\ m = Len(d) \div 2
  <2>1. n \div 2 \in Nat /\ n = 2 * (n \div 2)
    BY <1>1
  <2>2. QED
    BY <1>1, <2>1
<1>3. ASSUME NEW i \in 1..n PROVE d[i] \in Nat /\ Weight(d, i) \in Nat
  <2>1. PICK o \in Nat : o = d[i]
    BY <1>1
  <2>2. Weight(d, i) = IF i % 2 = 1 THEN o * 256 ELSE o
    BY <2>1 DEF Weight
  <2>3. o * 256 \in Nat
    OBVIOUS
  <2>4. QED
    BY <2>1, <2>2, <2>3
<1>4. ASSUME NEW k \in 1..m
      PROVE  /\ 2 * k - 1 \in 1..n /\ 2 * k \in 1..n
             /\ Word(d, k) = Weight(d, 2 * k - 1) + Weight(d, 2 * k)
  <2>1. PICK a \in 1..n, b \in 1..n : a = 2 * k - 1 /\ b = 2 * k
    <3>1. 2 * k - 1 \in 1..n /\ 2 * k \in 1..n
      BY <1>2
    <3>2. QED
      BY <3>1
  <2>2. a % 2 = 1 /\ b % 2 # 1
    BY <2>1
  <2>3. Weight(d, a) = d[a] * 256 /\ Weight(d, b) = d[b]
    BY <2>2 DEF Weight
  <2>4. Word(d, k) = d[a] * 256 + d[b]
    BY <2>1 DEF Word
  <2>5. QED
    BY <2>1, <2>3, <2>4
<1>5. PICK w \in [1..n -> Nat] : \A i \in 1..n : w[i] = Weight(d, i)
  <2>1. [i \in 1..n |-> Weight(d, i)] \in [1..n -> Nat]
    BY <1>3
  <2>2. QED
    BY <2>1
<1>6. PICK v \in [1..m -> Nat] : \A k \in 1..m : v[k] = Word(d, k)
  <2>1. ASSUME NEW k \in 1..m PROVE Word(d, k) \in Nat
    <3>1. PICK a \in Nat, b \in Nat : a = Weight(d, 2 * k - 1) /\ b = Weight(d, 2 * k)
      BY <1>3, <1>4
    <3>2. Word(d, k) = a + b
      BY <1>4, <3>1
    <3>3. QED
      BY <3>2
  <2>2. [k \in 1..m |-> Word(d, k)] \in [1..m -> Nat]
    BY <2>1
  <2>3. QED
    BY <2>2
<1>7. Pairs(v, w, m) /\ Weighs(w, d, n)
  BY <1>4, <1>5, <1>6 DEF Pairs, Weighs
<1>8. PICK f : Adds(f, w, n)
  BY SumExists
<1>9. PICK h : Adds(h, v, m)
  BY SumExists
<1>10. f[1..n] = h[1..m]
  <2>1. Halves(f, w, n, h, v, m)
    BY <1>2, <1>7, <1>8, <1>9 DEF Halves
  <2>2. QED
    BY <2>1, SumsAgree
<1>11. Plain(d) = f[1..n]
  BY <1>1, <1>7, <1>8, PlainAdds
<1>12. Words(d) = Carried(h[1..m])
  BY <1>2, <1>6, <1>9, WordsAdd
<1>13. PICK sum \in Nat : sum = h[1..m]
  <2>1. 1..m \in SUBSET (1..m) /\ h \in [SUBSET (1..m) -> Nat]
    BY <1>9 DEF Adds
  <2>2. QED
    BY <2>1
<1>14. key_tag(d) = (sum + (sum \div 65536)) % 65536
  BY <1>10, <1>11, <1>13, TagIs
<1>15. TagBySum(d) = ((sum % 65536) + (sum \div 65536)) % 65536
  BY <1>12, <1>13, TagBySumIs DEF Carried
<1>16. (sum + (sum \div 65536)) % 65536 = ((sum % 65536) + (sum \div 65536)) % 65536
  OBVIOUS
<1>17. QED
  BY <1>14, <1>15, <1>16

(* The server's key stays what it was, and with it the tag of a signature. *)
EvenKeys == \A case \in Case : Len(case.rdata) % 2 = 0

KeyInv ==
  /\ rdata \in Seq(0..255)
  /\ Len(rdata) % 2 = 0
  /\ rrsig # None => rrsig.key_tag = key_tag(rdata)

LEMMA KeyStep == KeyInv /\ [Next]_vars => KeyInv'
<1>1. SUFFICES ASSUME KeyInv, [Next]_vars PROVE KeyInv'
  OBVIOUS
<1>2. CASE UNCHANGED <<rdata, rrsig>>
  BY <1>1, <1>2 DEF KeyInv
<1>3. CASE sign_rrsig
  <2>1. rdata' = rdata /\ rrsig'.key_tag = key_tag(rdata)
    BY <1>3 DEF sign_rrsig
  <2>2. QED
    BY <1>1, <2>1 DEF KeyInv
<1>4. CASE Expire
  <2>1. rdata' = rdata /\ rrsig' = None
    BY <1>4 DEF Expire
  <2>2. QED
    BY <1>1, <2>1 DEF KeyInv
<1>5. QED
  BY <1>1, <1>2, <1>3, <1>4 DEF Next, Encode, Finish, Tick, vars, signed

LEMMA KeyInit ==
  ASSUME EvenKeys
  PROVE  Init => KeyInv
<1>1. SUFFICES ASSUME Init PROVE KeyInv
  OBVIOUS
<1>2. PICK case \in Case : rdata = case.rdata
  BY <1>1 DEF Init
<1>3. rdata \in Seq(0..255)
  BY <1>2, DnssecAssumption
<1>4. Len(rdata) % 2 = 0
  BY <1>2 DEF EvenKeys
<1>5. rrsig = None
  BY <1>1 DEF Init
<1>6. QED
  BY <1>3, <1>4, <1>5 DEF KeyInv

(* For every DNSKEY of an even number of octets, as all of P-256 are: the   *)
(* tag that key_tag puts into a signature, with all octets added up before  *)
(* the carry, is the one of a validator that adds up words of 16 bits.      *)
THEOREM TagIsFound ==
  ASSUME EvenKeys
  PROVE  Spec => []TagFindsTheKey
<1>1. ASSUME KeyInv PROVE TagFindsTheKey
  <2>1. rdata \in Seq(0..255) /\ Len(rdata) % 2 = 0
    BY <1>1 DEF KeyInv
  <2>2. key_tag(rdata) = TagBySum(rdata)
    BY <2>1, TagsAgree
  <2>3. QED
    BY <1>1, <2>2 DEF KeyInv, TagFindsTheKey
<1>2. KeyInv => TagFindsTheKey
  BY <1>1
<1>3. QED
  BY <1>2, KeyInit, KeyStep, PTL DEF Spec
=============================================================================
