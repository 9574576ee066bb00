----------------------------- MODULE WireProofs -----------------------------
(***************************************************************************)
(* Proofs about Wire for any queries, any octets of text and any zones.    *)
(*                                                                         *)
(* The walk of parse_query is right because what it has passed is always   *)
(* the wire form of the labels it has read: as long as no label holds a    *)
(* zero octet, the first zero octet is then where the walk ends, and there *)
(* question_section_end finds it too.  A query made from a meaning is      *)
(* walked along its own labels, because the wire form of the labels read   *)
(* is a prefix of the wire form of all.                                    *)
(*                                                                         *)
(* The tests of text follow the labels because splitting at dots undoes    *)
(* joining with dots: Join and Split are inverse to each other as long as  *)
(* no label holds a dot, and the parts of a text with more in front of it  *)
(* are the parts of both.  A name has one canonical form because both ways *)
(* to it are a walk from label to label.                                   *)
(*                                                                         *)
(* What Min, Wired, Split and the recursive functions compute is proved by *)
(* induction over the natural numbers or over sequences, like the lemmas   *)
(* about FlattenSeq in SequenceLemmas.                                     *)
(***************************************************************************)
EXTENDS Wire, SequenceLemmas

LEMMA Extended ==
  ASSUME NEW E, NEW s \in Seq(E), NEW x \in E
  PROVE  /\ Append(s, x) \in Seq(E)
         /\ DOMAIN Append(s, x) = 1..Len(s) + 1
         /\ Append(s, x)[Len(s) + 1] = x
         /\ \A k \in 1..Len(s) : Append(s, x)[k] = s[k]
OBVIOUS

LEMMA LenIsNat ==
  ASSUME NEW E, NEW s \in Seq(E)
  PROVE  Len(s) \in Nat
OBVIOUS

WiredLabel(label) == <<Len(label) % 256>> \o label

LEMMA WiredLabelIs ==
  ASSUME NEW S, 0..255 \subseteq S, NEW label \in Seq(S)
  PROVE  /\ WiredLabel(label) \in Seq(S)
         /\ Len(WiredLabel(label)) = Len(label) + 1
<1>1. PICK n \in Nat : n = Len(label)
  BY LenIsNat
<1>2. n % 256 \in 0..255
  OBVIOUS
<1>3. Len(label) % 256 \in S
  BY <1>2, <1>1
<1>4. QED
  BY <1>1, <1>3 DEF WiredLabel

LEMMA WiredIs ==
  ASSUME NEW parts, NEW n, DOMAIN parts = 1..n
  PROVE  Wired(parts) = FlattenSeq([k \in 1..n |-> WiredLabel(parts[k])])
BY DEF Wired, WiredLabel

LEMMA WiredAppend ==
  ASSUME NEW parts \in Seq(Seq(Octet)), NEW label \in Seq(Octet)
  PROVE  /\ Wired(parts) \in Seq(Octet)
         /\ Wired(Append(parts, label)) = Wired(parts) \o WiredLabel(label)
<1> DEFINE n == Len(parts)
           wired == [k \in 1..n |-> WiredLabel(parts[k])]
<1>1. n \in Nat /\ DOMAIN parts = 1..n /\ \A k \in 1..n : parts[k] \in Seq(Octet)
  OBVIOUS
<1>2. \A l \in Seq(Octet) : WiredLabel(l) \in Seq(Octet)
  BY WiredLabelIs DEF Octet
<1>3. wired \in Seq(Seq(Octet)) /\ Len(wired) = n
  BY <1>1, <1>2
<1>4. PICK more \in Seq(Seq(Octet)) : more = Append(parts, label)
  BY Extended
<1>5. /\ DOMAIN more = 1..n + 1 /\ more[n + 1] = label
      /\ \A k \in 1..n : more[k] = parts[k]
  BY <1>4, Extended
<1>6. [k \in 1..n + 1 |-> WiredLabel(more[k])] = Append(wired, WiredLabel(label))
  <2>1. /\ DOMAIN Append(wired, WiredLabel(label)) = 1..n + 1
        /\ Append(wired, WiredLabel(label))[n + 1] = WiredLabel(label)
        /\ \A k \in 1..n : Append(wired, WiredLabel(label))[k] = WiredLabel(parts[k])
    BY <1>1, <1>2, <1>3, Extended
  <2>2. \A k \in 1..n + 1 : k = n + 1 \/ k \in 1..n
    BY <1>1
  <2>3. Append(wired, WiredLabel(label)) = [k \in 1..n + 1 |-> Append(wired, WiredLabel(label))[k]]
    BY <1>2, <1>3, <2>1
  <2>4. QED
    BY <1>5, <2>1, <2>2, <2>3
<1>7. Wired(parts) = FlattenSeq(wired)
  BY <1>1, WiredIs
<1>8. Wired(more) = FlattenSeq(Append(wired, WiredLabel(label)))
  <2>1. PICK m : m = n + 1
    OBVIOUS
  <2>2. DOMAIN more = 1..m
    BY <1>5, <2>1
  <2>3. Wired(more) = FlattenSeq([k \in 1..m |-> WiredLabel(more[k])])
    BY Zenon, <2>2, WiredIs
  <2>4. QED
    BY <1>6, <2>1, <2>3
<1>9. WiredLabel(label) \in Seq(Octet)
  BY <1>2
<1>10. QED
  BY <1>3, <1>4, <1>7, <1>8, <1>9, FlattenAppend

Dotted(parts) ==
  [k \in DOMAIN parts |-> IF k = 1 THEN parts[k] ELSE <<Dot>> \o parts[k]]

LEMMA DottedAppend ==
  ASSUME NEW parts \in Seq(Seq(Octet)), NEW label \in Seq(Octet)
  PROVE  /\ FlattenSeq(Dotted(parts)) \in Seq(Octet)
         /\ FlattenSeq(Dotted(Append(parts, label)))
              = FlattenSeq(Dotted(parts))
                  \o (IF parts = <<>> THEN label ELSE <<Dot>> \o label)
<1> DEFINE n == Len(parts)
           last == IF parts = <<>> THEN label ELSE <<Dot>> \o label
<1>1. n \in Nat /\ DOMAIN parts = 1..n /\ \A k \in 1..n : parts[k] \in Seq(Octet)
  OBVIOUS
<1>2. \A l \in Seq(Octet) : <<Dot>> \o l \in Seq(Octet)
  BY WireAssumption
<1>3. Dotted(parts) \in Seq(Seq(Octet)) /\ Len(Dotted(parts)) = n /\ last \in Seq(Octet)
  BY <1>1, <1>2 DEF Dotted
<1>4. PICK more \in Seq(Seq(Octet)) : more = Append(parts, label)
  BY Extended
<1>5. /\ DOMAIN more = 1..n + 1 /\ more[n + 1] = label
      /\ \A k \in 1..n : more[k] = parts[k]
  BY <1>4, Extended
<1>6. Dotted(more) = Append(Dotted(parts), last)
  <2>1. /\ DOMAIN Append(Dotted(parts), last) = 1..n + 1
        /\ Append(Dotted(parts), last)[n + 1] = last
        /\ \A k \in 1..n : Append(Dotted(parts), last)[k] = Dotted(parts)[k]
        /\ Append(Dotted(parts), last) \in Seq(Seq(Octet))
    BY <1>1, <1>3, Extended
  <2>2. \A k \in 1..n + 1 : k = n + 1 \/ k \in 1..n
    BY <1>1
  <2>3. Append(Dotted(parts), last) = [k \in 1..n + 1 |-> Append(Dotted(parts), last)[k]]
    BY <2>1
  <2>4. parts = <<>> <=> n + 1 = 1
    BY <1>1
  <2>5. Dotted(more)[n + 1] = last
    BY <1>1, <1>5, <2>4 DEF Dotted
  <2>6. \A k \in 1..n : Dotted(more)[k] = Dotted(parts)[k]
    BY <1>1, <1>5 DEF Dotted
  <2>7. Dotted(more) = [k \in 1..n + 1 |-> Dotted(more)[k]]
    BY <1>5 DEF Dotted
  <2>8. QED
    BY <2>1, <2>2, <2>3, <2>5, <2>6, <2>7
<1>7. QED
  BY <1>3, <1>4, <1>6, FlattenAppend

-----------------------------------------------------------------------------
(* The first zero octet, which SelectInSeq finds. *)
ZeroAt(octets, z) == z \in 1..Len(octets) /\ octets[z] = 0

NoneBefore(octets, z) == \A k \in 1..Len(octets) : k < z => octets[k] # 0

LEMMA LeastExists ==
  ASSUME NEW I \in SUBSET Nat, I # {}
  PROVE  Min(I) \in I /\ \A i \in I : Min(I) <= i
<1>1. PICK R : R = OpToRel(<, Nat)
  OBVIOUS
<1>2. \A x, y \in Nat : x < y => <<x, y>> \in R
  BY <1>1 DEF OpToRel
<1>3. IsWellFoundedOn(R, Nat)
  BY <1>1, NatLessThanWellFounded
<1>4. PICK m \in I : \A y \in I : ~(<<y, m>> \in R)
  BY <1>3, WFMin
<1>5. \A y \in I : m <= y
  <2>1. SUFFICES ASSUME NEW y \in I PROVE m <= y
    OBVIOUS
  <2>2. m \in Nat /\ y \in Nat
    OBVIOUS
  <2>3. ~(y < m)
    BY <1>2, <1>4, <2>2
  <2>4. QED
    BY <2>2, <2>3
<1>6. QED
  BY <1>5 DEF Min

LEMMA FirstZero ==
  ASSUME NEW octets \in Seq(Octet)
  PROVE  LET end == question_section_end(octets) IN
         \/ end = None
         \/ /\ end \in 5..Len(octets)
            /\ ZeroAt(octets, end - 4)
            /\ NoneBefore(octets, end - 4)
<1> DEFINE I == {i \in 1..Len(octets) : octets[i] = 0}
           zero == SelectInSeq(octets, LAMBDA o : o = 0)
<1>1. Len(octets) \in Nat /\ I \in SUBSET Nat
  OBVIOUS
<1>2. CASE I = {}
  <2>1. zero = 0
    BY <1>2 DEF SelectInSeq
  <2>2. QED
    BY <2>1 DEF question_section_end
<1>3. CASE I # {}
  <2>1. zero = Min(I)
    BY <1>3 DEF SelectInSeq
  <2>2. PICK z \in I : z = zero /\ \A i \in I : z <= i
    BY <1>1, <1>3, <2>1, LeastExists
  <2>3. z \in 1..Len(octets) /\ octets[z] = 0
    OBVIOUS
  <2>4. NoneBefore(octets, z)
    BY <1>1, <2>2, <2>3 DEF NoneBefore
  <2>5. CASE z + 4 > Len(octets)
    BY <2>2, <2>5 DEF question_section_end
  <2>6. CASE z + 4 <= Len(octets)
    <3>1. question_section_end(octets) = z + 4
      BY <1>1, <2>2, <2>3, <2>6 DEF question_section_end
    <3>2. z + 4 \in 5..Len(octets) /\ z + 4 - 4 = z
      BY <1>1, <2>3, <2>6
    <3>3. QED
      BY <2>3, <2>4, <3>1, <3>2 DEF ZeroAt
  <2>7. QED
    BY <1>1, <2>3, <2>5, <2>6
<1>4. QED
  BY <1>2, <1>3

-----------------------------------------------------------------------------
(* Only a label that begins with a zero octet could hide one before pos. *)
NoZeroWalked == Without({0}) => NoneBefore(body, pos)

Reading ==
  /\ query \in Query
  /\ domain = <<>> <=> labels = <<>>
  /\ pc \in {"header", "labels", "question"} => reply = None
  /\ pc \in {"labels", "question"} => query.opcode = 0 /\ query.qdcount = 1
  /\ pc = "question" => ~AtLabel

WalkInv ==
  /\ TypeOK
  /\ Reading
  /\ Walked
  /\ NoZeroWalked
  /\ AnswersTheQuestionRead

LEMMA InitWalks == Init => WalkInv
<1> SUFFICES ASSUME Init PROVE WalkInv
  OBVIOUS
<1> USE DEF Init
<1>1. body \in Seq(Octet) /\ Len(body) \in Nat
  BY WireAssumption DEF body
<1>2. TypeOK
  BY <1>1 DEF TypeOK
<1>3. Reading
  BY DEF Reading
<1>4. Walked
  <2>1. SubSeq(body, 1, pos - 1) = <<>>
    BY <1>1
  <2>2. labels = <<>> /\ DOMAIN labels = {} /\ DOMAIN labels = 1..0
    OBVIOUS
  <2>3. Wired(labels) = <<>>
    <3>1. [k \in 1..0 |-> WiredLabel(labels[k])] = <<>>
      OBVIOUS
    <3>2. QED
      BY <2>2, <3>1, WiredIs, FlattenEmpty
  <2>4. FlattenSeq(Dotted(labels)) = <<>>
    <3>1. Dotted(labels) = <<>>
      BY <2>2 DEF Dotted
    <3>2. QED
      BY <3>1, FlattenEmpty
  <2>5. QED
    BY <2>1, <2>3, <2>4 DEF Walked, Dotted
<1>5. NoZeroWalked
  BY <1>1 DEF NoZeroWalked, NoneBefore
<1>6. AnswersTheQuestionRead
  BY DEF AnswersTheQuestionRead
<1>7. QED
  BY <1>2, <1>3, <1>4, <1>5, <1>6 DEF WalkInv

LEMMA OctetIsNat == \A o \in Octet : o \in Nat /\ o <= 255
BY DEF Octet

LEMMA OneLabel ==
  ASSUME NEW octets \in Seq(Octet), NEW p \in Nat \ {0}, NEW n \in Nat,
         n <= 255, p + n <= Len(octets), octets[p] = n
  PROVE  /\ SubSeq(octets, p + 1, p + n) \in Seq(Octet)
         /\ Len(SubSeq(octets, p + 1, p + n)) = n
         /\ SubSeq(octets, 1, p + n)
              = SubSeq(octets, 1, p - 1) \o WiredLabel(SubSeq(octets, p + 1, p + n))
<1>1. PICK l \in Nat : l = Len(octets)
  BY LenIsNat
<1>2. \A i \in p + 1..p + n : octets[i] \in Octet
  <2>1. \A i \in p + 1..p + n : i \in 1..l
    BY <1>1
  <2>2. QED
    BY <1>1, <2>1, ElementOfSeq
<1>3. PICK label : label = SubSeq(octets, p + 1, p + n)
  OBVIOUS
<1>4. label \in Seq(Octet) /\ Len(label) = n
  <2>1. p + 1 \in Int /\ p + n \in Int
    OBVIOUS
  <2>2. /\ label \in Seq(Octet)
        /\ Len(label) = IF p + 1 <= p + n THEN p + n - (p + 1) + 1 ELSE 0
    BY <1>2, <1>3, <2>1, SubSeqProperties
  <2>3. QED
    BY <2>2
<1>5. n % 256 = n
  OBVIOUS
<1>6. SubSeq(octets, p, p + n) = <<octets[p]>> \o label
  <2>1. p \in 1..l /\ p + n \in p..l
    BY <1>1
  <2>2. QED
    BY <1>1, <1>3, <2>1, SubSeqRecursiveFirst
<1>7. SubSeq(octets, 1, p - 1) \o SubSeq(octets, p, p + n) = SubSeq(octets, 1, p + n)
  <2>1. 1 \in 1..l + 1 /\ p - 1 \in 0..l /\ p + n \in p - 1..l /\ p - 1 + 1 = p /\ 1 - 1 = 0
    BY <1>1
  <2>2. QED
    BY <1>1, <2>1, ConcatAdjacentSubSeq
<1>8. QED
  BY <1>3, <1>4, <1>5, <1>6, <1>7 DEF WiredLabel

(* What a query is answered with. *)
Rcode == {"NOERROR", "REFUSED", "NOTIMP"}

LEMMA EchoIs ==
  ASSUME NEW q \in Query, NEW rcode \in Rcode
  PROVE  /\ Echo(q, rcode) # None
         /\ Echo(q, rcode).rcode = rcode
         /\ Echo(q, rcode).qdcount = q.qdcount
         /\ Echo(q, rcode).edns = parse_query_opt(q)
         /\ Echo(q, rcode).question \in Seq(Octet)
         /\ LET end == question_section_end(q.body) IN
            end # None => Echo(q, rcode).question = SubSeq(q.body, 1, end)
<1>1. q.body \in Seq(Octet) /\ Len(q.body) \in Nat
  BY WireAssumption
<1>2. LET end == question_section_end(q.body) IN end # None => end \in 1..Len(q.body)
  BY <1>1, FirstZero
<1>3. LET end == question_section_end(q.body) IN
      (IF end = None THEN <<>> ELSE SubSeq(q.body, 1, end)) \in Seq(Octet)
  BY <1>1, <1>2
<1>4. Echo(q, rcode) # None
  BY AnswerAssumption DEF Rcode
<1>5. QED
  BY <1>3, <1>4 DEF Echo

LEMMA AnswerKeeps ==
  ASSUME WalkInv, pc' = "done", UNCHANGED <<query, zone, pos, domain, labels>>,
         reply' # None => reply'.rcode \in Rcode /\ reply'.question \in Seq(Octet),
         AnswersTheQuestionRead'
  PROVE  WalkInv'
<1>1. TypeOK'
  BY DEF WalkInv, TypeOK, Rcode, body
<1>2. Reading'
  BY DEF WalkInv, Reading
<1>3. Walked'
  BY DEF WalkInv, Walked, body
<1>4. NoZeroWalked'
  BY DEF WalkInv, NoZeroWalked, Without, body, NoneBefore
<1>5. QED
  BY <1>1, <1>2, <1>3, <1>4 DEF WalkInv

LEMMA OpcodeWalks == WalkInv /\ Opcode => WalkInv'
<1> SUFFICES ASSUME WalkInv, Opcode PROVE WalkInv'
  OBVIOUS
<1>1. /\ pc' = "done" /\ reply' = error_response(query, "NOTIMP") /\ query.opcode # 0
      /\ UNCHANGED <<query, zone, pos, domain, labels>>
  BY DEF Opcode, Done
<1>2. reply' # None => reply' = Echo(query, "NOTIMP")
  BY <1>1 DEF error_response
<1>3. reply' # None => reply'.rcode \in Rcode /\ reply'.question \in Seq(Octet)
  BY <1>2, EchoIs DEF WalkInv, Reading, Rcode
<1>4. AnswersTheQuestionRead'
  BY <1>1 DEF AnswersTheQuestionRead
<1>5. QED
  BY <1>1, <1>3, <1>4, AnswerKeeps

LEMMA SilenceWalks ==
  ASSUME WalkInv, Done(None)
  PROVE  WalkInv'
<1>1. /\ pc' = "done" /\ reply' = None
      /\ UNCHANGED <<query, zone, pos, domain, labels>>
  BY DEF Done
<1>2. AnswersTheQuestionRead'
  BY <1>1 DEF AnswersTheQuestionRead
<1>3. QED
  BY <1>1, <1>2, AnswerKeeps

LEMMA HeaderWalks == WalkInv /\ Header => WalkInv'
<1> SUFFICES ASSUME WalkInv, Header PROVE WalkInv'
  OBVIOUS
<1>1. CASE query.short \/ query.qdcount # 1
  BY <1>1, SilenceWalks DEF Header
<1>2. CASE ~(query.short \/ query.qdcount # 1)
  <2>1. /\ pc' = "labels" /\ pc = "header" /\ query.opcode = 0 /\ query.qdcount = 1
        /\ UNCHANGED <<query, zone, pos, domain, labels, reply>>
    BY <1>2 DEF Header
  <2>2. TypeOK'
    BY <2>1 DEF WalkInv, TypeOK, body
  <2>3. Reading'
    BY <2>1 DEF WalkInv, Reading
  <2>4. Walked'
    BY <2>1 DEF WalkInv, Walked, body
  <2>5. NoZeroWalked'
    BY <2>1 DEF WalkInv, NoZeroWalked, Without, body, NoneBefore
  <2>6. AnswersTheQuestionRead'
    BY <2>1 DEF AnswersTheQuestionRead
  <2>7. QED
    BY <2>2, <2>3, <2>4, <2>5, <2>6 DEF WalkInv
<1>3. QED
  BY <1>1, <1>2

LEMMA NameEndsWalks == WalkInv /\ NameEnds => WalkInv'
<1> SUFFICES ASSUME WalkInv, NameEnds PROVE WalkInv'
  OBVIOUS
<1>1. CASE domain = <<>>
  BY <1>1, SilenceWalks DEF NameEnds
<1>2. CASE domain # <<>>
  <2>1. /\ pc' = "question" /\ pc = "labels" /\ ~AtLabel
        /\ UNCHANGED <<query, zone, pos, domain, labels, reply>>
    BY <1>2 DEF NameEnds
  <2>2. TypeOK'
    BY <2>1 DEF WalkInv, TypeOK, body
  <2>3. Reading'
    BY <2>1 DEF WalkInv, Reading, AtLabel, body
  <2>4. Walked'
    BY <2>1 DEF WalkInv, Walked, body
  <2>5. NoZeroWalked'
    BY <2>1 DEF WalkInv, NoZeroWalked, Without, body, NoneBefore
  <2>6. AnswersTheQuestionRead'
    BY <2>1 DEF AnswersTheQuestionRead
  <2>7. QED
    BY <2>2, <2>3, <2>4, <2>5, <2>6 DEF WalkInv
<1>3. QED
  BY <1>1, <1>2

LEMMA DotBetween ==
  ASSUME NEW text \in Seq(Octet), NEW label \in Seq(Octet)
  PROVE  text \o <<Dot>> \o label = text \o (<<Dot>> \o label)
<1>1. <<Dot>> \in Seq(Octet)
  BY WireAssumption
<1>2. QED
  BY <1>1, ConcatAssociative

LEMMA LabelWalks == WalkInv /\ Label => WalkInv'
<1> SUFFICES ASSUME WalkInv, Label PROVE WalkInv'
  OBVIOUS
<1> USE DEF WalkInv
<1>1. PICK n, label : n = body[pos] /\ label = SubSeq(body, pos + 1, pos + n)
  OBVIOUS
<1>2. CASE pos + n > Len(body) \/ ToSet(label) \cap NotText # {}
  BY <1>1, <1>2, SilenceWalks DEF Label
<1>3. CASE ~(pos + n > Len(body) \/ ToSet(label) \cap NotText # {})
  <2>1. /\ pc = "labels" /\ AtLabel
        /\ domain' = (IF domain = <<>> THEN label ELSE domain \o <<Dot>> \o label)
        /\ labels' = Append(labels, label)
        /\ pos' = pos + 1 + n
        /\ UNCHANGED <<query, zone, pc, reply>>
    BY <1>1, <1>3 DEF Label
  <2>2. PICK l \in Nat : l = Len(body) /\ body \in Seq(Octet)
    BY WireAssumption, LenIsNat DEF Reading, body
  <2>3. pos \in 1..l
    BY <2>1, <2>2 DEF TypeOK, AtLabel
  <2>4. n \in 1..255 /\ pos + n <= l
    <3>1. body[pos] \in Octet
      BY <2>2, <2>3, ElementOfSeq
    <3>2. pos + n <= l
      <4>1. n \in Nat
        BY <1>1, <3>1, OctetIsNat
      <4>2. ~(pos + n > l)
        BY <1>3, <2>2
      <4>3. QED
        BY <2>3, <4>1, <4>2
    <3>3. QED
      BY <1>1, <2>1, <3>1, <3>2 DEF Octet, AtLabel
  <2>5. /\ label \in Seq(Octet) /\ Len(label) = n
        /\ SubSeq(body, 1, pos + n) = SubSeq(body, 1, pos - 1) \o WiredLabel(label)
    <3>1. pos \in Nat \ {0} /\ n \in Nat /\ n <= 255
      BY <2>3, <2>4
    <3>2. pos + n <= Len(body) /\ body[pos] = n
      BY <1>1, <2>2, <2>4
    <3>3. QED
      BY <1>1, <2>2, <3>1, <3>2, OneLabel
  <2>6. body' = body
    BY <2>1 DEF body
  <2>7. domain \in Seq(Octet) /\ labels \in Seq(Seq(Octet))
    BY DEF TypeOK
  <2>8. domain' \in Seq(Octet) /\ domain' # <<>>
    <3>1. label # <<>>
      BY <2>4, <2>5
    <3>2. CASE domain = <<>>
      BY <2>1, <2>5, <3>1, <3>2
    <3>3. CASE domain # <<>>
      <4>1. <<Dot>> \o label \in Seq(Octet)
        BY <2>5, WireAssumption
      <4>2. domain' = domain \o (<<Dot>> \o label)
        <5>1. domain' = domain \o <<Dot>> \o label
          BY <2>1, <3>3
        <5>2. QED
          BY <2>5, <2>7, <5>1, DotBetween
      <4>3. domain \o (<<Dot>> \o label) # <<>>
        BY <2>7, <3>3, <4>1, ConcatEqualIffEmpty
      <4>4. QED
        BY <2>7, <4>1, <4>2, <4>3
    <3>4. QED
      BY <3>2, <3>3
  <2>9. labels' \in Seq(Seq(Octet)) /\ labels' # <<>>
    <3>1. labels' = Append(labels, label)
      BY <2>1
    <3>2. Append(labels, label) \in Seq(Seq(Octet))
      BY <2>5, <2>7, Appended
    <3>3. Append(labels, label) # <<>>
      BY <2>5, <2>7, AppendedIsNonempty
    <3>4. QED
      BY <3>1, <3>2, <3>3
  <2>10. TypeOK'
    <3>1. pos' \in 1..Len(body) + 1
      BY <2>1, <2>2, <2>3, <2>4
    <3>2. QED
      BY <2>1, <2>6, <2>8, <2>9, <3>1 DEF TypeOK
  <2>11. Reading'
    BY <2>1, <2>8, <2>9 DEF Reading
  <2>12. Walked'
    <3>1. SubSeq(body', 1, pos' - 1) = Wired(labels')
      <4>1. pos' - 1 = pos + n
        BY <2>1, <2>3, <2>4
      <4>2. SubSeq(body, 1, pos - 1) = Wired(labels)
        BY DEF Walked
      <4>3. QED
        BY <2>1, <2>5, <2>6, <2>7, <4>1, <4>2, WiredAppend
    <3>2. domain = FlattenSeq(Dotted(labels))
      BY DEF Walked, Dotted
    <3>3. domain = <<>> <=> labels = <<>>
      BY DEF Reading
    <3>4. domain' = domain \o (IF labels = <<>> THEN label ELSE <<Dot>> \o label)
      <4>1. CASE domain = <<>>
        <5>1. <<>> \o label = label
          BY <2>5, ConcatEmptySeq
        <5>2. QED
          BY <2>1, <3>3, <4>1, <5>1
      <4>2. CASE domain # <<>>
        <5>1. domain' = domain \o <<Dot>> \o label
          BY <2>1, <4>2
        <5>2. domain' = domain \o (<<Dot>> \o label)
          BY <2>5, <2>7, <5>1, DotBetween
        <5>3. labels # <<>>
          BY <3>3, <4>2
        <5>4. QED
          BY <5>2, <5>3
      <4>3. QED
        BY <4>1, <4>2
    <3>5. domain' = FlattenSeq(Dotted(labels'))
      BY <2>1, <2>5, <2>7, <3>2, <3>4, DottedAppend
    <3>6. QED
      BY <3>1, <3>5 DEF Walked, Dotted
  <2>13. NoZeroWalked'
    <3>1. SUFFICES ASSUME Without({0})', NEW k \in 1..l, k < pos' PROVE body[k] # 0
      BY <2>2, <2>6 DEF NoZeroWalked, NoneBefore
    <3>2. ASSUME NEW j, j \in DOMAIN labels PROVE ToSet(labels[j]) \cap {0} = {}
      <4>1. j \in DOMAIN labels' /\ labels'[j] = labels[j]
        <5>1. j \in 1..Len(labels) /\ Len(labels) \in Nat
          BY <2>7, <3>2, LenIsNat
        <5>2. QED
          BY <2>1, <2>5, <2>7, <5>1, Extended
      <4>2. QED
        BY <3>1, <4>1 DEF Without
    <3>3. Without({0})
      BY <3>2 DEF Without
    <3>4. ToSet(label) \cap {0} = {}
      <4>1. Len(labels) + 1 \in DOMAIN labels' /\ labels'[Len(labels) + 1] = label
        BY <2>1, <2>5, <2>7, Extended
      <4>2. QED
        BY <3>1, <4>1 DEF Without
    <3>5. CASE k < pos
      BY <2>2, <3>3, <3>5 DEF NoZeroWalked, NoneBefore
    <3>6. CASE k = pos
      BY <2>1, <3>6 DEF AtLabel
    <3>7. CASE k > pos
      <4>1. k - pos \in 1..n /\ k - pos \in 1..Len(label)
        BY <2>1, <2>3, <2>4, <2>5, <3>1, <3>7
      <4>2. label[k - pos] = body[k]
        BY <1>1, <2>2, <2>3, <2>4, <4>1
      <4>3. label[k - pos] \in ToSet(label)
        BY <2>5, <4>1 DEF ToSet
      <4>4. QED
        BY <3>4, <4>2, <4>3
    <3>8. QED
      BY <2>3, <3>5, <3>6, <3>7
  <2>14. AnswersTheQuestionRead'
    BY <2>1 DEF AnswersTheQuestionRead
  <2>15. QED
    BY <2>10, <2>11, <2>12, <2>13, <2>14
<1>4. QED
  BY <1>2, <1>3

(* The first zero octet is where the walk ended. *)
LEMMA WalkFoundTheEnd ==
  ASSUME WalkInv, pc = "question", Without({0}), question_section_end(body) # None
  PROVE  question_section_end(body) = pos + 4
<1>1. PICK l \in Nat : l = Len(body) /\ body \in Seq(Octet)
  BY WireAssumption, LenIsNat DEF WalkInv, Reading, body
<1>2. PICK end : end = question_section_end(body)
  OBVIOUS
<1>3. end \in 5..l /\ ZeroAt(body, end - 4) /\ NoneBefore(body, end - 4)
  BY <1>1, <1>2, FirstZero
<1>4. PICK z \in 1..l : z = end - 4 /\ body[z] = 0
  BY <1>1, <1>3 DEF ZeroAt
<1>5. NoneBefore(body, pos) /\ pos \in 1..l + 1 /\ ~AtLabel
  BY <1>1 DEF WalkInv, NoZeroWalked, TypeOK, Reading
<1>6. ~(z < pos)
  BY <1>1, <1>4, <1>5 DEF NoneBefore
<1>7. ~(pos < z)
  <2>1. SUFFICES ASSUME pos < z PROVE FALSE
    OBVIOUS
  <2>2. pos \in 1..l /\ body[pos] # 0
    BY <1>1, <1>3, <1>4, <1>5, <2>1 DEF NoneBefore
  <2>3. QED
    BY <1>1, <1>5, <2>2 DEF AtLabel
<1>8. QED
  BY <1>2, <1>3, <1>4, <1>5, <1>6, <1>7

LEMMA QuestionWalks == WalkInv /\ Question => WalkInv'
<1> SUFFICES ASSUME WalkInv, Question PROVE WalkInv'
  OBVIOUS
<1>1. PICK end : end = question_section_end(body)
  OBVIOUS
<1>2. CASE end = None
  <2>1. Done(None)
    BY <1>1, <1>2 DEF Question
  <2>2. QED
    BY <2>1, SilenceWalks
<1>3. CASE end # None
  <2>1. /\ pc = "question" /\ pc' = "done"
        /\ UNCHANGED <<query, zone, pos, domain, labels>>
    BY DEF Question, Done
  <2>2. reply' # None => \E rcode \in Rcode : reply' = Echo(query, rcode)
    <3>1. "REFUSED" \in Rcode /\ "NOERROR" \in Rcode
      BY DEF Rcode
    <3>2. reply' \in {error_response(query, "REFUSED"), Echo(query, "NOERROR")}
      BY <1>1, <1>3 DEF Question, Done
    <3>3. QED
      BY <3>1, <3>2 DEF error_response
  <2>3. query \in Query
    BY DEF WalkInv, Reading
  <2>4. reply' # None =>
          /\ reply'.rcode \in Rcode /\ reply'.question \in Seq(Octet)
          /\ reply'.question = SubSeq(body, 1, end) /\ reply'.qdcount = query.qdcount
    BY <1>1, <1>3, <2>2, <2>3, EchoIs DEF body
  <2>5. AnswersTheQuestionRead'
    <3>1. SUFFICES ASSUME reply' # None, Without({0})
                   PROVE  /\ Len(reply'.question) = pos + 4
                          /\ reply'.question = SubSeq(body, 1, pos + 4)
                          /\ reply'.qdcount = 1
      BY <2>1 DEF AnswersTheQuestionRead, Without, body
    <3>2. end = pos + 4
      BY <1>1, <1>3, <2>1, <3>1, WalkFoundTheEnd
    <3>3. PICK l \in Nat : l = Len(body) /\ body \in Seq(Octet)
      BY <2>3, WireAssumption, LenIsNat DEF body
    <3>4. end \in 5..l
      BY <1>1, <1>3, <3>3, FirstZero
    <3>5. Len(SubSeq(body, 1, end)) = end
      BY <3>3, <3>4
    <3>6. reply'.qdcount = 1
      BY <2>1, <2>4, <3>1 DEF WalkInv, Reading
    <3>7. QED
      BY <2>4, <3>1, <3>2, <3>5, <3>6
  <2>6. QED
    BY <2>1, <2>4, <2>5, AnswerKeeps
<1>4. QED
  BY <1>2, <1>3

LEMMA StepWalks == WalkInv /\ [Next]_vars => WalkInv'
<1> SUFFICES ASSUME WalkInv, [Next]_vars PROVE WalkInv'
  OBVIOUS
<1>1. CASE Opcode
  BY <1>1, OpcodeWalks
<1>2. CASE Header
  BY <1>2, HeaderWalks
<1>3. CASE Label
  BY <1>3, LabelWalks
<1>4. CASE NameEnds
  BY <1>4, NameEndsWalks
<1>5. CASE Question
  BY <1>5, QuestionWalks
<1>6. CASE UNCHANGED vars
  BY <1>6 DEF vars, WalkInv, TypeOK, Reading, Walked, NoZeroWalked, AnswersTheQuestionRead,
              Without, NoneBefore, AtLabel, body
<1>7. QED
  BY <1>1, <1>2, <1>3, <1>4, <1>5, <1>6 DEF Next

(* parse_query stays inside the query, whatever its octets are.             *)
THEOREM TypeCorrect == Spec => []TypeOK
<1>1. WalkInv => TypeOK
  BY DEF WalkInv
<1>2. QED
  BY <1>1, InitWalks, StepWalks, PTL DEF Spec

(* It never loses count: what it has passed is the wire form of the labels  *)
(* it has read, and its text is those labels with dots between them.        *)
THEOREM WalkedHolds == Spec => []Walked
<1>1. WalkInv => Walked
  BY DEF WalkInv
<1>2. QED
  BY <1>1, InitWalks, StepWalks, PTL DEF Spec

(* parse_query and question_section_end see one question, and the answer is *)
(* to that one, whatever the octets of the query, unless a label has a zero *)
(* octet in it.                                                             *)
THEOREM OneQuestion == Spec => []AnswersTheQuestionRead
<1>1. WalkInv => AnswersTheQuestionRead
  BY DEF WalkInv
<1>2. QED
  BY <1>1, InitWalks, StepWalks, PTL DEF Spec

-----------------------------------------------------------------------------
(* The wire form of a name made from labels: where its labels lie, and that *)
(* the zero octet after it is the first.                                    *)
Parted(parts, n) ==
  \E rest \in Seq(Octet) : Wired(parts) = Wired(SubSeq(parts, 1, n)) \o rest

LEMMA PrefixGrows ==
  ASSUME NEW E, NEW parts \in Seq(E), NEW n \in Nat, n + 1 <= Len(parts)
  PROVE  /\ SubSeq(parts, 1, n) \in Seq(E)
         /\ parts[n + 1] \in E
         /\ SubSeq(parts, 1, n + 1) = Append(SubSeq(parts, 1, n), parts[n + 1])
<1>1. PICK l \in Nat : l = Len(parts)
  BY LenIsNat
<1>2. \A i \in 1..l : parts[i] \in E
  BY <1>1, ElementOfSeq
<1>3. n + 1 \in 1..l /\ n \in 0..l
  BY <1>1
<1>4. PICK front \in Seq(E) : front = SubSeq(parts, 1, n)
  <2>1. \A i \in 1..n : parts[i] \in E
    BY <1>2, <1>3
  <2>2. 1 \in Int /\ n \in Int
    OBVIOUS
  <2>3. SubSeq(parts, 1, n) \in Seq(E)
    BY <2>1, <2>2, SubSeqProperties
  <2>4. QED
    BY <2>3
<1>5. SubSeq(parts, 1, n + 1) = SubSeq(parts, 1, n + 1 - 1) \o <<parts[n + 1]>>
  <2>1. 1 \in 1..l /\ n + 1 \in 1..l
    BY <1>3
  <2>2. QED
    BY <1>1, <2>1, SubSeqRecursiveSecond
<1>6. n + 1 - 1 = n
  OBVIOUS
<1>7. front \o <<parts[n + 1]>> = Append(front, parts[n + 1])
  BY <1>2, <1>3, AppendIsConcat
<1>8. QED
  BY <1>2, <1>3, <1>4, <1>5, <1>6, <1>7

LEMMA PartsLie ==
  ASSUME NEW parts \in Seq(Seq(Octet)), NEW n \in 0..Len(parts)
  PROVE  Parted(parts, n)
<1> DEFINE T == {j \in Nat : \A i \in Nat : i + j = Len(parts) => Parted(parts, i)}
<1>1. PICK l \in Nat : l = Len(parts)
  BY LenIsNat
<1>2. 0 \in T
  <2>1. SUFFICES ASSUME NEW i \in Nat, i + 0 = l PROVE Parted(parts, i)
    BY <1>1
  <2>2. SubSeq(parts, 1, i) = parts
    BY <1>1, <2>1, SubSeqFull
  <2>3. Wired(parts) \in Seq(Octet)
    <3>1. <<>> \in Seq(Octet)
      OBVIOUS
    <3>2. QED
      BY <3>1, WiredAppend
  <2>4. Wired(parts) \o <<>> = Wired(parts) /\ <<>> \in Seq(Octet)
    BY <2>3, ConcatEmptySeq
  <2>5. QED
    BY <2>2, <2>4 DEF Parted
<1>3. ASSUME NEW j \in T PROVE j + 1 \in T
  <2>1. SUFFICES ASSUME NEW i \in Nat, i + (j + 1) = l PROVE Parted(parts, i)
    BY <1>1
  <2>2. i + 1 \in Nat /\ (i + 1) + j = l /\ i + 1 <= Len(parts)
    BY <1>1, <2>1
  <2>3. Parted(parts, i + 1)
    BY <1>1, <1>3, <2>2
  <2>4. PICK rest \in Seq(Octet) : Wired(parts) = Wired(SubSeq(parts, 1, i + 1)) \o rest
    BY <2>3 DEF Parted
  <2>5. /\ SubSeq(parts, 1, i) \in Seq(Seq(Octet)) /\ parts[i + 1] \in Seq(Octet)
        /\ SubSeq(parts, 1, i + 1) = Append(SubSeq(parts, 1, i), parts[i + 1])
    BY <2>2, PrefixGrows
  <2>6. /\ Wired(SubSeq(parts, 1, i)) \in Seq(Octet)
        /\ Wired(SubSeq(parts, 1, i + 1))
             = Wired(SubSeq(parts, 1, i)) \o WiredLabel(parts[i + 1])
    BY <2>5, WiredAppend
  <2>7. WiredLabel(parts[i + 1]) \in Seq(Octet)
    BY <2>5, WiredLabelIs DEF Octet
  <2>8. WiredLabel(parts[i + 1]) \o rest \in Seq(Octet)
    BY <2>7, ConcatProperties
  <2>9. Wired(parts) = Wired(SubSeq(parts, 1, i)) \o (WiredLabel(parts[i + 1]) \o rest)
    <3>1. PICK a \in Seq(Octet), b \in Seq(Octet) :
            a = Wired(SubSeq(parts, 1, i)) /\ b = WiredLabel(parts[i + 1])
      BY <2>6, <2>7
    <3>2. (a \o b) \o rest = a \o (b \o rest)
      BY ConcatAssociative
    <3>3. QED
      BY <2>4, <2>6, <3>1, <3>2
  <2>10. QED
    BY <2>8, <2>9 DEF Parted
<1>4. T \in SUBSET Nat
  OBVIOUS
<1> HIDE DEF T
<1>5. T = Nat
  BY <1>2, <1>3, <1>4, SetInduction
<1>6. l - n \in T /\ n \in Nat /\ n + (l - n) = Len(parts)
  BY <1>1, <1>5
<1>7. QED
  BY <1>6 DEF T

NoZero(octets) == \A k \in 1..Len(octets) : octets[k] # 0

LEMMA NoZeroJoined ==
  ASSUME NEW a \in Seq(Octet), NEW b \in Seq(Octet), NoZero(a), NoZero(b)
  PROVE  NoZero(a \o b)
<1>1. PICK m \in Nat, n \in Nat : m = Len(a) /\ n = Len(b)
  BY LenIsNat
<1>2. Len(a \o b) = m + n /\ \A i \in 1..m + n : (a \o b)[i] = IF i <= m THEN a[i] ELSE b[i - m]
  BY <1>1, ConcatProperties
<1>3. ASSUME NEW i \in 1..m + n PROVE (a \o b)[i] # 0
  <2>1. CASE i <= m
    BY <1>1, <1>2, <2>1 DEF NoZero
  <2>2. CASE ~(i <= m)
    <3>1. i - m \in 1..n
      BY <2>2
    <3>2. (a \o b)[i] = b[i - m]
      BY <1>2, <2>2
    <3>3. QED
      BY <1>1, <3>1, <3>2 DEF NoZero
  <2>3. QED
    BY <2>1, <2>2
<1>4. QED
  BY <1>2, <1>3 DEF NoZero

(* A label a resolver sends. *)
Sendable(label) == NoZero(label) /\ Len(label) \in 1..63

LEMMA SendableWired ==
  ASSUME NEW label \in Seq(Octet), Sendable(label)
  PROVE  /\ WiredLabel(label) = <<Len(label)>> \o label
         /\ NoZero(WiredLabel(label))
<1>1. PICK n \in 1..63 : n = Len(label)
  BY DEF Sendable
<1>2. n % 256 = n /\ n \in Octet
  BY DEF Octet
<1>3. WiredLabel(label) = <<n>> \o label
  BY <1>1, <1>2 DEF WiredLabel
<1>4. <<n>> \in Seq(Octet) /\ NoZero(<<n>>)
  BY <1>2 DEF NoZero
<1>5. QED
  BY <1>1, <1>3, <1>4, NoZeroJoined DEF Sendable

LEMMA SendableNoZero ==
  ASSUME NEW parts \in Seq(Seq(Octet)), \A k \in 1..Len(parts) : Sendable(parts[k])
  PROVE  NoZero(Wired(parts))
<1> DEFINE Clean(i) == NoZero(Wired(SubSeq(parts, 1, i)))
           T == {i \in Nat : i <= Len(parts) => Clean(i)}
<1>1. PICK l \in Nat : l = Len(parts)
  BY LenIsNat
<1>2. 0 \in T
  <2>1. SubSeq(parts, 1, 0) = <<>>
    BY SubSeqEmpty
  <2>2. Wired(<<>>) = <<>>
    <3>1. DOMAIN <<>> = 1..0 /\ [k \in 1..0 |-> WiredLabel(<<>>[k])] = <<>>
      OBVIOUS
    <3>2. QED
      BY <3>1, WiredIs, FlattenEmpty
  <2>3. NoZero(<<>>)
    BY DEF NoZero
  <2>4. QED
    BY <2>1, <2>2, <2>3
<1>3. ASSUME NEW i \in T PROVE i + 1 \in T
  <2>1. SUFFICES ASSUME i + 1 <= l PROVE Clean(i + 1)
    BY <1>1
  <2>2. i \in Nat /\ i + 1 \in 1..l /\ i <= l
    BY <2>1
  <2>3. /\ SubSeq(parts, 1, i) \in Seq(Seq(Octet)) /\ parts[i + 1] \in Seq(Octet)
        /\ SubSeq(parts, 1, i + 1) = Append(SubSeq(parts, 1, i), parts[i + 1])
    BY <1>1, <2>1, <2>2, PrefixGrows
  <2>4. /\ Wired(SubSeq(parts, 1, i)) \in Seq(Octet)
        /\ Wired(SubSeq(parts, 1, i + 1))
             = Wired(SubSeq(parts, 1, i)) \o WiredLabel(parts[i + 1])
    BY <2>3, WiredAppend
  <2>5. WiredLabel(parts[i + 1]) \in Seq(Octet) /\ NoZero(WiredLabel(parts[i + 1]))
    BY <1>1, <2>2, <2>3, SendableWired, WiredLabelIs DEF Octet
  <2>6. NoZero(Wired(SubSeq(parts, 1, i)))
    BY <1>1, <2>2
  <2>7. QED
    BY <2>4, <2>5, <2>6, NoZeroJoined
<1>4. T \in SUBSET Nat
  OBVIOUS
<1> HIDE DEF T
<1>5. l \in T
  BY <1>1, <1>2, <1>3, <1>4, SetInduction
<1>6. Clean(l)
  BY <1>1, <1>5 DEF T
<1>7. SubSeq(parts, 1, l) = parts
  BY <1>1, SubSeqFull
<1>8. QED
  BY <1>6, <1>7

-----------------------------------------------------------------------------
(* How the octets of a question lie, and of what follows it. *)
LEMMA JoinedIs ==
  ASSUME NEW a \in Seq(Octet), NEW b \in Seq(Octet),
         NEW m \in Nat, NEW n \in Nat, m = Len(a), n = Len(b),
         NEW both, both = a \o b
  PROVE  /\ both \in Seq(Octet) /\ Len(both) = m + n
         /\ \A i \in 1..m : both[i] = a[i]
         /\ \A i \in 1..n : both[m + i] = b[i]
<1>1. /\ both \in Seq(Octet) /\ Len(both) = m + n
      /\ \A i \in 1..m + n : both[i] = IF i <= m THEN a[i] ELSE b[i - m]
  BY ConcatProperties
<1>2. ASSUME NEW i \in 1..m PROVE both[i] = a[i]
  <2>1. i \in 1..m + n /\ i <= m
    OBVIOUS
  <2>2. QED
    BY <1>1, <2>1
<1>3. ASSUME NEW i \in 1..n PROVE both[m + i] = b[i]
  <2>1. m + i \in 1..m + n /\ ~(m + i <= m) /\ m + i - m = i
    OBVIOUS
  <2>2. both[m + i] = b[m + i - m]
    BY <1>1, <2>1
  <2>3. QED
    BY <2>1, <2>2
<1>4. QED
  BY <1>1, <1>2, <1>3

AreJoined(both, a, b) ==
  /\ both \in Seq(Octet) /\ Len(both) = Len(a) + Len(b)
  /\ \A i \in 1..Len(a) : both[i] = a[i]
  /\ \A i \in 1..Len(b) : both[Len(a) + i] = b[i]

LEMMA Joins ==
  ASSUME NEW a \in Seq(Octet), NEW b \in Seq(Octet)
  PROVE  AreJoined(a \o b, a, b)
<1>1. PICK m \in Nat, n \in Nat : m = Len(a) /\ n = Len(b)
  BY LenIsNat
<1>2. /\ a \o b \in Seq(Octet) /\ Len(a \o b) = m + n
      /\ \A i \in 1..m : (a \o b)[i] = a[i]
      /\ \A i \in 1..n : (a \o b)[m + i] = b[i]
  BY <1>1, JoinedIs
<1>3. QED
  BY <1>1, <1>2 DEF AreJoined

(* Two octets at the end of a sequence, by names: the provers lose a length *)
(* that equals a numeral.                                                   *)
Two(p) == Len(p) = 2

EndsInTwo(both, a, p) ==
  /\ both \in Seq(Octet) /\ Len(both) = Len(a) + 2
  /\ \A i \in 1..Len(a) : both[i] = a[i]
  /\ both[Len(a) + 1] = p[1] /\ both[Len(a) + 2] = p[2]

LEMMA PairJoined ==
  ASSUME NEW a \in Seq(Octet), NEW p \in Seq(Octet), Two(p)
  PROVE  EndsInTwo(a \o p, a, p)
<1>1. PICK m \in Nat, n \in Nat : m = Len(a) /\ n = Len(p)
  BY LenIsNat
<1>2. PICK both : both = a \o p
  OBVIOUS
<1>3. /\ both \in Seq(Octet) /\ Len(both) = m + n
      /\ \A i \in 1..m : both[i] = a[i]
      /\ \A i \in 1..n : both[m + i] = p[i]
  BY <1>1, <1>2, JoinedIs
<1>4. n = 2 /\ 1 \in 1..n /\ 2 \in 1..n
  BY <1>1 DEF Two
<1>5. EndsInTwo(both, a, p)
  BY <1>1, <1>3, <1>4 DEF EndsInTwo
<1>6. QED
  BY <1>2, <1>5

IsQuestion(q, w, t, c, n) ==
  /\ q \in Seq(Octet) /\ Len(q) = n + 5
  /\ \A k \in 1..n : q[k] = w[k]
  /\ q[n + 1] = 0
  /\ q[n + 2] = t[1] /\ q[n + 3] = t[2]
  /\ q[n + 4] = c[1] /\ q[n + 5] = c[2]

LEMMA QuestionLies ==
  ASSUME NEW w \in Seq(Octet), NEW t \in Seq(Octet), NEW c \in Seq(Octet),
         Two(t), Two(c), NEW n \in Nat, n = Len(w)
  PROVE  IsQuestion(w \o <<0>> \o t \o c, w, t, c, n)
<1>1. PICK zero \in Seq(Octet) : zero = <<0>> /\ Len(zero) = 1 /\ zero[1] = 0
  <2>1. <<0>> \in Seq(Octet)
    BY DEF Octet
  <2>2. Len(<<0>>) = 1 /\ <<0>>[1] = 0
    OBVIOUS
  <2>3. QED
    BY <2>1, <2>2
<1>2. PICK a : a = w \o zero
  OBVIOUS
<1>3. /\ a \in Seq(Octet) /\ Len(a) = n + 1
      /\ \A i \in 1..n : a[i] = w[i]
      /\ a[n + 1] = 0
  <2>1. /\ a \in Seq(Octet) /\ Len(a) = n + 1
        /\ \A i \in 1..n : a[i] = w[i]
        /\ \A i \in 1..1 : a[n + i] = zero[i]
    BY <1>1, <1>2, JoinedIs
  <2>2. QED
    BY <1>1, <2>1
<1>4. PICK b : b = a \o t
  OBVIOUS
<1>5. PICK m \in Nat : m = Len(a)
  BY <1>3
<1>6. /\ b \in Seq(Octet) /\ Len(b) = m + 2
      /\ \A i \in 1..m : b[i] = a[i]
      /\ b[m + 1] = t[1] /\ b[m + 2] = t[2]
  <2>1. a \in Seq(Octet)
    BY <1>3
  <2>2. EndsInTwo(b, a, t)
    BY <1>4, <2>1, PairJoined
  <2>3. QED
    BY <1>5, <2>2 DEF EndsInTwo
<1>7. PICK q : q = b \o c
  OBVIOUS
<1>8. PICK l \in Nat : l = Len(b)
  BY <1>6
<1>9. /\ q \in Seq(Octet) /\ Len(q) = l + 2
      /\ \A i \in 1..l : q[i] = b[i]
      /\ q[l + 1] = c[1] /\ q[l + 2] = c[2]
  <2>1. b \in Seq(Octet)
    BY <1>6
  <2>2. EndsInTwo(q, b, c)
    BY <1>7, <2>1, PairJoined
  <2>3. QED
    BY <1>8, <2>2 DEF EndsInTwo
<1>10. q = w \o <<0>> \o t \o c
  BY <1>1, <1>2, <1>4, <1>7
<1>11. /\ \A k \in 1..n : k \in 1..m /\ k \in 1..l
       /\ m \in 1..m /\ m \in 1..l /\ m + 1 \in 1..l /\ m + 2 \in 1..l
       /\ n + 2 = m + 1 /\ n + 3 = m + 2 /\ n + 4 = l + 1 /\ n + 5 = l + 2
  BY <1>3, <1>5, <1>6, <1>8
<1>12. \A k \in 1..n : q[k] = w[k]
  BY <1>3, <1>6, <1>9, <1>11
<1>13. q[n + 1] = 0
  BY <1>3, <1>5, <1>6, <1>9, <1>11
<1>14. q[n + 2] = t[1] /\ q[n + 3] = t[2]
  BY <1>6, <1>9, <1>11
<1>15. IsQuestion(q, w, t, c, n)
  BY <1>9, <1>11, <1>12, <1>13, <1>14 DEF IsQuestion
<1>16. QED
  BY <1>10, <1>15

Follows(all, q, o) ==
  /\ all \in Seq(Octet) /\ Len(all) = Len(q) + Len(o)
  /\ \A k \in 1..Len(q) : all[k] = q[k]
  /\ SubSeq(all, 1, Len(q)) = q
  /\ SubSeq(all, Len(q) + 1, Len(all)) = o

LEMMA RestLies ==
  ASSUME NEW q \in Seq(Octet), NEW o \in Seq(Octet), q # <<>>
  PROVE  Follows(q \o o, q, o)
<1>1. PICK n \in Nat : n = Len(q) /\ n # 0
  BY EmptySeq
<1>2. PICK m \in Nat, all \in Seq(Octet) : m = Len(o) /\ all = q \o o
  BY LenIsNat, ConcatProperties
<1>3. /\ all \in Seq(Octet) /\ Len(all) = n + m
      /\ \A i \in 1..n : all[i] = q[i]
  BY <1>1, <1>2, JoinedIs
<1>4. n \in 1..n /\ 1 \in 1..n
  BY <1>1
<1>5. SubSeq(all, 1, n) = q
  <2>1. SubSeq(q \o o, 1, n) = SubSeq(q, 1, n)
    BY <1>1, <1>4, SubSeqOfConcat1
  <2>2. QED
    BY <1>1, <1>2, <2>1, SubSeqFull
<1>6. SubSeq(all, n + 1, n + m) = o
  <2>1. CASE m = 0
    <3>1. n + m < n + 1 /\ n + m \in Int /\ n + 1 \in Int
      BY <2>1
    <3>2. SubSeq(all, n + 1, n + m) = <<>>
      BY <3>1, SubSeqEmpty
    <3>3. o = <<>>
      BY <1>2, <2>1, EmptySeq
    <3>4. QED
      BY <1>2, <3>2, <3>3
  <2>2. CASE m # 0
    <3>1. n + 1 \in n + 1..n + m /\ n + m \in n + 1..n + m
      BY <2>2
    <3>2. SubSeq(q \o o, n + 1, n + m) = SubSeq(o, n + 1 - n, n + m - n)
      BY <1>1, <1>2, <3>1, SubSeqOfConcat2
    <3>3. n + 1 - n = 1 /\ n + m - n = m
      OBVIOUS
    <3>4. SubSeq(o, 1, m) = o
      BY <1>2, SubSeqFull
    <3>5. SubSeq(q \o o, n + 1, n + m) = o
      BY <3>2, <3>3, <3>4
    <3>6. QED
      BY <1>2, <3>5
  <2>3. QED
    BY <2>1, <2>2
<1>7. Follows(all, q, o)
  BY <1>1, <1>2, <1>3, <1>5, <1>6 DEF Follows
<1>8. QED
  BY <1>2, <1>7

LEMMA EndIs ==
  ASSUME NEW octets \in Seq(Octet), NEW z \in Nat, ZeroAt(octets, z),
         NoneBefore(octets, z), z + 4 <= Len(octets)
  PROVE  question_section_end(octets) = z + 4
<1> DEFINE I == {i \in 1..Len(octets) : octets[i] = 0}
           zero == SelectInSeq(octets, LAMBDA o : o = 0)
<1>1. PICK l \in Nat : l = Len(octets)
  BY LenIsNat
<1>2. z \in I /\ I \in SUBSET Nat
  BY <1>1 DEF ZeroAt
<1>3. zero = Min(I)
  BY <1>2 DEF SelectInSeq
<1>4. PICK y \in I : y = zero /\ \A i \in I : y <= i
  BY <1>2, <1>3, LeastExists
<1>5. y \in 1..l /\ octets[y] = 0 /\ y <= z
  BY <1>1, <1>2, <1>4
<1>6. ~(y < z)
  BY <1>1, <1>5 DEF NoneBefore
<1>7. y = z /\ zero = z
  BY <1>4, <1>5, <1>6
<1>8. z # 0 /\ ~(z + 4 > Len(octets))
  BY <1>1, <1>5, <1>7
<1>9. QED
  BY <1>7, <1>8 DEF question_section_end

LEMMA PairIs ==
  ASSUME NEW p \in Pair
  PROVE  p \in Seq(Octet) /\ Two(p) /\ p[1] \in Octet /\ p[2] \in Octet
<1>1. p \in [1..2 -> Octet] /\ 2 \in Nat
  BY DEF Pair
<1>2. p \in Seq(Octet)
  BY <1>1, SeqDef
<1>3. DOMAIN p = 1..2 /\ DOMAIN p = 1..Len(p) /\ Len(p) \in Nat
  BY <1>1, <1>2, LenProperties
<1>4. QED
  BY <1>1, <1>2, <1>3 DEF Two

LEMMA MeaningIs ==
  ASSUME NEW q \in Query, q.meant # None
  PROVE  /\ q.meant.labels \in Seq(Seq(Octet)) /\ q.meant.labels # <<>>
         /\ \A k \in 1..Len(q.meant.labels) :
              /\ Sendable(q.meant.labels[k])
              /\ ToSet(q.meant.labels[k]) \cap NotText = {}
         /\ q.meant.qtype \in Pair /\ q.meant.qclass \in Pair
         /\ q.meant.opt # None => q.meant.opt.size \in Pair /\ q.meant.opt.do \in BOOLEAN
         /\ ~q.short /\ q.qdcount = 1
         /\ q.arcount = (IF q.meant.opt = None THEN 0 ELSE 1)
         /\ q.body = QueryOctets(q.meant)
<1>1. PICK m \in Meaning : m = q.meant
  BY MeaningAssumption
<1>2. /\ m.labels \in Seq(Seq(Letter) \ {<<>>}) /\ m.labels # <<>>
      /\ m.qtype \in Pair /\ m.qclass \in Pair
      /\ m.opt # None => m.opt.size \in Pair /\ m.opt.do \in BOOLEAN
  BY <1>1 DEF Meaning
<1>3. Letter \subseteq Octet /\ 0 \notin Letter /\ Letter \cap NotText = {}
  BY DEF Letter
<1>4. \A label \in Seq(Letter) : label \in Seq(Octet)
  BY <1>3, SeqMonotonic
<1>5. m.labels \in Seq(Seq(Octet))
  <2>1. Seq(Letter) \ {<<>>} \subseteq Seq(Octet)
    BY <1>4
  <2>2. QED
    BY <1>2, <2>1, SeqMonotonic
<1>6. PICK l \in Nat : l = Len(m.labels) /\ DOMAIN m.labels = 1..l
  BY <1>2, LenProperties
<1>7. ASSUME NEW k \in 1..l
      PROVE  Sendable(m.labels[k]) /\ ToSet(m.labels[k]) \cap NotText = {}
  <2>1. PICK label \in Seq(Letter) : label = m.labels[k] /\ label # <<>>
    BY <1>2, <1>6, ElementOfSeq
  <2>2. PICK n \in Nat : n = Len(label) /\ DOMAIN label = 1..n
    BY LenProperties
  <2>3. n <= 63
    BY <1>1, <1>6, <2>1, <2>2, MeaningAssumption
  <2>4. n # 0
    BY <2>1, <2>2
  <2>5. \A i \in 1..n : label[i] \in Letter
    BY <2>2, ElementOfSeq
  <2>6. NoZero(label)
    BY <1>3, <2>2, <2>5 DEF NoZero
  <2>7. ToSet(label) \cap NotText = {}
    BY <1>3, <2>2, <2>5 DEF ToSet
  <2>8. n \in 1..63
    BY <2>3, <2>4
  <2>9. QED
    BY <2>1, <2>2, <2>6, <2>7, <2>8 DEF Sendable
<1>8. QED
  BY <1>1, <1>2, <1>5, <1>6, <1>7, MeaningAssumption

(* The question of a query made from a meaning, and what follows it. *)
Asked(m) == Wired(m.labels) \o <<0>> \o m.qtype \o m.qclass

After(m) == IF m.opt = None THEN <<>> ELSE OptOctets(m.opt)

EdnsOf(m) ==
  IF m.opt = None THEN None
  ELSE [size |-> Max({512, u16(m.opt.size[1], m.opt.size[2])}), do |-> m.opt.do]

LEMMA OptIs ==
  ASSUME NEW opt, opt.size \in Pair, opt.do \in BOOLEAN
  PROVE  /\ OptOctets(opt) \in Seq(Octet)
         /\ Len(OptOctets(opt)) = 11
         /\ SubSeq(OptOctets(opt), 1, 3) = <<0, 0, 41>>
         /\ OptOctets(opt)[4] = opt.size[1] /\ OptOctets(opt)[5] = opt.size[2]
         /\ OptOctets(opt)[8] >= 128 <=> opt.do
<1>1. PICK high \in Octet, low \in Octet, flag \in {0, 128} :
        /\ high = opt.size[1] /\ low = opt.size[2]
        /\ flag = IF opt.do THEN 128 ELSE 0
  BY PairIs
<1>2. 0 \in Octet /\ 41 \in Octet /\ flag \in Octet
  BY DEF Octet
<1>3. PICK a \in Seq(Octet) : a = <<0, 0, 41>>
  <2>1. <<0, 0, 41>> \in Seq(Octet)
    BY <1>2
  <2>2. QED
    BY <2>1
<1>4. PICK b \in Seq(Octet) : b = opt.size /\ Two(b)
  BY PairIs
<1>5. PICK c \in Seq(Octet) : c = <<0, 0, flag, 0, 0, 0>>
  <2>1. <<0, 0, flag, 0, 0, 0>> \in Seq(Octet)
    BY <1>2
  <2>2. QED
    BY <2>1
<1>6. PICK la \in Nat, lb \in Nat, lc \in Nat : la = Len(a) /\ lb = Len(b) /\ lc = Len(c)
  BY LenIsNat
<1>7. PICK ab, rest : ab = a \o b /\ rest = ab \o c
  OBVIOUS
<1>8. /\ ab \in Seq(Octet) /\ Len(ab) = la + lb
      /\ \A i \in 1..la : ab[i] = a[i]
      /\ \A i \in 1..lb : ab[la + i] = b[i]
  BY <1>6, <1>7, JoinedIs
<1>9. PICK l \in Nat : l = Len(ab) /\ l = la + lb
  BY <1>8
<1>10. /\ rest \in Seq(Octet) /\ Len(rest) = l + lc
       /\ \A i \in 1..l : rest[i] = ab[i]
       /\ \A i \in 1..lc : rest[l + i] = c[i]
  BY <1>6, <1>7, <1>8, <1>9, JoinedIs
<1>11. la = 3 /\ lb = 2 /\ lc = 6 /\ c[3] = flag
  BY <1>3, <1>4, <1>5, <1>6 DEF Two
<1>12. Len(rest) = 11
  BY <1>9, <1>10, <1>11
<1>13. rest[4] = b[1] /\ rest[5] = b[2]
  <2>1. la + 1 \in 1..l /\ la + 2 \in 1..l /\ 1 \in 1..lb /\ 2 \in 1..lb
    BY <1>9, <1>11
  <2>2. rest[la + 1] = b[1] /\ rest[la + 2] = b[2]
    BY <1>8, <1>10, <2>1
  <2>3. la + 1 = 4 /\ la + 2 = 5
    BY <1>11
  <2>4. QED
    BY <2>2, <2>3
<1>14. rest[8] = flag
  <2>1. 3 \in 1..lc /\ l + 3 = 8
    BY <1>9, <1>11
  <2>2. rest[l + 3] = c[3]
    BY <1>10, <2>1
  <2>3. QED
    BY <1>11, <2>1, <2>2
<1>15. SubSeq(rest, 1, 3) = <<0, 0, 41>>
  <2>1. rest = a \o (b \o c) /\ b \o c \in Seq(Octet)
    BY <1>7, ConcatAssociative, ConcatProperties
  <2>2. 1 \in 1..la /\ la \in 1..la
    BY <1>11
  <2>3. SubSeq(rest, 1, la) = SubSeq(a, 1, la)
    BY <1>6, <2>1, <2>2, SubSeqOfConcat1
  <2>4. SubSeq(a, 1, la) = a
    BY <1>6, SubSeqFull
  <2>5. QED
    BY <1>3, <1>11, <2>3, <2>4
<1>16. OptOctets(opt) = rest
  BY <1>1, <1>3, <1>4, <1>5, <1>7 DEF OptOctets
<1>17. flag >= 128 <=> opt.do
  BY <1>1
<1>18. QED
  BY <1>4, <1>10, <1>12, <1>13, <1>14, <1>15, <1>16, <1>17

LEMMA QueryLies ==
  ASSUME NEW q \in Query, q.meant # None, NEW n \in Nat, n = Len(Wired(q.meant.labels))
  PROVE  /\ q.body \in Seq(Octet) /\ Len(q.body) \in Nat /\ n + 5 <= Len(q.body)
         /\ \A k \in 1..n : q.body[k] = Wired(q.meant.labels)[k]
         /\ q.body[n + 1] = 0
         /\ question_section_end(q.body) = n + 5
         /\ SubSeq(q.body, 1, n + 5) = Asked(q.meant)
         /\ qtype(q.body, n + 5) = u16(q.meant.qtype[1], q.meant.qtype[2])
         /\ qclass(q.body, n + 5) = u16(q.meant.qclass[1], q.meant.qclass[2])
         /\ SubSeq(q.body, n + 5 + 1, Len(q.body)) = After(q.meant)
<1>1. PICK m : m = q.meant
  OBVIOUS
<1>2. /\ m.labels \in Seq(Seq(Octet))
      /\ m.qtype \in Seq(Octet) /\ Two(m.qtype) /\ m.qclass \in Seq(Octet) /\ Two(m.qclass)
      /\ m.opt # None => m.opt.size \in Pair /\ m.opt.do \in BOOLEAN
      /\ NoZero(Wired(m.labels))
      /\ q.body = QueryOctets(m)
  BY <1>1, MeaningIs, PairIs, SendableNoZero
<1>3. PICK wire \in Seq(Octet) : wire = Wired(m.labels)
  <2>1. <<>> \in Seq(Octet)
    OBVIOUS
  <2>2. QED
    BY <1>2, <2>1, WiredAppend
<1>4. PICK ask : ask = Asked(m)
  OBVIOUS
<1>5. /\ ask \in Seq(Octet) /\ Len(ask) = n + 5
      /\ \A k \in 1..n : ask[k] = wire[k]
      /\ ask[n + 1] = 0
      /\ ask[n + 2] = m.qtype[1] /\ ask[n + 3] = m.qtype[2]
      /\ ask[n + 4] = m.qclass[1] /\ ask[n + 5] = m.qclass[2]
  <2>1. ask = wire \o <<0>> \o m.qtype \o m.qclass
    BY <1>3, <1>4 DEF Asked
  <2>2. n = Len(wire)
    BY <1>1, <1>3
  <2>3. IsQuestion(ask, wire, m.qtype, m.qclass, n)
    BY <1>2, <2>1, <2>2, QuestionLies
  <2>4. QED
    BY <2>3 DEF IsQuestion
<1>6. PICK rest \in Seq(Octet) : rest = After(m)
  <2>1. <<>> \in Seq(Octet)
    OBVIOUS
  <2>2. QED
    BY <1>2, <2>1, OptIs DEF After
<1>7. PICK all : all = q.body
  OBVIOUS
<1>8. all = ask \o rest
  BY <1>2, <1>4, <1>6, <1>7 DEF QueryOctets, Asked, After
<1>9. PICK l \in Nat : l = Len(ask) /\ l = n + 5 /\ ask # <<>>
  BY <1>5
<1>10. PICK r \in Nat : r = Len(rest)
  BY LenIsNat
<1>11. /\ all \in Seq(Octet) /\ Len(all) = l + r
       /\ \A k \in 1..l : all[k] = ask[k]
       /\ SubSeq(all, 1, l) = ask
       /\ SubSeq(all, l + 1, Len(all)) = rest
  <2>1. ask \in Seq(Octet) /\ ask # <<>>
    BY <1>5, <1>9
  <2>2. Follows(all, ask, rest)
    BY <1>8, <2>1, RestLies
  <2>3. QED
    BY <1>9, <1>10, <2>2 DEF Follows
<1>12. /\ n + 1 \in 1..l /\ n + 2 \in 1..l /\ n + 3 \in 1..l /\ n + 4 \in 1..l
       /\ n + 5 \in 1..l /\ l - 3 = n + 2 /\ l - 2 = n + 3 /\ l - 1 = n + 4
       /\ l = n + 5 /\ l = n + 1 + 4 /\ \A k \in 1..n : k \in 1..l
  BY <1>9
<1>13. all[n + 1] = 0
  BY <1>5, <1>11, <1>12
<1>14. question_section_end(all) = l
  <2>1. ZeroAt(all, n + 1)
    <3>1. n + 1 \in 1..Len(all)
      BY <1>11, <1>12
    <3>2. QED
      BY <1>13, <3>1 DEF ZeroAt
  <2>2. NoneBefore(all, n + 1)
    <3>1. SUFFICES ASSUME NEW k \in 1..l + r, k < n + 1 PROVE all[k] # 0
      BY <1>11 DEF NoneBefore
    <3>2. k \in 1..n
      BY <3>1
    <3>3. wire[k] # 0
      BY <1>1, <1>2, <1>3, <3>2 DEF NoZero
    <3>4. QED
      BY <1>5, <1>11, <1>12, <3>2, <3>3
  <2>3. n + 1 + 4 <= Len(all) /\ n + 1 \in Nat
    BY <1>11, <1>12
  <2>4. question_section_end(all) = n + 1 + 4
    BY <1>11, <2>1, <2>2, <2>3, EndIs
  <2>5. QED
    BY <1>12, <2>4
<1>15. qtype(all, l) = u16(m.qtype[1], m.qtype[2])
  <2>1. all[l - 3] = m.qtype[1] /\ all[l - 2] = m.qtype[2]
    BY <1>5, <1>11, <1>12
  <2>2. QED
    BY Zenon, <2>1 DEF qtype
<1>16. qclass(all, l) = u16(m.qclass[1], m.qclass[2])
  <2>1. all[l - 1] = m.qclass[1] /\ all[l] = m.qclass[2]
    BY <1>5, <1>11, <1>12
  <2>2. QED
    BY Zenon, <2>1 DEF qclass
<1>17. l <= l + r
  OBVIOUS
<1>18. \A k \in 1..n : all[k] = wire[k]
  BY <1>5, <1>11, <1>12
<1>19. QED
  BY <1>1, <1>3, <1>4, <1>6, <1>7, <1>9, <1>11, <1>13, <1>14, <1>15, <1>16, <1>17, <1>18

OptRead(s) == [size |-> Max({512, u16(s[4], s[5])}), do |-> s[8] >= 128]

(* The OPT of a query made from a meaning is found. *)
LEMMA OptIsFound ==
  ASSUME NEW q \in Query, q.meant # None
  PROVE  parse_query_opt(q) = EdnsOf(q.meant)
<1>1. PICK m : m = q.meant
  OBVIOUS
<1>2. /\ m.opt # None => m.opt.size \in Pair /\ m.opt.do \in BOOLEAN
      /\ q.arcount = (IF m.opt = None THEN 0 ELSE 1)
      /\ m.labels \in Seq(Seq(Octet))
  BY <1>1, MeaningIs
<1>3. PICK n \in Nat : n = Len(Wired(m.labels))
  <2>1. <<>> \in Seq(Octet)
    OBVIOUS
  <2>2. Wired(m.labels) \in Seq(Octet)
    BY <1>2, <2>1, WiredAppend
  <2>3. QED
    BY <2>2, LenIsNat
<1>4. PICK end \in Nat : end = n + 5
  OBVIOUS
<1>5. /\ question_section_end(q.body) = end
      /\ SubSeq(q.body, end + 1, Len(q.body)) = After(m)
  BY <1>1, <1>3, <1>4, QueryLies
<1>6. end # None
  BY WireAssumption
<1>7. CASE m.opt = None
  BY <1>1, <1>2, <1>7 DEF parse_query_opt, EdnsOf
<1>8. CASE m.opt # None
  <2>1. PICK rest : rest = OptOctets(m.opt)
    OBVIOUS
  <2>2. /\ Len(rest) = 11 /\ SubSeq(rest, 1, 3) = <<0, 0, 41>>
        /\ rest[4] = m.opt.size[1] /\ rest[5] = m.opt.size[2]
        /\ rest[8] >= 128 <=> m.opt.do
    BY <1>2, <1>8, <2>1, OptIs
  <2>3. SubSeq(q.body, end + 1, Len(q.body)) = rest
    BY <1>5, <1>8, <2>1 DEF After
  <2>4. q.arcount # 0 /\ Len(rest) >= 11
    BY <1>2, <1>8, <2>2
  <2>5. parse_query_opt(q) = [size |-> Max({512, u16(rest[4], rest[5])}), do |-> rest[8] >= 128]
    <3>1. question_section_end(q.body) = end
      BY <1>5
    <3>2. /\ end = question_section_end(q.body)
          /\ rest = SubSeq(q.body, question_section_end(q.body) + 1, Len(q.body))
      BY <2>3, <3>1
    <3>3. ASSUME NEW k, NEW s, k = question_section_end(q.body),
                 s = SubSeq(q.body, question_section_end(q.body) + 1, Len(q.body)),
                 q.arcount # 0, k # None, Len(s) >= 11, SubSeq(s, 1, 3) = <<0, 0, 41>>
          PROVE  parse_query_opt(q) = OptRead(s)
      <4>1. parse_query_opt(q) =
              IF q.arcount = 0 \/ k = None THEN None
              ELSE IF Len(s) >= 11 /\ SubSeq(s, 1, 3) = <<0, 0, 41>> THEN OptRead(s)
              ELSE None
        BY <3>3 DEF parse_query_opt, OptRead
      <4>2. QED
        BY <3>3, <4>1
    <3>4. parse_query_opt(q) = OptRead(rest)
      BY Zenon, <1>6, <2>2, <2>4, <3>2, <3>3
    <3>5. QED
      BY <3>4 DEF OptRead
  <2>6. (rest[8] >= 128) = m.opt.do
    BY <1>2, <1>8, <2>2
  <2>7. QED
    BY <1>1, <1>8, <2>2, <2>5, <2>6 DEF EdnsOf
<1>9. QED
  BY <1>7, <1>8

(* What lies where the walk of a query made from a meaning stands: the next *)
(* label, or the zero octet after the last one.                             *)
LEMMA NameEndsThere ==
  ASSUME NEW q \in Query, q.meant # None, NEW p \in Nat \ {0}, p - 1 <= Len(q.body),
         SubSeq(q.body, 1, p - 1) = Wired(q.meant.labels)
  PROVE  q.body[p] = 0
<1>1. PICK n \in Nat : n = Len(Wired(q.meant.labels))
  <2>1. <<>> \in Seq(Octet) /\ q.meant.labels \in Seq(Seq(Octet))
    BY MeaningIs
  <2>2. Wired(q.meant.labels) \in Seq(Octet)
    BY <2>1, WiredAppend
  <2>3. QED
    BY <2>2, LenIsNat
<1>2. q.body \in Seq(Octet) /\ q.body[n + 1] = 0
  BY <1>1, QueryLies
<1>3. Len(SubSeq(q.body, 1, p - 1)) = p - 1
  <2>1. 1 \in Int /\ p - 1 \in Int
    OBVIOUS
  <2>2. \A i \in 1..p - 1 : q.body[i] \in Octet
    <3>1. PICK l \in Nat : l = Len(q.body)
      BY <1>2, LenIsNat
    <3>2. \A i \in 1..p - 1 : i \in 1..l
      BY <3>1
    <3>3. QED
      BY <1>2, <3>1, <3>2, ElementOfSeq
  <2>3. Len(SubSeq(q.body, 1, p - 1)) = IF 1 <= p - 1 THEN p - 1 - 1 + 1 ELSE 0
    BY <2>1, <2>2, SubSeqProperties
  <2>4. QED
    BY <2>3
<1>4. n + 1 = p
  BY <1>1, <1>3
<1>5. QED
  BY <1>2, <1>4

LiesAt(q, p, label) ==
  /\ Len(label) \in 1..63
  /\ q.body[p] = Len(label)
  /\ p + Len(label) <= Len(q.body)
  /\ SubSeq(q.body, p + 1, p + Len(label)) = label
  /\ ToSet(label) \cap NotText = {}

LEMMA LabelLiesThere ==
  ASSUME NEW q \in Query, q.meant # None, NEW p \in Nat \ {0}, p - 1 <= Len(q.body),
         NEW i \in Nat, i + 1 <= Len(q.meant.labels),
         SubSeq(q.body, 1, p - 1) = Wired(SubSeq(q.meant.labels, 1, i)),
         NEW label, label = q.meant.labels[i + 1]
  PROVE  LiesAt(q, p, label)
<1>1. PICK parts \in Seq(Seq(Octet)) : parts = q.meant.labels
  BY MeaningIs
<1>2. PICK c \in Nat : c = Len(parts) /\ i + 1 \in 1..c
  BY <1>1, LenIsNat
<1>3. /\ Sendable(label) /\ ToSet(label) \cap NotText = {}
      /\ label \in Seq(Octet)
  BY <1>1, <1>2, MeaningIs, ElementOfSeq
<1>4. PICK front \in Seq(Octet), rest \in Seq(Octet) :
        /\ front = Wired(SubSeq(parts, 1, i))
        /\ Wired(parts) = (front \o WiredLabel(label)) \o rest
  <2>1. i + 1 \in 0..Len(parts) /\ i + 1 <= Len(parts)
    BY <1>2
  <2>2. PICK rest \in Seq(Octet) : Wired(parts) = Wired(SubSeq(parts, 1, i + 1)) \o rest
    BY <2>1, PartsLie DEF Parted
  <2>3. /\ SubSeq(parts, 1, i) \in Seq(Seq(Octet))
        /\ SubSeq(parts, 1, i + 1) = Append(SubSeq(parts, 1, i), label)
    BY <1>1, <2>1, PrefixGrows
  <2>4. /\ Wired(SubSeq(parts, 1, i)) \in Seq(Octet)
        /\ Wired(SubSeq(parts, 1, i + 1)) = Wired(SubSeq(parts, 1, i)) \o WiredLabel(label)
    BY <1>3, <2>3, WiredAppend
  <2>5. QED
    BY <2>2, <2>4
<1>5. PICK k \in 1..63 : k = Len(label)
  BY <1>3 DEF Sendable
<1>6. PICK l \in Nat : l = Len(q.body) /\ q.body \in Seq(Octet)
  BY WireAssumption, LenIsNat
<1>7. PICK f \in Nat : f = Len(front)
  BY LenIsNat
<1>8. f = p - 1
  <2>1. 1 \in Int /\ p - 1 \in Int
    OBVIOUS
  <2>2. \A j \in 1..p - 1 : q.body[j] \in Octet
    <3>1. \A j \in 1..p - 1 : j \in 1..l
      BY <1>6
    <3>2. QED
      BY <1>6, <3>1, ElementOfSeq
  <2>3. Len(SubSeq(q.body, 1, p - 1)) = IF 1 <= p - 1 THEN p - 1 - 1 + 1 ELSE 0
    BY <2>1, <2>2, SubSeqProperties
  <2>4. Len(front) = p - 1
    BY <1>1, <1>4, <2>3
  <2>5. QED
    BY <1>7, <2>4
<1>9. PICK one \in Seq(Octet) : one = <<k>> /\ Len(one) = 1 /\ one[1] = k
  <2>1. k \in Octet
    BY DEF Octet
  <2>2. <<k>> \in Seq(Octet)
    BY <2>1
  <2>3. Len(<<k>>) = 1 /\ <<k>>[1] = k
    OBVIOUS
  <2>4. QED
    BY <2>2, <2>3
<1>10. PICK a : a = one \o label
  OBVIOUS
<1>11. a = WiredLabel(label)
  BY <1>3, <1>5, <1>9, <1>10, SendableWired
<1>12. /\ a \in Seq(Octet) /\ Len(a) = 1 + k
       /\ \A j \in 1..1 : a[j] = one[j]
       /\ \A j \in 1..k : a[1 + j] = label[j]
  <2>1. label \in Seq(Octet)
    BY <1>3
  <2>2. AreJoined(a, one, label)
    BY <1>10, <2>1, Joins
  <2>3. Len(one) = 1
    BY <1>9
  <2>4. QED
    BY <1>5, <2>2, <2>3 DEF AreJoined
<1>13. PICK la \in Nat : la = Len(a)
  BY <1>12, LenIsNat
<1>14. la = 1 + k
  BY <1>12, <1>13
<1>15. PICK b : b = front \o a
  OBVIOUS
<1>16. /\ b \in Seq(Octet) /\ Len(b) = f + la
       /\ \A j \in 1..la : b[f + j] = a[j]
  <2>1. a \in Seq(Octet)
    BY <1>12
  <2>2. AreJoined(b, front, a)
    BY <1>15, <2>1, Joins
  <2>3. QED
    BY <1>7, <1>13, <2>2 DEF AreJoined
<1>17. PICK lb \in Nat, r \in Nat : lb = Len(b) /\ r = Len(rest)
  BY <1>16, LenIsNat
<1>18. lb = f + la
  BY <1>16, <1>17
<1>19. PICK wire : wire = b \o rest
  OBVIOUS
<1>20. /\ wire \in Seq(Octet) /\ Len(wire) = lb + r
       /\ \A j \in 1..lb : wire[j] = b[j]
  <2>1. b \in Seq(Octet)
    BY <1>16
  <2>2. AreJoined(wire, b, rest)
    BY <1>19, <2>1, Joins
  <2>3. QED
    BY <1>17, <2>2 DEF AreJoined
<1>21. wire = Wired(q.meant.labels)
  BY <1>1, <1>4, <1>11, <1>15, <1>19
<1>22. PICK n \in Nat : n = Len(wire)
  BY <1>20, LenIsNat
<1>23. f + 1 = p /\ lb = p + k /\ lb <= n
  <2>1. n = lb + r
    BY <1>20, <1>22
  <2>2. f + 1 = p
    BY <1>8
  <2>3. lb = p + k
    BY <1>14, <1>18, <2>2
  <2>4. lb <= n
    BY <2>1
  <2>5. QED
    BY <2>2, <2>3, <2>4
<1>24. n + 5 <= l /\ \A j \in 1..n : q.body[j] = wire[j]
  BY <1>6, <1>21, <1>22, QueryLies
<1>25. q.body[p] = k
  <2>1. p \in 1..n /\ p \in 1..lb /\ 1 \in 1..la /\ 1 \in 1..1
    BY <1>14, <1>23
  <2>2. a[1] = k
    BY <1>9, <1>12, <2>1
  <2>3. b[f + 1] = k
    BY <1>16, <2>1, <2>2
  <2>4. QED
    BY <1>20, <1>23, <1>24, <2>1, <2>3
<1>26. ASSUME NEW j \in 1..k PROVE q.body[p + j] = label[j]
  <2>1. /\ p + j \in 1..n /\ p + j \in 1..lb /\ p + j = f + (1 + j)
        /\ 1 + j \in 1..la
    <3>1. p + j \in 1..n /\ p + j \in 1..lb
      BY <1>23
    <3>2. p + j = f + (1 + j)
      BY <1>23
    <3>3. 1 + j \in 1..la
      BY <1>14
    <3>4. QED
      BY <3>1, <3>2, <3>3
  <2>2. a[1 + j] = label[j]
    BY <1>12
  <2>3. b[f + (1 + j)] = label[j]
    BY <1>16, <2>1, <2>2
  <2>4. QED
    BY <1>20, <1>24, <2>1, <2>3
<1>27. p + k <= l
  <2>1. n + 5 <= l
    BY <1>24
  <2>2. QED
    BY <1>23, <2>1
<1>28. SubSeq(q.body, p + 1, p + k) = label
  <2>1. \A j \in p + 1..p + k : q.body[j] \in Octet
    <3>1. \A j \in p + 1..p + k : j \in 1..l
      BY <1>27
    <3>2. QED
      BY <1>6, <3>1, ElementOfSeq
  <2>2. PICK s : s = SubSeq(q.body, p + 1, p + k)
    OBVIOUS
  <2>3. p + 1 \in Int /\ p + k \in Int
    OBVIOUS
  <2>4. /\ s \in Seq(Octet)
        /\ Len(s) = IF p + 1 <= p + k THEN p + k - (p + 1) + 1 ELSE 0
        /\ \A j \in 1..p + k - (p + 1) + 1 : s[j] = q.body[p + 1 + j - 1]
    BY <2>1, <2>2, <2>3, SubSeqProperties
  <2>5. Len(s) = k
    BY <2>4
  <2>6. ASSUME NEW j \in 1..k PROVE s[j] = label[j]
    <3>1. j \in 1..p + k - (p + 1) + 1 /\ p + 1 + j - 1 = p + j
      OBVIOUS
    <3>2. s[j] = q.body[p + 1 + j - 1]
      BY <2>4, <3>1
    <3>3. QED
      BY <1>26, <3>1, <3>2
  <2>7. s = label
    <3>1. s \in Seq(Octet) /\ label \in Seq(Octet) /\ Len(s) = Len(label)
      BY <1>3, <1>5, <2>4, <2>5
    <3>2. \A j \in 1..Len(s) : s[j] = label[j]
      BY <2>5, <2>6
    <3>3. QED
      BY <3>1, <3>2, SeqEqual
  <2>8. QED
    BY <2>2, <2>7
<1>29. QED
  BY <1>3, <1>5, <1>6, <1>25, <1>27, <1>28 DEF LiesAt

-----------------------------------------------------------------------------
(* The walk of a query made from a meaning goes along its labels. *)
Along ==
  query.meant # None =>
    /\ Len(labels) <= Len(query.meant.labels)
    /\ labels = SubSeq(query.meant.labels, 1, Len(labels))
    /\ pc = "question" => labels = query.meant.labels

MeantInv == WalkInv /\ Along /\ LegalIsUnderstood

LEMMA InitMeans == Init => MeantInv
<1> SUFFICES ASSUME Init PROVE MeantInv
  OBVIOUS
<1>1. WalkInv
  BY InitWalks
<1>2. Along
  <2>1. SUFFICES ASSUME query.meant # None
                 PROVE  /\ Len(labels) <= Len(query.meant.labels)
                        /\ labels = SubSeq(query.meant.labels, 1, Len(labels))
    BY DEF Init, Along
  <2>2. PICK l \in Nat : l = Len(query.meant.labels)
    BY <2>1, MeaningIs, LenIsNat DEF Init
  <2>3. labels = <<>> /\ Len(labels) = 0
    BY DEF Init
  <2>4. SubSeq(query.meant.labels, 1, 0) = <<>>
    BY SubSeqEmpty
  <2>5. QED
    BY <2>2, <2>3, <2>4
<1>3. LegalIsUnderstood
  BY DEF Init, LegalIsUnderstood
<1>4. QED
  BY <1>1, <1>2, <1>3 DEF MeantInv

(* Where the walk of such a query stands. *)
LEMMA StandsThere ==
  ASSUME WalkInv, Along, query.meant # None
  PROVE  /\ query \in Query /\ pos \in Nat \ {0} /\ pos - 1 <= Len(query.body)
         /\ Len(labels) \in Nat
         /\ labels = query.meant.labels => query.body[pos] = 0
         /\ Len(labels) + 1 <= Len(query.meant.labels) =>
              LiesAt(query, pos, query.meant.labels[Len(labels) + 1])
<1>1. query \in Query
  BY DEF WalkInv, Reading
<1>2. PICK l \in Nat : l = Len(query.body)
  BY <1>1, WireAssumption, LenIsNat
<1>3. PICK p \in Nat \ {0} : p = pos /\ p - 1 <= Len(query.body)
  BY <1>2 DEF WalkInv, TypeOK, body
<1>4. PICK i \in Nat : i = Len(labels)
  BY LenIsNat DEF WalkInv, TypeOK
<1>5. /\ SubSeq(query.body, 1, p - 1) = Wired(labels)
      /\ labels = SubSeq(query.meant.labels, 1, i)
  BY <1>3, <1>4 DEF WalkInv, Walked, Along, body
<1>6. labels = query.meant.labels => query.body[p] = 0
  BY <1>1, <1>3, <1>5, NameEndsThere
<1>7. ASSUME i + 1 <= Len(query.meant.labels)
      PROVE  LiesAt(query, p, query.meant.labels[i + 1])
  <2>1. SubSeq(query.body, 1, p - 1) = Wired(SubSeq(query.meant.labels, 1, i))
    BY <1>5
  <2>2. PICK label : label = query.meant.labels[i + 1]
    OBVIOUS
  <2>3. QED
    BY <1>1, <1>3, <1>7, <2>1, <2>2, LabelLiesThere
<1>8. QED
  BY <1>1, <1>3, <1>4, <1>6, <1>7

LEMMA AnswerUnderstood ==
  ASSUME WalkInv, Along, query.meant # None, NEW rcode \in Rcode,
         pc' = "done", UNCHANGED <<query, zone, pos, domain, labels>>,
         reply' = Echo(query, rcode),
         query.opcode # 0 <=> rcode = "NOTIMP",
         query.opcode = 0 =>
           /\ labels = query.meant.labels
           /\ rcode = "NOERROR" <=>
                /\ query.meant.qclass = <<0, 1>>
                /\ Served(u16(query.meant.qtype[1], query.meant.qtype[2]))
  PROVE  LegalIsUnderstood'
<1>1. query \in Query
  BY DEF WalkInv, Reading
<1>2. PICK m : m = query.meant
  OBVIOUS
<1>3. PICK n \in Nat : n = Len(Wired(m.labels))
  <2>1. <<>> \in Seq(Octet) /\ m.labels \in Seq(Seq(Octet))
    BY <1>1, <1>2, MeaningIs
  <2>2. Wired(m.labels) \in Seq(Octet)
    BY <2>1, WiredAppend
  <2>3. QED
    BY <2>2, LenIsNat
<1>4. /\ question_section_end(query.body) = n + 5
      /\ SubSeq(query.body, 1, n + 5) = Asked(m)
      /\ n + 5 # None
  <2>1. n + 5 \in Nat
    OBVIOUS
  <2>2. n + 5 # None
    BY <2>1, WireAssumption
  <2>3. QED
    BY <1>1, <1>2, <1>3, <2>2, QueryLies
<1>5. reply' # None /\ reply'.rcode = rcode
  BY <1>1, EchoIs
<1>6. reply'.question = Asked(m)
  BY <1>1, <1>4, EchoIs
<1>7. reply'.edns = EdnsOf(m)
  BY <1>1, <1>2, EchoIs, OptIsFound
<1>8. \A type : Served(type)' <=> Served(type)
  BY DEF Served, is_version_query
<1>9. QED
  BY <1>2, <1>5, <1>6, <1>7, <1>8 DEF LegalIsUnderstood, Asked, EdnsOf

LEMMA ClassIn ==
  ASSUME NEW p \in Pair
  PROVE  u16(p[1], p[2]) = 1 <=> p = <<0, 1>>
<1>1. PICK high \in Octet, low \in Octet : high = p[1] /\ low = p[2]
  BY PairIs
<1>2. 256 * high + low = 1 <=> high = 0 /\ low = 1
  BY DEF Octet
<1>3. p = <<0, 1>> <=> high = 0 /\ low = 1
  <2>1. p = [i \in 1..2 |-> IF i = 1 THEN high ELSE low]
    BY <1>1 DEF Pair
  <2>2. <<0, 1>> = [i \in 1..2 |-> IF i = 1 THEN 0 ELSE 1]
    OBVIOUS
  <2>3. high = 0 /\ low = 1 => p = <<0, 1>>
    BY <2>1, <2>2
  <2>4. p = <<0, 1>> => p[1] = 0 /\ p[2] = 1
    OBVIOUS
  <2>5. QED
    BY <1>1, <2>3, <2>4
<1>4. QED
  BY <1>1, <1>2, <1>3 DEF u16

LEMMA StepMeans == MeantInv /\ [Next]_vars => MeantInv'
<1> SUFFICES ASSUME MeantInv, [Next]_vars PROVE MeantInv'
  OBVIOUS
<1>1. WalkInv /\ Along /\ LegalIsUnderstood
  BY DEF MeantInv
<1>2. WalkInv'
  BY <1>1, StepWalks
<1>3. CASE UNCHANGED vars
  <2>1. Along'
    BY <1>1, <1>3 DEF vars, Along
  <2>2. LegalIsUnderstood'
    BY <1>1, <1>3 DEF vars, LegalIsUnderstood, Served, is_version_query
  <2>3. QED
    BY <1>2, <2>1, <2>2 DEF MeantInv
<1>4. CASE query.meant = None /\ Next
  <2>1. query' = query
    BY <1>4 DEF Next, Opcode, Header, Label, NameEnds, Question, Done
  <2>2. Along' /\ LegalIsUnderstood'
    BY <1>4, <2>1 DEF Along, LegalIsUnderstood
  <2>3. QED
    BY <1>2, <2>2 DEF MeantInv
<1>5. ASSUME query.meant # None, Next PROVE Along' /\ LegalIsUnderstood'
  <2>1. query \in Query
    BY <1>1 DEF WalkInv, Reading
  <2>2. PICK parts \in Seq(Seq(Octet)) : parts = query.meant.labels /\ parts # <<>>
    BY <1>5, <2>1, MeaningIs
  <2>3. PICK i \in Nat, c \in Nat : i = Len(labels) /\ c = Len(parts)
    BY <1>1, LenIsNat DEF WalkInv, TypeOK
  <2>4. i <= c /\ labels = SubSeq(parts, 1, i)
    BY <1>1, <1>5, <2>2, <2>3 DEF Along
  <2>5. i = c => labels = parts
    BY <2>2, <2>3, <2>4, SubSeqFull
  <2>6. ~query.short /\ query.qdcount = 1
    BY <1>5, <2>1, MeaningIs
  <2>7. PICK label : label = parts[i + 1]
    OBVIOUS
  <2>8. /\ i = c => query.body[pos] = 0
        /\ i # c =>
             /\ Len(label) \in 1..63
             /\ query.body[pos] = Len(label)
             /\ pos + Len(label) <= Len(query.body)
             /\ SubSeq(query.body, pos + 1, pos + Len(label)) = label
             /\ ToSet(label) \cap NotText = {}
    <3>1. i # c => i + 1 <= c
      BY <2>4
    <3>2. i # c => LiesAt(query, pos, label)
      BY <1>1, <1>5, <2>2, <2>3, <2>7, <3>1, StandsThere
    <3>3. i = c => query.body[pos] = 0
      BY <1>1, <1>5, <2>2, <2>5, StandsThere
    <3>4. QED
      BY <3>2, <3>3 DEF LiesAt
  <2>9. CASE Opcode
    <3>1. /\ pc' = "done" /\ query.opcode # 0
          /\ UNCHANGED <<query, zone, pos, domain, labels>>
          /\ reply' = Echo(query, "NOTIMP")
      BY <2>6, <2>9 DEF Opcode, Done, error_response
    <3>2. Along'
      BY <1>1, <3>1 DEF Along
    <3>3. "NOTIMP" \in Rcode
      BY DEF Rcode
    <3>4. LegalIsUnderstood'
      BY <1>1, <1>5, <3>1, <3>3, AnswerUnderstood
    <3>5. QED
      BY <3>2, <3>4
  <2>10. CASE Header
    <3>1. /\ pc' = "labels" /\ UNCHANGED <<query, labels>>
      BY <2>6, <2>10 DEF Header
    <3>2. QED
      BY <1>1, <3>1 DEF Along, LegalIsUnderstood
  <2>11. CASE Label
    <3>1. i # c
      BY <2>8, <2>11 DEF Label, AtLabel, body
    <3>2. /\ SubSeq(query.body, pos + 1, pos + query.body[pos]) = label
          /\ ~(pos + query.body[pos] > Len(query.body))
      <4>1. PICK k \in 1..63, l \in Nat, p \in Nat :
              k = Len(label) /\ l = Len(query.body) /\ p = pos
        BY <1>1, <1>5, <2>1, <2>8, <3>1, WireAssumption, LenIsNat, StandsThere
      <4>2. p + k <= l /\ query.body[pos] = k
        BY <2>8, <3>1, <4>1
      <4>3. QED
        BY <2>8, <3>1, <4>1, <4>2
    <3>3. /\ labels' = Append(labels, label) /\ pc' = "labels" /\ query' = query
      BY <2>8, <2>11, <3>1, <3>2 DEF Label, body
    <3>4. i + 1 <= c
      BY <2>4, <3>1
    <3>5. labels' = SubSeq(parts, 1, i + 1)
      BY <2>2, <2>3, <2>4, <2>7, <3>3, <3>4, PrefixGrows
    <3>6. Len(labels') = i + 1
      <4>1. labels \in Seq(Seq(Octet)) /\ label \in Seq(Octet)
        BY <1>1, <2>3, <2>7, <3>4, PrefixGrows DEF WalkInv, TypeOK
      <4>2. Len(Append(labels, label)) = Len(labels) + 1
        BY <4>1, AppendProperties
      <4>3. QED
        BY <2>3, <3>3, <4>2
    <3>7. Along'
      BY <2>2, <2>3, <3>3, <3>4, <3>5, <3>6 DEF Along
    <3>8. LegalIsUnderstood'
      BY <3>3 DEF LegalIsUnderstood
    <3>9. QED
      BY <3>7, <3>8
  <2>12. CASE NameEnds
    <3>1. i = c
      <4>1. SUFFICES ASSUME i # c PROVE FALSE
        OBVIOUS
      <4>2. PICK k \in 1..63, l \in Nat, p \in Nat :
              k = Len(label) /\ l = Len(query.body) /\ p = pos
        BY <1>1, <1>5, <2>1, <2>8, <4>1, WireAssumption, LenIsNat, StandsThere
      <4>3. p + k <= l /\ query.body[pos] = k
        BY <2>8, <4>1, <4>2
      <4>4. p <= l /\ k # 0
        <5>1. p + k <= l
          BY <4>3
        <5>2. QED
          BY <5>1
      <4>5. QED
        BY <2>12, <4>2, <4>3, <4>4 DEF NameEnds, AtLabel, body
    <3>2. labels = parts /\ domain # <<>>
      BY <1>1, <2>2, <2>5, <3>1 DEF WalkInv, Reading
    <3>3. pc' = "question" /\ UNCHANGED <<query, labels>>
      BY <2>12, <3>2 DEF NameEnds
    <3>4. QED
      BY <1>1, <2>2, <3>2, <3>3 DEF Along, LegalIsUnderstood
  <2>13. CASE Question
    <3>1. /\ pc = "question" /\ pc' = "done"
          /\ UNCHANGED <<query, zone, pos, domain, labels>>
      BY <2>13 DEF Question, Done
    <3>2. Along'
      BY <1>1, <3>1 DEF Along
    <3>3. labels = query.meant.labels /\ query.opcode = 0
      BY <1>1, <1>5, <3>1 DEF Along, WalkInv, Reading
    <3>4. PICK n \in Nat : n = Len(Wired(parts))
      <4>1. <<>> \in Seq(Octet)
        OBVIOUS
      <4>2. Wired(parts) \in Seq(Octet)
        BY <4>1, WiredAppend
      <4>3. QED
        BY <4>2, LenIsNat
    <3>5. PICK end \in Nat : end = n + 5
      OBVIOUS
    <3>6. /\ question_section_end(body) = end /\ end # None
          /\ qtype(body, end) = u16(query.meant.qtype[1], query.meant.qtype[2])
          /\ qclass(body, end) = u16(query.meant.qclass[1], query.meant.qclass[2])
      BY <1>5, <2>1, <2>2, <3>4, <3>5, QueryLies, WireAssumption DEF body
    <3>7. qclass(body, end) = 1 <=> query.meant.qclass = <<0, 1>>
      BY <1>5, <2>1, <3>6, MeaningIs, ClassIn
    <3>8. "NOERROR" \in Rcode /\ "REFUSED" \in Rcode
      BY DEF Rcode
    <3>9. CASE qclass(body, end) # 1 \/ ~Served(qtype(body, end))
      <4>1. reply' = Echo(query, "REFUSED")
        BY <2>6, <2>13, <3>6, <3>9 DEF Question, Done, error_response
      <4>2. LegalIsUnderstood'
        BY <1>1, <1>5, <3>1, <3>3, <3>6, <3>7, <3>8, <3>9, <4>1, AnswerUnderstood
      <4>3. QED
        BY <3>2, <4>2
    <3>10. CASE ~(qclass(body, end) # 1 \/ ~Served(qtype(body, end)))
      <4>1. reply' = Echo(query, "NOERROR")
        BY <2>13, <3>6, <3>10 DEF Question, Done
      <4>2. LegalIsUnderstood'
        BY <1>1, <1>5, <3>1, <3>3, <3>6, <3>7, <3>8, <3>10, <4>1, AnswerUnderstood
      <4>3. QED
        BY <3>2, <4>2
    <3>11. QED
      BY <3>9, <3>10
  <2>14. QED
    BY <1>5, <2>9, <2>10, <2>11, <2>12, <2>13 DEF Next
<1>6. QED
  BY <1>2, <1>3, <1>4, <1>5 DEF MeantInv

(* A query put together the way resolvers do, of labels of any number and   *)
(* any octets that are text, gets the answer its meaning calls for.         *)
THEOREM MeaningIsUnderstood == Spec => []LegalIsUnderstood
<1>1. MeantInv => LegalIsUnderstood
  BY DEF MeantInv
<1>2. QED
  BY <1>1, InitMeans, StepMeans, PTL DEF Spec

-----------------------------------------------------------------------------
(* Split takes a text apart octet by octet. *)
SplitStep(parts, o) ==
  IF o = Dot THEN Append(parts, <<>>) ELSE Append(Front(parts), Append(Last(parts), o))

(* f is how FoldLeft splits the octets of text, from the first on. *)
TextStep(f, text, u) == IF u = {} THEN <<<<>>>> ELSE SplitStep(f[u \ {Max(u)}], text[Max(u)])

TextIs(f, text) == f = [u \in SUBSET DOMAIN text |-> TextStep(f, text, u)]

LEMMA SplitIsFold ==
  ASSUME NEW text
  PROVE  Split(text) = (CHOOSE f : TextIs(f, text))[DOMAIN text]
BY DEF Split, FoldLeft, MapThenFoldSet, TextIs, TextStep, SplitStep

LEMMA TextAt ==
  ASSUME NEW f, NEW text, TextIs(f, text), NEW u \in SUBSET DOMAIN text
  PROVE  f[u] = TextStep(f, text, u)
BY DEF TextIs

LEMMA TextExtends ==
  ASSUME NEW E, NEW s \in Seq(E), NEW x \in E, NEW f, TextIs(f, s)
  PROVE  \E g : TextIs(g, Append(s, x))
<1>1. PICK n \in Nat : n = Len(s)
  <2>1. Len(s) \in Nat
    OBVIOUS
  <2>2. QED
    BY <2>1
<1>2. PICK t \in Seq(E) : t = Append(s, x)
  BY Appended
<1>3. /\ DOMAIN s = 1..n /\ DOMAIN t = 1..n + 1
      /\ t[n + 1] = x
      /\ \A k \in 1..n : t[k] = s[k]
  BY <1>1, <1>2
<1>4. PICK g : g = [u \in SUBSET (1..n + 1) |->
                      IF n + 1 \in u THEN SplitStep(f[u \ {n + 1}], x) ELSE f[u]]
  OBVIOUS
<1>5. \A u \in SUBSET (1..n) : u \in SUBSET (1..n + 1) /\ g[u] = f[u]
  <2>1. SUFFICES ASSUME NEW u \in SUBSET (1..n)
                 PROVE  u \in SUBSET (1..n + 1) /\ g[u] = f[u]
    OBVIOUS
  <2>2. u \in SUBSET (1..n + 1) /\ n + 1 \notin u
    OBVIOUS
  <2>3. QED
    BY <1>4, <2>2
<1>6. ASSUME NEW u \in SUBSET (1..n + 1)
      PROVE  g[u] = TextStep(g, t, u)
  <2>1. CASE n + 1 \in u
    <3>1. Max(u) = n + 1 /\ u \ {n + 1} \in SUBSET (1..n) /\ u # {}
      BY <2>1, MaxOfFirst
    <3>2. g[u \ {n + 1}] = f[u \ {n + 1}]
      BY <1>5, <3>1
    <3>3. g[u] = SplitStep(f[u \ {n + 1}], x)
      BY <1>4, <2>1
    <3>4. TextStep(g, t, u) = SplitStep(g[u \ {n + 1}], t[n + 1])
      BY <3>1 DEF TextStep
    <3>5. QED
      BY <1>3, <3>2, <3>3, <3>4
  <2>2. CASE n + 1 \notin u
    <3>1. u \in SUBSET (1..n)
      BY <2>2
    <3>2. f[u] = TextStep(f, s, u)
      BY <1>3, <3>1, TextAt
    <3>3. CASE u = {}
      BY <1>5, <3>1, <3>2, <3>3 DEF TextStep
    <3>4. CASE u # {}
      <4>1. Max(u) \in u
        BY <3>1, <3>4, MaxIs
      <4>2. PICK m \in 1..n : m = Max(u)
        BY <3>1, <4>1
      <4>3. u \ {m} \in SUBSET (1..n)
        BY <3>1
      <4>4. g[u \ {m}] = f[u \ {m}] /\ t[m] = s[m]
        BY <1>3, <1>5, <4>3
      <4>5. TextStep(g, t, u) = TextStep(f, s, u)
        BY <4>2, <4>4 DEF TextStep
      <4>6. QED
        BY <1>5, <3>1, <3>2, <4>5
    <3>5. QED
      BY <3>3, <3>4
  <2>3. QED
    BY <2>1, <2>2
<1>7. TextIs(g, t)
  <2>1. g = [u \in SUBSET (1..n + 1) |-> g[u]]
    BY <1>4
  <2>2. g = [u \in SUBSET (1..n + 1) |-> TextStep(g, t, u)]
    BY <1>6, <2>1
  <2>3. QED
    BY <1>3, <2>2 DEF TextIs
<1>8. QED
  BY <1>2, <1>7

LEMMA TextExists ==
  ASSUME NEW E
  PROVE  \A s \in Seq(E) : \E f : TextIs(f, s)
<1> DEFINE T == {s \in Seq(E) : \E f : TextIs(f, s)}
<1>1. <<>> \in T
  <2>1. PICK f : f = [u \in {{}} |-> <<<<>>>>]
    OBVIOUS
  <2>2. SUBSET DOMAIN <<>> = {{}}
    OBVIOUS
  <2>3. \A u \in {{}} : TextStep(f, <<>>, u) = <<<<>>>>
    BY DEF TextStep
  <2>4. f = [u \in {{}} |-> TextStep(f, <<>>, u)]
    BY <2>1, <2>3
  <2>5. TextIs(f, <<>>)
    BY <2>2, <2>4 DEF TextIs
  <2>6. QED
    BY <2>5
<1>2. ASSUME NEW s \in T, NEW x \in E PROVE Append(s, x) \in T
  <2>1. s \in Seq(E) /\ Append(s, x) \in Seq(E)
    BY Appended
  <2>2. PICK f : TextIs(f, s)
    OBVIOUS
  <2>3. \E g : TextIs(g, Append(s, x))
    BY <2>1, <2>2, TextExtends
  <2>4. QED
    BY <2>1, <2>3
<1>3. T \in SUBSET Seq(E)
  OBVIOUS
<1> HIDE DEF T
<1>4. T = Seq(E)
  BY <1>1, <1>2, <1>3, SeqInduction
<1>5. QED
  BY <1>4 DEF T

LEMMA TextsAgree ==
  ASSUME NEW f, NEW g, NEW s, NEW t, NEW n \in Nat, TextIs(f, s), TextIs(g, t),
         1..n \subseteq DOMAIN s, 1..n \subseteq DOMAIN t, \A k \in 1..n : s[k] = t[k]
  PROVE  f[1..n] = g[1..n]
<1> DEFINE T == {m \in Nat : m <= n => f[1..m] = g[1..m]}
<1>1. 0 \in T
  <2>1. 1..0 = {} /\ {} \in SUBSET DOMAIN s /\ {} \in SUBSET DOMAIN t
    OBVIOUS
  <2>2. f[{}] = <<<<>>>> /\ g[{}] = <<<<>>>>
    BY <2>1, TextAt DEF TextStep
  <2>3. QED
    BY <2>1, <2>2
<1>2. ASSUME NEW m \in T PROVE m + 1 \in T
  <2>1. SUFFICES ASSUME m + 1 <= n PROVE f[1..m + 1] = g[1..m + 1]
    OBVIOUS
  <2>2. m \in Nat /\ f[1..m] = g[1..m]
    BY <2>1
  <2>3. PICK u : u = 1..m + 1
    OBVIOUS
  <2>4. /\ u \in SUBSET DOMAIN s /\ u \in SUBSET DOMAIN t
        /\ u \in SUBSET (1..m + 1) /\ m + 1 \in u /\ u # {}
        /\ u \ {m + 1} = 1..m
    BY <2>1, <2>2, <2>3
  <2>5. Max(u) = m + 1
    BY <2>2, <2>4, MaxOfFirst
  <2>6. f[u] = TextStep(f, s, u) /\ g[u] = TextStep(g, t, u)
    BY <2>4, TextAt
  <2>7. s[m + 1] = t[m + 1]
    BY <2>1, <2>2
  <2>8. TextStep(f, s, u) = TextStep(g, t, u)
    BY <2>2, <2>4, <2>5, <2>7 DEF TextStep
  <2>9. QED
    BY <2>3, <2>6, <2>8
<1>3. T \in SUBSET Nat
  OBVIOUS
<1> HIDE DEF T
<1>4. T = Nat
  BY <1>1, <1>2, <1>3, SetInduction
<1>5. QED
  BY <1>4 DEF T

LEMMA SplitEmpty == Split(<<>>) = <<<<>>>>
<1>1. <<>> \in Seq({})
  OBVIOUS
<1>2. PICK f : TextIs(f, <<>>) /\ Split(<<>>) = f[DOMAIN <<>>]
  BY <1>1, TextExists, SplitIsFold
<1>3. DOMAIN <<>> = {} /\ {} \in SUBSET DOMAIN <<>>
  OBVIOUS
<1>4. QED
  BY <1>2, <1>3, TextAt DEF TextStep

LEMMA SplitAppend ==
  ASSUME NEW E, NEW s \in Seq(E), NEW x \in E
  PROVE  Split(Append(s, x)) = SplitStep(Split(s), x)
<1>1. PICK n \in Nat : n = Len(s)
  <2>1. Len(s) \in Nat
    OBVIOUS
  <2>2. QED
    BY <2>1
<1>2. PICK t \in Seq(E) : t = Append(s, x)
  BY Appended
<1>3. /\ DOMAIN s = 1..n /\ DOMAIN t = 1..n + 1
      /\ t[n + 1] = x
      /\ \A k \in 1..n : t[k] = s[k]
  BY <1>1, <1>2
<1>4. PICK f : TextIs(f, s) /\ Split(s) = f[DOMAIN s]
  BY TextExists, SplitIsFold
<1>5. PICK g : TextIs(g, t) /\ Split(t) = g[DOMAIN t]
  BY TextExists, SplitIsFold
<1>6. f[1..n] = g[1..n]
  <2>1. 1..n \subseteq DOMAIN s /\ 1..n \subseteq DOMAIN t
    BY <1>3
  <2>2. \A k \in 1..n : s[k] = t[k]
    BY <1>3
  <2>3. QED
    BY <1>4, <1>5, <2>1, <2>2, TextsAgree
<1>7. PICK u : u = 1..n + 1
  OBVIOUS
<1>8. /\ u \in SUBSET DOMAIN t /\ u \in SUBSET (1..n + 1)
      /\ n + 1 \in u /\ u # {} /\ u \ {n + 1} = 1..n
  <2>1. u \in SUBSET DOMAIN t /\ u \in SUBSET (1..n + 1)
    BY <1>3, <1>7
  <2>2. n + 1 \in u /\ u # {}
    <3>1. n + 1 \in 1..n + 1
      OBVIOUS
    <3>2. QED
      BY <1>7, <3>1
  <2>3. u \ {n + 1} = 1..n
    BY <1>7
  <2>4. QED
    BY <2>1, <2>2, <2>3
<1>9. Max(u) = n + 1
  BY <1>8, MaxOfFirst
<1>10. g[u] = TextStep(g, t, u)
  BY <1>5, <1>8, TextAt
<1>11. g[u] = SplitStep(g[1..n], x)
  BY <1>3, <1>8, <1>9, <1>10 DEF TextStep
<1>12. QED
  BY <1>2, <1>3, <1>4, <1>5, <1>6, <1>7, <1>11

Text == Seq(Octet)

LEMMA OneOf ==
  ASSUME NEW E, NEW x \in E
  PROVE  <<x>> \in Seq(E) /\ \E one \in Seq(E) : one = <<x>>
<1>1. <<x>> \in Seq(E)
  OBVIOUS
<1>2. QED
  BY <1>1

LEMMA FrontOfAppend ==
  ASSUME NEW E, NEW s \in Seq(E), NEW x \in E
  PROVE  Front(Append(s, x)) = s /\ Last(Append(s, x)) = x
<1>1. PICK t \in Seq(E) : t = Append(s, x) /\ t # <<>>
  BY AppendProperties
<1>2. Front(t) \in Seq(E) /\ Last(t) \in E /\ Append(Front(t), Last(t)) = t
  BY <1>1, FrontLast
<1>3. PICK f \in Seq(E), l \in E : f = Front(t) /\ l = Last(t)
  BY <1>2
<1>4. Append(s, x) = Append(f, l)
  BY <1>1, <1>2, <1>3, Zenon
<1>5. s = f /\ x = l
  BY <1>4, AppendInjective
<1>6. QED
  BY <1>1, <1>3, <1>5

LEMMA ConcatAppend ==
  ASSUME NEW E, NEW s \in Seq(E), NEW t \in Seq(E), NEW x \in E
  PROVE  s \o Append(t, x) = Append(s \o t, x)
<1>1. PICK one \in Seq(E) : one = <<x>>
  BY OneOf
<1>2. Append(t, x) = t \o one
  BY <1>1, AppendIsConcat
<1>3. PICK u \in Seq(E) : u = s \o t
  BY ConcatProperties
<1>4. Append(u, x) = u \o one
  BY <1>1, AppendIsConcat
<1>5. (s \o t) \o one = s \o (t \o one)
  BY ConcatAssociative
<1>6. QED
  BY <1>2, <1>3, <1>4, <1>5

LEMMA EmptyText == <<>> \in Text /\ <<>> \in Seq(Text)
BY DEF Text

LEMMA StepKeeps ==
  ASSUME NEW parts \in Seq(Text), parts # <<>>, NEW o \in Octet
  PROVE  SplitStep(parts, o) \in Seq(Text) /\ SplitStep(parts, o) # <<>>
<1>1. CASE o = Dot
  <2>1. Append(parts, <<>>) \in Seq(Text) /\ Append(parts, <<>>) # <<>>
    BY EmptyText, AppendProperties
  <2>2. QED
    BY <1>1, <2>1 DEF SplitStep
<1>2. CASE o # Dot
  <2>1. PICK f \in Seq(Text), l \in Text : f = Front(parts) /\ l = Last(parts)
    BY FrontLast
  <2>2. Append(l, o) \in Text
    BY <2>1, AppendProperties DEF Text
  <2>3. Append(f, Append(l, o)) \in Seq(Text) /\ Append(f, Append(l, o)) # <<>>
    BY <2>1, <2>2, AppendProperties
  <2>4. QED
    BY <1>2, <2>1, <2>3 DEF SplitStep
<1>3. QED
  BY <1>1, <1>2

LEMMA StepBehind ==
  ASSUME NEW parts \in Seq(Text), NEW more \in Seq(Text), more # <<>>, NEW o \in Octet
  PROVE  SplitStep(parts \o more, o) = parts \o SplitStep(more, o)
<1>1. PICK all \in Seq(Text) : all = parts \o more
  BY ConcatProperties
<1>2. CASE o = Dot
  <2>1. parts \o Append(more, <<>>) = Append(all, <<>>)
    BY <1>1, EmptyText, ConcatAppend
  <2>2. QED
    BY <1>1, <1>2, <2>1 DEF SplitStep
<1>3. CASE o # Dot
  <2>1. PICK f \in Seq(Text), l \in Text :
          f = Front(more) /\ l = Last(more) /\ more = Append(f, l)
    BY FrontLast
  <2>2. PICK g \in Seq(Text) : g = parts \o f
    BY ConcatProperties
  <2>3. all = Append(g, l)
    BY <1>1, <2>1, <2>2, ConcatAppend
  <2>4. Front(all) = g /\ Last(all) = l
    BY <2>2, <2>3, FrontOfAppend
  <2>5. PICK m \in Text : m = Append(l, o)
    BY AppendProperties DEF Text
  <2>6. parts \o Append(f, m) = Append(g, m)
    BY <2>2, <2>5, ConcatAppend
  <2>7. SplitStep(all, o) = Append(g, m)
    BY <1>3, <2>4, <2>5 DEF SplitStep
  <2>8. SplitStep(more, o) = Append(f, m)
    BY <1>3, <2>1, <2>5 DEF SplitStep
  <2>9. QED
    BY <1>1, <2>6, <2>7, <2>8
<1>4. QED
  BY <1>2, <1>3

LEMMA SplitIsText == \A text \in Text : Split(text) \in Seq(Text) /\ Split(text) # <<>>
<1> DEFINE T == {text \in Text : Split(text) \in Seq(Text) /\ Split(text) # <<>>}
<1>1. <<>> \in T
  <2>1. <<<<>>>> \in Seq(Text) /\ <<<<>>>> # <<>>
    BY EmptyText
  <2>2. QED
    BY <2>1, EmptyText, SplitEmpty
<1>2. ASSUME NEW text \in T, NEW o \in Octet PROVE Append(text, o) \in T
  <2>1. text \in Text /\ Append(text, o) \in Text
    BY AppendProperties DEF Text
  <2>2. Split(Append(text, o)) = SplitStep(Split(text), o)
    BY <2>1, SplitAppend DEF Text
  <2>3. PICK parts \in Seq(Text) : parts = Split(text) /\ parts # <<>>
    OBVIOUS
  <2>4. SplitStep(parts, o) \in Seq(Text) /\ SplitStep(parts, o) # <<>>
    BY <2>3, StepKeeps
  <2>5. QED
    BY <2>1, <2>2, <2>3, <2>4
<1>3. T \in SUBSET Seq(Octet)
  BY DEF Text
<1> HIDE DEF T
<1>4. T = Seq(Octet)
  BY <1>1, <1>2, <1>3, SeqInduction
<1>5. QED
  BY <1>4 DEF T, Text

(* text, a dot, and more. *)
Beside(text, more) == text \o (<<Dot>> \o more)

LEMMA BesideIs ==
  ASSUME NEW text \in Text, NEW more \in Text
  PROVE  Beside(text, more) \in Text /\ <<Dot>> \o more \in Text
<1>1. <<Dot>> \in Text
  BY WireAssumption DEF Text
<1>2. <<Dot>> \o more \in Text
  BY <1>1, ConcatProperties DEF Text
<1>3. QED
  BY <1>2, ConcatProperties DEF Text, Beside

LEMMA BesideEmpty ==
  ASSUME NEW text \in Text
  PROVE  Beside(text, <<>>) = Append(text, Dot)
<1>1. Dot \in Octet
  BY WireAssumption
<1>2. PICK dot \in Text : dot = <<Dot>>
  BY <1>1, OneOf DEF Text
<1>3. dot \o <<>> = dot
  BY ConcatEmptySeq DEF Text
<1>4. text \o dot = Append(text, Dot)
  BY <1>1, <1>2, AppendIsConcat DEF Text
<1>5. QED
  BY <1>2, <1>3, <1>4 DEF Beside

LEMMA BesideAppend ==
  ASSUME NEW text \in Text, NEW more \in Text, NEW o \in Octet
  PROVE  Beside(text, Append(more, o)) = Append(Beside(text, more), o)
<1>1. PICK dot \in Text : dot = <<Dot>>
  <2>1. Dot \in Octet
    BY WireAssumption
  <2>2. QED
    BY <2>1, OneOf DEF Text
<1>2. PICK tail \in Text : tail = dot \o more
  BY ConcatProperties DEF Text
<1>3. dot \o Append(more, o) = Append(tail, o)
  BY <1>2, ConcatAppend DEF Text
<1>4. text \o Append(tail, o) = Append(text \o tail, o)
  BY ConcatAppend DEF Text
<1>5. QED
  BY <1>1, <1>2, <1>3, <1>4 DEF Beside

(* The parts of two texts with a dot between them are those of both. *)
LEMMA SplitBeside ==
  ASSUME NEW text \in Text
  PROVE  \A more \in Text : Split(Beside(text, more)) = Split(text) \o Split(more)
<1> DEFINE T == {more \in Text : Split(Beside(text, more)) = Split(text) \o Split(more)}
<1>1. PICK parts \in Seq(Text) : parts = Split(text) /\ parts # <<>>
  BY SplitIsText
<1>2. <<>> \in T
  <2>1. Split(Append(text, Dot)) = SplitStep(parts, Dot)
    BY <1>1, SplitAppend, WireAssumption DEF Text
  <2>2. SplitStep(parts, Dot) = Append(parts, <<>>)
    BY DEF SplitStep
  <2>3. Append(parts, <<>>) = parts \o <<<<>>>>
    BY EmptyText, AppendIsConcat
  <2>4. Split(Beside(text, <<>>)) = Split(text) \o Split(<<>>)
    BY <1>1, <2>1, <2>2, <2>3, BesideEmpty, SplitEmpty
  <2>5. QED
    BY <2>4, EmptyText
<1>3. ASSUME NEW more \in T, NEW o \in Octet PROVE Append(more, o) \in T
  <2>1. more \in Text /\ Append(more, o) \in Text /\ Beside(text, more) \in Text
    BY AppendProperties, BesideIs DEF Text
  <2>2. PICK rest \in Seq(Text) : rest = Split(more) /\ rest # <<>>
    BY <2>1, SplitIsText
  <2>3. Split(Append(more, o)) = SplitStep(rest, o)
    BY <2>1, <2>2, SplitAppend DEF Text
  <2>4. Split(Append(Beside(text, more), o)) = SplitStep(parts \o rest, o)
    <3>1. Split(Append(Beside(text, more), o)) = SplitStep(Split(Beside(text, more)), o)
      BY <2>1, SplitAppend DEF Text
    <3>2. QED
      BY <1>1, <2>2, <3>1
  <2>5. SplitStep(parts \o rest, o) = parts \o SplitStep(rest, o)
    BY <1>1, <2>2, StepBehind
  <2>6. Split(Beside(text, Append(more, o))) = parts \o SplitStep(rest, o)
    BY <2>1, <2>4, <2>5, BesideAppend
  <2>7. QED
    BY <1>1, <2>1, <2>3, <2>6
<1>4. T \in SUBSET Seq(Octet)
  BY DEF Text
<1> HIDE DEF T
<1>5. T = Seq(Octet)
  BY <1>2, <1>3, <1>4, SeqInduction
<1>6. QED
  BY <1>5 DEF T, Text

(* Labels put together with dots between them, as the walk does. *)
Join(parts) == FlattenSeq(Dotted(parts))

LEMMA JoinEmpty == Join(<<>>) = <<>>
<1>1. Dotted(<<>>) = <<>>
  BY DEF Dotted
<1>2. QED
  BY <1>1, FlattenEmpty DEF Join

LEMMA JoinAppend ==
  ASSUME NEW parts \in Seq(Text), NEW label \in Text
  PROVE  /\ Join(parts) \in Text
         /\ Join(Append(parts, label)) = IF parts = <<>> THEN label ELSE Beside(Join(parts), label)
<1>1. /\ Join(parts) \in Text
      /\ Join(Append(parts, label))
           = Join(parts) \o (IF parts = <<>> THEN label ELSE <<Dot>> \o label)
  BY DottedAppend DEF Join, Text
<1>2. CASE parts = <<>>
  <2>1. <<>> \o label = label
    BY ConcatEmptySeq DEF Text
  <2>2. QED
    BY <1>1, <1>2, <2>1, JoinEmpty
<1>3. CASE parts # <<>>
  BY <1>1, <1>3 DEF Beside
<1>4. QED
  BY <1>1, <1>2, <1>3

LEMMA JoinStep ==
  ASSUME NEW parts \in Seq(Text), parts # <<>>, NEW o \in Octet
  PROVE  Join(SplitStep(parts, o)) = Append(Join(parts), o)
<1>1. PICK text \in Text : text = Join(parts)
  BY EmptyText, JoinAppend
<1>2. CASE o = Dot
  <2>1. Join(Append(parts, <<>>)) = Beside(text, <<>>)
    BY <1>1, EmptyText, JoinAppend
  <2>2. QED
    BY <1>1, <1>2, <2>1, BesideEmpty DEF SplitStep
<1>3. CASE o # Dot
  <2>1. PICK f \in Seq(Text), l \in Text :
          f = Front(parts) /\ l = Last(parts) /\ parts = Append(f, l)
    BY FrontLast
  <2>2. PICK m \in Text : m = Append(l, o)
    BY AppendProperties DEF Text
  <2>3. SplitStep(parts, o) = Append(f, m)
    BY <1>3, <2>1, <2>2 DEF SplitStep
  <2>4. /\ Join(Append(f, m)) = IF f = <<>> THEN m ELSE Beside(Join(f), m)
        /\ Join(Append(f, l)) = IF f = <<>> THEN l ELSE Beside(Join(f), l)
        /\ Join(f) \in Text
    BY JoinAppend
  <2>5. Beside(Join(f), m) = Append(Beside(Join(f), l), o)
    BY <2>2, <2>4, BesideAppend
  <2>6. QED
    BY <2>1, <2>2, <2>3, <2>4, <2>5
<1>4. QED
  BY <1>2, <1>3

(* Nothing is lost when a text is split. *)
LEMMA JoinSplit == \A text \in Text : Join(Split(text)) = text
<1> DEFINE T == {text \in Text : Join(Split(text)) = text}
<1>1. <<>> \in T
  <2>1. <<<<>>>> = Append(<<>>, <<>>)
    OBVIOUS
  <2>2. Join(Append(<<>>, <<>>)) = <<>>
    BY EmptyText, JoinAppend
  <2>3. QED
    BY <2>1, <2>2, EmptyText, SplitEmpty
<1>2. ASSUME NEW text \in T, NEW o \in Octet PROVE Append(text, o) \in T
  <2>1. text \in Text /\ Append(text, o) \in Text
    BY AppendProperties DEF Text
  <2>2. PICK parts \in Seq(Text) : parts = Split(text) /\ parts # <<>> /\ Join(parts) = text
    BY <2>1, SplitIsText
  <2>3. Split(Append(text, o)) = SplitStep(parts, o)
    BY <2>1, <2>2, SplitAppend DEF Text
  <2>4. QED
    BY <2>1, <2>2, <2>3, JoinStep
<1>3. T \in SUBSET Seq(Octet)
  BY DEF Text
<1> HIDE DEF T
<1>4. T = Seq(Octet)
  BY <1>1, <1>2, <1>3, SeqInduction
<1>5. QED
  BY <1>4 DEF T, Text

Dotless == {label \in Text : \A k \in 1..Len(label) : label[k] # Dot}

LEMMA ShorterDotless ==
  ASSUME NEW label \in Text, NEW o \in Octet, Append(label, o) \in Dotless
  PROVE  label \in Dotless /\ o # Dot
<1>1. PICK n \in Nat : n = Len(label)
  BY LenIsNat DEF Text
<1>2. PICK more \in Text : more = Append(label, o) /\ more \in Dotless
  BY DEF Dotless
<1>3. Len(more) = n + 1 /\ more[n + 1] = o /\ \A k \in 1..n : more[k] = label[k]
  BY <1>1, <1>2, AppendProperties DEF Text
<1>4. \A k \in 1..n + 1 : more[k] # Dot
  BY <1>2, <1>3 DEF Dotless
<1>5. n + 1 \in 1..n + 1 /\ \A k \in 1..n : k \in 1..n + 1
  BY <1>1
<1>6. o # Dot /\ \A k \in 1..n : label[k] # Dot
  BY <1>3, <1>4, <1>5
<1>7. QED
  BY <1>1, <1>6 DEF Dotless

LEMMA SplitLabel == \A label \in Dotless : Split(label) = <<label>>
<1> DEFINE T == {label \in Text : label \in Dotless => Split(label) = <<label>>}
<1>1. <<>> \in T
  BY EmptyText, SplitEmpty
<1>2. ASSUME NEW label \in T, NEW o \in Octet PROVE Append(label, o) \in T
  <2>1. label \in Text /\ Append(label, o) \in Text
    BY AppendProperties DEF Text
  <2>2. SUFFICES ASSUME Append(label, o) \in Dotless
                 PROVE  Split(Append(label, o)) = <<Append(label, o)>>
    BY <2>1
  <2>3. label \in Dotless /\ o # Dot
    BY <2>1, <2>2, ShorterDotless
  <2>4. Split(Append(label, o)) = SplitStep(<<label>>, o)
    BY <2>1, <2>3, SplitAppend DEF Text
  <2>5. <<label>> = Append(<<>>, label) /\ <<Append(label, o)>> = Append(<<>>, Append(label, o))
    OBVIOUS
  <2>6. Front(Append(<<>>, label)) = <<>> /\ Last(Append(<<>>, label)) = label
    BY <2>1, EmptyText, FrontOfAppend
  <2>7. QED
    BY <2>3, <2>4, <2>5, <2>6 DEF SplitStep
<1>3. T \in SUBSET Seq(Octet)
  BY DEF Text
<1> HIDE DEF T
<1>4. T = Seq(Octet)
  BY <1>1, <1>2, <1>3, SeqInduction
<1>5. \A label \in Dotless : label \in Seq(Octet)
  BY DEF Dotless, Text
<1>6. QED
  BY <1>4, <1>5 DEF T

LEMMA DotlessIsText ==
  ASSUME NEW parts \in Seq(Dotless)
  PROVE  parts \in Seq(Text)
<1>1. Dotless \subseteq Text
  BY DEF Dotless
<1>2. QED
  BY <1>1, SeqMonotonic

(* Labels without a dot are found again. *)
LEMMA SplitJoin == \A parts \in Seq(Dotless) : parts # <<>> => Split(Join(parts)) = parts
<1> DEFINE T == {parts \in Seq(Dotless) : parts # <<>> => Split(Join(parts)) = parts}
<1>1. <<>> \in T
  OBVIOUS
<1>2. ASSUME NEW parts \in T, NEW label \in Dotless PROVE Append(parts, label) \in T
  <2>1. parts \in Seq(Dotless) /\ Append(parts, label) \in Seq(Dotless)
    BY AppendProperties
  <2>2. parts \in Seq(Text) /\ label \in Text
    BY <2>1, DotlessIsText DEF Dotless
  <2>3. PICK text \in Text : text = Join(parts)
    BY <2>2, JoinAppend
  <2>4. Join(Append(parts, label)) = IF parts = <<>> THEN label ELSE Beside(text, label)
    BY <2>2, <2>3, JoinAppend
  <2>5. Split(label) = <<label>>
    BY SplitLabel
  <2>6. CASE parts = <<>>
    <3>1. Append(<<>>, label) = <<label>>
      OBVIOUS
    <3>2. QED
      BY <2>1, <2>4, <2>5, <2>6, <3>1
  <2>7. CASE parts # <<>>
    <3>1. Split(Beside(text, label)) = Split(text) \o <<label>>
      BY <2>2, <2>5, SplitBeside
    <3>2. Split(text) = parts
      BY <2>3, <2>7
    <3>3. parts \o <<label>> = Append(parts, label)
      BY <2>2, AppendIsConcat
    <3>4. QED
      BY <2>1, <2>4, <2>7, <3>1, <3>2, <3>3
  <2>8. QED
    BY <2>6, <2>7
<1>3. T \in SUBSET Seq(Dotless)
  OBVIOUS
<1> HIDE DEF T
<1>4. T = Seq(Dotless)
  BY <1>1, <1>2, <1>3, SeqInduction
<1>5. QED
  BY <1>4 DEF T

(* Small letters. *)
lowers(parts) == [k \in DOMAIN parts |-> lowercase(parts[k])]

LEMMA LowerIs ==
  ASSUME NEW text \in Text
  PROVE  /\ lowercase(text) \in Text
         /\ Len(lowercase(text)) = Len(text)
         /\ \A k \in 1..Len(text) : lowercase(text)[k] = Lower[text[k]]
<1>1. PICK n \in Nat : n = Len(text) /\ DOMAIN text = 1..n /\ \A k \in 1..n : text[k] \in Octet
  <2>1. Len(text) \in Nat /\ DOMAIN text = 1..Len(text) /\ \A k \in 1..Len(text) : text[k] \in Octet
    BY DEF Text
  <2>2. QED
    BY <2>1
<1>2. \A k \in 1..n : Lower[text[k]] \in Octet
  BY <1>1, WireAssumption
<1>3. PICK small : small = lowercase(text) /\ small = [k \in 1..n |-> Lower[text[k]]]
  BY <1>1 DEF lowercase
<1>4. small \in Seq(Octet)
  BY <1>2, <1>3
<1>5. Len(small) = n /\ \A k \in 1..n : small[k] = Lower[text[k]]
  BY <1>3
<1>6. QED
  BY <1>1, <1>3, <1>4, <1>5 DEF Text

LEMMA LowerEmpty == lowercase(<<>>) = <<>>
BY DEF lowercase

LEMMA LowerDot == Dot \in Octet /\ Lower[Dot] = Dot
BY WireAssumption

LEMMA LowerAppend ==
  ASSUME NEW text \in Text, NEW o \in Octet
  PROVE  /\ lowercase(Append(text, o)) = Append(lowercase(text), Lower[o])
         /\ lowercase(text) \in Text /\ Lower[o] \in Octet
<1>1. PICK n \in Nat : n = Len(text)
  BY LenIsNat DEF Text
<1>2. PICK more \in Text : more = Append(text, o)
  BY AppendProperties DEF Text
<1>3. Len(more) = n + 1 /\ more[n + 1] = o /\ \A k \in 1..n : more[k] = text[k]
  BY <1>1, <1>2, AppendProperties DEF Text
<1>4. Lower[o] \in Octet
  BY WireAssumption
<1>5. PICK a \in Text : a = lowercase(more)
  BY LowerIs
<1>6. PICK b \in Text : b = lowercase(text)
  BY LowerIs
<1>7. PICK c \in Text : c = Append(b, Lower[o])
  BY <1>4, AppendProperties DEF Text
<1>8. Len(a) = n + 1 /\ \A k \in 1..n + 1 : a[k] = Lower[more[k]]
  BY <1>3, <1>5, LowerIs
<1>9. Len(b) = n /\ \A k \in 1..n : b[k] = Lower[text[k]]
  BY <1>1, <1>6, LowerIs
<1>10. Len(c) = n + 1 /\ c[n + 1] = Lower[o] /\ \A k \in 1..n : c[k] = b[k]
  BY <1>4, <1>7, <1>9, AppendProperties DEF Text
<1>11. ASSUME NEW k \in 1..n + 1 PROVE a[k] = c[k]
  <2>1. CASE k = n + 1
    BY <1>3, <1>8, <1>10, <2>1
  <2>2. CASE k \in 1..n
    BY <1>3, <1>8, <1>9, <1>10, <2>2
  <2>3. QED
    BY <2>1, <2>2
<1>12. Len(a) = Len(c) /\ \A k \in 1..Len(a) : a[k] = c[k]
  BY <1>8, <1>10, <1>11
<1>13. a = c
  BY <1>12, SeqEqual DEF Text
<1>14. QED
  BY <1>2, <1>4, <1>5, <1>6, <1>7, <1>13

LEMMA LowerConcat ==
  ASSUME NEW text \in Text
  PROVE  \A more \in Text : lowercase(text \o more) = lowercase(text) \o lowercase(more)
<1> DEFINE T == {more \in Text : lowercase(text \o more) = lowercase(text) \o lowercase(more)}
<1>1. <<>> \in T
  <2>1. text \o <<>> = text
    BY ConcatEmptySeq DEF Text
  <2>2. lowercase(text) \o <<>> = lowercase(text)
    BY LowerIs, ConcatEmptySeq DEF Text
  <2>3. QED
    BY <2>1, <2>2, EmptyText, LowerEmpty
<1>2. ASSUME NEW more \in T, NEW o \in Octet PROVE Append(more, o) \in T
  <2>1. more \in Text /\ Append(more, o) \in Text
    BY AppendProperties DEF Text
  <2>2. PICK all \in Text : all = text \o more
    BY <2>1, ConcatProperties DEF Text
  <2>3. text \o Append(more, o) = Append(all, o)
    BY <2>1, <2>2, ConcatAppend DEF Text
  <2>4. lowercase(Append(all, o)) = Append(lowercase(all), Lower[o])
    BY LowerAppend
  <2>5. PICK a \in Text, b \in Text : a = lowercase(text) /\ b = lowercase(more)
    BY <2>1, LowerIs
  <2>6. lowercase(all) = a \o b
    BY <2>2, <2>5
  <2>7. lowercase(Append(more, o)) = Append(b, Lower[o]) /\ Lower[o] \in Octet
    BY <2>1, <2>5, LowerAppend
  <2>8. a \o Append(b, Lower[o]) = Append(a \o b, Lower[o])
    BY <2>7, ConcatAppend DEF Text
  <2>9. QED
    BY <2>1, <2>3, <2>4, <2>5, <2>6, <2>7, <2>8
<1>3. T \in SUBSET Seq(Octet)
  BY DEF Text
<1> HIDE DEF T
<1>4. T = Seq(Octet)
  BY <1>1, <1>2, <1>3, SeqInduction
<1>5. QED
  BY <1>4 DEF T, Text

LEMMA LowerBeside ==
  ASSUME NEW text \in Text, NEW more \in Text
  PROVE  lowercase(Beside(text, more)) = Beside(lowercase(text), lowercase(more))
<1>1. PICK dot \in Text : dot = <<Dot>> /\ dot = Append(<<>>, Dot)
  BY LowerDot, OneOf DEF Text
<1>2. lowercase(dot) = dot
  <2>1. lowercase(Append(<<>>, Dot)) = Append(lowercase(<<>>), Lower[Dot])
    BY LowerDot, EmptyText, LowerAppend
  <2>2. QED
    BY <1>1, <2>1, LowerDot, LowerEmpty
<1>3. PICK tail \in Text : tail = dot \o more
  BY ConcatProperties DEF Text
<1>4. lowercase(tail) = dot \o lowercase(more)
  BY <1>2, <1>3, LowerConcat
<1>5. lowercase(text \o tail) = lowercase(text) \o lowercase(tail)
  BY LowerConcat
<1>6. QED
  BY <1>1, <1>3, <1>4, <1>5 DEF Beside

LEMMA LowerDotless ==
  ASSUME NEW label \in Dotless
  PROVE  lowercase(label) \in Dotless
<1>1. PICK n \in Nat : n = Len(label) /\ label \in Text
  BY LenIsNat DEF Text, Dotless
<1>2. ASSUME NEW k \in 1..n PROVE Lower[label[k]] # Dot
  <2>1. label[k] \in Octet /\ label[k] # Dot
    BY <1>1, ElementOfSeq DEF Text, Dotless
  <2>2. QED
    BY <2>1, WireAssumption
<1>3. /\ lowercase(label) \in Text /\ Len(lowercase(label)) = n
      /\ \A k \in 1..n : lowercase(label)[k] = Lower[label[k]]
  BY <1>1, LowerIs
<1>4. QED
  BY <1>2, <1>3 DEF Dotless

LEMMA LowersAppend ==
  ASSUME NEW E \in SUBSET Text, NEW F, \A label \in E : lowercase(label) \in F,
         NEW parts \in Seq(E), NEW label \in E
  PROVE  /\ lowers(parts) \in Seq(F) /\ lowercase(label) \in F
         /\ lowers(Append(parts, label)) = Append(lowers(parts), lowercase(label))
<1>1. PICK n \in Nat : n = Len(parts) /\ DOMAIN parts = 1..n /\ \A k \in 1..n : parts[k] \in E
  <2>1. Len(parts) \in Nat /\ DOMAIN parts = 1..Len(parts) /\ \A k \in 1..Len(parts) : parts[k] \in E
    OBVIOUS
  <2>2. QED
    BY <2>1
<1>2. PICK more \in Seq(E) : more = Append(parts, label)
  BY Appended
<1>3. /\ DOMAIN more = 1..n + 1 /\ more[n + 1] = label
      /\ \A k \in 1..n : more[k] = parts[k]
  BY <1>1, <1>2
<1>4. PICK small \in Seq(F) : small = lowers(parts) /\ small = [k \in 1..n |-> lowercase(parts[k])]
  <2>1. \A k \in 1..n : lowercase(parts[k]) \in F
    BY <1>1
  <2>2. [k \in 1..n |-> lowercase(parts[k])] \in Seq(F)
    BY <2>1
  <2>3. QED
    BY <1>1, <2>2 DEF lowers
<1>5. PICK l \in F : l = lowercase(label)
  OBVIOUS
<1>6. PICK a \in Seq(F) : a = Append(small, l)
  BY Appended
<1>7. /\ DOMAIN a = 1..n + 1 /\ a[n + 1] = l
      /\ \A k \in 1..n : a[k] = lowercase(parts[k])
  BY <1>4, <1>6
<1>8. lowers(more) = [k \in 1..n + 1 |-> lowercase(more[k])]
  BY <1>3 DEF lowers
<1>9. ASSUME NEW k \in 1..n + 1 PROVE a[k] = lowercase(more[k])
  <2>1. CASE k = n + 1
    BY <1>3, <1>5, <1>7, <2>1
  <2>2. CASE k \in 1..n
    BY <1>3, <1>7, <2>2
  <2>3. QED
    BY <2>1, <2>2
<1>10. a = [k \in 1..n + 1 |-> a[k]]
  <2>1. \A t \in Seq(F) : t = [k \in DOMAIN t |-> t[k]]
    OBVIOUS
  <2>2. a = [k \in DOMAIN a |-> a[k]]
    BY <2>1
  <2>3. QED
    BY <1>7, <2>2
<1>11. a = lowers(more)
  BY <1>8, <1>9, <1>10
<1>12. QED
  BY <1>2, <1>4, <1>5, <1>6, <1>11

LEMMA LowersEmpty == lowers(<<>>) = <<>>
BY DEF lowers

(* The small letters of a name are those of its labels. *)
LEMMA LowerJoin ==
  \A parts \in Seq(Text) : lowers(parts) \in Seq(Text) /\ lowercase(Join(parts)) = Join(lowers(parts))
<1> DEFINE T == {parts \in Seq(Text) :
                   lowers(parts) \in Seq(Text) /\ lowercase(Join(parts)) = Join(lowers(parts))}
<1>1. <<>> \in T
  BY EmptyText, JoinEmpty, LowerEmpty, LowersEmpty
<1>2. ASSUME NEW parts \in T, NEW label \in Text PROVE Append(parts, label) \in T
  <2>1. PICK small \in Seq(Text) : small = lowers(parts) /\ lowercase(Join(parts)) = Join(small)
    OBVIOUS
  <2>2. PICK l \in Text : l = lowercase(label)
    BY LowerIs
  <2>3. lowers(Append(parts, label)) = Append(small, l)
    <3>1. Text \in SUBSET Text /\ \A t \in Text : lowercase(t) \in Text
      BY LowerIs
    <3>2. QED
      BY <2>1, <2>2, <3>1, LowersAppend
  <2>4. PICK text \in Text : text = Join(parts)
    BY JoinAppend
  <2>5. Join(Append(parts, label)) = IF parts = <<>> THEN label ELSE Beside(text, label)
    BY <2>4, JoinAppend
  <2>6. Join(Append(small, l)) = IF small = <<>> THEN l ELSE Beside(Join(small), l)
    BY JoinAppend
  <2>7. parts = <<>> <=> small = <<>>
    <3>1. DOMAIN small = DOMAIN parts
      BY <2>1 DEF lowers
    <3>2. QED
      BY <2>1, <3>1
  <2>8. lowercase(Beside(text, label)) = Beside(Join(small), l)
    BY <2>1, <2>2, <2>4, LowerBeside
  <2>9. lowercase(Join(Append(parts, label))) = Join(Append(small, l))
    BY <2>2, <2>5, <2>6, <2>7, <2>8
  <2>10. Append(parts, label) \in Seq(Text) /\ Append(small, l) \in Seq(Text)
    BY AppendProperties
  <2>11. QED
    BY <2>3, <2>9, <2>10
<1>3. T \in SUBSET Seq(Text)
  OBVIOUS
<1> HIDE DEF T
<1>4. T = Seq(Text)
  BY <1>1, <1>2, <1>3, SeqInduction
<1>5. QED
  BY <1>4 DEF T

-----------------------------------------------------------------------------
(* Both tests of text, and what they say about labels. *)
EndsWith(all, end) ==
  /\ Len(end) <= Len(all)
  /\ \A i \in 1..Len(end) : end[i] = all[Len(all) - Len(end) + i]

LEMMA ReverseIs ==
  ASSUME NEW E, NEW s \in Seq(E)
  PROVE  /\ Reverse(s) \in Seq(E) /\ Len(Reverse(s)) = Len(s)
         /\ \A i \in 1..Len(s) : Reverse(s)[i] = s[Len(s) - i + 1]
<1>1. PICK n \in Nat : n = Len(s) /\ \A i \in 1..n : s[i] \in E
  <2>1. Len(s) \in Nat /\ \A i \in 1..Len(s) : s[i] \in E
    OBVIOUS
  <2>2. QED
    BY <2>1
<1>2. PICK r : r = Reverse(s) /\ r = [i \in 1..n |-> s[(n - i) + 1]]
  BY <1>1 DEF Reverse
<1>3. \A i \in 1..n : (n - i) + 1 \in 1..n
  OBVIOUS
<1>4. \A i \in 1..n : s[(n - i) + 1] \in E
  BY <1>1, <1>3
<1>5. r \in Seq(E) /\ Len(r) = n /\ \A i \in 1..n : r[i] = s[(n - i) + 1]
  BY <1>2, <1>4
<1>6. QED
  BY <1>1, <1>2, <1>5

LEMMA PrefixIs ==
  ASSUME NEW E, NEW s \in Seq(E), NEW t \in Seq(E)
  PROVE  IsPrefix(s, t) <=> Len(s) <= Len(t) /\ \A i \in 1..Len(s) : s[i] = t[i]
<1>1. PICK m \in Nat, n \in Nat : m = Len(s) /\ n = Len(t)
  BY LenIsNat
<1>2. SubSeq(s, 1, m) = s
  BY <1>1, SubSeqFull
<1>3. ASSUME m <= n
      PROVE  s = SubSeq(t, 1, m) <=> \A i \in 1..m : s[i] = t[i]
  <2>1. \A i \in 1..m : i \in 1..n
    BY <1>3
  <2>2. \A i \in 1..m : t[i] \in E
    BY <1>1, <2>1, ElementOfSeq
  <2>3. PICK u \in Seq(E) : u = SubSeq(t, 1, m) /\ Len(u) = m /\ \A i \in 1..m : u[i] = t[i]
    <3>1. 1 \in Int /\ m \in Int /\ m - 1 + 1 = m /\ (1 <= m \/ m = 0)
      OBVIOUS
    <3>2. /\ SubSeq(t, 1, m) \in Seq(E)
          /\ Len(SubSeq(t, 1, m)) = IF 1 <= m THEN m - 1 + 1 ELSE 0
          /\ \A i \in 1..m - 1 + 1 : SubSeq(t, 1, m)[i] = t[1 + i - 1]
      BY <2>2, <3>1, SubSeqProperties
    <3>3. PICK u \in Seq(E) : u = SubSeq(t, 1, m)
      BY <3>2
    <3>4. Len(u) = m
      BY <3>1, <3>2, <3>3
    <3>5. \A i \in 1..m : 1 + i - 1 = i
      OBVIOUS
    <3>6. \A i \in 1..m : u[i] = t[i]
      BY <3>1, <3>2, <3>3, <3>5
    <3>7. QED
      BY <3>3, <3>4, <3>6
  <2>4. (\A i \in 1..m : s[i] = u[i]) => s = u
    BY <1>1, <2>3, SeqEqual
  <2>5. QED
    BY <2>3, <2>4
<1>4. QED
  BY <1>1, <1>2, <1>3 DEF IsPrefix

LEMMA SuffixIs ==
  ASSUME NEW E, NEW all \in Seq(E), NEW end \in Seq(E)
  PROVE  IsSuffix(end, all) <=> EndsWith(all, end)
<1>1. PICK m \in Nat, n \in Nat : m = Len(end) /\ n = Len(all)
  BY LenIsNat
<1>2. PICK r \in Seq(E) : /\ r = Reverse(end) /\ Len(r) = m
                          /\ \A i \in 1..m : r[i] = end[m - i + 1]
  BY <1>1, ReverseIs
<1>3. PICK q \in Seq(E) : /\ q = Reverse(all) /\ Len(q) = n
                          /\ \A i \in 1..n : q[i] = all[n - i + 1]
  BY <1>1, ReverseIs
<1>4. IsSuffix(end, all) <=> m <= n /\ \A i \in 1..m : r[i] = q[i]
  <2>1. IsPrefix(r, q) <=> Len(r) <= Len(q) /\ \A i \in 1..Len(r) : r[i] = q[i]
    BY PrefixIs
  <2>2. IsSuffix(end, all) <=> IsPrefix(r, q)
    BY <1>2, <1>3 DEF IsSuffix
  <2>3. QED
    BY <1>2, <1>3, <2>1, <2>2
<1>5. ASSUME m <= n
      PROVE  (\A i \in 1..m : r[i] = q[i]) <=> \A i \in 1..m : end[i] = all[n - m + i]
  <2>1. ASSUME NEW i \in 1..m
        PROVE  /\ m - i + 1 \in 1..m /\ n - m + (m - i + 1) = n - i + 1
               /\ i \in 1..n /\ m - (m - i + 1) + 1 = i
               /\ n - (m - i + 1) + 1 = n - m + i
    BY <1>5
  <2>2. ASSUME \A i \in 1..m : r[i] = q[i], NEW i \in 1..m PROVE end[i] = all[n - m + i]
    <3>1. PICK j \in 1..m : j = m - i + 1
      BY <2>1
    <3>2. j \in 1..n /\ m - j + 1 = i /\ n - j + 1 = n - m + i
      BY <2>1, <3>1
    <3>3. r[j] = end[i] /\ q[j] = all[n - m + i]
      BY <1>2, <1>3, <3>2
    <3>4. QED
      BY <2>2, <3>3
  <2>3. ASSUME \A i \in 1..m : end[i] = all[n - m + i], NEW i \in 1..m PROVE r[i] = q[i]
    <3>1. PICK j \in 1..m : j = m - i + 1
      BY <2>1
    <3>2. i \in 1..n /\ n - m + j = n - i + 1
      BY <2>1, <3>1
    <3>3. r[i] = end[j] /\ q[i] = all[n - m + j]
      BY <1>2, <1>3, <3>1, <3>2
    <3>4. QED
      BY <2>3, <3>3
  <2>4. QED
    BY <2>2, <2>3
<1>6. QED
  BY <1>1, <1>4, <1>5 DEF EndsWith

LEMMA EndsWithIs ==
  ASSUME NEW E, NEW all \in Seq(E), NEW end \in Seq(E)
  PROVE  EndsWith(all, end) <=> \E front \in Seq(E) : all = front \o end
<1>1. PICK m \in Nat, n \in Nat : m = Len(end) /\ n = Len(all)
  BY LenIsNat
<1>2. ASSUME EndsWith(all, end) PROVE \E front \in Seq(E) : all = front \o end
  <2>1. PICK p \in Nat : p = n - m /\ n = p + m
    <3>1. n - m \in Nat /\ n = (n - m) + m
      BY <1>1, <1>2 DEF EndsWith
    <3>2. QED
      BY <3>1
  <2>2. \A i \in 1..m : end[i] = all[p + i]
    BY <1>1, <1>2, <2>1 DEF EndsWith
  <2>3. PICK front \in Seq(E) : Len(front) = p /\ \A i \in 1..p : front[i] = all[i]
    <3>1. \A i \in 1..p : i \in 1..n
      BY <2>1
    <3>2. \A i \in 1..p : all[i] \in E
      BY <1>1, <3>1, ElementOfSeq
    <3>3. PICK f : f = [i \in 1..p |-> all[i]]
      OBVIOUS
    <3>4. f \in Seq(E) /\ Len(f) = p /\ \A i \in 1..p : f[i] = all[i]
      BY <3>2, <3>3
    <3>5. QED
      BY <3>4
  <2>4. PICK both \in Seq(E) : both = front \o end
    BY ConcatProperties
  <2>5. Len(both) = p + m /\ \A i \in 1..p + m : both[i] = IF i <= p THEN front[i] ELSE end[i - p]
    BY <1>1, <2>3, <2>4, ConcatProperties
  <2>6. ASSUME NEW i \in 1..p + m PROVE both[i] = all[i]
    <3>1. CASE i <= p
      <4>1. both[i] = front[i]
        BY <2>5, <3>1
      <4>2. i \in 1..p
        BY <3>1
      <4>3. QED
        BY <2>3, <4>1, <4>2
    <3>2. CASE ~(i <= p)
      <4>1. PICK j \in 1..m : j = i - p /\ i = p + j
        <5>1. i - p \in 1..m /\ i = p + (i - p)
          BY <3>2
        <5>2. QED
          BY <5>1
      <4>2. both[i] = end[j]
        BY <2>5, <3>2, <4>1
      <4>3. QED
        BY <2>2, <4>1, <4>2
    <3>3. QED
      BY <3>1, <3>2
  <2>7. Len(both) = Len(all) /\ \A i \in 1..Len(both) : both[i] = all[i]
    BY <1>1, <2>1, <2>5, <2>6
  <2>8. both = all
    BY <2>7, SeqEqual
  <2>9. QED
    BY <2>4, <2>8
<1>3. ASSUME NEW front \in Seq(E), all = front \o end PROVE EndsWith(all, end)
  <2>1. PICK p \in Nat : p = Len(front)
    BY LenIsNat
  <2>2. n = p + m /\ \A i \in 1..p + m : all[i] = IF i <= p THEN front[i] ELSE end[i - p]
    BY <1>1, <1>3, <2>1, ConcatProperties
  <2>3. ASSUME NEW i \in 1..m PROVE end[i] = all[n - m + i]
    <3>1. n - m + i \in 1..p + m /\ ~(n - m + i <= p) /\ n - m + i - p = i
      BY <2>2
    <3>2. all[n - m + i] = end[n - m + i - p]
      BY <2>2, <3>1
    <3>3. QED
      BY <3>1, <3>2
  <2>4. m <= n
    BY <2>2
  <2>5. QED
    BY <1>1, <2>3, <2>4 DEF EndsWith
<1>4. QED
  BY <1>2, <1>3


LEMMA SuffixOf ==
  ASSUME NEW E, NEW all \in Seq(E), NEW end \in Seq(E)
  PROVE  IsSuffix(end, all) <=> \E front \in Seq(E) : all = front \o end
BY SuffixIs, EndsWithIs

(* Dots at the end of a text. *)
LEMMA TrimIs ==
  ASSUME NEW text \in Text
  PROVE  /\ trim_end(text) \in Text
         /\ \A n \in Nat : n = Len(text) /\ n # 0 /\ text[n] # Dot => trim_end(text) = text
<1>1. PICK n \in Nat : n = Len(text) /\ \A i \in 1..n : text[i] \in Octet
  <2>1. Len(text) \in Nat /\ \A i \in 1..Len(text) : text[i] \in Octet
    BY DEF Text
  <2>2. QED
    BY <2>1
<1> DEFINE I == {i \in 1..n : text[i] # Dot}
<1>2. PICK last : last = SelectLastInSeq(text, LAMBDA o : o # Dot)
  OBVIOUS
<1>3. last = IF I # {} THEN Max(I) ELSE 0
  BY <1>1, <1>2 DEF SelectLastInSeq
<1>4. I \in SUBSET (1..n)
  OBVIOUS
<1>5. I # {} => Max(I) \in I /\ \A k \in I : Max(I) >= k
  BY <1>4, MaxIs
<1>6. last \in 0..n
  BY <1>3, <1>5
<1>7. trim_end(text) = SubSeq(text, 1, last)
  BY <1>2 DEF trim_end
<1>8. SubSeq(text, 1, last) \in Text
  <2>1. \A i \in 1..last : text[i] \in Octet
    BY <1>1, <1>6
  <2>2. 1 \in Int /\ last \in Int
    BY <1>6
  <2>3. QED
    BY <2>1, <2>2, SubSeqProperties DEF Text
<1>9. ASSUME n # 0, text[n] # Dot PROVE SubSeq(text, 1, last) = text
  <2>1. n \in I
    BY <1>9
  <2>2. last >= n
    BY <1>3, <1>5, <2>1
  <2>3. last = n
    BY <1>6, <2>2
  <2>4. QED
    BY <1>1, <2>3, SubSeqFull DEF Text
<1>10. QED
  BY <1>1, <1>7, <1>8, <1>9

LEMMA LowerSub ==
  ASSUME NEW text \in Text, NEW i \in Nat \ {0}, NEW j \in Nat, j <= Len(text)
  PROVE  /\ SubSeq(text, i, j) \in Text
         /\ lowercase(SubSeq(text, i, j)) = SubSeq(lowercase(text), i, j)
<1>1. PICK n \in Nat : n = Len(text)
  BY LenIsNat DEF Text
<1>2. PICK small \in Text : /\ small = lowercase(text) /\ Len(small) = n
                           /\ \A k \in 1..n : small[k] = Lower[text[k]]
  BY <1>1, LowerIs
<1>3. PICK size \in Nat : /\ size = IF i <= j THEN j - i + 1 ELSE 0
                         /\ (\A k \in 1..j - i + 1 : k \in 1..size)
                         /\ (\A k \in 1..size : k \in 1..j - i + 1 /\ i + k - 1 \in 1..n)
  <2>1. (IF i <= j THEN j - i + 1 ELSE 0) \in Nat
    OBVIOUS
  <2>2. PICK size \in Nat : size = IF i <= j THEN j - i + 1 ELSE 0
    BY <2>1
  <2>3. \A k \in 1..size : k \in 1..j - i + 1 /\ i + k - 1 \in 1..n
    BY <1>1, <2>2
  <2>4. \A k \in 1..j - i + 1 : k \in 1..size
    BY <2>2
  <2>5. QED
    BY <2>2, <2>3, <2>4
<1>4. \A k \in i..j : k \in 1..n
  BY <1>1
<1>5. i \in Int /\ j \in Int
  OBVIOUS
<1>6. PICK a \in Text : /\ a = SubSeq(text, i, j) /\ Len(a) = size
                       /\ \A k \in 1..size : a[k] = text[i + k - 1]
  <2>1. \A k \in i..j : text[k] \in Octet
    BY <1>1, <1>4, ElementOfSeq DEF Text
  <2>2. /\ SubSeq(text, i, j) \in Text
        /\ Len(SubSeq(text, i, j)) = IF i <= j THEN j - i + 1 ELSE 0
        /\ \A k \in 1..j - i + 1 : SubSeq(text, i, j)[k] = text[i + k - 1]
    BY <1>5, <2>1, SubSeqProperties DEF Text
  <2>3. QED
    BY <1>3, <2>2
<1>7. PICK b \in Text : /\ b = SubSeq(small, i, j) /\ Len(b) = size
                       /\ \A k \in 1..size : b[k] = small[i + k - 1]
  <2>1. \A k \in i..j : small[k] \in Octet
    BY <1>2, <1>4, ElementOfSeq DEF Text
  <2>2. /\ SubSeq(small, i, j) \in Text
        /\ Len(SubSeq(small, i, j)) = IF i <= j THEN j - i + 1 ELSE 0
        /\ \A k \in 1..j - i + 1 : SubSeq(small, i, j)[k] = small[i + k - 1]
    BY <1>5, <2>1, SubSeqProperties DEF Text
  <2>3. QED
    BY <1>3, <2>2
<1>8. PICK c \in Text : /\ c = lowercase(a) /\ Len(c) = size
                       /\ \A k \in 1..size : c[k] = Lower[a[k]]
  BY <1>6, LowerIs
<1>9. ASSUME NEW k \in 1..size PROVE c[k] = b[k]
  <2>1. PICK p \in 1..n : p = i + k - 1
    BY <1>3
  <2>2. a[k] = text[p] /\ b[k] = small[p] /\ small[p] = Lower[text[p]]
    BY <1>2, <1>6, <1>7, <2>1
  <2>3. QED
    BY <1>8, <2>2
<1>10. c = b
  BY <1>7, <1>8, <1>9, SeqEqual DEF Text
<1>11. QED
  BY <1>2, <1>6, <1>7, <1>8, <1>10

Chain(a, b, c) == (a \o b) \o c = a \o (b \o c)

LEMMA Chained ==
  ASSUME NEW a \in Text, NEW b \in Text, NEW c \in Text
  PROVE  Chain(a, b, c)
<1>1. (a \o b) \o c = a \o (b \o c)
  <2>1. a \in Seq(Octet) /\ b \in Seq(Octet) /\ c \in Seq(Octet)
    BY DEF Text
  <2>2. QED
    BY <2>1, ConcatAssociative
<1>2. QED
  BY <1>1 DEF Chain

LEMMA SubIs ==
  ASSUME NEW E, NEW s \in Seq(E), NEW i \in Nat \ {0}, NEW j \in Nat, j <= Len(s), i <= j + 1
  PROVE  /\ SubSeq(s, i, j) \in Seq(E)
         /\ \E n \in Nat : /\ n = j - i + 1
                           /\ Len(SubSeq(s, i, j)) = n
                           /\ \A k \in 1..n : SubSeq(s, i, j)[k] = s[i + k - 1]
<1>1. PICK l \in Nat : l = Len(s)
  BY LenIsNat
<1>2. \A k \in i..j : k \in 1..l
  BY <1>1
<1>3. \A k \in i..j : s[k] \in E
  BY <1>1, <1>2, ElementOfSeq
<1>4. i \in Int /\ j \in Int
  OBVIOUS
<1>5. /\ SubSeq(s, i, j) \in Seq(E)
      /\ Len(SubSeq(s, i, j)) = IF i <= j THEN j - i + 1 ELSE 0
      /\ \A k \in 1..j - i + 1 : SubSeq(s, i, j)[k] = s[i + k - 1]
  BY <1>3, <1>4, SubSeqProperties
<1>6. PICK n \in Nat : n = j - i + 1 /\ n = IF i <= j THEN j - i + 1 ELSE 0
  <2>1. j - i + 1 \in Nat /\ j - i + 1 = IF i <= j THEN j - i + 1 ELSE 0
    OBVIOUS
  <2>2. QED
    BY <2>1
<1>7. Len(SubSeq(s, i, j)) = n
  BY <1>5, <1>6
<1>8. \A k \in 1..n : SubSeq(s, i, j)[k] = s[i + k - 1]
  BY <1>5, <1>6
<1>9. QED
  BY <1>5, <1>6, <1>7, <1>8

(* A zone with more labels in front of it, as a text. *)
Below(text, more) == \E x \in Text : x # <<>> /\ text = Beside(x, more)

LEMMA BesideEnds ==
  ASSUME NEW x \in Text, NEW more \in Text
  PROVE  x # <<>> <=> Len(Beside(x, more)) > Len(more) + 1
<1>1. PICK n \in Nat, m \in Nat : n = Len(x) /\ m = Len(more)
  BY LenIsNat DEF Text
<1>2. PICK dot \in Text : dot = <<Dot>> /\ Len(dot) = 1
  BY WireAssumption, OneOf DEF Text
<1>3. PICK end \in Text : end = dot \o more
  BY ConcatProperties DEF Text
<1>4. Len(end) = 1 + m
  BY <1>1, <1>2, <1>3, ConcatProperties DEF Text
<1>5. Len(x \o end) = n + (1 + m)
  <2>1. AreJoined(x \o end, x, end)
    BY <1>3, Joins DEF Text
  <2>2. QED
    BY <1>1, <1>4, <2>1 DEF AreJoined
<1>6. x # <<>> <=> n # 0
  BY <1>1, EmptySeq DEF Text
<1>7. n # 0 <=> n + (1 + m) > m + 1
  OBVIOUS
<1>8. QED
  BY <1>1, <1>2, <1>3, <1>5, <1>6, <1>7 DEF Beside

LEMMA EndsInIs ==
  ASSUME NEW d \in Text, NEW z \in Text
  PROVE  Len(d) > Len(z) + 1 /\ EndsIn(d, z) <=> Below(lowercase(d), lowercase(z))
<1>1. PICK n \in Nat, m \in Nat : n = Len(d) /\ m = Len(z)
  BY LenIsNat DEF Text
<1>2. PICK big \in Text : /\ big = lowercase(d) /\ Len(big) = n
                         /\ \A k \in 1..n : big[k] = Lower[d[k]]
  BY <1>1, LowerIs
<1>3. PICK small \in Text : small = lowercase(z) /\ Len(small) = m
  BY <1>1, LowerIs
<1>4. PICK end \in Text : /\ end = <<Dot>> \o small /\ Len(end) = m + 1 /\ end[1] = Dot
                         /\ \A k \in 1..m : end[k + 1] = small[k]
  <2>1. PICK dot \in Text : dot = <<Dot>> /\ Len(dot) = 1 /\ dot[1] = Dot
    BY WireAssumption, OneOf DEF Text
  <2>2. PICK end \in Text : end = dot \o small
    BY ConcatProperties DEF Text
  <2>3. /\ Len(end) = 1 + m
        /\ \A k \in 1..1 + m : end[k] = IF k <= 1 THEN dot[k] ELSE small[k - 1]
    BY <1>3, <2>1, <2>2, ConcatProperties DEF Text
  <2>4. 1 \in 1..1 + m /\ 1 <= 1 /\ 1 + m = m + 1
    OBVIOUS
  <2>5. end[1] = Dot
    BY <2>1, <2>3, <2>4
  <2>6. ASSUME NEW k \in 1..m PROVE end[k + 1] = small[k]
    <3>1. k + 1 \in 1..1 + m /\ ~(k + 1 <= 1) /\ (k + 1) - 1 = k
      OBVIOUS
    <3>2. QED
      BY <2>3, <3>1
  <2>7. QED
    BY <2>1, <2>2, <2>3, <2>4, <2>5, <2>6
<1>5. Below(big, small) => n > m + 1
  BY <1>2, <1>3, BesideEnds DEF Below
<1>6. ASSUME n > m + 1 PROVE EndsIn(d, z) <=> Below(big, small)
  <2>1. PICK p \in Nat \ {0} : p = n - m /\ n - (m + 1) = p - 1 /\ p \in 1..n /\ p > 1
    <3>1. /\ n - m \in Nat \ {0} /\ n - (m + 1) = n - m - 1
          /\ n - m \in 1..n /\ n - m > 1
      BY <1>6
    <3>2. QED
      BY <3>1
  <2>2. d[p] = Dot <=> big[p] = Dot
    <3>1. d[p] \in Octet
      BY <1>1, <2>1, ElementOfSeq DEF Text
    <3>2. QED
      BY <1>2, <2>1, <3>1, WireAssumption
  <2>3. p + 1 \in Nat \ {0} /\ p + 1 <= n + 1 /\ n <= n /\ n - (p + 1) + 1 = m
    BY <2>1
  <2>4. lowercase(SubSeq(d, p + 1, n)) = SubSeq(big, p + 1, n)
    BY <1>1, <1>2, <2>3, LowerSub
  <2>5. PICK b \in Text : /\ b = SubSeq(big, p + 1, n) /\ Len(b) = m
                         /\ \A k \in 1..m : b[k] = big[p + 1 + k - 1]
    <3>1. big \in Seq(Octet) /\ n <= Len(big)
      BY <1>2 DEF Text
    <3>2. PICK b : b = SubSeq(big, p + 1, n)
      OBVIOUS
    <3>3. PICK i \in Nat \ {0} : i = p + 1 /\ i <= n + 1 /\ n - i + 1 = m
      BY <2>3
    <3>4. b \in Seq(Octet) /\ Len(b) = m /\ \A k \in 1..m : b[k] = big[i + k - 1]
      BY <3>1, <3>2, <3>3, SubIs
    <3>5. QED
      BY <3>2, <3>3, <3>4 DEF Text
  <2>6. b = small <=> \A k \in 1..m : b[k] = small[k]
    BY <1>3, <2>5, SeqEqual DEF Text
  <2>7. EndsIn(d, z) <=> big[p] = Dot /\ b = small
    BY <1>1, <1>3, <2>1, <2>2, <2>4, <2>5 DEF EndsIn, Same
  <2>8. EndsWith(big, end) <=> \A k \in 1..m + 1 : end[k] = big[p - 1 + k]
    <3>1. m + 1 <= n
      BY <1>6
    <3>2. PICK e \in Nat : e = m + 1 /\ e <= n /\ n - e = p - 1
      BY <2>1, <3>1
    <3>3. Len(end) = e /\ Len(big) = n
      BY <1>2, <1>4, <3>2
    <3>4. EndsWith(big, end) <=> \A k \in 1..e : end[k] = big[n - e + k]
      BY <3>2, <3>3 DEF EndsWith
    <3>5. QED
      BY <3>2, <3>4
  <2>9. EndsWith(big, end) <=> \E x \in Text : big = x \o end
    BY EndsWithIs DEF Text
  <2>10. Below(big, small) <=> EndsWith(big, end)
    <3>1. ASSUME NEW x \in Text, big = x \o end PROVE x # <<>>
      <4>1. big = Beside(x, small)
        BY <1>4, <3>1 DEF Beside
      <4>2. Len(Beside(x, small)) > Len(small) + 1
        BY <1>2, <1>3, <1>6, <4>1
      <4>3. QED
        BY <4>2, BesideEnds
    <3>2. QED
      BY <1>4, <2>9, <3>1 DEF Below, Beside
  <2>11. ASSUME \A k \in 1..m + 1 : end[k] = big[p - 1 + k]
         PROVE  big[p] = Dot /\ \A k \in 1..m : b[k] = small[k]
    <3>1. 1 \in 1..m + 1 /\ p - 1 + 1 = p
      BY <2>1
    <3>2. big[p] = Dot
      BY <1>4, <2>11, <3>1
    <3>3. ASSUME NEW k \in 1..m PROVE b[k] = small[k]
      <4>1. k + 1 \in 1..m + 1 /\ p - 1 + (k + 1) = p + 1 + k - 1
        OBVIOUS
      <4>2. QED
        BY <1>4, <2>5, <2>11, <4>1
    <3>4. QED
      BY <3>2, <3>3
  <2>12. ASSUME big[p] = Dot, \A k \in 1..m : b[k] = small[k], NEW k \in 1..m + 1
         PROVE  end[k] = big[p - 1 + k]
    <3>1. CASE k = 1
      <4>1. p - 1 + k = p
        BY <3>1
      <4>2. QED
        BY <1>4, <2>12, <3>1, <4>1
    <3>2. CASE k # 1
      <4>1. PICK j \in 1..m : k = j + 1 /\ p - 1 + k = p + 1 + j - 1
        <5>1. k - 1 \in 1..m /\ k = (k - 1) + 1 /\ p - 1 + k = p + 1 + (k - 1) - 1
          BY <3>2
        <5>2. QED
          BY <5>1
      <4>2. QED
        BY <1>4, <2>5, <2>12, <4>1
    <3>3. QED
      BY <3>1, <3>2
  <2>13. QED
    BY <2>6, <2>7, <2>8, <2>10, <2>11, <2>12
<1>7. QED
  BY <1>1, <1>2, <1>3, <1>5, <1>6

-----------------------------------------------------------------------------
(* What the tests of text say about parts. *)
LEMMA BesideBeside ==
  ASSUME NEW a \in Text, NEW b \in Text, NEW c \in Text
  PROVE  Beside(Beside(a, b), c) = Beside(a, Beside(b, c))
<1>1. PICK dot \in Text : dot = <<Dot>>
  BY WireAssumption, OneOf DEF Text
<1>2. PICK x \in Text, y \in Text : x = dot \o b /\ y = dot \o c
  BY ConcatProperties DEF Text
<1>3. (a \o x) \o y = a \o (x \o y)
  <2>1. Chain(a, x, y)
    BY Chained
  <2>2. QED
    BY <2>1 DEF Chain
<1>4. x \o y = dot \o (b \o y)
  <2>1. Chain(dot, b, y)
    BY Chained
  <2>2. QED
    BY <1>2, <2>1 DEF Chain
<1>5. QED
  BY <1>1, <1>2, <1>3, <1>4 DEF Beside

LEMMA JoinConcat ==
  ASSUME NEW front \in Seq(Text), front # <<>>
  PROVE  \A more \in Seq(Text) :
           more # <<>> => Join(front \o more) = Beside(Join(front), Join(more))
<1> DEFINE T == {more \in Seq(Text) :
                   more # <<>> => Join(front \o more) = Beside(Join(front), Join(more))}
<1>1. <<>> \in T
  BY EmptyText
<1>2. ASSUME NEW more \in T, NEW label \in Text PROVE Append(more, label) \in T
  <2>1. more \in Seq(Text) /\ Append(more, label) \in Seq(Text)
    BY AppendProperties
  <2>2. PICK both \in Seq(Text) : both = front \o more
    BY <2>1, ConcatProperties
  <2>3. front \o Append(more, label) = Append(both, label)
    BY <2>1, <2>2, ConcatAppend
  <2>4. PICK f \in Text, m \in Text : f = Join(front) /\ m = Join(more)
    BY <2>1, JoinAppend
  <2>5. /\ Join(Append(both, label)) = IF both = <<>> THEN label ELSE Beside(Join(both), label)
        /\ Join(Append(more, label)) = IF more = <<>> THEN label ELSE Beside(m, label)
    BY <2>1, <2>4, JoinAppend
  <2>6. both # <<>>
    BY <2>1, <2>2, ConcatEmptySeq
  <2>7. CASE more = <<>>
    <3>1. both = front
      BY <2>2, <2>7, ConcatEmptySeq
    <3>2. QED
      BY <2>1, <2>3, <2>4, <2>5, <2>6, <2>7, <3>1
  <2>8. CASE more # <<>>
    <3>1. Join(both) = Beside(f, m)
      BY <2>2, <2>4, <2>8
    <3>2. Beside(Beside(f, m), label) = Beside(f, Beside(m, label))
      BY BesideBeside
    <3>3. QED
      BY <2>1, <2>3, <2>4, <2>5, <2>6, <2>8, <3>1, <3>2
  <2>9. QED
    BY <2>7, <2>8
<1>3. T \in SUBSET Seq(Text)
  OBVIOUS
<1> HIDE DEF T
<1>4. T = Seq(Text)
  BY <1>1, <1>2, <1>3, SeqInduction
<1>5. QED
  BY <1>4 DEF T

(* No part is empty. *)
Full(parts) == \A k \in 1..Len(parts) : parts[k] # <<>>

LEMMA JoinFull ==
  ASSUME NEW parts \in Seq(Text), parts # <<>>, NEW l \in Text, l = Last(parts), l # <<>>
  PROVE  /\ Join(parts) # <<>>
         /\ \E x \in Text : Join(parts) = x \o l
<1>1. PICK f \in Seq(Text) : parts = Append(f, l)
  BY FrontLast
<1>2. PICK t \in Text : t = Join(f)
  BY JoinAppend
<1>3. Join(parts) = IF f = <<>> THEN l ELSE Beside(t, l)
  BY <1>1, <1>2, JoinAppend
<1>4. PICK x \in Text : Join(parts) = x \o l
  <2>1. CASE f = <<>>
    BY <1>3, <2>1, EmptyText, ConcatEmptySeq DEF Text
  <2>2. CASE f # <<>>
    <3>1. PICK dot \in Text : dot = <<Dot>>
      BY WireAssumption, OneOf DEF Text
    <3>2. PICK x \in Text : x = t \o dot
      BY ConcatProperties DEF Text
    <3>3. t \o (dot \o l) = x \o l
      <4>1. Chain(t, dot, l)
        BY Chained
      <4>2. QED
        BY <3>2, <4>1 DEF Chain
    <3>4. QED
      BY <1>3, <2>2, <3>1, <3>3 DEF Beside
  <2>3. QED
    BY <2>1, <2>2
<1>5. x \o l # <<>>
  BY ConcatEmptySeq DEF Text
<1>6. QED
  BY <1>4, <1>5

LEMMA LastFull ==
  ASSUME NEW parts \in Seq(Text), parts # <<>>, Full(parts)
  PROVE  Last(parts) \in Text /\ Last(parts) # <<>>
<1>1. PICK n \in Nat \ {0} : n = Len(parts)
  BY EmptySeq
<1>2. Last(parts) = parts[n] /\ n \in 1..n
  BY <1>1 DEF Last
<1>3. QED
  BY <1>1, <1>2, ElementOfSeq DEF Full

(* The last parts of a text are those of a zone exactly when it is the zone *)
(* or has more in front of it.                                              *)
LEMMA SuffixAgrees ==
  ASSUME NEW d \in Text, NEW z \in Text, Full(Split(d))
  PROVE  IsSuffix(Split(z), Split(d)) <=> d = z \/ Below(d, z)
<1>1. PICK p \in Seq(Text) : p = Split(z) /\ p # <<>> /\ Join(p) = z
  BY SplitIsText, JoinSplit
<1>2. PICK q \in Seq(Text) : q = Split(d) /\ q # <<>> /\ Join(q) = d
  BY SplitIsText, JoinSplit
<1>3. IsSuffix(p, q) <=> \E front \in Seq(Text) : q = front \o p
  BY SuffixOf
<1>4. d = z => q = <<>> \o p
  BY <1>1, <1>2, ConcatEmptySeq
<1>5. ASSUME NEW x \in Text, d = Beside(x, z) PROVE \E front \in Seq(Text) : q = front \o p
  <2>1. PICK front \in Seq(Text) : front = Split(x)
    BY SplitIsText
  <2>2. q = front \o p
    BY <1>1, <1>2, <1>5, <2>1, SplitBeside
  <2>3. QED
    BY <2>2
<1>6. ASSUME NEW front \in Seq(Text), q = front \o p PROVE d = z \/ Below(d, z)
  <2>1. CASE front = <<>>
    <3>1. q = p
      BY <1>6, <2>1, ConcatEmptySeq
    <3>2. QED
      BY <1>1, <1>2, <3>1
  <2>2. CASE front # <<>>
    <3>1. d = Beside(Join(front), z)
      BY <1>1, <1>2, <1>6, <2>2, JoinConcat
    <3>2. Full(front)
      <4>1. PICK n \in Nat, m \in Nat : n = Len(front) /\ m = Len(p)
        BY LenIsNat
      <4>2. Len(q) = n + m /\ \A k \in 1..n + m : q[k] = IF k <= n THEN front[k] ELSE p[k - n]
        BY <1>6, <4>1, ConcatProperties
      <4>3. \A k \in 1..n : k \in 1..n + m /\ k <= n
        OBVIOUS
      <4>4. \A k \in 1..n : front[k] = q[k]
        BY <4>2, <4>3
      <4>5. \A k \in 1..n + m : q[k] # <<>>
        BY <1>2, <4>2 DEF Full
      <4>6. QED
        BY <4>1, <4>3, <4>4, <4>5 DEF Full
    <3>3. PICK l \in Text : l = Last(front) /\ l # <<>>
      BY <2>2, <3>2, LastFull
    <3>4. Join(front) # <<>>
      BY <2>2, <3>3, JoinFull
    <3>5. Join(front) \in Text
      BY JoinAppend
    <3>6. QED
      BY <3>1, <3>4, <3>5 DEF Below
  <2>3. QED
    BY <2>1, <2>2
<1>7. <<>> \in Seq(Text)
  BY EmptyText
<1>8. QED
  BY <1>1, <1>2, <1>3, <1>4, <1>5, <1>6, <1>7 DEF Below

(* Labels that are not empty and hold no dot. *)
Solid == {label \in Dotless : label # <<>>}

LEMMA SolidIs ==
  ASSUME NEW parts \in Seq(Solid), parts # <<>>
  PROVE  /\ parts \in Seq(Text) /\ parts \in Seq(Dotless)
         /\ lowers(parts) \in Seq(Dotless) /\ lowers(parts) # <<>> /\ Full(lowers(parts))
<1>1. PICK n \in Nat \ {0} : n = Len(parts) /\ DOMAIN parts = 1..n
  BY EmptySeq
<1>2. \A k \in 1..n : parts[k] \in Dotless /\ parts[k] # <<>>
  BY <1>1, ElementOfSeq DEF Solid
<1>3. parts \in Seq(Dotless)
  <2>1. Solid \subseteq Dotless
    BY DEF Solid
  <2>2. QED
    BY <2>1
<1>4. parts \in Seq(Text)
  BY <1>3, DotlessIsText
<1>5. \A k \in 1..n : lowercase(parts[k]) \in Dotless
  BY <1>2, LowerDotless
<1>6. PICK small : small = lowers(parts) /\ small = [k \in 1..n |-> lowercase(parts[k])]
  BY <1>1 DEF lowers
<1>7. small \in Seq(Dotless) /\ Len(small) = n
  BY <1>5, <1>6
<1>8. ASSUME NEW k \in 1..n PROVE small[k] # <<>>
  <2>1. PICK t \in Text : t = parts[k] /\ t # <<>>
    BY <1>2 DEF Dotless
  <2>2. Len(t) # 0 /\ Len(lowercase(t)) = Len(t)
    BY <2>1, EmptySeq, LowerIs DEF Text
  <2>3. lowercase(t) # <<>>
    BY <2>2
  <2>4. QED
    BY <1>6, <2>1, <2>3
<1>9. small # <<>>
  BY <1>1, <1>7
<1>10. QED
  BY <1>3, <1>4, <1>6, <1>7, <1>8, <1>9 DEF Full

(* A name made of such labels is what is left of it without dots at its end. *)
LEMMA NotTrimmed ==
  ASSUME NEW parts \in Seq(Solid), parts # <<>>
  PROVE  trim_end(Join(parts)) = Join(parts)
<1>1. parts \in Seq(Text)
  BY SolidIs
<1>2. PICK l \in Text : /\ l = Last(parts) /\ l # <<>>
                       /\ \A k \in 1..Len(l) : l[k] # Dot
  <2>1. Last(parts) \in Solid
    BY FrontLast
  <2>2. QED
    BY <2>1 DEF Solid, Dotless
<1>3. PICK x \in Text : Join(parts) = x \o l
  BY <1>1, <1>2, JoinFull
<1>4. PICK text \in Text : text = x \o l /\ AreJoined(text, x, l)
  BY Joins DEF Text, AreJoined
<1>5. PICK m \in Nat, n \in Nat : m = Len(x) /\ n = Len(l)
  BY LenIsNat DEF Text
<1>6. n \in 1..n /\ m + n \in Nat /\ m + n # 0
  <2>1. n # 0
    BY <1>2, <1>5, EmptySeq DEF Text
  <2>2. QED
    BY <2>1
<1>7. text[m + n] # Dot /\ m + n = Len(text)
  BY <1>2, <1>4, <1>5, <1>6 DEF AreJoined
<1>8. trim_end(text) = text
  BY <1>6, <1>7, TrimIs
<1>9. QED
  BY <1>3, <1>4, <1>8

LEMMA TestsFollow ==
  ASSUME NEW parts \in Seq(Solid), parts # <<>>, NEW apex \in Text, Parts(apex) # <<>>
  PROVE  /\ is_in_zone(Join(parts), apex) <=> IsSuffix(Parts(apex), lowers(parts))
         /\ name_in_bailiwick(Join(parts), apex) <=> IsSuffix(Parts(apex), lowers(parts))
<1>1. PICK d \in Text : d = Join(parts) /\ trim_end(d) = d
  BY SolidIs, JoinAppend, NotTrimmed
<1>2. PICK z \in Text : z = trim_end(apex)
  BY TrimIs
<1>3. z # <<>> /\ Parts(apex) = Split(lowercase(z))
  BY <1>2 DEF Parts
<1>4. PICK small \in Seq(Dotless) : small = lowers(parts) /\ small # <<>> /\ Full(small)
  BY SolidIs
<1>5. lowercase(d) = Join(small)
  BY <1>1, <1>4, SolidIs, LowerJoin
<1>6. Split(lowercase(d)) = small
  BY <1>4, <1>5, SplitJoin
<1>7. lowercase(d) \in Text /\ lowercase(z) \in Text
  BY LowerIs
<1>8. IsSuffix(Split(lowercase(z)), small) <=>
        lowercase(d) = lowercase(z) \/ Below(lowercase(d), lowercase(z))
  BY <1>4, <1>6, <1>7, SuffixAgrees
<1>9. Same(d, z) \/ (Len(d) > Len(z) + 1 /\ EndsIn(d, z)) <=>
        lowercase(d) = lowercase(z) \/ Below(lowercase(d), lowercase(z))
  BY EndsInIs DEF Same
<1>10. is_in_zone(d, apex) <=> Same(d, z) \/ (Len(d) > Len(z) + 1 /\ EndsIn(d, z))
  BY <1>1, <1>2, <1>3 DEF is_in_zone
<1>11. name_in_bailiwick(d, apex) <=> Same(d, z) \/ (Len(d) > Len(z) + 1 /\ EndsIn(d, z))
  BY <1>1, <1>2 DEF name_in_bailiwick
<1>12. QED
  BY <1>1, <1>3, <1>4, <1>8, <1>9, <1>10, <1>11

-----------------------------------------------------------------------------
(* The labels parse_query reads: never empty, never longer than a length    *)
(* octet can say.                                                           *)
Piece == {label \in Text : label # <<>> /\ Len(label) <= 255}

(* An answer to a standard query is to one whose name was read to its end.  *)
NameRead ==
  pc = "done" /\ reply # None /\ query.opcode = 0 =>
    /\ labels # <<>>
    /\ Without({0}) => ZeroAt(body, pos)

PieceInv ==
  /\ WalkInv
  /\ labels \in Seq(Piece)
  /\ pc = "question" => labels # <<>>
  /\ NameRead

LEMMA InitPieces == Init => PieceInv
<1> SUFFICES ASSUME Init PROVE PieceInv
  OBVIOUS
<1>1. labels \in Seq(Piece)
  BY DEF Init
<1>2. pc = "header"
  BY DEF Init
<1>3. QED
  BY <1>1, <1>2, InitWalks DEF PieceInv, NameRead

LEMMA ReadsPiece ==
  ASSUME WalkInv, labels \in Seq(Piece), Label
  PROVE  labels' \in Seq(Piece)
<1>1. PICK n, label : n = body[pos] /\ label = SubSeq(body, pos + 1, pos + n)
  OBVIOUS
<1>2. CASE pos + n > Len(body) \/ ToSet(label) \cap NotText # {}
  BY <1>1, <1>2 DEF Label, Done
<1>3. CASE ~(pos + n > Len(body) \/ ToSet(label) \cap NotText # {})
  <2>1. AtLabel /\ labels' = Append(labels, label)
    BY <1>1, <1>3 DEF Label
  <2>2. PICK l \in Nat : l = Len(body) /\ body \in Seq(Octet)
    BY WireAssumption, LenIsNat DEF WalkInv, Reading, body
  <2>3. PICK p \in 1..l : p = pos
    BY <2>1, <2>2 DEF WalkInv, TypeOK, AtLabel
  <2>4. n \in Octet /\ n # 0
    BY <1>1, <2>1, <2>2, <2>3, ElementOfSeq DEF AtLabel
  <2>5. n \in Nat \ {0} /\ n <= 255
    BY <2>4, OctetIsNat
  <2>6. p + n <= l
    BY <1>3, <2>2, <2>3, <2>5
  <2>7. p \in Nat \ {0}
    OBVIOUS
  <2>8. label \in Seq(Octet) /\ Len(label) = n
    BY <1>1, <2>2, <2>3, <2>5, <2>6, <2>7, OneLabel
  <2>9. label # <<>>
    BY <2>5, <2>8
  <2>10. label \in Piece
    BY <2>5, <2>8, <2>9 DEF Piece, Text
  <2>11. QED
    BY <2>1, <2>10, Appended
<1>4. QED
  BY <1>2, <1>3

LEMMA AnswersRead ==
  ASSUME PieceInv, Question
  PROVE  NameRead'
<1>1. PICK end : end = question_section_end(body)
  OBVIOUS
<1>2. /\ pc = "question" /\ labels # <<>> /\ UNCHANGED <<query, pos, labels>>
      /\ WalkInv
  BY DEF PieceInv, Question, Done
<1>3. reply' # None => end # None
  BY <1>1 DEF Question, Done
<1>4. PICK l \in Nat : l = Len(body) /\ body \in Seq(Octet)
  BY <1>2, WireAssumption, LenIsNat DEF WalkInv, Reading, body
<1>5. ASSUME Without({0}), end # None PROVE ZeroAt(body, pos)
  <2>1. end = pos + 4
    BY <1>1, <1>2, <1>5, WalkFoundTheEnd
  <2>2. ZeroAt(body, end - 4)
    BY <1>1, <1>4, <1>5, FirstZero
  <2>3. pos \in 1..l + 1
    BY <1>2, <1>4 DEF WalkInv, TypeOK
  <2>4. end - 4 = pos
    BY <2>1, <2>3
  <2>5. QED
    BY <2>2, <2>4
<1>6. body' = body /\ (Without({0})' <=> Without({0}))
  BY <1>2 DEF body, Without
<1>7. QED
  BY <1>2, <1>3, <1>5, <1>6 DEF NameRead

LEMMA StepPieces == PieceInv /\ [Next]_vars => PieceInv'
<1> SUFFICES ASSUME PieceInv, [Next]_vars PROVE PieceInv'
  OBVIOUS
<1>1. WalkInv /\ labels \in Seq(Piece) /\ (pc = "question" => labels # <<>>) /\ NameRead
  BY DEF PieceInv
<1>2. WalkInv'
  BY <1>1, StepWalks
<1>3. CASE Opcode
  <2>1. labels' = labels /\ query' = query /\ query.opcode # 0 /\ pc' = "done"
    BY <1>3 DEF Opcode, Done
  <2>2. NameRead'
    BY <2>1 DEF NameRead
  <2>3. QED
    BY <1>1, <1>2, <2>1, <2>2 DEF PieceInv
<1>4. CASE Header
  <2>1. labels' = labels /\ (pc' = "labels" \/ (pc' = "done" /\ reply' = None))
    BY <1>4 DEF Header, Done
  <2>2. NameRead' /\ pc' # "question"
    BY <2>1 DEF NameRead
  <2>3. QED
    BY <1>1, <1>2, <2>1, <2>2 DEF PieceInv
<1>5. CASE Label
  <2>1. pc' = "labels" \/ (pc' = "done" /\ reply' = None)
    BY <1>5 DEF Label, Done
  <2>2. NameRead' /\ pc' # "question"
    BY <2>1 DEF NameRead
  <2>3. QED
    BY <1>1, <1>2, <1>5, <2>2, ReadsPiece DEF PieceInv
<1>6. CASE NameEnds
  <2>1. /\ labels' = labels
        /\ (pc' = "question" /\ domain # <<>>) \/ (pc' = "done" /\ reply' = None)
    BY <1>6 DEF NameEnds, Done
  <2>2. NameRead'
    BY <2>1 DEF NameRead
  <2>3. domain # <<>> => labels # <<>>
    BY <1>1 DEF WalkInv, Reading
  <2>4. pc' = "question" => labels' # <<>>
    BY <2>1, <2>3
  <2>5. QED
    BY <1>1, <1>2, <2>1, <2>2, <2>4 DEF PieceInv
<1>7. CASE Question
  <2>1. labels' = labels /\ pc' = "done"
    BY <1>7 DEF Question, Done
  <2>2. QED
    BY <1>1, <1>2, <1>7, <2>1, AnswersRead DEF PieceInv
<1>8. CASE UNCHANGED vars
  BY <1>1, <1>2, <1>8 DEF PieceInv, vars, NameRead, Without, body
<1>9. QED
  BY <1>3, <1>4, <1>5, <1>6, <1>7, <1>8 DEF Next

LEMMA PiecesAreText ==
  ASSUME NEW parts \in Seq(Piece)
  PROVE  parts \in Seq(Text)
<1>1. Piece \subseteq Text
  BY DEF Piece
<1>2. QED
  BY <1>1

LEMMA PiecesAreSolid ==
  ASSUME PieceInv, Without({Dot})
  PROVE  labels \in Seq(Solid)
<1>1. PICK n \in Nat : n = Len(labels) /\ DOMAIN labels = 1..n /\ labels \in Seq(Piece)
  BY LenIsNat DEF PieceInv
<1>2. ASSUME NEW k \in 1..n PROVE labels[k] \in Solid
  <2>1. PICK label \in Piece : label = labels[k]
    BY <1>1, ElementOfSeq
  <2>2. label \in Text /\ label # <<>>
    BY DEF Piece
  <2>3. ToSet(label) \cap {Dot} = {}
    BY <1>1, <2>1 DEF Without
  <2>4. \A i \in 1..Len(label) : label[i] # Dot
    <3>1. \A i \in 1..Len(label) : label[i] \in ToSet(label)
      BY <2>2 DEF ToSet, Text
    <3>2. QED
      BY <2>3, <3>1
  <2>5. QED
    BY <2>1, <2>2, <2>4 DEF Solid, Dotless
<1>3. QED
  BY <1>1, <1>2

(* As long as no label holds a dot, whatever else it holds, is_in_zone and  *)
(* name_in_bailiwick say what "in the zone" means for labels: compared in   *)
(* small letters, those of the zone are the last of the name.               *)
THEOREM ZoneTestsHold == Spec => []ZoneTestsFollowLabels
<1>1. PieceInv => ZoneTestsFollowLabels
  <2>1. SUFFICES ASSUME PieceInv, labels # <<>>, Without({Dot}), Parts(zone) # <<>>
                 PROVE  /\ is_in_zone(domain, zone) <=> IsSuffix(Parts(zone), lowers(labels))
                        /\ name_in_bailiwick(domain, zone)
                             <=> IsSuffix(Parts(zone), lowers(labels))
    BY DEF ZoneTestsFollowLabels, lowers
  <2>2. labels \in Seq(Solid)
    BY <2>1, PiecesAreSolid
  <2>3. domain = Join(labels) /\ zone \in Text
    BY <2>1, WireAssumption DEF PieceInv, WalkInv, Walked, TypeOK, Join, Dotted, Text
  <2>4. QED
    BY <2>1, <2>2, <2>3, TestsFollow
<1>2. QED
  BY <1>1, InitPieces, StepPieces, PTL DEF Spec

-----------------------------------------------------------------------------
(* Functions that walk wire from label to label, as lowercase_wire_name and *)
(* label_count do, exist, and their values are what each step keeps.        *)
Ended(wire, i) == i > Len(wire) \/ wire[i] = 0

Goes(wire, base, step, f, i) ==
  IF Ended(wire, i) THEN base[i] ELSE step[i][f[i + 1 + wire[i]]]

LEMMA NextLabel ==
  ASSUME NEW wire \in Text, NEW i \in Nat \ {0}, ~Ended(wire, i)
  PROVE  \E n \in Nat \ {0} : n = i + 1 + wire[i] /\ n > i
<1>1. PICK l \in Nat : l = Len(wire)
  BY LenIsNat DEF Text
<1>2. i \in 1..l
  BY <1>1 DEF Ended
<1>3. wire[i] \in Octet
  BY <1>1, <1>2, ElementOfSeq DEF Text
<1>4. wire[i] \in Nat
  BY <1>3, OctetIsNat
<1>5. i + 1 + wire[i] \in Nat \ {0} /\ i + 1 + wire[i] > i
  BY <1>4
<1>6. QED
  BY <1>5

Solvable(wire, base, step, V) ==
  \E f \in [Nat \ {0} -> V] : \A i \in Nat \ {0} : f[i] = Goes(wire, base, step, f, i)

LEMMA RecursionExists ==
  ASSUME NEW wire \in Text, NEW V,
         NEW base \in [Nat \ {0} -> V], NEW step \in [Nat \ {0} -> [V -> V]]
  PROVE  Solvable(wire, base, step, V)
<1>1. PICK l \in Nat : l = Len(wire)
  BY LenIsNat DEF Text
<1> DEFINE Solves(f, k) == \A i \in Nat \ {0} : i + k > l => f[i] = Goes(wire, base, step, f, i)
           T == {k \in Nat : \E f \in [Nat \ {0} -> V] : Solves(f, k)}
<1>2. 0 \in T
  <2>1. ASSUME NEW i \in Nat \ {0}, i + 0 > l PROVE base[i] = Goes(wire, base, step, base, i)
    <3>1. Ended(wire, i)
      BY <1>1, <2>1 DEF Ended
    <3>2. QED
      BY <3>1 DEF Goes
  <2>2. Solves(base, 0)
    BY <2>1
  <2>3. QED
    BY <2>2
<1>3. ASSUME NEW k \in T PROVE k + 1 \in T
  <2>1. PICK f \in [Nat \ {0} -> V] : Solves(f, k)
    OBVIOUS
  <2>2. PICK g : g = [i \in Nat \ {0} |->
                        IF i + k > l THEN f[i] ELSE Goes(wire, base, step, f, i)]
    OBVIOUS
  <2>3. ASSUME NEW i \in Nat \ {0} PROVE Goes(wire, base, step, f, i) \in V
    <3>1. CASE Ended(wire, i)
      BY <3>1 DEF Goes
    <3>2. CASE ~Ended(wire, i)
      <4>1. PICK n \in Nat \ {0} : n = i + 1 + wire[i]
        BY <3>2, NextLabel
      <4>2. f[n] \in V /\ step[i][f[n]] \in V
        OBVIOUS
      <4>3. QED
        BY <3>2, <4>1, <4>2 DEF Goes
    <3>3. QED
      BY <3>1, <3>2
  <2>4. g \in [Nat \ {0} -> V]
    BY <2>2, <2>3
  <2>5. ASSUME NEW i \in Nat \ {0}, i + (k + 1) > l
        PROVE  Goes(wire, base, step, g, i) = Goes(wire, base, step, f, i)
    <3>1. CASE Ended(wire, i)
      BY <3>1 DEF Goes
    <3>2. CASE ~Ended(wire, i)
      <4>1. PICK n \in Nat \ {0} : n = i + 1 + wire[i] /\ n > i
        BY <3>2, NextLabel
      <4>2. n + k > l
        BY <2>5, <4>1
      <4>3. g[n] = f[n]
        BY <2>2, <4>2
      <4>4. QED
        BY <3>2, <4>1, <4>3 DEF Goes
    <3>3. QED
      BY <3>1, <3>2
  <2>6. ASSUME NEW i \in Nat \ {0}, i + (k + 1) > l PROVE g[i] = Goes(wire, base, step, g, i)
    <3>1. g[i] = Goes(wire, base, step, f, i)
      <4>1. CASE i + k > l
        BY <2>1, <2>2, <4>1
      <4>2. CASE ~(i + k > l)
        BY <2>2, <4>2
      <4>3. QED
        BY <4>1, <4>2
    <3>2. QED
      BY <2>5, <2>6, <3>1
  <2>7. Solves(g, k + 1)
    BY <2>6
  <2>8. k + 1 \in Nat
    OBVIOUS
  <2>9. QED
    BY <2>4, <2>7, <2>8
<1>4. T \in SUBSET Nat
  OBVIOUS
<1> HIDE DEF T
<1>5. T = Nat
  BY <1>2, <1>3, <1>4, SetInduction
<1>6. PICK f \in [Nat \ {0} -> V] : Solves(f, l)
  BY <1>5 DEF T
<1>7. \A i \in Nat \ {0} : i + l > l
  OBVIOUS
<1>8. \A i \in Nat \ {0} : f[i] = Goes(wire, base, step, f, i)
  BY <1>6, <1>7
<1>9. QED
  BY <1>8 DEF Solvable

(* Every step stays in V, from the end of wire backwards. *)
Stays(wire, f, V) ==
  \A i \in Nat \ {0} :
    /\ Ended(wire, i) => f[i] \in V
    /\ ~Ended(wire, i) /\ f[i + 1 + wire[i]] \in V => f[i] \in V

LEMMA StaysIn ==
  ASSUME NEW wire \in Text, NEW V, NEW f, Stays(wire, f, V)
  PROVE  \A i \in Nat \ {0} : f[i] \in V
<1>1. PICK l \in Nat : l = Len(wire)
  BY LenIsNat DEF Text
<1> DEFINE T == {k \in Nat : \A i \in Nat \ {0} : i + k > l => f[i] \in V}
<1>2. 0 \in T
  <2>1. ASSUME NEW i \in Nat \ {0}, i + 0 > l PROVE f[i] \in V
    <3>1. Ended(wire, i)
      BY <1>1, <2>1 DEF Ended
    <3>2. QED
      BY <3>1 DEF Stays
  <2>2. QED
    BY <2>1
<1>3. ASSUME NEW k \in T PROVE k + 1 \in T
  <2>1. ASSUME NEW i \in Nat \ {0}, i + (k + 1) > l PROVE f[i] \in V
    <3>1. CASE Ended(wire, i)
      BY <3>1 DEF Stays
    <3>2. CASE ~Ended(wire, i)
      <4>1. PICK n \in Nat \ {0} : n = i + 1 + wire[i] /\ n > i
        BY <3>2, NextLabel
      <4>2. n + k > l
        BY <2>1, <4>1
      <4>3. f[n] \in V
        BY <4>2
      <4>4. QED
        BY <3>2, <4>1, <4>3 DEF Stays
    <3>3. QED
      BY <3>1, <3>2
  <2>2. k + 1 \in Nat
    OBVIOUS
  <2>3. QED
    BY <2>1, <2>2
<1>4. T \in SUBSET Nat
  OBVIOUS
<1> HIDE DEF T
<1>5. T = Nat
  BY <1>2, <1>3, <1>4, SetInduction
<1>6. \A i \in Nat \ {0} : i + l > l
  OBVIOUS
<1>7. QED
  BY <1>5, <1>6 DEF T

-----------------------------------------------------------------------------
(* lowercase_wire_name, label by label. *)
Lowered(wire, i) ==
  <<wire[i]>> \o lowercase(SubSeq(wire, i + 1, Min({i + wire[i], Len(wire)})))

LowerAt(wire, f, i) ==
  IF Ended(wire, i) THEN SubSeq(wire, i, Len(wire)) ELSE Lowered(wire, i) \o f[i + 1 + wire[i]]

LowersFrom(wire, f) == f = [i \in Nat \ {0} |-> LowerAt(wire, f, i)]

LEMMA LowerNameIs ==
  ASSUME NEW wire
  PROVE  lowercase_wire_name(wire) = (CHOOSE f : LowersFrom(wire, f))[1]
BY DEF lowercase_wire_name, LowersFrom, LowerAt, Lowered, Ended

LEMMA LesserIs ==
  ASSUME NEW a \in Nat, NEW b \in Nat
  PROVE  Min({a, b}) = IF a <= b THEN a ELSE b
<1>1. PICK m : m = Min({a, b})
  OBVIOUS
<1>2. m \in {a, b} /\ m <= a /\ m <= b
  <2>1. {a, b} \in SUBSET Nat /\ {a, b} # {}
    OBVIOUS
  <2>2. QED
    BY <1>1, <2>1, LeastExists
<1>3. QED
  BY <1>1, <1>2

LEMMA LoweredIs ==
  ASSUME NEW wire \in Text, NEW i \in Nat \ {0}, ~Ended(wire, i)
  PROVE  Lowered(wire, i) \in Text
<1>1. PICK l \in Nat : l = Len(wire)
  BY LenIsNat DEF Text
<1>2. i \in 1..l
  BY <1>1 DEF Ended
<1>3. PICK n \in Nat : n = wire[i] /\ n \in Octet
  BY <1>1, <1>2, ElementOfSeq, OctetIsNat DEF Text
<1>4. PICK m \in Nat : m = Min({i + n, l}) /\ m <= l
  <2>1. i + n \in Nat
    OBVIOUS
  <2>2. Min({i + n, l}) = IF i + n <= l THEN i + n ELSE l
    BY <2>1, LesserIs
  <2>3. Min({i + n, l}) \in Nat /\ Min({i + n, l}) <= l
    BY <2>1, <2>2
  <2>4. QED
    BY <2>3
<1>5. SubSeq(wire, i + 1, m) \in Text
  <2>1. i + 1 \in Nat \ {0}
    OBVIOUS
  <2>2. QED
    BY <1>1, <1>4, <2>1, LowerSub
<1>6. PICK small \in Text : small = lowercase(SubSeq(wire, i + 1, m))
  BY <1>5, LowerIs
<1>7. PICK one \in Text : one = <<n>>
  BY <1>3, OneOf DEF Text
<1>8. one \o small \in Text
  BY ConcatProperties DEF Text
<1>9. QED
  BY <1>1, <1>3, <1>4, <1>6, <1>7, <1>8 DEF Lowered

LEMMA RestIs ==
  ASSUME NEW wire \in Text, NEW i \in Nat \ {0}
  PROVE  SubSeq(wire, i, Len(wire)) \in Text
<1>1. Len(wire) \in Nat /\ Len(wire) <= Len(wire)
  BY LenIsNat DEF Text
<1>2. QED
  BY <1>1, LowerSub

LEMMA LowersFromIs ==
  ASSUME NEW wire \in Text
  PROVE  \E f : /\ \A i \in Nat \ {0} : f[i] = LowerAt(wire, f, i) /\ f[i] \in Text
                /\ lowercase_wire_name(wire) = f[1]
<1>1. PICK base : base = [i \in Nat \ {0} |-> SubSeq(wire, i, Len(wire))]
  OBVIOUS
<1>2. base \in [Nat \ {0} -> Text]
  BY <1>1, RestIs
<1>3. PICK step : step = [i \in Nat \ {0} |->
                            [v \in Text |-> IF Ended(wire, i) THEN v ELSE Lowered(wire, i) \o v]]
  OBVIOUS
<1>4. step \in [Nat \ {0} -> [Text -> Text]]
  <2>1. ASSUME NEW i \in Nat \ {0}, NEW v \in Text
        PROVE  (IF Ended(wire, i) THEN v ELSE Lowered(wire, i) \o v) \in Text
    <3>1. ASSUME ~Ended(wire, i) PROVE Lowered(wire, i) \o v \in Text
      <4>1. PICK s \in Text : s = Lowered(wire, i)
        BY <3>1, LoweredIs
      <4>2. s \o v \in Text
        BY ConcatProperties DEF Text
      <4>3. QED
        BY <4>1, <4>2
    <3>2. QED
      BY <3>1
  <2>2. QED
    BY <1>3, <2>1
<1>5. PICK g \in [Nat \ {0} -> Text] : \A i \in Nat \ {0} : g[i] = Goes(wire, base, step, g, i)
  <2>1. Solvable(wire, base, step, Text)
    BY <1>2, <1>4, RecursionExists
  <2>2. QED
    BY <2>1 DEF Solvable
<1>6. ASSUME NEW i \in Nat \ {0} PROVE g[i] = LowerAt(wire, g, i)
  <2>1. CASE Ended(wire, i)
    BY <1>1, <1>5, <2>1 DEF Goes, LowerAt
  <2>2. CASE ~Ended(wire, i)
    <3>1. PICK n \in Nat \ {0} : n = i + 1 + wire[i]
      BY <2>2, NextLabel
    <3>2. g[i] = step[i][g[n]]
      BY <1>5, <2>2, <3>1 DEF Goes
    <3>3. g[n] \in Text
      OBVIOUS
    <3>4. step[i][g[n]] = Lowered(wire, i) \o g[n]
      BY <1>3, <2>2, <3>3
    <3>5. QED
      BY <2>2, <3>1, <3>2, <3>4 DEF LowerAt
  <2>3. QED
    BY <2>1, <2>2
<1>7. LowersFrom(wire, g)
  <2>1. g = [i \in Nat \ {0} |-> g[i]]
    OBVIOUS
  <2>2. QED
    BY <1>6, <2>1 DEF LowersFrom
<1>8. PICK f : f = (CHOOSE h : LowersFrom(wire, h)) /\ LowersFrom(wire, f)
  BY <1>7
<1>9. \A i \in Nat \ {0} : f[i] = LowerAt(wire, f, i)
  <2>1. PICK h : h = [i \in Nat \ {0} |-> LowerAt(wire, f, i)]
    OBVIOUS
  <2>2. f = h
    BY <1>8, <2>1 DEF LowersFrom
  <2>3. \A i \in Nat \ {0} : h[i] = LowerAt(wire, f, i)
    BY <2>1
  <2>4. QED
    BY <2>2, <2>3
<1>10. Stays(wire, f, Text)
  <2>1. ASSUME NEW i \in Nat \ {0}, Ended(wire, i) PROVE f[i] \in Text
    BY <1>9, <2>1, RestIs DEF LowerAt
  <2>2. ASSUME NEW i \in Nat \ {0}, ~Ended(wire, i), f[i + 1 + wire[i]] \in Text
        PROVE  f[i] \in Text
    <3>1. PICK s \in Text, v \in Text : s = Lowered(wire, i) /\ v = f[i + 1 + wire[i]]
      BY <2>2, LoweredIs
    <3>2. s \o v \in Text
      BY ConcatProperties DEF Text
    <3>3. QED
      BY <1>9, <2>2, <3>1, <3>2 DEF LowerAt
  <2>3. QED
    BY <2>1, <2>2 DEF Stays
<1>11. \A i \in Nat \ {0} : f[i] \in Text
  BY <1>10, StaysIn
<1>12. QED
  BY <1>8, <1>9, <1>11, LowerNameIs

(* label_count, label by label. *)
Count == 0..255

CountAt(wire, f, i) ==
  IF Ended(wire, i) THEN 0 ELSE Min({255, 1 + f[i + 1 + wire[i]]})

CountsFrom(wire, f) == f = [i \in Nat \ {0} |-> CountAt(wire, f, i)]

LEMMA CountIs ==
  ASSUME NEW wire
  PROVE  label_count(wire) = (CHOOSE f : CountsFrom(wire, f))[1]
BY DEF label_count, CountsFrom, CountAt, Ended

LEMMA OneMore ==
  ASSUME NEW v \in Count
  PROVE  Min({255, 1 + v}) \in Count
<1>1. v \in Nat /\ 1 + v \in Nat /\ 255 \in Nat
  BY DEF Count
<1>2. Min({255, 1 + v}) = IF 255 <= 1 + v THEN 255 ELSE 1 + v
  BY <1>1, LesserIs
<1>3. QED
  BY <1>1, <1>2 DEF Count

LEMMA CountsFromIs ==
  ASSUME NEW wire \in Text
  PROVE  \E f : /\ \A i \in Nat \ {0} : f[i] = CountAt(wire, f, i) /\ f[i] \in Count
                /\ label_count(wire) = f[1]
<1>0. 0 \in Count
  BY DEF Count
<1>1. PICK base : base = [i \in Nat \ {0} |-> 0]
  OBVIOUS
<1>2. base \in [Nat \ {0} -> Count]
  BY <1>0, <1>1
<1>3. PICK step : step = [i \in Nat \ {0} |-> [v \in Count |-> Min({255, 1 + v})]]
  OBVIOUS
<1>4. step \in [Nat \ {0} -> [Count -> Count]]
  BY <1>3, OneMore
<1>5. PICK g \in [Nat \ {0} -> Count] : \A i \in Nat \ {0} : g[i] = Goes(wire, base, step, g, i)
  <2>1. Solvable(wire, base, step, Count)
    BY <1>2, <1>4, RecursionExists
  <2>2. QED
    BY <2>1 DEF Solvable
<1>6. ASSUME NEW i \in Nat \ {0} PROVE g[i] = CountAt(wire, g, i)
  <2>1. CASE Ended(wire, i)
    BY <1>1, <1>5, <2>1 DEF Goes, CountAt
  <2>2. CASE ~Ended(wire, i)
    <3>1. PICK n \in Nat \ {0} : n = i + 1 + wire[i]
      BY <2>2, NextLabel
    <3>2. g[i] = step[i][g[n]]
      BY <1>5, <2>2, <3>1 DEF Goes
    <3>3. g[n] \in Count
      OBVIOUS
    <3>4. step[i][g[n]] = Min({255, 1 + g[n]})
      BY <1>3, <3>3
    <3>5. QED
      BY <2>2, <3>1, <3>2, <3>4 DEF CountAt
  <2>3. QED
    BY <2>1, <2>2
<1>7. CountsFrom(wire, g)
  <2>1. g = [i \in Nat \ {0} |-> g[i]]
    OBVIOUS
  <2>2. QED
    BY <1>6, <2>1 DEF CountsFrom
<1>8. PICK f : f = (CHOOSE h : CountsFrom(wire, h)) /\ CountsFrom(wire, f)
  BY <1>7
<1>9. \A i \in Nat \ {0} : f[i] = CountAt(wire, f, i)
  <2>1. PICK h : h = [i \in Nat \ {0} |-> CountAt(wire, f, i)]
    OBVIOUS
  <2>2. f = h
    BY <1>8, <2>1 DEF CountsFrom
  <2>3. \A i \in Nat \ {0} : h[i] = CountAt(wire, f, i)
    BY <2>1
  <2>4. QED
    BY <2>2, <2>3
<1>10. Stays(wire, f, Count)
  <2>1. ASSUME NEW i \in Nat \ {0}, Ended(wire, i) PROVE f[i] \in Count
    BY <1>0, <1>9, <2>1 DEF CountAt
  <2>2. ASSUME NEW i \in Nat \ {0}, ~Ended(wire, i), f[i + 1 + wire[i]] \in Count
        PROVE  f[i] \in Count
    <3>1. PICK v \in Count : v = f[i + 1 + wire[i]]
      BY <2>2
    <3>2. Min({255, 1 + v}) \in Count
      BY OneMore
    <3>3. QED
      BY <1>9, <2>2, <3>1, <3>2 DEF CountAt
  <2>3. QED
    BY <2>1, <2>2 DEF Stays
<1>11. \A i \in Nat \ {0} : f[i] \in Count
  BY <1>10, StaysIn
<1>12. QED
  BY <1>8, <1>9, <1>11, CountIs

-----------------------------------------------------------------------------
(* Both along the labels of a name. *)
LiesIn(wire, p, n, label) ==
  /\ n \in 1..255 /\ ~Ended(wire, p) /\ wire[p] = n /\ p + n <= Len(wire)
  /\ SubSeq(wire, p + 1, p + n) = label

Around(wire, front, label, rest) == wire = front \o (WiredLabel(label) \o rest)

Sized(s, n) == Len(s) = n

LEMMA LabelInWire ==
  ASSUME NEW wire \in Text, NEW front \in Text, NEW label \in Piece, NEW rest \in Text,
         Around(wire, front, label, rest),
         NEW f \in Nat, Sized(front, f), NEW p \in Nat \ {0}, p = f + 1,
         NEW n \in Nat, Sized(label, n)
  PROVE  LiesIn(wire, p, n, label)
<1>1. label \in Text /\ n \in 1..255
  <2>1. label \in Text /\ label # <<>> /\ n <= 255
    BY DEF Piece, Sized
  <2>2. n # 0
    BY <2>1, EmptySeq DEF Text, Sized
  <2>3. QED
    BY <2>1, <2>2
<1>2. PICK one \in Text : one = <<n>> /\ Len(one) = 1 /\ one[1] = n
  <2>1. n \in Octet
    BY <1>1 DEF Octet
  <2>2. PICK one \in Seq(Octet) : one = <<n>>
    BY <2>1, OneOf
  <2>3. Len(one) = 1 /\ one[1] = n
    BY <2>2
  <2>4. QED
    BY <2>2, <2>3 DEF Text
<1>3. n % 256 = n
  BY <1>1
<1>4. PICK full \in Text : full = WiredLabel(label) /\ AreJoined(full, one, label)
  <2>1. WiredLabel(label) = one \o label
    <3>1. Len(label) % 256 = n
      BY <1>3 DEF Sized
    <3>2. QED
      BY <1>2, <3>1 DEF WiredLabel
  <2>2. AreJoined(one \o label, one, label)
    BY <1>1, Joins DEF Text
  <2>3. QED
    BY <2>1, <2>2 DEF AreJoined, Text
<1>5. PICK tail \in Text : tail = full \o rest /\ AreJoined(tail, full, rest)
  <2>1. AreJoined(full \o rest, full, rest)
    BY Joins DEF Text
  <2>2. full \o rest \in Text
    BY <2>1 DEF AreJoined, Text
  <2>3. QED
    BY <2>1, <2>2
<1>6. AreJoined(wire, front, tail)
  <2>1. AreJoined(front \o tail, front, tail)
    BY Joins DEF Text
  <2>2. QED
    BY <1>4, <1>5, <2>1 DEF Around
<1>7. PICK r \in Nat, l \in Nat : r = Len(rest) /\ l = Len(wire)
  BY LenIsNat DEF Text
<1>8. PICK m \in Nat : m = 1 + n /\ Len(full) = m
  <2>1. Len(full) = 1 + n
    BY <1>2, <1>4 DEF AreJoined, Sized
  <2>2. 1 + n \in Nat
    OBVIOUS
  <2>3. QED
    BY <2>1, <2>2
<1>9. PICK t \in Nat : t = m + r /\ Len(tail) = t
  <2>1. Len(tail) = m + r
    BY <1>5, <1>7, <1>8 DEF AreJoined
  <2>2. m + r \in Nat
    OBVIOUS
  <2>3. QED
    BY <2>1, <2>2
<1>10. l = f + t
  BY <1>6, <1>7, <1>9 DEF AreJoined, Sized
<1>11. /\ (\A i \in 1..t : wire[f + i] = tail[i])
       /\ (\A i \in 1..m : tail[i] = full[i])
       /\ full[1] = n
       /\ (\A i \in 1..n : full[1 + i] = label[i])
  <2>1. \A i \in 1..t : wire[f + i] = tail[i]
    BY <1>6, <1>9 DEF AreJoined, Sized
  <2>2. \A i \in 1..m : tail[i] = full[i]
    BY <1>5, <1>8 DEF AreJoined
  <2>3. full[1] = n
    <3>1. 1 \in 1..1
      OBVIOUS
    <3>2. full[1] = one[1]
      BY <1>2, <1>4, <3>1 DEF AreJoined
    <3>3. QED
      BY <1>2, <3>2
  <2>4. \A i \in 1..n : full[1 + i] = label[i]
    BY <1>2, <1>4 DEF AreJoined, Sized
  <2>5. QED
    BY <2>1, <2>2, <2>3, <2>4
<1>12. ASSUME NEW i \in 1..m PROVE wire[f + i] = full[i]
  <2>1. i \in 1..t
    BY <1>9
  <2>2. QED
    BY <1>11, <2>1
<1>13. wire[p] = n
  <2>1. 1 \in 1..m
    BY <1>8
  <2>2. wire[f + 1] = full[1]
    BY <1>12, <2>1
  <2>3. QED
    BY <1>10, <1>11, <2>2
<1>14. p + n <= l /\ p <= l /\ n # 0
  BY <1>1, <1>8, <1>9, <1>10
<1>15. PICK s \in Text : /\ s = SubSeq(wire, p + 1, p + n) /\ Len(s) = n
                        /\ \A i \in 1..n : s[i] = wire[p + 1 + i - 1]
  <2>1. PICK a \in Nat \ {0}, b \in Nat : /\ a = p + 1 /\ b = p + n
                                         /\ b <= l /\ a <= b + 1 /\ b - a + 1 = n
    <3>1. /\ p + 1 \in Nat \ {0} /\ p + n \in Nat /\ p + 1 <= p + n + 1
          /\ p + n - (p + 1) + 1 = n
      OBVIOUS
    <3>2. QED
      BY <1>14, <3>1
  <2>2. PICK s : s = SubSeq(wire, a, b)
    OBVIOUS
  <2>3. wire \in Seq(Octet) /\ b <= Len(wire)
    BY <1>7, <2>1 DEF Text
  <2>4. s \in Seq(Octet) /\ Len(s) = n /\ \A i \in 1..n : s[i] = wire[a + i - 1]
    BY <2>1, <2>2, <2>3, SubIs
  <2>5. QED
    BY <2>1, <2>2, <2>4 DEF Text
<1>16. ASSUME NEW i \in 1..n PROVE s[i] = label[i]
  <2>1. PICK j \in 1..m : j = 1 + i /\ p + 1 + i - 1 = f + j
    <3>1. 1 + i \in 1..m /\ p + 1 + i - 1 = f + (1 + i)
      BY <1>8, <1>10
    <3>2. QED
      BY <3>1
  <2>2. wire[f + j] = full[j] /\ full[j] = label[i]
    BY <1>11, <1>12, <2>1
  <2>3. QED
    BY <1>15, <2>1, <2>2
<1>17. s = label
  BY <1>1, <1>15, <1>16, SeqEqual DEF Text, Sized
<1>18. ~Ended(wire, p)
  BY <1>7, <1>13, <1>14 DEF Ended
<1>19. QED
  BY <1>1, <1>7, <1>13, <1>14, <1>15, <1>17, <1>18 DEF LiesIn

LEMMA LowerPiece ==
  ASSUME NEW label \in Piece
  PROVE  lowercase(label) \in Piece /\ Len(lowercase(label)) = Len(label)
<1>1. label \in Text /\ label # <<>> /\ Len(label) <= 255
  BY DEF Piece
<1>2. lowercase(label) \in Text /\ Len(lowercase(label)) = Len(label)
  BY <1>1, LowerIs
<1>3. Len(label) # 0
  BY <1>1, EmptySeq DEF Text
<1>4. lowercase(label) # <<>>
  BY <1>2, <1>3
<1>5. QED
  BY <1>1, <1>2, <1>4 DEF Piece

LEMMA LoweredLabel ==
  ASSUME NEW wire \in Text, NEW label \in Piece,
         NEW p \in Nat \ {0}, NEW n \in Nat, Sized(label, n), LiesIn(wire, p, n, label)
  PROVE  Lowered(wire, p) = WiredLabel(lowercase(label))
<1>1. PICK l \in Nat : l = Len(wire)
  BY LenIsNat DEF Text
<1>2. n \in 1..255 /\ wire[p] = n /\ p + n <= l /\ SubSeq(wire, p + 1, p + n) = label
  BY <1>1 DEF LiesIn
<1>3. Min({p + n, l}) = p + n
  <2>1. p + n \in Nat
    OBVIOUS
  <2>2. QED
    BY <1>2, <2>1, LesserIs
<1>4. Lowered(wire, p) = <<n>> \o lowercase(label)
  BY <1>1, <1>2, <1>3 DEF Lowered
<1>5. n % 256 = n
  BY <1>2
<1>6. Len(lowercase(label)) % 256 = n
  BY <1>5, LowerPiece DEF Sized
<1>7. QED
  BY <1>4, <1>6 DEF WiredLabel

(* wire starts with the wire form of parts. *)
StartsWith(wire, front) == \E rest \in Text : wire = front \o rest

(* One label further: the state of a walk of wire behind parts.  *)
LEMMA OneFurther ==
  ASSUME NEW wire \in Text, NEW parts \in Seq(Piece), NEW label \in Piece,
         StartsWith(wire, Wired(Append(parts, label)))
  PROVE  /\ StartsWith(wire, Wired(parts))
         /\ \E p \in Nat \ {0}, n \in Nat :
              /\ p = Len(Wired(parts)) + 1 /\ Sized(label, n) /\ LiesIn(wire, p, n, label)
              /\ p + 1 + n = Len(Wired(Append(parts, label))) + 1
<1>1. parts \in Seq(Text) /\ label \in Text
  BY PiecesAreText DEF Piece
<1>2. PICK w \in Text, full \in Text, more \in Text :
        /\ w = Wired(parts) /\ full = WiredLabel(label) /\ more = Wired(Append(parts, label))
        /\ more = w \o full
  <2>1. Wired(parts) \in Text /\ Wired(Append(parts, label)) = Wired(parts) \o WiredLabel(label)
    BY <1>1, WiredAppend DEF Text
  <2>2. 0..255 \subseteq Octet
    BY DEF Octet
  <2>3. WiredLabel(label) \in Text
    BY <1>1, <2>2, WiredLabelIs DEF Text
  <2>4. PICK w \in Text, full \in Text : w = Wired(parts) /\ full = WiredLabel(label)
    BY <2>1, <2>3
  <2>5. w \o full \in Text
    BY ConcatProperties DEF Text
  <2>6. QED
    BY <2>1, <2>4, <2>5
<1>3. PICK rest \in Text : wire = more \o rest
  BY <1>2 DEF StartsWith
<1>4. PICK tail \in Text : tail = full \o rest
  BY ConcatProperties DEF Text
<1>5. wire = w \o tail
  <2>1. Chain(w, full, rest)
    BY Chained
  <2>2. QED
    BY <1>2, <1>3, <1>4, <2>1 DEF Chain
<1>6. StartsWith(wire, w)
  BY <1>5 DEF StartsWith
<1>7. PICK f \in Nat, n \in Nat : f = Len(w) /\ n = Len(label)
  BY <1>1, LenIsNat DEF Text
<1>8. Sized(w, f) /\ Sized(label, n) /\ Around(wire, w, label, rest)
  BY <1>2, <1>4, <1>5, <1>7 DEF Sized, Around
<1>9. PICK p \in Nat \ {0} : p = f + 1
  <2>1. f + 1 \in Nat \ {0}
    OBVIOUS
  <2>2. QED
    BY <2>1
<1>10. LiesIn(wire, p, n, label)
  BY <1>8, <1>9, LabelInWire
<1>11. Len(more) = f + (n + 1)
  <2>1. AreJoined(w \o full, w, full)
    BY Joins DEF Text
  <2>2. 0..255 \subseteq Octet
    BY DEF Octet
  <2>3. Len(full) = n + 1
    BY <1>1, <1>2, <1>7, <2>2, WiredLabelIs DEF Text
  <2>4. QED
    BY <1>2, <1>7, <2>1, <2>3 DEF AreJoined
<1>12. p + 1 + n = Len(more) + 1
  BY <1>9, <1>11
<1>13. QED
  BY <1>2, <1>6, <1>7, <1>8, <1>9, <1>10, <1>12

LEMMA LowersPieces ==
  ASSUME NEW parts \in Seq(Piece)
  PROVE  lowers(parts) \in Seq(Piece) /\ Len(lowers(parts)) = Len(parts)
<1>1. PICK n \in Nat : n = Len(parts) /\ DOMAIN parts = 1..n
  BY LenIsNat
<1>2. \A k \in 1..n : lowercase(parts[k]) \in Piece
  BY <1>1, ElementOfSeq, LowerPiece
<1>3. PICK small : small = lowers(parts) /\ small = [k \in 1..n |-> lowercase(parts[k])]
  BY <1>1 DEF lowers
<1>4. small \in Seq(Piece) /\ Len(small) = n
  BY <1>2, <1>3
<1>5. QED
  BY <1>1, <1>3, <1>4

LowerSteps(wire, f) == \A i \in Nat \ {0} : f[i] = LowerAt(wire, f, i) /\ f[i] \in Text

Behind(parts) == Len(Wired(parts)) + 1

LEMMA WiredEmpty == Wired(<<>>) = <<>> /\ Behind(<<>>) = 1
<1>1. Wired(<<>>) = <<>>
  BY FlattenEmpty DEF Wired
<1>2. QED
  BY <1>1 DEF Behind

LEMMA WiredText ==
  ASSUME NEW parts \in Seq(Piece)
  PROVE  Wired(parts) \in Text /\ Behind(parts) \in Nat \ {0}
<1>1. parts \in Seq(Text)
  BY PiecesAreText
<1>2. Wired(parts) \in Text
  BY <1>1, EmptyText, WiredAppend DEF Text
<1>3. Len(Wired(parts)) \in Nat
  BY <1>2, LenIsNat DEF Text
<1>4. Len(Wired(parts)) + 1 \in Nat \ {0}
  BY <1>3
<1>5. QED
  BY <1>2, <1>4 DEF Behind

LowersTo(wire, f, parts) == f[1] = Wired(lowers(parts)) \o f[Behind(parts)]

LEMMA LowersAlong ==
  ASSUME NEW wire \in Text, NEW f, LowerSteps(wire, f)
  PROVE  \A parts \in Seq(Piece) : StartsWith(wire, Wired(parts)) => LowersTo(wire, f, parts)
<1> DEFINE T == {parts \in Seq(Piece) :
                   StartsWith(wire, Wired(parts)) => LowersTo(wire, f, parts)}
<1>1. <<>> \in T
  <2>1. f[1] \in Text
    BY DEF LowerSteps
  <2>2. <<>> \o f[1] = f[1]
    BY <2>1, ConcatEmptySeq DEF Text
  <2>3. LowersTo(wire, f, <<>>)
    BY <2>2, WiredEmpty, LowersEmpty DEF LowersTo
  <2>4. <<>> \in Seq(Piece)
    OBVIOUS
  <2>5. QED
    BY <2>3, <2>4
<1>2. ASSUME NEW parts \in T, NEW label \in Piece PROVE Append(parts, label) \in T
  <2>1. parts \in Seq(Piece) /\ Append(parts, label) \in Seq(Piece)
    BY Appended
  <2>2. SUFFICES ASSUME StartsWith(wire, Wired(Append(parts, label)))
                 PROVE  LowersTo(wire, f, Append(parts, label))
    BY <2>1
  <2>3. StartsWith(wire, Wired(parts))
    BY <2>1, <2>2, OneFurther
  <2>4. PICK p \in Nat \ {0}, n \in Nat :
          /\ p = Len(Wired(parts)) + 1 /\ Sized(label, n) /\ LiesIn(wire, p, n, label)
          /\ p + 1 + n = Len(Wired(Append(parts, label))) + 1
    BY <2>1, <2>2, OneFurther
  <2>5. p = Behind(parts) /\ p + 1 + n = Behind(Append(parts, label))
    BY <2>4 DEF Behind
  <2>6. PICK q \in Nat \ {0} : q = p + 1 + n
    <3>1. p + 1 + n \in Nat \ {0}
      OBVIOUS
    <3>2. QED
      BY <3>1
  <2>7. PICK small \in Text : small = lowercase(label) /\ small \in Piece
    BY LowerPiece DEF Piece
  <2>8. Lowered(wire, p) = WiredLabel(small)
    BY <2>4, <2>7, LoweredLabel
  <2>9. PICK full \in Text : full = WiredLabel(small)
    <3>1. 0..255 \subseteq Octet
      BY DEF Octet
    <3>2. QED
      BY <3>1, WiredLabelIs DEF Text
  <2>10. PICK rest \in Text : rest = f[q]
    BY DEF LowerSteps
  <2>11. f[p] = full \o rest
    <3>1. f[p] = LowerAt(wire, f, p)
      BY DEF LowerSteps
    <3>2. ~Ended(wire, p) /\ wire[p] = n
      BY <2>4 DEF LiesIn
    <3>3. QED
      BY <2>6, <2>8, <2>9, <2>10, <3>1, <3>2 DEF LowerAt
  <2>12. PICK l \in Seq(Piece) : l = lowers(parts)
    BY <2>1, LowersPieces
  <2>13. lowers(Append(parts, label)) = Append(l, small)
    <3>1. Piece \in SUBSET Text /\ \A t \in Piece : lowercase(t) \in Piece
      BY LowerPiece DEF Piece
    <3>2. QED
      BY <2>1, <2>7, <2>12, <3>1, LowersAppend
  <2>14. PICK w \in Text : w = Wired(l) /\ Wired(Append(l, small)) = w \o full
    <3>1. l \in Seq(Text)
      BY PiecesAreText
    <3>2. QED
      BY <2>9, <3>1, WiredAppend DEF Text
  <2>15. f[1] = w \o f[p]
    BY <2>1, <2>3, <2>5, <2>12, <2>14 DEF LowersTo
  <2>16. f[1] = (w \o full) \o rest
    <3>1. Chain(w, full, rest)
      BY Chained
    <3>2. QED
      BY <2>11, <2>15, <3>1 DEF Chain
  <2>17. QED
    BY <2>5, <2>6, <2>10, <2>13, <2>14, <2>16 DEF LowersTo
<1>3. T \in SUBSET Seq(Piece)
  OBVIOUS
<1> HIDE DEF T
<1>4. T = Seq(Piece)
  BY <1>1, <1>2, <1>3, SeqInduction
<1>5. QED
  BY <1>4 DEF T

CountSteps(wire, f) == \A i \in Nat \ {0} : f[i] = CountAt(wire, f, i) /\ f[i] \in Count

CountsTo(wire, f, parts) == f[1] = Min({255, Len(parts) + f[Behind(parts)]})

LEMMA Saturates ==
  ASSUME NEW k \in Nat, NEW v \in Count
  PROVE  Min({255, k + Min({255, 1 + v})}) = Min({255, (k + 1) + v})
<1>1. v \in Nat
  BY DEF Count
<1>2. PICK a \in Nat, c \in Nat : a = 1 + v /\ c = (k + 1) + v
  BY <1>1
<1>3. PICK m \in Nat : m = Min({255, a}) /\ m = IF 255 <= a THEN 255 ELSE a
  BY <1>2, LesserIs
<1>4. PICK b \in Nat : b = k + m
  BY <1>3
<1>5. Min({255, b}) = IF 255 <= b THEN 255 ELSE b
  BY LesserIs
<1>6. Min({255, c}) = IF 255 <= c THEN 255 ELSE c
  BY LesserIs
<1>7. (IF 255 <= b THEN 255 ELSE b) = IF 255 <= c THEN 255 ELSE c
  BY <1>1, <1>2, <1>3, <1>4
<1>8. QED
  BY <1>2, <1>3, <1>4, <1>5, <1>6, <1>7

LEMMA CountsAlong ==
  ASSUME NEW wire \in Text, NEW f, CountSteps(wire, f)
  PROVE  \A parts \in Seq(Piece) : StartsWith(wire, Wired(parts)) => CountsTo(wire, f, parts)
<1> DEFINE T == {parts \in Seq(Piece) :
                   StartsWith(wire, Wired(parts)) => CountsTo(wire, f, parts)}
<1>1. <<>> \in T
  <2>1. f[1] \in Count
    BY DEF CountSteps
  <2>2. PICK v \in Nat : v = f[1] /\ v <= 255
    BY <2>1 DEF Count
  <2>3. Min({255, v}) = v
    <3>1. Min({255, v}) = IF 255 <= v THEN 255 ELSE v
      BY LesserIs
    <3>2. QED
      BY <2>2, <3>1
  <2>4. Len(<<>>) = 0 /\ 0 + v = v
    OBVIOUS
  <2>5. CountsTo(wire, f, <<>>)
    <3>1. Len(<<>>) + f[1] = f[1]
      BY <2>2, <2>4
    <3>2. Min({255, Len(<<>>) + f[1]}) = f[1]
      BY <2>2, <2>3, <3>1
    <3>3. QED
      BY <3>2, WiredEmpty DEF CountsTo
  <2>6. <<>> \in Seq(Piece)
    OBVIOUS
  <2>7. QED
    BY <2>5, <2>6
<1>2. ASSUME NEW parts \in T, NEW label \in Piece PROVE Append(parts, label) \in T
  <2>1. parts \in Seq(Piece) /\ Append(parts, label) \in Seq(Piece)
    BY Appended
  <2>2. SUFFICES ASSUME StartsWith(wire, Wired(Append(parts, label)))
                 PROVE  CountsTo(wire, f, Append(parts, label))
    BY <2>1
  <2>3. StartsWith(wire, Wired(parts))
    BY <2>1, <2>2, OneFurther
  <2>4. PICK p \in Nat \ {0}, n \in Nat :
          /\ p = Len(Wired(parts)) + 1 /\ Sized(label, n) /\ LiesIn(wire, p, n, label)
          /\ p + 1 + n = Len(Wired(Append(parts, label))) + 1
    BY <2>1, <2>2, OneFurther
  <2>5. p = Behind(parts) /\ p + 1 + n = Behind(Append(parts, label))
    BY <2>4 DEF Behind
  <2>6. PICK q \in Nat \ {0} : q = p + 1 + n
    <3>1. p + 1 + n \in Nat \ {0}
      OBVIOUS
    <3>2. QED
      BY <3>1
  <2>7. PICK v \in Count : v = f[q]
    BY DEF CountSteps
  <2>8. f[p] = Min({255, 1 + v})
    <3>1. f[p] = CountAt(wire, f, p)
      BY DEF CountSteps
    <3>2. ~Ended(wire, p) /\ wire[p] = n
      BY <2>4 DEF LiesIn
    <3>3. QED
      BY <2>6, <2>7, <3>1, <3>2 DEF CountAt
  <2>9. PICK k \in Nat : k = Len(parts)
    BY <2>1, LenIsNat
  <2>10. Len(Append(parts, label)) = k + 1
    BY <2>1, <2>9
  <2>11. f[1] = Min({255, k + Min({255, 1 + v})})
    BY <2>1, <2>3, <2>5, <2>8, <2>9 DEF CountsTo
  <2>12. f[1] = Min({255, (k + 1) + v})
    BY <2>11, Saturates
  <2>13. QED
    BY <2>5, <2>6, <2>7, <2>10, <2>12 DEF CountsTo
<1>3. T \in SUBSET Seq(Piece)
  OBVIOUS
<1> HIDE DEF T
<1>4. T = Seq(Piece)
  BY <1>1, <1>2, <1>3, SeqInduction
<1>5. QED
  BY <1>4 DEF T

(* The wire form of a whole name: its labels, and the zero octet that ends it. *)
IsNameOf(wire, parts) == wire = Wired(parts) \o <<0>>

LEMMA NameInWire ==
  ASSUME NEW parts \in Seq(Piece), NEW wire, IsNameOf(wire, parts)
  PROVE  /\ wire \in Text /\ StartsWith(wire, Wired(parts))
         /\ Ended(wire, Behind(parts))
         /\ SubSeq(wire, Behind(parts), Len(wire)) = <<0>>
<1>1. PICK w \in Text : w = Wired(parts)
  BY WiredText
<1>2. PICK zero \in Text : zero = <<0>> /\ Len(zero) = 1 /\ zero[1] = 0
  <2>1. 0 \in Octet
    BY DEF Octet
  <2>2. PICK zero \in Seq(Octet) : zero = <<0>>
    BY <2>1, OneOf
  <2>3. Len(zero) = 1 /\ zero[1] = 0
    BY <2>2
  <2>4. QED
    BY <2>2, <2>3 DEF Text
<1>3. AreJoined(wire, w, zero) /\ wire = w \o zero
  <2>1. AreJoined(w \o zero, w, zero)
    BY Joins DEF Text
  <2>2. QED
    BY <1>1, <1>2, <2>1 DEF IsNameOf
<1>4. wire \in Text
  BY <1>3 DEF AreJoined, Text
<1>5. StartsWith(wire, w)
  BY <1>3 DEF StartsWith
<1>6. PICK f \in Nat : f = Len(w)
  BY LenIsNat DEF Text
<1>7. PICK p \in Nat \ {0} : p = f + 1 /\ p - 1 = f
  <2>1. f + 1 \in Nat \ {0} /\ (f + 1) - 1 = f
    OBVIOUS
  <2>2. QED
    BY <2>1
<1>8. Len(wire) = p /\ wire[p] = 0 /\ p = Behind(parts)
  <2>1. 1 \in 1..1
    OBVIOUS
  <2>2. Len(wire) = f + 1
    BY <1>2, <1>3, <1>6 DEF AreJoined
  <2>3. wire[f + 1] = zero[1]
    BY <1>2, <1>3, <1>6, <2>1 DEF AreJoined
  <2>4. QED
    BY <1>1, <1>2, <1>6, <1>7, <2>2, <2>3 DEF Behind
<1>9. SubSeq(wire, p, p) = zero
  <2>1. PICK s : s = SubSeq(wire, p, p)
    OBVIOUS
  <2>2. wire \in Seq(Octet) /\ p <= Len(wire) /\ p <= p + 1 /\ p - p + 1 = 1
    BY <1>4, <1>8 DEF Text
  <2>3. s \in Seq(Octet) /\ Len(s) = 1 /\ \A i \in 1..1 : s[i] = wire[p + i - 1]
    BY <2>1, <2>2, SubIs
  <2>4. 1 \in 1..1 /\ p + 1 - 1 = p
    OBVIOUS
  <2>5. s[1] = 0
    BY <1>8, <2>3, <2>4
  <2>6. \A i \in 1..1 : s[i] = zero[i]
    BY <1>2, <2>5
  <2>7. s = zero
    BY <1>2, <2>3, <2>6, SeqEqual DEF Text
  <2>8. QED
    BY <2>1, <2>7
<1>10. QED
  BY <1>1, <1>2, <1>4, <1>5, <1>8, <1>9 DEF Ended

LEMMA NameLowered ==
  ASSUME NEW parts \in Seq(Piece), NEW wire, IsNameOf(wire, parts)
  PROVE  lowercase_wire_name(wire) = Wired(lowers(parts)) \o <<0>>
<1>1. /\ wire \in Text /\ StartsWith(wire, Wired(parts))
      /\ Ended(wire, Behind(parts)) /\ SubSeq(wire, Behind(parts), Len(wire)) = <<0>>
  BY NameInWire
<1>2. PICK f : LowerSteps(wire, f) /\ lowercase_wire_name(wire) = f[1]
  BY <1>1, LowersFromIs DEF LowerSteps
<1>3. LowersTo(wire, f, parts)
  BY <1>1, <1>2, LowersAlong
<1>4. f[Behind(parts)] = <<0>>
  BY <1>1, <1>2, WiredText DEF LowerSteps, LowerAt
<1>5. QED
  BY <1>2, <1>3, <1>4 DEF LowersTo

LEMMA LabelsCounted ==
  ASSUME NEW parts \in Seq(Piece), NEW wire, IsNameOf(wire, parts)
  PROVE  label_count(wire) = Min({255, Len(parts)})
<1>1. /\ wire \in Text /\ StartsWith(wire, Wired(parts)) /\ Ended(wire, Behind(parts))
  BY NameInWire
<1>2. PICK f : CountSteps(wire, f) /\ label_count(wire) = f[1]
  BY <1>1, CountsFromIs DEF CountSteps
<1>3. CountsTo(wire, f, parts)
  BY <1>1, <1>2, CountsAlong
<1>4. f[Behind(parts)] = 0
  BY <1>1, <1>2, WiredText DEF CountSteps, CountAt
<1>5. PICK n \in Nat : n = Len(parts) /\ n + 0 = n
  BY LenIsNat
<1>6. QED
  BY <1>2, <1>3, <1>4, <1>5 DEF CountsTo

LEMMA NameEncoded ==
  ASSUME NEW parts \in Seq(Solid), parts # <<>>
  PROVE  encode_domain_name(Join(parts)) = Wired(lowers(parts)) \o <<0>>
<1>1. PICK d \in Text : d = Join(parts) /\ trim_end(d) = d
  BY SolidIs, JoinAppend, NotTrimmed
<1>2. d # <<>>
  <2>1. Last(parts) \in Text /\ Last(parts) # <<>>
    <3>1. Last(parts) \in Solid
      BY FrontLast
    <3>2. QED
      BY <3>1 DEF Solid, Dotless
  <2>2. QED
    BY <1>1, <2>1, SolidIs, JoinFull
<1>3. PICK small \in Seq(Dotless) : small = lowers(parts) /\ small # <<>>
  BY SolidIs
<1>4. lowercase(d) = Join(small)
  BY <1>1, <1>3, SolidIs, LowerJoin
<1>5. Split(lowercase(d)) = small
  BY <1>3, <1>4, SplitJoin
<1>6. Parts(d) = small
  BY <1>1, <1>2, <1>5 DEF Parts
<1>7. QED
  BY <1>1, <1>3, <1>6 DEF encode_domain_name

(* A name without zero octets and dots in its labels has one canonical      *)
(* form, whatever the labels and however many: lowercase_wire_name of the   *)
(* question's octets is encode_domain_name of the text parse_query made of  *)
(* them, and label_count finds the labels that were read.                   *)
THEOREM OwnerHolds == Spec => []OwnerIsCanonical
<1>1. PieceInv => OwnerIsCanonical
  <2>1. SUFFICES ASSUME PieceInv, pc = "done", reply # None, query.opcode = 0,
                        Without({0, Dot}), NEW owner,
                        owner = lowercase_wire_name(SubSeq(body, 1, pos))
                 PROVE  /\ owner = encode_domain_name(domain)
                        /\ label_count(owner) = Min({255, Len(labels)})
    BY DEF OwnerIsCanonical
  <2>2. Without({0}) /\ Without({Dot})
    <3>1. ASSUME NEW s, s \cap {0, Dot} = {} PROVE s \cap {0} = {} /\ s \cap {Dot} = {}
      BY <3>1
    <3>2. QED
      BY <2>1, <3>1 DEF Without
  <2>3. WalkInv /\ labels \in Seq(Piece) /\ labels # <<>> /\ ZeroAt(body, pos)
    BY <2>1, <2>2 DEF PieceInv, NameRead
  <2>4. labels \in Seq(Solid)
    BY <2>1, <2>2, PiecesAreSolid
  <2>5. domain = Join(labels) /\ SubSeq(body, 1, pos - 1) = Wired(labels)
    BY <2>3 DEF WalkInv, Walked, Join, Dotted
  <2>6. SubSeq(body, 1, pos) = Wired(labels) \o <<0>>
    <3>1. PICK l \in Nat : l = Len(body) /\ body \in Seq(Octet)
      BY <2>3, WireAssumption, LenIsNat DEF WalkInv, Reading, body
    <3>2. PICK p \in 1..l : p = pos /\ body[p] = 0
      BY <2>3, <3>1 DEF ZeroAt
    <3>3. 1 \in 1..l /\ p \in 1..l
      BY <3>2
    <3>4. SubSeq(body, 1, p) = SubSeq(body, 1, p - 1) \o <<body[p]>>
      BY <3>1, <3>3, SubSeqRecursiveSecond
    <3>5. QED
      BY <2>5, <3>2, <3>4
  <2>7. owner = Wired(lowers(labels)) \o <<0>>
    BY <2>1, <2>3, <2>6, NameLowered DEF IsNameOf
  <2>8. encode_domain_name(domain) = Wired(lowers(labels)) \o <<0>>
    BY <2>3, <2>4, <2>5, NameEncoded
  <2>9. PICK small \in Seq(Piece) : small = lowers(labels) /\ Len(small) = Len(labels)
    BY <2>3, LowersPieces
  <2>10. label_count(owner) = Min({255, Len(small)})
    BY <2>7, <2>9, LabelsCounted DEF IsNameOf
  <2>11. QED
    BY <2>7, <2>8, <2>9, <2>10
<1>2. QED
  BY <1>1, InitPieces, StepPieces, PTL DEF Spec

=============================================================================
