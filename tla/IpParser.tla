------------------------------ MODULE IpParser ------------------------------
(***************************************************************************)
(* interpret_ip of src/dns/ip_parser.rs: the addresses spelled by a name.  *)
(*                                                                         *)
(* A name is a sequence of labels and a label the sequence of the tokens   *)
(* between its hyphens.  What the parsers can tell of a token is kept:     *)
(*   "hex16"  one to four hexadecimal digits: their value and number,      *)
(*   "hex32"  eight of them: the four octets they make,                    *)
(*   "gap"    nothing, as between two hyphens,                             *)
(*   "word"   anything else.                                               *)
(***************************************************************************)
EXTENDS Integers, Sequences, FiniteSets, SequencesExt

CONSTANTS
  V4,     \* IPv4 addresses people encode: sequences of 4 octets
  V6,     \* IPv6 addresses people encode: sequences of 8 groups
  Zone,   \* the labels of the zone
  None    \* no address

ASSUME IpParserAssumption ==
  /\ \A ip \in V4 : ip \in [1..4 -> 0..255]
  /\ \A ip \in V6 : ip \in [1..8 -> 0..65535]

VARIABLES
  parts,  \* the labels of the name
  next,   \* the label the loop looks at next
  ipv4,   \* the IPv4 address found
  ipv6,   \* the IPv6 address found
  done,   \* interpret_ip has returned
  meant   \* history: the addresses the name was made from

vars == <<parts, next, ipv4, ipv6, done, meant>>

-----------------------------------------------------------------------------
Word == [kind |-> "word"]
Gap  == [kind |-> "gap"]

Hex16(value, size) == [kind |-> "hex16", value |-> value, size |-> size]
Hex32(octets)      == [kind |-> "hex32", octets |-> octets]

(* The k-th hexadecimal digit from the right, and the reading as decimal. *)
Digit(t, k) == (t.value \div (16^k)) % 16

Decimal(t) ==
  Digit(t, 0) + 10 * Digit(t, 1) + 100 * Digit(t, 2) + 1000 * Digit(t, 3)

FaultyIsOctet(t) ==
  /\ t.kind = "hex16"
  /\ \A k \in 0..t.size - 1 : Digit(t, k) <= 9
  /\ t.size > 1 => Digit(t, t.size - 1) # 0

(* Accepted by Ipv4Addr::from_str as one of four parts: a decimal octet    *)
(* without leading zero.  Every such token also parses as u8.              *)
IsOctet(t) ==
  /\ t.kind = "hex16"
  /\ \A k \in 0..t.size - 1 : Digit(t, k) <= 9
  /\ t.size > 1 => Digit(t, t.size - 1) # 0
  /\ Decimal(t) <= 255

(* The first of the places where a run of four begins, or 0. *)
FirstFour(places) ==
  LET begins == {i \in places : i..i + 3 \subseteq places} IN
  IF begins = {} THEN 0 ELSE CHOOSE i \in begins : \A j \in begins : i <= j

OctetsOf(label) == {k \in DOMAIN label : IsOctet(label[k])}

FaultyHyphenatedIp(label) ==
  LET i    == FirstFour(OctetsOf(label))
      hexs == SelectSeq(label, LAMBDA t : t.kind = "hex32")
  IN
  IF i = 1 THEN [k \in 1..4 |-> Decimal(label[i + k - 1])]
  ELSE IF hexs # <<>> THEN Head(hexs).octets
  ELSE None

(* Four neighbouring octets, or else the first run of eight hex digits. *)
parse_hyphenated_ip(label) ==
  LET i    == FirstFour(OctetsOf(label))
      hexs == SelectSeq(label, LAMBDA t : t.kind = "hex32")
  IN
  IF i > 0 THEN [k \in 1..4 |-> Decimal(label[i + k - 1])]
  ELSE IF hexs # <<>> THEN Head(hexs).octets
  ELSE None

parse_label_ipv4(label) ==
  IF Len(label) = 1 /\ label[1].kind = "hex32" THEN label[1].octets
  ELSE parse_hyphenated_ip(label)

(* Four neighbouring labels that are octets. *)
parse_dotted_ipv4(labels) ==
  LET i == FirstFour({k \in DOMAIN labels : Len(labels[k]) = 1 /\ IsOctet(labels[k][1])}) IN
  IF i > 0 THEN [k \in 1..4 |-> Decimal(labels[i + k - 1][1])] ELSE None

GapsOf(label)   == {k \in DOMAIN label : label[k].kind = "gap"}
GroupsOf(label) == SelectSeq(label, LAMBDA t : t.kind = "hex16")

(* The gaps of a label whose hyphens, read as colons, make one "::": two   *)
(* at an end of the text, one inside it, three when there is nothing else. *)
OneElision(label) ==
  LET n == Len(label) IN
  \/ \E k \in 2..n - 1 : GapsOf(label) = {k}
  \/ n >= 3 /\ GapsOf(label) \in {{1, 2}, {n - 1, n}}
  \/ n = 3 /\ GapsOf(label) = 1..3

(* Ipv6Addr::from_str of the tokens joined by colons: eight groups, or at  *)
(* most seven around an elision that stands for the missing ones.          *)
Ipv6FromStr(label) ==
  LET groups == GroupsOf(label)
      n      == Len(groups)
      before == IF GapsOf(label) = {} THEN 8
                ELSE (CHOOSE k \in GapsOf(label) : \A j \in GapsOf(label) : k <= j) - 1
  IN
  IF /\ \A k \in DOMAIN label : label[k].kind \in {"hex16", "gap"}
     /\ \/ GapsOf(label) = {} /\ n = 8
        \/ OneElision(label) /\ n <= 7
  THEN [k \in 1..8 |->
          CASE k <= before -> groups[k].value
            [] k > before /\ k <= 8 - (n - before) -> 0
            [] k > before /\ k > 8 - (n - before) -> groups[k - 8 + n].value]
  ELSE None

(* A label without a hyphen is no IPv6 address. *)
parse_hyphenated_ipv6(label) == IF Len(label) < 2 THEN None ELSE Ipv6FromStr(label)

-----------------------------------------------------------------------------
(* How people write addresses into names: README.md:42 to 60. *)

(* A token for an octet in decimal, for a group in hexadecimal. *)
DecimalToken(n) ==
  Hex16((n \div 100) * 256 + ((n \div 10) % 10) * 16 + (n % 10),
        IF n >= 100 THEN 3 ELSE IF n >= 10 THEN 2 ELSE 1)

GroupToken(n) ==
  Hex16(n, IF n >= 4096 THEN 4 ELSE IF n >= 256 THEN 3 ELSE IF n >= 16 THEN 2 ELSE 1)

(* The labels for an IPv4 address: dotted, hyphenated or hexadecimal, the  *)
(* last two also behind a word in the same label.                          *)
Forms4(ip) ==
  LET dashed == [k \in 1..4 |-> DecimalToken(ip[k])] IN
  {[k \in 1..4 |-> <<DecimalToken(ip[k])>>]}
    \cup {<<words \o dashed>> : words \in {<<>>, <<Word>>, <<Word, Word>>}}
    \cup {<<words \o <<Hex32(ip)>>>> : words \in {<<>>, <<Word>>}}

(* The labels for an IPv6 address: in full, or with a run of zero groups   *)
(* from i to j left out.                                                   *)
Forms6(ip) ==
  LET full == [k \in 1..8 |-> GroupToken(ip[k])]
      Elided(i, j) ==
        (IF i = 1 THEN <<Gap>> ELSE SubSeq(full, 1, i - 1)) \o <<Gap>>
          \o (IF j = 8 THEN <<Gap>> ELSE SubSeq(full, j + 1, 8))
  IN
  {<<full>>} \cup
    {<<Elided(ij[1], ij[2])>> :
       ij \in {ij \in (1..8) \X (1..8) :
                 ij[1] <= ij[2] /\ \A k \in ij[1]..ij[2] : ip[k] = 0}}

(* Names that were made from at most one address of each family. *)
Init ==
  /\ \E ip4 \in V4 \cup {None}, ip6 \in V6 \cup {None} :
       \E four \in IF ip4 = None THEN {<<>>} ELSE Forms4(ip4),
          six \in IF ip6 = None THEN {<<>>} ELSE Forms6(ip6),
          app \in {<<>>, <<<<Word>>>>, <<<<Word, Word>>>>} :
         /\ meant = [v4 |-> ip4, v6 |-> ip6]
         /\ parts \in {app \o four \o six \o Zone, app \o six \o four \o Zone}
  /\ next = 1
  /\ ipv4 = None /\ ipv6 = None
  /\ done = FALSE

-----------------------------------------------------------------------------
(* The loop looks at a label for the families it still misses. *)
Label ==
  /\ ~done /\ next <= Len(parts)
  /\ ipv4 = None \/ ipv6 = None
  /\ ipv4' = IF ipv4 = None THEN parse_label_ipv4(parts[next]) ELSE ipv4
  /\ ipv6' = IF ipv6 = None THEN parse_hyphenated_ipv6(parts[next]) ELSE ipv6
  /\ next' = next + 1
  /\ UNCHANGED <<parts, done, meant>>

(* The loop is over; an IPv4 address may still be spelled across labels. *)
Return ==
  /\ ~done
  /\ next > Len(parts) \/ (ipv4 # None /\ ipv6 # None)
  /\ ipv4' = IF ipv4 = None THEN parse_dotted_ipv4(parts) ELSE ipv4
  /\ done' = TRUE
  /\ UNCHANGED <<parts, next, ipv6, meant>>

Next == Label \/ Return

Spec == Init /\ [][Next]_vars

-----------------------------------------------------------------------------
TypeOK ==
  /\ next \in 1..Len(parts) + 1
  /\ ipv4 # None => ipv4 \in [1..4 -> 0..255]
  /\ ipv6 # None => ipv6 \in [1..8 -> 0..65535]
  /\ done \in BOOLEAN

(* A label of the name that spells an address of both families. *)
Ambiguous == \E k \in DOMAIN parts :
  parse_label_ipv4(parts[k]) # None /\ parse_hyphenated_ipv6(parts[k]) # None

(* A name made by the rules of the README resolves to the addresses it was *)
(* made from, in whichever notation, order and company of other labels,    *)
(* and to nothing else, unless one of its labels is ambiguous.             *)
NamesMeanTheirAddresses ==
  done /\ ~Ambiguous => ipv4 = meant.v4 /\ ipv6 = meant.v6

(* "Dual-stack hostnames use separate labels for each family"              *)
(* (ip_parser.rs:5): a name made from an address of one family yields none *)
(* of the other.                                                           *)
OneFamilyPerLabel ==
  /\ meant.v4 = None => ipv4 = None
  /\ meant.v6 = None => ipv6 = None
=============================================================================
