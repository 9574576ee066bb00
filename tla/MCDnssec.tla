------------------------------ MODULE MCDnssec ------------------------------
(* Instances of Dnssec for TLC: every denial at one time, with one key, and *)
(* one denial at all times, with every key.  The types are those an owner  *)
(* may have, and others at the edges of octets and windows, up to the last *)
(* type there is.  A key is flags, protocol, algorithm and 64 octets of two *)
(* kinds in turn, so that sums with no, one and many carries occur.  An era *)
(* is short.                                                               *)
EXTENDS Dnssec

Subsets ==
  SUBSET {1, 2, 6, 16, 28, 48} \cup {{48, 59, 60} \cup e : e \in SUBSET {1, 2, 6, 16, 28}}
    \cup SUBSET {0, 7, 8, 255, 256, 511, 768, 775, 65280, 65535}

Key(a, b) == <<1, 1, 3, 13>> \o [k \in 1..64 |-> IF k % 2 = 1 THEN a ELSE b]

Keys == {Key(0, 0), Key(0, 255), Key(8, 1), Key(119, 200), Key(255, 255), Key(255, 0)}

Denials ==
  [types : {nsec_types(e) : e \in Subsets} \cup Subsets, rdata : {Key(8, 1)}, time : {MaxTime}]
    \cup [types : {nsec_types({1})}, rdata : Keys, time : {-1, 0}]

(* key_tag_rfc4034_appendix_b_style, dnssec.rs:334. *)
ASSUME TestVector == key_tag(Key(0, 0)) = 1038
=============================================================================
