----------------------------- MODULE MCRollout ------------------------------
(* An instance of Rollout for TLC: three servers, the key that was         *)
(* generated in two forms, one that was not meant for this zone, and every *)
(* kind of value that is no key.                                           *)
EXTENDS Rollout

CONSTANTS s1, s2, s3, k1, k2

Servers == {s1, s2, s3}
Keys    == {k1, k2}

Sec(form, key) == [form |-> form, key |-> key]

Secrets == {Sec("unset", k1), Sec("blank", k1), Sec("hex", k1), Sec("escaped", k1),
            Sec("sec1", k2), Sec("garbled", k1)}
=============================================================================
