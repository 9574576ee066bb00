------------------------------ MODULE MCLookup ------------------------------
(* Instances of Lookup for TLC: a resolver and one other client. *)
EXTENDS Lookup

CONSTANTS a, b

Clients == {a, b}
=============================================================================
