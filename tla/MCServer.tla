------------------------------ MODULE MCServer ------------------------------
(* An instance of Server for TLC: a client with a query and a connection,  *)
(* and another with a connection; a limiter that is on, and one that is    *)
(* off.  The clock has room for the first window and the one after it.     *)
EXTENDS Server

CONSTANTS a, b, q, c1, c2

Clients     == {a, b}
Queries     == {q}
Connections == {c1, c2}
FromA       == {c1}
Sources     == [r \in Request |-> IF r = c2 THEN b ELSE a]
Settings    == BOOLEAN
=============================================================================
