--------------------------- MODULE MCRateLimiter ---------------------------
(* Instances of RateLimiter for TLC.  The threads are interchangeable. *)
EXTENDS RateLimiter, TLC

CONSTANTS a, b, c, udp, tcp

OneClient    == {a}
TwoClients   == {a, b}
ThreeClients == {a, b, c}
TwoThreads   == {udp, tcp}
OneThread    == {udp}

Symmetry == Permutations(Thread)
=============================================================================
