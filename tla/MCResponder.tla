---------------------------- MODULE MCResponder ----------------------------
(* Instances of Responder for TLC.  The names stand for the kinds of name  *)
(* the server tells apart; wire lengths are those of a zone like           *)
(* "example.com", the ranks put ns2 before ns1.                            *)
EXTENDS Responder

CONSTANTS
  apex, dmarc, ns1, ns2, far, ipns, v4name, dual, plain, version, outside,
  long, huge, blank

Short   == {apex, dmarc, ns1, ns2, far, ipns, v4name, dual, plain, version, outside}
Names   == Short \cup {long, huge}
Zone    == {apex, dmarc, ns1, ns2, ipns, v4name, dual, plain, long, huge}
VersionNames == {version}

(* The last two are longer than DNS allows; parse_query takes them: with    *)
(* one a question leaves no room for an OPT, with the other for nothing.   *)
Lengths ==
  [n \in Names |-> CASE n = apex -> 13 [] n = version -> 9 [] n = long -> 490
                     [] n = huge -> 600 [] OTHER -> 17]

Ranks ==
  [n \in Names |-> CASE n = ns1 -> 5 [] n = ns2 -> 4 [] n = far -> 3 [] n = ipns -> 2
                     [] OTHER -> 1]

Parsed ==
  [n \in Names |->
     CASE n \in {ipns, v4name} -> [v4 |-> 1, v6 |-> None]
       [] n = dual -> [v4 |-> 1, v6 |-> 1]
       [] OTHER -> NoAddress]

Base ==
  [ns_names |-> <<ns1, ns2>>, soa_name |-> ns1, hostmaster |-> outside, serial |-> 1,
   minimum |-> 3600, glue_ip |-> 7, glue_ip6 |-> 8, spf |-> 11, dmarc |-> 18,
   version |-> 17, dnssec |-> TRUE]

(* Every optional record present and absent, with keys and without, and    *)
(* name servers inside, outside and at the apex of the zone, none twice.   *)
Envs ==
  {Base,
   [Base EXCEPT !.dnssec = FALSE],
   [Base EXCEPT !.ns_names = <<blank>>, !.glue_ip6 = None, !.spf = None, !.dmarc = None],
   [Base EXCEPT !.ns_names = <<ns1, far, ipns>>, !.soa_name = ns2],
   [Base EXCEPT !.ns_names = <<apex, blank>>, !.soa_name = far, !.glue_ip6 = None]}

Types == {TYPE_A, TYPE_NS, TYPE_SOA, TYPE_TXT, TYPE_AAAA, TYPE_RRSIG, TYPE_NSEC,
          TYPE_DNSKEY, TYPE_CDS, TYPE_CDNSKEY, TYPE_ANY}

Plain == [name : Short, qtype : Types, kind : {"query"}, size : {None}, do : {FALSE}]

Edns == [name : Short, qtype : Types, kind : {"query"}, size : {512, 4096}, do : {TRUE}]

Odd == [name : {apex, huge}, qtype : {TYPE_A}, kind : {"opcode", "unreadable", "class"},
        size : {None, 4096}, do : {FALSE}]

Long == [name : {long, huge}, qtype : {TYPE_A}, kind : {"query"},
         size : {None, 512, 4096}, do : {FALSE}]

Queries == Plain \cup Edns \cup Odd \cup Long
=============================================================================
