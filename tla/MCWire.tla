------------------------------- MODULE MCWire -------------------------------
(* Instances of Wire for TLC.  ASCII is scaled down: the dot is 2, "A" and  *)
(* "a" are 3 and 4, "V" and "v" are 7 and 5, so that lengths are letters.   *)
EXTENDS Wire

TheDot   == 2
Case     == [o \in 0..255 |-> CASE o = 3 -> 4 [] o = 7 -> 5 [] OTHER -> o]
Invalid  == {9} \cup 128..255
Zones    == {<<4>>, <<3, 2, 4>>, <<4, 2>>, <<2>>}
TwoLabels == {<<3, 2, 4>>}
Versions == {<<5>>}

Record(short, opcode, qdcount, arcount, octets, meant) ==
  [short |-> short, opcode |-> opcode, qdcount |-> qdcount, arcount |-> arcount,
   body |-> octets, meant |-> meant]

(* Queries as resolvers make them. *)
Names     == SeqOf({<<4>>, <<3>>, <<7>>, <<6, 3, 4>>}, 3) \ {<<>>}
Options   == [size : {<<0, 0>>, <<4, 208>>, <<16, 0>>}, do : BOOLEAN]
Meanings  == [labels : Names, qtype : {<<0, 1>>, <<0, 255>>, <<1, 16>>},
              qclass : {<<0, 1>>, <<1, 1>>}, opt : Options \cup {None}]
Legal     ==
  {Record(FALSE, opcode, 1, IF m.opt = None THEN 0 ELSE 1, QueryOctets(m), m)
     : opcode \in {0, 4}, m \in Meanings}

(* Arbitrary octets before what may be the end of a question and an OPT. *)
Opt      == OptOctets([size |-> <<4, 208>>, do |-> TRUE])
End      == <<0, 0, 1, 0, 1>>
Tails    == {<<>>, End, End \o Opt, End \o Front(Opt), <<0, 0, 1, 0>>, <<0, 0, 1, 0, 3>>,
             <<3, 1>> \o End}
Starts == SeqOf({0, 1, 2, 3, 4, 9}, 4)
Junk     == {Record(FALSE, 0, 1, 1, prefix \o tail, None) : prefix \in Starts, tail \in Tails}
Headers  == {Record(short, opcode, qdcount, arcount, IF short THEN <<>> ELSE octets, None)
               : short \in BOOLEAN, opcode \in {0, 5}, qdcount \in 0..2, arcount \in 0..1,
                 octets \in {<<>>, <<1, 4>> \o End, <<1, 4>> \o End \o Opt}}

Queries == Legal \cup Junk \cup Headers
=============================================================================
