----------------------------- MODULE Responder -----------------------------
(***************************************************************************)
(* How the server answers a query: the dispatch of src/dns/query.rs and    *)
(* the answers src/dns/response.rs builds, seen by a resolver that asks    *)
(* over UDP, asks again over TCP when the answer was truncated, and puts   *)
(* what it was told in different answers together.                         *)
(***************************************************************************)
EXTENDS Message, FiniteSets

CONSTANTS
  InZone,     \* the names that is_in_zone places in the zone
  Version,    \* the names version, ver and v
  Dmarc,      \* _dmarc.<zone>
  Address,    \* per name: what interpret_ip makes of it, [v4, v6]
  Env,        \* the environments the server may be started in
  Blank,      \* an item of NS_NAMES that is empty once trimmed
  Query,      \* the queries considered
  MaxAsks     \* bound: how many questions the resolver asks

(* Addresses, texts and times are numbers. *)
Maybe == Nat \cup {None}

Environment ==
  [ns_names : Seq(Name \cup {Blank}), soa_name : Name, hostmaster : Name, serial : Nat,
   minimum : Nat, glue_ip : Nat, glue_ip6 : Maybe, spf : Maybe, dmarc : Maybe,
   version : Nat, dnssec : BOOLEAN]

ASSUME ResponderAssumption ==
  /\ Apex \in InZone
  /\ Dmarc \in InZone
  /\ InZone \subseteq Name
  /\ Dmarc # Apex
  /\ Version \subseteq Name
  /\ Blank \notin Name
  /\ MaxAsks \in Nat
  /\ None \notin Nat /\ None # "NOERROR"
  /\ Address \in [Name -> [v4 : Maybe, v6 : Maybe]]
  /\ Env \subseteq Environment
  /\ Query \subseteq [name : Name, qtype : Nat, size : Maybe, do : BOOLEAN,
                     kind : {"opcode", "unreadable", "class", "query"}]

VARIABLES
  params,   \* the configuration the server was started with
  query,    \* the question last asked
  reply,    \* the answer to it
  via,      \* the transport it came over
  before,   \* the answer to the question before it
  asks      \* how many questions were asked

vars == <<params, query, reply, via, before, asks>>

-----------------------------------------------------------------------------
(* The configuration: Config::from_env and zone_params.  An environment    *)
(* whose values do not parse stops the server before it listens.           *)

parse_ns_names(raw, soa_name) ==
  LET names == FlattenSeq([k \in DOMAIN raw |-> IF raw[k] = Blank THEN <<>> ELSE <<raw[k]>>])
  IN
  IF names = <<>> THEN <<soa_name>> ELSE names

from_env(env) == [env EXCEPT !.ns_names = parse_ns_names(@, env.soa_name)]

-----------------------------------------------------------------------------
(* Answers.  Each is the message its build_ function returns. *)

sign(q) == params.dnssec /\ q.do

NoRecords == <<>>

(* The SOA of a negative answer belongs to the apex, its NSEC to the QNAME. *)
nodata(q, existing) ==
  Finish(q, sign(q),
    <<NoRecords,
      <<Soa(Apex, FALSE, params)>> \o
        (IF sign(q) THEN <<Nsec(q.name, existing, params.minimum)>> ELSE <<>>),
      NoRecords>>)

build_txt_response(q, text) ==
  Finish(q, sign(q), <<<<Txt(q.name, text)>>, NoRecords, NoRecords>>)

(* The records of an option that may be absent. *)
Optional(option, record) == IF option = None THEN <<>> ELSE <<record>>

FaultyApexTypes ==
  {TYPE_SOA, TYPE_NS, TYPE_A, TYPE_AAAA}
    \cup (IF params.spf # None THEN {TYPE_TXT} ELSE {})
    \cup (IF params.dnssec THEN {TYPE_DNSKEY, TYPE_CDS, TYPE_CDNSKEY} ELSE {})

apex_types ==
  {TYPE_SOA, TYPE_NS, TYPE_A}
    \cup (IF params.glue_ip6 # None THEN {TYPE_AAAA} ELSE {})
    \cup (IF params.spf # None THEN {TYPE_TXT} ELSE {})
    \cup (IF params.dnssec THEN {TYPE_DNSKEY, TYPE_CDS, TYPE_CDNSKEY} ELSE {})

ns_set(q) == [k \in DOMAIN params.ns_names |-> Ns(q.name, params.ns_names[k])]

(* The addresses of the name servers that lie in the zone. *)
in_bailiwick_glue ==
  FlattenSeq([k \in DOMAIN params.ns_names |->
    LET ns == params.ns_names[k] IN
    IF ns \in InZone
    THEN <<A(ns, FALSE, params.glue_ip)>>
           \o Optional(params.glue_ip6, Aaaa(ns, FALSE, params.glue_ip6))
    ELSE <<>>])

(* The answer section at the apex, empty when the type does not exist. *)
ApexAnswer(q) ==
  LET soa     == <<Soa(q.name, TRUE, params)>>
      a       == <<A(q.name, TRUE, params.glue_ip)>>
      aaaa    == Optional(params.glue_ip6, Aaaa(q.name, TRUE, params.glue_ip6))
      txt     == Optional(params.spf, Txt(q.name, params.spf))
      Key(rr) == IF params.dnssec THEN <<rr>> ELSE <<>>
  IN
  CASE q.qtype = TYPE_SOA     -> soa
    [] q.qtype = TYPE_NS      -> ns_set(q)
    [] q.qtype = TYPE_A       -> a
    [] q.qtype = TYPE_AAAA    -> aaaa
    [] q.qtype = TYPE_TXT     -> txt
    [] q.qtype = TYPE_DNSKEY  -> Key(Dnskey(q.name))
    [] q.qtype = TYPE_CDS     -> Key(Cds(q.name))
    [] q.qtype = TYPE_CDNSKEY -> Key(Cdnskey(q.name))
    [] q.qtype = TYPE_NSEC    -> Key(Nsec(q.name, apex_types, params.minimum))
    [] q.qtype = TYPE_ANY     -> soa \o ns_set(q) \o a \o aaaa \o txt
                                   \o Key(Dnskey(q.name)) \o Key(Cds(q.name))
                                   \o Key(Cdnskey(q.name))
    [] OTHER                  -> <<>>

build_apex_response(q) ==
  IF ApexAnswer(q) = <<>>
  THEN nodata(q, apex_types)
  ELSE Finish(q, sign(q),
         <<ApexAnswer(q),
           IF q.qtype = TYPE_SOA THEN ns_set(q) ELSE <<>>,
           IF q.qtype \in {TYPE_SOA, TYPE_NS, TYPE_ANY} THEN in_bailiwick_glue ELSE <<>>>>)

address_types(ip) ==
  (IF ip.v4 # None THEN {TYPE_A} ELSE {}) \cup (IF ip.v6 # None THEN {TYPE_AAAA} ELSE {})

build_address_response(q, ip) ==
  LET a    == IF q.qtype \in {TYPE_A, TYPE_ANY}
              THEN Optional(ip.v4, A(q.name, TRUE, ip.v4)) ELSE <<>>
      aaaa == IF q.qtype \in {TYPE_AAAA, TYPE_ANY}
              THEN Optional(ip.v6, Aaaa(q.name, TRUE, ip.v6)) ELSE <<>>
  IN
  IF a \o aaaa = <<>>
  THEN nodata(q, address_types(ip))
  ELSE Finish(q, sign(q), <<a \o aaaa, NoRecords, NoRecords>>)

FaultyConfiguredNs(name) == name = params.soa_name

is_configured_ns(name) == name \in ToSet(params.ns_names) \cup {params.soa_name}

(* A name that holds one text and nothing else. *)
TextOnly(q, text) ==
  IF q.qtype \in {TYPE_TXT, TYPE_ANY} THEN build_txt_response(q, text)
  ELSE nodata(q, {TYPE_TXT})

(* A version name outside the zone has a text and refuses everything else. *)
version_response(q) ==
  IF q.qtype \in {TYPE_TXT, TYPE_ANY} \/ q.name \in InZone
  THEN TextOnly(q, params.version)
  ELSE error_response(q, "REFUSED")

glue == [v4 |-> params.glue_ip, v6 |-> params.glue_ip6]

NoAddress == [v4 |-> None, v6 |-> None]

FaultyHost(q) ==
  CASE Address[q.name] # NoAddress -> build_address_response(q, Address[q.name])
    [] Address[q.name] = NoAddress /\ is_configured_ns(q.name) ->
         build_address_response(q, glue)
    [] OTHER -> nodata(q, {})

(* A name server's own name comes before what its labels might spell. *)
Host(q) ==
  CASE is_configured_ns(q.name) -> build_address_response(q, glue)
    [] ~is_configured_ns(q.name) /\ Address[q.name] # NoAddress ->
         build_address_response(q, Address[q.name])
    [] OTHER -> nodata(q, {})

(* A readable query of class IN, by name. *)
ByName(q) ==
  IF q.name \in Version
  THEN version_response(q)
  ELSE CASE q.name \notin InZone -> error_response(q, "REFUSED")
         [] q.name = Dmarc /\ params.dmarc # None -> TextOnly(q, params.dmarc)
         [] q.name = Apex -> build_apex_response(q)
         [] OTHER -> Host(q)

handle_query_internal(q) ==
  CASE q.kind = "opcode"     -> error_response(q, "NOTIMP")
    [] q.kind = "unreadable" -> Silence(q)
    [] q.kind = "class"      -> error_response(q, "REFUSED")
    [] q.kind = "query"      -> ByName(q)

-----------------------------------------------------------------------------
Init ==
  /\ params \in {from_env(env) : env \in Env}
  /\ query = None
  /\ reply = None
  /\ via = "udp"
  /\ before = None
  /\ asks = 0

(* handle_query: the resolver asks over UDP, unless it has to ask again.    *)
(* An empty response is not sent; it has no octets to truncate either.     *)
Ask(q) ==
  /\ asks < MaxAsks
  /\ reply # None => ~reply.tc
  /\ asks' = asks + 1
  /\ query' = q
  /\ reply' = maybe_truncate_udp(handle_query_internal(q), q)
  /\ via' = "udp"
  /\ before' = reply
  /\ UNCHANGED params

(* The resolver saw TC and repeats the question over TCP. *)
Retry ==
  /\ reply # None /\ reply.tc
  /\ reply' = handle_query_internal(query)
  /\ via' = "tcp"
  /\ UNCHANGED <<params, query, before, asks>>

Next == Retry \/ \E q \in Query : Ask(q)

Spec == Init /\ [][Next]_vars

-----------------------------------------------------------------------------
Replies  == {before, reply} \ {None}
Sections(msg) == <<msg.answers, msg.authority, msg.additional>>

(* The record sets of a section, as a resolver caches them. *)
Rrsets(rrs) ==
  {[owner |-> r.owner, typ |-> r.typ, ttl |-> r.ttl,
    datas |-> {s.data : s \in {s \in ToSet(rrs) : s.owner = r.owner /\ s.typ = r.typ}}]
     : r \in {r \in ToSet(rrs) : r.typ # TYPE_RRSIG}}

Learned(msg) == UNION {Rrsets(Sections(msg)[s]) : s \in 1..3}

(* msg proves that its name has no record of the type asked for. *)
Denies(msg) == msg.rcode = "NOERROR" /\ msg.answers = <<>> /\ ~msg.tc

(* Whatever two answers, sections and transports a record set is learned   *)
(* from, a resolver learns the same records with the same TTL: glue agrees *)
(* with the name server's own addresses, and an NSEC with every other one. *)
AnswersAgree ==
  \A m, n \in Replies : \A x \in Learned(m), y \in Learned(n) :
    x.owner = y.owner /\ x.typ = y.typ => x = y

(* No type that one answer denies for a name is served for that name by    *)
(* another, be it as an answer, as an authority or as glue.  A query for   *)
(* NSEC is left out: below the apex it is denied with an NSEC.             *)
NoContradiction ==
  \A m, n \in Replies :
    Denies(m) /\ m.qtype # TYPE_NSEC =>
      \A x \in Learned(n) : ~(x.owner = m.name /\ x.typ = m.qtype)

(* The types an NSEC lists for a name are those its answers have: what it  *)
(* omits is not served, and what it lists is not denied (but for the types *)
(* of the proof itself).                                                   *)
ProofsAreTrue ==
  \A m, n \in Replies : \A x \in Learned(m) :
    x.typ = TYPE_NSEC =>
      \A types \in x.datas :
        /\ \A y \in Learned(n) : y.owner = x.owner => y.typ \in types
        /\ Denies(n) /\ n.name = x.owner => n.qtype \notin types \ {TYPE_NSEC, TYPE_RRSIG}

(* The data of a record set in canonical order, each once. *)
Canonical(data, datas) ==
  ToSet(data) = datas /\ \A j, k \in DOMAIN data : j < k => data[j] < data[k]

(* The signature of a record set covers the set as a validator sees it:    *)
(* all its records in the section, each once, in canonical order.          *)
Validates(rrs, x) ==
  \E s \in ToSet(rrs) :
    /\ s.typ = TYPE_RRSIG /\ s.owner = x.owner
    /\ s.data[1] = x.typ /\ s.data[2] = x.ttl /\ Canonical(s.data[3], x.datas)

(* To a query with DO, a signing server signs every record set it sends.   *)
SignaturesValidate ==
  reply # None /\ params.dnssec /\ query.do =>
    \A s \in 1..3 : \A x \in Rrsets(Sections(reply)[s]) :
      Validates(Sections(reply)[s], x)

(* A UDP answer is within the client's limit, or is nothing but a question *)
(* that was longer already.  It is either complete or marked as truncated  *)
(* and empty, so that no resolver ever keeps a part of an answer for the   *)
(* whole; a TCP answer is never marked.                                    *)
CompleteOrTruncated ==
  reply # None =>
    /\ via = "udp" => \/ MessageLen(reply) <= udp_response_limit(query)
                      \/ reply = Bare(reply, None)
    /\ via = "tcp" => ~reply.tc
    /\ IF reply.tc THEN Learned(reply) = {} ELSE reply = handle_query_internal(query)

(* A reply is one the server can send: only NOERROR answers, those of the   *)
(* zone and the version text, claim authority or carry records.            *)
TypeOK ==
  /\ params.ns_names \in Seq(Name) /\ params.ns_names # <<>>
  /\ query \in Query \cup {None}
  /\ via \in {"udp", "tcp"}
  /\ asks \in 0..MaxAsks
  /\ \A m \in Replies :
       /\ m.rcode \in {"NOERROR", "REFUSED", "NOTIMP", None}
       /\ m.rcode # "NOERROR" => Learned(m) = {} /\ ~m.aa
=============================================================================
