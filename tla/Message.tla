------------------------------ MODULE Message ------------------------------
(***************************************************************************)
(* The DNS messages of src/dns/response.rs: resource records, the sections *)
(* they are emitted in, the signatures over them, and the wire lengths     *)
(* that decide on truncation.                                              *)
(*                                                                         *)
(* A name is an equivalence class under names_eq (case and trailing dot).  *)
(* RDATA that names or addresses something is the natural number that      *)
(* ranks its bytes in canonical order; lengths are exact, in octets.  A    *)
(* text is its length, and of a long one only the beginning is sent.       *)
(***************************************************************************)
EXTENDS Naturals, Sequences, SequencesExt

CONSTANTS
  Name,      \* the names a query, a config or an owner can have
  Apex,      \* the zone: GLUE_NAME
  WireLen,   \* per name: the length of its wire form
  Rank,      \* per name: the rank of its wire form in canonical order
  None       \* an absent address, text, option or message

ASSUME MessageAssumption ==
  /\ Apex \in Name
  /\ WireLen \in [Name -> Nat]
  /\ Rank \in [Name -> Nat]

TYPE_A       == 1
TYPE_NS      == 2
TYPE_SOA     == 6
TYPE_TXT     == 16
TYPE_AAAA    == 28
TYPE_RRSIG   == 46
TYPE_NSEC    == 47
TYPE_DNSKEY  == 48
TYPE_CDS     == 59
TYPE_CDNSKEY == 60
TYPE_ANY     == 255

TTL_SOA == 3600
TTL_RR  == 60

DEFAULT_UDP_SIZE == 512
EDNS_UDP_SIZE    == 1232

Largest(S) == CHOOSE n \in S : \A m \in S : m <= n
Smaller(m, n) == IF m <= n THEN m ELSE n

-----------------------------------------------------------------------------
(* Resource records.  question says that the owner is a pointer to the     *)
(* QNAME, len is the length of the RDATA.                                  *)

Rr(owner, question, typ, ttl, data, len) ==
  [owner |-> owner, question |-> question, typ |-> typ, ttl |-> ttl,
   data |-> data, len |-> len]

A(owner, question, ip)    == Rr(owner, question, TYPE_A, TTL_RR, ip, 4)
Aaaa(owner, question, ip) == Rr(owner, question, TYPE_AAAA, TTL_RR, ip, 16)
Ns(owner, target)  == Rr(owner, TRUE, TYPE_NS, TTL_RR, Rank[target], WireLen[target])
Txt(owner, text)   ==
  Rr(owner, TRUE, TYPE_TXT, TTL_RR, Smaller(text, 255), Smaller(text, 255) + 1)
Soa(owner, question, params) ==
  Rr(owner, question, TYPE_SOA, TTL_SOA, params.serial,
     WireLen[params.soa_name] + WireLen[params.hostmaster] + 20)
Dnskey(owner)  == Rr(owner, TRUE, TYPE_DNSKEY, TTL_SOA, 0, 68)
Cds(owner)     == Rr(owner, TRUE, TYPE_CDS, TTL_SOA, 0, 36)
Cdnskey(owner) == Rr(owner, TRUE, TYPE_CDNSKEY, TTL_SOA, 0, 68)

(* The types of an NSEC's owner, and of the NSEC and RRSIG made for it. *)
nsec_types(existing) == existing \cup {TYPE_NSEC, TYPE_RRSIG}

(* One window block suffices for types below 256. *)
BitmapLen(types) == 2 + Largest(types) \div 8 + 1

Nsec(owner, existing, ttl) ==
  Rr(owner, TRUE, TYPE_NSEC, ttl, nsec_types(existing),
     2 + WireLen[owner] + BitmapLen(nsec_types(existing)))

(* A signature is over a type, its TTL and the RDATA in the order emitted. *)
Rrsig(group) ==
  LET first == Head(group) IN
  Rr(first.owner, first.question, TYPE_RRSIG, first.ttl,
     <<first.typ, first.ttl, [k \in DOMAIN group |-> group[k].data]>>,
     18 + WireLen[Apex] + 64)

-----------------------------------------------------------------------------
(* emit_section: neighbours of one owner and type make a group, a group is *)
(* sorted by its RDATA and, if the answer is signed, followed by its RRSIG *)

SameSet(r, s) == r.owner = s.owner /\ r.question = s.question /\ r.typ = s.typ

Grow(groups, r) ==
  IF groups # <<>> /\ SameSet(Head(Last(groups)), r)
  THEN Append(Front(groups), Append(Last(groups), r))
  ELSE Append(groups, <<r>>)

Grouped(rrs) == FoldLeft(Grow, <<>>, rrs)

FaultySorted(group) == group

(* p arranges the records of a group by their data. *)
Ascends(group, p) ==
  \A j, k \in DOMAIN group : j < k => group[p[j]].data <= group[p[k]].data

Sorted(group) ==
  LET order == CHOOSE p \in Bijection(DOMAIN group, DOMAIN group) : Ascends(group, p)
  IN [k \in DOMAIN group |-> group[order[k]]]

Emit(rrs, sign) ==
  LET groups == Grouped(rrs) IN
  FlattenSeq([k \in DOMAIN groups |->
                LET group == Sorted(groups[k]) IN
                IF sign /\ Head(group).typ # TYPE_RRSIG
                THEN Append(group, Rrsig(group))
                ELSE group])

-----------------------------------------------------------------------------
(* Messages.  q is the query, opt the OPT record with its DO bit, or None. *)

Message(q, rcode, aa, sections, opt) ==
  [name |-> q.name, qtype |-> q.qtype, rcode |-> rcode, aa |-> aa, tc |-> FALSE,
   opt |-> opt,
   answers |-> sections[1], authority |-> sections[2], additional |-> sections[3]]

Empty == <<<<>>, <<>>, <<>>>>

(* Nothing at all is sent. *)
Silence(q) == Message(q, None, FALSE, Empty, None)

(* maybe_append_opt: an OPT answers an OPT.  size is None without one. *)
Opt(q, dnssec_ok) == IF q.size = None THEN None ELSE [do |-> dnssec_ok]

(* Msg::finish of a positive or negative answer. *)
Finish(q, sign, sections) ==
  Message(q, "NOERROR", TRUE, [s \in 1..3 |-> Emit(sections[s], sign)], Opt(q, sign))

FaultyError(q, rcode) == Message(q, rcode, TRUE, Empty, Opt(q, FALSE))

error_response(q, rcode) == Message(q, rcode, FALSE, Empty, Opt(q, FALSE))

RrLen(r) == (IF r.question THEN 2 ELSE WireLen[r.owner]) + 10 + r.len

SectionLen(rrs) == FoldLeft(LAMBDA n, r : n + RrLen(r), 0, rrs)

MessageLen(msg) ==
  IF msg.rcode = None THEN 0
  ELSE 12 + WireLen[msg.name] + 4
          + SectionLen(msg.answers) + SectionLen(msg.authority) + SectionLen(msg.additional)
          + (IF msg.opt = None THEN 0 ELSE 11)

(* The client's UDP payload size, at least 512 and at most ours. *)
udp_response_limit(q) ==
  IF q.size = None THEN DEFAULT_UDP_SIZE
  ELSE Smaller(IF q.size < 512 THEN 512 ELSE q.size, EDNS_UDP_SIZE)

Bare(msg, opt) ==
  [msg EXCEPT !.tc = TRUE, !.answers = <<>>, !.authority = <<>>, !.additional = <<>>,
              !.opt = opt]

FaultyTruncate(msg, q) ==
  IF MessageLen(msg) <= udp_response_limit(q) THEN msg
  ELSE [msg EXCEPT !.authority = <<>>, !.additional = <<>>]

(* Too long for UDP: header with TC, question, and OPT if that still fits. *)
maybe_truncate_udp(msg, q) ==
  IF MessageLen(msg) <= udp_response_limit(q) THEN msg
  ELSE IF MessageLen(Bare(msg, Opt(q, FALSE))) <= udp_response_limit(q)
  THEN Bare(msg, Opt(q, FALSE))
  ELSE Bare(msg, None)
=============================================================================
