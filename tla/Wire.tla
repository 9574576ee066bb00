-------------------------------- MODULE Wire --------------------------------
(***************************************************************************)
(* The octets of a query and the readers of src/dns/query.rs and           *)
(* src/dns/response.rs that take it apart: parse_query walks the name by   *)
(* its length octets, question_section_end looks for the first zero octet, *)
(* parse_query_opt starts where that one stopped.  Nothing is passed from  *)
(* one to the next, so that each may see a different question.             *)
(*                                                                         *)
(* A query is a header [short, opcode, qdcount, arcount] and the octets    *)
(* after it; short says that not even the header was complete.  What ASCII *)
(* means to an octet is a parameter, so that in a small instance an octet  *)
(* can be a length and a letter at once, as in a long name.                *)
(***************************************************************************)
EXTENDS Integers, Sequences, SequencesExt

CONSTANTS
  Lower,        \* make_ascii_lowercase, on octets
  Dot,          \* the octet of '.'
  NotText,      \* the octets that from_utf8 rejects
  Query,        \* the queries considered
  Zone,         \* the values GLUE_NAME may have, as text
  VersionText,  \* version, ver, v
  None          \* no end, no option, no answer, no meaning

Octet == 0..255

ASSUME WireAssumption ==
  /\ Dot \in Octet \ {0}
  /\ Lower \in [Octet -> Octet]
  /\ \A o \in Octet : Lower[o] = Dot <=> o = Dot
  /\ NotText \subseteq Octet
  /\ Zone \subseteq Seq(Octet)
  /\ \A q \in Query : q.body \in Seq(Octet)
  /\ None \notin Nat

VARIABLES
  query,   \* the query that arrived; its meaning, if it was made from one
  zone,    \* the configured GLUE_NAME
  pc,      \* "header", "labels", "question" or "done"
  pos,     \* parse_query: the octet it reads next, counted after the header
  domain,  \* parse_query: the text read so far
  labels,  \* history: the labels domain was put together from
  reply    \* the answer, None for silence

vars == <<query, zone, pc, pos, domain, labels, reply>>

body == query.body

-----------------------------------------------------------------------------
(* Text: domains and zones, which may end in dots and differ in case. *)

lowercase(text) == [k \in DOMAIN text |-> Lower[text[k]]]
Same(a, b)      == lowercase(a) = lowercase(b)
trim_end(text)  == SubSeq(text, 1, SelectLastInSeq(text, LAMBDA o : o # Dot))

FaultyEndsIn(d, z) == Same(SubSeq(d, Len(d) - Len(z) + 1, Len(d)), z)

(* d is z with more labels in front of it. *)
EndsIn(d, z) ==
  /\ d[Len(d) - Len(z)] = Dot
  /\ Same(SubSeq(d, Len(d) - Len(z) + 1, Len(d)), z)

is_in_zone(name, apex) ==
  LET d == trim_end(name)
      z == trim_end(apex)
  IN  /\ z # <<>>
      /\ Same(d, z) \/ (Len(d) > Len(z) + 1 /\ EndsIn(d, z))

name_in_bailiwick(name, apex) ==
  LET d == trim_end(name)
      z == trim_end(apex)
  IN  Same(d, z) \/ (Len(d) > Len(z) + 1 /\ EndsIn(d, z))

(* text.split('.') *)
Split(text) ==
  FoldLeft(LAMBDA parts, o :
             IF o = Dot THEN Append(parts, <<>>)
             ELSE Append(Front(parts), Append(Last(parts), o)),
           <<<<>>>>, text)

(* Labels in wire form, without the zero octet that ends a name. *)
Wired(parts) == FlattenSeq([k \in DOMAIN parts |-> <<Len(parts[k]) % 256>> \o parts[k]])

Parts(text) == IF trim_end(text) = <<>> THEN <<>> ELSE Split(lowercase(trim_end(text)))

encode_domain_name(name) == Wired(Parts(name)) \o <<0>>

FaultyLowercaseWire(wire) == lowercase(wire)

(* Only the octets inside labels are letters. *)
lowercase_wire_name(wire) ==
  LET from[i \in Nat \ {0}] ==
        IF i > Len(wire) \/ wire[i] = 0
        THEN SubSeq(wire, i, Len(wire))
        ELSE <<wire[i]>> \o lowercase(SubSeq(wire, i + 1, Min({i + wire[i], Len(wire)})))
                         \o from[i + 1 + wire[i]]
  IN  from[1]

label_count(wire) ==
  LET from[i \in Nat \ {0}] ==
        IF i > Len(wire) \/ wire[i] = 0 THEN 0 ELSE Min({255, 1 + from[i + 1 + wire[i]]})
  IN  from[1]

-----------------------------------------------------------------------------
(* The readers.  Positions count octets after the header, from one. *)

u16(high, low) == 256 * high + low

FaultyQuestionEnd(octets) ==
  LET zero == SelectInSeq(octets, LAMBDA o : o = 0) IN
  IF zero = 0 THEN None ELSE Min({zero + 4, Len(octets)})

(* The last octet of the question: the first zero octet ends the name. *)
question_section_end(octets) ==
  LET zero == SelectInSeq(octets, LAMBDA o : o = 0) IN
  IF zero = 0 \/ zero + 4 > Len(octets) THEN None ELSE zero + 4

qtype(octets, end)  == u16(octets[end - 3], octets[end - 2])
qclass(octets, end) == u16(octets[end - 1], octets[end])

FaultyOpt(q) ==
  LET end  == question_section_end(q.body)
      rest == SubSeq(q.body, end + 1, Len(q.body))
  IN  IF q.arcount = 0 \/ end = None THEN None
      ELSE IF Len(rest) >= 11 /\ SubSeq(rest, 1, 3) = <<0, 0, 41>>
      THEN [size |-> Max({512, u16(rest[4], rest[5])}), do |-> rest[9] >= 128]
      ELSE None

(* An OPT record is seen only as the first thing after the question. *)
parse_query_opt(q) ==
  LET end  == question_section_end(q.body)
      rest == SubSeq(q.body, end + 1, Len(q.body))
  IN  IF q.arcount = 0 \/ end = None THEN None
      ELSE IF Len(rest) >= 11 /\ SubSeq(rest, 1, 3) = <<0, 0, 41>>
      THEN [size |-> Max({512, u16(rest[4], rest[5])}), do |-> rest[8] >= 128]
      ELSE None

(* What an answer copies from the query, and the payload size and DO bit   *)
(* it was made for: with an OPT of its own if the query had one.           *)
Echo(q, rcode) ==
  LET end == question_section_end(q.body) IN
  [rcode |-> rcode, opcode |-> q.opcode, qdcount |-> q.qdcount,
   question |-> IF end = None THEN <<>> ELSE SubSeq(q.body, 1, end),
   edns |-> parse_query_opt(q)]

error_response(q, rcode) == IF q.short THEN None ELSE Echo(q, rcode)

ASSUME AnswerAssumption ==
  \A q \in Query : \A rcode \in {"NOERROR", "REFUSED", "NOTIMP"} : Echo(q, rcode) # None

-----------------------------------------------------------------------------
(* Queries as resolvers make them from what they mean (dns_query_edns, in   *)
(* the tests).                                                             *)
OptOctets(opt) == <<0, 0, 41>> \o opt.size \o <<0, 0, IF opt.do THEN 128 ELSE 0, 0, 0, 0>>

QueryOctets(m) ==
  Wired(m.labels) \o <<0>> \o m.qtype \o m.qclass
    \o IF m.opt = None THEN <<>> ELSE OptOctets(m.opt)

Letter == Octet \ ({0} \cup NotText)
Pair   == [1..2 -> Octet]

Meaning ==
  [labels : Seq(Seq(Letter) \ {<<>>}) \ {<<>>}, qtype : Pair, qclass : Pair,
   opt : [size : Pair, do : BOOLEAN] \cup {None}]

ASSUME MeaningAssumption ==
  /\ None \notin [size : Pair, do : BOOLEAN]
  /\ \A q \in Query : q.meant # None =>
       /\ q.meant \in Meaning
       /\ \A k \in DOMAIN q.meant.labels : Len(q.meant.labels[k]) <= 63
       /\ ~q.short /\ q.qdcount = 1 /\ q.arcount = (IF q.meant.opt = None THEN 0 ELSE 1)
       /\ q.body = QueryOctets(q.meant)

-----------------------------------------------------------------------------
Init ==
  /\ query \in Query
  /\ zone \in Zone
  /\ pc = "header"
  /\ pos = 1
  /\ domain = <<>>
  /\ labels = <<>>
  /\ reply = None

Done(answer) ==
  /\ pc' = "done"
  /\ reply' = answer
  /\ UNCHANGED <<query, zone, pos, domain, labels>>

Opcode ==
  /\ pc = "header"
  /\ query.opcode # 0
  /\ Done(error_response(query, "NOTIMP"))

Header ==
  /\ pc = "header"
  /\ query.opcode = 0
  /\ IF query.short \/ query.qdcount # 1
     THEN Done(None)
     ELSE pc' = "labels" /\ UNCHANGED <<query, zone, pos, domain, labels, reply>>

AtLabel == pos <= Len(body) /\ body[pos] # 0

FaultyLabel ==
  LET label == SubSeq(body, pos + 1, pos + body[pos]) IN
  /\ pc = "labels"
  /\ AtLabel
  /\ IF pos + body[pos] > Len(body) \/ ToSet(label) \cap NotText # {}
     THEN Done(None)
     ELSE /\ domain' = domain \o label
          /\ labels' = Append(labels, label)
          /\ pos' = pos + 1 + body[pos]
          /\ UNCHANGED <<query, zone, pc, reply>>

FaultySkip ==
  LET label == SubSeq(body, pos + 1, pos + body[pos]) IN
  /\ pc = "labels"
  /\ AtLabel
  /\ IF pos + body[pos] > Len(body) \/ ToSet(label) \cap NotText # {}
     THEN Done(None)
     ELSE /\ domain' = (IF domain = <<>> THEN label ELSE domain \o <<Dot>> \o label)
          /\ labels' = Append(labels, label)
          /\ pos' = pos + 2 + body[pos]
          /\ UNCHANGED <<query, zone, pc, reply>>

(* A length octet and as many octets of text, whatever the length. *)
Label ==
  LET label == SubSeq(body, pos + 1, pos + body[pos]) IN
  /\ pc = "labels"
  /\ AtLabel
  /\ IF pos + body[pos] > Len(body) \/ ToSet(label) \cap NotText # {}
     THEN Done(None)
     ELSE /\ domain' = (IF domain = <<>> THEN label ELSE domain \o <<Dot>> \o label)
          /\ labels' = Append(labels, label)
          /\ pos' = pos + 1 + body[pos]
          /\ UNCHANGED <<query, zone, pc, reply>>

(* A zero octet ends the name, and so does the end of the query. *)
NameEnds ==
  /\ pc = "labels"
  /\ ~AtLabel
  /\ IF domain = <<>>
     THEN Done(None)
     ELSE pc' = "question" /\ UNCHANGED <<query, zone, pos, domain, labels, reply>>

is_version_query == \E text \in VersionText : Same(domain, text)

TYPE_TXT == 16
TYPE_ANY == 255

(* A version name outside the zone has a text and nothing else. *)
Served(type) ==
  \/ is_in_zone(domain, zone)
  \/ is_version_query /\ type \in {TYPE_TXT, TYPE_ANY}

(* handle_query_internal goes on with the name it has read. *)
Question ==
  LET end == question_section_end(body) IN
  /\ pc = "question"
  /\ Done(CASE end = None -> None
            [] end # None /\ (qclass(body, end) # 1 \/ ~Served(qtype(body, end))) ->
                 error_response(query, "REFUSED")
            [] OTHER -> Echo(query, "NOERROR"))

Next == Opcode \/ Header \/ Label \/ NameEnds \/ Question

Spec == Init /\ [][Next]_vars

-----------------------------------------------------------------------------
TypeOK ==
  /\ zone \in Zone
  /\ pc \in {"header", "labels", "question", "done"}
  /\ pos \in 1..Len(body) + 1
  /\ domain \in Seq(Octet)
  /\ labels \in Seq(Seq(Octet))
  /\ reply # None =>
       /\ reply.rcode \in {"NOERROR", "REFUSED", "NOTIMP"}
       /\ reply.question \in Seq(Octet)

(* parse_query never reads past the end and never loses count: the octets  *)
(* before pos are those of the labels it has read, and its text is those   *)
(* labels with dots between them.                                          *)
Walked ==
  /\ SubSeq(body, 1, pos - 1) = Wired(labels)
  /\ domain = FlattenSeq([k \in DOMAIN labels |->
                            IF k = 1 THEN labels[k] ELSE <<Dot>> \o labels[k]])

(* No label read so far has one of these octets in it. *)
Without(octets) == \A k \in DOMAIN labels : ToSet(labels[k]) \cap octets = {}

(* The two readers see one question, and the answer is to that one: unless *)
(* a label has a zero octet in it, an answer to a standard query carries   *)
(* exactly the name that was walked and the four octets after it, and says *)
(* that this is one question.                                              *)
AnswersTheQuestionRead ==
  pc = "done" /\ reply # None /\ query.opcode = 0 /\ Without({0}) =>
    /\ Len(reply.question) = pos + 4
    /\ reply.question = SubSeq(body, 1, pos + 4)
    /\ reply.qdcount = 1

(* As long as no label holds a dot, both tests of text agree with what     *)
(* "in the zone" means for labels: those of the zone are the last ones.    *)
ZoneTestsFollowLabels ==
  pc = "done" /\ labels # <<>> /\ Without({Dot}) /\ Parts(zone) # <<>> =>
    LET below == IsSuffix(Parts(zone), [k \in DOMAIN labels |-> lowercase(labels[k])]) IN
    /\ is_in_zone(domain, zone) <=> below
    /\ name_in_bailiwick(domain, zone) <=> below

(* query.rs:65: "Returns true if `domain` equals `zone` or is a strict     *)
(* subdomain of `zone`, using case-insensitive comparison and respecting   *)
(* label boundaries".                                                      *)
InZoneIsSubdomain ==
  pc = "done" /\ reply # None /\ reply.rcode = "NOERROR" /\ ~is_version_query =>
    IsSuffix(Parts(zone), [k \in DOMAIN labels |-> lowercase(labels[k])])

(* The owner of a record set has one canonical form, whether it is taken   *)
(* from the question (owner_canonical_wire) or encoded from a configured   *)
(* name, and the RRSIG's label count is the number of its labels, as far   *)
(* as an octet can count them: what is signed for a name does not depend   *)
(* on the way that led to it.                                              *)
OwnerIsCanonical ==
  pc = "done" /\ reply # None /\ query.opcode = 0 /\ Without({0, Dot}) =>
    LET owner == lowercase_wire_name(SubSeq(body, 1, pos)) IN
    /\ owner = encode_domain_name(domain)
    /\ label_count(owner) = Min({255, Len(labels)})

(* A query put together the way resolvers do gets the answer its meaning   *)
(* calls for: its own question back, made for the payload size and the DO  *)
(* bit of its OPT if it has one, NOERROR exactly for class IN and a name   *)
(* of the zone (or a version text), REFUSED otherwise and never silence.   *)
LegalIsUnderstood ==
  LET m == query.meant IN
  pc = "done" /\ m # None =>
    /\ reply # None
    /\ reply.question = Wired(m.labels) \o <<0>> \o m.qtype \o m.qclass
    /\ reply.edns = IF m.opt = None THEN None
                    ELSE [size |-> Max({512, u16(m.opt.size[1], m.opt.size[2])}),
                          do |-> m.opt.do]
    /\ query.opcode # 0 <=> reply.rcode = "NOTIMP"
    /\ query.opcode = 0 =>
         /\ labels = m.labels
         /\ reply.rcode = "NOERROR" <=> m.qclass = <<0, 1>> /\ Served(u16(m.qtype[1], m.qtype[2]))
=============================================================================
