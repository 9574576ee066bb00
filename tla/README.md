# RustyAlias in TLA+

RustyAlias is an authoritative DNS server for one zone. It synthesises A and
AAAA records from names that spell an address, publishes the zone's apex
records, signs answers online when it has a key, and can limit the requests of
each client. This directory models it from its Rust source: TLA+ modules, TLC
configurations, and proofs for TLAPS.

## 1. The system

| Component | Source | State | Operations |
| --- | --- | --- | --- |
| Rate limiter | `rate_limit.rs` | a map from IP address to (window start, count) behind a mutex, shared by all clones | `new`, `is_enabled`, `check` |
| Server process | `main.rs` | two sockets, a UDP thread, the main thread serving TCP, the request each works on | the two loops, `handle_query`'s I/O |
| Query dispatch | `dns/query.rs` | none | `handle_query_internal`, `is_in_zone`, `is_configured_ns` |
| Wire-format readers | `dns/query.rs`, `dns/response.rs`, `dns/dnssec.rs` | a position in the query | `parse_query`, `question_section_end`, `parse_query_opt`, `lowercase_wire_name`, `label_count` |
| Response construction | `dns/response.rs` | the message being built | `build_*`, `emit_section`, `maybe_append_opt`, `maybe_truncate_udp` |
| DNSSEC records | `dns/dnssec.rs` | the signing key | `sign_rrsig`, `nsec_rdata`, `type_bitmap`, `key_tag`, `signature_times` |
| Addresses in names | `dns/ip_parser.rs` | none beyond one call | `interpret_ip` and its parsers |
| Configuration | `config.rs` | read once at start | `from_env`, `parse_ns_names` |
| Key generation and input | `dns/dnssec.rs`, `main.rs` | none | `--generate-dnssec-key`, PEM and hex input |
| Key deployment | `README.md` (by hand) | keys of all servers, the parent's DS | deploy, CDS scan, publish DS |

How they interact. `main` reads the configuration, creates the limiter, binds
both sockets and starts the UDP thread. The UDP thread and the main thread each
take a request, ask the limiter with the peer's address, and hand what passes to
`handle_query_internal`, which is a function of the query and the configuration.
The limiter's map is the only state the threads share. An error that the main
thread propagates with `?` ends `main`, and the UDP thread with it; a supervisor
(`compose.yaml:5`, `strace/deployment.yaml:76`) starts the process again.
Resolvers see the components together: they cache record sets from several
answers, repeat a truncated question over TCP, and validate signatures.

What is hard here, and what makes each component correct:

- **Limiter.** The clock is read before the mutex is taken, so a thread may work
  with a stamp older than the bucket it finds, and prune or open windows with
  it. Correct: no window counts more than the quota, none is rewound, pruning
  forgets nothing that matters, no client below its quota is dropped, and a
  bound on what fits in a window whatever the races.
- **Process.** TCP peers may stay silent, close, reset, vanish or stop reading at
  every point; neither reads nor writes have a timeout, and one failing
  connection can end everything. Correct: one quota for both transports, each
  request has at most one outcome, a client is dropped only for what it did
  itself, UDP is never held up by TCP, and only the failures the code does not
  handle end the process.
- **Answers.** Facts about a name reach a resolver along several paths (answer,
  authority, glue, negative proof, truncated and not). Correct: they agree, are
  complete or marked, and carry signatures a validator accepts.
- **Octets.** Four readers walk the same query by different rules and hand
  nothing on to each other. Correct: they see one question, and tests of text
  mean what they should for labels.
- **DNSSEC.** Bit windows, a 16-bit checksum, 32-bit times on a circle, and a
  rollout in which the parent, several servers and caches must agree at every
  moment. Correct: what validators compute is what the server meant, and no
  step of the documented procedure makes the zone bogus.
- **Lookups.** A truncated answer makes a second request, which the limiter
  counts. Correct: a resolver that backs off is never locked out.
- **Names.** Several notations, tried in turn on each label. Correct: a name
  resolves to the addresses it was made from and to no other.

`PROJECT.json` lists the hazards one by one, each at its line, with the
properties that would catch it going wrong.

## 2. The modules

| Module | What it is |
| --- | --- |
| `Quota` | abstract: what the limiter promises, in terms of admission times only |
| `RateLimiter` | `rate_limit.rs`: `check` as a clock reading and a critical section |
| `RateLimiterProofs` | the theorems about `RateLimiter`'s windows, drops, map and bursts |
| `Service` | abstract: what the server promises its clients |
| `Server` | `main.rs` and the I/O of `handle_query`, on top of an instance of `RateLimiter` |
| `Message` | records, sections, signatures, lengths, truncation of `response.rs` |
| `Responder` | `config.rs`, `query.rs` and the `build_` functions, seen by a resolver; extends `Message` |
| `IpParser` | `ip_parser.rs` |
| `Wire` | the octets of a query and the readers of `query.rs`, `response.rs`, `dnssec.rs` |
| `Dnssec` | `type_bitmap`, `key_tag`, `signature_times`, and a cache of what was signed |
| `Rollout` | the key's way from the environment into the servers and to the parent's DS |
| `Lookup` | a resolver's UDP query, TCP retry and repetitions, on top of an instance of `RateLimiter` |
| `ServerProofs`, `RolloutProofs`, `LookupProofs`, `DnssecProofs`, `WireProofs`, `ResponderProofs` | the theorems about the modules of those names |
| `SequenceLemmas` | what joining, folding and sorting sequences gives; used by `WireProofs` and `ResponderProofs` |
| `MC...` | the instances TLC checks |

Definitions keep the source's names where there is one (`handle_query_internal`,
`apex_types`, `maybe_truncate_udp`, ...). A definition named `Faulty...` is a
plausible bug in the definition that follows it; no specification uses it. It is
what shows that a property depends on the code: with it in place of the correct
definition, TLC finds the property violated.

**RateLimiter.** `clock` is `Instant::now`, `state` the map, `call[t]` what a
thread inside `check` holds: the address and its stamp. `log` is a history
variable: when each watched client was admitted, by the true clock. `Call` is
lines 46 to 51. `NewWindow`, `Drop` and `Count` are the three ways through the
critical section, each with the pruning and the insertion done first. The mutex
makes the section atomic. Nothing inside it can panic, so the branch for a
poisoned mutex is dead.

**Server.** `pc` and `job` say where each thread is and with which request.
`inbox` and `backlog` are the kernel's buffers; `sent` and `link` are what a TCP
peer has sent and whether it has closed, reset or vanished (`Vanish`: nothing
comes from it any more, not even a reset). `fate` is what became of each
request. `Exit` is `main` returning an error: everything the process held is
gone, the limiter's map included. `limited` is the configuration: with it false
a setting is zero, and `check` returns at once. `past` is a history variable:
how many admissions of each client were made by earlier processes.

The answer to a TCP query is written in two pieces (main.rs:78, 79). The length
always fits into the buffers. The answer may not: a query of up to 64K is read,
and its question is echoed. So `WriteReply` may leave the main thread `"blocked"`
in `write_all`, and `WriteRest` is how that ends: the peer reads the rest (`Take`),
resets, or, when it has vanished, the system stops retransmitting and reports
an error. A peer that is there and does not read ends it never.

The TCP peers, the network and the supervisor are the environment and do what they
like, in any order. Errors of `recv_from` and of accepting change nothing and are left
out. An answer that `handle_query` gives or withholds is a choice for a
well-formed datagram, because `send_to` may fail.

**Message and Responder.** A name is an equivalence class under `names_eq`.
`InZone`, `Version`, `Dmarc` and `Address` say how the predicates of `query.rs`
and `interpret_ip` classify names. Record data is the number that ranks its
bytes, since only order, equality and length matter to these properties;
lengths are exact, in octets, because truncation depends on them. The state is
that of a resolver: the configuration, its last question and answer, and the
answer before. `Ask` is a question over UDP (`handle_query`), `Retry` the same
question over TCP once the answer had TC set.

**IpParser.** A label is the sequence of tokens between its hyphens: one to four
hexadecimal digits with value and length, eight of them, an empty token, or a
word. These are the only distinctions the parsers make. `Init` makes names the
way README.md describes, from at most one address of each family; `Label` and
`Return` are the loop and what follows it.

**Wire.** A query is a few header fields and its octets; `pos`, `domain` and
`reply` are the locals of `parse_query` and what is sent. `Label` is a round of
its loop, `Question` what `handle_query_internal` does once it has a name.
`labels` is a history variable: the labels `domain` was joined from. ASCII is a
parameter (`Lower`, `Dot`, `NotText`), so that a small octet can be a length and
a letter at once, as 65 is in a long name. An octet is text or it is not: the
characters of several octets that `from_utf8` also takes (query.rs:114) are not
built, so a name with one of these is silence in the model, and the theorems about
names are about names of single-octet characters.

**Dnssec.** `Encode` and `Finish` are the loop of `type_bitmap` and what follows
it, with its locals as variables; an octet is the set of its bits. The record
is then signed (`sign_rrsig`), cached, and looked at by validators.

**Rollout.** `Start` is `Config::from_env` as far as the key goes: a secret that
does not parse leaves the process down. The operator (`Deploy`, `Confirm`,
`Publish`) follows README.md:217 to 236 and errs with the secret, before and after
the DS; the registry (`Scan`) installs a DS that all servers have asked for in
enough scans; a resolver caches for a TTL what some server said.

**Lookup.** The resolver's state is `step`, its datagrams and connections in
flight are counted by `sent` and `conns`; of the loops of `main.rs` the module
keeps what concerns the limiter. `calm` and `last` are history variables: the
lookup began when nothing of the resolver had been under way for a window.

## 3. The runs

| Run | Instance | Result |
| --- | --- | --- |
| `MCRateLimiterRace` | 1 client, 2 threads, window 3, quota 2, clock to 7, no pruning | `TypeOK`, `QuotaInWindow`, `UnprunedBurst`, `DropsAreJustified` hold |
| `MCRateLimiterPrune` | 3 clients, 2 threads, window 2, quota 1, clock to 6, pruning above 1 entry | `QuotaInWindow`, `ImplementsQuota`, `DropsAreJustified`, `WindowsMoveForward`, `OnlyExpiredForgotten`, `LargeMapIsLive` hold |
| `MCRateLimiterReadme` | 1 client, 1 thread | `AtMostQuotaEveryWindow` is violated |
| `MCServer` | a client with a UDP query and a malformed TCP request, another with a TCP connection; window 1, quota 1, clock to 1; limiter on and off | `TypeOK`, `QuotaIsShared`, `DropsAreDeserved`, `OutageNeedsLostPeer`, `ImplementsService`, `TcpProgress` hold |
| `MCResponder` | 13 names (11 kinds of usual length, 2 overlong), 11 types, plain and EDNS, DO, 5 configurations, every two questions | `TypeOK`, `AnswersAgree`, `NoContradiction`, `ProofsAreTrue`, `SignaturesValidate`, `CompleteOrTruncated` hold |
| `MCIpParser` | 4 IPv4 and 6 IPv6 addresses, all notations, both orders, words around | `TypeOK`, `NamesMeanTheirAddresses` hold |
| `MCIpParserDual` | 2001:db8::1:2:3:4 | `OneFamilyPerLabel` is violated |
| `MCWire` | all names of up to 3 labels out of 4, with types, classes, OPTs and opcodes; up to 4 arbitrary octets before 7 endings; odd headers; 4 zones | `TypeOK`, `Walked`, `AnswersTheQuestionRead`, `ZoneTestsFollowLabels`, `OwnerIsCanonical`, `LegalIsUnderstood` hold |
| `MCWireDots` | the same queries to a zone of two labels | `InZoneIsSubdomain` is violated |
| `MCDnssec` | 1119 sets of types, as they are and with NSEC and RRSIG; 6 keys; 90 seconds in eras of 40 | `NothingLostOrInvented`, `BlocksAreCanonical`, `LengthIsKnown`, `HoldsInTimeAndEra`, `TagFindsTheKey` hold |
| `MCRollout` | 3 servers, 2 keys, 6 values of the secret, 2 crashes before the DS | `TypeOK`, `NeverBogus`, `EventuallySecured` hold |
| `MCLookup` | a resolver and another client, 2 threads, window 2, quota 2, clock to 4, pruning above 1 entry, 2 datagrams in flight | `PatientLookupIsServed` holds |

The comment above each property says in words what it means.

### Bounds

- *Limiter.* The interesting schedule is a thread whose stamp is a window or
  more old when it gets the mutex, after the other thread has filled a window,
  pruned and filled the next. Three windows fit into the clock of one run, two
  and a stamp from before the first into that of the other. A quota of 2 tells a
  full bucket from an opened one; the run with pruning has a quota of 1 and a
  third client instead, which is what a map beyond its threshold needs. The
  threshold is 1 in place of 1024; no property depends on the number. Both
  bounds on admissions are tight on their instances: TLC violates them when
  they are one smaller. Threads are symmetric.
- *Server.* Two connections are what head-of-line blocking and the loss of a
  waiting connection need, a UDP query beside them what interference needs, two
  clients what mistaking one for the other needs. The clock has room for the first
  window, in which `QuotaIsShared` counts, and for its end, so that for
  `DropsAreDeserved` a full quota may be too old when a request comes, or an
  earlier process's: with the boundary of `Live` off by one, or the map kept
  over an `Exit`, TLC finds it violated. The run does not check deadlock: each
  request is made at most once, and then the system is at rest.
- *Responder.* Two answers are enough for a contradiction, which is always one
  between two. The names are one of each class, and two that are longer than
  DNS allows but not than `parse_query` does: one leaves no room for an OPT in
  a truncated answer, the other none for anything. The configurations have each
  optional record present and absent and name servers inside, outside and at
  the apex. Deadlock is not checked, because `MaxAsks` ends a behaviour.
- *IpParser.* The addresses are chosen for digits that several parsers accept:
  groups that read as decimal octets and groups that nearly do, octets whose
  hexadecimal form has letters or none, runs of zeros at either end and inside. A run ends when
  `interpret_ip` returns.
- *Wire.* Every way the readers can come apart (a length past the end, a zero
  inside a label, a name cut short, octets that are no text, a missing OPT
  octet) is a sequence of at most four octets before one of the endings. Names
  of three labels are longer than the longest zone by one. A run ends with the
  answer.
- *Dnssec.* The types are at both edges of an octet, a window and the whole
  range, and every subset of them, so every turn of a window with every octet
  before and after it occurs. `Era` stands for 2^32. `Validity`, `Skew` and
  `Drift` are together just below half of it, as far as the property goes. `Ttl` is
  longer than `Validity` and `Drift` longer than `Skew`, so that signatures are also looked
  at before their inception and after their expiration. Every second of two
  eras is a time of signing.
- *Rollout.* Three servers are two that agree and one that does not. Two scans
  stand for those of 72 hours and two TTLs for a day. Deadlock is not checked
  in `MCDnssec` and `MCLookup`, where the clock ends a behaviour, nor in `MCRollout`.
- *Lookup.* The clock has room for a lookup, a quiet window and another lookup
  that ends in the next; two datagrams in flight are a repetition that overtakes.

### Fairness

`Server` assumes weak fairness of three things: of the UDP thread and of the
main thread, as the operating system schedules both and the mutex is only held
for a bounded computation; and of `Restart`, which is the supervisor's job.
Nothing is assumed of the clients, so a peer may stay silent for good, or read
nothing for good. `TcpProgress` says that these two are the only things that keep TCP
clients waiting for good: the main thread stays in `read_exact` for what a peer
does not send (`StalledInRead`), or in `write_all` for a peer that is there and does
not read (`StalledInWrite`). That a write to a peer that has vanished ends is
the fairness of the main thread: the system gives up retransmitting.
`ImplementsService` has the stronger promise for UDP: a
queued query is granted or dropped, a granted one answered or discarded,
whatever the TCP peers do.

`Rollout` assumes weak fairness of `Start` (the supervisor again), of `Tick` and
of `Scan` (time passes, and the registry scans daily, README.md:236).
`EventuallySecured` says that nothing else is needed: not that the operator
confirms anything or pastes a DS. It does need crashes to stop
before the DS is there (`MaxCrashes`), since a server that is down at every scan
is never agreed with. `NeverBogus` rests on an assumption that README.md does not state:
the operator waits one TTL (`Patience`) between the last confirmation and the
DS, or a cache may still hold unsigned answers. The other components have
safety properties only.

### Disagreements with the documentation

1. *Quota per window* (`MCRateLimiterReadme`). README.md:240 and config.rs:77
   promise at most 20 requests every second; a fixed window admits up to twice
   that across its end. `UnprunedBurst` and `ImplementsQuota` state what holds:
   two quotas plus one request per further thread; with pruning, one
   quota per thread and one more.
2. *One family per label* (`MCIpParserDual`). ip_parser.rs:5 says families use
   separate labels; the IPv4 parser finds `0.0.1.2` in the IPv6 label
   `2001-db8-0-0-1-2-3-4`. `NamesMeanTheirAddresses` holds of all other labels.
3. *Zone membership* (`MCWireDots`). query.rs:65 says that `is_in_zone`
   respects label boundaries; `parse_query` has joined the labels with dots by
   then, so that one label with a dot in it (`a.a`) is the zone of two labels.
   `ZoneTestsFollowLabels` states what holds: without such a label, both tests
   are exact.

Four more were seen while the code was read and have no run:

4. *Negative TTL.* response.rs:472 says it is the SOA minimum; the TTL of the
   SOA record is always 3600 and caps it, so with MINIMUM=7200 it is 3600.
5. *NS set.* README.md:188 calls NS_NAMES a set; `parse_ns_names` keeps
   repetitions, which are sent and signed twice. A validator removes them, and
   the signature is then over something else: `SignaturesValidate` is checked and proved
   for configurations without a repetition.
6. *Long texts.* README.md:195 and response.rs:45 know no limit for SPF;
   `add_txt` sends the first 255 octets of a text.
7. *The DS of a new key.* README.md:184 gives GLUE_NAME the default
   `ns.example.com`, which the server serves; `--generate-dnssec-key` prints the
   DS for `example.com`. With `GlueName = Unset` the instance of `MCRollout`
   violates `NeverBogus`; README.md:223 has the variable set.

## 4. The proofs

| Module | Theorem | Statement |
| --- | --- | --- |
| `RateLimiterProofs` | `Inductive` | `Spec => []IInv` |
| | `TypeCorrect` | `Spec => []TypeOK` |
| | `QuotaHolds` | `Spec => []QuotaInWindow` |
| | `WindowsOnlyMoveForward` | `Spec => WindowsMoveForward` |
| | `PruningForgetsOnlyExpired` | `Spec => OnlyExpiredForgotten` |
| | `PruningBoundsTheMap` | `Spec => LargeMapIsLive` |
| | `NoUnjustifiedDrop` | `Spec => DropsAreJustified` |
| | `QuotaIsImplemented` | `Spec => ImplementsQuota` |
| | `UnprunedBurstHolds` | `Spec => []UnprunedBurst` |
| `ServerProofs` | `Inductive` | `Spec => []IInv` |
| | `TypeCorrect` | `Spec => []TypeOK` |
| | `OnlyLostPeersEnd` | `Spec => []OutageNeedsLostPeer` |
| | `DropsAreEarned` | `Spec => DropsAreDeserved` |
| | `QuotaIsOne` | `Spec => []QuotaIsShared` |
| | `ServiceIsSimulated` | `Spec => Promise!Init /\ [][Promise!Next]_(Promise!vars)` |
| `RolloutProofs` | `TypeCorrect` | `Spec => []TypeOK` |
| | `NeverBogusHolds` | `AsDocumented` implies `Spec => []NeverBogus` |
| `LookupProofs` | `PatientLookupHolds` | `Spec => []PatientLookupIsServed` |
| `DnssecProofs` | `BlocksAreCanonicalHolds` | `Spec => []BlocksAreCanonical` |
| | `NothingIsLost` | `Spec => []NothingLostOrInvented` |
| | `LengthIsKnownHolds` | `Spec => []LengthIsKnown` |
| | `SignaturesHold` | `Spec => []HoldsInTimeAndEra` |
| | `TagIsFound` | `EvenKeys` implies `Spec => []TagFindsTheKey` |
| `WireProofs` | `TypeCorrect` | `Spec => []TypeOK` |
| | `WalkedHolds` | `Spec => []Walked` |
| | `OneQuestion` | `Spec => []AnswersTheQuestionRead` |
| | `MeaningIsUnderstood` | `Spec => []LegalIsUnderstood` |
| | `ZoneTestsHold` | `Spec => []ZoneTestsFollowLabels` |
| | `OwnerHolds` | `Spec => []OwnerIsCanonical` |
| `ResponderProofs` | `AnswersAreFaithful` | `Spec => []Told` |
| | `SpecTypeOK` | `Spec => []TypeOK` |
| | `SpecCompleteOrTruncated` | `Spec => []CompleteOrTruncated` |
| | `SpecAnswersAgree` | `Spec => []AnswersAgree` |
| | `SpecNoContradiction` | `NamesApart` implies `Spec => []NoContradiction` |
| | `SpecProofsAreTrue` | `NamesApart` implies `Spec => []ProofsAreTrue` |
| | `SpecSignaturesValidate` | `NsAreASet` implies `Spec => []SignaturesValidate` |

They hold for every value of the constants that the modules' assumptions
admit. These say that numbers are naturals, that the values standing for
nothing (`Idle`, `None`, `Never`, `Down`) are none of the things there are, and that
the parts of a whole are parts of it. The rest are few. The threads of
the process and the addresses are finite (`FiniteAssumption`), which only the
two bounds on bursts and the server use; a limiter that is on has a quota and
a window above zero, as `is_enabled` asks (`LimiterAssumption`); an environment without the
key is possible and there is a server (`RolloutAssumption`); the validity, the
skew and the error of a clock are together less than half of 2^32 seconds, and no cache keeps a
record set for half of that (`DnssecAssumption`; RFC 2181 has a TTL of 2^31 or
more count as zero. A TTL may well be longer than the validity, as MINIMUM is any u32); and a query that carries a meaning is made from it
the way `dns_query_edns` does (`MeaningAssumption`), of one or more labels of at most 63
octets, none of them zero and all of them text. Queries without a meaning have any
octets, zones are any octets, and lower case takes nothing else to a dot
(`WireAssumption`). For the answers, addresses, texts and times are numbers, an environment and
a query have the fields of `Config` and of a question, and the apex and `_dmarc` are two
names of the zone (`ResponderAssumption`).

**The limiter's invariant.** `IInv` adds three facts to `TypeOK` and `QuotaInWindow`.
Stamps are never in the future and only exist while the limiter is enabled
(`CallsAreStamped`); windows have started (`StartsAreStamped`); and the last
`count` admissions of a watched client are all at or after the start of its
window (`CountsAreAdmissions`). `QuotaInWindow` needs the first, as a count of 1
is within the quota only when the quota is not zero. `OnlyExpiredForgotten` needs
it too: pruning judges by the stamp, the property by the clock. The last is
what `NoUnjustifiedDrop` turns on: a full count stands for a quota of
admissions, and these are recent because the window is still running. Each
action preserves the invariant by a lemma of its own; the critical section's
common part is in `FinishKeeps`, `AdmittingKeeps` and `EntryIsAccounted`.
`PruningBoundsTheMap` needs in addition that the map is finite
(`MapIsFinite`, inductive by itself), so that its size can be counted: a call
that leaves it beyond the threshold and one entry has found it beyond the
threshold, and has therefore just pruned it.

**The bursts.** Both bounds look back from now to an admission less than a
window old and count what has been admitted since. A stamp read before that
admission is stale; each thread holds at most one, and reads no new one that
is. A bucket opened at or after the admission is fresh, and live for every
stamp that can come until the admission is a window old. So while the bucket
is not fresh, each stale thread may open one more, and then a thread with a
later stamp the last: `BurstIsAccounted` says that what was admitted, what the
bucket still admits and what those threads may open stay within one quota per
thread and one. `UnprunedIsAccounted` is the same account without pruning,
where a stale stamp opens nothing after a later window and costs one request.

**The server's invariant** joins the limiter's to what ties threads, queues and
requests together: each request is in one place (`JobsAreApart`,
`QueuesAreApart`), a thread inside `check` asks for the address of the request
it holds (`CallsAreChecks`), and a process that is down holds nothing
(`DownIsEmpty`). What was proved of the limiter is used through an instance of
`RateLimiterProofs`, and lemmas (`SameLive` and those after it) say that this instance and the
one in `Server` define the same steps. The one step that is not the limiter's
is the loss of its map when the process ends; `QuotaIsOne` charges a
quota for each start. For `DropsAreEarned` a second invariant, `OwnCounts`, sets a
client's count against what this process has admitted of it, which is `log` less
`past`; that the last of these admissions are recent is the limiter's own
lemma, `DropsAreJustifiedStep`, about the very step. In `ServiceIsSimulated` each action of `Server` is shown to be a step of
`Service` or none; its fairness is left to TLC (`ImplementsService`).

**The rollout's invariant** says what each way to a DS relies on. The
operator's: a confirmed server keeps the chosen key (`ConfirmedAreChosen`), and a TTL after the
last confirmation no cache holds anything older (`OperatorIsRight`). The registry's: one key on all
servers can only be the chosen one, since no mistake puts the same wrong key
everywhere (`NoOtherKey`), and between two scans that agree every cache
has turned over (`RegistryIsRight`). `NeverBogusHolds` has a hypothesis on the constants,
`AsDocumented`. Three of its parts are in README.md: `GLUE_NAME` is set, scans are
more than one, and apart. The fourth is what section 3 calls the
assumption README.md does not state, the operator's wait. Without the first or the last TLC
finds a counterexample.

**The lookup's invariant** counts what a calm resolver can still ask of the limiter: its
datagrams and connections under way, the calls of the two threads, and the
retry it may yet make. Either its bucket is over for every stamp these have or will have,
or the bucket has room for all of them (`RoomIsLeft`).

**The bitmap's invariant** (`BitmapInv`) is that of the loop of `type_bitmap`. What is left is
sorted (that sorting a finite set of numbers gives this is `AscendingSorts`, proved by counting);
the window at hand comes after those written and not after that of any type left; its last octet with
a bit is `max_byte`, and none after it has one, so that cutting there loses
nothing. `LengthIsKnown` follows from the other two properties: a block ends in a type of
its window, and below 256 there is only one window.

**The times.** `SignedInv` says what the cache holds: the 32-bit times of the moment
`made`, which is past. The rest is arithmetic on the circle. The two times are less
than half a circle apart, so whoever passes both of a validator's comparisons is between them
as numbers, too (`ValidIs`). In the era the signature was made in, that is to be in its
validity, cut off at the border by saturation; a second of another era that
falls between them is at least an era away, less the validity or the skew, which is
farther than a cache and a clock together reach (`ValidWhen`). That a signature outlives
its validity in a cache, when MINIMUM is more than seven days, is the configuration's doing:
the theorem says that it is then refused.

**The walk's invariant** (`WalkInv`) is `Walked`, that `domain` is empty exactly before
the first label, that the number of questions has been checked, and `NoZeroWalked`: the
octets passed hold no zero unless a label does. So the first zero octet is where the
walk ended, which is all that `question_section_end` knows. For `MeaningIsUnderstood`,
`Along` adds that the labels read are the first ones of those meant. Then the wire form
of the ones read is a prefix of that of all (`PartsLie`), so what lies at `pos` is the
length of the next label or the zero octet at the end (`LabelLiesThere`, `NameEndsThere`), and the
question and the OPT lie where they are looked for (`QueryLies`, `OptIsFound`).
What `FlattenSeq` computes is proved by induction over the number of labels. The library's
induction theorems cannot be used, as they have operators for parameters;
`SetInduction` says the same of sets and follows from `WFMin`.

**The answers.** `Truth` says, from the configuration alone, what the zone holds: the types of
a name, and the lifetime and the records of each set. An answer is `Faithful` if
it tells its sets exactly so. Each record the `build_` functions add is right by
itself (`ExactSoa` to `ExactNsec`), and the one set with several records, the name servers,
is there as a whole; what can still go wrong is `emit_section`. `GroupedKeeps`
and `SortedKeeps` show that grouping and sorting lose and add nothing, and `EmitKeeps` that
what signing adds is signatures. They are inductions over the records of a section: the
model writes the loop as a fold, and what a fold does to one more record is
`GroupedAppend`. With these, each `build_` function is a lemma (`NodataHonest` to
`AnswersHonest`), truncation leaves a faithful answer or an empty one (`TruncatedIs`), and the
invariant `RInv` says that all answers at hand are faithful to one
configuration. `AnswersAgree` follows without any condition: two answers agree because both
agree with the zone. `NoContradiction` and `ProofsAreTrue` need `NamesApart`: no name server
that lies in the zone is called like a text (`version` and its like, `_dmarc`), and
the apex is no version name. `handle_query_internal` looks for these by name, one after the other,
so that a name server called `_dmarc.example.com` would be denied the address its glue
has. The code does not check this; the instances of `MCResponder` satisfy it.

**The signatures.** A validator takes all records of one owner and type in a section, each
once, in canonical order; `emit_section` signs a run of neighbours with the same owner bytes. The two
agree where a section is `Tidy`: records of one set stand together, are written with the
same owner bytes and differ in their data. Each section the `build_` functions make is, by itself
(one record, or none), because its parts have different types (`BothArePlain`), or, for the
glue, because each name server has one address of each type (`SoleFlatten`). Grouping a tidy section
record by record keeps the groups `Neat`: no two of them share a set, none repeats a
record (`GroupedNeat`); then sorting makes the data strictly ascending (`SortedAscends`),
and the signature over a group covers exactly the set (`EmitSeals`). The hypothesis, `NsAreASet`, is that no
name server is configured twice, the one way to an untidy section (section 3, disagreement 5);
the instances of `MCResponder` satisfy it. That a truncated answer carries no set closes the proof.

**The zone tests.** `is_in_zone` and `name_in_bailiwick` compare octets at offsets from the end;
what they should say is about labels. Splitting at dots (`Split`, `text.split('.')`) undoes
joining with dots, and joining undoes splitting (`SplitJoin`, `JoinSplit`); lower case may
be taken before or after (`LowerJoin`). The test of the octet before the zone
and of those after it says that the name is something, a dot and the zone (`EndsInIs`), and the
parts of such a text are the parts of both (`SplitBeside`), so the zone's are the last ones;
back from there the parts in front join to a text that is not empty, because no label is
(`SuffixAgrees`). The invariant, `PieceInv`, adds to `WalkInv` that labels have 1 to 255
octets and that an answered query's name was read up to a zero octet.

**The canonical owner.** `lowercase_wire_name` and `label_count` are recursive functions over
positions. That such functions exist is proved backwards from the end of the octets (`RecursionExists`),
and so is that their values are octets and counts (`StaysIn`); then each label takes
both walks one step further (`LowersAlong`, `CountsAlong`) to the zero octet at
the end. `encode_domain_name` gets the same labels from `Split`. The count is of a `u8` that
stays at 255 (`Saturates`), as a query may have more labels than DNS allows.

**The key tag.** `key_tag` adds up all octets, then the carry, and truncates; the tag of a
validator, `TagBySum`, adds words of 16 bits and counts the carries as it goes. The two sums are the
same number after every word (`SumsAgree`), and adding the carry once is enough
(`TagsAgree`). The hypothesis `EvenKeys` is that the DNSKEY has an even
number of octets; the server's have 68. For an odd number the last octet would be
half a word, and no key this server can load has one.

Only model-checked: everything about `IpParser`. That its addresses are made of octets and that
a name spells no other address depends on the digits of tokens, on the first of several
places and on the form of an elision, case by case; this is not done.
Liveness (`TcpProgress`, the fairness of
`Service`, `EventuallySecured`) is out of the prover's reach and stays with TLC.

## 5. Not modelled

- ECDSA and SHA-256, PEM decoding, `Ipv6Addr::from_str`: library code. A
  signature or a digest is the data it is made over; what `from_str` accepts is
  modelled from its use and marked external.
- The header fields that are copied or constant: ID, QR, RD, RA, and the text
  of log lines.
- Parsing of numbers and addresses in `config.rs`: a bad value ends the process
  before it listens, which `Rollout` shows for the key.
- The 16-bit length of a TCP answer (main.rs:77), which only thousands of name
  servers or a name hundreds of times too long could exceed.
- What a validator makes of an NSEC that denies NSEC and RRSIG below the apex
  (response.rs:481), and of a signed version text outside the zone
  (query.rs:160): the sources do not say what is meant.
- A change of key after the DS is published: the server holds one key, and
  README.md has no procedure for it.
- Packaging, deployment files and `strace/`: no state the rest depends on but
  the supervisor's restart, which `Server` and `Rollout` have.

## 6. Plan

1. Done: `RateLimiter` with `Quota`, then `Server` with `Service`, `Message`
   and `Responder`, `IpParser`; the limiter's invariants proved; `Wire`,
   `Dnssec`, `Rollout`, `Lookup`.
2. Done: the limiter's bursts and its refinement of `Quota`; `Server`; `Rollout`;
   `Lookup`; `Dnssec`; `Wire`; `Responder`.
3. Proofs left: for `IpParser` that octets stay octets and that names mean their
   addresses.
