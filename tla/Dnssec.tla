------------------------------- MODULE Dnssec -------------------------------
(***************************************************************************)
(* The arithmetic of src/dns/dnssec.rs, in the order a signed denial needs *)
(* it: the types of the NSEC's owner (nsec_types), their bitmap (the loop  *)
(* of type_bitmap, against the reading of RFC 4034 section 4.1.2), and the *)
(* RRSIG over the record (sign_rrsig): its key tag (key_tag) and its times *)
(* (signature_times), which are 32-bit numbers made by truncation and      *)
(* saturation but compared by validators in the circle of serial numbers   *)
(* (RFC 4034 section 3.1.5).                                               *)
(*                                                                         *)
(* A block of the bitmap is its window number and its octets; an octet is  *)
(* the set of the powers of two in it.  The signed record goes into a      *)
(* resolver's cache for its TTL and is used there by validators whose      *)
(* clocks are not the server's.                                            *)
(***************************************************************************)
EXTENDS Integers, Sequences, FiniteSets, SequencesExt

CONSTANTS
  Case,      \* the denials considered: [types, rdata of the DNSKEY, time]
  Era,       \* 2^32 seconds: what a time is truncated to; even
  Validity,  \* SIGNATURE_VALIDITY_SECS
  Skew,      \* INCEPTION_SKEW_SECS
  Ttl,       \* the longest a cache keeps a signed record set
  Drift,     \* how far a validator's clock may be from the server's
  MaxTime,   \* bound: the last second considered
  None       \* no window yet, nothing cached

(* A record type is a u16. *)
Type == 0..65535

(* The NSEC's TTL is MINIMUM, which may be longer than the validity.  A TTL *)
(* of half an era or more counts as zero (RFC 2181 section 8).             *)
ASSUME DnssecAssumption ==
  /\ Case \subseteq [types : SUBSET Type, rdata : Seq(0..255), time : Int]
  /\ {Era, Validity, Skew, Ttl, Drift, MaxTime} \subseteq Nat
  /\ Validity + Skew + Drift < Era \div 2
  /\ Ttl < Era \div 2
  /\ None \notin Int

VARIABLES
  types,     \* the types the bitmap is for
  rest,      \* those the loop has not encoded yet, ascending
  window,    \* the window whose bits are being gathered
  bits,      \* its 32 octets
  max_byte,  \* the last of them with a bit set
  out,       \* the blocks written so far
  done,      \* the bitmap is complete
  now,       \* the server's clock: seconds since the epoch, perhaps before it
  rdata,     \* the server's DNSKEY
  rrsig,     \* the signature in the cache, None without one
  made       \* history: when it was made

bitmap == <<types, rest, window, bits, max_byte, out, done>>
signed == <<now, rdata, rrsig, made>>
vars   == <<bitmap, signed>>

-----------------------------------------------------------------------------
NoBits == [i \in 0..31 |-> {}]

(* nsec_types: the record's owner also has this NSEC and its RRSIG. *)
nsec_types(existing) == existing \cup {46, 47}

Ascending(S) ==
  [k \in 1..Cardinality(S) |-> CHOOSE x \in S : Cardinality({y \in S : y < x}) = k - 1]

FaultyFlush == Append(out, [window |-> window, octets |-> bits])

flush ==
  Append(out, [window |-> window, octets |-> [i \in 0..max_byte |-> bits[i]]])

FaultyBitsWith(bit, turn) == [bits EXCEPT ![bit \div 8] = @ \cup {7 - (bit % 8)}]

(* A turn of the window forgets the bits of the last one, and its length. *)
BitsWith(bit, turn) ==
  [(IF turn THEN NoBits ELSE bits) EXCEPT ![bit \div 8] = @ \cup {7 - (bit % 8)}]

FaultyMaxByteWith(bit, turn) == Max({max_byte, bit \div 8})

MaxByteWith(bit, turn) == Max({IF turn THEN 0 ELSE max_byte, bit \div 8})

FaultyKeyTag(d) ==
  MapThenSumSet(LAMBDA i : IF i % 2 = 1 THEN d[i] * 256 ELSE d[i], DOMAIN d) % 65536

(* Octets at even offsets are high; the carry is added once. *)
key_tag(d) ==
  LET ac == MapThenSumSet(LAMBDA i : IF i % 2 = 1 THEN d[i] * 256 ELSE d[i], DOMAIN d)
  IN  (ac + ac \div 65536) % 65536

(* A clock before the epoch is the epoch, a later one loses its era. *)
seconds(time) == IF time < 0 THEN 0 ELSE time % Era

FaultyInception(time) == (seconds(time) - Skew) % Era

inception(time) == Max({0, seconds(time) - Skew})

FaultyExpiration(time) == Min({Era - 1, seconds(time) + Ttl})

expiration(time) == Min({Era - 1, seconds(time) + Validity})

-----------------------------------------------------------------------------
(* The types are sorted, and each is there once.  The loop is as general as *)
(* type_bitmap, which also takes no types at all.                          *)
Init ==
  /\ \E case \in Case : types = case.types /\ rdata = case.rdata /\ now = case.time
  /\ rest = Ascending(types)
  /\ window = None
  /\ bits = NoBits
  /\ max_byte = 0
  /\ out = <<>>
  /\ done = FALSE
  /\ rrsig = None
  /\ made = now

(* One round of the loop: the next type, in a new window or in this one. *)
Encode ==
  LET typ  == Head(rest)
      turn == window # None /\ window # typ \div 256
  IN
  /\ rest # <<>>
  /\ out' = IF turn THEN flush ELSE out
  /\ window' = typ \div 256
  /\ bits' = BitsWith(typ % 256, turn)
  /\ max_byte' = MaxByteWith(typ % 256, turn)
  /\ rest' = Tail(rest)
  /\ UNCHANGED <<types, done, signed>>

(* The last window is written; an empty bitmap is a window without octets. *)
Finish ==
  /\ rest = <<>> /\ ~done
  /\ out' = IF window = None THEN <<[window |-> 0, octets |-> [i \in {} |-> {}]]>> ELSE flush
  /\ done' = TRUE
  /\ UNCHANGED <<types, rest, window, bits, max_byte, signed>>

Tick ==
  /\ done
  /\ now < MaxTime
  /\ now' = now + 1
  /\ UNCHANGED <<bitmap, rdata, rrsig, made>>

(* A resolver fetches the record set and caches it with its signature. *)
sign_rrsig ==
  /\ done
  /\ rrsig' = [key_tag |-> key_tag(rdata),
               inception |-> inception(now), expiration |-> expiration(now)]
  /\ made' = now
  /\ UNCHANGED <<bitmap, now, rdata>>

Expire ==
  /\ rrsig # None /\ now >= made + Ttl
  /\ rrsig' = None
  /\ UNCHANGED <<bitmap, now, rdata, made>>

Next == Encode \/ Finish \/ Tick \/ sign_rrsig \/ Expire

Spec == Init /\ [][Next]_vars

-----------------------------------------------------------------------------
(* What a validator reads: bit 0 of an octet is its most significant one. *)
TypesIn(w, octets) ==
  UNION {{256 * w + 8 * i + (7 - e) : e \in octets[i]} : i \in DOMAIN octets}

Decoded == UNION {TypesIn(out[k].window, out[k].octets) : k \in DOMAIN out}

Gathered == IF window = None \/ done THEN {} ELSE TypesIn(window, bits)

(* At every turn of the loop the blocks written and the window at hand     *)
(* hold the types encoded so far, no more and no fewer; in the end, all.   *)
NothingLostOrInvented == Decoded \cup Gathered = types \ ToSet(rest)

(* Validators refuse a bitmap whose windows do not ascend, or a block that *)
(* is empty, longer than 32 octets or ends in a zero octet.                *)
BlocksAreCanonical ==
  /\ \A j, k \in DOMAIN out : j < k => out[j].window < out[k].window
  /\ types # {} =>
       \A k \in DOMAIN out :
         \E last \in 0..31 :
           DOMAIN out[k].octets = 0..last /\ out[k].octets[last] # {}

(* The types this server has are all below 256; one block of this length   *)
(* is what the lengths of the model's messages count (Message!BitmapLen).  *)
LengthIsKnown ==
  done /\ types # {} /\ types \subseteq 0..255 =>
    Len(out) = 1 /\ Cardinality(DOMAIN out[1].octets) = Max(types) \div 8 + 1

(* a is not after b on the circle. *)
NotAfter(a, b) == (b - a) % Era < Era \div 2

ValidAt(time) ==
  /\ NotAfter(rrsig.inception, time % Era)
  /\ NotAfter(time % Era, rrsig.expiration)

(* The times at which validators may look at what was made when it was.    *)
UseTimes == {t \in made - Drift .. Min({now, made + Ttl}) + Drift : t >= 0}

(* When a signature was made, as far as 32 bits can say. *)
Born == IF made < 0 THEN 0 ELSE made

(* To a validator a cached signature is good exactly from Skew before to    *)
(* Validity after it was made, and in the era it was made in: truncation   *)
(* and serial arithmetic give it no second life, but as the times saturate *)
(* it ends with the era, in February 2106 for 32 bits, and one made just   *)
(* after is no good to a clock that is behind.  A cache that keeps the     *)
(* record set longer than Validity hands out a signature that has expired. *)
HoldsInTimeAndEra ==
  rrsig # None =>
    \A t \in UseTimes :
      ValidAt(t) <=> t \div Era = Born \div Era /\ t \in Born - Skew .. Born + Validity

(* Adding the words of the RDATA in 16 bits and the carries at the end. *)
TagBySum(d) ==
  LET word(k) == d[2 * k - 1] * 256 + d[2 * k]
      sum == FoldLeft(LAMBDA acc, k :
                        <<(acc[1] + word(k)) % 65536,
                          acc[2] + (acc[1] + word(k)) \div 65536>>,
                      <<0, 0>>, [k \in 1..Len(d) \div 2 |-> k])
  IN  (sum[1] + sum[2]) % 65536

(* The tag in a signature is the one validators compute from the DNSKEY    *)
(* (RFC 4034 appendix B), also when the sum of its words has carries: it   *)
(* is by the tag that a validator finds the key.                           *)
TagFindsTheKey == rrsig # None => rrsig.key_tag = TagBySum(rdata)
=============================================================================
