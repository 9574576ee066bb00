------------------------------ MODULE Rollout -------------------------------
(***************************************************************************)
(* Turning DNSSEC on: how DNSSEC_PRIVATE_KEY becomes the key of a running  *)
(* server (from_env, from_private_key_str, generate_and_print in           *)
(* src/dns/dnssec.rs), what the servers then say about it, and the DS at   *)
(* the parent that has to match it.                                        *)
(*                                                                         *)
(* The operator who follows README.md:217 to 236, the registry, the        *)
(* supervisor and a resolver with its cache are the environment.  The      *)
(* operator makes mistakes with the secret, but does not take it away or   *)
(* replace it by a good one of another key once the DS is published; the   *)
(* README has no procedure for that.  Time is in units of the largest TTL. *)
(***************************************************************************)
EXTENDS Naturals, FiniteSets

CONSTANTS
  Server,       \* the name servers of the zone
  Key,          \* P-256 keys
  Chosen,       \* the key the operator generated for the zone
  Secret,       \* values of DNSSEC_PRIVATE_KEY: [form, key]
  GlueName,     \* the value of GLUE_NAME, Unset without one
  Unset,
  Down,         \* a process that is not running
  Unsigned,     \* a process that runs without a key
  None,         \* no DS, nothing cached
  Patience,     \* how long the operator waits after the last confirmation
  ScanPeriod,   \* a day
  ScansNeeded,  \* scans that must agree: more than 72 hours of them
  MaxCrashes    \* bound: how often processes crash before the DS is there

Form == {"unset", "blank", "hex", "pkcs8", "sec1", "escaped", "garbled"}

ASSUME RolloutAssumption ==
  /\ Server # {}
  /\ Chosen \in Key
  /\ Secret \subseteq [form : Form, key : Key]
  /\ \E x \in Secret : x.form = "unset"
  /\ {Down, Unsigned, None} \cap Key = {}
  /\ Down # Unsigned /\ Down # None /\ Unsigned # None
  /\ {Patience, ScanPeriod, ScansNeeded, MaxCrashes} \subseteq Nat

VARIABLES
  secret,     \* per server: its environment's DNSSEC_PRIVATE_KEY
  process,    \* per server: Down, Unsigned, or the key it signs with
  confirmed,  \* the servers that the operator saw serving Chosen
  waited,     \* time since the last of them, up to Patience
  ds,         \* the DS at the parent
  day,        \* time since the registry's last scan
  agreeing,   \* the CDS of the last scan, and how many in a row had it
  cached,     \* what a resolver holds: signed by a key, unsigned, None
  crashes

vars == <<secret, process, confirmed, waited, ds, day, agreeing, cached, crashes>>

servers  == <<secret, process>>
operator == <<confirmed, waited>>
registry == <<day, agreeing>>

-----------------------------------------------------------------------------
(* Key input and what is published about a key. *)

FaultyKeyStr(raw) ==
  IF raw.form \in {"pkcs8", "sec1", "hex"} THEN raw.key ELSE None

(* PKCS#8 and SEC1 PEM, also with its newlines escaped, and 64 hex digits;  *)
(* None is an error.                                                       *)
from_private_key_str(raw) ==
  IF raw.form \in {"pkcs8", "sec1", "escaped", "hex"} THEN raw.key ELSE None

FaultyFromEnv(raw) ==
  IF from_private_key_str(raw) = None THEN Unsigned ELSE from_private_key_str(raw)

(* The process does not get past an error here: it panics, and is Down. *)
from_env(raw) ==
  IF raw.form \in {"unset", "blank"} THEN Unsigned
  ELSE IF from_private_key_str(raw) = None THEN Down
  ELSE from_private_key_str(raw)

ds_rdata(key, zone) == [key |-> key, zone |-> zone]

(* The zone served, and the zone the generated key's DS is printed for. *)
glue_name      == IF GlueName = Unset THEN "ns.example.com" ELSE GlueName
generated_zone == IF GlueName = Unset THEN "example.com" ELSE GlueName

cds(s) == ds_rdata(process[s], glue_name)

-----------------------------------------------------------------------------
Init ==
  /\ secret = [s \in Server |-> CHOOSE x \in Secret : x.form = "unset"]
  /\ process = [s \in Server |-> Unsigned]
  /\ confirmed = {} /\ waited = 0
  /\ ds = None
  /\ day = 0 /\ agreeing = [cds |-> None, scans |-> 0]
  /\ cached = None
  /\ crashes = 0

FaultyStart(s) ==
  /\ process[s] = Down
  /\ process' = [process EXCEPT ![s] =
                   IF from_env(secret[s]) = Down THEN Down
                   ELSE CHOOSE k \in Key : k # Chosen]
  /\ process'[s] # Down
  /\ UNCHANGED <<secret, operator, ds, registry, cached, crashes>>

(* Config::from_env: the key is read once, when the process starts. *)
Start(s) ==
  /\ process[s] = Down
  /\ process' = [process EXCEPT ![s] = from_env(secret[s])]
  /\ process'[s] # Down
  /\ UNCHANGED <<secret, operator, ds, registry, cached, crashes>>

Crash(s) ==
  /\ process[s] # Down
  /\ IF ds = None THEN crashes < MaxCrashes /\ crashes' = crashes + 1 ELSE UNCHANGED crashes
  /\ process' = [process EXCEPT ![s] = Down]
  /\ UNCHANGED <<secret, operator, ds, registry, cached>>

(* Steps 1 and 2 of the README: a server is replaced by one with another   *)
(* environment, until it is right; later, again and perhaps wrongly.  The  *)
(* same wrong key is never given to all.                                   *)
Deploy(s, x) ==
  /\ IF ds = None THEN from_env(secret[s]) # Chosen
     ELSE from_private_key_str(x) \in {ds.key, None} /\ x.form \notin {"unset", "blank"}
  /\ secret' = [secret EXCEPT ![s] = x]
  /\ process' = [process EXCEPT ![s] = Down]
  /\ \A k \in Key \ {Chosen} : \E r \in Server : from_env(secret'[r]) # k
  /\ confirmed' = confirmed \ {s}
  /\ UNCHANGED <<waited, ds, registry, cached, crashes>>

(* dig DNSKEY and CDS over TCP. *)
Confirm(s) ==
  /\ process[s] = Chosen /\ s \notin confirmed
  /\ confirmed' = confirmed \cup {s}
  /\ waited' = 0
  /\ UNCHANGED <<servers, ds, registry, cached, crashes>>

(* Step 3: the DS that a server printed when it started, or the one that   *)
(* was printed with the generated key.                                     *)
Publish ==
  /\ ds = None
  /\ confirmed = Server /\ waited = Patience
  /\ \E zone \in {glue_name, generated_zone} : ds' = ds_rdata(Chosen, zone)
  /\ UNCHANGED <<servers, operator, registry, cached, crashes>>

(* The registry installs a DS that all servers have asked for in enough    *)
(* scans; one that finds a server down or unsigned starts over.            *)
Scan ==
  /\ day = ScanPeriod
  /\ day' = 0
  /\ IF \E k \in Key : \A s \in Server : process[s] = k
     THEN \E s \in Server :
            LET n == IF agreeing.cds = cds(s) THEN agreeing.scans + 1 ELSE 1 IN
            IF n >= ScansNeeded
            THEN /\ ds' = cds(s)
                 /\ agreeing' = [cds |-> None, scans |-> 0]
            ELSE /\ agreeing' = [cds |-> cds(s), scans |-> n]
                 /\ UNCHANGED ds
     ELSE /\ agreeing' = [cds |-> None, scans |-> 0]
          /\ UNCHANGED ds
  /\ UNCHANGED <<servers, operator, cached, crashes>>

(* A resolver caches what a running server answers, signed or not. *)
Fetch(s) ==
  /\ process[s] # Down /\ cached = None
  /\ cached' = process[s]
  /\ UNCHANGED <<servers, operator, ds, registry, crashes>>

(* One TTL passes. *)
Tick ==
  /\ day < ScanPeriod
  /\ day' = day + 1
  /\ waited' = IF waited < Patience THEN waited + 1 ELSE waited
  /\ cached' = None
  /\ UNCHANGED <<servers, confirmed, ds, agreeing, crashes>>

Operator == Publish \/ \E s \in Server : Confirm(s) \/ \E x \in Secret : Deploy(s, x)

Next ==
  \/ Operator \/ Scan \/ Tick
  \/ \E s \in Server : Start(s) \/ Crash(s) \/ Fetch(s)

(* The supervisor starts what is down, and time and registry go on. *)
Fairness == WF_vars(Tick) /\ WF_vars(Scan) /\ \A s \in Server : WF_vars(Start(s))

Spec == Init /\ [][Next]_vars /\ Fairness

-----------------------------------------------------------------------------
(* A running process has the key of its environment, in whatever form it   *)
(* was given, and none otherwise.                                          *)
TypeOK ==
  /\ secret \in [Server -> Secret]
  /\ process \in [Server -> Key \cup {Down, Unsigned}]
  /\ \A s \in Server : process[s] \in {Down, from_env(secret[s])}
  /\ confirmed \subseteq Server
  /\ waited \in 0..Patience /\ day \in 0..ScanPeriod
  /\ ds \in {None} \cup {ds_rdata(k, z) : k \in Key, z \in {glue_name, generated_zone}}
  /\ agreeing.scans \in 0..ScansNeeded
  /\ cached \in Key \cup {Unsigned, None}

(* dnssec.rs:179: "Deploy this key and serve CDS/CDNSKEY *before*          *)
(* publishing DS"; README.md:234: "validating resolvers will SERVFAIL the  *)
(* whole zone until the child is signing".  Once there is a DS, whatever   *)
(* any server says and whatever a cache still holds validates against it:  *)
(* a server with a bad secret is down and never unsigned.                  *)
NeverBogus ==
  ds # None =>
    /\ \A s \in Server : process[s] # Down => cds(s) = ds
    /\ cached # None => cached = ds.key

Given(s) ==
  secret[s].key = Chosen /\ secret[s].form \in {"hex", "pkcs8", "sec1", "escaped"}

(* If every server is given the key in the end, in any documented form and *)
(* not the same one everywhere, the zone is secured without anybody        *)
(* pasting a DS: the servers ask for it with their CDS.                    *)
EventuallySecured == <>[](\A s \in Server : Given(s)) => <>(ds # None)
=============================================================================
