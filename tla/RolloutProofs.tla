--------------------------- MODULE RolloutProofs ----------------------------
(***************************************************************************)
(* Proofs about Rollout for any servers, keys and secrets.                 *)
(*                                                                         *)
(* The inductive invariant says what each of the two ways to a DS relies   *)
(* on.  The operator's: a confirmed server keeps the chosen key, and a     *)
(* time after the last confirmation no cache holds anything older.  The    *)
(* registry's: the same key on all servers can only be the chosen one, and *)
(* between two scans that agree every cache has turned over.               *)
(***************************************************************************)
EXTENDS Rollout, TLAPS

(* The README's order is followed: GLUE_NAME is set, and the registry      *)
(* scans more than once, a TTL or more apart.  The wait of a TTL after the *)
(* last confirmation is what a careful operator adds to it.                *)
AsDocumented ==
  /\ GlueName # Unset
  /\ Patience > 0
  /\ ScanPeriod > 0 /\ ScansNeeded > 1

ChosenEverywhere == \A s \in Server : from_env(secret[s]) = Chosen

CacheIsChosen == cached \in {None, Chosen}

(* No other key is on all servers. *)
NoOtherKey == \A k \in Key \ {Chosen} : \E s \in Server : from_env(secret[s]) # k

ConfirmedAreChosen == \A s \in confirmed : from_env(secret[s]) = Chosen

OperatorIsRight ==
  ds = None /\ confirmed = Server /\ waited > 0 => CacheIsChosen

RegistryIsRight ==
  ds = None /\ agreeing.scans > 0 =>
    ChosenEverywhere /\ (day > 0 => CacheIsChosen)

(* Once there is a DS, a server has the chosen key or does not run. *)
Secured ==
  ds # None =>
    /\ ds = ds_rdata(Chosen, glue_name)
    /\ \A s \in Server : from_env(secret[s]) \in {Chosen, Down}
    /\ CacheIsChosen

IInv ==
  /\ TypeOK
  /\ NoOtherKey
  /\ ds = None => ConfirmedAreChosen
  /\ OperatorIsRight
  /\ RegistryIsRight
  /\ Secured

-----------------------------------------------------------------------------
(* The operators. *)

(* A secret yields a key of Key or nothing. *)
LEMMA KeyStrs ==
  \A x \in Secret : from_private_key_str(x) \in Key \cup {None}
BY RolloutAssumption DEF from_private_key_str

LEMMA FromEnvs ==
  \A x \in Secret : from_env(x) \in Key \cup {Down, Unsigned}
BY KeyStrs DEF from_env

(* A running process has what its environment says. *)
LEMMA RunningProcess ==
  ASSUME TypeOK, NEW s \in Server, process[s] # Down
  PROVE  process[s] = from_env(secret[s])
BY DEF TypeOK

LEMMA CommonKeyIsChosen ==
  ASSUME TypeOK, NoOtherKey,
         NEW k \in Key, \A s \in Server : process[s] = k
  PROVE  k = Chosen /\ ChosenEverywhere
<1>1. k # Down
  BY RolloutAssumption
<1>2. \A s \in Server : from_env(secret[s]) = k
  BY <1>1, RunningProcess
<1>3. QED
  BY <1>2 DEF NoOtherKey, ChosenEverywhere

-----------------------------------------------------------------------------
(* Types. *)

LEMMA InitTypeOK == Init => TypeOK
<1>1. SUFFICES ASSUME Init PROVE TypeOK
  OBVIOUS
<1>2. PICK x \in Secret : x.form = "unset" /\ secret = [s \in Server |-> x]
  BY <1>1, RolloutAssumption DEF Init
<1>3. from_env(x) = Unsigned
  BY <1>2 DEF from_env
<1>4. secret \in [Server -> Secret] /\ process \in [Server -> Key \cup {Down, Unsigned}]
  BY <1>1, <1>2 DEF Init
<1>5. \A s \in Server : process[s] \in {Down, from_env(secret[s])}
  BY <1>1, <1>2, <1>3 DEF Init
<1>6. waited \in 0..Patience /\ day \in 0..ScanPeriod /\ agreeing.scans \in 0..ScansNeeded
  BY <1>1, RolloutAssumption DEF Init
<1>7. /\ ds = None /\ confirmed \subseteq Server
      /\ cached \in Key \cup {Unsigned, None}
  BY <1>1 DEF Init
<1>8. QED
  BY <1>4, <1>5, <1>6, <1>7 DEF TypeOK

LEMMA StepTypeOK == TypeOK /\ [Next]_vars => TypeOK'
<1>1. SUFFICES ASSUME TypeOK, [Next]_vars PROVE TypeOK'
  OBVIOUS
<1>2. ASSUME NEW s \in Server, Start(s) PROVE TypeOK'
  <2>1. secret[s] \in Secret
    BY <1>1 DEF TypeOK
  <2>2. from_env(secret[s]) \in Key \cup {Down, Unsigned}
    BY <2>1, FromEnvs
  <2>3. /\ process' \in [Server -> Key \cup {Down, Unsigned}]
        /\ \A r \in Server : process'[r] = IF r = s THEN from_env(secret[s]) ELSE process[r]
    BY <1>1, <1>2, <2>2 DEF Start, TypeOK
  <2>4. UNCHANGED <<secret, confirmed, waited, ds, day, agreeing, cached>>
    BY <1>2 DEF Start, operator, registry
  <2>5. \A r \in Server : process'[r] \in {Down, from_env(secret'[r])}
    BY <1>1, <2>3, <2>4 DEF TypeOK
  <2>6. QED
    BY <1>1, <2>3, <2>4, <2>5 DEF TypeOK
<1>3. ASSUME NEW s \in Server, Crash(s) PROVE TypeOK'
  <2>1. /\ process' \in [Server -> Key \cup {Down, Unsigned}]
        /\ \A r \in Server : process'[r] = IF r = s THEN Down ELSE process[r]
    BY <1>1, <1>3 DEF Crash, TypeOK
  <2>2. UNCHANGED <<secret, confirmed, waited, ds, day, agreeing, cached>>
    BY <1>3 DEF Crash, operator, registry
  <2>3. \A r \in Server : process'[r] \in {Down, from_env(secret'[r])}
    BY <1>1, <2>1, <2>2 DEF TypeOK
  <2>4. QED
    BY <1>1, <2>1, <2>2, <2>3 DEF TypeOK
<1>4. ASSUME NEW s \in Server, NEW x \in Secret, Deploy(s, x) PROVE TypeOK'
  <2>1. /\ secret' \in [Server -> Secret]
        /\ process' \in [Server -> Key \cup {Down, Unsigned}]
        /\ \A r \in Server : /\ process'[r] = IF r = s THEN Down ELSE process[r]
                             /\ r # s => secret'[r] = secret[r]
    BY <1>1, <1>4 DEF Deploy, TypeOK
  <2>2. UNCHANGED <<waited, ds, day, agreeing, cached>> /\ confirmed' \subseteq confirmed
    BY <1>4 DEF Deploy, registry
  <2>3. \A r \in Server : process'[r] \in {Down, from_env(secret'[r])}
    BY <1>1, <2>1 DEF TypeOK
  <2>4. QED
    BY <1>1, <2>1, <2>2, <2>3 DEF TypeOK
<1>5. ASSUME NEW s \in Server, Confirm(s) PROVE TypeOK'
  <2>1. /\ UNCHANGED <<secret, process, ds, day, agreeing, cached>>
        /\ confirmed' = confirmed \cup {s} /\ waited' = 0
    BY <1>5 DEF Confirm, servers, registry
  <2>2. 0 \in 0..Patience
    BY RolloutAssumption
  <2>3. QED
    BY <1>1, <2>1, <2>2 DEF TypeOK
<1>6. ASSUME Publish PROVE TypeOK'
  <2>1. PICK zone \in {glue_name, generated_zone} : ds' = ds_rdata(Chosen, zone)
    BY <1>6 DEF Publish
  <2>2. UNCHANGED <<secret, process, confirmed, waited, day, agreeing, cached>>
    BY <1>6 DEF Publish, servers, operator, registry
  <2>3. Chosen \in Key
    BY RolloutAssumption
  <2>4. QED
    BY <1>1, <2>1, <2>2, <2>3 DEF TypeOK
<1>7. ASSUME Scan PROVE TypeOK'
  <2>1. UNCHANGED <<secret, process, confirmed, waited, cached>> /\ day' = 0
    BY <1>7 DEF Scan, servers, operator
  <2>2. day' \in 0..ScanPeriod
    BY <2>1, RolloutAssumption
  <2>3. CASE UNCHANGED ds /\ agreeing' = [cds |-> None, scans |-> 0]
    <3>1. agreeing'.scans \in 0..ScansNeeded
      BY <2>3, RolloutAssumption
    <3>2. QED
      BY <1>1, <2>1, <2>2, <2>3, <3>1 DEF TypeOK
  <2>4. CASE \E k \in Key : \A s \in Server : process[s] = k
    <3>1. PICK s \in Server :
            LET n == IF agreeing.cds = cds(s) THEN agreeing.scans + 1 ELSE 1 IN
            IF n >= ScansNeeded
            THEN ds' = cds(s) /\ agreeing' = [cds |-> None, scans |-> 0]
            ELSE agreeing' = [cds |-> cds(s), scans |-> n] /\ UNCHANGED ds
      BY <1>7, <2>4 DEF Scan
    <3>2. process[s] \in Key
      BY <2>4
    <3>3. cds(s) \in {ds_rdata(k, z) : k \in Key, z \in {glue_name, generated_zone}}
      BY <3>2 DEF cds
    <3>4. ds' \in {None} \cup {ds_rdata(k, z) : k \in Key, z \in {glue_name, generated_zone}}
      BY <1>1, <3>1, <3>3 DEF TypeOK
    <3>5. agreeing.scans \in Nat /\ ScansNeeded \in Nat
      BY <1>1, RolloutAssumption DEF TypeOK
    <3>6. agreeing'.scans \in 0..ScansNeeded
      BY <3>1, <3>5
    <3>7. QED
      BY <1>1, <2>1, <2>2, <3>4, <3>6 DEF TypeOK
  <2>5. QED
    BY <1>7, <2>3, <2>4 DEF Scan
<1>8. ASSUME NEW s \in Server, Fetch(s) PROVE TypeOK'
  <2>1. UNCHANGED <<secret, process, confirmed, waited, ds, day, agreeing>>
    BY <1>8 DEF Fetch, servers, operator, registry
  <2>2. cached' \in Key \cup {Unsigned}
    BY <1>1, <1>8 DEF Fetch, TypeOK
  <2>3. QED
    BY <1>1, <2>1, <2>2 DEF TypeOK
<1>9. ASSUME Tick PROVE TypeOK'
  <2>1. UNCHANGED <<secret, process, confirmed, ds, agreeing>> /\ cached' = None
    BY <1>9 DEF Tick, servers
  <2>2. waited' \in 0..Patience /\ day' \in 0..ScanPeriod
    BY <1>1, <1>9, RolloutAssumption DEF Tick, TypeOK
  <2>3. QED
    BY <1>1, <2>1, <2>2 DEF TypeOK
<1>10. CASE UNCHANGED vars
  BY <1>1, <1>10 DEF TypeOK, vars
<1>11. QED
  BY <1>1, <1>2, <1>3, <1>4, <1>5, <1>6, <1>7, <1>8, <1>9, <1>10 DEF Next, Operator

(* A process has the key of its environment or none, whatever the operator *)
(* deploys, however often processes crash, whether or not the operator     *)
(* follows the README (Config::from_env, dnssec.rs:212).                   *)
THEOREM TypeCorrect == Spec => []TypeOK
<1>1. QED
  BY InitTypeOK, StepTypeOK, PTL DEF Spec

-----------------------------------------------------------------------------
(* The inductive invariant. *)

LEMMA InitIInv == Init => IInv
<1>1. SUFFICES ASSUME Init PROVE IInv
  OBVIOUS
<1>2. TypeOK
  BY <1>1, InitTypeOK
<1>3. PICK x \in Secret : x.form = "unset" /\ secret = [s \in Server |-> x]
  BY <1>1, RolloutAssumption DEF Init
<1>4. \A s \in Server : from_env(secret[s]) = Unsigned
  BY <1>3 DEF from_env
<1>5. NoOtherKey
  BY <1>4, RolloutAssumption DEF NoOtherKey
<1>6. ConfirmedAreChosen /\ OperatorIsRight /\ RegistryIsRight /\ Secured
  BY <1>1, RolloutAssumption
     DEF Init, ConfirmedAreChosen, OperatorIsRight, RegistryIsRight, Secured
<1>7. QED
  BY <1>2, <1>5, <1>6 DEF IInv

(* A step of a process, which leaves environments, DS and cache alone. *)
LEMMA ServersKeepIInv ==
  ASSUME IInv, TypeOK',
         UNCHANGED <<secret, confirmed, waited, ds, day, agreeing, cached>>
  PROVE  IInv'
BY DEF IInv, NoOtherKey, ConfirmedAreChosen, OperatorIsRight, RegistryIsRight,
       Secured, ChosenEverywhere, CacheIsChosen

LEMMA DeployKeepsIInv ==
  ASSUME IInv, TypeOK', NEW s \in Server, NEW x \in Secret, Deploy(s, x)
  PROVE  IInv'
<1>1. /\ UNCHANGED <<waited, ds, day, agreeing, cached>>
      /\ confirmed' = confirmed \ {s}
      /\ secret'[s] = x
      /\ \A r \in Server : r # s => secret'[r] = secret[r]
  BY DEF Deploy, registry, IInv, TypeOK
<1>2. NoOtherKey'
  BY DEF Deploy, NoOtherKey
<1>3. CASE ds = None
  <2>1. from_env(secret[s]) # Chosen
    BY <1>3 DEF Deploy
  <2>2. ~(agreeing.scans > 0)
    BY <1>3, <2>1 DEF IInv, RegistryIsRight, ChosenEverywhere
  <2>3. RegistryIsRight'
    BY <1>1, <2>2 DEF RegistryIsRight
  <2>4. OperatorIsRight'
    BY <1>1 DEF OperatorIsRight
  <2>5. ConfirmedAreChosen'
    BY <1>1, <1>3 DEF IInv, TypeOK, ConfirmedAreChosen
  <2>6. Secured'
    BY <1>1, <1>3 DEF Secured
  <2>7. QED
    BY <1>2, <2>3, <2>4, <2>5, <2>6 DEF IInv
<1>4. CASE ds # None
  <2>1. ds.key = Chosen
    BY <1>4 DEF IInv, Secured, ds_rdata
  <2>2. from_env(x) \in {Chosen, Down}
    BY <1>4, <2>1 DEF Deploy, from_env
  <2>3. \A r \in Server : from_env(secret'[r]) \in {Chosen, Down}
    BY <1>1, <1>4, <2>2 DEF IInv, Secured
  <2>4. Secured'
    BY <1>1, <1>4, <2>3 DEF IInv, Secured, CacheIsChosen
  <2>5. OperatorIsRight' /\ RegistryIsRight' /\ ds' # None
    BY <1>1, <1>4 DEF OperatorIsRight, RegistryIsRight
  <2>6. QED
    BY <1>2, <2>4, <2>5 DEF IInv
<1>5. QED
  BY <1>3, <1>4

(* The last confirmation starts the wait; the servers stay as they are. *)
LEMMA ConfirmKeepsIInv ==
  ASSUME IInv, TypeOK', NEW s \in Server, Confirm(s)
  PROVE  IInv'
<1>1. /\ UNCHANGED <<secret, process, ds, day, agreeing, cached>>
      /\ confirmed' = confirmed \cup {s} /\ waited' = 0
      /\ process[s] = Chosen
  BY DEF Confirm, servers, registry
<1>2. from_env(secret[s]) = Chosen
  BY <1>1, RunningProcess, RolloutAssumption DEF IInv
<1>3. ds' = None => ConfirmedAreChosen'
  BY <1>1, <1>2 DEF IInv, ConfirmedAreChosen
<1>4. OperatorIsRight'
  BY <1>1 DEF OperatorIsRight
<1>5. NoOtherKey' /\ RegistryIsRight' /\ Secured'
  BY <1>1 DEF IInv, NoOtherKey, RegistryIsRight, Secured, ChosenEverywhere, CacheIsChosen
<1>6. QED
  BY <1>3, <1>4, <1>5 DEF IInv

LEMMA PublishKeepsIInv ==
  ASSUME AsDocumented, IInv, TypeOK', Publish
  PROVE  IInv'
<1>1. /\ UNCHANGED <<secret, process, confirmed, waited, day, agreeing, cached>>
      /\ ds = None /\ confirmed = Server /\ waited > 0
  BY RolloutAssumption DEF Publish, servers, operator, registry, AsDocumented
<1>2. ds' = ds_rdata(Chosen, glue_name)
  BY DEF Publish, AsDocumented, glue_name, generated_zone
<1>3. CacheIsChosen /\ ConfirmedAreChosen
  BY <1>1 DEF IInv, OperatorIsRight
<1>4. Secured'
  BY <1>1, <1>2, <1>3 DEF Secured, CacheIsChosen, ConfirmedAreChosen
<1>5. ConfirmedAreChosen' /\ OperatorIsRight'
  BY <1>1, <1>3 DEF OperatorIsRight, CacheIsChosen, ConfirmedAreChosen
<1>6. NoOtherKey' /\ RegistryIsRight'
  BY <1>1 DEF IInv, NoOtherKey, RegistryIsRight, ChosenEverywhere, CacheIsChosen
<1>7. QED
  BY <1>4, <1>5, <1>6 DEF IInv

(* A key all servers have asked for is the chosen one, and a DS comes at   *)
(* the second scan that agrees or later, so a TTL after the first.         *)
LEMMA ScanKeepsIInv ==
  ASSUME AsDocumented, IInv, TypeOK', Scan
  PROVE  IInv'
<1>1. /\ UNCHANGED <<secret, process, confirmed, waited, cached>>
      /\ day = ScanPeriod /\ day' = 0
  BY DEF Scan, servers, operator
<1>2. day > 0 /\ ~(day' > 0)
  BY <1>1, RolloutAssumption DEF AsDocumented
<1>3. NoOtherKey'
  BY <1>1 DEF IInv, NoOtherKey
<1>4. ASSUME UNCHANGED ds
      PROVE  (ds' = None => ConfirmedAreChosen') /\ OperatorIsRight' /\ Secured'
  BY <1>1, <1>4 DEF IInv, ConfirmedAreChosen, OperatorIsRight, Secured, CacheIsChosen
<1>5. CASE UNCHANGED ds /\ agreeing' = [cds |-> None, scans |-> 0]
  <2>1. RegistryIsRight'
    BY <1>5 DEF RegistryIsRight
  <2>2. QED
    BY <1>3, <1>4, <1>5, <2>1 DEF IInv
<1>6. CASE \E k \in Key : \A s \in Server : process[s] = k
  <2>1. PICK s \in Server :
          LET n == IF agreeing.cds = cds(s) THEN agreeing.scans + 1 ELSE 1 IN
          IF n >= ScansNeeded
          THEN ds' = cds(s) /\ agreeing' = [cds |-> None, scans |-> 0]
          ELSE agreeing' = [cds |-> cds(s), scans |-> n] /\ UNCHANGED ds
    BY <1>6 DEF Scan
  <2>2. PICK k \in Key : \A r \in Server : process[r] = k
    BY <1>6
  <2>3. k = Chosen /\ ChosenEverywhere
    BY <2>2, CommonKeyIsChosen DEF IInv
  <2>4. ChosenEverywhere'
    BY <1>1, <2>3 DEF ChosenEverywhere
  <2>5. RegistryIsRight'
    BY <1>2, <2>4 DEF RegistryIsRight
  <2>6. CASE UNCHANGED ds
    BY <1>3, <1>4, <2>5, <2>6, <1>1 DEF IInv
  <2>7. CASE ds' = cds(s) /\ agreeing.scans + 1 >= ScansNeeded
    <3>1. agreeing.scans \in Nat /\ ScansNeeded \in Nat
      BY RolloutAssumption DEF IInv, TypeOK
    <3>2. agreeing.scans > 0
      BY <2>7, <3>1 DEF AsDocumented
    <3>3. CacheIsChosen
      BY <1>2, <3>2 DEF IInv, RegistryIsRight, Secured
    <3>4. ds' = ds_rdata(Chosen, glue_name)
      BY <2>2, <2>3, <2>7 DEF cds
    <3>5. Secured'
      BY <1>1, <2>4, <3>3, <3>4 DEF Secured, CacheIsChosen, ChosenEverywhere
    <3>6. OperatorIsRight'
      BY <1>1, <3>3 DEF OperatorIsRight, CacheIsChosen
    <3>7. confirmed' \subseteq Server
      BY <1>1 DEF IInv, TypeOK
    <3>8. ConfirmedAreChosen'
      BY <2>4, <3>7 DEF ConfirmedAreChosen, ChosenEverywhere
    <3>9. QED
      BY <1>3, <2>5, <3>5, <3>6, <3>8 DEF IInv
  <2>8. UNCHANGED ds \/ (ds' = cds(s) /\ agreeing.scans + 1 >= ScansNeeded)
    <3>1. ScansNeeded \in Nat /\ ~(1 >= ScansNeeded)
      BY RolloutAssumption DEF AsDocumented
    <3>2. QED
      BY <2>1, <3>1
  <2>9. QED
    BY <2>6, <2>7, <2>8
<1>7. QED
  BY <1>5, <1>6 DEF Scan

LEMMA FetchKeepsIInv ==
  ASSUME IInv, TypeOK', NEW s \in Server, Fetch(s)
  PROVE  IInv'
<1>1. /\ UNCHANGED <<secret, process, confirmed, waited, ds, day, agreeing>>
      /\ cached = None /\ cached' = process[s] /\ process[s] # Down
  BY DEF Fetch, servers, operator, registry
<1>2. cached' = from_env(secret[s])
  BY <1>1, RunningProcess DEF IInv
<1>3. from_env(secret[s]) # Down
  BY <1>1, <1>2
<1>4. OperatorIsRight'
  BY <1>1, <1>2 DEF IInv, OperatorIsRight, ConfirmedAreChosen, CacheIsChosen
<1>5. RegistryIsRight'
  BY <1>1, <1>2 DEF IInv, RegistryIsRight, ChosenEverywhere, CacheIsChosen
<1>6. Secured'
  BY <1>1, <1>2, <1>3 DEF IInv, Secured, CacheIsChosen
<1>7. NoOtherKey' /\ (ds' = None => ConfirmedAreChosen')
  BY <1>1 DEF IInv, NoOtherKey, ConfirmedAreChosen
<1>8. QED
  BY <1>4, <1>5, <1>6, <1>7 DEF IInv

LEMMA TickKeepsIInv ==
  ASSUME IInv, TypeOK', Tick
  PROVE  IInv'
<1>1. UNCHANGED <<secret, process, confirmed, ds, agreeing>> /\ cached' = None
  BY DEF Tick, servers
<1>2. CacheIsChosen'
  BY <1>1 DEF CacheIsChosen
<1>3. QED
  BY <1>1, <1>2 DEF IInv, NoOtherKey, ConfirmedAreChosen, OperatorIsRight,
                    RegistryIsRight, Secured, ChosenEverywhere

LEMMA StepIInv ==
  ASSUME AsDocumented PROVE IInv /\ [Next]_vars => IInv'
<1>1. SUFFICES ASSUME IInv, [Next]_vars PROVE IInv'
  OBVIOUS
<1>2. TypeOK'
  BY <1>1, StepTypeOK DEF IInv
<1>3. ASSUME NEW s \in Server, Start(s) \/ Crash(s) PROVE IInv'
  BY <1>1, <1>2, <1>3, ServersKeepIInv DEF Start, Crash, operator, registry
<1>4. ASSUME NEW s \in Server, NEW x \in Secret, Deploy(s, x) PROVE IInv'
  BY <1>1, <1>2, <1>4, DeployKeepsIInv
<1>5. ASSUME NEW s \in Server, Confirm(s) PROVE IInv'
  BY <1>1, <1>2, <1>5, ConfirmKeepsIInv
<1>6. ASSUME NEW s \in Server, Fetch(s) PROVE IInv'
  BY <1>1, <1>2, <1>6, FetchKeepsIInv
<1>7. CASE Publish
  BY <1>1, <1>2, <1>7, PublishKeepsIInv
<1>8. CASE Scan
  BY <1>1, <1>2, <1>8, ScanKeepsIInv
<1>9. CASE Tick
  BY <1>1, <1>2, <1>9, TickKeepsIInv
<1>10. CASE UNCHANGED vars
  BY <1>1, <1>2, <1>10, ServersKeepIInv DEF vars
<1>11. QED
  BY <1>1, <1>3, <1>4, <1>5, <1>6, <1>7, <1>8, <1>9, <1>10 DEF Next, Operator

LEMMA IInvIsEnough == IInv => NeverBogus
<1>1. SUFFICES ASSUME IInv, ds # None PROVE NeverBogus
  BY DEF NeverBogus
<1>2. ds = ds_rdata(Chosen, glue_name) /\ ds.key = Chosen /\ CacheIsChosen
  BY <1>1 DEF IInv, Secured, ds_rdata
<1>3. ASSUME NEW s \in Server, process[s] # Down PROVE cds(s) = ds
  <2>1. process[s] = from_env(secret[s])
    BY <1>1, <1>3, RunningProcess DEF IInv
  <2>2. process[s] = Chosen
    BY <1>1, <1>3, <2>1 DEF IInv, Secured
  <2>3. QED
    BY <1>2, <2>2 DEF cds
<1>4. QED
  BY <1>2, <1>3 DEF NeverBogus, CacheIsChosen

(* README.md:217 to 236 as a theorem: for any number of servers, keys and  *)
(* mistakes with the secret, whoever has the DS installed, the operator or *)
(* the registry, a server that answers after that signs with the DS's key  *)
(* and no cache holds anything else.  Without GLUE_NAME the DS is printed  *)
(* for another zone (dnssec.rs:161), so AsDocumented asks for it.          *)
THEOREM NeverBogusHolds ==
  ASSUME AsDocumented PROVE Spec => []NeverBogus
<1>1. Init => IInv
  BY InitIInv
<1>2. IInv /\ [Next]_vars => IInv'
  BY StepIInv
<1>3. IInv => NeverBogus
  BY IInvIsEnough
<1>4. QED
  BY <1>1, <1>2, <1>3, PTL DEF Spec
=============================================================================
