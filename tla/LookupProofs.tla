---------------------------- MODULE LookupProofs ----------------------------
(***************************************************************************)
(* Proofs about Lookup for any clients, quota, window and pruning size.    *)
(*                                                                         *)
(* The inductive invariant counts what a calm lookup can still ask of the  *)
(* limiter: what is under way and what the resolver may yet send.  Either  *)
(* the resolver's bucket is over for all of that, or the bucket has room   *)
(* for it.                                                                 *)
(***************************************************************************)
EXTENDS Lookup, TLAPS

Time   == 0..MaxTime
Bucket == [window_start : Time, count : Nat]
CallOf == [ip : Ip, now : Time]

TypeOK ==
  /\ clock \in Time
  /\ state \in [DOMAIN state -> Bucket]
  /\ call \in [{udp, main} -> CallOf \cup {Idle}]
  /\ sent \in Nat /\ conns \in Nat
  /\ last \in Nat \cup {Never}
  /\ calm \in BOOLEAN /\ refused \in BOOLEAN

One(p) == IF p THEN 1 ELSE 0

(* What the limiter will be asked for the resolver before the next Send. *)
StillToCome ==
  sent + conns + One(Ours(udp)) + One(Ours(main)) + One(step \in {"udp", "truncated"})

(* No stamp is in the future, nor is a request of the resolver. *)
StampsArePast ==
  /\ \A t \in {udp, main} : call[t] # Idle => call[t].now <= clock
  /\ last # Never => last <= clock

(* The bucket was opened by a request that was under way then. *)
BucketIsPast ==
  resolver \in DOMAIN state => last # Never /\ state[resolver].window_start <= last

(* The bucket is over at each stamp under way and each one still to come. *)
BucketIsOver ==
  resolver \in DOMAIN state =>
    /\ state[resolver].window_start + Window <= clock
    /\ \A t \in {udp, main} :
         Ours(t) => state[resolver].window_start + Window <= call[t].now

RoomIsLeft ==
  MaxRequests >= 2 /\ calm =>
    /\ ~refused
    /\ \/ BucketIsOver /\ StillToCome <= 2
       \/ resolver \in DOMAIN state /\ state[resolver].count + StillToCome <= 2

IInv == TypeOK /\ StampsArePast /\ BucketIsPast /\ RoomIsLeft

-----------------------------------------------------------------------------
(* The limiter's steps. *)

LEMMA PrunedIsPart ==
  ASSUME TypeOK, NEW n
  PROVE  /\ DOMAIN Limiter!Pruned(n) \subseteq DOMAIN state
         /\ \A i \in DOMAIN Limiter!Pruned(n) : Limiter!Pruned(n)[i] = state[i]
BY DEF Limiter!Pruned

LEMMA CallIsTyped ==
  ASSUME TypeOK, NEW t \in {udp, main}, call[t] # Idle
  PROVE  call[t] \in CallOf /\ call[t].ip \in Ip /\ call[t].now \in Time
BY DEF TypeOK, CallOf

(* A finished call leaves every other bucket as it was, or forgets it. *)
LEMMA Finished ==
  ASSUME TypeOK, NEW t \in {udp, main}, call[t] # Idle, NEW bucket \in Bucket,
         Limiter!Finish(t, bucket)
  PROVE  /\ clock' = clock
         /\ state' \in [DOMAIN state' -> Bucket]
         /\ call' \in [{udp, main} -> CallOf \cup {Idle}]
         /\ call'[t] = Idle
         /\ \A r \in {udp, main} : r # t => call'[r] = call[r]
         /\ call[t].ip \in DOMAIN state' /\ state'[call[t].ip] = bucket
         /\ \A i \in DOMAIN state' :
              i # call[t].ip => i \in DOMAIN state /\ state'[i] = state[i]
<1>1. PICK map : map = Limiter!Pruned(call[t].now)
  OBVIOUS
<1>2. DOMAIN map \subseteq DOMAIN state /\ \A i \in DOMAIN map : map[i] = state[i]
  BY <1>1, PrunedIsPart
<1>3. state' = [j \in DOMAIN map \cup {call[t].ip} |->
                  IF j = call[t].ip THEN bucket ELSE map[j]]
  BY <1>1 DEF Limiter!Finish, Limiter!Put
<1>4. /\ DOMAIN state' = DOMAIN map \cup {call[t].ip}
      /\ state'[call[t].ip] = bucket
      /\ \A i \in DOMAIN map : i # call[t].ip => state'[i] = state[i]
  BY <1>2, <1>3
<1>5. \A i \in DOMAIN state' : state'[i] \in Bucket
  BY <1>2, <1>4 DEF TypeOK
<1>6. state' \in [DOMAIN state' -> Bucket]
  BY <1>3, <1>5
<1>7. call' = [call EXCEPT ![t] = Idle] /\ clock' = clock
  BY DEF Limiter!Finish
<1>8. QED
  BY <1>2, <1>4, <1>6, <1>7 DEF TypeOK

(* What the limiter finds for the caller. *)
LEMMA Found ==
  ASSUME TypeOK, NEW t \in {udp, main}, call[t] # Idle
  PROVE  LET bucket == Limiter!Entry(call[t].ip, call[t].now) IN
         \/ bucket = [window_start |-> call[t].now, count |-> 0]
         \/ call[t].ip \in DOMAIN state /\ bucket = state[call[t].ip]
BY PrunedIsPart DEF Limiter!Entry

(* A request that passes opens a bucket or is one more in a running one. *)
LEMMA PassOutcome ==
  ASSUME TypeOK, NEW t \in {udp, main},
         Limiter!NewWindow(t) \/ Limiter!Count(t)
  PROVE  /\ call[t] # Idle
         /\ \E bucket \in Bucket :
              /\ Limiter!Finish(t, bucket)
              /\ \/ bucket = [window_start |-> call[t].now, count |-> 1]
                 \/ /\ call[t].ip \in DOMAIN state
                    /\ Limiter!Live(state[call[t].ip], call[t].now)
                    /\ bucket.window_start = state[call[t].ip].window_start
                    /\ bucket.count = state[call[t].ip].count + 1
<1>1. call[t] # Idle
  BY DEF Limiter!NewWindow, Limiter!Count
<1>2. call[t].now \in Time
  BY <1>1, CallIsTyped
<1>3. CASE Limiter!NewWindow(t)
  <2>1. [window_start |-> call[t].now, count |-> 1] \in Bucket
    BY <1>2 DEF Bucket
  <2>2. QED
    BY <1>1, <1>3, <2>1 DEF Limiter!NewWindow
<1>4. CASE Limiter!Count(t)
  <2>1. PICK old : old = Limiter!Entry(call[t].ip, call[t].now)
    OBVIOUS
  <2>2. /\ Limiter!Live(old, call[t].now)
        /\ Limiter!Finish(t, [old EXCEPT !.count = @ + 1])
    BY <1>4, <2>1 DEF Limiter!Count
  <2>3. CASE old = [window_start |-> call[t].now, count |-> 0]
    <3>1. [old EXCEPT !.count = @ + 1] = [window_start |-> call[t].now, count |-> 1]
      BY <2>3
    <3>2. [window_start |-> call[t].now, count |-> 1] \in Bucket
      BY <1>2 DEF Bucket
    <3>3. QED
      BY <1>1, <2>2, <3>1, <3>2
  <2>4. CASE call[t].ip \in DOMAIN state /\ old = state[call[t].ip]
    <3>1. old \in Bucket
      BY <2>4 DEF TypeOK
    <3>2. /\ [old EXCEPT !.count = @ + 1] \in Bucket
          /\ [old EXCEPT !.count = @ + 1].window_start = old.window_start
          /\ [old EXCEPT !.count = @ + 1].count = old.count + 1
      BY <3>1 DEF Bucket
    <3>3. QED
      BY <1>1, <2>2, <2>4, <3>2
  <2>5. QED
    BY <1>1, <2>1, <2>3, <2>4, Found
<1>5. QED
  BY <1>3, <1>4

(* A refused one found a bucket whose quota was used up. *)
LEMMA DropOutcome ==
  ASSUME TypeOK, NEW t \in {udp, main}, Limiter!Drop(t)
  PROVE  /\ call[t] # Idle
         /\ \E bucket \in Bucket :
              /\ Limiter!Finish(t, bucket)
              /\ bucket.count >= MaxRequests
              /\ \/ bucket = [window_start |-> call[t].now, count |-> 0]
                 \/ /\ call[t].ip \in DOMAIN state
                    /\ Limiter!Live(state[call[t].ip], call[t].now)
                    /\ bucket = state[call[t].ip]
<1>1. call[t] # Idle
  BY DEF Limiter!Drop
<1>2. call[t].now \in Time
  BY <1>1, CallIsTyped
<1>3. PICK bucket : bucket = Limiter!Entry(call[t].ip, call[t].now)
  OBVIOUS
<1>4. /\ Limiter!Live(bucket, call[t].now) /\ bucket.count >= MaxRequests
      /\ Limiter!Finish(t, bucket)
  BY <1>3 DEF Limiter!Drop
<1>5. \/ bucket = [window_start |-> call[t].now, count |-> 0]
      \/ call[t].ip \in DOMAIN state /\ bucket = state[call[t].ip]
  BY <1>1, <1>3, Found
<1>6. bucket \in Bucket
  BY <1>2, <1>5 DEF TypeOK, Bucket
<1>7. QED
  BY <1>1, <1>4, <1>5, <1>6

(* A running window ends after the stamp. *)
LEMMA LiveEndsLater ==
  ASSUME NEW bucket \in Bucket, NEW n \in Time, Limiter!Live(bucket, n)
  PROVE  ~(bucket.window_start + Window <= n)
<1>1. Window \in Nat /\ bucket.window_start \in Nat /\ n \in Nat
  BY LookupAssumption DEF Bucket, Time
<1>2. (IF n >= bucket.window_start THEN n - bucket.window_start ELSE 0) < Window
  BY DEF Limiter!Live, Limiter!Since
<1>3. QED
  BY <1>1, <1>2

LEMMA Called ==
  ASSUME TypeOK, NEW t \in {udp, main}, NEW i \in Ip, Limiter!Call(t, i)
  PROVE  /\ UNCHANGED <<clock, state>>
         /\ call[t] = Idle /\ call'[t] # Idle
         /\ call'[t].ip = i /\ call'[t].now = clock
         /\ call' \in [{udp, main} -> CallOf \cup {Idle}]
         /\ \A r \in {udp, main} : r # t => call'[r] = call[r]
<1>1. /\ call[t] = Idle /\ UNCHANGED <<clock, state>>
      /\ call' = [call EXCEPT ![t] = [ip |-> i, now |-> clock]]
  BY DEF Limiter!Call
<1>2. [ip |-> i, now |-> clock] \in CallOf
  BY DEF CallOf, TypeOK
<1>3. Idle \notin CallOf
  BY LookupAssumption DEF CallOf, Time
<1>4. QED
  BY <1>1, <1>2, <1>3 DEF TypeOK

-----------------------------------------------------------------------------
(* Counting what is under way. *)

LEMMA OneLess ==
  ASSUME NEW count \in Nat, NEW before \in Nat, NEW after \in Nat,
         after + 1 <= before, count + before <= 2
  PROVE  count < 2 /\ (count + 1) + after <= 2
OBVIOUS

LEMMA CountIsTyped ==
  ASSUME sent \in Nat, conns \in Nat
  PROVE  StillToCome \in Nat
BY DEF StillToCome, One

(* Other clients do not move the resolver's bucket; pruning may. *)
LEMMA RoomIsKept ==
  ASSUME IInv, TypeOK', UNCHANGED <<calm, refused>>,
         resolver \in DOMAIN state' =>
           resolver \in DOMAIN state /\ state'[resolver] = state[resolver],
         StillToCome' <= StillToCome,
         clock <= clock',
         \A t \in {udp, main} : Ours(t)' =>
           call'[t] = call[t] \/ call'[t].now = clock
  PROVE  RoomIsLeft'
<1>1. SUFFICES ASSUME MaxRequests >= 2, calm
               PROVE  /\ ~refused'
                      /\ \/ BucketIsOver' /\ StillToCome' <= 2
                         \/ resolver \in DOMAIN state' /\ state'[resolver].count + StillToCome' <= 2
  BY DEF RoomIsLeft
<1>2. /\ StillToCome \in Nat /\ StillToCome' \in Nat
      /\ clock \in Nat /\ clock' \in Nat /\ Window \in Nat
  BY CountIsTyped, LookupAssumption DEF IInv, TypeOK, StillToCome, One, Time
<1>3. ~refused' /\ \/ BucketIsOver /\ StillToCome <= 2
                   \/ resolver \in DOMAIN state /\ state[resolver].count + StillToCome <= 2
  BY <1>1 DEF IInv, RoomIsLeft
<1>4. resolver \in DOMAIN state => state[resolver].window_start \in Nat /\ state[resolver].count \in Nat
  BY DEF IInv, TypeOK, Bucket, Time
<1>5. CASE BucketIsOver /\ StillToCome <= 2
  <2>1. \A t \in {udp, main} : Ours(t)' /\ call'[t] = call[t] => Ours(t)
    BY DEF Ours
  <2>2. BucketIsOver'
    BY <1>2, <1>4, <1>5, <2>1 DEF BucketIsOver
  <2>3. QED
    BY <1>2, <1>3, <1>5, <2>2
<1>6. CASE resolver \in DOMAIN state /\ state[resolver].count + StillToCome <= 2
  <2>1. CASE resolver \in DOMAIN state'
    BY <1>2, <1>3, <1>4, <1>6, <2>1
  <2>2. CASE resolver \notin DOMAIN state'
    <3>1. BucketIsOver'
      BY <2>2 DEF BucketIsOver
    <3>2. QED
      BY <1>2, <1>3, <1>4, <1>6, <3>1
  <2>3. QED
    BY <2>1, <2>2
<1>7. QED
  BY <1>3, <1>5, <1>6

-----------------------------------------------------------------------------
(* The resolver's steps. *)

LEMMA SendKeeps == IInv /\ Send => IInv'
<1>1. SUFFICES ASSUME IInv, Send PROVE IInv'
  OBVIOUS
<1>2. /\ UNCHANGED <<clock, state, call, conns, last>>
      /\ step = "idle" /\ step' = "udp" /\ sent' = sent + 1
      /\ calm' = (~UnderWay /\ (last = Never \/ clock >= last + Window))
      /\ refused' = FALSE
  BY <1>1 DEF Send, limiter
<1>3. calm' \in BOOLEAN /\ refused' \in BOOLEAN
  BY <1>2
<1>4. TypeOK'
  BY <1>1, <1>2, <1>3 DEF IInv, TypeOK
<1>5. StampsArePast' /\ BucketIsPast'
  BY <1>1, <1>2 DEF IInv, StampsArePast, BucketIsPast
<1>6. ASSUME calm' PROVE BucketIsOver' /\ StillToCome' <= 2
  <2>1. ~UnderWay /\ (last = Never \/ clock >= last + Window)
    BY <1>2, <1>6
  <2>2. sent = 0 /\ conns = 0 /\ \A t \in {udp, main} : ~Ours(t)
    BY <1>1, <2>1 DEF UnderWay, IInv, TypeOK
  <2>3. \A t \in {udp, main} : ~Ours(t)'
    BY <1>2, <2>2 DEF Ours
  <2>4. StillToCome' <= 2
    BY <1>2, <2>2, <2>3 DEF StillToCome, One
  <2>5. ASSUME resolver \in DOMAIN state PROVE state[resolver].window_start + Window <= clock
    <3>1. last # Never /\ state[resolver].window_start <= last
      BY <1>1, <2>5 DEF IInv, BucketIsPast
    <3>2. /\ last \in Nat /\ clock \in Nat /\ Window \in Nat
          /\ state[resolver].window_start \in Nat
      BY <1>1, <2>5, <3>1, LookupAssumption DEF IInv, TypeOK, Bucket, Time
    <3>3. QED
      BY <2>1, <3>1, <3>2
  <2>6. BucketIsOver'
    BY <1>2, <2>3, <2>5 DEF BucketIsOver
  <2>7. QED
    BY <2>4, <2>6
<1>7. RoomIsLeft'
  BY <1>2, <1>6 DEF RoomIsLeft
<1>8. QED
  BY <1>4, <1>5, <1>7 DEF IInv

(* A step that leaves the limiter alone and adds nothing to what comes. *)
LEMMA QuietKeeps ==
  ASSUME IInv, UNCHANGED <<clock, state, call, calm, refused>>,
         sent' \in Nat, conns' \in Nat,
         last' \in {last, clock},
         StillToCome' <= StillToCome
  PROVE  IInv'
<1>1. clock \in Nat /\ (last # Never => last \in Nat /\ last <= clock)
  BY DEF IInv, TypeOK, Time, StampsArePast
<1>2. clock # Never
  BY <1>1, LookupAssumption
<1>3. TypeOK'
  BY <1>1 DEF IInv, TypeOK
<1>4. StampsArePast'
  BY <1>1 DEF IInv, StampsArePast
<1>5. BucketIsPast'
  <2>1. resolver \in DOMAIN state => state[resolver].window_start \in Nat
    BY DEF IInv, TypeOK, Bucket, Time
  <2>2. QED
    BY <1>1, <1>2, <2>1 DEF IInv, BucketIsPast
<1>6. RoomIsLeft'
  BY <1>1, <1>3, RoomIsKept
<1>7. QED
  BY <1>3, <1>4, <1>5, <1>6 DEF IInv

LEMMA ConnectKeeps == IInv /\ Connect => IInv'
<1>1. SUFFICES ASSUME IInv, Connect PROVE IInv'
  OBVIOUS
<1>2. /\ UNCHANGED <<clock, state, call, calm, refused, sent, last>>
      /\ step = "truncated" /\ step' = "tcp" /\ conns = 0 /\ conns' = 1
  BY <1>1 DEF Connect, limiter, history
<1>3. Ours(udp)' = Ours(udp) /\ Ours(main)' = Ours(main)
  BY <1>2 DEF Ours
<1>4. sent \in Nat
  BY <1>1 DEF IInv, TypeOK
<1>5. StillToCome' <= StillToCome
  BY <1>2, <1>3, <1>4 DEF StillToCome, One
<1>6. QED
  BY <1>1, <1>2, <1>4, <1>5, QuietKeeps

LEMMA GiveUpKeeps == IInv /\ GiveUp => IInv'
<1>1. SUFFICES ASSUME IInv, GiveUp PROVE IInv'
  OBVIOUS
<1>2. UNCHANGED <<clock, state, call, calm, refused, sent, conns, last>> /\ step' = "idle"
  BY <1>1 DEF GiveUp, limiter, history
<1>3. Ours(udp)' = Ours(udp) /\ Ours(main)' = Ours(main)
  BY <1>2 DEF Ours
<1>4. sent \in Nat /\ conns \in Nat
  BY <1>1 DEF IInv, TypeOK
<1>5. StillToCome' <= StillToCome
  BY <1>2, <1>3, <1>4 DEF StillToCome, One
<1>6. QED
  BY <1>1, <1>2, <1>4, <1>5, QuietKeeps

LEMMA LoseKeeps == IInv /\ Lose => IInv'
<1>1. SUFFICES ASSUME IInv, Lose PROVE IInv'
  OBVIOUS
<1>2. /\ UNCHANGED <<clock, state, call, calm, refused, step, conns>>
      /\ sent > 0 /\ sent' = sent - 1 /\ last' = clock
  BY <1>1 DEF Lose, limiter, history
<1>3. Ours(udp)' = Ours(udp) /\ Ours(main)' = Ours(main)
  BY <1>2 DEF Ours
<1>4. sent \in Nat /\ sent' \in Nat /\ conns \in Nat
  BY <1>1, <1>2 DEF IInv, TypeOK
<1>5. StillToCome' <= StillToCome
  BY <1>2, <1>3, <1>4 DEF StillToCome, One
<1>6. QED
  BY <1>1, <1>2, <1>4, <1>5, QuietKeeps

-----------------------------------------------------------------------------
(* The server's steps. *)

(* A call, for the resolver or for another client. *)
LEMMA CallKeeps ==
  ASSUME IInv, NEW t \in {udp, main}, NEW i \in Ip, Limiter!Call(t, i),
         UNCHANGED <<last, calm, refused>>, sent' \in Nat, conns' \in Nat,
         StillToCome' <= StillToCome
  PROVE  IInv'
<1>1. TypeOK
  BY DEF IInv
<1>2. /\ UNCHANGED <<clock, state>>
      /\ call'[t] # Idle /\ call'[t].now = clock
      /\ call' \in [{udp, main} -> CallOf \cup {Idle}]
      /\ \A r \in {udp, main} : r # t => call'[r] = call[r]
  BY <1>1, Called
<1>3. TypeOK'
  BY <1>1, <1>2 DEF TypeOK
<1>4. clock \in Nat
  BY <1>1 DEF TypeOK, Time
<1>5. StampsArePast'
  BY <1>2, <1>4 DEF IInv, StampsArePast
<1>6. BucketIsPast'
  BY <1>2 DEF IInv, BucketIsPast
<1>7. \A r \in {udp, main} : call'[r] = call[r] \/ call'[r].now = clock
  BY <1>2
<1>8. RoomIsLeft'
  BY <1>2, <1>3, <1>4, <1>7, RoomIsKept
<1>9. QED
  BY <1>3, <1>5, <1>6, <1>8 DEF IInv

LEMMA ReceiveKeeps == IInv /\ Receive => IInv'
<1>1. SUFFICES ASSUME IInv, Receive PROVE IInv'
  OBVIOUS
<1>2. /\ Limiter!Call(udp, resolver) /\ sent > 0 /\ sent' = sent - 1
      /\ UNCHANGED <<step, conns, last, calm, refused>>
  BY <1>1 DEF Receive, history
<1>3. sent \in Nat /\ sent' \in Nat /\ conns \in Nat
  BY <1>1, <1>2 DEF IInv, TypeOK
<1>4. ~Ours(udp) /\ Ours(udp)' /\ Ours(main)' = Ours(main)
  BY <1>1, <1>2, Called, LookupAssumption DEF Ours, IInv
<1>5. StillToCome' <= StillToCome
  BY <1>2, <1>3, <1>4 DEF StillToCome, One
<1>6. QED
  BY <1>1, <1>2, <1>3, <1>5, CallKeeps, LookupAssumption

LEMMA AcceptKeeps == IInv /\ Accept => IInv'
<1>1. SUFFICES ASSUME IInv, Accept PROVE IInv'
  OBVIOUS
<1>2. /\ Limiter!Call(main, resolver) /\ conns > 0 /\ conns' = conns - 1
      /\ UNCHANGED <<step, sent, last, calm, refused>>
  BY <1>1 DEF Accept, history
<1>3. conns \in Nat /\ conns' \in Nat /\ sent \in Nat
  BY <1>1, <1>2 DEF IInv, TypeOK
<1>4. ~Ours(main) /\ Ours(main)' /\ Ours(udp)' = Ours(udp)
  BY <1>1, <1>2, Called, LookupAssumption DEF Ours, IInv
<1>5. StillToCome' <= StillToCome
  BY <1>2, <1>3, <1>4 DEF StillToCome, One
<1>6. QED
  BY <1>1, <1>2, <1>3, <1>5, CallKeeps, LookupAssumption

(* What the end of a request of the resolver does to all but RoomIsLeft. *)
LEMMA OursEnds ==
  ASSUME IInv, NEW t \in {udp, main}, Ours(t),
         NEW bucket \in Bucket, Limiter!Finish(t, bucket),
         \/ bucket.window_start = call[t].now
         \/ resolver \in DOMAIN state /\ bucket.window_start = state[resolver].window_start,
         last' = clock, refused' \in BOOLEAN, UNCHANGED <<sent, conns, calm>>,
         One(step \in {"udp", "truncated"})' <= One(step \in {"udp", "truncated"})
  PROVE  /\ TypeOK' /\ StampsArePast' /\ BucketIsPast'
         /\ resolver \in DOMAIN state' /\ state'[resolver] = bucket
         /\ StillToCome \in Nat /\ StillToCome' \in Nat
         /\ StillToCome' + 1 <= StillToCome
<1>1. TypeOK
  BY DEF IInv
<1>2. call[t] # Idle /\ call[t].ip = resolver
  BY DEF Ours
<1>3. /\ clock' = clock
      /\ state' \in [DOMAIN state' -> Bucket]
      /\ call' \in [{udp, main} -> CallOf \cup {Idle}]
      /\ call'[t] = Idle
      /\ \A r \in {udp, main} : r # t => call'[r] = call[r]
      /\ resolver \in DOMAIN state' /\ state'[resolver] = bucket
  BY <1>1, <1>2, Finished
<1>4. clock \in Nat /\ clock \in Time /\ clock # Never
  BY <1>1, LookupAssumption DEF TypeOK, Time
<1>5. TypeOK'
  BY <1>1, <1>3, <1>4 DEF TypeOK, Time
<1>6. StampsArePast'
  BY <1>3, <1>4 DEF IInv, StampsArePast
<1>7. bucket.window_start <= clock
  <2>1. CASE bucket.window_start = call[t].now
    BY <1>2, <2>1 DEF IInv, StampsArePast
  <2>2. CASE resolver \in DOMAIN state /\ bucket.window_start = state[resolver].window_start
    <3>1. bucket.window_start <= last /\ last <= clock /\ last # Never
      BY <2>2 DEF IInv, BucketIsPast, StampsArePast
    <3>2. bucket.window_start \in Nat /\ last \in Nat
      BY <1>1, <3>1 DEF TypeOK, Bucket, Time
    <3>3. QED
      BY <1>4, <3>1, <3>2
  <2>3. QED
    BY <2>1, <2>2
<1>8. BucketIsPast'
  BY <1>3, <1>4, <1>7 DEF BucketIsPast
<1>9. PICK r \in {udp, main} :
        /\ r # t
        /\ One(Ours(udp)) + One(Ours(main)) = One(Ours(t)) + One(Ours(r))
        /\ One(Ours(udp))' + One(Ours(main))' = One(Ours(t))' + One(Ours(r))'
  <2>1. CASE t = udp
    BY <2>1, LookupAssumption
  <2>2. CASE t = main
    BY <2>2, LookupAssumption DEF One
  <2>3. QED
    BY <2>1, <2>2
<1>10. One(Ours(t)) = 1 /\ One(Ours(t))' = 0 /\ One(Ours(r))' = One(Ours(r))
  BY <1>3, <1>9 DEF One, Ours
<1>11. One(Ours(udp)) + One(Ours(main)) = One(Ours(udp))' + One(Ours(main))' + 1
  BY <1>9, <1>10 DEF One
<1>12. /\ One(Ours(udp)) \in Nat /\ One(Ours(main)) \in Nat
       /\ One(Ours(udp))' \in Nat /\ One(Ours(main))' \in Nat
       /\ One(step \in {"udp", "truncated"}) \in Nat
       /\ One(step \in {"udp", "truncated"})' \in Nat
       /\ sent \in Nat /\ conns \in Nat
  BY <1>1 DEF One, TypeOK
<1>13. StillToCome' + 1 <= StillToCome /\ StillToCome \in Nat /\ StillToCome' \in Nat
  BY <1>11, <1>12 DEF StillToCome
<1>14. QED
  BY <1>3, <1>5, <1>6, <1>8, <1>13

(* A request that passes takes its place in the bucket. *)
LEMMA PassKeeps ==
  ASSUME IInv, NEW t \in {udp, main}, Passes(t),
         One(step \in {"udp", "truncated"})' <= One(step \in {"udp", "truncated"})
  PROVE  IInv'
<1>1. /\ Ours(t) /\ call[t] # Idle /\ call[t].ip = resolver
      /\ Limiter!NewWindow(t) \/ Limiter!Count(t)
      /\ last' = clock /\ UNCHANGED <<sent, conns, calm, refused>>
  BY DEF Passes, Ours, history
<1>2. PICK bucket \in Bucket :
        /\ Limiter!Finish(t, bucket)
        /\ \/ bucket = [window_start |-> call[t].now, count |-> 1]
           \/ /\ resolver \in DOMAIN state
              /\ Limiter!Live(state[resolver], call[t].now)
              /\ bucket.window_start = state[resolver].window_start
              /\ bucket.count = state[resolver].count + 1
  BY <1>1, PassOutcome DEF IInv
<1>3. refused' \in BOOLEAN
  BY <1>1 DEF IInv, TypeOK
<1>4. \/ bucket.window_start = call[t].now
      \/ resolver \in DOMAIN state /\ bucket.window_start = state[resolver].window_start
  BY <1>2
<1>5. /\ TypeOK' /\ StampsArePast' /\ BucketIsPast'
      /\ resolver \in DOMAIN state' /\ state'[resolver] = bucket
      /\ StillToCome \in Nat /\ StillToCome' \in Nat
      /\ StillToCome' + 1 <= StillToCome
  BY <1>1, <1>2, <1>3, <1>4, OursEnds
<1>6. ASSUME MaxRequests >= 2, calm
      PROVE  ~refused' /\ bucket.count + StillToCome' <= 2
  <2>1. /\ ~refused
        /\ \/ BucketIsOver /\ StillToCome <= 2
           \/ resolver \in DOMAIN state /\ state[resolver].count + StillToCome <= 2
    BY <1>6 DEF IInv, RoomIsLeft
  <2>2. resolver \in DOMAIN state => state[resolver] \in Bucket /\ state[resolver].count \in Nat
    BY DEF IInv, TypeOK, Bucket
  <2>3. ~refused'
    BY <1>1, <2>1
  <2>4. CASE bucket = [window_start |-> call[t].now, count |-> 1]
    <3>1. bucket.count = 1 /\ StillToCome <= 2
      BY <1>5, <2>1, <2>2, <2>4
    <3>2. bucket.count + StillToCome' <= 2
      BY <1>5, <3>1
    <3>3. QED
      BY <2>3, <3>2
  <2>5. CASE /\ resolver \in DOMAIN state
             /\ Limiter!Live(state[resolver], call[t].now)
             /\ bucket.count = state[resolver].count + 1
    <3>1. call[t].now \in Time
      BY <1>1, CallIsTyped DEF IInv
    <3>2. ~(state[resolver].window_start + Window <= call[t].now)
      BY <2>2, <2>5, <3>1, LiveEndsLater
    <3>3. ~BucketIsOver
      BY <1>1, <2>5, <3>2 DEF BucketIsOver
    <3>4. state[resolver].count + StillToCome <= 2
      BY <2>1, <3>3
    <3>5. (state[resolver].count + 1) + StillToCome' <= 2
      BY <1>5, <2>2, <2>5, <3>4, OneLess
    <3>6. QED
      BY <2>3, <2>5, <3>5
  <2>6. QED
    BY <1>2, <2>4, <2>5
<1>7. RoomIsLeft'
  BY <1>1, <1>5, <1>6 DEF RoomIsLeft
<1>8. QED
  BY <1>5, <1>7 DEF IInv

LEMMA AnswerKeeps == IInv /\ (AnswerDatagram \/ AnswerConnection) => IInv'
<1>1. SUFFICES ASSUME IInv, AnswerDatagram \/ AnswerConnection PROVE IInv'
  OBVIOUS
<1>2. PICK t \in {udp, main} : Passes(t)
  BY <1>1 DEF AnswerDatagram, AnswerConnection
<1>3. One(step \in {"udp", "truncated"})' <= One(step \in {"udp", "truncated"})
  BY <1>1 DEF AnswerDatagram, AnswerConnection, One
<1>4. QED
  BY <1>1, <1>2, <1>3, PassKeeps

(* A request is refused only when the lookup is not calm. *)
LEMMA RefuseKeeps ==
  ASSUME IInv, NEW t \in {udp, main}, Refuse(t)
  PROVE  IInv'
<1>1. /\ Ours(t) /\ call[t] # Idle /\ call[t].ip = resolver
      /\ Limiter!Drop(t)
      /\ last' = clock /\ refused' = TRUE /\ UNCHANGED <<sent, conns, calm>>
  BY DEF Refuse, Ours
<1>2. PICK bucket \in Bucket :
        /\ Limiter!Finish(t, bucket)
        /\ bucket.count >= MaxRequests
        /\ \/ bucket = [window_start |-> call[t].now, count |-> 0]
           \/ /\ resolver \in DOMAIN state
              /\ Limiter!Live(state[resolver], call[t].now)
              /\ bucket = state[resolver]
  BY <1>1, DropOutcome DEF IInv
<1>3. One(step \in {"udp", "truncated"})' <= One(step \in {"udp", "truncated"})
  BY DEF Refuse, One
<1>4. refused' \in BOOLEAN
  BY <1>1
<1>5. \/ bucket.window_start = call[t].now
      \/ resolver \in DOMAIN state /\ bucket.window_start = state[resolver].window_start
  BY <1>2
<1>6. /\ TypeOK' /\ StampsArePast' /\ BucketIsPast'
      /\ StillToCome \in Nat /\ StillToCome' \in Nat
      /\ StillToCome' + 1 <= StillToCome
  BY <1>1, <1>2, <1>3, <1>4, <1>5, OursEnds
<1>7. ASSUME MaxRequests >= 2, calm PROVE FALSE
  <2>1. \/ BucketIsOver /\ StillToCome <= 2
        \/ resolver \in DOMAIN state /\ state[resolver].count + StillToCome <= 2
    BY <1>7 DEF IInv, RoomIsLeft
  <2>2. MaxRequests \in Nat
    BY LookupAssumption
  <2>3. bucket.count # 0
    BY <1>2, <1>7, <2>2
  <2>4. /\ resolver \in DOMAIN state /\ bucket = state[resolver]
        /\ Limiter!Live(state[resolver], call[t].now)
    BY <1>2, <2>3
  <2>5. call[t].now \in Time
    BY <1>1, CallIsTyped DEF IInv
  <2>6. ~(state[resolver].window_start + Window <= call[t].now)
    BY <2>4, <2>5, LiveEndsLater
  <2>7. ~BucketIsOver
    BY <1>1, <2>4, <2>6 DEF BucketIsOver
  <2>8. bucket.count \in Nat
    BY DEF Bucket
  <2>9. bucket.count + StillToCome <= 2
    BY <2>1, <2>4, <2>7
  <2>10. bucket.count < 2
    BY <1>6, <2>8, <2>9, OneLess
  <2>11. QED
    BY <1>2, <1>7, <2>2, <2>8, <2>10
<1>8. RoomIsLeft'
  BY <1>1, <1>7 DEF RoomIsLeft
<1>9. QED
  BY <1>6, <1>8 DEF IInv

LEMMA OthersKeep ==
  ASSUME IInv, NEW t \in {udp, main}, Others(t)
  PROVE  IInv'
<1>1. UNCHANGED <<step, sent, conns, last, calm, refused>>
  BY DEF Others, history
<1>2. sent \in Nat /\ conns \in Nat /\ clock \in Nat
  BY DEF IInv, TypeOK, Time
<1>3. ASSUME NEW i \in Ip \ {resolver}, Limiter!Call(t, i) PROVE IInv'
  <2>1. /\ call[t] = Idle /\ call'[t].ip = i
        /\ \A r \in {udp, main} : r # t => call'[r] = call[r]
    BY <1>3, Called DEF IInv
  <2>2. \A r \in {udp, main} : Ours(r)' = Ours(r)
    BY <1>3, <2>1 DEF Ours
  <2>3. Ours(udp)' = Ours(udp) /\ Ours(main)' = Ours(main)
    BY <2>2
  <2>4. StillToCome' <= StillToCome
    BY <1>1, <1>2, <2>3 DEF StillToCome, One
  <2>5. QED
    BY <1>1, <1>2, <1>3, <2>4, CallKeeps
<1>4. ASSUME call[t] # Idle, ~Ours(t), NEW bucket \in Bucket, Limiter!Finish(t, bucket)
      PROVE  IInv'
  <2>1. call[t].ip # resolver
    BY <1>4 DEF Ours
  <2>2. /\ clock' = clock
        /\ state' \in [DOMAIN state' -> Bucket]
        /\ call' \in [{udp, main} -> CallOf \cup {Idle}]
        /\ call'[t] = Idle
        /\ \A r \in {udp, main} : r # t => call'[r] = call[r]
        /\ \A i \in DOMAIN state' :
             i # call[t].ip => i \in DOMAIN state /\ state'[i] = state[i]
    BY <1>4, Finished DEF IInv
  <2>3. resolver \in DOMAIN state' =>
          resolver \in DOMAIN state /\ state'[resolver] = state[resolver]
    BY <2>1, <2>2
  <2>4. \A r \in {udp, main} : Ours(r)' = Ours(r)
    BY <1>4, <2>2 DEF Ours
  <2>5. Ours(udp)' = Ours(udp) /\ Ours(main)' = Ours(main)
    BY <2>4
  <2>6. StillToCome' <= StillToCome
    BY <1>1, <1>2, <2>5 DEF StillToCome, One
  <2>7. TypeOK'
    BY <1>1, <2>2 DEF IInv, TypeOK
  <2>8. StampsArePast'
    BY <1>1, <2>2 DEF IInv, StampsArePast
  <2>9. BucketIsPast'
    BY <1>1, <2>3 DEF IInv, BucketIsPast
  <2>10. \A r \in {udp, main} : Ours(r)' => call'[r] = call[r]
    BY <2>2 DEF Ours
  <2>11. RoomIsLeft'
    BY <1>1, <1>2, <2>2, <2>3, <2>6, <2>7, <2>10, RoomIsKept
  <2>12. QED
    BY <2>7, <2>8, <2>9, <2>11 DEF IInv
<1>5. CASE /\ call[t] # Idle /\ ~Ours(t)
           /\ Limiter!NewWindow(t) \/ Limiter!Count(t) \/ Limiter!Drop(t)
  <2>1. PICK bucket \in Bucket : Limiter!Finish(t, bucket)
    BY <1>5, PassOutcome, DropOutcome DEF IInv
  <2>2. QED
    BY <1>4, <1>5, <2>1
<1>6. QED
  BY <1>3, <1>5 DEF Others

LEMMA TickKeeps == IInv /\ Tick => IInv'
<1>1. SUFFICES ASSUME IInv, Tick PROVE IInv'
  OBVIOUS
<1>2. /\ UNCHANGED <<state, call, step, sent, conns, last, calm, refused>>
      /\ clock' = clock + 1 /\ clock < MaxTime
  BY <1>1 DEF Tick, Limiter!Tick, history
<1>3. clock \in Nat /\ clock' \in Time /\ sent \in Nat /\ conns \in Nat
  BY <1>1, <1>2, LookupAssumption DEF IInv, TypeOK, Time
<1>4. TypeOK'
  BY <1>1, <1>2, <1>3 DEF IInv, TypeOK
<1>5. \A t \in {udp, main} : call[t] # Idle => call[t].now \in Nat
  BY <1>1, CallIsTyped DEF IInv, Time
<1>6. last # Never => last \in Nat
  BY <1>1 DEF IInv, TypeOK
<1>7. StampsArePast'
  BY <1>1, <1>2, <1>3, <1>5, <1>6 DEF IInv, StampsArePast
<1>8. BucketIsPast'
  BY <1>1, <1>2 DEF IInv, BucketIsPast
<1>9. Ours(udp)' = Ours(udp) /\ Ours(main)' = Ours(main)
  BY <1>2 DEF Ours
<1>10. StillToCome' <= StillToCome
  BY <1>2, <1>3, <1>9 DEF StillToCome, One
<1>11. RoomIsLeft'
  BY <1>1, <1>2, <1>3, <1>4, <1>10, RoomIsKept
<1>12. QED
  BY <1>4, <1>7, <1>8, <1>11 DEF IInv

-----------------------------------------------------------------------------
LEMMA InitIInv == Init => IInv
<1>1. SUFFICES ASSUME Init PROVE IInv
  OBVIOUS
<1>2. /\ clock = 0 /\ DOMAIN state = {} /\ state \in [{} -> Bucket]
      /\ call = [t \in {udp, main} |-> Idle]
      /\ sent = 0 /\ conns = 0 /\ last = Never /\ refused = FALSE /\ calm = TRUE
      /\ step = "idle"
  BY <1>1 DEF Init, Limiter!Init
<1>3. TypeOK
  <2>1. clock \in Time
    BY <1>2, LookupAssumption DEF Time
  <2>2. state \in [DOMAIN state -> Bucket] /\ call \in [{udp, main} -> CallOf \cup {Idle}]
    BY <1>2
  <2>3. sent \in Nat /\ conns \in Nat /\ last \in Nat \cup {Never}
    BY <1>2
  <2>4. calm \in BOOLEAN /\ refused \in BOOLEAN
    BY <1>2
  <2>5. QED
    BY <2>1, <2>2, <2>3, <2>4 DEF TypeOK
<1>4. ~Ours(udp) /\ ~Ours(main)
  BY <1>2 DEF Ours
<1>5. StillToCome <= 2
  BY <1>2, <1>4 DEF StillToCome, One
<1>6. BucketIsOver /\ StampsArePast /\ BucketIsPast
  BY <1>2 DEF BucketIsOver, StampsArePast, BucketIsPast
<1>7. RoomIsLeft
  BY <1>2, <1>5, <1>6 DEF RoomIsLeft
<1>8. QED
  BY <1>3, <1>6, <1>7 DEF IInv

LEMMA StutterKeeps == IInv /\ UNCHANGED vars => IInv'
  BY DEF vars, IInv, TypeOK, StampsArePast, BucketIsPast, RoomIsLeft, BucketIsOver,
         StillToCome, Ours

LEMMA NextKeeps == IInv /\ [Next]_vars => IInv'
  BY SendKeeps, ConnectKeeps, GiveUpKeeps, LoseKeeps, ReceiveKeeps, AcceptKeeps,
     AnswerKeeps, RefuseKeeps, OthersKeep, TickKeeps, StutterKeeps DEF Next

(* With a quota of two or more, a resolver that has been quiet for a window *)
(* gets its query and its retry over TCP past the limiter (check,          *)
(* rate_limit.rs:46, asked by both loops of main.rs), for any number of    *)
(* other clients, any window and any size at which the map is pruned.      *)
THEOREM PatientLookupHolds == Spec => []PatientLookupIsServed
<1>1. IInv => PatientLookupIsServed
  BY DEF IInv, RoomIsLeft, PatientLookupIsServed
<1>2. QED
  BY <1>1, InitIInv, NextKeeps, PTL DEF Spec
=============================================================================
