------------------------- MODULE RateLimiterProofs -------------------------
(***************************************************************************)
(* Proofs about RateLimiter for every set of clients and threads, every    *)
(* window, quota and pruning threshold.                                    *)
(*                                                                         *)
(* The inductive invariant adds to the type invariant what ties the stamps *)
(* to the clock and the buckets to the history: no stamp and no window     *)
(* start is later than the clock, a bucket counts between one request and  *)
(* the quota, and the requests it has counted are the latest admissions of *)
(* its client, none of them before the start of its window.                *)
(***************************************************************************)
EXTENDS RateLimiter, Integers, FiniteSetTheorems, TLAPS

(* A thread inside check holds a stamp no later than the clock, and the    *)
(* limiter is enabled, for check returns at once when it is not.           *)
CallsAreStamped ==
  \A t \in Thread : call[t] # Idle => IsEnabled /\ call[t].now <= clock

StartsAreStamped == \A i \in DOMAIN state : state[i].window_start <= clock

(* The last count admissions of a watched client belong to its bucket. *)
CountsAreAdmissions ==
  \A i \in DOMAIN state \cap Watch :
    /\ state[i].count <= Len(log[i])
    /\ \A k \in 1..Len(log[i]) :
         k > Len(log[i]) - state[i].count => log[i][k] >= state[i].window_start

IInv ==
  /\ TypeOK
  /\ CallsAreStamped
  /\ StartsAreStamped
  /\ QuotaInWindow
  /\ CountsAreAdmissions

-----------------------------------------------------------------------------
(* The pruned map is a part of the map, and what left it had expired. *)
LEMMA PrunedIsPart ==
  ASSUME TypeOK, NEW n \in Time
  PROVE  /\ DOMAIN Pruned(n) \subseteq DOMAIN state
         /\ \A i \in DOMAIN Pruned(n) : Pruned(n)[i] = state[i]
         /\ \A i \in DOMAIN state \ DOMAIN Pruned(n) : ~Live(state[i], n)
  BY DEF Pruned

(* The bucket a call works on is its client's, or a fresh and empty one. *)
LEMMA EntryIsBucket ==
  ASSUME TypeOK, NEW n \in Time, NEW i \in Ip
  PROVE  /\ Entry(i, n) \in Bucket
         /\ \/ /\ i \in DOMAIN state
               /\ Entry(i, n) = state[i]
            \/ Entry(i, n) = [window_start |-> n, count |-> 0]
  BY PrunedIsPart DEF Entry, TypeOK, Bucket

(* A thread inside check has a client and a stamp. *)
LEMMA CallIsTyped ==
  ASSUME TypeOK, NEW t \in Thread, call[t] # Idle
  PROVE  call[t].ip \in Ip /\ call[t].now \in Time
  BY DEF TypeOK, CallOf

(* What the end of a call leaves in the map: its own bucket, and of the    *)
(* others those that were there before.                                    *)
LEMMA FinishedMap ==
  ASSUME TypeOK, NEW t \in Thread, call[t] # Idle, NEW bucket \in Bucket,
         Finish(t, bucket)
  PROVE  /\ call[t].ip \in DOMAIN state'
         /\ state'[call[t].ip] = bucket
         /\ DOMAIN state' \subseteq DOMAIN state \cup {call[t].ip}
         /\ \A i \in DOMAIN state' : i # call[t].ip =>
              i \in DOMAIN state /\ state'[i] = state[i]
         /\ \A i \in DOMAIN state \ DOMAIN state' : ~Live(state[i], call[t].now)
         /\ state' \in [DOMAIN state' -> Bucket]
         /\ DOMAIN state' \subseteq Ip
<1>1. call[t].ip \in Ip /\ call[t].now \in Time
  BY CallIsTyped
<1>2. state' = Put(Pruned(call[t].now), call[t].ip, bucket)
  BY DEF Finish
<1>3. DOMAIN state' = DOMAIN Pruned(call[t].now) \cup {call[t].ip}
  BY <1>2 DEF Put
<1>4. \A i \in DOMAIN state' :
        state'[i] = IF i = call[t].ip THEN bucket ELSE Pruned(call[t].now)[i]
  BY <1>2, <1>3 DEF Put
<1>5. state' = [i \in DOMAIN state' |-> state'[i]]
  BY <1>2, <1>3 DEF Put
<1>6. /\ DOMAIN Pruned(call[t].now) \subseteq DOMAIN state
      /\ \A i \in DOMAIN Pruned(call[t].now) : Pruned(call[t].now)[i] = state[i]
      /\ \A i \in DOMAIN state \ DOMAIN Pruned(call[t].now) : ~Live(state[i], call[t].now)
  BY <1>1, PrunedIsPart
<1>7. \A i \in DOMAIN state : state[i] \in Bucket
  BY DEF TypeOK
<1>8. \A i \in DOMAIN state' : state'[i] \in Bucket
  BY <1>3, <1>4, <1>6, <1>7
<1>9. DOMAIN state' \subseteq Ip
  BY <1>1, <1>3, <1>6 DEF TypeOK
<1>10. QED
  BY <1>3, <1>4, <1>5, <1>6, <1>8, <1>9

(* What happens to the history of a client: nothing, or the time is        *)
(* appended to it.                                                         *)
LEMMA AdmittedLog ==
  ASSUME TypeOK, NEW i \in Ip, Admitted(i)
  PROVE  /\ log' \in [Watch -> Seq(Time)]
         /\ \A j \in Watch : j # i => log'[j] = log[j]
         /\ i \in Watch => log'[i] = Append(log[i], clock)
<1>1. CASE i \in Watch
  <2>1. log[i] \in Seq(Time) /\ clock \in Time
    BY <1>1 DEF TypeOK
  <2>2. Append(log[i], clock) \in Seq(Time)
    BY <2>1
  <2>3. QED
    BY <1>1, <2>2 DEF TypeOK, Admitted
<1>2. CASE i \notin Watch
  BY <1>2 DEF TypeOK, Admitted
<1>3. QED
  BY <1>1, <1>2

(* The part of the invariant that every end of a call re-establishes the   *)
(* same way, whatever it does to the history.                              *)
LEMMA FinishKeeps ==
  ASSUME IInv, NEW t \in Thread, call[t] # Idle, NEW bucket \in Bucket,
         bucket.window_start <= clock, bucket.count \in 1..MaxRequests,
         Finish(t, bucket), log' \in [Watch -> Seq(Time)]
  PROVE  TypeOK' /\ CallsAreStamped' /\ StartsAreStamped' /\ QuotaInWindow'
<1>1. /\ DOMAIN state' \subseteq DOMAIN state \cup {call[t].ip}
      /\ state'[call[t].ip] = bucket
      /\ \A i \in DOMAIN state' : i # call[t].ip =>
           i \in DOMAIN state /\ state'[i] = state[i]
      /\ state' \in [DOMAIN state' -> Bucket]
      /\ DOMAIN state' \subseteq Ip
  BY FinishedMap DEF IInv
<1>2. clock' = clock /\ call' = [call EXCEPT ![t] = Idle]
  BY DEF Finish
<1>3. TypeOK'
  BY <1>1, <1>2 DEF IInv, TypeOK
<1>4. CallsAreStamped'
  BY <1>2 DEF IInv, TypeOK, CallsAreStamped
<1>5. StartsAreStamped'
  BY <1>1, <1>2 DEF IInv, StartsAreStamped
<1>6. QuotaInWindow'
  BY <1>1 DEF IInv, QuotaInWindow
<1>7. QED
  BY <1>3, <1>4, <1>5, <1>6

(* The bucket a call finds is no later than the clock, within the quota,   *)
(* and, unless it is fresh, accounted for by the history.                  *)
LEMMA EntryIsAccounted ==
  ASSUME IInv, NEW t \in Thread, call[t] # Idle
  PROVE  LET bucket == Entry(call[t].ip, call[t].now) IN
         /\ bucket \in Bucket
         /\ bucket.window_start <= clock
         /\ bucket.count <= MaxRequests
         /\ bucket.count > 0 =>
              /\ call[t].ip \in DOMAIN state
              /\ bucket = state[call[t].ip]
<1>1. call[t].ip \in Ip /\ call[t].now \in Time /\ call[t].now <= clock
  BY CallIsTyped DEF IInv, CallsAreStamped
<1>2. /\ Entry(call[t].ip, call[t].now) \in Bucket
      /\ \/ /\ call[t].ip \in DOMAIN state
            /\ Entry(call[t].ip, call[t].now) = state[call[t].ip]
         \/ Entry(call[t].ip, call[t].now) = [window_start |-> call[t].now, count |-> 0]
  BY <1>1, EntryIsBucket DEF IInv
<1>3. QED
  BY <1>1, <1>2, ParamAssumption DEF IInv, StartsAreStamped, QuotaInWindow, Bucket

-----------------------------------------------------------------------------
LEMMA InitIInv == Init => IInv
<1> SUFFICES ASSUME Init PROVE IInv
  OBVIOUS
<1>1. DOMAIN state = {} /\ state \in [{} -> Bucket]
  BY DEF Init
<1>2. TypeOK
  BY <1>1, ParamAssumption DEF Init, TypeOK, Time
<1>3. QED
  BY <1>1, <1>2 DEF Init, IInv, CallsAreStamped, StartsAreStamped, QuotaInWindow,
                    CountsAreAdmissions

LEMMA TickKeeps == IInv /\ Tick => IInv'
<1> SUFFICES ASSUME IInv, Tick PROVE IInv'
  OBVIOUS
<1>1. clock \in Nat /\ clock' = clock + 1 /\ clock' \in Time
  BY ParamAssumption DEF Tick, IInv, TypeOK, Time
<1>2. state' = state /\ call' = call /\ log' = log
  BY DEF Tick
<1>3. TypeOK'
  BY <1>1, <1>2 DEF IInv, TypeOK
<1>4. CallsAreStamped'
  <2>1. \A t \in Thread : call[t] # Idle => call[t].now \in Nat
    BY CallIsTyped DEF IInv, Time
  <2>2. QED
    BY <1>1, <1>2, <2>1 DEF IInv, CallsAreStamped
<1>5. StartsAreStamped'
  <2>1. \A i \in DOMAIN state : state[i].window_start \in Nat
    BY DEF IInv, TypeOK, Bucket, Time
  <2>2. QED
    BY <1>1, <1>2, <2>1 DEF IInv, StartsAreStamped
<1>6. QuotaInWindow' /\ CountsAreAdmissions'
  BY <1>2 DEF IInv, QuotaInWindow, CountsAreAdmissions
<1>7. QED
  BY <1>3, <1>4, <1>5, <1>6 DEF IInv

LEMMA CallKeeps ==
  ASSUME IInv, NEW t \in Thread, NEW i \in Ip, Call(t, i)
  PROVE  IInv'
<1>1. /\ state' = state /\ log' = log /\ clock' = clock
      /\ call' = [call EXCEPT ![t] = [ip |-> i, now |-> clock]]
  BY DEF Call
<1>2. TypeOK'
  BY <1>1 DEF IInv, TypeOK, CallOf
<1>3. CallsAreStamped'
  BY <1>1 DEF Call, IInv, TypeOK, CallsAreStamped, Time
<1>4. StartsAreStamped' /\ QuotaInWindow' /\ CountsAreAdmissions'
  BY <1>1 DEF IInv, StartsAreStamped, QuotaInWindow, CountsAreAdmissions
<1>5. QED
  BY <1>2, <1>3, <1>4 DEF IInv

(* The end of a call that admits: the bucket counts the new admission and  *)
(* at most those its predecessor counted, none of them before its start.   *)
LEMMA AdmittingKeeps ==
  ASSUME IInv, NEW t \in Thread, call[t] # Idle, NEW bucket \in Bucket,
         bucket.window_start <= clock, bucket.count \in 1..MaxRequests,
         Finish(t, bucket), Admitted(call[t].ip),
         bucket.count > 1 =>
           /\ call[t].ip \in DOMAIN state
           /\ bucket.window_start = state[call[t].ip].window_start
           /\ bucket.count = state[call[t].ip].count + 1
  PROVE  IInv'
<1> DEFINE i == call[t].ip
<1>1. i \in Ip
  BY CallIsTyped DEF IInv
<1>2. /\ log' \in [Watch -> Seq(Time)]
      /\ \A j \in Watch : j # i => log'[j] = log[j]
      /\ i \in Watch => log'[i] = Append(log[i], clock)
  BY <1>1, AdmittedLog DEF IInv
<1>3. /\ state'[i] = bucket
      /\ \A j \in DOMAIN state' : j # i =>
           j \in DOMAIN state /\ state'[j] = state[j]
  BY FinishedMap DEF IInv
<1>4. TypeOK' /\ CallsAreStamped' /\ StartsAreStamped' /\ QuotaInWindow'
  BY <1>2, FinishKeeps
<1>5. CountsAreAdmissions'
  <2> SUFFICES ASSUME NEW j \in DOMAIN state' \cap Watch
               PROVE  /\ state'[j].count <= Len(log'[j])
                      /\ \A k \in 1..Len(log'[j]) :
                           k > Len(log'[j]) - state'[j].count =>
                             log'[j][k] >= state'[j].window_start
    BY DEF CountsAreAdmissions
  <2>1. CASE j # i
    BY <2>1, <1>2, <1>3 DEF IInv, CountsAreAdmissions
  <2>2. CASE j = i
    <3>1. log[i] \in Seq(Time) /\ log'[i] = Append(log[i], clock)
      BY <2>2, <1>2 DEF IInv, TypeOK
    <3>2. /\ Len(log'[i]) = Len(log[i]) + 1
          /\ log'[i][Len(log[i]) + 1] = clock
          /\ \A k \in 1..Len(log[i]) : log'[i][k] = log[i][k]
      BY <3>1
    <3>3. bucket.count \in Nat /\ bucket.window_start \in Nat /\ clock \in Nat
          /\ Len(log[i]) \in Nat
      BY <3>1 DEF Bucket, Time, IInv, TypeOK
    <3>4. CASE bucket.count = 1
      <4>1. \A k \in 1..Len(log'[i]) :
              k > Len(log'[i]) - bucket.count => k = Len(log[i]) + 1
        BY <3>2, <3>3, <3>4
      <4>2. \A k \in 1..Len(log'[i]) :
              k > Len(log'[i]) - bucket.count => log'[i][k] >= bucket.window_start
        BY <3>2, <4>1
      <4>3. bucket.count <= Len(log'[i])
        BY <3>2, <3>3, <3>4
      <4>4. QED
        BY <2>2, <1>3, <4>2, <4>3
    <3>5. CASE bucket.count > 1
      <4>1. /\ i \in DOMAIN state \cap Watch
            /\ bucket.window_start = state[i].window_start
            /\ bucket.count = state[i].count + 1
            /\ state[i].count \in Nat
        BY <2>2, <3>5 DEF IInv, TypeOK, Bucket
      <4>2. /\ state[i].count <= Len(log[i])
            /\ \A k \in 1..Len(log[i]) :
                 k > Len(log[i]) - state[i].count => log[i][k] >= state[i].window_start
        BY <4>1 DEF IInv, CountsAreAdmissions
      <4>3. bucket.count <= Len(log'[i])
        BY <3>2, <3>3, <4>1, <4>2
      <4>4. ASSUME NEW k \in 1..Len(log'[i]), k > Len(log'[i]) - bucket.count
            PROVE  log'[i][k] >= bucket.window_start
        <5>1. CASE k = Len(log[i]) + 1
          BY <5>1, <3>2
        <5>2. CASE k # Len(log[i]) + 1
          <6>1. k \in 1..Len(log[i]) /\ k > Len(log[i]) - state[i].count
            <7>1. PICK n \in Nat : n = Len(log[i]) /\ n + 1 = Len(log'[i])
              BY <3>2, <3>3
            <7>2. PICK c \in Nat : c = state[i].count /\ c + 1 = bucket.count
              BY <4>1
            <7>3. k \in 1..n + 1 /\ k # n + 1 /\ k > n + 1 - (c + 1)
              <8>1. k \in 1..n + 1
                BY <4>4, <7>1
              <8>2. k # n + 1
                BY <5>2, <7>1
              <8>3. k > Len(log'[i]) - bucket.count
                BY <4>4
              <8>4. k > n + 1 - (c + 1)
                <9>1. ASSUME NEW l, NEW d, l = n + 1, d = c + 1, k > l - d
                      PROVE  k > n + 1 - (c + 1)
                  BY <9>1
                <9>2. QED
                  BY <7>1, <7>2, <8>3, <9>1
              <8>5. QED
                BY <8>1, <8>2, <8>4
            <7>4. k \in 1..n /\ k > n - c
              BY <7>3
            <7>5. QED
              BY <7>1, <7>2, <7>4
          <6>2. QED
            BY <6>1, <3>2, <4>1, <4>2
        <5>3. QED
          BY <5>1, <5>2
      <4>5. QED
        BY <2>2, <1>3, <4>3, <4>4
    <3>6. QED
      BY <3>3, <3>4, <3>5
  <2>3. QED
    BY <2>1, <2>2
<1>6. QED
  BY <1>4, <1>5 DEF IInv

LEMMA NewWindowKeeps ==
  ASSUME IInv, NEW t \in Thread, NewWindow(t)
  PROVE  IInv'
<1> DEFINE bucket == [window_start |-> call[t].now, count |-> 1]
<1>1. call[t] # Idle /\ Finish(t, bucket) /\ Admitted(call[t].ip)
  BY DEF NewWindow
<1>2. IsEnabled /\ call[t].now <= clock /\ call[t].now \in Time
  BY <1>1, CallIsTyped DEF IInv, CallsAreStamped
<1>3. bucket \in Bucket /\ bucket.count \in 1..MaxRequests
  BY <1>2, ParamAssumption DEF Bucket, IsEnabled
<1>4. QED
  BY <1>1, <1>2, <1>3, AdmittingKeeps

LEMMA CountKeeps ==
  ASSUME IInv, NEW t \in Thread, Count(t)
  PROVE  IInv'
<1> DEFINE old == Entry(call[t].ip, call[t].now)
           bucket == [old EXCEPT !.count = @ + 1]
<1>1. /\ call[t] # Idle /\ old.count < MaxRequests
      /\ Finish(t, bucket) /\ Admitted(call[t].ip)
  BY DEF Count
<1>2. /\ old \in Bucket /\ old.window_start <= clock
      /\ old.count > 0 => call[t].ip \in DOMAIN state /\ old = state[call[t].ip]
  BY <1>1, EntryIsAccounted
<1>3. /\ bucket \in Bucket
      /\ bucket.window_start = old.window_start
      /\ bucket.count = old.count + 1
  BY <1>2 DEF Bucket
<1>4. bucket.count \in 1..MaxRequests
  BY <1>1, <1>2, <1>3, ParamAssumption DEF Bucket
<1>5. bucket.count > 1 => old.count > 0
  BY <1>2, <1>3 DEF Bucket
<1> HIDE DEF old, bucket
<1>6. QED
  BY <1>1, <1>2, <1>3, <1>4, <1>5, AdmittingKeeps

LEMMA DropKeeps ==
  ASSUME IInv, NEW t \in Thread, Drop(t)
  PROVE  IInv'
<1> DEFINE bucket == Entry(call[t].ip, call[t].now)
<1>1. call[t] # Idle /\ bucket.count >= MaxRequests /\ Finish(t, bucket) /\ log' = log
  BY DEF Drop
<1>2. IsEnabled
  BY <1>1 DEF IInv, CallsAreStamped
<1>3. /\ bucket \in Bucket
      /\ bucket.window_start <= clock
      /\ bucket.count \in 1..MaxRequests
      /\ call[t].ip \in DOMAIN state
      /\ bucket = state[call[t].ip]
  BY <1>1, <1>2, EntryIsAccounted, ParamAssumption DEF IsEnabled, Bucket
<1> HIDE DEF bucket
<1>4. TypeOK' /\ CallsAreStamped' /\ StartsAreStamped' /\ QuotaInWindow'
  BY <1>1, <1>3, FinishKeeps DEF IInv, TypeOK
<1>5. \A j \in DOMAIN state' : j \in DOMAIN state /\ state'[j] = state[j]
  BY <1>1, <1>3, FinishedMap DEF IInv
<1>6. CountsAreAdmissions'
  BY <1>1, <1>5 DEF IInv, CountsAreAdmissions
<1>7. QED
  BY <1>4, <1>6 DEF IInv

LEMMA StutterKeeps == IInv /\ UNCHANGED vars => IInv'
  BY DEF vars, IInv, TypeOK, CallsAreStamped, StartsAreStamped, QuotaInWindow,
         CountsAreAdmissions

LEMMA NextKeeps == IInv /\ [Next]_vars => IInv'
<1> SUFFICES ASSUME IInv, [Next]_vars PROVE IInv'
  OBVIOUS
<1>1. CASE Tick
  BY <1>1, TickKeeps
<1>2. ASSUME NEW t \in Thread, NEW i \in Ip, Call(t, i) PROVE IInv'
  BY <1>2, CallKeeps
<1>3. ASSUME NEW t \in Thread, NewWindow(t) PROVE IInv'
  BY <1>3, NewWindowKeeps
<1>4. ASSUME NEW t \in Thread, Drop(t) PROVE IInv'
  BY <1>4, DropKeeps
<1>5. ASSUME NEW t \in Thread, Count(t) PROVE IInv'
  BY <1>5, CountKeeps
<1>6. CASE UNCHANGED vars
  BY <1>6, StutterKeeps
<1>7. QED
  BY <1>1, <1>2, <1>3, <1>4, <1>5, <1>6 DEF Next

(* The inductive invariant holds in every reachable state. *)
THEOREM Inductive == Spec => []IInv
  BY InitIInv, NextKeeps, PTL DEF Spec

(* TypeOK is an invariant, for every value of the constants. *)
THEOREM TypeCorrect == Spec => []TypeOK
<1>1. IInv => TypeOK
  BY DEF IInv
<1>2. QED
  BY <1>1, Inductive, PTL

(* No bucket ever counts more than the quota or nothing at all. *)
THEOREM QuotaHolds == Spec => []QuotaInWindow
<1>1. IInv => QuotaInWindow
  BY DEF IInv
<1>2. QED
  BY <1>1, Inductive, PTL

-----------------------------------------------------------------------------
(* A step either leaves the map and the running calls other than by        *)
(* starting one, or is the end of one call.                                *)
LEMMA StepCases ==
  ASSUME IInv, [Next]_vars
  PROVE  \/ state' = state /\ \A t \in Thread : call'[t] = Idle => call[t] = Idle
         \/ \E t \in Thread : NewWindow(t) \/ Drop(t) \/ Count(t)
<1>1. CASE Tick
  BY <1>1 DEF Tick
<1>2. ASSUME NEW t \in Thread, NEW i \in Ip, Call(t, i)
      PROVE  state' = state /\ \A u \in Thread : call'[u] = Idle => call[u] = Idle
  BY <1>2 DEF Call, IInv, TypeOK
<1>3. CASE UNCHANGED vars
  BY <1>3 DEF vars
<1>4. QED
  BY <1>1, <1>2, <1>3 DEF Next

(* Every end of a call is a Finish, with the live bucket it found or with  *)
(* one that starts at the stamp because the one it found was not live.     *)
LEMMA EndsFinish ==
  ASSUME IInv, NEW t \in Thread, NewWindow(t) \/ Drop(t) \/ Count(t)
  PROVE  /\ call[t] # Idle
         /\ \E bucket \in Bucket :
              /\ Finish(t, bucket)
              /\ \/ /\ Live(Entry(call[t].ip, call[t].now), call[t].now)
                    /\ bucket.window_start = Entry(call[t].ip, call[t].now).window_start
                 \/ /\ ~Live(Entry(call[t].ip, call[t].now), call[t].now)
                    /\ bucket.window_start = call[t].now
<1> DEFINE old == Entry(call[t].ip, call[t].now)
<1>1. call[t] # Idle
  BY DEF NewWindow, Drop, Count
<1>2. old \in Bucket /\ call[t].now \in Time
  BY <1>1, EntryIsAccounted, CallIsTyped DEF IInv
<1>3. CASE NewWindow(t)
  <2>1. [window_start |-> call[t].now, count |-> 1] \in Bucket
    BY <1>2 DEF Bucket
  <2>2. QED
    BY <1>1, <1>3, <2>1 DEF NewWindow
<1>4. CASE Drop(t)
  BY <1>1, <1>2, <1>4 DEF Drop
<1>5. CASE Count(t)
  <2> DEFINE new == [old EXCEPT !.count = @ + 1]
  <2>1. Finish(t, new) /\ Live(old, call[t].now)
    BY <1>5 DEF Count
  <2>2. new \in Bucket /\ new.window_start = old.window_start
    BY <1>2 DEF Bucket
  <2> HIDE DEF new
  <2>3. QED
    BY <1>1, <2>1, <2>2
<1>6. QED
  BY <1>3, <1>4, <1>5

(* A bucket that is not live at a stamp has expired at the clock.          *)
LEMMA DeadIsExpired ==
  ASSUME NEW bucket \in Bucket, NEW n \in Time, n <= clock, clock \in Time,
         bucket.window_start <= clock, Window > 0, ~Live(bucket, n)
  PROVE  /\ n >= bucket.window_start + Window
         /\ clock >= bucket.window_start + Window
  BY ParamAssumption DEF Bucket, Time, Live, Since

LEMMA WindowsMoveForwardStep ==
  ASSUME IInv, [Next]_vars
  PROVE  \A i \in DOMAIN state \cap DOMAIN state' :
           \/ state'[i].window_start = state[i].window_start
           \/ state'[i].window_start >= state[i].window_start + Window
<1> SUFFICES ASSUME NEW i \in DOMAIN state \cap DOMAIN state',
                    NEW t \in Thread, NewWindow(t) \/ Drop(t) \/ Count(t)
             PROVE  \/ state'[i].window_start = state[i].window_start
                    \/ state'[i].window_start >= state[i].window_start + Window
  BY StepCases
<1> DEFINE old == Entry(call[t].ip, call[t].now)
<1>1. PICK bucket \in Bucket :
        /\ Finish(t, bucket)
        /\ \/ bucket.window_start = old.window_start
           \/ ~Live(old, call[t].now) /\ bucket.window_start = call[t].now
  BY EndsFinish
<1>2. /\ call[t] # Idle /\ IsEnabled /\ call[t].ip \in Ip
      /\ call[t].now \in Time /\ call[t].now <= clock
  BY EndsFinish, CallIsTyped DEF IInv, CallsAreStamped
<1>3. /\ state'[call[t].ip] = bucket
      /\ i # call[t].ip => state'[i] = state[i]
  BY <1>1, <1>2, FinishedMap DEF IInv
<1>4. state[i] \in Bucket /\ state[i].window_start <= clock /\ clock \in Time
  BY DEF IInv, TypeOK, StartsAreStamped
<1>5. CASE i = call[t].ip /\ i \in DOMAIN Pruned(call[t].now)
  <2>1. old = state[i]
    BY <1>2, <1>5, PrunedIsPart DEF Entry, IInv
  <2>2. CASE ~Live(old, call[t].now) /\ bucket.window_start = call[t].now
    BY <1>2, <1>3, <1>4, <1>5, <2>1, <2>2, DeadIsExpired DEF IsEnabled
  <2>3. CASE bucket.window_start = old.window_start
    BY <1>3, <1>5, <2>1, <2>3
  <2>4. QED
    BY <1>1, <2>2, <2>3
<1>6. CASE i = call[t].ip /\ i \notin DOMAIN Pruned(call[t].now)
  <2>1. ~Live(state[i], call[t].now)
    BY <1>2, <1>6, PrunedIsPart DEF IInv
  <2>2. bucket.window_start = call[t].now
    BY <1>1, <1>6 DEF Entry
  <2>3. QED
    BY <1>2, <1>3, <1>4, <1>6, <2>1, <2>2, DeadIsExpired DEF IsEnabled
<1>7. QED
  BY <1>3, <1>5, <1>6

LEMMA OnlyExpiredForgottenStep ==
  ASSUME IInv, [Next]_vars
  PROVE  \A i \in DOMAIN state \ DOMAIN state' :
           clock >= state[i].window_start + Window
<1> SUFFICES ASSUME NEW i \in DOMAIN state \ DOMAIN state',
                    NEW t \in Thread, NewWindow(t) \/ Drop(t) \/ Count(t)
             PROVE  clock >= state[i].window_start + Window
  BY StepCases
<1>1. PICK bucket \in Bucket : Finish(t, bucket)
  BY EndsFinish
<1>2. /\ call[t] # Idle /\ IsEnabled
      /\ call[t].now \in Time /\ call[t].now <= clock
  BY EndsFinish, CallIsTyped DEF IInv, CallsAreStamped
<1>3. ~Live(state[i], call[t].now)
  BY <1>1, <1>2, FinishedMap DEF IInv
<1>4. state[i] \in Bucket /\ state[i].window_start <= clock /\ clock \in Time
  BY DEF IInv, TypeOK, StartsAreStamped
<1>5. QED
  BY <1>2, <1>3, <1>4, DeadIsExpired DEF IsEnabled

(* The map always has finitely many entries. *)
MapIsFinite == IsFiniteSet(DOMAIN state)

LEMMA MapStaysFinite == IInv /\ MapIsFinite /\ [Next]_vars => MapIsFinite'
<1> SUFFICES ASSUME IInv, MapIsFinite, [Next]_vars
             PROVE  MapIsFinite'
  OBVIOUS
<1>1. CASE state' = state
  BY <1>1 DEF MapIsFinite
<1>2. ASSUME NEW t \in Thread, NewWindow(t) \/ Drop(t) \/ Count(t)
      PROVE  MapIsFinite'
  <2>1. PICK bucket \in Bucket : Finish(t, bucket)
    BY <1>2, EndsFinish
  <2>2. DOMAIN state' \subseteq DOMAIN state \cup {call[t].ip}
    BY <1>2, <2>1, EndsFinish, FinishedMap DEF IInv
  <2>3. IsFiniteSet(DOMAIN state \cup {call[t].ip})
    BY FS_AddElement DEF MapIsFinite
  <2>4. QED
    BY <2>2, <2>3, FS_Subset DEF MapIsFinite
<1>3. QED
  BY <1>1, <1>2, StepCases

(* A bucket that is live at a stamp ends after it. *)
LEMMA LiveEndsLater ==
  ASSUME NEW bucket \in Bucket, NEW n \in Time, Window > 0, Live(bucket, n)
  PROVE  bucket.window_start + Window > n
  BY ParamAssumption DEF Bucket, Time, Live, Since

(* The only thread whose call ends in a step is the one that finishes. *)
LEMMA WhoEnds ==
  ASSUME IInv, [Next]_vars, NEW t \in Thread, call[t] # Idle, call'[t] = Idle
  PROVE  NewWindow(t) \/ Drop(t) \/ Count(t)
<1>1. PICK u \in Thread : NewWindow(u) \/ Drop(u) \/ Count(u)
  BY StepCases
<1>2. PICK bucket \in Bucket : Finish(u, bucket)
  BY <1>1, EndsFinish
<1>3. u = t
  BY <1>2 DEF Finish, IInv, TypeOK
<1>4. QED
  BY <1>1, <1>3

LEMMA LargeMapIsLiveStep ==
  ASSUME IInv, MapIsFinite, [Next]_vars
  PROVE  \A t \in Thread :
           (/\ call[t] # Idle /\ call'[t] = Idle
            /\ Cardinality(DOMAIN state') > PruneLen + 1) =>
              \A i \in DOMAIN state' : state'[i].window_start + Window > call[t].now
<1> SUFFICES ASSUME NEW t \in Thread, call[t] # Idle, call'[t] = Idle,
                    Cardinality(DOMAIN state') > PruneLen + 1,
                    NEW i \in DOMAIN state'
             PROVE  state'[i].window_start + Window > call[t].now
  OBVIOUS
<1> DEFINE old == Entry(call[t].ip, call[t].now)
<1>1. PICK bucket \in Bucket :
        /\ Finish(t, bucket)
        /\ \/ Live(old, call[t].now) /\ bucket.window_start = old.window_start
           \/ bucket.window_start = call[t].now
  BY WhoEnds, EndsFinish
<1>2. /\ call[t].ip \in Ip /\ call[t].now \in Time
      /\ Window > 0 /\ Window \in Nat
  BY CallIsTyped, ParamAssumption DEF IInv, CallsAreStamped, IsEnabled
<1>3. /\ state'[call[t].ip] = bucket
      /\ DOMAIN state' \subseteq DOMAIN state \cup {call[t].ip}
      /\ i # call[t].ip => i \in DOMAIN state /\ state'[i] = state[i]
  BY <1>1, FinishedMap DEF IInv
<1>4. CASE i = call[t].ip
  <2>1. old \in Bucket
    BY <1>2, EntryIsBucket DEF IInv
  <2>2. CASE bucket.window_start = call[t].now
    BY <1>2, <1>3, <1>4, <2>2 DEF Time
  <2>3. CASE Live(old, call[t].now) /\ bucket.window_start = old.window_start
    <3>1. old.window_start + Window > call[t].now
      BY <1>2, <2>1, <2>3, LiveEndsLater
    <3>2. QED
      BY <1>3, <1>4, <2>3, <3>1
  <2>4. QED
    BY <1>1, <2>2, <2>3
<1>5. CASE i # call[t].ip
  <2>1. Cardinality(DOMAIN state) > PruneLen
    <3> SUFFICES ASSUME ~(Cardinality(DOMAIN state) > PruneLen) PROVE FALSE
      OBVIOUS
    <3>1. /\ IsFiniteSet(DOMAIN state)
          /\ IsFiniteSet(DOMAIN state \cup {call[t].ip})
      BY FS_AddElement DEF MapIsFinite
    <3>2. /\ Cardinality(DOMAIN state) \in Nat
          /\ Cardinality(DOMAIN state \cup {call[t].ip})
               \in {Cardinality(DOMAIN state), Cardinality(DOMAIN state) + 1}
      <4>1. Cardinality(DOMAIN state) \in Nat
        BY <3>1, FS_CardinalityType
      <4>2. Cardinality(DOMAIN state \cup {call[t].ip}) =
              IF call[t].ip \in DOMAIN state
              THEN Cardinality(DOMAIN state) ELSE Cardinality(DOMAIN state) + 1
        BY <3>1, FS_AddElement, Zenon
      <4>3. QED
        BY <4>1, <4>2
    <3>3. /\ Cardinality(DOMAIN state') \in Nat
          /\ Cardinality(DOMAIN state') <= Cardinality(DOMAIN state \cup {call[t].ip})
      BY <1>3, <3>1, FS_Subset, FS_CardinalityType
    <3>4. QED
      BY <3>2, <3>3, ParamAssumption
  <2>2. i \in DOMAIN Pruned(call[t].now)
    BY <1>1, <1>5 DEF Finish, Put
  <2>3. Live(state[i], call[t].now)
    BY <2>1, <2>2 DEF Pruned
  <2>4. state[i] \in Bucket
    BY <1>3, <1>5 DEF IInv, TypeOK
  <2>5. QED
    BY <1>2, <1>3, <1>5, <2>3, <2>4, LiveEndsLater
<1>6. QED
  BY <1>4, <1>5

LEMMA DropsAreJustifiedStep ==
  ASSUME IInv, [Next]_vars
  PROVE  \A t \in Thread :
           (/\ call[t] # Idle /\ call'[t] = Idle
            /\ call[t].ip \in Watch /\ log' = log) => DropIsDue(t)
<1> SUFFICES ASSUME NEW t \in Thread, call[t] # Idle, call'[t] = Idle,
                    call[t].ip \in Watch, log' = log
             PROVE  DropIsDue(t)
  OBVIOUS
<1> DEFINE i == call[t].ip
<1>1. NewWindow(t) \/ Drop(t) \/ Count(t)
  BY WhoEnds
<1>2. log[i] \in Seq(Time) /\ clock \in Time
  BY DEF IInv, TypeOK
<1>3. ~Admitted(i)
  <2> SUFFICES ASSUME Admitted(i) PROVE FALSE
    OBVIOUS
  <2>1. log'[i] = Append(log[i], clock)
    BY CallIsTyped, AdmittedLog DEF IInv
  <2>2. Len(log'[i]) = Len(log[i]) + 1
    BY <2>1, <1>2
  <2>3. QED
    BY <2>2, <1>2
<1> DEFINE bucket == Entry(i, call[t].now)
<1>4. Live(bucket, call[t].now) /\ bucket.count >= MaxRequests
  BY <1>1, <1>3 DEF NewWindow, Drop, Count
<1>5. IsEnabled /\ call[t].now \in Time
  BY CallIsTyped DEF IInv, CallsAreStamped
<1>6. /\ bucket \in Bucket /\ bucket.count <= MaxRequests
      /\ bucket.count > 0 => i \in DOMAIN state /\ bucket = state[i]
  BY EntryIsAccounted
<1> HIDE DEF bucket
<1>7. bucket.count = MaxRequests /\ MaxRequests > 0
  BY <1>4, <1>5, <1>6, ParamAssumption DEF Bucket, IsEnabled
<1>8. /\ MaxRequests <= Len(log[i])
      /\ \A k \in 1..Len(log[i]) :
           k > Len(log[i]) - MaxRequests => log[i][k] >= bucket.window_start
  BY <1>6, <1>7 DEF IInv, CountsAreAdmissions
<1>9. call[t].now < bucket.window_start + Window
  BY <1>4, <1>5, <1>6, ParamAssumption DEF Live, Since, Bucket, Time, IsEnabled
<1> DEFINE first == Len(log[i]) - MaxRequests + 1
<1>10. first \in 1..Len(log[i]) /\ first > Len(log[i]) - MaxRequests
  <2>1. Len(log[i]) \in Nat /\ MaxRequests \in Nat
    BY <1>2, ParamAssumption
  <2>2. MaxRequests > 0 /\ MaxRequests <= Len(log[i])
    BY <1>7, <1>8
  <2>3. QED
    BY <2>1, <2>2
<1>11. DropIsDue(t) <=> log[i][first] + Window > call[t].now
  BY <1>8 DEF DropIsDue
<1> HIDE DEF first
<1>12. log[i][first] >= bucket.window_start
  BY <1>8, <1>10
<1>13. log[i][first] \in Time
  BY <1>2, <1>10
<1>14. QED
  BY <1>5, <1>6, <1>9, <1>11, <1>12, <1>13, ParamAssumption DEF Bucket, Time

(* A stamp older than the bucket neither rewinds nor restarts a window.    *)
THEOREM WindowsOnlyMoveForward == Spec => WindowsMoveForward
<1>1. IInv /\ [Next]_vars =>
        [\A i \in DOMAIN state \cap DOMAIN state' :
           \/ state'[i].window_start = state[i].window_start
           \/ state'[i].window_start >= state[i].window_start + Window]_vars
  BY WindowsMoveForwardStep
<1>2. QED
  BY <1>1, Inductive, PTL DEF Spec, WindowsMoveForward

(* Pruning never forgets a count that still matters.                       *)
THEOREM PruningForgetsOnlyExpired == Spec => OnlyExpiredForgotten
<1>1. IInv /\ [Next]_vars =>
        [\A i \in DOMAIN state \ DOMAIN state' :
           clock >= state[i].window_start + Window]_vars
  BY OnlyExpiredForgottenStep
<1>2. QED
  BY <1>1, Inductive, PTL DEF Spec, OnlyExpiredForgotten

(* A client below its quota is never throttled, however the threads'       *)
(* stamps interleave and whatever was pruned in between.                   *)
THEOREM NoUnjustifiedDrop == Spec => DropsAreJustified
<1>1. IInv /\ [Next]_vars =>
        [\A t \in Thread :
           (/\ call[t] # Idle /\ call'[t] = Idle
            /\ call[t].ip \in Watch /\ log' = log) => DropIsDue(t)]_vars
  BY DropsAreJustifiedStep
<1>2. QED
  BY <1>1, Inductive, PTL DEF Spec, DropsAreJustified

(* The map holds no dead entries beyond the threshold: whatever the races,  *)
(* a call that leaves it larger has just pruned it.                         *)
THEOREM PruningBoundsTheMap == Spec => LargeMapIsLive
<1>1. Init => MapIsFinite
  BY FS_EmptySet DEF Init, MapIsFinite
<1>2. IInv /\ MapIsFinite /\ [Next]_vars =>
        [\A t \in Thread :
           (/\ call[t] # Idle /\ call'[t] = Idle
            /\ Cardinality(DOMAIN state') > PruneLen + 1) =>
              \A i \in DOMAIN state' : state'[i].window_start + Window > call[t].now]_vars
  BY LargeMapIsLiveStep
<1>3. QED
  BY <1>1, <1>2, MapStaysFinite, Inductive, PTL DEF Spec, LargeMapIsLive
-----------------------------------------------------------------------------
(* The two bounds on what is admitted in less than a window:               *)
(* UnprunedBurst, and the promise of Quota for maps of any size.           *)
(*                                                                         *)
(* Both look back from the present to an admission k of a client that is   *)
(* less than a window old and count what was admitted since.  A stamp      *)
(* read before that admission is stale, and each thread has at most one:   *)
(* those read later are no earlier than the admission.  A bucket whose     *)
(* window started at the admission or later is fresh; it is live for every *)
(* stamp there can be until the admission is a window old, so that none    *)
(* is opened after it.                                                     *)

(* The threads whose stamp was read before since. *)
Stale(since) == {t \in Thread : call[t] # Idle /\ call[t].now < since}

Fresh(i, since) == i \in DOMAIN state /\ state[i].window_start >= since

(* What i's bucket still admits. *)
Room(i) == IF i \in DOMAIN state THEN MaxRequests - state[i].count ELSE 0

(* The admissions of i from the k-th on. *)
Used(i, k) == Len(log[i]) - k + 1

(* While the bucket is not fresh, each stale thread may open one more, and *)
(* then a thread with a later stamp the last one: pruning needs no stale   *)
(* thread of its own to make room for them.                                *)
BurstAt(i, k, since) ==
  IF Fresh(i, since)
  THEN Used(i, k) + Room(i) <= (Cardinality(Thread) + 1) * MaxRequests
  ELSE Used(i, k) + Room(i) + (Cardinality(Stale(since)) + 1) * MaxRequests
         <= (Cardinality(Thread) + 1) * MaxRequests

BurstIsAccounted ==
  \A i \in Watch : \A k \in 1..Len(log[i]) :
    clock < log[i][k] + Window => BurstAt(i, k, log[i][k])

(* Without pruning a bucket is only opened a window after the last.  One   *)
(* that ended before the admission takes stale threads only, one each; the *)
(* next may take a full quota, and after it only a fresh one can come.     *)
UnprunedAt(i, k, since) ==
  IF state[i].window_start + Window <= since
  THEN Used(i, k) + Cardinality(Stale(since)) <= Cardinality(Thread)
  ELSE IF Fresh(i, since)
  THEN Used(i, k) + Room(i) <= 2 * MaxRequests + Cardinality(Thread) - 1
  ELSE Used(i, k) + Room(i) + MaxRequests <= 2 * MaxRequests + Cardinality(Thread) - 1

UnprunedIsAccounted ==
  \A i \in Watch :
    /\ log[i] # <<>> => i \in DOMAIN state
    /\ \A k \in 1..Len(log[i]) :
         clock < log[i][k] + Window => UnprunedAt(i, k, log[i][k])

-----------------------------------------------------------------------------
(* Facts about the threads with stale stamps. *)

LEMMA StaleIsFinite ==
  ASSUME NEW since
  PROVE  /\ IsFiniteSet(Thread) /\ Cardinality(Thread) \in Nat
         /\ IsFiniteSet(Stale(since)) /\ Cardinality(Stale(since)) \in Nat
<1>1. Stale(since) \subseteq Thread
  BY DEF Stale
<1>2. QED
  BY <1>1, FiniteAssumption, FS_Subset, FS_CardinalityType

(* A step that starts a call adds no stale stamp: the clock is past since. *)
LEMMA StaleNeverGrows ==
  ASSUME IInv, [Next]_vars, NEW since \in Time, since <= clock
  PROVE  Stale(since)' \subseteq Stale(since)
<1>1. CASE Tick
  BY <1>1 DEF Tick, Stale
<1>2. ASSUME NEW t \in Thread, NEW i \in Ip, Call(t, i)
      PROVE  Stale(since)' \subseteq Stale(since)
  BY <1>2 DEF Call, Stale, IInv, TypeOK, Time
<1>3. ASSUME NEW t \in Thread, NewWindow(t) \/ Drop(t) \/ Count(t)
      PROVE  Stale(since)' \subseteq Stale(since)
  BY <1>3, EndsFinish DEF Finish, Stale, IInv, TypeOK
<1>4. CASE UNCHANGED vars
  BY <1>4 DEF vars, Stale
<1>5. QED
  BY <1>1, <1>2, <1>3, <1>4 DEF Next

LEMMA FewerStale ==
  ASSUME IInv, [Next]_vars, NEW since \in Time, since <= clock
  PROVE  Cardinality(Stale(since)') <= Cardinality(Stale(since))
  BY StaleNeverGrows, StaleIsFinite, FS_Subset

(* The thread whose call ends is not among them any more. *)
LEMMA EndedIsNotStale ==
  ASSUME IInv, NEW t \in Thread, NewWindow(t) \/ Drop(t) \/ Count(t),
         NEW since \in Time, since <= clock
  PROVE  /\ Cardinality(Stale(since)') + 1 <= Cardinality(Thread)
         /\ t \in Stale(since) =>
              Cardinality(Stale(since)') + 1 <= Cardinality(Stale(since))
<1>1. t \notin Stale(since)'
  BY EndsFinish DEF Finish, Stale, IInv, TypeOK
<1>2. Stale(since)' \subseteq Stale(since) /\ Stale(since) \subseteq Thread
  BY StaleNeverGrows DEF Next, Stale
<1>3. /\ IsFiniteSet(Thread \ {t})
      /\ Cardinality(Thread \ {t}) = Cardinality(Thread) - 1
  BY FiniteAssumption, FS_RemoveElement
<1>4. Stale(since)' \subseteq Thread \ {t}
  BY <1>1, <1>2
<1>5. Cardinality(Stale(since)') <= Cardinality(Thread \ {t})
  BY <1>3, <1>4, FS_Subset
<1>6. Cardinality(Thread) \in Nat /\ Cardinality(Stale(since)) \in Nat
  BY StaleIsFinite
<1>7. Cardinality(Stale(since)') \in Nat
  BY <1>3, <1>4, FS_Subset, FS_CardinalityType
<1>8. CASE t \in Stale(since)
  <2>1. /\ IsFiniteSet(Stale(since) \ {t})
        /\ Cardinality(Stale(since) \ {t}) = Cardinality(Stale(since)) - 1
    BY <1>8, StaleIsFinite, FS_RemoveElement
  <2>2. Cardinality(Stale(since)') <= Cardinality(Stale(since) \ {t})
    BY <1>1, <1>2, <2>1, FS_Subset
  <2>3. QED
    BY <1>3, <1>5, <1>6, <1>7, <2>1, <2>2
<1>9. QED
  BY <1>3, <1>5, <1>6, <1>7, <1>8
-----------------------------------------------------------------------------
(* What an admission does to the bucket and the history of its client: it  *)
(* joins the bucket it finds live, or opens one at its stamp where there   *)
(* is none, or one that is not live.                                       *)
Joins(t, i) ==
  /\ i \in DOMAIN state
  /\ Live(state[i], call[t].now)
  /\ state[i].count < MaxRequests
  /\ state'[i].window_start = state[i].window_start
  /\ state'[i].count = state[i].count + 1

Opens(t, i) ==
  /\ i \in DOMAIN state => ~Live(state[i], call[t].now)
  /\ state'[i] = [window_start |-> call[t].now, count |-> 1]

LEMMA AdmissionCases ==
  ASSUME IInv, NEW t \in Thread, NewWindow(t) \/ Count(t)
  PROVE  LET i == call[t].ip IN
         /\ i \in DOMAIN state'
         /\ Joins(t, i) \/ Opens(t, i)
         /\ i \in Watch => log'[i] = Append(log[i], clock)
<1> DEFINE i == call[t].ip
           now == call[t].now
<1>1. /\ call[t] # Idle /\ i \in Ip /\ now \in Time /\ IsEnabled
      /\ Entry(i, now) \in Bucket
  BY EndsFinish, CallIsTyped, EntryIsAccounted DEF IInv, CallsAreStamped
<1>2. i \in Watch => log'[i] = Append(log[i], clock)
  BY <1>1, AdmittedLog DEF NewWindow, Count, IInv
<1>3. \A bucket \in Bucket : Finish(t, bucket) => i \in DOMAIN state' /\ state'[i] = bucket
  BY <1>1, FinishedMap DEF IInv
<1>4. i \in DOMAIN Pruned(now) => i \in DOMAIN state /\ Entry(i, now) = state[i]
  BY <1>1, PrunedIsPart DEF Entry, IInv
<1>5. CASE NewWindow(t)
  <2>1. i \in DOMAIN Pruned(now)
    <3> SUFFICES ASSUME i \notin DOMAIN Pruned(now) PROVE FALSE
      OBVIOUS
    <3>1. Entry(i, now).window_start = now
      BY DEF Entry
    <3>2. Live(Entry(i, now), now)
      BY <1>1, <3>1, ParamAssumption DEF Live, Since, IsEnabled, Time
    <3>3. QED
      BY <1>5, <3>2 DEF NewWindow
  <2>2. [window_start |-> now, count |-> 1] \in Bucket
    BY <1>1 DEF Bucket
  <2>3. QED
    BY <1>2, <1>3, <1>4, <1>5, <2>1, <2>2 DEF NewWindow, Opens
<1>6. CASE Count(t)
  <2> DEFINE bucket == [Entry(i, now) EXCEPT !.count = @ + 1]
  <2>1. /\ bucket \in Bucket
        /\ bucket.window_start = Entry(i, now).window_start
        /\ bucket.count = Entry(i, now).count + 1
    BY <1>1 DEF Bucket
  <2>2. i \in DOMAIN state' /\ state'[i] = bucket
    BY <1>3, <1>6, <2>1 DEF Count
  <2>3. CASE i \in DOMAIN Pruned(now)
    BY <1>2, <1>4, <1>6, <2>1, <2>2, <2>3 DEF Count, Joins
  <2>4. CASE i \notin DOMAIN Pruned(now)
    <3>1. Entry(i, now) = [window_start |-> now, count |-> 0]
      BY <2>4 DEF Entry
    <3>2. i \in DOMAIN state => ~Live(state[i], now)
      BY <1>1, <2>4, PrunedIsPart DEF IInv
    <3>3. QED
      BY <1>2, <2>2, <3>1, <3>2 DEF Opens
  <2>5. QED
    BY <2>3, <2>4
<1>7. QED
  BY <1>5, <1>6

(* Every other step leaves the history of a client as it is, and its       *)
(* bucket too, unless it prunes it because it is not live at a stamp.      *)
LEMMA OtherSteps ==
  ASSUME IInv, [Next]_vars, NEW i \in Watch,
         ~\E t \in Thread : (NewWindow(t) \/ Count(t)) /\ call[t].ip = i
  PROVE  /\ log'[i] = log[i]
         /\ i \in DOMAIN state' => i \in DOMAIN state /\ state'[i] = state[i]
         /\ i \in DOMAIN state \ DOMAIN state' =>
              clock >= state[i].window_start + Window
<1>1. ASSUME NEW t \in Thread, NewWindow(t) \/ Drop(t) \/ Count(t)
      PROVE  /\ log'[i] = log[i]
             /\ i \in DOMAIN state' => i \in DOMAIN state /\ state'[i] = state[i]
  <2>1. PICK bucket \in Bucket : call[t] # Idle /\ Finish(t, bucket)
    BY <1>1, EndsFinish
  <2>2. CASE call[t].ip # i
    <3>1. i \in DOMAIN state' => i \in DOMAIN state /\ state'[i] = state[i]
      BY <2>1, <2>2, FinishedMap DEF IInv
    <3>2. log'[i] = log[i]
      BY <1>1, <2>1, <2>2, CallIsTyped, AdmittedLog DEF IInv, NewWindow, Drop, Count
    <3>3. QED
      BY <3>1, <3>2
  <2>3. CASE call[t].ip = i
    <3> DEFINE old == Entry(i, call[t].now)
    <3>1. Drop(t)
      BY <1>1, <2>3
    <3>2. old \in Bucket /\ old.count > 0 => i \in DOMAIN state /\ old = state[i]
      BY <2>1, <2>3, EntryIsAccounted
    <3>3. old.count > 0
      BY <2>1, <2>3, <3>1, EntryIsAccounted, ParamAssumption
         DEF Drop, Bucket, IInv, CallsAreStamped, IsEnabled
    <3>4. state'[i] = old
      BY <2>1, <2>3, <3>1, EntryIsAccounted, FinishedMap DEF Drop, IInv
    <3>5. old \in Bucket
      BY <2>1, <2>3, EntryIsAccounted
    <3>6. QED
      BY <3>1, <3>2, <3>3, <3>4, <3>5 DEF Drop
  <2>4. QED
    BY <2>2, <2>3
<1>2. CASE state' = state /\ log' = log
  BY <1>2
<1>3. CASE \A t \in Thread : ~(NewWindow(t) \/ Drop(t) \/ Count(t))
  BY <1>2, <1>3 DEF Next, Tick, Call, vars
<1>4. i \in DOMAIN state \ DOMAIN state' => clock >= state[i].window_start + Window
  BY OnlyExpiredForgottenStep
<1>5. QED
  BY <1>1, <1>3, <1>4

-----------------------------------------------------------------------------
(* The history is in the past. *)
LogIsPast == \A i \in Watch : \A k \in 1..Len(log[i]) : log[i][k] <= clock

LEMMA LogIsTyped ==
  ASSUME TypeOK, NEW i \in Watch
  PROVE  /\ log[i] \in Seq(Time) /\ Len(log[i]) \in Nat
         /\ \A k \in 1..Len(log[i]) : log[i][k] \in Time /\ log[i][k] \in Nat
<1>1. log[i] \in Seq(Time)
  BY DEF TypeOK
<1>2. ASSUME NEW k \in 1..Len(log[i])
      PROVE  log[i][k] \in Time /\ log[i][k] \in Nat
  <2>1. log[i][k] \in Time
    BY <1>1
  <2>2. QED
    BY <2>1, ParamAssumption DEF Time
<1>3. QED
  BY <1>1, <1>2

LEMMA ClockAdvances ==
  ASSUME IInv, [Next]_vars
  PROVE  clock \in Nat /\ clock' \in Nat /\ clock <= clock'
<1>1. clock \in Nat
  BY ParamAssumption DEF IInv, TypeOK, Time
<1>2. clock' \in {clock, clock + 1}
  <2>1. ASSUME NEW t \in Thread, NewWindow(t) \/ Drop(t) \/ Count(t)
        PROVE  clock' = clock
    BY <2>1, EndsFinish DEF Finish
  <2>2. QED
    BY <2>1 DEF Next, Tick, Call, vars
<1>3. QED
  BY <1>1, <1>2

(* A step leaves the history of a client, or appends the clock to it.      *)
LEMMA HistoryGrows ==
  ASSUME IInv, [Next]_vars, NEW i \in Watch
  PROVE  /\ \A k \in 1..Len(log[i]) : k \in 1..Len(log'[i]) /\ log'[i][k] = log[i][k]
         /\ \A k \in 1..Len(log'[i]) :
              k \in 1..Len(log[i])
                \/ /\ k = Len(log[i]) + 1 /\ log'[i][k] = clock
                   /\ \E t \in Thread : (NewWindow(t) \/ Count(t)) /\ call[t].ip = i
<1>1. log[i] \in Seq(Time) /\ clock \in Time
  BY DEF IInv, TypeOK
<1>2. CASE \E t \in Thread : (NewWindow(t) \/ Count(t)) /\ call[t].ip = i
  <2>1. log'[i] = Append(log[i], clock)
    BY <1>2, AdmissionCases
  <2>2. QED
    BY <1>1, <1>2, <2>1
<1>3. CASE ~\E t \in Thread : (NewWindow(t) \/ Count(t)) /\ call[t].ip = i
  BY <1>3, OtherSteps
<1>4. QED
  BY <1>2, <1>3

LEMMA LogStaysPast == IInv /\ LogIsPast /\ [Next]_vars => LogIsPast'
<1> SUFFICES ASSUME IInv, LogIsPast, [Next]_vars, NEW i \in Watch,
                    NEW k \in 1..Len(log'[i])
             PROVE  log'[i][k] <= clock'
  BY DEF LogIsPast
<1>1. clock \in Nat /\ clock' \in Nat /\ clock <= clock'
  BY ClockAdvances
<1>2. CASE k \in 1..Len(log[i])
  <2>1. log[i][k] \in Nat /\ log[i][k] <= clock
    BY <1>2, LogIsTyped DEF IInv, LogIsPast
  <2>2. log'[i][k] = log[i][k]
    BY <1>2, HistoryGrows
  <2>3. QED
    BY <1>1, <2>1, <2>2
<1>3. CASE log'[i][k] = clock
  BY <1>1, <1>3
<1>4. QED
  BY <1>2, <1>3, HistoryGrows

-----------------------------------------------------------------------------
(* The bound with pruning. *)

(* A live client's bucket is typed and within the quota. *)
LEMMA BucketIsTyped ==
  ASSUME IInv, NEW i \in DOMAIN state
  PROVE  /\ state[i] \in Bucket
         /\ state[i].window_start \in Nat /\ state[i].count \in Nat
         /\ state[i].count >= 1 /\ state[i].count <= MaxRequests
         /\ state[i].window_start <= clock
<1>1. state[i] \in Bucket
  BY DEF IInv, TypeOK
<1>2. QED
  BY <1>1, ParamAssumption DEF IInv, Bucket, Time, QuotaInWindow, StartsAreStamped

(* An admission k goes into a bucket with its own count and at a moment    *)
(* when its own thread is not stale.                                       *)
LEMMA BurstBegins ==
  ASSUME IInv, NEW t \in Thread, NewWindow(t) \/ Count(t),
         NEW i \in Watch, i = call[t].ip,
         NEW k \in Nat, k = Len(log[i]) + 1,
         NEW since \in Time, since = clock
  PROVE  BurstAt(i, k, since)'
<1>1. /\ i \in DOMAIN state'
      /\ Joins(t, i) \/ Opens(t, i)
      /\ log'[i] = Append(log[i], clock)
  BY AdmissionCases
<1>2. Used(i, k)' = 1
  BY <1>1, LogIsTyped DEF Used, IInv
<1>3. Room(i)' \in Nat /\ Room(i)' + 1 <= MaxRequests
  <2>1. MaxRequests \in Nat /\ MaxRequests > 0
    BY EndsFinish, ParamAssumption DEF IInv, CallsAreStamped, IsEnabled
  <2>2. CASE Joins(t, i)
    <3>1. state[i].count \in Nat /\ state[i].count >= 1
      BY <2>2, BucketIsTyped DEF Joins
    <3>2. QED
      BY <1>1, <2>1, <2>2, <3>1 DEF Joins, Room
  <2>3. CASE Opens(t, i)
    BY <1>1, <2>1, <2>3 DEF Opens, Room
  <2>4. QED
    BY <1>1, <2>2, <2>3
<1>4. Cardinality(Stale(since)') + 1 <= Cardinality(Thread)
  BY EndedIsNotStale, ClockAdvances DEF Next
<1>5. /\ Cardinality(Thread) \in Nat /\ Cardinality(Stale(since)') \in Nat
      /\ MaxRequests \in Nat
  <2>1. Stale(since)' \subseteq Thread
    BY DEF Stale
  <2>2. QED
    BY <2>1, FiniteAssumption, FS_Subset, FS_CardinalityType, ParamAssumption
<1>6. BurstAt(i, k, since)' <=>
        IF Fresh(i, since)'
        THEN Used(i, k)' + Room(i)' <= (Cardinality(Thread) + 1) * MaxRequests
        ELSE Used(i, k)' + Room(i)' + (Cardinality(Stale(since)') + 1) * MaxRequests
               <= (Cardinality(Thread) + 1) * MaxRequests
  BY DEF BurstAt
<1>7. /\ (Cardinality(Stale(since)') + 1) * MaxRequests <= Cardinality(Thread) * MaxRequests
      /\ (Cardinality(Thread) + 1) * MaxRequests
           = Cardinality(Thread) * MaxRequests + MaxRequests
      /\ Cardinality(Thread) * MaxRequests \in Nat
      /\ (Cardinality(Stale(since)') + 1) * MaxRequests \in Nat
  BY <1>4, <1>5
<1>8. QED
  BY <1>2, <1>3, <1>5, <1>6, <1>7

(* An admission that is less than a window old stays accounted for.  Its   *)
(* bucket, once fresh, is neither replaced nor pruned; until then a stale  *)
(* thread that opens one is stale no more.                                 *)
LEMMA BurstContinues ==
  ASSUME IInv, [Next]_vars, NEW i \in Watch, NEW k \in 1..Len(log[i]),
         NEW since \in Time, since <= clock, clock < since + Window,
         BurstAt(i, k, since)
  PROVE  BurstAt(i, k, since)'
<1> DEFINE M == MaxRequests
           bound == (Cardinality(Thread) + 1) * MaxRequests
           stale == Cardinality(Stale(since))
           later == Cardinality(Stale(since)')
           future == (stale + 1) * M
           left == (later + 1) * M
<1>1. /\ M \in Nat /\ since \in Nat /\ Window \in Nat /\ clock \in Nat
      /\ Used(i, k) \in Nat /\ bound \in Nat
  <2>1. Len(log[i]) \in Nat /\ Cardinality(Thread) \in Nat /\ clock \in Nat
    BY LogIsTyped, StaleIsFinite, ClockAdvances DEF IInv
  <2>2. QED
    BY <2>1, ParamAssumption DEF Time, Used
<1>2. stale \in Nat /\ later \in Nat /\ later <= stale
  <2>1. Stale(since)' \subseteq Thread
    BY DEF Stale
  <2>2. QED
    BY <2>1, StaleIsFinite, FewerStale, FS_Subset, FS_CardinalityType
<1>3. /\ left \in Nat /\ future \in Nat
      /\ left <= future /\ M <= future
      /\ later + 1 <= stale => left + M <= future
  <2>1. ASSUME NEW a \in Nat, NEW b \in Nat, a <= b
        PROVE  /\ (a + 1) * M <= (b + 1) * M
               /\ (a + 1) * M \in Nat /\ M <= (b + 1) * M
               /\ a + 1 <= b => (a + 1) * M + M <= (b + 1) * M
    BY <1>1, <2>1
  <2>2. QED
    BY <1>2, <2>1
<1>4. BurstAt(i, k, since) <=>
        IF Fresh(i, since) THEN Used(i, k) + Room(i) <= bound
        ELSE Used(i, k) + Room(i) + future <= bound
  BY DEF BurstAt
<1>5. BurstAt(i, k, since)' <=>
        IF Fresh(i, since)' THEN Used(i, k)' + Room(i)' <= bound
        ELSE Used(i, k)' + Room(i)' + left <= bound
  BY DEF BurstAt
<1>6. Room(i) \in Nat
  BY <1>1, BucketIsTyped DEF Room
<1> HIDE DEF M, bound, stale, later, future, left
<1>7. CASE ~\E t \in Thread : (NewWindow(t) \/ Count(t)) /\ call[t].ip = i
  <2>1. /\ log'[i] = log[i]
        /\ i \in DOMAIN state' => i \in DOMAIN state /\ state'[i] = state[i]
        /\ i \in DOMAIN state \ DOMAIN state' => clock >= state[i].window_start + Window
    BY <1>7, OtherSteps
  <2>2. Used(i, k)' = Used(i, k)
    BY <2>1 DEF Used
  <2>3. CASE i \in DOMAIN state' \/ i \notin DOMAIN state
    <3>1. Room(i)' = Room(i) /\ (Fresh(i, since)' <=> Fresh(i, since))
      BY <2>1, <2>3 DEF Room, Fresh
    <3>2. QED
      BY <1>1, <1>2, <1>3, <1>4, <1>5, <1>6, <2>2, <3>1
  <2>4. CASE i \in DOMAIN state \ DOMAIN state'
    <3>1. Room(i)' = 0 /\ ~Fresh(i, since)'
      BY <2>4 DEF Room, Fresh
    <3>2. ~Fresh(i, since)
      BY <1>1, <2>1, <2>4, BucketIsTyped DEF Fresh
    <3>3. QED
      BY <1>1, <1>2, <1>3, <1>4, <1>5, <1>6, <2>2, <3>1, <3>2
  <2>5. QED
    BY <2>3, <2>4
<1>8. ASSUME NEW t \in Thread, NewWindow(t) \/ Count(t), call[t].ip = i
      PROVE  BurstAt(i, k, since)'
  <2>1. /\ i \in DOMAIN state'
        /\ Joins(t, i) \/ Opens(t, i)
        /\ log'[i] = Append(log[i], clock)
    BY <1>8, AdmissionCases
  <2>2. Used(i, k)' = Used(i, k) + 1
    BY <2>1, LogIsTyped DEF Used, IInv
  <2>3. CASE Joins(t, i)
    <3>1. Room(i)' + 1 = Room(i) /\ (Fresh(i, since)' <=> Fresh(i, since))
      BY <1>1, <2>1, <2>3, BucketIsTyped DEF Joins, Room, Fresh, M
    <3>2. Room(i)' \in Int
      BY <1>1, <2>1, <2>3, BucketIsTyped DEF Joins, Room, M
    <3>3. QED
      BY <1>1, <1>2, <1>3, <1>4, <1>5, <1>6, <2>2, <3>1, <3>2
  <2>4. CASE Opens(t, i)
    <3>1. /\ call[t].now \in Time /\ call[t].now \in Nat /\ call[t].now <= clock
          /\ Window > 0 /\ call[t] # Idle
      BY <1>8, EndsFinish, CallIsTyped, ParamAssumption
         DEF IInv, CallsAreStamped, Time, IsEnabled
    <3>2. ~Fresh(i, since)
      <4> SUFFICES ASSUME Fresh(i, since) PROVE FALSE
        OBVIOUS
      <4>1. clock >= state[i].window_start + Window
        BY <2>4, <3>1, BucketIsTyped, DeadIsExpired DEF Opens, Fresh, IInv, TypeOK
      <4>2. QED
        BY <1>1, <4>1, BucketIsTyped DEF Fresh
    <3>3. Room(i)' + 1 = M /\ Room(i)' \in Int
      BY <1>1, <2>1, <2>4 DEF Opens, Room, M
    <3>4. Fresh(i, since)' <=> call[t].now >= since
      BY <2>1, <2>4 DEF Opens, Fresh
    <3>5. call[t].now < since => later + 1 <= stale
      BY <1>8, <3>1, EndedIsNotStale DEF Stale, stale, later
    <3>6. Used(i, k) + Room(i) + future <= bound
      BY <1>4, <3>2
    <3>7. CASE call[t].now >= since
      <4>1. Used(i, k)' + Room(i)' <= bound
        BY <1>1, <1>3, <1>6, <2>2, <3>3, <3>6
      <4>2. QED
        BY <1>5, <3>4, <3>7, <4>1
    <3>8. CASE ~(call[t].now >= since)
      <4>1. left + M <= future
        BY <1>1, <1>3, <3>1, <3>5, <3>8
      <4>2. Used(i, k)' + Room(i)' + left <= bound
        BY <1>1, <1>3, <1>6, <2>2, <3>3, <3>6, <4>1
      <4>3. QED
        BY <1>5, <3>4, <3>8, <4>2
    <3>9. QED
      BY <3>7, <3>8
  <2>5. QED
    BY <2>1, <2>3, <2>4
<1>9. QED
  BY <1>7, <1>8

LEMMA BurstKept == IInv /\ LogIsPast /\ BurstIsAccounted /\ [Next]_vars => BurstIsAccounted'
<1> SUFFICES ASSUME IInv, LogIsPast, BurstIsAccounted, [Next]_vars,
                    NEW i \in Watch, NEW k \in 1..Len(log'[i]),
                    clock' < log'[i][k] + Window
             PROVE  BurstAt(i, k, log[i][k])'
  BY DEF BurstIsAccounted
<1>1. PICK since \in Time : since = log'[i][k]
  <2>1. log'[i] \in Seq(Time)
    BY NextKeeps DEF IInv, TypeOK
  <2>2. log'[i][k] \in Time
    BY <2>1
  <2>3. QED
    BY <2>2
<1>2. /\ clock \in Nat /\ clock' \in Nat /\ clock <= clock'
      /\ since \in Nat /\ Window \in Nat
  BY ClockAdvances, ParamAssumption DEF Time
<1>3. CASE k \in 1..Len(log[i])
  <2>1. since = log[i][k]
    BY <1>1, <1>3, HistoryGrows
  <2>2. since <= clock /\ clock < since + Window
    BY <1>1, <1>2, <1>3, <2>1 DEF LogIsPast
  <2>3. BurstAt(i, k, since)
    BY <1>3, <2>1, <2>2 DEF BurstIsAccounted
  <2>4. BurstAt(i, k, since)'
    BY <1>3, <2>2, <2>3, BurstContinues
  <2>5. QED
    BY <1>1, <2>4 DEF BurstAt, Stale, Fresh, Used, Room
<1>4. ASSUME NEW t \in Thread, NewWindow(t) \/ Count(t), call[t].ip = i,
             k = Len(log[i]) + 1, log'[i][k] = clock
      PROVE  BurstAt(i, k, log[i][k])'
  <2>1. BurstAt(i, k, since)'
    BY <1>1, <1>4, LogIsTyped, BurstBegins DEF IInv
  <2>2. QED
    BY <1>1, <2>1 DEF BurstAt, Stale, Fresh, Used, Room
<1>5. QED
  BY <1>3, <1>4, HistoryGrows

(* At an admission, the quotas of all threads and one more cannot have been *)
(* used since an admission that is less than a window old.                 *)
LEMMA AdmissionIsPromised ==
  ASSUME IInv, IInv', BurstIsAccounted', NEW t \in Thread,
         NewWindow(t) \/ Count(t), NEW i \in Watch, i = call[t].ip
  PROVE  Promise!Admit(i)
<1> DEFINE burst == (Cardinality(Thread) + 1) * MaxRequests
<1>1. /\ log'[i] = Append(log[i], clock)
      /\ log' = [log EXCEPT ![i] = Append(@, clock)]
      /\ clock' = clock
  BY EndsFinish, AdmissionCases DEF NewWindow, Count, Admitted, Finish
<1>2. burst \in Nat /\ burst > 0
  <2>1. Cardinality(Thread) \in Nat /\ MaxRequests \in Nat /\ MaxRequests > 0
    BY EndsFinish, StaleIsFinite, ParamAssumption DEF IInv, CallsAreStamped, IsEnabled
  <2>2. QED
    BY <2>1
<1> HIDE DEF burst
<1>3. ASSUME Len(log[i]) >= burst
      PROVE  clock >= log[i][Len(log[i]) - burst + 1] + Window
  <2>1. Len(log[i]) \in Nat /\ Len(log[i]) - burst + 1 \in 1..Len(log[i])
    BY <1>2, <1>3, LogIsTyped DEF IInv
  <2> PICK k \in 1..Len(log[i]) : k = Len(log[i]) - burst + 1
    BY <2>1
  <2>2. /\ k \in 1..Len(log'[i]) /\ log'[i][k] = log[i][k]
        /\ Len(log'[i]) = Len(log[i]) + 1
    BY <1>1, <2>1, LogIsTyped DEF IInv
  <2>3. log[i][k] \in Nat /\ clock \in Nat /\ Window \in Nat
    BY LogIsTyped, ClockAdvances, ParamAssumption DEF IInv, Next
  <2> SUFFICES ASSUME clock' < log'[i][k] + Window PROVE FALSE
    BY <1>1, <2>2, <2>3
  <2>4. BurstAt(i, k, log[i][k])'
    BY <2>2 DEF BurstIsAccounted
  <2>5. Room(i)' \in Nat
    <3>1. i \in DOMAIN state' => state'[i].count \in 1..MaxRequests
      BY DEF IInv, QuotaInWindow
    <3>2. QED
      BY <3>1, ParamAssumption DEF Room
  <2>6. Used(i, k)' = burst + 1
    BY <1>2, <2>1, <2>2 DEF Used
  <2>7. Cardinality({u \in Thread : call'[u] # Idle /\ call'[u].now < log'[i][k]}) \in Nat
    BY FiniteAssumption, FS_Subset, FS_CardinalityType
  <2>8. Used(i, k)' + Room(i)' <= burst
    <3>1. PICK n \in Nat :
            n = Cardinality({u \in Thread : call'[u] # Idle /\ call'[u].now < log'[i][k]})
      BY <2>7
    <3>2. PICK a \in Int : a = Used(i, k)' + Room(i)'
      BY <1>2, <2>5, <2>6
    <3>3. log'[i][k] = log[i][k]
      BY <2>2
    <3>4. a <= burst \/ a + (n + 1) * MaxRequests <= burst
      BY <2>4, <3>1, <3>2, <3>3 DEF BurstAt, Stale, burst
    <3>5. (n + 1) * MaxRequests \in Nat
      BY ParamAssumption
    <3>6. QED
      BY <1>2, <3>2, <3>4, <3>5
  <2>9. QED
    BY <1>2, <2>5, <2>6, <2>8
<1>4. QED
  BY <1>1, <1>3 DEF Promise!Admit, burst

LEMMA StepIsPromised ==
  ASSUME IInv, IInv', BurstIsAccounted', [Next]_vars
  PROVE  [Promise!Next]_(Promise!vars)
<1>1. CASE Tick
  BY <1>1 DEF Tick, Promise!Next, Promise!Tick
<1>2. ASSUME NEW t \in Thread, NEW i \in Ip, Call(t, i)
      PROVE  UNCHANGED Promise!vars
  BY <1>2 DEF Call, Promise!vars
<1>3. ASSUME NEW t \in Thread, Drop(t)
      PROVE  UNCHANGED Promise!vars
  BY <1>3 DEF Drop, Finish, Promise!vars
<1>4. ASSUME NEW t \in Thread, NewWindow(t) \/ Count(t)
      PROVE  [Promise!Next]_(Promise!vars)
  <2>1. CASE call[t].ip \in Watch
    BY <1>4, <2>1, AdmissionIsPromised DEF Promise!Next
  <2>2. CASE call[t].ip \notin Watch
    BY <1>4, <2>2 DEF NewWindow, Count, Finish, Admitted, IInv, TypeOK, Promise!vars
  <2>3. QED
    BY <2>1, <2>2
<1>5. CASE UNCHANGED vars
  BY <1>5 DEF vars, Promise!vars
<1>6. QED
  BY <1>1, <1>2, <1>3, <1>4, <1>5 DEF Next

(* However the threads race and whatever is pruned, a client gets past the *)
(* limiter no more often in a window than the quotas of all threads and    *)
(* one more allow: RateLimiter implements Quota.                           *)
THEOREM QuotaIsImplemented == Spec => ImplementsQuota
<1>1. Init => LogIsPast /\ BurstIsAccounted /\ Promise!Init
  BY DEF Init, LogIsPast, BurstIsAccounted, Promise!Init
<1>2. QED
  BY <1>1, Inductive, LogStaysPast, BurstKept, StepIsPromised, PTL
     DEF Spec, ImplementsQuota, Promise!Spec

-----------------------------------------------------------------------------
(* The bound without pruning. *)

Unpruned == PruneLen >= Cardinality(Ip)

LEMMA NothingIsPruned ==
  ASSUME IInv, Unpruned, [Next]_vars
  PROVE  DOMAIN state \subseteq DOMAIN state'
<1>1. Cardinality(DOMAIN state) <= PruneLen
  <2>1. /\ IsFiniteSet(DOMAIN state)
        /\ Cardinality(DOMAIN state) <= Cardinality(Ip)
    BY FiniteAssumption, FS_Subset DEF IInv, TypeOK
  <2>2. Cardinality(DOMAIN state) \in Nat /\ Cardinality(Ip) \in Nat
    BY <2>1, FiniteAssumption, FS_CardinalityType
  <2>3. QED
    BY <2>1, <2>2, ParamAssumption DEF Unpruned
<1>2. ~(Cardinality(DOMAIN state) > PruneLen)
  <2>1. Cardinality(DOMAIN state) \in Nat
    BY FiniteAssumption, FS_Subset, FS_CardinalityType DEF IInv, TypeOK
  <2>2. QED
    BY <1>1, <2>1, ParamAssumption
<1>3. ASSUME NEW t \in Thread, NewWindow(t) \/ Drop(t) \/ Count(t)
      PROVE  DOMAIN state \subseteq DOMAIN state'
  <2>1. PICK bucket \in Bucket : state' = Put(Pruned(call[t].now), call[t].ip, bucket)
    BY <1>3, EndsFinish DEF Finish
  <2>2. Pruned(call[t].now) = state
    BY <1>2 DEF Pruned
  <2>3. QED
    BY <2>1, <2>2 DEF Put
<1>4. QED
  BY <1>3, StepCases

LEMMA UnprunedBegins ==
  ASSUME IInv, NEW t \in Thread, NewWindow(t) \/ Count(t),
         NEW i \in Watch, i = call[t].ip,
         NEW k \in Nat, k = Len(log[i]) + 1,
         NEW since \in Time, since = clock
  PROVE  UnprunedAt(i, k, since)'
<1>1. /\ i \in DOMAIN state'
      /\ Joins(t, i) \/ Opens(t, i)
      /\ log'[i] = Append(log[i], clock)
  BY AdmissionCases
<1>2. Used(i, k)' = 1
  BY <1>1, LogIsTyped DEF Used, IInv
<1>3. MaxRequests \in Nat /\ MaxRequests > 0
  BY EndsFinish, ParamAssumption DEF IInv, CallsAreStamped, IsEnabled
<1>4. Room(i)' \in Nat /\ Room(i)' + 1 <= MaxRequests
  <2>1. CASE Joins(t, i)
    <3>1. state[i].count \in Nat /\ state[i].count >= 1
      BY <2>1, BucketIsTyped DEF Joins
    <3>2. QED
      BY <1>1, <1>3, <2>1, <3>1 DEF Joins, Room
  <2>2. CASE Opens(t, i)
    BY <1>1, <1>3, <2>2 DEF Opens, Room
  <2>3. QED
    BY <1>1, <2>1, <2>2
<1>5. Cardinality(Stale(since)') + 1 <= Cardinality(Thread)
  BY EndedIsNotStale, ClockAdvances DEF Next
<1>6. Cardinality(Thread) \in Nat /\ Cardinality(Stale(since)') \in Nat
  <2>1. Stale(since)' \subseteq Thread
    BY DEF Stale
  <2>2. QED
    BY <2>1, FiniteAssumption, FS_Subset, FS_CardinalityType
<1>7. QED
  BY <1>2, <1>3, <1>4, <1>5, <1>6 DEF UnprunedAt

LEMMA UnprunedContinues ==
  ASSUME IInv, Unpruned, [Next]_vars, NEW i \in Watch, i \in DOMAIN state,
         NEW k \in 1..Len(log[i]), NEW since \in Time,
         since <= clock, clock < since + Window, UnprunedAt(i, k, since)
  PROVE  UnprunedAt(i, k, since)'
<1> DEFINE M == MaxRequests
           T == Cardinality(Thread)
           start == state[i].window_start
           next == state'[i].window_start
           stale == Cardinality(Stale(since))
           later == Cardinality(Stale(since)')
<1>1. /\ M \in Nat /\ T \in Nat /\ since \in Nat /\ Window \in Nat /\ clock \in Nat
      /\ start \in Nat /\ start <= clock
  BY StaleIsFinite, ClockAdvances, BucketIsTyped, ParamAssumption DEF Time
<1>2. Used(i, k) \in Nat
  <2>1. Len(log[i]) \in Nat
    BY LogIsTyped DEF IInv
  <2>2. QED
    BY <2>1 DEF Used
<1>3. stale \in Nat /\ later \in Nat /\ later <= stale
  <2>1. Stale(since)' \subseteq Thread
    BY DEF Stale
  <2>2. QED
    BY <2>1, StaleIsFinite, FewerStale, FS_Subset, FS_CardinalityType
<1>4. i \in DOMAIN state'
  BY NothingIsPruned
<1>5. UnprunedAt(i, k, since) <=>
        IF start + Window <= since THEN Used(i, k) + stale <= T
        ELSE IF start >= since THEN Used(i, k) + Room(i) <= 2 * M + T - 1
        ELSE Used(i, k) + Room(i) + M <= 2 * M + T - 1
  BY DEF UnprunedAt, Fresh
<1>6. UnprunedAt(i, k, since)' <=>
        IF next + Window <= since THEN Used(i, k)' + later <= T
        ELSE IF next >= since THEN Used(i, k)' + Room(i)' <= 2 * M + T - 1
        ELSE Used(i, k)' + Room(i)' + M <= 2 * M + T - 1
  BY <1>4 DEF UnprunedAt, Fresh
<1>7. Room(i) \in Nat
  BY <1>1, BucketIsTyped DEF Room
<1> HIDE DEF M, T, start, next, stale, later
<1>8. CASE ~\E t \in Thread : (NewWindow(t) \/ Count(t)) /\ call[t].ip = i
  <2>1. log'[i] = log[i] /\ state'[i] = state[i]
    BY <1>4, <1>8, OtherSteps
  <2>2. Used(i, k)' = Used(i, k) /\ Room(i)' = Room(i) /\ next = start
    BY <1>4, <2>1 DEF Used, Room, start, next
  <2>3. QED
    BY <1>1, <1>2, <1>3, <1>5, <1>6, <1>7, <2>2
<1>9. ASSUME NEW t \in Thread, NewWindow(t) \/ Count(t), call[t].ip = i
      PROVE  UnprunedAt(i, k, since)'
  <2>1. Joins(t, i) \/ Opens(t, i)
    BY <1>9, AdmissionCases
  <2>2. Used(i, k)' = Used(i, k) + 1
    <3>1. log'[i] = Append(log[i], clock)
      BY <1>9, AdmissionCases
    <3>2. QED
      BY <3>1, LogIsTyped DEF Used, IInv
  <2>3. /\ call[t].now \in Time /\ call[t].now \in Nat /\ call[t].now <= clock
        /\ Window > 0 /\ M > 0 /\ call[t] # Idle
    BY <1>9, EndsFinish, CallIsTyped, ParamAssumption
       DEF IInv, CallsAreStamped, Time, IsEnabled, M
  <2>4. call[t].now < since => later + 1 <= stale
    BY <1>9, <2>3, EndedIsNotStale DEF Stale, stale, later
  <2>5. CASE Joins(t, i)
    <3>1. start + Window > call[t].now
      BY <2>3, <2>5, BucketIsTyped, LiveEndsLater DEF Joins, start
    <3>2. Room(i)' + 1 = Room(i) /\ Room(i)' \in Int /\ next = start
      BY <1>1, <1>4, <2>5, BucketIsTyped DEF Joins, Room, M, start, next
    <3>3. CASE start + Window <= since
      <4>1. call[t].now < since /\ Used(i, k) + stale <= T
        BY <1>1, <1>5, <2>3, <3>1, <3>3
      <4>2. Used(i, k)' + later <= T
        BY <1>1, <1>2, <1>3, <2>2, <2>4, <4>1
      <4>3. QED
        BY <1>6, <3>2, <3>3, <4>2
    <3>4. CASE ~(start + Window <= since)
      <4>1. Used(i, k)' + Room(i)' = Used(i, k) + Room(i)
        BY <1>2, <1>7, <2>2, <3>2
      <4>2. QED
        BY <1>5, <1>6, <3>2, <3>4, <4>1
    <3>5. QED
      BY <3>3, <3>4
  <2>6. CASE Opens(t, i)
    <3>1. call[t].now >= start + Window
      BY <2>3, <2>6, BucketIsTyped, DeadIsExpired DEF Opens, start, IInv, TypeOK
    <3>2. Room(i)' + 1 = M /\ Room(i)' \in Int /\ next = call[t].now
      BY <1>1, <1>4, <2>6 DEF Opens, Room, M, next
    <3> DEFINE now == call[t].now
    <3> HIDE DEF now
    <3>3. now \in Nat /\ now >= start + Window /\ now <= clock
      BY <2>3, <3>1 DEF now
    <3>4. start < since
      BY <1>1, <3>3
    <3>5. CASE start + Window <= since /\ now < since
      <4>1. Used(i, k) + stale <= T /\ later + 1 <= stale
        BY <1>5, <2>4, <3>5 DEF now
      <4>2. CASE now + Window <= since
        BY <1>1, <1>2, <1>3, <1>6, <2>2, <3>2, <4>1, <4>2 DEF now
      <4>3. CASE ~(now + Window <= since)
        <5>1. next = now /\ ~(now >= since)
          BY <1>1, <3>2, <3>3, <3>5 DEF now
        <5>2. UnprunedAt(i, k, since)' <=> Used(i, k)' + Room(i)' + M <= 2 * M + T - 1
          BY <1>6, <4>3, <5>1
        <5>3. Used(i, k) + 1 <= T
          BY <1>1, <1>2, <1>3, <4>1
        <5>4. Used(i, k)' + Room(i)' = Used(i, k) + M
          BY <1>1, <1>2, <2>2, <3>2
        <5>5. Used(i, k)' + Room(i)' + M <= 2 * M + T - 1
          BY <1>1, <1>2, <5>3, <5>4
        <5>6. QED
          BY <5>2, <5>5
      <4>4. QED
        BY <4>2, <4>3
    <3>6. CASE ~(start + Window <= since /\ now < since)
      <4>1. Used(i, k) <= T \/ Used(i, k) + Room(i) + M <= 2 * M + T - 1
        BY <1>1, <1>2, <1>3, <1>5, <3>4
      <4>2. now >= since
        BY <1>1, <3>3, <3>6
      <4>3. UnprunedAt(i, k, since)' <=> Used(i, k)' + Room(i)' <= 2 * M + T - 1
        BY <1>1, <1>6, <2>3, <3>2, <3>3, <4>2 DEF now
      <4>4. Used(i, k) + M <= 2 * M + T - 1
        <5>1. CASE Used(i, k) <= T
          BY <1>1, <1>2, <2>3, <5>1
        <5>2. CASE Used(i, k) + Room(i) + M <= 2 * M + T - 1
          BY <1>1, <1>2, <1>7, <5>2
        <5>3. QED
          BY <4>1, <5>1, <5>2
      <4>5. Used(i, k)' + Room(i)' = Used(i, k) + M
        BY <1>1, <1>2, <2>2, <3>2
      <4>6. QED
        BY <4>3, <4>4, <4>5
    <3>7. QED
      BY <3>5, <3>6
  <2>7. QED
    BY <2>1, <2>5, <2>6
<1>10. QED
  BY <1>8, <1>9

LEMMA UnprunedKept ==
  IInv /\ Unpruned /\ LogIsPast /\ UnprunedIsAccounted /\ [Next]_vars
    => UnprunedIsAccounted'
<1> SUFFICES ASSUME IInv, Unpruned, LogIsPast, UnprunedIsAccounted, [Next]_vars,
                    NEW i \in Watch
             PROVE  /\ log'[i] # <<>> => i \in DOMAIN state'
                    /\ \A k \in 1..Len(log'[i]) :
                         clock' < log'[i][k] + Window => UnprunedAt(i, k, log[i][k])'
  BY DEF UnprunedIsAccounted
<1>1. ASSUME log'[i] # <<>>
      PROVE  i \in DOMAIN state'
  <2>1. CASE log'[i] = log[i]
    BY <1>1, <2>1, NothingIsPruned DEF UnprunedIsAccounted
  <2>2. CASE log'[i] # log[i]
    BY <2>2, OtherSteps, AdmissionCases
  <2>3. QED
    BY <2>1, <2>2
<1>2. ASSUME NEW k \in 1..Len(log'[i]), clock' < log'[i][k] + Window
      PROVE  UnprunedAt(i, k, log[i][k])'
  <2>1. PICK since \in Time : since = log'[i][k]
    <3>1. log'[i] \in Seq(Time)
      BY NextKeeps DEF IInv, TypeOK
    <3>2. log'[i][k] \in Time
      BY <3>1
    <3>3. QED
      BY <3>2
  <2>2. /\ clock \in Nat /\ clock' \in Nat /\ clock <= clock'
        /\ since \in Nat /\ Window \in Nat
    BY ClockAdvances, ParamAssumption DEF Time
  <2>3. CASE k \in 1..Len(log[i])
    <3>1. since = log[i][k]
      BY <2>1, <2>3, HistoryGrows
    <3>2. since <= clock /\ clock < since + Window
      BY <1>2, <2>1, <2>2, <2>3, <3>1 DEF LogIsPast
    <3>3. UnprunedAt(i, k, since) /\ i \in DOMAIN state
      BY <2>3, <3>1, <3>2 DEF UnprunedIsAccounted
    <3>4. UnprunedAt(i, k, since)'
      BY <2>3, <3>2, <3>3, UnprunedContinues
    <3>5. QED
      BY <2>1, <3>4 DEF UnprunedAt, Stale, Fresh, Used, Room
  <2>4. ASSUME NEW t \in Thread, NewWindow(t) \/ Count(t), call[t].ip = i,
               k = Len(log[i]) + 1, log'[i][k] = clock
        PROVE  UnprunedAt(i, k, log[i][k])'
    <3>1. UnprunedAt(i, k, since)'
      BY <2>1, <2>4, LogIsTyped, UnprunedBegins DEF IInv
    <3>2. QED
      BY <2>1, <3>1 DEF UnprunedAt, Stale, Fresh, Used, Room
  <2>5. QED
    BY <2>3, <2>4, HistoryGrows
<1>3. QED
  BY <1>1, <1>2

(* An admission does not come too soon after an earlier one: the requests  *)
(* since that one are accounted for.                                       *)
LEMMA SpacedKept ==
  ASSUME NEW n, n = 2 * MaxRequests + Cardinality(Thread) - 1,
         IInv, IInv', UnprunedIsAccounted', [Next]_vars, Spaced(n)
  PROVE  Spaced(n)'
<1> SUFFICES ASSUME NEW i \in Watch, NEW k \in 1..Len(log'[i]), k + n <= Len(log'[i])
             PROVE  log'[i][k + n] >= log'[i][k] + Window
  BY DEF Spaced
<1>1. /\ Cardinality(Thread) \in Nat /\ MaxRequests \in Nat
      /\ Window \in Nat /\ clock' \in Nat
  BY StaleIsFinite, ClockAdvances, ParamAssumption
<1>2. /\ Len(log[i]) \in Nat /\ Len(log'[i]) \in Nat /\ log'[i][k] \in Nat
      /\ k \in Nat
  <2>1. log[i] \in Seq(Time) /\ log'[i] \in Seq(Time)
    BY DEF IInv, TypeOK
  <2>2. log'[i][k] \in Time
    BY <2>1
  <2>3. QED
    BY <2>1, <2>2, ParamAssumption DEF Time
<1>3. CASE log'[i] = log[i]
  BY <1>3 DEF Spaced
<1>4. CASE log'[i] # log[i]
  <2>1. PICK t \in Thread : (NewWindow(t) \/ Count(t)) /\ call[t].ip = i
    BY <1>4, OtherSteps
  <2>2. log'[i] = Append(log[i], clock) /\ clock' = clock
    BY <2>1, AdmissionCases DEF NewWindow, Count, Finish
  <2>3. Len(log'[i]) = Len(log[i]) + 1 /\ log'[i][Len(log'[i])] = clock
    BY <2>2, LogIsTyped DEF IInv
  <2>4. MaxRequests > 0
    BY <2>1, EndsFinish DEF IInv, CallsAreStamped, IsEnabled
  <2>5. n \in Nat /\ n > 0 /\ n >= Cardinality(Thread)
    BY <1>1, <2>4
  <2>6. CASE k + n <= Len(log[i])
    <3>1. k \in 1..Len(log[i]) /\ k + n \in 1..Len(log[i])
      BY <1>2, <2>5, <2>6
    <3>2. log'[i][k] = log[i][k] /\ log'[i][k + n] = log[i][k + n]
      BY <3>1, HistoryGrows
    <3>3. QED
      BY <2>6, <3>1, <3>2 DEF Spaced
  <2>7. CASE k + n = Len(log'[i])
    <3> SUFFICES ASSUME clock' < log'[i][k] + Window PROVE FALSE
      <4>1. log'[i][k + n] = clock'
        BY <2>2, <2>3, <2>7
      <4>2. PICK v \in Nat : v = log'[i][k]
        BY <1>2
      <4>3. PICK c \in Nat : c = clock'
        BY <1>1
      <4>4. c < v + Window \/ c >= v + Window
        BY <1>1
      <4>5. QED
        BY <4>1, <4>2, <4>3, <4>4
    <3>1. UnprunedAt(i, k, log[i][k])'
      BY DEF UnprunedIsAccounted
    <3>2. Used(i, k)' = n + 1
      BY <1>2, <2>5, <2>7 DEF Used
    <3>3. Room(i)' \in Nat
      <4>1. i \in DOMAIN state' => state'[i].count \in 1..MaxRequests
        BY DEF IInv, QuotaInWindow
      <4>2. QED
        BY <1>1, <4>1 DEF Room
    <3>4. Cardinality(Stale(log[i][k])') \in Nat
      <4>1. Stale(log[i][k])' \subseteq Thread
        BY DEF Stale
      <4>2. QED
        BY <4>1, FiniteAssumption, FS_Subset, FS_CardinalityType
    <3>5. \/ Used(i, k)' + Cardinality(Stale(log[i][k])') <= Cardinality(Thread)
          \/ Used(i, k)' + Room(i)' <= n
          \/ Used(i, k)' + Room(i)' + MaxRequests <= n
      BY <3>1 DEF UnprunedAt
    <3>6. PICK a \in Nat : a = Used(i, k)' /\ a = n + 1
      BY <2>5, <3>2
    <3>7. PICK r \in Nat : r = Room(i)'
      BY <3>3
    <3>8. PICK c \in Nat : c = Cardinality(Stale(log[i][k])')
      BY <3>4
    <3>9. a + c <= Cardinality(Thread) \/ a + r <= n \/ a + r + MaxRequests <= n
      BY <3>5, <3>6, <3>7, <3>8
    <3>10. PICK th \in Nat, x \in Nat : th = Cardinality(Thread) /\ x = MaxRequests
      BY <1>1
    <3>11. a = 2 * x + th /\ n = 2 * x + th - 1 /\ x > 0
      BY <2>4, <3>6, <3>10
    <3>12. a + c <= th \/ a + r <= n \/ a + r + x <= n
      BY <3>9, <3>10
    <3>13. QED
      BY <3>11, <3>12
  <2>8. k + n <= Len(log[i]) \/ k + n = Len(log'[i])
    <3>1. k + n <= Len(log[i]) + 1
      BY <2>3
    <3>2. k + n \in Int
      BY <1>2, <2>5
    <3>3. ASSUME NEW sum \in Int, NEW len \in Nat, sum <= len + 1
          PROVE  sum <= len \/ sum = len + 1
      BY <3>3
    <3>4. QED
      BY <1>2, <2>3, <3>1, <3>2, <3>3
  <2>9. QED
    BY <2>6, <2>7, <2>8
<1>5. QED
  BY <1>3, <1>4

(* Where the map is never pruned, a client gets at most two quotas past    *)
(* the limiter in any window, and one request per further thread.          *)
THEOREM UnprunedBurstHolds == Spec => []UnprunedBurst
<1> DEFINE n == 2 * MaxRequests + Cardinality(Thread) - 1
<1>1. CASE Unpruned
  <2>1. Init => LogIsPast /\ UnprunedIsAccounted
                 /\ Spaced(n)
    BY DEF Init, LogIsPast, UnprunedIsAccounted, Spaced
  <2>2. IInv /\ LogIsPast /\ UnprunedIsAccounted /\ [Next]_vars => UnprunedIsAccounted'
    BY <1>1, UnprunedKept
  <2>3. Spaced(n) => UnprunedBurst
    BY DEF UnprunedBurst
  <2>4. IInv /\ IInv' /\ UnprunedIsAccounted' /\ Spaced(n) /\ [Next]_vars => Spaced(n)'
    BY SpacedKept
  <2>5. QED
    BY <2>1, <2>2, <2>3, <2>4, Inductive, LogStaysPast, PTL DEF Spec
<1>2. CASE ~Unpruned
  <2>1. UnprunedBurst
    BY <1>2 DEF UnprunedBurst, Unpruned
  <2>2. QED
    BY <2>1, PTL
<1>3. QED
  BY <1>1, <1>2
=============================================================================
