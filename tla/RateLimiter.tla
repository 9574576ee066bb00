---------------------------- MODULE RateLimiter ----------------------------
(***************************************************************************)
(* The per-client fixed-window rate limiter of src/rate_limit.rs.          *)
(*                                                                         *)
(* Clones of one RateLimiter share a map of buckets behind a mutex.  A     *)
(* call of check reads the clock BEFORE it takes the mutex, so the stamp   *)
(* it works with may be older than the buckets it finds: Call and the      *)
(* outcomes of the critical section are steps of their own.  The mutex     *)
(* makes the critical section one step; nothing in it can panic, so no     *)
(* holder ever poisons it.                                                 *)
(*                                                                         *)
(* Definitions named Faulty... are plausible bugs of the definition that   *)
(* follows them.  The specification does not use them.                     *)
(***************************************************************************)
EXTENDS Naturals, Sequences, FiniteSets

CONSTANTS
  Ip,           \* client addresses
  Watch,        \* the clients whose admissions the history variable records
  Thread,       \* callers of check: the UDP thread and the main (TCP) thread
  Window,       \* length of the window in ticks; 0 disables the limiter
  MaxRequests,  \* requests per window; 0 disables the limiter
  PruneLen,     \* map size above which expired buckets are pruned (1024)
  MaxTime,      \* bound: the last tick of the clock
  Idle          \* the call of a thread that is not inside check

ASSUME ParamAssumption ==
  /\ Watch \subseteq Ip
  /\ Window \in Nat
  /\ MaxRequests \in Nat
  /\ PruneLen \in Nat
  /\ MaxTime \in Nat
  /\ Idle \notin [ip : Ip, now : 0..MaxTime]

(* There are finitely many addresses, and the server has two threads. *)
ASSUME FiniteAssumption ==
  /\ IsFiniteSet(Ip)
  /\ IsFiniteSet(Thread)

VARIABLES
  clock,  \* the monotonic clock behind Instant::now
  state,  \* the shared HashMap<IpAddr, Bucket>: a function on the IPs in it
  call,   \* per thread: the argument and the stamp of the running check
  log     \* history: for each watched IP, the times check returned true

vars == <<clock, state, call, log>>

Time   == 0..MaxTime
Bucket == [window_start : Time, count : Nat]
CallOf == [ip : Ip, now : Time]

IsEnabled == MaxRequests > 0 /\ Window > 0

Init ==
  /\ clock = 0
  /\ state = [i \in {} |-> 0]
  /\ call = [t \in Thread |-> Idle]
  /\ log = [i \in Watch |-> <<>>]

-----------------------------------------------------------------------------
FaultySince(n, start) == IF n >= start THEN n - start ELSE start - n

(* now.duration_since(start), zero when start is the later of the two. *)
Since(n, start) == IF n >= start THEN n - start ELSE 0

FaultyLive(bucket, n) == Since(n, bucket.window_start) <= Window

Live(bucket, n) == Since(n, bucket.window_start) < Window

FaultyPruneHalf(n) ==
  IF Cardinality(DOMAIN state) > PruneLen
  THEN [i \in {j \in DOMAIN state : 2 * Since(n, state[j].window_start) < Window}
          |-> state[i]]
  ELSE state

FaultyPruneLate(n) ==
  IF Cardinality(DOMAIN state) > PruneLen + 1
  THEN [i \in {j \in DOMAIN state : Live(state[j], n)} |-> state[i]]
  ELSE state

(* The map after the opportunistic pruning done at stamp n. *)
Pruned(n) ==
  IF Cardinality(DOMAIN state) > PruneLen
  THEN [i \in {j \in DOMAIN state : Live(state[j], n)} |-> state[i]]
  ELSE state

FaultyEntry(i, n) ==
  IF i \in DOMAIN Pruned(n)
  THEN Pruned(n)[i]
  ELSE [window_start |-> n + Window, count |-> 0]

(* The bucket that entry(i).or_insert finds or creates at stamp n. *)
Entry(i, n) ==
  IF i \in DOMAIN Pruned(n)
  THEN Pruned(n)[i]
  ELSE [window_start |-> n, count |-> 0]

Put(map, i, bucket) ==
  [j \in DOMAIN map \cup {i} |-> IF j = i THEN bucket ELSE map[j]]

(* For an i outside Watch this leaves log as it is. *)
Admitted(i) == log' = [log EXCEPT ![i] = Append(@, clock)]

-----------------------------------------------------------------------------
(* check(i) starts: the clock is read, then the thread waits for the map. *)
Call(t, i) ==
  /\ IsEnabled
  /\ call[t] = Idle
  /\ call' = [call EXCEPT ![t] = [ip |-> i, now |-> clock]]
  /\ UNCHANGED <<clock, state, log>>

(* The critical section leaves bucket in the map, and check returns. *)
Finish(t, bucket) ==
  /\ state' = Put(Pruned(call[t].now), call[t].ip, bucket)
  /\ call' = [call EXCEPT ![t] = Idle]
  /\ UNCHANGED clock

FaultyNewWindow(t) ==
  /\ call[t] # Idle
  /\ ~Live(Entry(call[t].ip, call[t].now), call[t].now)
  /\ Finish(t, [window_start |-> call[t].now, count |-> 0])
  /\ Admitted(call[t].ip)

(* The window has elapsed at this call's stamp: a new one starts there. *)
NewWindow(t) ==
  /\ call[t] # Idle
  /\ ~Live(Entry(call[t].ip, call[t].now), call[t].now)
  /\ Finish(t, [window_start |-> call[t].now, count |-> 1])
  /\ Admitted(call[t].ip)

(* The window is running and its quota is used up: check returns false. *)
Drop(t) ==
  LET bucket == Entry(call[t].ip, call[t].now) IN
  /\ call[t] # Idle
  /\ Live(bucket, call[t].now)
  /\ bucket.count >= MaxRequests
  /\ Finish(t, bucket)
  /\ UNCHANGED log

(* The window is running and has room: the request is counted. *)
Count(t) ==
  LET bucket == Entry(call[t].ip, call[t].now) IN
  /\ call[t] # Idle
  /\ Live(bucket, call[t].now)
  /\ bucket.count < MaxRequests
  /\ Finish(t, [bucket EXCEPT !.count = @ + 1])
  /\ Admitted(call[t].ip)

Tick ==
  /\ clock < MaxTime
  /\ clock' = clock + 1
  /\ UNCHANGED <<state, call, log>>

Next ==
  \/ Tick
  \/ \E t \in Thread, i \in Ip : Call(t, i)
  \/ \E t \in Thread : NewWindow(t) \/ Drop(t) \/ Count(t)

Spec == Init /\ [][Next]_vars

-----------------------------------------------------------------------------
(* The values the variables range over: clock, map, running calls, history. *)
TypeOK ==
  /\ clock \in Time
  /\ DOMAIN state \subseteq Ip
  /\ state \in [DOMAIN state -> Bucket]
  /\ call \in [Thread -> CallOf \cup {Idle}]
  /\ log \in [Watch -> Seq(Time)]

(* Every bucket in the map has counted at least the request that made it    *)
(* and never more than the quota (so that the u32 count cannot overflow).   *)
QuotaInWindow == \A i \in DOMAIN state : state[i].count \in 1..MaxRequests

(* Any n + 1 admissions of one client span at least a window. *)
Spaced(n) ==
  \A i \in Watch : \A k \in 1..Len(log[i]) :
    k + n <= Len(log[i]) => log[i][k + n] >= log[i][k] + Window

(* While the map is small enough never to be pruned, fixed windows admit   *)
(* at most two quotas of one client in any window, plus one request for    *)
(* each further thread whose stamp was read before the window began.       *)
UnprunedBurst ==
  PruneLen >= Cardinality(Ip) => Spaced(2 * MaxRequests + Cardinality(Thread) - 1)

(* Pruning lets a thread with an old stamp re-open a window too early, once *)
(* per thread: in general a client gets one quota more than there are       *)
(* threads in any window, and no more.                                      *)
Promise ==
  INSTANCE Quota WITH
    Client <- Watch, Burst <- (Cardinality(Thread) + 1) * MaxRequests
ImplementsQuota == Promise!Spec

(* README.md:240 says of RATE_LIMIT_REQUESTS=20 RATE_LIMIT_SECONDS=1 that   *)
(* it allows "at most 20 requests per source IP every 1 second": no more    *)
(* than the quota is admitted in any stretch of time shorter than a window. *)
AtMostQuotaEveryWindow == Spaced(MaxRequests)

(* A request is dropped only when a full quota of the same client was       *)
(* admitted in the window that ends at its stamp, or since that stamp: a    *)
(* client below the quota is never throttled, whatever the other thread,    *)
(* the other clients and the pruning did in between.                        *)
DropIsDue(t) ==
  LET past == log[call[t].ip] IN
  /\ Len(past) >= MaxRequests
  /\ past[Len(past) - MaxRequests + 1] + Window > call[t].now

DropsAreJustified ==
  [][\A t \in Thread :
       (/\ call[t] # Idle /\ call'[t] = Idle
        /\ call[t].ip \in Watch /\ log' = log) => DropIsDue(t)]_vars

(* The window of a client only moves forward, and by at least its length:   *)
(* a stamp older than the bucket neither rewinds nor restarts the window.   *)
WindowsMoveForward ==
  [][\A i \in DOMAIN state \cap DOMAIN state' :
       \/ state'[i].window_start = state[i].window_start
       \/ state'[i].window_start >= state[i].window_start + Window]_vars

(* A bucket leaves the map only after its window is over: pruning never     *)
(* forgets a count that still matters.                                      *)
OnlyExpiredForgotten ==
  [][\A i \in DOMAIN state \ DOMAIN state' :
       clock >= state[i].window_start + Window]_vars

(* "so the map can't grow unbounded over time" (rate_limit.rs:59): a call   *)
(* that leaves more entries than the threshold and its own leaves only      *)
(* clients whose window had not ended at its stamp.  The stamp may be old,  *)
(* so the map can be larger than the number of clients that are live now.   *)
LargeMapIsLive ==
  [][\A t \in Thread :
       (/\ call[t] # Idle /\ call'[t] = Idle
        /\ Cardinality(DOMAIN state') > PruneLen + 1) =>
          \A i \in DOMAIN state' : state'[i].window_start + Window > call[t].now]_vars
=============================================================================
