------------------------------- MODULE Lookup -------------------------------
(***************************************************************************)
(* A resolver's lookup from end to end: a query over UDP, again over TCP   *)
(* when the answer was truncated (README.md:209), again after a timeout;   *)
(* and the two loops of src/main.rs, which put every one of these requests *)
(* to the rate limiter they share.  Composes RateLimiter with a resolver;  *)
(* of the loops it keeps what Server says about check.                     *)
(*                                                                         *)
(* The resolver has an address of its own.  Other clients use the server   *)
(* at the same time.                                                       *)
(***************************************************************************)
EXTENDS Naturals, FiniteSets

CONSTANTS
  Ip, Window, MaxRequests, PruneLen, MaxTime, Idle,  \* as in RateLimiter
  udp, main,   \* the two threads
  resolver,    \* the address of the resolver
  MaxSent,     \* bound: datagrams of the resolver on their way at a time
  Never

ASSUME LookupAssumption ==
  /\ resolver \in Ip
  /\ udp # main
  /\ Never \notin Nat
  /\ {Window, MaxRequests, PruneLen, MaxTime, MaxSent} \subseteq Nat
  /\ Idle \notin [ip : Ip, now : 0..MaxTime]

VARIABLES
  clock, state, call, log,  \* the limiter's: see RateLimiter
  step,      \* the resolver: "idle", or what it does or waits for
  long,      \* the answer does not fit into a datagram
  sent,      \* its datagrams on their way
  conns,     \* its connections that were not accepted yet
  last,      \* history: when a request of it was last under way
  calm,      \* history: the lookup began a window or more after that
  refused    \* history: the limiter dropped a request since it began

vars    == <<clock, state, call, log, step, long, sent, conns, last, calm, refused>>
limiter == <<clock, state, call, log>>
history == <<calm, refused>>

Limiter == INSTANCE RateLimiter WITH Thread <- {udp, main}, Watch <- {}

Ours(t) == call[t] # Idle /\ call[t].ip = resolver

UnderWay == sent > 0 \/ conns > 0 \/ \E t \in {udp, main} : Ours(t)

Init ==
  /\ Limiter!Init
  /\ step = "idle" /\ long = FALSE
  /\ sent = 0 /\ conns = 0
  /\ last = Never
  /\ calm = TRUE /\ refused = FALSE

-----------------------------------------------------------------------------
(* The resolver. *)

Send ==
  /\ step = "idle" /\ sent < MaxSent
  /\ step' = "udp"
  /\ long' \in BOOLEAN
  /\ sent' = sent + 1
  /\ calm' = (~UnderWay /\ (last = Never \/ clock >= last + Window))
  /\ refused' = FALSE
  /\ UNCHANGED <<limiter, conns, last>>

(* The answer had TC set. *)
Connect ==
  /\ step = "truncated" /\ conns = 0
  /\ step' = "tcp"
  /\ conns' = 1
  /\ UNCHANGED <<limiter, long, sent, last, history>>

(* A timeout: what is under way stays under way. *)
GiveUp ==
  /\ step # "idle"
  /\ step' = "idle"
  /\ UNCHANGED <<limiter, long, sent, conns, last, history>>

Lose ==
  /\ sent > 0
  /\ sent' = sent - 1
  /\ last' = clock
  /\ UNCHANGED <<limiter, step, long, conns, history>>

-----------------------------------------------------------------------------
(* The server: both loops ask the limiter before they look at a request.   *)

Receive ==
  /\ sent > 0
  /\ Limiter!Call(udp, resolver)
  /\ sent' = sent - 1
  /\ UNCHANGED <<step, long, conns, last, history>>

Accept ==
  /\ conns > 0
  /\ Limiter!Call(main, resolver)
  /\ conns' = conns - 1
  /\ UNCHANGED <<step, long, sent, last, history>>

Passes(t) ==
  /\ Ours(t)
  /\ Limiter!NewWindow(t) \/ Limiter!Count(t)
  /\ last' = clock
  /\ UNCHANGED <<long, sent, conns, history>>

(* handle_query: the answer is sent whole or truncated, and may be lost. *)
AnswerDatagram ==
  /\ Passes(udp)
  /\ step' \in {step, IF step # "udp" THEN step ELSE IF long THEN "truncated" ELSE "idle"}

(* The whole answer, if the resolver still waits for it. *)
AnswerConnection ==
  /\ Passes(main)
  /\ step' = IF step = "tcp" THEN "idle" ELSE step

(* No answer to a datagram, the end of a connection. *)
Refuse(t) ==
  /\ Ours(t)
  /\ Limiter!Drop(t)
  /\ last' = clock
  /\ refused' = TRUE
  /\ step' = IF t = main /\ step = "tcp" THEN "idle" ELSE step
  /\ UNCHANGED <<long, sent, conns, calm>>

(* What the threads do for other clients. *)
Others(t) ==
  /\ \/ \E i \in Ip \ {resolver} : Limiter!Call(t, i)
     \/ /\ call[t] # Idle /\ ~Ours(t)
        /\ Limiter!NewWindow(t) \/ Limiter!Count(t) \/ Limiter!Drop(t)
  /\ UNCHANGED <<step, long, sent, conns, last, history>>

Tick == Limiter!Tick /\ UNCHANGED <<step, long, sent, conns, last, history>>

Next ==
  \/ Send \/ Connect \/ GiveUp \/ Lose
  \/ Receive \/ Accept \/ AnswerDatagram \/ AnswerConnection
  \/ \E t \in {udp, main} : Refuse(t) \/ Others(t)
  \/ Tick

Spec == Init /\ [][Next]_vars

-----------------------------------------------------------------------------
(* With a quota of two or more, a lookup that begins when nothing of the   *)
(* resolver was under way for a window gets both its requests past the     *)
(* limiter, the UDP query and the TCP retry, whatever other clients and    *)
(* the pruning did and however late the threads are: a resolver that backs *)
(* off for a window after a failure is never locked out.                   *)
PatientLookupIsServed == MaxRequests >= 2 /\ calm => ~refused
=============================================================================
