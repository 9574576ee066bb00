---------------------------- MODULE ServerProofs ----------------------------
(***************************************************************************)
(* Proofs about Server for any requests, clients and limiter settings.     *)
(*                                                                         *)
(* The inductive invariant joins that of the limiter to what ties threads, *)
(* queues and requests together: each request is in one place, a thread    *)
(* inside check asks for the address of the request it holds, and a        *)
(* process that is down holds nothing.  Every fact about the limiter is    *)
(* one of RateLimiterProofs; the end of the process, which empties the     *)
(* map, is the one step of the limiter's state that is not the limiter's.  *)
(***************************************************************************)
EXTENDS Server, FiniteSetTheorems, TLAPS

(* What is proved of the limiter on its own, for the instance in Server. *)
Proved == INSTANCE RateLimiterProofs WITH Watch <- Ip

(* Each thread has requests of its own transport, and its own places. *)
JobsAreApart ==
  /\ job[udp] \in Datagram \cup {None} /\ pc[udp] \in {"idle", "check", "handle"}
  /\ job[main] \in Conn \cup {None} /\ pc[main] # "handle"

(* What is queued has no outcome yet, is queued once, and is nobody's job. *)
QueuesAreApart ==
  /\ \A d \in inbox : fate[d] = "asked" /\ job[udp] # d
  /\ \A k \in 1..Len(backlog) : fate[backlog[k]] = "asked" /\ job[main] # backlog[k]
  /\ \A j, k \in 1..Len(backlog) : backlog[j] = backlog[k] => j = k

(* The end of the process leaves nothing behind. *)
DownIsEmpty ==
  ~up => /\ inbox = {} /\ backlog = <<>>
         /\ pc = Start
         /\ state = [i \in {} |-> 0]

(* A thread inside the limiter's check asks about its request's address. *)
CallsAreChecks ==
  \A t \in Thread : call[t] # Idle =>
    limited /\ up /\ pc[t] = "check" /\ call[t].ip = Source[job[t]]

ServedOK == TypeOK /\ JobsAreApart /\ QueuesAreApart /\ DownIsEmpty

IInv == ServedOK /\ OutageNeedsLostPeer /\ CallsAreChecks /\ Proved!IInv

-----------------------------------------------------------------------------
(* The two instances of RateLimiter are the same, definition by definition. *)

LEMMA ProvedAssumptions == Proved!ParamAssumption /\ Proved!FiniteAssumption
<1>1. IsFiniteSet(Thread)
  <2>1. IsFiniteSet({udp} \cup {main})
    BY FS_Singleton, FS_AddElement
  <2>2. Thread = {udp} \cup {main}
    BY DEF Thread
  <2>3. QED
    BY <2>1, <2>2
<1>2. QED
  BY <1>1, LimiterAssumption
     DEF Proved!ParamAssumption, Proved!FiniteAssumption, Proved!IsFiniteSet, IsFiniteSet

LEMMA SameCardinality ==
  ASSUME NEW S
  PROVE  /\ Limiter!Cardinality(S) = Cardinality(S)
         /\ Proved!Cardinality(S) = Cardinality(S)
  BY DEF Cardinality, Limiter!Cardinality, Proved!Cardinality

LEMMA SameLive ==
  ASSUME NEW bucket, NEW n
  PROVE  Limiter!Live(bucket, n) <=> Proved!Live(bucket, n)
  BY DEF Limiter!Live, Proved!Live, Limiter!Since, Proved!Since

LEMMA SamePruned ==
  ASSUME NEW n
  PROVE  Limiter!Pruned(n) = Proved!Pruned(n)
<1>1. {j \in DOMAIN state : Limiter!Live(state[j], n)}
        = {j \in DOMAIN state : Proved!Live(state[j], n)}
  BY SameLive
<1>2. QED
  BY <1>1, SameCardinality DEF Limiter!Pruned, Proved!Pruned

LEMMA SameEntry ==
  ASSUME NEW i, NEW n
  PROVE  Limiter!Entry(i, n) = Proved!Entry(i, n)
  BY SamePruned DEF Limiter!Entry, Proved!Entry

LEMMA SameFinish ==
  ASSUME NEW t, NEW bucket
  PROVE  Limiter!Finish(t, bucket) <=> Proved!Finish(t, bucket)
  BY SamePruned DEF Limiter!Finish, Proved!Finish, Limiter!Put, Proved!Put

LEMMA SameSteps ==
  ASSUME NEW t
  PROVE  /\ Limiter!NewWindow(t) <=> Proved!NewWindow(t)
         /\ Limiter!Drop(t) <=> Proved!Drop(t)
         /\ Limiter!Count(t) <=> Proved!Count(t)
         /\ \A i : Limiter!Call(t, i) <=> Proved!Call(t, i)
<1>1. Limiter!NewWindow(t) <=> Proved!NewWindow(t)
  BY SameEntry, SameLive, SameFinish
     DEF Limiter!NewWindow, Proved!NewWindow, Limiter!Admitted, Proved!Admitted
<1>2. Limiter!Drop(t) <=> Proved!Drop(t)
  BY SameEntry, SameLive, SameFinish DEF Limiter!Drop, Proved!Drop
<1>3. Limiter!Count(t) <=> Proved!Count(t)
  BY SameEntry, SameLive, SameFinish
     DEF Limiter!Count, Proved!Count, Limiter!Admitted, Proved!Admitted
<1>4. ASSUME NEW i PROVE Limiter!Call(t, i) <=> Proved!Call(t, i)
  BY DEF Limiter!Call, Proved!Call, Limiter!IsEnabled, Proved!IsEnabled
<1>5. QED
  BY <1>1, <1>2, <1>3, <1>4

LEMMA SameState ==
  /\ Limiter!Init <=> Proved!Init
  /\ Limiter!TypeOK <=> Proved!TypeOK
  /\ Limiter!Tick <=> Proved!Tick
  /\ Limiter!IsEnabled <=> Proved!IsEnabled
  BY DEF Limiter!Init, Proved!Init, Limiter!TypeOK, Proved!TypeOK,
         Limiter!Tick, Proved!Tick, Limiter!IsEnabled, Proved!IsEnabled,
         Limiter!Time, Proved!Time, Limiter!Bucket, Proved!Bucket,
         Limiter!CallOf, Proved!CallOf

LEMMA SameTypes ==
  ASSUME Proved!IInv'
  PROVE  Limiter!TypeOK'
  BY DEF Proved!IInv, Limiter!TypeOK, Proved!TypeOK, Limiter!Time, Proved!Time,
         Limiter!Bucket, Proved!Bucket, Limiter!CallOf, Proved!CallOf

-----------------------------------------------------------------------------
(* What the steps of the process do to threads, requests and queues. *)

LEMMA QueuedAreRequests ==
  ASSUME TypeOK
  PROVE  /\ \A d \in inbox : d \in Datagram /\ d \in Request /\ d # None
         /\ \A k \in 1..Len(backlog) :
              backlog[k] \in Conn /\ backlog[k] \in Request /\ backlog[k] # None
<1>1. backlog \in Seq(Conn) /\ inbox \subseteq Datagram
  BY DEF TypeOK
<1>2. \A k \in 1..Len(backlog) : backlog[k] \in Conn
  BY <1>1
<1>3. QED
  BY <1>1, <1>2, ServerAssumption DEF Request

LEMMA ThreadsApart ==
  ASSUME ServedOK, NEW t \in Thread, pc[t] # "idle"
  PROVE  /\ job[t] \in Request /\ fate[job[t]] = "asked"
         /\ \A u \in Thread : job[u] = job[t] => u = t
         /\ job[t] \notin inbox
         /\ \A k \in 1..Len(backlog) : job[t] # backlog[k]
         /\ up
<1>1. job[t] # None /\ job[t] \in Request /\ fate[job[t]] = "asked" /\ up
  BY DEF ServedOK, TypeOK, DownIsEmpty, Start
<1>2. backlog \in Seq(Conn) /\ inbox \subseteq Datagram
  BY DEF ServedOK, TypeOK
<1>3. \A k \in 1..Len(backlog) : backlog[k] \in Conn
  BY <1>2
<1>4. QED
  BY <1>1, <1>2, <1>3, ServerAssumption
     DEF ServedOK, JobsAreApart, QueuesAreApart, Thread, Request

LEMMA GotoKeeps ==
  ASSUME ServedOK, NEW t \in Thread, NEW place \in Place \ {"idle"},
         pc[t] # "idle", Goto(t, place),
         t = udp => place = "handle", t = main => place # "handle",
         UNCHANGED <<backlog, inbox, job, fate, peers, process>>, Limiter!TypeOK'
  PROVE  ServedOK'
<1>1. pc' = [pc EXCEPT ![t] = place] /\ up
  BY ThreadsApart DEF Goto
<1>2. UNCHANGED <<backlog, inbox, job, fate, sent, link, taken, limited, starts, up, past>>
  BY DEF peers, process
<1>3. TypeOK'
  BY <1>1, <1>2 DEF ServedOK, TypeOK
<1>4. JobsAreApart'
  BY <1>1, <1>2, ServerAssumption DEF ServedOK, TypeOK, JobsAreApart, Passed, Thread
<1>5. QueuesAreApart'
  BY <1>2 DEF ServedOK, QueuesAreApart
<1>6. QED
  BY <1>1, <1>2, <1>3, <1>4, <1>5 DEF ServedOK, DownIsEmpty

LEMMA EndKeeps ==
  ASSUME ServedOK, NEW t \in Thread, NEW outcome \in Fate,
         pc[t] # "idle", End(t, outcome),
         UNCHANGED <<backlog, inbox, peers, process>>, Limiter!TypeOK'
  PROVE  ServedOK'
<1>1. /\ pc' = [pc EXCEPT ![t] = "idle"]
      /\ job' = [job EXCEPT ![t] = None]
      /\ fate' = [fate EXCEPT ![job[t]] = outcome]
  BY DEF End, Goto
<1>2. UNCHANGED <<backlog, inbox, sent, link, taken, limited, starts, up, past>>
  BY DEF peers, process
<1>3. TypeOK'
  BY <1>1, <1>2, ThreadsApart DEF ServedOK, TypeOK, Place
<1>4. JobsAreApart'
  BY <1>1, ServerAssumption DEF ServedOK, TypeOK, JobsAreApart, Thread
<1>5. QueuesAreApart'
  <2>1. fate \in [Request -> Fate] /\ job \in [Thread -> Request \cup {None}]
    BY DEF ServedOK, TypeOK
  <2>2. \A d \in inbox : fate'[d] = "asked" /\ job'[udp] # d
    BY <1>1, <2>1, QueuedAreRequests, ThreadsApart DEF ServedOK, QueuesAreApart, Thread
  <2>3. ASSUME NEW k \in 1..Len(backlog)
        PROVE  fate'[backlog[k]] = "asked" /\ job'[main] # backlog[k]
    BY <1>1, <2>1, QueuedAreRequests, ThreadsApart DEF ServedOK, QueuesAreApart, Thread
  <2>4. QED
    BY <1>2, <2>2, <2>3 DEF ServedOK, QueuesAreApart
<1>6. QED
  BY <1>1, <1>2, <1>3, <1>4, <1>5, ThreadsApart DEF ServedOK, DownIsEmpty

LEMMA ExitKeeps ==
  ASSUME IInv, Exit
  PROVE  ServedOK' /\ CallsAreChecks' /\ Proved!IInv'
<1>1. /\ up' = FALSE /\ inbox' = {} /\ backlog' = <<>>
      /\ pc' = Start
      /\ job' = [t \in Thread |-> None]
      /\ fate' = [r \in Request |-> IF fate[r] = "asked" THEN "lost" ELSE fate[r]]
      /\ state' = [i \in {} |-> 0]
      /\ call' = [t \in Thread |-> Idle]
      /\ past' = [i \in Ip |-> Len(log[i])]
      /\ UNCHANGED <<limited, starts, sent, link, taken, clock, log>>
  BY DEF Exit, peers
<1>2. DOMAIN state' = {}
  BY <1>1
<1>3. Proved!IInv'
  <2>1. state' \in [DOMAIN state' -> Proved!Bucket]
    BY <1>1, <1>2
  <2>2. Proved!TypeOK'
    BY <1>1, <1>2, <2>1 DEF IInv, Proved!IInv, Proved!TypeOK
  <2>3. QED
    BY <1>1, <1>2, <2>2
       DEF IInv, Proved!IInv, Proved!CallsAreStamped, Proved!StartsAreStamped,
           Proved!QuotaInWindow, Proved!CountsAreAdmissions
<1>4. TypeOK'
  <2>1. Limiter!TypeOK'
    BY <1>3, SameTypes
  <2>2. pc' \in [Thread -> Place] /\ \A t \in Thread : pc'[t] = "idle"
    BY <1>1 DEF Start, Place
  <2>3. job' \in [Thread -> Request \cup {None}] /\ \A t \in Thread : job'[t] = None
    BY <1>1
  <2>4. fate' \in [Request -> Fate]
    BY <1>1 DEF IInv, ServedOK, TypeOK, Fate
  <2>5. inbox' \subseteq Datagram /\ backlog' \in Seq(Conn)
    BY <1>1
  <2>6. up' \in BOOLEAN
    BY <1>1, Zenon
  <2>7. past' \in [Ip -> Nat]
    <3>1. \A i \in Ip : Len(log[i]) \in Nat
      BY DEF IInv, Proved!IInv, Proved!TypeOK
    <3>2. QED
      BY <1>1, <3>1
  <2>8. QED
    BY <1>1, <2>1, <2>2, <2>3, <2>4, <2>5, <2>6, <2>7 DEF IInv, ServedOK, TypeOK
<1>5. QED
  BY <1>1, <1>3, <1>4
     DEF ServedOK, JobsAreApart, QueuesAreApart, DownIsEmpty, CallsAreChecks, Start, Thread

LEMMA CallEnds ==
  ASSUME IInv, NEW t \in Thread,
         Proved!NewWindow(t) \/ Proved!Drop(t) \/ Proved!Count(t)
  PROVE  /\ call[t] # Idle /\ call' = [call EXCEPT ![t] = Idle] /\ clock' = clock
         /\ Proved!IInv' /\ Limiter!TypeOK'
<1>1. call[t] # Idle /\ call' = [call EXCEPT ![t] = Idle] /\ clock' = clock
  BY DEF Proved!NewWindow, Proved!Drop, Proved!Count, Proved!Finish
<1>2. Proved!IInv'
  BY ProvedAssumptions, Proved!NextKeeps DEF Proved!Next, IInv
<1>3. QED
  BY <1>1, <1>2, SameTypes

(* Steps that leave the limiter alone. *)
LEMMA LimiterKept ==
  ASSUME IInv, UNCHANGED limiter
  PROVE  Proved!IInv' /\ Limiter!TypeOK' /\ call' = call /\ state' = state /\ log' = log
<1>1. UNCHANGED Proved!vars
  BY DEF limiter, Proved!vars
<1>2. Proved!IInv'
  BY <1>1, ProvedAssumptions, Proved!StutterKeeps DEF IInv
<1>3. QED
  BY <1>2, SameTypes DEF limiter

-----------------------------------------------------------------------------
(* The environment keeps the invariant. *)

LEMMA AskKeeps ==
  ASSUME IInv, NEW r \in Request,
         \/ r \in Datagram /\ SendDatagram(r)
         \/ r \in Conn /\ Connect(r)
         \/ Lose(r)
  PROVE  IInv'
<1>1. /\ fate[r] = "unasked" /\ r \in Request
      /\ fate' = [fate EXCEPT ![r] = "asked"] \/ fate' = [fate EXCEPT ![r] = "lost"]
      /\ UNCHANGED <<pc, job, peers, process, limiter>>
  BY DEF SendDatagram, Connect, Lose
<1>2. UNCHANGED <<pc, job, sent, link, taken, limited, starts, up, past>>
  BY <1>1 DEF peers, process
<1>3. /\ fate' \in [Request -> Fate]
      /\ \A q \in Request : fate[q] = "asked" => fate'[q] = "asked"
  BY <1>1 DEF IInv, ServedOK, TypeOK, Fate
<1>4. \A t \in Thread : pc[t] # "idle" => job[t] \in Request /\ job[t] # r
  BY <1>1, ThreadsApart DEF IInv
<1>5. \A t \in Thread : job[t] # r
  BY <1>1, <1>4, ServerAssumption DEF IInv, ServedOK, TypeOK
<1>6. /\ Limiter!TypeOK' /\ Proved!IInv'
      /\ call' = call /\ state' = state
  BY <1>1, LimiterKept
<1>7. CASE r \in Datagram /\ SendDatagram(r)
  <2>1. inbox' = inbox \cup {r} /\ fate'[r] = "asked" /\ backlog' = backlog /\ up
    BY <1>7 DEF SendDatagram, IInv, ServedOK, TypeOK
  <2>2. TypeOK'
    BY <1>2, <1>3, <1>4, <1>6, <1>7, <2>1 DEF IInv, ServedOK, TypeOK
  <2>3. QueuesAreApart'
    BY <1>2, <1>3, <1>5, <2>1, QueuedAreRequests
       DEF IInv, ServedOK, QueuesAreApart, Thread
  <2>4. QED
    BY <1>2, <1>6, <2>1, <2>2, <2>3
       DEF IInv, ServedOK, JobsAreApart, DownIsEmpty, CallsAreChecks, OutageNeedsLostPeer
<1>8. CASE r \in Conn /\ Connect(r)
  <2>1. /\ backlog' = Append(backlog, r) /\ backlog \in Seq(Conn)
        /\ fate'[r] = "asked" /\ inbox' = inbox /\ up
    BY <1>8 DEF Connect, IInv, ServedOK, TypeOK
  <2>2. /\ backlog' \in Seq(Conn) /\ Len(backlog) \in Nat
        /\ Len(backlog') = Len(backlog) + 1
        /\ backlog'[Len(backlog) + 1] = r
        /\ \A k \in 1..Len(backlog) : backlog'[k] = backlog[k]
    BY <1>8, <2>1
  <2>3. TypeOK'
    BY <1>2, <1>3, <1>4, <1>6, <2>1, <2>2 DEF IInv, ServedOK, TypeOK
  <2>4. \A k \in 1..Len(backlog') : k \in 1..Len(backlog) \/ k = Len(backlog) + 1
    BY <2>2
  <2>5. \A k \in 1..Len(backlog) :
          fate'[backlog[k]] = "asked" /\ job[main] # backlog[k] /\ backlog[k] # r
    BY <1>1, <1>3, QueuedAreRequests DEF IInv, ServedOK, QueuesAreApart
  <2>6. QueuesAreApart'
    <3>1. \A d \in inbox : fate'[d] = "asked" /\ job[udp] # d
      BY <1>3, QueuedAreRequests DEF IInv, ServedOK, QueuesAreApart
    <3>2. \A k \in 1..Len(backlog') : fate'[backlog'[k]] = "asked" /\ job[main] # backlog'[k]
      BY <1>5, <2>1, <2>2, <2>4, <2>5 DEF Thread
    <3>3. \A j, k \in 1..Len(backlog') : backlog'[j] = backlog'[k] => j = k
      BY <2>2, <2>4, <2>5 DEF IInv, ServedOK, QueuesAreApart
    <3>4. QED
      BY <1>2, <2>1, <3>1, <3>2, <3>3 DEF QueuesAreApart
  <2>7. QED
    BY <1>2, <1>6, <2>1, <2>3, <2>6
       DEF IInv, ServedOK, JobsAreApart, DownIsEmpty, CallsAreChecks, OutageNeedsLostPeer
<1>9. CASE Lose(r)
  <2>1. UNCHANGED <<inbox, backlog>>
    BY <1>9 DEF Lose
  <2>2. TypeOK'
    BY <1>2, <1>3, <1>4, <1>6, <2>1 DEF IInv, ServedOK, TypeOK
  <2>3. QueuesAreApart'
    BY <1>2, <1>3, <2>1, QueuedAreRequests DEF IInv, ServedOK, QueuesAreApart
  <2>4. QED
    BY <1>2, <1>6, <2>1, <2>2, <2>3
       DEF IInv, ServedOK, JobsAreApart, DownIsEmpty, CallsAreChecks, OutageNeedsLostPeer
<1>10. QED
  BY <1>7, <1>8, <1>9

LEMMA PeerKeeps ==
  ASSUME IInv, NEW c \in Conn, Write(c) \/ Close(c) \/ Reset(c) \/ Vanish(c) \/ Take(c)
  PROVE  IInv'
<1>1. UNCHANGED <<backlog, inbox, pc, job, fate, limited, starts, up, past, limiter>>
  BY DEF Write, Close, Reset, Vanish, Take, served, process
<1>2. /\ Limiter!TypeOK' /\ Proved!IInv'
      /\ call' = call /\ state' = state
  BY <1>1, LimiterKept
<1>3. /\ sent' \in [Conn -> 0..2] /\ link' \in [Conn -> Link] /\ taken' \subseteq Conn
      /\ \A d \in Conn : link[d] \in {"reset", "gone"} => link'[d] \in {"reset", "gone"}
  <2>1. sent \in [Conn -> 0..2] /\ link \in [Conn -> Link] /\ taken \subseteq Conn
    BY DEF IInv, ServedOK, TypeOK
  <2>2. CASE Write(c)
    <3>1. sent[c] + 1 \in 0..2
      BY <2>1, <2>2 DEF Write
    <3>2. QED
      BY <2>1, <2>2, <3>1 DEF Write
  <2>3. CASE Close(c) \/ Reset(c) \/ Vanish(c)
    <3>1. PICK x \in {"closed", "reset", "gone"} :
            /\ UNCHANGED <<sent, taken>> /\ link' = [link EXCEPT ![c] = x]
            /\ link[c] \in {"reset", "gone"} => x = "reset"
      BY <2>3 DEF Close, Reset, Vanish
    <3>2. QED
      BY <2>1, <3>1 DEF Link
  <2>4. CASE Take(c)
    BY <2>1, <2>4 DEF Take
  <2>5. QED
    BY <2>2, <2>3, <2>4
<1>4. TypeOK'
  BY <1>1, <1>2, <1>3 DEF IInv, ServedOK, TypeOK
<1>5. OutageNeedsLostPeer'
  BY <1>1, <1>3 DEF IInv, OutageNeedsLostPeer
<1>6. QED
  BY <1>1, <1>2, <1>4, <1>5
     DEF IInv, ServedOK, JobsAreApart, QueuesAreApart, DownIsEmpty, CallsAreChecks

LEMMA RestartKeeps ==
  ASSUME IInv, Restart
  PROVE  IInv'
<1>1. /\ ~up /\ up' = TRUE /\ starts' = starts + 1
      /\ UNCHANGED <<limited, past, backlog, inbox, pc, job, fate, sent, link, taken, limiter>>
  BY DEF Restart, served, peers
<1>2. /\ Limiter!TypeOK' /\ Proved!IInv'
      /\ call' = call /\ state' = state
  BY <1>1, LimiterKept
<1>3. TypeOK'
  BY <1>1, <1>2 DEF IInv, ServedOK, TypeOK
<1>4. QED
  BY <1>1, <1>2, <1>3
     DEF IInv, ServedOK, JobsAreApart, QueuesAreApart, DownIsEmpty, CallsAreChecks,
         OutageNeedsLostPeer

LEMMA TickKeeps ==
  ASSUME IInv, Tick
  PROVE  IInv'
<1>1. /\ UNCHANGED <<backlog, inbox, pc, job, fate, sent, link, taken, limited, starts, up, past>>
      /\ UNCHANGED <<state, call>>
  BY DEF Tick, served, peers, process, Limiter!Tick
<1>2. Proved!IInv' /\ Limiter!TypeOK'
  BY SameState, SameTypes, ProvedAssumptions, Proved!TickKeeps DEF Tick, IInv
<1>3. TypeOK'
  BY <1>1, <1>2 DEF IInv, ServedOK, TypeOK
<1>4. QED
  BY <1>1, <1>2, <1>3
     DEF IInv, ServedOK, JobsAreApart, QueuesAreApart, DownIsEmpty, CallsAreChecks,
         OutageNeedsLostPeer

-----------------------------------------------------------------------------
(* The threads keep the invariant. *)

(* A thread that is not, or no longer, inside check goes on, or is done.  *)
LEMMA GoesOn ==
  ASSUME IInv, NEW t \in Thread, NEW place \in Place \ {"idle"},
         pc[t] # "idle", Goto(t, place),
         t = udp => place = "handle", t = main => place # "handle",
         UNCHANGED <<backlog, inbox, job, fate, peers, process>>,
         Proved!IInv', Limiter!TypeOK',
         (call' = call /\ call[t] = Idle) \/ call' = [call EXCEPT ![t] = Idle]
  PROVE  IInv'
<1>1. ServedOK'
  BY GotoKeeps DEF IInv
<1>2. call \in [Thread -> Proved!CallOf \cup {Idle}] /\ pc \in [Thread -> Place]
  BY DEF IInv, Proved!IInv, Proved!TypeOK, ServedOK, TypeOK
<1>3. CallsAreChecks'
  BY <1>2 DEF IInv, CallsAreChecks, Goto, process
<1>4. QED
  BY <1>1, <1>3 DEF IInv, OutageNeedsLostPeer, peers, process

LEMMA IsDone ==
  ASSUME IInv, NEW t \in Thread, NEW outcome \in Fate,
         pc[t] # "idle", End(t, outcome),
         UNCHANGED <<backlog, inbox, peers, process>>,
         Proved!IInv', Limiter!TypeOK',
         (call' = call /\ call[t] = Idle) \/ call' = [call EXCEPT ![t] = Idle]
  PROVE  IInv'
<1>1. ServedOK'
  BY EndKeeps DEF IInv
<1>2. /\ call \in [Thread -> Proved!CallOf \cup {Idle}] /\ pc \in [Thread -> Place]
      /\ job \in [Thread -> Request \cup {None}]
  BY DEF IInv, Proved!IInv, Proved!TypeOK, ServedOK, TypeOK
<1>3. CallsAreChecks'
  BY <1>2 DEF IInv, CallsAreChecks, End, Goto, process
<1>4. QED
  BY <1>1, <1>3 DEF IInv, OutageNeedsLostPeer, peers, process

LEMMA Ends ==
  ASSUME IInv, Exit, link[job[main]] \in {"reset", "gone"}, pc[main] # "idle"
  PROVE  IInv'
<1>1. job[main] \in Conn
  BY DEF IInv, ServedOK, TypeOK, JobsAreApart, Thread
<1>2. OutageNeedsLostPeer'
  BY <1>1 DEF Exit, OutageNeedsLostPeer, peers
<1>3. QED
  BY <1>2, ExitKeeps DEF IInv

LEMMA OutsideCheck ==
  ASSUME IInv, NEW t \in Thread, pc[t] # "check"
  PROVE  call[t] = Idle
  BY DEF IInv, CallsAreChecks

LEMMA CheckKeeps ==
  ASSUME IInv, NEW t \in Thread, Check(t)
  PROVE  IInv'
<1>1. CASE CheckStarts(t)
  <2>1. /\ limited /\ up /\ pc[t] = "check"
        /\ Proved!Call(t, Source[job[t]])
        /\ UNCHANGED <<backlog, inbox, pc, job, fate, sent, link, taken, limited, starts, up, past>>
    BY <1>1, SameSteps DEF CheckStarts, served, peers, process
  <2>2. Source[job[t]] \in Ip
    BY <2>1, ThreadsApart, ServerAssumption DEF IInv
  <2>3. /\ call' = [call EXCEPT ![t] = [ip |-> Source[job[t]], now |-> clock]]
        /\ UNCHANGED <<clock, state, log>>
    BY <2>1 DEF Proved!Call
  <2>4. Proved!IInv' /\ Limiter!TypeOK'
    BY <2>1, <2>2, SameTypes, ProvedAssumptions, Proved!CallKeeps DEF IInv
  <2>5. TypeOK'
    BY <2>1, <2>4 DEF IInv, ServedOK, TypeOK
  <2>6. CallsAreChecks'
    BY <2>1, <2>3 DEF IInv, CallsAreChecks, Proved!IInv, Proved!TypeOK
  <2>7. QED
    BY <2>1, <2>3, <2>4, <2>5, <2>6
       DEF IInv, ServedOK, JobsAreApart, QueuesAreApart, DownIsEmpty, OutageNeedsLostPeer
<1>2. CASE CheckPasses(t)
  <2>1. /\ call' = [call EXCEPT ![t] = Idle] /\ Proved!IInv' /\ Limiter!TypeOK'
    BY <1>2, SameSteps, CallEnds DEF CheckPasses
  <2>2. PICK place \in Place \ {"idle"} :
          /\ place = Passed(t)
          /\ t = udp => place = "handle"
          /\ t = main => place # "handle"
    <3>1. Passed(t) \in Place \ {"idle"}
      BY DEF Passed, Place
    <3>2. QED
      BY <3>1, ServerAssumption DEF Passed
  <2>3. /\ pc[t] # "idle" /\ Goto(t, place)
        /\ UNCHANGED <<backlog, inbox, job, fate, peers, process>>
    BY <1>2, <2>2 DEF CheckPasses
  <2>4. QED
    BY <2>1, <2>2, <2>3, GoesOn
<1>3. CASE CheckDrops(t)
  <2>1. /\ call' = [call EXCEPT ![t] = Idle] /\ Proved!IInv' /\ Limiter!TypeOK'
    BY <1>3, SameSteps, CallEnds DEF CheckDrops
  <2>2. QED
    BY <1>3, <2>1, IsDone DEF CheckDrops, Fate
<1>4. CASE CheckBypassed(t)
  <2>1. /\ call' = call /\ Proved!IInv' /\ Limiter!TypeOK'
    BY <1>4, LimiterKept DEF CheckBypassed
  <2>2. call[t] = Idle
    BY <1>4, SameState DEF CheckBypassed, IInv, CallsAreChecks, Proved!IInv, Proved!CallsAreStamped
  <2>3. PICK place \in Place \ {"idle"} :
          /\ place = Passed(t)
          /\ t = udp => place = "handle"
          /\ t = main => place # "handle"
    <3>1. Passed(t) \in Place \ {"idle"}
      BY DEF Passed, Place
    <3>2. QED
      BY <3>1, ServerAssumption DEF Passed
  <2>4. /\ pc[t] # "idle" /\ Goto(t, place)
        /\ UNCHANGED <<backlog, inbox, job, fate, peers, process>>
    BY <1>4, <2>3 DEF CheckBypassed
  <2>5. QED
    BY <2>1, <2>2, <2>3, <2>4, GoesOn
<1>5. QED
  BY <1>1, <1>2, <1>3, <1>4 DEF Check

LEMMA UdpKeeps ==
  ASSUME IInv, UdpThread
  PROVE  IInv'
<1>1. udp \in Thread
  BY DEF Thread
<1>2. CASE Check(udp)
  BY <1>1, <1>2, CheckKeeps
<1>3. CASE HandleDatagram
  <2>1. /\ call' = call /\ Proved!IInv' /\ Limiter!TypeOK' /\ call[udp] = Idle
    BY <1>1, <1>3, LimiterKept, OutsideCheck DEF HandleDatagram
  <2>2. PICK outcome \in Fate : End(udp, outcome)
    BY <1>3 DEF HandleDatagram, Fate
  <2>3. QED
    BY <1>1, <1>3, <2>1, <2>2, IsDone DEF HandleDatagram
<1>4. ASSUME NEW d \in Datagram, Receive(d)
      PROVE  IInv'
  <2>1. /\ up /\ pc[udp] = "idle" /\ d \in inbox
        /\ inbox' = inbox \ {d}
        /\ pc' = [pc EXCEPT ![udp] = "check"] /\ job' = [job EXCEPT ![udp] = d]
        /\ UNCHANGED <<fate, backlog, sent, link, taken, limited, starts, up, past>>
    BY <1>4 DEF Receive, Begin, Goto, peers, process
  <2>2. /\ call' = call /\ Proved!IInv' /\ Limiter!TypeOK' /\ call[udp] = Idle
    BY <1>1, <1>4, LimiterKept, OutsideCheck DEF Receive
  <2>3. d \in Request /\ d # None /\ fate[d] = "asked"
    BY <2>1, QueuedAreRequests DEF IInv, ServedOK, QueuesAreApart
  <2>4. TypeOK'
    BY <1>1, <2>1, <2>2, <2>3 DEF IInv, ServedOK, TypeOK, Place
  <2>5. JobsAreApart' /\ QueuesAreApart' /\ DownIsEmpty'
    BY <1>1, <2>1, <2>3, ServerAssumption
       DEF IInv, ServedOK, TypeOK, JobsAreApart, QueuesAreApart, DownIsEmpty, Thread
  <2>6. CallsAreChecks'
    BY <2>1, <2>2 DEF IInv, ServedOK, TypeOK, CallsAreChecks
  <2>7. QED
    BY <2>1, <2>2, <2>4, <2>5, <2>6 DEF IInv, ServedOK, OutageNeedsLostPeer
<1>5. QED
  BY <1>2, <1>3, <1>4 DEF UdpThread

LEMMA AcceptKeeps ==
  ASSUME IInv, Accept
  PROVE  IInv'
<1> DEFINE c == Head(backlog)
<1>1. main \in Thread
  BY DEF Thread
<1>2. /\ up /\ pc[main] = "idle" /\ backlog # <<>>
      /\ backlog' = Tail(backlog)
      /\ pc' = [pc EXCEPT ![main] = "peer"] /\ job' = [job EXCEPT ![main] = c]
      /\ UNCHANGED <<fate, inbox, sent, link, taken, limited, starts, up, past>>
  BY DEF Accept, Begin, Goto, peers, process
<1>3. /\ call' = call /\ Proved!IInv' /\ Limiter!TypeOK' /\ call[main] = Idle
  BY <1>1, LimiterKept, OutsideCheck DEF Accept
<1>4. /\ c = backlog[1] /\ 1 \in 1..Len(backlog)
      /\ backlog' \in Seq(Conn) /\ Len(backlog) \in Nat
      /\ Len(backlog') = Len(backlog) - 1
      /\ \A k \in 1..Len(backlog') : backlog'[k] = backlog[k + 1]
  BY <1>2 DEF IInv, ServedOK, TypeOK
<1>5. c \in Request /\ c \in Conn /\ c # None /\ fate[c] = "asked"
  BY <1>4, QueuedAreRequests DEF IInv, ServedOK, QueuesAreApart
<1> HIDE DEF c
<1>6. TypeOK'
  BY <1>1, <1>2, <1>3, <1>4, <1>5 DEF IInv, ServedOK, TypeOK, Place
<1>7. QueuesAreApart'
  <2>1. \A k \in 1..Len(backlog') : k + 1 \in 1..Len(backlog) /\ k + 1 # 1
    BY <1>4
  <2>2. \A k \in 1..Len(backlog') : fate[backlog'[k]] = "asked" /\ backlog'[k] # c
    BY <1>4, <2>1 DEF IInv, ServedOK, QueuesAreApart
  <2>3. \A j, k \in 1..Len(backlog') : backlog'[j] = backlog'[k] => j = k
    BY <1>4, <2>1 DEF IInv, ServedOK, QueuesAreApart
  <2>4. job' \in [Thread -> Request \cup {None}] /\ job'[main] = c /\ job'[udp] = job[udp]
    BY <1>1, <1>2, <1>6, ServerAssumption DEF IInv, ServedOK, TypeOK, Thread
  <2>5. QED
    BY <1>2, <2>2, <2>3, <2>4 DEF IInv, ServedOK, QueuesAreApart
<1>8. JobsAreApart' /\ DownIsEmpty'
  BY <1>1, <1>2, <1>5, ServerAssumption
     DEF IInv, ServedOK, TypeOK, JobsAreApart, DownIsEmpty, Thread
<1>9. CallsAreChecks'
  BY <1>2, <1>3 DEF IInv, ServedOK, TypeOK, CallsAreChecks
<1>10. QED
  BY <1>2, <1>3, <1>6, <1>7, <1>8, <1>9 DEF IInv, ServedOK, OutageNeedsLostPeer

LEMMA MainKeeps ==
  ASSUME IInv, MainThread
  PROVE  IInv'
<1>1. main \in Thread /\ main # udp
  BY ServerAssumption DEF Thread
<1>2. CASE Check(main)
  BY <1>1, <1>2, CheckKeeps
<1>3. CASE Accept
  BY <1>3, AcceptKeeps
<1>4. ASSUME NEW place \in Place \ {"idle", "handle"}, pc[main] \notin {"idle", "check"},
             Goto(main, place),
             UNCHANGED <<backlog, inbox, job, fate, peers, process, limiter>>
      PROVE  IInv'
  BY <1>1, <1>4, GoesOn, LimiterKept, OutsideCheck
<1>5. ASSUME NEW outcome \in Fate, pc[main] \notin {"idle", "check"},
             End(main, outcome), UNCHANGED <<backlog, inbox, peers, process, limiter>>
      PROVE  IInv'
  BY <1>1, <1>5, IsDone, LimiterKept, OutsideCheck
<1>6. CASE PeerAddr
  BY <1>4, <1>6, Ends DEF PeerAddr, Place
<1>7. CASE ReadLength \/ ReadBody
  BY <1>4, <1>7 DEF ReadLength, ReadBody, Read, Place
<1>8. CASE ReadFails
  BY <1>5, <1>8 DEF ReadFails, Fate
<1>9. CASE WriteLength
  BY <1>4, <1>9, Ends DEF WriteLength, Place
<1>10. CASE WriteReply
  BY <1>4, <1>5, <1>10, Ends DEF WriteReply, Fate, Place
<1>11. CASE WriteRest
  BY <1>5, <1>11, Ends DEF WriteRest, Fate
<1>12. QED
  BY <1>2, <1>3, <1>6, <1>7, <1>8, <1>9, <1>10, <1>11 DEF MainThread

LEMMA StutterKeeps ==
  ASSUME IInv, UNCHANGED vars
  PROVE  IInv'
<1>1. /\ Limiter!TypeOK' /\ Proved!IInv' /\ call' = call /\ state' = state
  BY LimiterKept DEF vars
<1>2. TypeOK'
  BY <1>1 DEF vars, served, peers, process, IInv, ServedOK, TypeOK
<1>3. QED
  BY <1>1, <1>2
     DEF vars, served, peers, process, IInv, ServedOK, JobsAreApart, QueuesAreApart,
         DownIsEmpty, CallsAreChecks, OutageNeedsLostPeer

LEMMA NextKeeps == IInv /\ [Next]_vars => IInv'
<1> SUFFICES ASSUME IInv, [Next]_vars PROVE IInv'
  OBVIOUS
<1>1. ASSUME NEW d \in Datagram, SendDatagram(d) PROVE IInv'
  <2>1. d \in Request
    BY DEF Request
  <2>2. d \in Datagram /\ SendDatagram(d)
    BY <1>1
  <2>3. QED
    BY <2>1, <2>2, AskKeeps
<1>2. ASSUME NEW c \in Conn, Connect(c) PROVE IInv'
  BY <1>2, AskKeeps DEF Request
<1>3. ASSUME NEW r \in Request, Lose(r) PROVE IInv'
  BY <1>3, AskKeeps
<1>4. CASE Environment
  BY <1>1, <1>2, <1>3, <1>4, PeerKeeps, RestartKeeps, TickKeeps DEF Environment
<1>5. QED
  BY <1>4, UdpKeeps, MainKeeps, StutterKeeps DEF Next

LEMMA InitIInv == Init => IInv
<1> SUFFICES ASSUME Init PROVE IInv
  OBVIOUS
<1>1. Proved!IInv
  BY ProvedAssumptions, SameState, Proved!InitIInv DEF Init
<1>2. TypeOK
  <2>1. Limiter!TypeOK
    BY <1>1, SameState DEF Proved!IInv
  <2>2. up \in BOOLEAN
    BY Zenon DEF Init
  <2>3. limited \in Limited /\ starts \in Nat /\ inbox \subseteq Datagram /\ backlog \in Seq(Conn)
    BY DEF Init
  <2>4. sent \in [Conn -> 0..2] /\ link \in [Conn -> Link] /\ taken \subseteq Conn
        /\ past \in [Ip -> Nat]
    BY DEF Init, Link
  <2>5. /\ pc \in [Thread -> Place] /\ job \in [Thread -> Request \cup {None}]
        /\ fate \in [Request -> Fate]
        /\ \A t \in Thread : pc[t] = "idle" /\ job[t] = None
    BY DEF Init, Start, Place, Fate
  <2>6. QED
    BY <2>1, <2>2, <2>3, <2>4, <2>5 DEF TypeOK
<1>3. QED
  BY <1>1, <1>2
     DEF Init, Limiter!Init, IInv, ServedOK, JobsAreApart, QueuesAreApart, DownIsEmpty,
         CallsAreChecks, OutageNeedsLostPeer, Start, Thread

(* In every reachable state the inductive invariant holds. *)
THEOREM Inductive == Spec => []IInv
  BY InitIInv, NextKeeps, PTL DEF Spec

(* TypeOK is an invariant: a thread has a request exactly while it is not  *)
(* idle, and no request gets an outcome while it is queued or worked on.   *)
THEOREM TypeCorrect == Spec => []TypeOK
<1>1. IInv => TypeOK
  BY DEF IInv, ServedOK
<1>2. QED
  BY <1>1, Inductive, PTL

(* Whatever clients send, only one that resets a connection, or vanishes    *)
(* during a write, ends the process.                                       *)
THEOREM OnlyLostPeersEnd == Spec => []OutageNeedsLostPeer
<1>1. IInv => OutageNeedsLostPeer
  BY DEF IInv
<1>2. QED
  BY <1>1, Inductive, PTL

-----------------------------------------------------------------------------
(* Drops. *)

LEMMA DroppedByCheck ==
  ASSUME IInv, [Next]_vars, NEW r \in Request, fate'[r] = "dropped", fate[r] # "dropped"
  PROVE  \E t \in Thread : CheckDrops(t) /\ r = job[t]
<1>1. fate \in [Request -> Fate]
  BY DEF IInv, ServedOK, TypeOK
<1>2. CASE Environment
  BY <1>1, <1>2
     DEF Environment, Tick, Restart, SendDatagram, Connect, Write, Close, Reset, Vanish, Take,
         Lose, served
<1>3. ASSUME NEW t \in Thread, Check(t)
      PROVE  \E u \in Thread : CheckDrops(u) /\ r = job[u]
  <2>1. CASE CheckDrops(t)
    BY <1>1, <2>1 DEF CheckDrops, End
  <2>2. CASE ~CheckDrops(t)
    BY <1>3, <2>2 DEF Check, CheckStarts, CheckPasses, CheckBypassed, served
  <2>3. QED
    BY <2>1, <2>2
<1>4. CASE HandleDatagram \/ \E d \in Datagram : Receive(d)
  BY <1>1, <1>4 DEF HandleDatagram, Receive, Begin, End
<1>5. CASE \/ Accept \/ PeerAddr \/ ReadLength \/ ReadBody \/ ReadFails
           \/ WriteLength \/ WriteReply \/ WriteRest
  BY <1>1, <1>5
     DEF Accept, PeerAddr, ReadLength, ReadBody, Read, ReadFails, WriteLength, WriteReply,
         WriteRest,
         Begin, End, Exit
<1>6. CASE UNCHANGED vars
  BY <1>6 DEF vars, served
<1>7. QED
  BY <1>2, <1>3, <1>4, <1>5, <1>6 DEF Next, UdpThread, MainThread, Thread

LEMMA HistoryGrows ==
  ASSUME IInv, [Next]_vars
  PROVE  /\ limited' = limited
         /\ \A i \in Ip : Len(log[i]) \in Nat /\ Len(log'[i]) \in Nat
                        /\ Len(log'[i]) >= Len(log[i])
<1>1. \A i \in Ip : log[i] \in Seq(Proved!Time) /\ Len(log[i]) \in Nat
  BY DEF IInv, Proved!IInv, Proved!TypeOK
<1>2. clock \in Proved!Time
  BY DEF IInv, Proved!IInv, Proved!TypeOK
<1>3. CASE \E t \in Thread : CheckPasses(t)
  <2>1. PICK t \in Thread : CheckPasses(t)
    BY <1>3
  <2>2. call[t] # Idle /\ Proved!Admitted(call[t].ip)
    BY <2>1, SameSteps DEF CheckPasses, Proved!NewWindow, Proved!Count
  <2>3. \A i \in Ip : log'[i] = log[i] \/ log'[i] = Append(log[i], clock)
    BY <2>2 DEF Proved!Admitted, IInv, Proved!IInv, Proved!TypeOK
  <2>4. QED
    BY <1>1, <1>2, <2>1, <2>3 DEF CheckPasses, process
<1>4. CASE ~\E t \in Thread : CheckPasses(t)
  <2>1. ASSUME Environment
        PROVE  log' = log /\ limited' = limited
    BY <2>1
       DEF Environment, Tick, Limiter!Tick, Restart, SendDatagram, Connect, Write, Close,
           Reset, Vanish, Take, Lose, process, limiter
  <2>2. ASSUME NEW t \in Thread, Check(t)
        PROVE  log' = log /\ limited' = limited
    BY <1>4, <2>2
       DEF Check, CheckStarts, CheckDrops, CheckBypassed, Limiter!Call, Limiter!Drop,
           process, limiter
  <2>3. ASSUME HandleDatagram \/ \E d \in Datagram : Receive(d)
        PROVE  log' = log /\ limited' = limited
    BY <2>3 DEF HandleDatagram, Receive, process, limiter
  <2>4. ASSUME \/ Accept \/ PeerAddr \/ ReadLength \/ ReadBody \/ ReadFails
               \/ WriteLength \/ WriteReply \/ WriteRest
        PROVE  log' = log /\ limited' = limited
    BY <2>4
       DEF Accept, PeerAddr, ReadLength, ReadBody, Read, ReadFails, WriteLength, WriteReply,
           WriteRest,
           Exit, process, limiter
  <2>5. ASSUME UNCHANGED vars
        PROVE  log' = log /\ limited' = limited
    BY <2>5 DEF vars, process, limiter
  <2>6. log' = log /\ limited' = limited
    BY <2>1, <2>2, <2>3, <2>4, <2>5 DEF Next, UdpThread, MainThread, Thread
  <2>7. QED
    BY <1>1, <2>6
<1>5. QED
  BY <1>3, <1>4

(* The map counts only what this process admitted. *)
OwnCounts ==
  \A i \in Ip :
    /\ past[i] <= Len(log[i])
    /\ i \in DOMAIN state => past[i] + state[i].count <= Len(log[i])

LEMMA MapKept ==
  ASSUME IInv, [Next]_vars, ~Exit, \A t \in Thread : ~CheckPasses(t) /\ ~CheckDrops(t)
  PROVE  UNCHANGED <<past, state, log>>
<1>1. CASE Environment
  BY <1>1
     DEF Environment, Tick, Limiter!Tick, Restart, SendDatagram, Connect, Write, Close, Reset,
         Vanish, Take, Lose, process, limiter
<1>2. ASSUME NEW t \in Thread, Check(t)
      PROVE  UNCHANGED <<past, state, log>>
  BY <1>2 DEF Check, CheckStarts, CheckBypassed, Limiter!Call, process, limiter
<1>3. CASE HandleDatagram \/ \E d \in Datagram : Receive(d)
  BY <1>3 DEF HandleDatagram, Receive, process, limiter
<1>4. CASE \/ Accept \/ PeerAddr \/ ReadLength \/ ReadBody \/ ReadFails
           \/ WriteLength \/ WriteReply \/ WriteRest
  BY <1>4
     DEF Accept, PeerAddr, ReadLength, ReadBody, Read, ReadFails, WriteLength, WriteReply,
         WriteRest, process, limiter
<1>5. CASE UNCHANGED vars
  BY <1>5 DEF vars, process, limiter
<1>6. QED
  BY <1>1, <1>2, <1>3, <1>4, <1>5 DEF Next, UdpThread, MainThread, Thread

(* A call that ends leaves other clients' counts and history as they were,  *)
(* and adds one to both of its own client's, or neither.                   *)
LEMMA CallCounts ==
  ASSUME IInv, OwnCounts, NEW t \in Thread, CheckPasses(t) \/ CheckDrops(t), NEW i \in Ip
  PROVE  /\ past[i] <= Len(log'[i])
         /\ i \in DOMAIN state' => past[i] + state'[i].count <= Len(log'[i])
<1>1. Proved!NewWindow(t) \/ Proved!Drop(t) \/ Proved!Count(t)
  BY SameSteps DEF CheckPasses, CheckDrops
<1> DEFINE c == call[t].ip
           old == Proved!Entry(call[t].ip, call[t].now)
<1>2. call[t] # Idle
  BY <1>1 DEF Proved!NewWindow, Proved!Drop, Proved!Count
<1>3. /\ old \in Proved!Bucket
      /\ old.count > 0 => c \in DOMAIN state /\ old = state[c]
  BY <1>2, ProvedAssumptions, Proved!EntryIsAccounted DEF IInv
<1>4. c \in Ip /\ call[t].now \in Proved!Time /\ clock \in Proved!Time
  BY <1>2, ProvedAssumptions, Proved!CallIsTyped DEF IInv, Proved!IInv, Proved!TypeOK
<1>5. /\ \A j \in Ip : Len(log[j]) \in Nat /\ past[j] \in Nat
      /\ \A j \in DOMAIN state : state[j].count \in Nat
  BY DEF IInv, ServedOK, TypeOK, Proved!IInv, Proved!TypeOK, Proved!Bucket
<1>6. old.count \in Nat /\ past[c] + old.count <= Len(log[c])
  <2>1. old.count \in Nat
    BY <1>3 DEF Proved!Bucket
  <2>2. QED
    BY <1>3, <1>4, <1>5, <2>1 DEF OwnCounts
<1>7. PICK bucket \in Proved!Bucket, more \in {0, 1} :
        /\ Proved!Finish(t, bucket)
        /\ bucket.count <= old.count + more
        /\ more = 0 => log' = log
        /\ more = 1 => Proved!Admitted(c)
  <2>1. CASE Proved!NewWindow(t)
    <3>1. PICK bucket : bucket = [window_start |-> call[t].now, count |-> 1]
      OBVIOUS
    <3>2. Proved!Finish(t, bucket) /\ Proved!Admitted(c)
      BY <2>1, <3>1 DEF Proved!NewWindow
    <3>3. bucket \in Proved!Bucket /\ bucket.count = 1
      BY <1>4, <3>1 DEF Proved!Bucket
    <3>4. bucket.count <= old.count + 1
      BY <1>6, <3>3
    <3>5. QED
      BY <3>2, <3>3, <3>4
  <2>2. CASE Proved!Drop(t)
    <3>1. Proved!Finish(t, old) /\ log' = log
      BY <2>2 DEF Proved!Drop
    <3>2. QED
      BY <1>3, <1>6, <3>1
  <2>3. CASE Proved!Count(t)
    <3>1. PICK bucket : bucket = [old EXCEPT !.count = @ + 1]
      OBVIOUS
    <3>2. Proved!Finish(t, bucket) /\ Proved!Admitted(c)
      BY <2>3, <3>1 DEF Proved!Count
    <3>3. bucket \in Proved!Bucket /\ bucket.count = old.count + 1
      <4> HIDE DEF old
      <4>1. QED
        BY <1>3, <1>6, <3>1 DEF Proved!Bucket
    <3>4. bucket.count <= old.count + 1
      BY <1>6, <3>3
    <3>5. QED
      BY <3>2, <3>3, <3>4
  <2>4. QED
    BY <1>1, <2>1, <2>2, <2>3
<1>8. /\ state'[c] = bucket /\ bucket.count \in Nat
      /\ \A j \in DOMAIN state' : j # c => j \in DOMAIN state /\ state'[j] = state[j]
  BY <1>2, <1>7, ProvedAssumptions, Proved!FinishedMap DEF IInv, Proved!IInv, Proved!Bucket
<1>9. /\ i # c => log'[i] = log[i]
      /\ Len(log'[c]) = Len(log[c]) + more
  <2>1. CASE more = 0
    BY <1>4, <1>5, <1>7, <2>1
  <2>2. CASE more = 1
    <3>1. log[c] \in Seq(Proved!Time) /\ log \in [Ip -> Seq(Proved!Time)]
      BY <1>4 DEF IInv, Proved!IInv, Proved!TypeOK
    <3>2. log'[c] = Append(log[c], clock) /\ (i # c => log'[i] = log[i])
      BY <1>4, <1>7, <2>2, <3>1 DEF Proved!Admitted
    <3>3. QED
      BY <1>4, <2>2, <3>1, <3>2
  <2>3. QED
    BY <2>1, <2>2
<1> HIDE DEF c, old
<1>10. CASE i = c
  <2>1. past[c] <= Len(log[c]) + more
    BY <1>4, <1>5, <1>7 DEF OwnCounts
  <2>2. past[c] + bucket.count <= Len(log[c]) + more
    BY <1>4, <1>5, <1>6, <1>7, <1>8
  <2>3. QED
    BY <1>8, <1>9, <1>10, <2>1, <2>2
<1>11. CASE i # c
  BY <1>8, <1>9, <1>11 DEF OwnCounts
<1>12. QED
  BY <1>10, <1>11

LEMMA OwnCountsKept == IInv /\ OwnCounts /\ [Next]_vars => OwnCounts'
<1> SUFFICES ASSUME IInv, OwnCounts, [Next]_vars PROVE OwnCounts'
  OBVIOUS
<1>1. CASE Exit
  <2>1. DOMAIN state' = {} /\ \A i \in Ip : past'[i] = Len(log[i]) /\ log'[i] = log[i]
    BY <1>1 DEF Exit
  <2>2. \A i \in Ip : Len(log[i]) \in Nat
    BY DEF IInv, Proved!IInv, Proved!TypeOK
  <2>3. QED
    BY <2>1, <2>2 DEF OwnCounts
<1>2. ASSUME NEW t \in Thread, CheckPasses(t) \/ CheckDrops(t)
      PROVE  OwnCounts'
  <2>1. past' = past
    BY <1>2 DEF CheckPasses, CheckDrops, process
  <2>2. QED
    BY <1>2, <2>1, CallCounts DEF OwnCounts
<1>3. CASE UNCHANGED <<past, state, log>>
  BY <1>3 DEF OwnCounts
<1>4. QED
  BY <1>1, <1>2, <1>3, MapKept

LEMMA DropIsDeserved ==
  ASSUME IInv, OwnCounts, [Next]_vars, NEW t \in Thread, pc[t] = "check",
         fate'[job[t]] = "dropped"
  PROVE  LET history == log[Source[job[t]]] IN
         /\ limited
         /\ Len(history) >= past[Source[job[t]]] + MaxRequests
         /\ history[Len(history) - MaxRequests + 1] + Window > call[t].now
<1>1. CheckDrops(t)
  <2>1. /\ job[t] \in Request /\ fate[job[t]] = "asked"
        /\ \A u \in Thread : job[u] = job[t] => u = t
    BY ThreadsApart DEF IInv
  <2>2. PICK u \in Thread : CheckDrops(u) /\ job[t] = job[u]
    BY <2>1, DroppedByCheck
  <2>3. QED
    BY <2>1, <2>2
<1>2. Proved!Drop(t)
  BY <1>1, SameSteps DEF CheckDrops
<1>3. /\ call[t] # Idle /\ log' = log /\ call' = [call EXCEPT ![t] = Idle]
      /\ Proved!Entry(call[t].ip, call[t].now).count >= MaxRequests
  BY <1>2 DEF Proved!Drop, Proved!Finish
<1>4. PICK i \in Ip : i = call[t].ip /\ i = Source[job[t]]
  BY <1>3, ProvedAssumptions, Proved!CallIsTyped DEF IInv, CallsAreChecks, Proved!IInv
<1>5. limited /\ MaxRequests \in Nat /\ MaxRequests > 0
  BY <1>3, LimiterAssumption
     DEF IInv, CallsAreChecks, Proved!IInv, Proved!CallsAreStamped, Proved!IsEnabled
<1>6. i \in DOMAIN state /\ state[i].count >= MaxRequests /\ state[i].count \in Nat
  <2>1. PICK old : old = Proved!Entry(i, call[t].now)
    OBVIOUS
  <2>2. /\ old \in Proved!Bucket
        /\ old.count > 0 => i \in DOMAIN state /\ old = state[i]
    BY <1>3, <1>4, <2>1, ProvedAssumptions, Proved!EntryIsAccounted DEF IInv
  <2>3. old.count \in Nat /\ old.count >= MaxRequests
    BY <1>3, <1>4, <2>1, <2>2 DEF Proved!Bucket
  <2>4. old.count > 0
    BY <1>5, <2>3
  <2>5. QED
    BY <2>2, <2>3, <2>4
<1>7. Len(log[i]) >= past[i] + MaxRequests
  <2>1. past[i] + state[i].count <= Len(log[i]) /\ Len(log[i]) \in Nat /\ past[i] \in Nat
    BY <1>6 DEF OwnCounts, IInv, ServedOK, TypeOK, Proved!IInv, Proved!TypeOK
  <2>2. QED
    BY <1>5, <1>6, <2>1
<1>8. log[i][Len(log[i]) - MaxRequests + 1] + Window > call[t].now
  <2>1. Proved!Next /\ call'[t] = Idle
    BY <1>2, <1>3 DEF Proved!Next, IInv, Proved!IInv, Proved!TypeOK
  <2>2. Proved!DropIsDue(t)
    BY <1>3, <1>4, <2>1, ProvedAssumptions, Proved!DropsAreJustifiedStep DEF IInv
  <2>3. QED
    BY <1>4, <2>2 DEF Proved!DropIsDue
<1>9. QED
  BY <1>4, <1>5, <1>7, <1>8

(* Nobody is dropped for what others did, or for what was counted before a  *)
(* restart: a full quota of the very same address was admitted by this     *)
(* process, recently enough to be in the window of the dropped request.    *)
THEOREM DropsAreEarned == Spec => DropsAreDeserved
<1>1. Init => OwnCounts
  BY DEF Init, Limiter!Init, OwnCounts
<1>2. IInv /\ OwnCounts /\ [Next]_vars =>
        [\A t \in Thread :
           pc[t] = "check" /\ fate'[job[t]] = "dropped" =>
             LET history == log[Source[job[t]]] IN
             /\ limited
             /\ Len(history) >= past[Source[job[t]]] + MaxRequests
             /\ history[Len(history) - MaxRequests + 1] + Window > call[t].now]_vars
  BY DropIsDeserved
<1>3. QED
  BY <1>1, <1>2, Inductive, OwnCountsKept, PTL DEF Spec, DropsAreDeserved

-----------------------------------------------------------------------------
(* Every step is one of Service, or none. *)

(* The status of a request, as the refinement mapping has it. *)
Status(r) ==
  IF fate[r] # "asked" THEN fate[r]
  ELSE IF Granted(r) THEN "granted" ELSE "queued"

LEMMA StatusIsMapped ==
  /\ Promise!vars = <<up, [r \in Request |-> Status(r)]>>
  /\ Promise!vars' = <<up', [r \in Request |-> Status(r)']>>
  BY DEF Promise!vars, Status

LEMMA NothingMoves ==
  ASSUME up' = up, \A r \in Request : Status(r)' = Status(r)
  PROVE  UNCHANGED Promise!vars
  BY StatusIsMapped

LEMMA OneMoves ==
  ASSUME NEW r \in Request, NEW from, NEW to, up' = up,
         Status(r) = from, Status(r)' = to,
         \A q \in Request : q # r => Status(q)' = Status(q)
  PROVE  Promise!Move(r, from, to)
  BY DEF Promise!Move, Status

LEMMA QueuedIsNotGranted ==
  ASSUME ServedOK, NEW t \in Thread, pc[t] # "idle"
  PROVE  /\ job[t] \in Request
         /\ Status(job[t]) = IF pc[t] \in {"peer", "check"} THEN "queued" ELSE "granted"
  BY ThreadsApart DEF Status, Granted

(* Starting on a request, or going on with it, changes its status at most. *)
LEMMA GotoMoves ==
  ASSUME IInv, NEW t \in Thread, NEW place, Goto(t, place), place # "idle",
         pc[t] # "idle", UNCHANGED <<job, fate, up>>
  PROVE  /\ pc[t] \in {"peer", "check"} /\ place \in {"peer", "check"} => UNCHANGED Promise!vars
         /\ pc[t] \notin {"peer", "check"} /\ place \notin {"peer", "check"} => UNCHANGED Promise!vars
         /\ pc[t] \in {"peer", "check"} /\ place \notin {"peer", "check"} => Promise!Next
<1>1. pc' = [pc EXCEPT ![t] = place] /\ pc \in [Thread -> Place]
  BY DEF Goto, IInv, ServedOK, TypeOK
<1>2. /\ job[t] \in Request /\ fate[job[t]] = "asked" /\ up
      /\ \A u \in Thread : job[u] = job[t] => u = t
  BY ThreadsApart DEF IInv
<1>3. \A q \in Request : q # job[t] => (Granted(q)' <=> Granted(q))
  BY <1>1 DEF Granted
<1>4. \A q \in Request : q # job[t] => Status(q)' = Status(q)
  BY <1>3 DEF Status
<1>5. Status(job[t]) = IF pc[t] \in {"peer", "check"} THEN "queued" ELSE "granted"
  BY QueuedIsNotGranted DEF IInv
<1>6. PICK r \in Request : r = job[t]
  BY <1>2
<1>7. Status(r)' = IF place \in {"peer", "check"} THEN "queued" ELSE "granted"
  BY <1>1, <1>2, <1>6 DEF Status, Granted
<1>8. CASE pc[t] \in {"peer", "check"} <=> place \in {"peer", "check"}
  BY <1>4, <1>5, <1>6, <1>7, <1>8, NothingMoves
<1>9. CASE pc[t] \in {"peer", "check"} /\ place \notin {"peer", "check"}
  <2>1. Promise!Move(r, "queued", "granted")
    BY <1>4, <1>5, <1>6, <1>7, <1>9, OneMoves
  <2>2. QED
    BY <1>2, <1>9, <2>1 DEF Promise!Next, Promise!Grant
<1>10. QED
  BY <1>8, <1>9

(* A request gets its outcome by the step of Service that gives it. *)
LEMMA EndMoves ==
  ASSUME IInv, NEW t \in Thread, NEW outcome \in Fate, End(t, outcome), up' = up,
         \/ pc[t] = "check" /\ outcome = "dropped"
         \/ pc[t] \notin {"idle", "peer", "check"} /\ outcome \in {"answered", "discarded"}
  PROVE  Promise!Next
<1>1. /\ pc' = [pc EXCEPT ![t] = "idle"] /\ pc \in [Thread -> Place]
      /\ job' = [job EXCEPT ![t] = None] /\ job \in [Thread -> Request \cup {None}]
      /\ fate' = [fate EXCEPT ![job[t]] = outcome] /\ fate \in [Request -> Fate]
  BY DEF End, Goto, IInv, ServedOK, TypeOK
<1>2. /\ job[t] \in Request /\ fate[job[t]] = "asked" /\ up
      /\ \A u \in Thread : job[u] = job[t] => u = t
  BY ThreadsApart DEF IInv
<1>3. \A q \in Request : q # job[t] => (Granted(q)' <=> Granted(q)) /\ fate'[q] = fate[q]
  BY <1>1, ServerAssumption DEF Granted
<1>4. \A q \in Request : q # job[t] => Status(q)' = Status(q)
  BY <1>3 DEF Status
<1>5. Status(job[t]) = IF pc[t] \in {"peer", "check"} THEN "queued" ELSE "granted"
  BY QueuedIsNotGranted DEF IInv
<1>6. PICK r \in Request : r = job[t]
  BY <1>2
<1>7. Status(r)' = outcome
  BY <1>1, <1>2, <1>6 DEF Status
<1>8. CASE pc[t] = "check" /\ outcome = "dropped"
  <2>1. Promise!Move(r, "queued", "dropped")
    BY <1>4, <1>5, <1>6, <1>7, <1>8, OneMoves
  <2>2. QED
    BY <1>2, <2>1 DEF Promise!Next, Promise!Drop
<1>9. CASE pc[t] \notin {"idle", "peer", "check"} /\ outcome \in {"answered", "discarded"}
  <2>1. Promise!Move(r, "granted", outcome)
    BY <1>4, <1>5, <1>6, <1>7, <1>9, OneMoves
  <2>2. QED
    BY <1>2, <1>9, <2>1 DEF Promise!Next, Promise!Answer, Promise!Discard
<1>10. QED
  BY <1>8, <1>9

LEMMA ExitMoves ==
  ASSUME IInv, up, Exit
  PROVE  Promise!Next
<1>1. \A r \in Request :
        Status(r)' = IF Status(r) \in Promise!Waiting THEN "lost" ELSE Status(r)
  BY DEF Exit, Status, Promise!Waiting, IInv, ServedOK, TypeOK, Fate
<1>2. up' = FALSE
  BY DEF Exit
<1>3. Promise!Outage
  BY <1>1, <1>2 DEF Promise!Outage, Status
<1>4. QED
  BY <1>3 DEF Promise!Next

(* What is not anybody's job yet is not granted. *)
LEMMA BeginMoves ==
  ASSUME IInv, NEW t \in Thread, NEW r \in Request, NEW place \in {"peer", "check"},
         pc[t] = "idle", fate[r] = "asked", \A u \in Thread : job[u] # r,
         Begin(t, r), Goto(t, place), up' = up
  PROVE  UNCHANGED Promise!vars
<1>1. /\ pc' = [pc EXCEPT ![t] = place] /\ pc \in [Thread -> Place]
      /\ job' = [job EXCEPT ![t] = r] /\ job \in [Thread -> Request \cup {None}]
      /\ job[t] = None /\ fate' = fate
  BY DEF Begin, Goto, IInv, ServedOK, TypeOK
<1>2. \A q \in Request : Granted(q)' <=> Granted(q)
  BY <1>1, ServerAssumption DEF Granted
<1>3. \A q \in Request : Status(q)' = Status(q)
  BY <1>1, <1>2 DEF Status
<1>4. QED
  BY <1>3, NothingMoves

LEMMA AskMoves ==
  ASSUME IInv, NEW r \in Request, fate[r] = "unasked", up' = up, UNCHANGED <<pc, job>>,
         \/ up /\ fate' = [fate EXCEPT ![r] = "asked"]
         \/ fate' = [fate EXCEPT ![r] = "lost"]
  PROVE  Promise!Next
<1>1. fate \in [Request -> Fate] /\ \A t \in Thread : job[t] # r
  BY ThreadsApart, ServerAssumption DEF IInv, ServedOK, TypeOK
<1>2. \A q \in Request : q # r => Status(q)' = Status(q)
  BY <1>1 DEF Status, Granted
<1>3. Status(r) = "unasked"
  BY DEF Status
<1>4. CASE up /\ fate' = [fate EXCEPT ![r] = "asked"]
  <2>1. Status(r)' = "queued"
    BY <1>1, <1>4 DEF Status, Granted
  <2>2. QED
    BY <1>2, <1>3, <1>4, <2>1, OneMoves DEF Promise!Next, Promise!Ask
<1>5. CASE fate' = [fate EXCEPT ![r] = "lost"]
  <2>1. Status(r)' = "lost"
    BY <1>1, <1>5 DEF Status
  <2>2. QED
    BY <1>2, <1>3, <2>1, OneMoves DEF Promise!Next, Promise!Lose
<1>6. QED
  BY <1>4, <1>5

LEMMA CheckMoves ==
  ASSUME IInv, NEW t \in Thread, Check(t)
  PROVE  [Promise!Next]_(Promise!vars)
<1>1. CASE CheckStarts(t)
  BY <1>1, NothingMoves DEF CheckStarts, served, process, Status, Granted
<1>2. CASE CheckPasses(t) \/ CheckBypassed(t)
  <2>1. /\ pc[t] = "check" /\ Goto(t, Passed(t)) /\ UNCHANGED <<job, fate, up>>
    BY <1>2 DEF CheckPasses, CheckBypassed, process
  <2>2. Passed(t) \notin {"idle", "peer", "check"}
    BY DEF Passed
  <2>3. QED
    BY <2>1, <2>2, GotoMoves
<1>3. CASE CheckDrops(t)
  BY <1>3, EndMoves DEF CheckDrops, process, Fate
<1>4. QED
  BY <1>1, <1>2, <1>3 DEF Check

LEMMA UdpMoves ==
  ASSUME IInv, UdpThread
  PROVE  [Promise!Next]_(Promise!vars)
<1>1. udp \in Thread
  BY DEF Thread
<1>2. CASE HandleDatagram
  <2>1. PICK outcome \in {"answered", "discarded"} : End(udp, outcome)
    BY <1>2 DEF HandleDatagram
  <2>2. QED
    BY <1>1, <1>2, <2>1, EndMoves DEF HandleDatagram, process, Fate
<1>3. ASSUME NEW d \in Datagram, Receive(d)
      PROVE  [Promise!Next]_(Promise!vars)
  <2>1. /\ pc[udp] = "idle" /\ d \in Request /\ fate[d] = "asked"
        /\ \A t \in Thread : job[t] # d
    BY <1>1, <1>3, QueuedAreRequests, ServerAssumption
       DEF Receive, IInv, ServedOK, TypeOK, JobsAreApart, QueuesAreApart, Thread
  <2>2. Begin(udp, d) /\ Goto(udp, "check") /\ up' = up
    BY <1>3 DEF Receive, process
  <2>3. QED
    BY <1>1, <2>1, <2>2, BeginMoves
<1>4. QED
  BY <1>1, <1>2, <1>3, CheckMoves DEF UdpThread

LEMMA MainMoves ==
  ASSUME IInv, MainThread
  PROVE  [Promise!Next]_(Promise!vars)
<1>1. main \in Thread
  BY DEF Thread
<1>2. CASE Accept
  <2>1. /\ backlog \in Seq(Conn) /\ backlog # <<>>
        /\ pc[main] = "idle" /\ up' = up
        /\ Begin(main, Head(backlog)) /\ Goto(main, "peer")
    BY <1>2 DEF Accept, process, IInv, ServedOK, TypeOK
  <2>2. Head(backlog) = backlog[1] /\ 1 \in 1..Len(backlog)
    BY <2>1
  <2>3. /\ Head(backlog) \in Request /\ fate[Head(backlog)] = "asked"
        /\ \A t \in Thread : job[t] # Head(backlog)
    BY <2>2, QueuedAreRequests, ServerAssumption
       DEF IInv, ServedOK, JobsAreApart, QueuesAreApart, Thread
  <2>4. QED
    BY <1>1, <2>1, <2>3, BeginMoves
<1>3. CASE PeerAddr
  BY <1>1, <1>3, GotoMoves, ExitMoves DEF PeerAddr, process
<1>4. ASSUME NEW here \in {"length", "body"}, NEW amount,
             NEW next \in {"body", "reply length"}, Read(here, amount, next)
      PROVE  [Promise!Next]_(Promise!vars)
  BY <1>1, <1>4, GotoMoves DEF Read, process
<1>5. CASE ReadFails
  BY <1>1, <1>5, EndMoves DEF ReadFails, process, Fate
<1>6. CASE WriteLength
  <2>1. pc[main] = "reply length" /\ up
    BY <1>6 DEF WriteLength
  <2>2. CASE Exit
    BY <2>1, <2>2, ExitMoves
  <2>3. CASE ~Exit
    <3>1. PICK place \in {"reply"} : Goto(main, place) /\ UNCHANGED <<job, fate, up>>
      BY <1>6, <2>3 DEF WriteLength, process
    <3>2. QED
      BY <1>1, <2>1, <3>1, GotoMoves
  <2>4. QED
    BY <2>2, <2>3
<1>7. CASE WriteReply
  <2>1. pc[main] = "reply" /\ up
    BY <1>7 DEF WriteReply
  <2>2. CASE Exit
    BY <2>1, <2>2, ExitMoves
  <2>3. CASE up' = up /\ (End(main, "discarded") \/ End(main, "answered"))
    BY <1>1, <2>1, <2>3, EndMoves DEF Fate
  <2>4. CASE Goto(main, "blocked") /\ UNCHANGED <<job, fate, up>>
    <3>1. PICK place \in {"blocked"} : Goto(main, place) /\ UNCHANGED <<job, fate, up>>
      BY <2>4
    <3>2. QED
      BY <1>1, <2>1, <3>1, GotoMoves
  <2>5. QED
    BY <1>7, <2>2, <2>3, <2>4 DEF WriteReply, process
<1>8. CASE WriteRest
  BY <1>1, <1>8, EndMoves, ExitMoves DEF WriteRest, process, Fate
<1>9. QED
  BY <1>1, <1>2, <1>3, <1>4, <1>5, <1>6, <1>7, <1>8, CheckMoves
     DEF MainThread, ReadLength, ReadBody

LEMMA EnvironmentMoves ==
  ASSUME IInv, Environment
  PROVE  [Promise!Next]_(Promise!vars)
<1>1. CASE Restart
  <2>1. /\ ~up /\ up' = TRUE /\ \A r \in Request : Status(r)' = Status(r)
    BY <1>1 DEF Restart, served, Status, Granted
  <2>2. [r \in Request |-> Status(r)'] = [r \in Request |-> Status(r)]
    BY <2>1
  <2>3. Promise!Recover
    BY <2>1, <2>2 DEF Promise!Recover, Status
  <2>4. QED
    BY <2>3 DEF Promise!Next
<1>2. CASE \/ Tick
           \/ \E c \in Conn : Write(c) \/ Close(c) \/ Reset(c) \/ Vanish(c) \/ Take(c)
  <2>1. UNCHANGED <<up, pc, job, fate>>
    BY <1>2 DEF Tick, Write, Close, Reset, Vanish, Take, served, process
  <2>2. QED
    BY <2>1, NothingMoves DEF Status, Granted
<1>3. ASSUME NEW r \in Request,
             \/ r \in Datagram /\ SendDatagram(r)
             \/ r \in Conn /\ Connect(r)
             \/ Lose(r)
      PROVE  Promise!Next
  BY <1>3, AskMoves DEF SendDatagram, Connect, Lose, process
<1>4. CASE \E d \in Datagram : SendDatagram(d)
  <2>1. PICK r \in Request : r \in Datagram /\ SendDatagram(r)
    BY <1>4 DEF Request
  <2>2. QED
    BY <1>3, <2>1
<1>5. CASE \E c \in Conn : Connect(c)
  <2>1. PICK r \in Request : r \in Conn /\ Connect(r)
    BY <1>5 DEF Request
  <2>2. QED
    BY <1>3, <2>1
<1>6. QED
  BY <1>1, <1>2, <1>3, <1>4, <1>5 DEF Environment

LEMMA NextMoves == IInv /\ [Next]_vars => [Promise!Next]_(Promise!vars)
<1>1. ASSUME UNCHANGED vars
      PROVE  UNCHANGED Promise!vars
  BY <1>1, NothingMoves DEF vars, served, process, Status, Granted
<1>2. QED
  BY <1>1, UdpMoves, MainMoves, EnvironmentMoves DEF Next

(* Each request goes through the service once and gets one outcome, and an *)
(* outage loses exactly what was waiting: every step of the process is one *)
(* of Service, or changes nothing of it.                                   *)
THEOREM ServiceIsSimulated == Spec => Promise!Init /\ [][Promise!Next]_(Promise!vars)
<1>1. Init => Promise!Init
  BY DEF Init, Promise!Init
<1>2. QED
  BY <1>1, NextMoves, Inductive, PTL DEF Spec

-----------------------------------------------------------------------------
(* The quota is one for both transports.  In the first window nothing in   *)
(* the map expires, so the buckets count whoever got past the limiter      *)
(* since the process was started; each earlier process let through at most *)
(* a quota of its own.                                                     *)

(* The requests of i that got past the limiter, in whichever process. *)
Spent(i) ==
  {r \in Request : /\ Source[r] = i
                   /\ Granted(r) \/ fate[r] \in {"answered", "discarded"}}

Counted(i) == IF i \in DOMAIN state THEN state[i].count ELSE 0

SpentIsCounted ==
  limited /\ clock < Window =>
    \A i \in Ip :
      /\ IsFiniteSet(Spent(i))
      /\ Cardinality(Spent(i)) <=
           IF up THEN (starts - 1) * MaxRequests + Counted(i) ELSE starts * MaxRequests

LEMMA OutcomeNeedsGrant ==
  ASSUME IInv, [Next]_vars, NEW r \in Request, fate'[r] \in {"answered", "discarded"}
  PROVE  Granted(r) \/ fate[r] \in {"answered", "discarded"}
<1>1. Status(r)' \in {"answered", "discarded"}
  BY DEF Status
<1>2. Status(r) \in {"granted", "answered", "discarded"}
  <2>1. CASE UNCHANGED Promise!vars
    <3>1. [q \in Request |-> Status(q)'][r] = [q \in Request |-> Status(q)][r]
      BY <2>1, StatusIsMapped
    <3>2. QED
      BY <1>1, <3>1
  <2>2. CASE Promise!Outage
    BY <1>1, <2>2 DEF Promise!Outage, Status
  <2>3. CASE Promise!Recover
    <3>1. [q \in Request |-> Status(q)'][r] = [q \in Request |-> Status(q)][r]
      BY <2>3 DEF Promise!Recover, Status
    <3>2. QED
      BY <1>1, <3>1
  <2>4. ASSUME NEW q \in Request, NEW from, NEW to, Promise!Move(q, from, to),
               to \in {"answered", "discarded"} => from = "granted"
        PROVE  Status(r) \in {"granted", "answered", "discarded"}
    <3>1. Status(q) = from
      BY <2>4 DEF Promise!Move, Status
    <3>2. Status(r)' = IF r = q THEN to ELSE Status(r)
      BY <2>4 DEF Promise!Move, Status
    <3>3. QED
      BY <1>1, <2>4, <3>1, <3>2
  <2>5. QED
    BY <2>1, <2>2, <2>3, <2>4, NextMoves
       DEF Promise!Next, Promise!Ask, Promise!Lose, Promise!Grant, Promise!Drop,
           Promise!Answer, Promise!Discard
<1>3. fate[r] # "granted"
  BY DEF IInv, ServedOK, TypeOK, Fate
<1>4. QED
  BY <1>2, <1>3 DEF Status

LEMMA GrantNeedsCheck ==
  ASSUME IInv, [Next]_vars, NEW r \in Request, Granted(r)', ~Granted(r)
  PROVE  \E t \in Thread : (CheckPasses(t) \/ CheckBypassed(t)) /\ r = job[t]
<1>1. /\ pc \in [Thread -> Place] /\ job \in [Thread -> Request \cup {None}]
      /\ r # None /\ main \in Thread /\ udp \in Thread
  BY ServerAssumption DEF IInv, ServedOK, TypeOK, Thread
<1>2. ~UNCHANGED <<pc, job>>
  BY DEF Granted
<1>3. ASSUME NEW t \in Thread, NEW place, Goto(t, place), UNCHANGED job
      PROVE  /\ r = job[t]
             /\ pc[t] \in {"peer", "check"} /\ place \notin {"peer", "check"}
  BY <1>1, <1>3 DEF Granted, Goto
<1>4. ASSUME NEW t \in Thread, NEW outcome, End(t, outcome)
      PROVE  FALSE
  BY <1>1, <1>4 DEF Granted, End, Goto
<1>5. ASSUME NEW t \in Thread, NEW q, NEW place \in {"peer", "check"}, Begin(t, q), Goto(t, place)
      PROVE  FALSE
  BY <1>1, <1>5 DEF Granted, Begin, Goto
<1>6. ~Exit
  BY <1>1 DEF Granted, Exit
<1>7. ASSUME NEW t \in Thread, Check(t)
      PROVE  \E u \in Thread : (CheckPasses(u) \/ CheckBypassed(u)) /\ r = job[u]
  BY <1>2, <1>3, <1>4, <1>7 DEF Check, CheckStarts, CheckPasses, CheckDrops, CheckBypassed, served
<1>8. ASSUME \/ HandleDatagram \/ \E d \in Datagram : Receive(d)
             \/ Accept \/ PeerAddr \/ ReadFails \/ WriteReply \/ WriteRest
      PROVE  FALSE
  BY <1>1, <1>2, <1>3, <1>4, <1>5, <1>6, <1>8
     DEF HandleDatagram, Receive, Accept, PeerAddr, ReadFails, WriteReply, WriteRest
<1>9. ~(ReadLength \/ ReadBody \/ WriteLength)
  BY <1>1, <1>2, <1>3, <1>6 DEF ReadLength, ReadBody, Read, WriteLength
<1>10. ~Environment
  BY <1>2
     DEF Environment, Tick, Restart, SendDatagram, Connect, Write, Close, Reset, Vanish, Take,
         Lose, served
<1>11. QED
  BY <1>1, <1>2, <1>7, <1>8, <1>9, <1>10 DEF Next, UdpThread, MainThread, vars, served

LEMMA SpentGrows ==
  ASSUME IInv, [Next]_vars, NEW i \in Ip, NEW r \in Spent(i)', r \notin Spent(i)
  PROVE  \E t \in Thread : (CheckPasses(t) \/ CheckBypassed(t)) /\ r = job[t] /\ Source[r] = i
<1>1. /\ r \in Request /\ Source[r] = i
      /\ Granted(r)' \/ fate'[r] \in {"answered", "discarded"}
      /\ ~Granted(r) /\ fate[r] \notin {"answered", "discarded"}
  BY DEF Spent
<1>2. QED
  BY <1>1, OutcomeNeedsGrant, GrantNeedsCheck

LEMMA ClockAdvances ==
  ASSUME IInv, [Next]_vars
  PROVE  clock \in Nat /\ clock' \in Nat /\ clock' >= clock
<1>1. clock \in Nat
  BY LimiterAssumption DEF IInv, Proved!IInv, Proved!TypeOK, Proved!Time
<1>2. CASE Tick
  BY <1>1, <1>2 DEF Tick, Limiter!Tick
<1>3. ASSUME Environment, ~Tick PROVE clock' = clock
  BY <1>3
     DEF Environment, Restart, SendDatagram, Connect, Write, Close, Reset, Vanish, Take, Lose,
         limiter
<1>4. ASSUME NEW t \in Thread, CheckPasses(t) \/ CheckDrops(t) PROVE clock' = clock
  <2>1. Proved!NewWindow(t) \/ Proved!Count(t) \/ Proved!Drop(t)
    BY <1>4, SameSteps DEF CheckPasses, CheckDrops
  <2>2. QED
    BY <2>1 DEF Proved!NewWindow, Proved!Count, Proved!Drop, Proved!Finish
<1>5. ASSUME NEW t \in Thread, CheckStarts(t) \/ CheckBypassed(t) PROVE clock' = clock
  BY <1>5 DEF CheckStarts, CheckBypassed, Limiter!Call, limiter
<1>6. ASSUME HandleDatagram \/ \E d \in Datagram : Receive(d) PROVE clock' = clock
  BY <1>6 DEF HandleDatagram, Receive, limiter
<1>7. ASSUME \/ Accept \/ PeerAddr \/ ReadLength \/ ReadBody \/ ReadFails
             \/ WriteLength \/ WriteReply \/ WriteRest
      PROVE  clock' = clock
  BY <1>7
     DEF Accept, PeerAddr, ReadLength, ReadBody, Read, ReadFails, WriteLength, WriteReply,
         WriteRest, Exit, limiter
<1>8. clock' = clock \/ Tick
  BY <1>3, <1>4, <1>5, <1>6, <1>7
     DEF Next, UdpThread, MainThread, Check, Thread, vars, limiter
<1>9. QED
  BY <1>1, <1>2, <1>8

(* Until the first window ends no bucket is ever found expired. *)
LEMMA NothingExpires ==
  ASSUME IInv, clock < Window, NEW t \in Thread, call[t] # Idle
  PROVE  /\ Proved!Pruned(call[t].now) = state
         /\ Proved!Live(Proved!Entry(call[t].ip, call[t].now), call[t].now)
         /\ Proved!Entry(call[t].ip, call[t].now).count = Counted(call[t].ip)
<1>1. /\ call[t].ip \in Ip /\ call[t].now \in Nat /\ call[t].now < Window
      /\ Window \in Nat
  <2>1. call[t].ip \in Ip /\ call[t].now \in Nat /\ clock \in Nat /\ Window \in Nat
    BY ProvedAssumptions, LimiterAssumption, Proved!CallIsTyped
       DEF IInv, Proved!IInv, Proved!TypeOK, Proved!Time
  <2>2. call[t].now <= clock
    BY DEF IInv, Proved!IInv, Proved!CallsAreStamped
  <2>3. QED
    BY <2>1, <2>2
<1>2. ASSUME NEW bucket, bucket.window_start \in Nat
      PROVE  Proved!Live(bucket, call[t].now)
  BY <1>1, <1>2 DEF Proved!Live, Proved!Since
<1>3. /\ state = [i \in DOMAIN state |-> state[i]]
      /\ \A i \in DOMAIN state : state[i].window_start \in Nat
  BY LimiterAssumption DEF IInv, Proved!IInv, Proved!TypeOK, Proved!Bucket, Proved!Time
<1>4. Proved!Pruned(call[t].now) = state
  <2>1. {i \in DOMAIN state : Proved!Live(state[i], call[t].now)} = DOMAIN state
    BY <1>2, <1>3
  <2>2. QED
    BY <1>3, <2>1 DEF Proved!Pruned
<1>5. Proved!Entry(call[t].ip, call[t].now) =
        IF call[t].ip \in DOMAIN state THEN state[call[t].ip]
        ELSE [window_start |-> call[t].now, count |-> 0]
  BY <1>4 DEF Proved!Entry
<1>6. Proved!Entry(call[t].ip, call[t].now).window_start \in Nat
  BY <1>1, <1>3, <1>5
<1>7. QED
  BY <1>2, <1>4, <1>5, <1>6 DEF Counted

LEMMA CountedIsTyped ==
  ASSUME IInv, NEW i \in Ip
  PROVE  Counted(i) \in Nat /\ Counted(i) <= MaxRequests
  BY LimiterAssumption DEF Counted, IInv, Proved!IInv, Proved!QuotaInWindow

(* A pass is counted for the address of the request, and no drop loses a   *)
(* count.                                                                  *)
LEMMA PassIsCounted ==
  ASSUME IInv, clock < Window, NEW t \in Thread, CheckPasses(t), NEW i \in Ip
  PROVE  Counted(i)' = IF i = Source[job[t]] THEN Counted(i) + 1 ELSE Counted(i)
<1>1. call[t] # Idle /\ call[t].ip = Source[job[t]] /\ Proved!Count(t)
  <2>1. Proved!NewWindow(t) \/ Proved!Count(t)
    BY SameSteps DEF CheckPasses
  <2>2. call[t] # Idle
    BY <2>1 DEF Proved!NewWindow, Proved!Count
  <2>3. Proved!Count(t)
    BY <2>1, <2>2, NothingExpires DEF Proved!NewWindow
  <2>4. QED
    BY <2>2, <2>3 DEF IInv, CallsAreChecks
<1>2. PICK bucket : /\ state' = Proved!Put(state, call[t].ip, bucket)
                    /\ bucket.count = Counted(call[t].ip) + 1
  <2> DEFINE old == Proved!Entry(call[t].ip, call[t].now)
             bucket == [old EXCEPT !.count = @ + 1]
  <2>1. Proved!Finish(t, bucket)
    BY <1>1 DEF Proved!Count
  <2>2. old \in Proved!Bucket /\ old.count = Counted(call[t].ip)
    BY <1>1, NothingExpires, ProvedAssumptions, Proved!EntryIsAccounted DEF IInv
  <2>3. bucket.count = Counted(call[t].ip) + 1
    BY <2>2 DEF Proved!Bucket
  <2> HIDE DEF old, bucket
  <2>4. state' = Proved!Put(state, call[t].ip, bucket)
    BY <1>1, <2>1, NothingExpires DEF Proved!Finish
  <2>5. QED
    BY <2>3, <2>4
<1>3. QED
  BY <1>1, <1>2 DEF Proved!Put, Counted

LEMMA DropIsNotCounted ==
  ASSUME IInv, clock < Window, NEW t \in Thread, CheckDrops(t), NEW i \in Ip
  PROVE  Counted(i)' = Counted(i)
<1>1. call[t] # Idle /\ Proved!Drop(t)
  BY SameSteps DEF CheckDrops, Proved!Drop
<1>2. state' = Proved!Put(state, call[t].ip, Proved!Entry(call[t].ip, call[t].now))
  BY <1>1, NothingExpires DEF Proved!Drop, Proved!Finish
<1>3. Proved!Entry(call[t].ip, call[t].now).count = Counted(call[t].ip)
  BY <1>1, NothingExpires
<1>4. QED
  BY <1>2, <1>3 DEF Proved!Put, Counted

LEMMA OtherCounts ==
  ASSUME IInv, clock < Window, [Next]_vars, ~\E t \in Thread : CheckPasses(t)
  PROVE  \/ Exit /\ up /\ starts' = starts
         \/ Restart
         \/ up' = up /\ starts' = starts /\ \A i \in Ip : Counted(i)' = Counted(i)
<1>1. ASSUME UNCHANGED <<state, up, starts>>
      PROVE  up' = up /\ starts' = starts /\ \A i \in Ip : Counted(i)' = Counted(i)
  BY <1>1 DEF Counted
<1>2. CASE Environment
  BY <1>1, <1>2
     DEF Environment, Tick, Limiter!Tick, SendDatagram, Connect, Write, Close, Reset, Vanish,
         Take, Lose,
         process, limiter
<1>3. ASSUME NEW t \in Thread, Check(t)
      PROVE  up' = up /\ starts' = starts /\ \A i \in Ip : Counted(i)' = Counted(i)
  <2>1. CASE CheckDrops(t)
    BY <2>1, DropIsNotCounted DEF CheckDrops, process
  <2>2. CASE ~CheckDrops(t)
    BY <1>1, <1>3, <2>2
       DEF Check, CheckStarts, CheckBypassed, Limiter!Call, process, limiter
  <2>3. QED
    BY <2>1, <2>2
<1>4. CASE HandleDatagram \/ \E d \in Datagram : Receive(d)
  BY <1>1, <1>4 DEF HandleDatagram, Receive, process, limiter
<1>5. CASE \/ Accept \/ PeerAddr \/ ReadLength \/ ReadBody \/ ReadFails
           \/ WriteLength \/ WriteReply \/ WriteRest
  <2>1. CASE Exit
    BY <1>5, <2>1
       DEF Exit, Accept, PeerAddr, ReadLength, ReadBody, Read, ReadFails, WriteLength, WriteReply,
           WriteRest
  <2>2. CASE ~Exit
    BY <1>1, <1>5, <2>2
       DEF Accept, PeerAddr, ReadLength, ReadBody, Read, ReadFails, WriteLength, WriteReply,
           WriteRest,
           process, limiter
  <2>3. QED
    BY <2>1, <2>2
<1>6. CASE UNCHANGED vars
  BY <1>1, <1>6 DEF vars, process, limiter
<1>7. QED
  BY <1>2, <1>3, <1>4, <1>5, <1>6 DEF Next, UdpThread, MainThread, Thread

LEMMA SpentIsKept == IInv /\ SpentIsCounted /\ [Next]_vars => SpentIsCounted'
<1> SUFFICES ASSUME IInv, SpentIsCounted, [Next]_vars, limited', clock' < Window,
                    NEW i \in Ip
             PROVE  /\ IsFiniteSet(Spent(i)')
                    /\ Cardinality(Spent(i)') <=
                         IF up' THEN (starts' - 1) * MaxRequests + Counted(i)'
                         ELSE starts' * MaxRequests
  BY DEF SpentIsCounted
<1>0. clock < Window
  <2>1. Window \in Nat
    BY LimiterAssumption
  <2>2. QED
    BY <2>1, ClockAdvances
<1>1. limited /\ limited \in Limited /\ MaxRequests \in Nat /\ starts \in Nat
  BY HistoryGrows, LimiterAssumption DEF IInv, ServedOK, TypeOK
<1>2. /\ IsFiniteSet(Spent(i)) /\ Cardinality(Spent(i)) \in Nat
      /\ Cardinality(Spent(i)) <=
           IF up THEN (starts - 1) * MaxRequests + Counted(i) ELSE starts * MaxRequests
  BY <1>0, <1>1, FS_CardinalityType DEF SpentIsCounted
<1>3. Counted(i) \in Nat /\ Counted(i) <= MaxRequests
  BY CountedIsTyped
<1>4. ASSUME NEW t \in Thread
      PROVE  ~CheckBypassed(t)
  <2>1. limited = TRUE
    BY <1>1, ServerAssumption, Zenon
  <2>2. Limiter!IsEnabled
    BY <1>1, <2>1, LimiterAssumption DEF Limiter!IsEnabled
  <2>3. QED
    BY <1>1, <2>2 DEF CheckBypassed
<1>5. CASE \E t \in Thread : CheckPasses(t)
  <2>1. PICK t \in Thread : CheckPasses(t)
    BY <1>5
  <2>2. up /\ up' = up /\ starts' = starts
    BY <2>1 DEF CheckPasses, process
  <2>3. Counted(i)' = IF i = Source[job[t]] THEN Counted(i) + 1 ELSE Counted(i)
    BY <1>0, <2>1, PassIsCounted
  <2>4. \A u \in Thread : CheckPasses(u) => job[u] = job[t]
    <3> SUFFICES ASSUME NEW u \in Thread, CheckPasses(u), u # t PROVE FALSE
      OBVIOUS
    <3>1. pc' = [pc EXCEPT ![t] = Passed(t)] /\ pc' = [pc EXCEPT ![u] = Passed(u)]
          /\ pc[t] = "check" /\ pc \in [Thread -> Place]
      BY <2>1 DEF CheckPasses, Goto, IInv, ServedOK, TypeOK
    <3>2. Passed(t) # "check"
      BY DEF Passed
    <3>3. QED
      BY <3>1, <3>2
  <2>5. CASE i = Source[job[t]]
    <3>1. Spent(i)' \subseteq Spent(i) \cup {job[t]}
      BY <1>4, <2>4, SpentGrows
    <3>2. /\ IsFiniteSet(Spent(i) \cup {job[t]})
          /\ Cardinality(Spent(i) \cup {job[t]}) \in Nat
          /\ Cardinality(Spent(i) \cup {job[t]}) <= Cardinality(Spent(i)) + 1
      <4>1. /\ IsFiniteSet(Spent(i) \cup {job[t]})
            /\ Cardinality(Spent(i) \cup {job[t]}) =
                 IF job[t] \in Spent(i) THEN Cardinality(Spent(i)) ELSE Cardinality(Spent(i)) + 1
        BY <1>2, FS_AddElement
      <4>2. QED
        BY <1>2, <4>1
    <3>3. /\ IsFiniteSet(Spent(i)') /\ Cardinality(Spent(i)') \in Nat
          /\ Cardinality(Spent(i)') <= Cardinality(Spent(i)) + 1
      BY <1>2, <3>1, <3>2, FS_Subset, FS_CardinalityType
    <3> DEFINE before == (starts - 1) * MaxRequests
    <3>4. before \in Int /\ Cardinality(Spent(i)) <= before + Counted(i)
      BY <1>1, <1>2, <2>2
    <3> HIDE DEF before
    <3>5. Cardinality(Spent(i)') <= before + (Counted(i) + 1)
      BY <1>2, <1>3, <3>3, <3>4
    <3>6. QED
      BY <2>2, <2>3, <2>5, <3>3, <3>5 DEF before
  <2>6. CASE i # Source[job[t]]
    <3>1. Spent(i)' \subseteq Spent(i)
      BY <1>4, <2>4, <2>6, SpentGrows
    <3>2. /\ IsFiniteSet(Spent(i)') /\ Cardinality(Spent(i)') \in Nat
          /\ Cardinality(Spent(i)') <= Cardinality(Spent(i))
      BY <1>2, <3>1, FS_Subset, FS_CardinalityType
    <3> DEFINE bound == (starts - 1) * MaxRequests + Counted(i)
    <3>3. bound \in Int /\ Cardinality(Spent(i)) <= bound
      BY <1>1, <1>2, <1>3, <2>2
    <3> HIDE DEF bound
    <3>4. Cardinality(Spent(i)') <= bound
      BY <1>2, <3>2, <3>3
    <3>5. QED
      BY <2>2, <2>3, <2>6, <3>2, <3>4 DEF bound
  <2>7. QED
    BY <2>5, <2>6
<1>6. CASE ~\E t \in Thread : CheckPasses(t)
  <2>1. Spent(i)' \subseteq Spent(i)
    BY <1>4, <1>6, SpentGrows
  <2>2. IsFiniteSet(Spent(i)') /\ Cardinality(Spent(i)') <= Cardinality(Spent(i))
        /\ Cardinality(Spent(i)') \in Nat
    BY <1>2, <2>1, FS_Subset, FS_CardinalityType
  <2>3. (starts - 1) * MaxRequests + MaxRequests = starts * MaxRequests
        /\ (starts - 1) * MaxRequests \in Int
    BY <1>1
  <2>4. CASE Exit /\ up /\ starts' = starts
    <3>1. ~up'
      BY <2>4 DEF Exit
    <3>2. Cardinality(Spent(i)) <= (starts - 1) * MaxRequests + Counted(i)
      BY <1>2, <2>4
    <3>3. Cardinality(Spent(i)') <= starts * MaxRequests
      BY <1>1, <1>2, <1>3, <2>2, <2>3, <3>2
    <3>4. QED
      BY <2>2, <2>4, <3>1, <3>3
  <2>5. CASE Restart
    <3>1. /\ ~up /\ up' /\ starts' = starts + 1 /\ state' = state
          /\ state = [j \in {} |-> 0]
      BY <2>5 DEF Restart, limiter, IInv, ServedOK, DownIsEmpty
    <3>2. Counted(i)' = 0
      BY <3>1 DEF Counted
    <3>3. Cardinality(Spent(i)) <= starts * MaxRequests
      BY <1>2, <3>1
    <3>4. /\ (starts' - 1) * MaxRequests + Counted(i)' = starts * MaxRequests
          /\ starts * MaxRequests \in Int
      BY <1>1, <3>1, <3>2
    <3>5. Cardinality(Spent(i)') <= starts * MaxRequests
      BY <1>2, <2>2, <3>3, <3>4
    <3>6. QED
      BY <2>2, <3>1, <3>4, <3>5
  <2>6. CASE up' = up /\ starts' = starts /\ \A j \in Ip : Counted(j)' = Counted(j)
    <3>1. Counted(i)' = Counted(i)
      BY <2>6
    <3>2. QED
      BY <1>1, <1>2, <1>3, <2>2, <2>3, <2>6, <3>1
  <2>7. QED
    BY <1>0, <1>6, <2>4, <2>5, <2>6, OtherCounts
<1>7. QED
  BY <1>5, <1>6

(* Over UDP and TCP together a client gets no more than a quota past the   *)
(* limiter until the first window ends, and one more for each lost process. *)
THEOREM QuotaIsOne == Spec => []QuotaIsShared
<1>1. Init => SpentIsCounted
  <2> SUFFICES ASSUME Init, NEW i \in Ip
               PROVE  IsFiniteSet(Spent(i)) /\ up /\ starts = 1 /\ Counted(i) = 0
                      /\ Cardinality(Spent(i)) = 0
    BY LimiterAssumption DEF SpentIsCounted
  <2>1. Spent(i) = {}
    BY ServerAssumption DEF Init, Spent, Granted
  <2>2. QED
    BY <2>1, FS_EmptySet DEF Init, Limiter!Init, Counted
<1>2. IInv /\ SpentIsCounted => QuotaIsShared
  <2> SUFFICES ASSUME IInv, SpentIsCounted, limited, clock < Window, NEW i \in Ip
               PROVE  Cardinality(Spent(i)) <= starts * MaxRequests
    BY DEF QuotaIsShared, Spent
  <2>1. MaxRequests \in Nat /\ starts \in Nat /\ Counted(i) \in Nat /\ Counted(i) <= MaxRequests
    BY CountedIsTyped, LimiterAssumption DEF IInv, ServedOK, TypeOK
  <2>2. /\ Cardinality(Spent(i)) \in Nat
        /\ Cardinality(Spent(i)) <=
             IF up THEN (starts - 1) * MaxRequests + Counted(i) ELSE starts * MaxRequests
    BY FS_CardinalityType DEF SpentIsCounted
  <2>3. /\ (starts - 1) * MaxRequests + MaxRequests = starts * MaxRequests
        /\ (starts - 1) * MaxRequests \in Int
    BY <2>1
  <2>4. QED
    BY <2>1, <2>2, <2>3
<1>3. QED
  BY <1>1, <1>2, SpentIsKept, Inductive, PTL DEF Spec
=============================================================================
