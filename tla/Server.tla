------------------------------- MODULE Server -------------------------------
(***************************************************************************)
(* The process of src/main.rs: a thread that serves UDP queries and the    *)
(* main thread, which serves TCP connections one after the other.  The two *)
(* share the rate limiter and nothing else.  An error on a TCP connection  *)
(* that main hands on with `?` ends main, and with it the process, its     *)
(* UDP thread and its limiter; the supervisor starts a new one.            *)
(*                                                                         *)
(* The clients, the network and the supervisor are the environment.        *)
(***************************************************************************)
EXTENDS Naturals, Sequences, FiniteSets

CONSTANTS
  Datagram,     \* the UDP queries clients may send, each at most once
  Conn,         \* the TCP connections clients may open, each at most once
  Malformed,    \* the requests whose bytes the server does not answer
  Ip,           \* client addresses
  Source,       \* the address each request comes from
  Window, MaxRequests, PruneLen, MaxTime, Idle,  \* as in RateLimiter
  Limited,      \* whether RATE_LIMIT_... are set: the configurations considered
  udp, main,    \* the two threads
  None          \* no request

Thread  == {udp, main}
Request == Datagram \cup Conn

ASSUME ServerAssumption ==
  /\ Datagram \cap Conn = {}
  /\ Malformed \subseteq Request
  /\ Limited \subseteq BOOLEAN
  /\ Source \in [Request -> Ip]
  /\ None \notin Request
  /\ udp # main

(* The limiter's parameters; both settings are positive where it is on.    *)
ASSUME LimiterAssumption ==
  /\ Window \in Nat /\ MaxRequests \in Nat /\ PruneLen \in Nat /\ MaxTime \in Nat
  /\ Idle \notin [ip : Ip, now : 0..MaxTime]
  /\ IsFiniteSet(Ip)
  /\ TRUE \in Limited => MaxRequests > 0 /\ Window > 0

VARIABLES
  limited,  \* both settings of the rate limit are set to more than zero
  starts,   \* history: how often the process was started
  up,       \* the process is running
  past,     \* history: how many admissions of a client earlier processes made
  inbox,    \* the datagrams in the UDP socket's buffer
  backlog,  \* the connections the listener has not accepted yet
  sent,     \* per connection: 0 nothing, 1 the length, 2 the whole query
  link,     \* per connection: "open", "closed" (FIN) or "reset" by its peer, or
            \* "gone": the peer has vanished and nothing says so
  taken,    \* the connections whose peer reads an answer too long for the buffers
  pc,       \* per thread: what it does next
  job,      \* per thread: the request it works on
  fate,     \* per request: unasked, asked, or what became of it
  clock, state, call, log  \* the limiter's: see RateLimiter

served  == <<backlog, inbox, pc, job, fate>>
peers   == <<sent, link, taken>>
process == <<limited, starts, up, past>>
limiter == <<clock, state, call, log>>
vars    == <<served, peers, process, limiter>>

Limiter == INSTANCE RateLimiter WITH Watch <- Ip

Start == [t \in Thread |-> "idle"]

Init ==
  /\ limited \in Limited
  /\ starts = 1 /\ up = TRUE
  /\ past = [i \in Ip |-> 0]
  /\ inbox = {} /\ backlog = <<>>
  /\ sent = [c \in Conn |-> 0]
  /\ link = [c \in Conn |-> "open"]
  /\ taken = {}
  /\ pc = Start
  /\ job = [t \in Thread |-> None]
  /\ fate = [r \in Request |-> "unasked"]
  /\ Limiter!Init

-----------------------------------------------------------------------------
(* The environment: clients, network, supervisor.  As in RateLimiter, the  *)
(* definitions named Faulty... are plausible bugs, used by nothing here.   *)

SendDatagram(d) ==
  /\ up /\ fate[d] = "unasked"
  /\ inbox' = inbox \cup {d}
  /\ fate' = [fate EXCEPT ![d] = "asked"]
  /\ UNCHANGED <<backlog, pc, job, peers, process, limiter>>

Connect(c) ==
  /\ up /\ fate[c] = "unasked"
  /\ backlog' = Append(backlog, c)
  /\ fate' = [fate EXCEPT ![c] = "asked"]
  /\ UNCHANGED <<inbox, pc, job, peers, process, limiter>>

(* A datagram dropped on its way, or a request made while nothing listens. *)
Lose(r) ==
  /\ fate[r] = "unasked"
  /\ r \in Datagram \/ ~up
  /\ fate' = [fate EXCEPT ![r] = "lost"]
  /\ UNCHANGED <<backlog, inbox, pc, job, peers, process, limiter>>

Connected(c) == fate[c] = "asked"

Write(c) ==
  /\ Connected(c) /\ link[c] = "open" /\ sent[c] < 2
  /\ sent' = [sent EXCEPT ![c] = @ + 1]
  /\ UNCHANGED <<link, taken, served, process, limiter>>

Close(c) ==
  /\ Connected(c) /\ link[c] = "open"
  /\ link' = [link EXCEPT ![c] = "closed"]
  /\ UNCHANGED <<sent, taken, served, process, limiter>>

(* The peer aborts, or answers what it gets after its close with a reset. *)
Reset(c) ==
  /\ Connected(c) /\ link[c] # "reset"
  /\ link' = [link EXCEPT ![c] = "reset"]
  /\ UNCHANGED <<sent, taken, served, process, limiter>>

(* The peer, or its network, is lost without a word.  To the server, one    *)
(* that is lost after its close is one that closed, or later one that reset. *)
Vanish(c) ==
  /\ Connected(c) /\ link[c] = "open"
  /\ link' = [link EXCEPT ![c] = "gone"]
  /\ UNCHANGED <<sent, taken, served, process, limiter>>

(* The peer reads all of an answer that main still has a part of. *)
Take(c) ==
  /\ pc[main] = "blocked" /\ job[main] = c
  /\ link[c] \in {"open", "closed"}
  /\ taken' = taken \cup {c}
  /\ UNCHANGED <<sent, link, served, process, limiter>>

Restart ==
  /\ ~up
  /\ up' = TRUE /\ starts' = starts + 1
  /\ UNCHANGED <<limited, past, served, peers, limiter>>

Tick ==
  /\ Limiter!Tick
  /\ UNCHANGED <<served, peers, process>>

-----------------------------------------------------------------------------
(* Steps of the two threads. *)

Goto(t, place) == pc' = [pc EXCEPT ![t] = place]

Begin(t, r) ==
  /\ job' = [job EXCEPT ![t] = r]
  /\ UNCHANGED fate

FaultyEnd(t, outcome) ==
  /\ Goto(t, "idle")
  /\ fate' = [fate EXCEPT ![job[t]] = outcome]
  /\ UNCHANGED job

(* The thread is done with its request and waits for the next one. *)
End(t, outcome) ==
  /\ Goto(t, "idle")
  /\ job' = [job EXCEPT ![t] = None]
  /\ fate' = [fate EXCEPT ![job[t]] = outcome]

(* Where a thread goes with a request that may pass. *)
Passed(t) == IF t = udp THEN "handle" ELSE "length"

(* Both loops call check with the peer's address, and drop on false. *)
CheckStarts(t) ==
  /\ limited
  /\ up /\ pc[t] = "check"
  /\ Limiter!Call(t, Source[job[t]])
  /\ UNCHANGED <<served, peers, process>>

CheckPasses(t) ==
  /\ up /\ pc[t] = "check"
  /\ Limiter!NewWindow(t) \/ Limiter!Count(t)
  /\ Goto(t, Passed(t))
  /\ UNCHANGED <<backlog, inbox, job, fate, peers, process>>

CheckDrops(t) ==
  /\ up /\ pc[t] = "check"
  /\ Limiter!Drop(t)
  /\ End(t, "dropped")
  /\ UNCHANGED <<backlog, inbox, peers, process>>

FaultyCheckBypassed(t) ==
  /\ up /\ pc[t] = "check"
  /\ t = main
  /\ Goto(t, Passed(t))
  /\ UNCHANGED <<backlog, inbox, job, fate, peers, process, limiter>>

(* A disabled limiter returns true before it looks at clock and map. *)
CheckBypassed(t) ==
  /\ ~(limited /\ Limiter!IsEnabled)
  /\ up /\ pc[t] = "check"
  /\ Goto(t, Passed(t))
  /\ UNCHANGED <<backlog, inbox, job, fate, peers, process, limiter>>

FaultyReceive(d) ==
  /\ up /\ pc[udp] = "idle" /\ pc[main] = "idle"
  /\ d \in inbox
  /\ inbox' = inbox \ {d}
  /\ Begin(udp, d) /\ Goto(udp, "check")
  /\ UNCHANGED <<backlog, peers, process, limiter>>

(* recv_from.  Its errors are ignored: the loop turns with nothing changed. *)
Receive(d) ==
  /\ up /\ pc[udp] = "idle"
  /\ d \in inbox
  /\ inbox' = inbox \ {d}
  /\ Begin(udp, d) /\ Goto(udp, "check")
  /\ UNCHANGED <<backlog, peers, process, limiter>>

(* handle_query: an empty response is not sent, an error of send_to is     *)
(* logged, and the loop goes on.                                           *)
HandleDatagram ==
  /\ up /\ pc[udp] = "handle"
  /\ \/ End(udp, "discarded")
     \/ job[udp] \notin Malformed /\ End(udp, "answered")
  /\ UNCHANGED <<backlog, inbox, peers, process, limiter>>

(* incoming() yields a connection.  Its errors are logged: nothing changes. *)
Accept ==
  /\ up /\ pc[main] = "idle"
  /\ backlog # <<>>
  /\ backlog' = Tail(backlog)
  /\ Begin(main, Head(backlog)) /\ Goto(main, "peer")
  /\ UNCHANGED <<inbox, peers, process, limiter>>

(* main returns an error.  With the process go the UDP thread, whatever it *)
(* was doing, both sockets with all they held, and the limiter's memory.   *)
Exit ==
  /\ up' = FALSE
  /\ inbox' = {} /\ backlog' = <<>>
  /\ pc' = Start
  /\ job' = [t \in Thread |-> None]
  /\ fate' = [r \in Request |-> IF fate[r] = "asked" THEN "lost" ELSE fate[r]]
  /\ state' = [i \in {} |-> 0]
  /\ call' = [t \in Thread |-> Idle]
  /\ past' = [i \in Ip |-> Len(log[i])]
  /\ UNCHANGED <<limited, starts, peers, clock, log>>

(* peer_addr()? fails once the peer has reset the connection. *)
PeerAddr ==
  /\ up /\ pc[main] = "peer"
  /\ \/ Goto(main, "check") /\ UNCHANGED <<backlog, inbox, job, fate, peers, process, limiter>>
     \/ link[job[main]] = "reset" /\ Exit

(* read_exact waits, with no timeout, until the peer has sent enough. *)
Read(here, amount, next) ==
  /\ up /\ pc[main] = here
  /\ sent[job[main]] >= amount
  /\ Goto(main, next)
  /\ UNCHANGED <<backlog, inbox, job, fate, peers, process, limiter>>

ReadLength == Read("length", 1, "body")
ReadBody   == Read("body", 2, "reply length")

FaultyReadFails ==
  /\ up
  /\ pc[main] \in {"length", "body"} /\ sent[job[main]] < 2
  /\ link[job[main]] \in {"closed", "reset"}
  /\ Exit

FaultyReadWaits ==
  /\ up
  /\ pc[main] \in {"length", "body"} /\ sent[job[main]] < 1
  /\ link[job[main]] = "reset"
  /\ End(main, "discarded")
  /\ UNCHANGED <<backlog, inbox, peers, process, limiter>>

(* read_exact fails at the peer's FIN or reset: the connection is dropped. *)
ReadFails ==
  /\ up
  /\ \/ pc[main] = "length" /\ sent[job[main]] < 1
     \/ pc[main] = "body" /\ sent[job[main]] < 2
  /\ link[job[main]] \in {"closed", "reset"}
  /\ End(main, "discarded")
  /\ UNCHANGED <<backlog, inbox, peers, process, limiter>>

(* Writing to a connection the peer has reset fails; writing to one it has *)
(* only closed does not, but may make the peer reset it.  Two octets fit   *)
(* into the buffers, which nothing was written to before.                  *)
WriteLength ==
  /\ up /\ pc[main] = "reply length"
  /\ IF link[job[main]] = "reset"
     THEN Exit
     ELSE /\ Goto(main, "reply")
          /\ UNCHANGED <<backlog, inbox, job, fate, peers, process, limiter>>

(* An empty response was announced with length zero; writing it is a no-op. *)
(* An answer of up to 64K, for the query is echoed, may not fit into the   *)
(* buffers of both sides: then write_all waits, with no timeout.           *)
WriteReply ==
  /\ up /\ pc[main] = "reply"
  /\ IF job[main] \in Malformed
     THEN End(main, "discarded") /\ UNCHANGED <<backlog, inbox, peers, process, limiter>>
     ELSE IF link[job[main]] = "reset"
     THEN Exit
     ELSE \/ End(main, "answered") /\ UNCHANGED <<backlog, inbox, peers, process, limiter>>
          \/ /\ Goto(main, "blocked")
             /\ UNCHANGED <<backlog, inbox, job, fate, peers, process, limiter>>

(* write_all goes on as the peer reads.  A reset ends it with an error, and *)
(* so does the system when a peer that is gone acknowledges nothing.       *)
WriteRest ==
  /\ up /\ pc[main] = "blocked"
  /\ \/ link[job[main]] # "reset" /\ job[main] \in taken /\ End(main, "answered")
        /\ UNCHANGED <<backlog, inbox, peers, process, limiter>>
     \/ link[job[main]] \in {"reset", "gone"} /\ Exit

-----------------------------------------------------------------------------
Check(t) == CheckStarts(t) \/ CheckPasses(t) \/ CheckDrops(t) \/ CheckBypassed(t)

UdpThread == Check(udp) \/ HandleDatagram \/ \E d \in Datagram : Receive(d)

MainThread ==
  \/ Check(main)
  \/ Accept \/ PeerAddr
  \/ ReadLength \/ ReadBody \/ ReadFails
  \/ WriteLength \/ WriteReply \/ WriteRest

Environment ==
  \/ Tick \/ Restart
  \/ \E d \in Datagram : SendDatagram(d)
  \/ \E c \in Conn : Connect(c) \/ Write(c) \/ Close(c) \/ Reset(c) \/ Vanish(c) \/ Take(c)
  \/ \E r \in Request : Lose(r)

Next == Environment \/ UdpThread \/ MainThread

(* The operating system schedules both threads and the mutex is held for a *)
(* bounded time; the supervisor restarts what ended (compose.yaml:5,       *)
(* strace/deployment.yaml:76).  Nothing is assumed of the clients.         *)
Fairness == WF_vars(UdpThread) /\ WF_vars(MainThread) /\ WF_vars(Restart)

Spec == Init /\ [][Next]_vars /\ Fairness

-----------------------------------------------------------------------------
Place == {"idle", "check", "handle", "peer", "length", "body", "reply length", "reply", "blocked"}
Link  == {"open", "closed", "reset", "gone"}
Fate  == {"unasked", "asked", "lost", "dropped", "discarded", "answered"}

(* The values the variables range over; a thread has a request exactly     *)
(* while it is not idle, and that request has no outcome yet.              *)
TypeOK ==
  /\ limited \in Limited /\ starts \in Nat /\ up \in BOOLEAN
  /\ inbox \subseteq Datagram
  /\ backlog \in Seq(Conn)
  /\ sent \in [Conn -> 0..2]
  /\ link \in [Conn -> Link]
  /\ taken \subseteq Conn
  /\ past \in [Ip -> Nat]
  /\ pc \in [Thread -> Place]
  /\ job \in [Thread -> Request \cup {None}]
  /\ fate \in [Request -> Fate]
  /\ \A t \in Thread : pc[t] = "idle" <=> job[t] = None
  /\ \A t \in Thread : pc[t] # "idle" => fate[job[t]] = "asked"
  /\ Limiter!TypeOK

(* r has passed the limiter. *)
Granted(r) == \E t \in Thread : job[t] = r /\ pc[t] \notin {"peer", "check"}

(* The quota is one for both transports: until the first window ends, a    *)
(* client gets at most MaxRequests requests past the limiter over UDP and  *)
(* TCP together, times the number of processes the supervisor had to start. *)
QuotaIsShared ==
  limited /\ clock < Window =>
    \A i \in Ip :
      Cardinality({r \in Request : /\ Source[r] = i
                                   /\ Granted(r) \/ fate[r] \in {"answered", "discarded"}})
        <= starts * MaxRequests

(* A request is dropped only by an enabled limiter, and only when the very  *)
(* address it comes from was admitted a full quota by this process, over   *)
(* both transports together, in the window that ends at the request's      *)
(* stamp or since: neither what other addresses did nor what an earlier    *)
(* process counted is held against it.                                     *)
DropsAreDeserved ==
  [][\A t \in Thread :
       pc[t] = "check" /\ fate'[job[t]] = "dropped" =>
         LET history == log[Source[job[t]]] IN
         /\ limited
         /\ Len(history) >= past[Source[job[t]]] + MaxRequests
         /\ history[Len(history) - MaxRequests + 1] + Window > call[t].now]_vars

(* Only a TCP peer that resets its connection, or vanishes while main waits *)
(* to write to it, ends the process: no UDP query, no peer that closes     *)
(* early, stays silent or sends garbage does.                              *)
OutageNeedsLostPeer == up \/ \E c \in Conn : link[c] \in {"reset", "gone"}

(* main waits for a peer that does not send what is missing. *)
StalledInRead ==
  /\ pc[main] \in {"length", "body"}
  /\ link[job[main]] \in {"open", "gone"}
  /\ sent[job[main]] < (IF pc[main] = "length" THEN 1 ELSE 2)

(* main waits for a peer that is there and does not read. *)
StalledInWrite ==
  /\ pc[main] = "blocked"
  /\ link[job[main]] \in {"open", "closed"}
  /\ job[main] \notin taken

(* The only things that ever keep TCP clients waiting for good are a peer  *)
(* that does not send what it announced, alive or not, and one that is     *)
(* alive and does not read a long answer.  Neither read_exact nor write_all *)
(* has a timeout.                                                          *)
TcpProgress ==
  \/ <>[]StalledInRead
  \/ <>[]StalledInWrite
  \/ \A c \in Conn : fate[c] = "asked" ~> fate[c] # "asked"

(* Each request has at most one outcome, an outage loses what was waiting  *)
(* and nothing else, and no TCP peer delays a UDP query for good.          *)
Promise ==
  INSTANCE Service WITH
    Prompt <- Datagram,
    status <- [r \in Request |->
                 IF fate[r] # "asked" THEN fate[r]
                 ELSE IF Granted(r) THEN "granted" ELSE "queued"]
ImplementsService == Promise!Spec
=============================================================================
