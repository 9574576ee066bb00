------------------------------ MODULE Service ------------------------------
(***************************************************************************)
(* What the server promises its clients, with none of its sockets, threads *)
(* and buckets: a request that reaches it is granted or dropped, once; a   *)
(* granted one is answered or discarded, once; an outage loses what was    *)
(* waiting, all of it at once, and ends.                                   *)
(***************************************************************************)
CONSTANTS
  Request,  \* the requests clients may make, each at most once
  Prompt    \* those that no silent peer can delay: the UDP queries

VARIABLES
  up,       \* the service is running
  status    \* per request: how far it got

vars == <<up, status>>

Waiting == {"queued", "granted"}

Init ==
  /\ up = TRUE
  /\ status = [r \in Request |-> "unasked"]

Move(r, from, to) ==
  /\ status[r] = from
  /\ status' = [status EXCEPT ![r] = to]
  /\ UNCHANGED up

Ask(r)     == up /\ Move(r, "unasked", "queued")
Lose(r)    == Move(r, "unasked", "lost")
Grant(r)   == up /\ Move(r, "queued", "granted")
Drop(r)    == up /\ Move(r, "queued", "dropped")
Answer(r)  == up /\ Move(r, "granted", "answered")
Discard(r) == up /\ Move(r, "granted", "discarded")

Outage ==
  /\ up
  /\ up' = FALSE
  /\ status' = [r \in Request |-> IF status[r] \in Waiting THEN "lost" ELSE status[r]]

Recover ==
  /\ ~up
  /\ up' = TRUE
  /\ UNCHANGED status

Next ==
  \/ Outage
  \/ Recover
  \/ \E r \in Request : Ask(r) \/ Lose(r) \/ Grant(r) \/ Drop(r) \/ Answer(r) \/ Discard(r)

Fairness ==
  /\ WF_vars(Recover)
  /\ \A r \in Prompt : WF_vars(Grant(r) \/ Drop(r)) /\ WF_vars(Answer(r) \/ Discard(r))

Spec == Init /\ [][Next]_vars /\ Fairness
=============================================================================
