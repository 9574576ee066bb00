------------------------------- MODULE Quota -------------------------------
(***************************************************************************)
(* What the rate limiter promises the operator of the server, with none of *)
(* its buckets, stamps and threads: at any time a client may be admitted,  *)
(* unless Burst of its requests were admitted within the last window.      *)
(***************************************************************************)
EXTENDS Naturals, Sequences

CONSTANTS
  Client,  \* the clients observed
  Window,  \* length of the window in ticks
  Burst    \* admissions of one client that fit in less than a window

VARIABLES
  clock,   \* time
  log      \* per client, the times of its admissions

vars == <<clock, log>>

Init ==
  /\ clock = 0
  /\ log = [i \in Client |-> <<>>]

Tick ==
  /\ clock' = clock + 1
  /\ UNCHANGED log

Admit(i) ==
  /\ Len(log[i]) >= Burst => clock >= log[i][Len(log[i]) - Burst + 1] + Window
  /\ log' = [log EXCEPT ![i] = Append(@, clock)]
  /\ UNCHANGED clock

Next == Tick \/ \E i \in Client : Admit(i)

Spec == Init /\ [][Next]_vars
=============================================================================
