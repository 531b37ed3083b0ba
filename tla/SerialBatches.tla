---------------------------- MODULE SerialBatches ----------------------------
(***************************************************************************)
(* What the mutation queue promises to the admission handlers and to the   *)
(* allocator, without timers, goroutines or locks: submitted requests are  *)
(* collected, a whole collection is closed at once, and the requests of a  *)
(* closed collection run one at a time, largest count first.  No other     *)
(* collection is closed before the previous one is finished, and nothing   *)
(* submitted is lost or run twice.                                         *)
(***************************************************************************)
EXTENDS Naturals

CONSTANTS Request,     \* the requests that are ever submitted
          Count(_),    \* the priority of a request
          Nobody       \* no request is running

VARIABLES collected,   \* submitted, not in a closed batch yet
          closed,      \* in the closed batch, not started yet
          running,     \* the request being mutated, or Nobody
          finished     \* the requests whose mutation has returned

vars == <<collected, closed, running, finished>>

Init ==
  /\ collected = {}
  /\ closed = {}
  /\ running = Nobody
  /\ finished = {}

Submit(r) ==
  /\ r \notin collected \union closed \union finished
  /\ r # running
  /\ collected' = collected \union {r}
  /\ UNCHANGED <<closed, running, finished>>

Close ==
  /\ collected # {}
  /\ closed = {}
  /\ running = Nobody
  /\ closed' = collected
  /\ collected' = {}
  /\ UNCHANGED <<running, finished>>

Start(r) ==
  /\ running = Nobody
  /\ r \in closed
  /\ \A s \in closed : Count(r) >= Count(s)
  /\ running' = r
  /\ closed' = closed \ {r}
  /\ UNCHANGED <<collected, finished>>

Finish ==
  /\ running # Nobody
  /\ finished' = finished \union {running}
  /\ running' = Nobody
  /\ UNCHANGED <<collected, closed>>

Next ==
  \/ \E r \in Request : Submit(r) \/ Start(r)
  \/ Close
  \/ Finish

Spec == Init /\ [][Next]_vars
=============================================================================
