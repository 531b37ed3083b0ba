---------------------------- MODULE MutationQueue ----------------------------
(***************************************************************************)
(* The debounced priority queue between the admission handlers and the     *)
(* mutator (internal/webhook/queue.go), with the part of the handlers that *)
(* chooses a request's priority (internal/webhook/handler.go).             *)
(*                                                                         *)
(* Every call of EnqueueFunc creates one time.AfterFunc timer, and a timer *)
(* starts at most one goroutine running processBatch, so a timer and its   *)
(* goroutine are named by the request whose handler created them.  A step  *)
(* is one critical section of q.mu, or a stretch of code that touches      *)
(* nothing shared.                                                         *)
(***************************************************************************)
EXTENDS Naturals, Sequences, Functions

CONSTANTS
  Request,           \* the admission requests (one per EnqueueFunc call)
  PairCount,         \* extractGPUNICPairCount of each request's pod
  InterceptedCount,  \* countInterceptedGPUs of each request's pod
  NoTimer            \* a nil q.timer

ASSUME CountsAssumption ==
  /\ PairCount \in [Request -> Nat]
  /\ InterceptedCount \in [Request -> Nat]

ASSUME NoTimerAssumption == NoTimer \notin Request

VARIABLES
  handler,     \* the request's handler goroutine
  resultCh,    \* the requests whose result channel holds a result
  batch,       \* q.batch
  timer,       \* q.timer
  processing,  \* q.processing
  pc,          \* the timer created for the request, then its goroutine
  local        \* what remains of the batch a goroutine has drained

vars == <<handler, resultCh, batch, timer, processing, pc, local>>

(***************************************************************************)
(* "none" no timer yet; "armed" the timer runs; "fired" the goroutine is   *)
(* started and has not taken q.mu; "loop" at the top of the for loop;      *)
(* "work" about to call mutateFn for the head of its local batch; "mutate" *)
(* inside mutateFn; "done" returned, or stopped before it fired.           *)
(***************************************************************************)
PCs == {"none", "armed", "fired", "loop", "work", "mutate", "done"}

Handlers == {"idle", "waiting", "answered"}

\* The priority under which handleAdmission enqueues a pod; 0 bypasses the queue.
Count(r) ==
  IF PairCount[r] > 0 THEN PairCount[r] ELSE InterceptedCount[r]

Init ==
  /\ handler = [r \in Request |-> "idle"]
  /\ resultCh = {}
  /\ batch = <<>>
  /\ timer = NoTimer
  /\ processing = FALSE
  /\ pc = [r \in Request |-> "none"]
  /\ local = [r \in Request |-> <<>>]

-----------------------------------------------------------------------------

(***************************************************************************)
(* A pod with neither kind of request is handed to Mutate by its handler,  *)
(* which returns before it touches anything shared.                        *)
(***************************************************************************)
HandleDirect(r) ==
  /\ handler[r] = "idle"
  /\ Count(r) = 0
  /\ handler' = [handler EXCEPT ![r] = "answered"]
  /\ UNCHANGED <<resultCh, batch, timer, processing, pc, local>>

(***************************************************************************)
(* Timer.Stop prevents a timer that has not fired from firing, and does    *)
(* nothing to one whose goroutine has been started.                        *)
(***************************************************************************)
Stop(t) == [pc EXCEPT ![t] = IF @ = "armed" THEN "done" ELSE @]

EnqueueFunc(r) ==
  /\ handler[r] = "idle"
  /\ Count(r) > 0
  /\ handler' = [handler EXCEPT ![r] = "waiting"]
  /\ batch' = Append(batch, r)
  /\ pc' = [(IF timer = NoTimer THEN pc ELSE Stop(timer)) EXCEPT ![r] = "armed"]
  /\ timer' = r
  /\ UNCHANGED <<resultCh, processing, local>>

\* The debounce window of timer t elapses and its goroutine is started.
Fire(t) ==
  /\ pc[t] = "armed"
  /\ pc' = [pc EXCEPT ![t] = "fired"]
  /\ UNCHANGED <<handler, resultCh, batch, timer, processing, local>>

\* Faulty variant of Begin: q.processing is not looked at.
BeginUnguarded(g) ==
  /\ pc[g] = "fired"
  /\ pc' = [pc EXCEPT ![g] = "loop"]
  /\ processing' = TRUE
  /\ UNCHANGED <<handler, resultCh, batch, timer, local>>

\* The first critical section of processBatch.
Begin(g) ==
  /\ pc[g] = "fired"
  /\ pc' = [pc EXCEPT ![g] = IF processing THEN "done" ELSE "loop"]
  /\ processing' = TRUE
  /\ UNCHANGED <<handler, resultCh, batch, timer, local>>

\* Faulty variant of Sorts: the comparison of sort.Slice is reversed.
SortsAscending(b) ==
  { s \in { [i \in DOMAIN b |-> b[p[i]]] : p \in Bijection(DOMAIN b, DOMAIN b) } :
      \A i, j \in DOMAIN b : i < j => Count(s[i]) <= Count(s[j]) }

(***************************************************************************)
(* The results sort.Slice may leave: the permutations of b in descending   *)
(* order of count.  The sort is not stable.                                *)
(***************************************************************************)
Sorts(b) ==
  { s \in { [i \in DOMAIN b |-> b[p[i]]] : p \in Bijection(DOMAIN b, DOMAIN b) } :
      \A i, j \in DOMAIN b : i < j => Count(s[i]) >= Count(s[j]) }

\* Faulty variant of Leave: one batch is processed and no second look is taken.
LeaveAfterOneBatch(g) ==
  /\ pc[g] = "loop"
  /\ processing' = FALSE
  /\ timer' = NoTimer
  /\ pc' = [pc EXCEPT ![g] = "done"]
  /\ UNCHANGED <<handler, resultCh, batch, local>>

\* Faulty variant of Leave: q.processing stays set.
LeaveProcessingSet(g) ==
  /\ pc[g] = "loop"
  /\ batch = <<>>
  /\ timer' = NoTimer
  /\ pc' = [pc EXCEPT ![g] = "done"]
  /\ UNCHANGED <<handler, resultCh, batch, processing, local>>

\* The critical section of the loop that finds nothing left and returns.
Leave(g) ==
  /\ pc[g] = "loop"
  /\ batch = <<>>
  /\ processing' = FALSE
  /\ timer' = NoTimer
  /\ pc' = [pc EXCEPT ![g] = "done"]
  /\ UNCHANGED <<handler, resultCh, batch, local>>

\* Faulty variant of Drain: q.batch is not reset.
DrainKeepingBatch(g) ==
  /\ pc[g] = "loop"
  /\ batch # <<>>
  /\ \E s \in Sorts(batch) : local' = [local EXCEPT ![g] = s]
  /\ pc' = [pc EXCEPT ![g] = "work"]
  /\ UNCHANGED <<handler, resultCh, batch, timer, processing>>

\* The critical section of the loop that drains q.batch, and the sort after it.
Drain(g) ==
  /\ pc[g] = "loop"
  /\ batch # <<>>
  /\ \E s \in Sorts(batch) : local' = [local EXCEPT ![g] = s]
  /\ batch' = <<>>
  /\ pc' = [pc EXCEPT ![g] = "work"]
  /\ UNCHANGED <<handler, resultCh, timer, processing>>

\* The call of mutateFn for the next request of the drained batch.
StartMutate(g) ==
  /\ pc[g] = "work"
  /\ pc' = [pc EXCEPT ![g] = "mutate"]
  /\ UNCHANGED <<handler, resultCh, batch, timer, processing, local>>

\* Faulty variant of SendResult: one iteration too many over the batch.
SendResultOneMore(g) ==
  /\ pc[g] = "mutate"
  /\ Head(local[g]) \notin resultCh
  /\ resultCh' = resultCh \union {Head(local[g])}
  /\ local' = [local EXCEPT ![g] = Tail(@)]
  /\ pc' = [pc EXCEPT ![g] = "work"]
  /\ UNCHANGED <<handler, batch, timer, processing>>

(***************************************************************************)
(* mutateFn returns and its result is sent on the request's channel, whose *)
(* buffer of one makes the send block only if a result is already there.   *)
(***************************************************************************)
SendResult(g) ==
  /\ pc[g] = "mutate"
  /\ Head(local[g]) \notin resultCh
  /\ resultCh' = resultCh \union {Head(local[g])}
  /\ local' = [local EXCEPT ![g] = Tail(@)]
  /\ pc' = [pc EXCEPT ![g] = IF Tail(local[g]) = <<>> THEN "loop" ELSE "work"]
  /\ UNCHANGED <<handler, batch, timer, processing>>

\* The handler receives its result and writes the admission response.
Receive(r) ==
  /\ handler[r] = "waiting"
  /\ r \in resultCh
  /\ handler' = [handler EXCEPT ![r] = "answered"]
  /\ resultCh' = resultCh \ {r}
  /\ UNCHANGED <<batch, timer, processing, pc, local>>

Step(r) ==
  \/ HandleDirect(r) \/ EnqueueFunc(r) \/ Receive(r)
  \/ Fire(r) \/ Begin(r) \/ Leave(r) \/ Drain(r)
  \/ StartMutate(r) \/ SendResult(r)

\* Every request that was made is answered and no timer is left: the queue rests.
Rest ==
  /\ \A r \in Request : handler[r] = "answered" /\ pc[r] \in {"none", "done"}
  /\ UNCHANGED vars

Next == Rest \/ \E r \in Request : Step(r)

Spec == Init /\ [][Next]_vars

(***************************************************************************)
(* The Go runtime fires timers and runs goroutines that are ready, and     *)
(* mutateFn returns: its Kubernetes calls end with the request's context.  *)
(* Requests need not arrive, so HandleDirect and EnqueueFunc have no       *)
(* fairness.                                                               *)
(***************************************************************************)
Fairness ==
  \A r \in Request :
    /\ WF_vars(Fire(r)) /\ WF_vars(Begin(r))
    /\ WF_vars(Leave(r)) /\ WF_vars(Drain(r))
    /\ WF_vars(StartMutate(r)) /\ WF_vars(SendResult(r))
    /\ WF_vars(Receive(r))

FairSpec == Spec /\ Fairness
-----------------------------------------------------------------------------

(***************************************************************************)
(* Types, and what a goroutine's program counter says of its local batch:  *)
(* the range loop of processBatch is inside its body exactly while some of *)
(* the drained requests remain.                                            *)
(***************************************************************************)
TypeOK ==
  /\ handler \in [Request -> Handlers]
  /\ resultCh \in SUBSET Request
  /\ batch \in Seq(Request)
  /\ timer \in Request \union {NoTimer}
  /\ processing \in BOOLEAN
  /\ pc \in [Request -> PCs]
  /\ local \in [Request -> Seq(Request)]
  /\ \A g \in Request : pc[g] \in {"work", "mutate"} <=> local[g] # <<>>

(***************************************************************************)
(* "processed serially" (queue.go, MutationQueue): two goroutines started  *)
(* by two timers are never inside mutateFn together, so an allocation sees *)
(* the reservations of the ones before it.                                 *)
(***************************************************************************)
SerialMutation ==
  \A g, h \in Request : pc[g] = "mutate" /\ pc[h] = "mutate" => g = h

(***************************************************************************)
(* A request is never stranded: while q.batch holds something and nobody   *)
(* is processing, some timer is armed or has started a goroutine that will *)
(* look at the batch - although EnqueueFunc stops timers, processBatch     *)
(* returns at once while another one runs, and drops q.timer when it ends. *)
(***************************************************************************)
NoStrandedRequest ==
  batch # <<>> /\ ~processing => \E t \in Request : pc[t] \in {"armed", "fired"}

\* The requests some goroutine has drained and not yet answered.
Drained == UNION { Range(local[g]) : g \in Request }

(***************************************************************************)
(* Every blocked handler's request is in exactly one place, exactly once:  *)
(* in q.batch, in the batch one goroutine has drained, or answered in its  *)
(* channel.  So no request is lost, none is mutated twice, and the send on *)
(* the one-place channel never blocks the goroutine that serves the rest.  *)
(***************************************************************************)
HeldOnce ==
  /\ \A r \in Request :
        handler[r] = "waiting" <=> r \in Range(batch) \union Drained \union resultCh
  /\ Range(batch) \intersect Drained = {}
  /\ (Range(batch) \union Drained) \intersect resultCh = {}
  /\ IsInjective(batch)
  /\ \A g \in Request : IsInjective(local[g])
  /\ \A g, h \in Request : g # h => Range(local[g]) \intersect Range(local[h]) = {}

(***************************************************************************)
(* The strengthening under which the invariants above are inductive.       *)
(***************************************************************************)
Draining == {"loop", "work", "mutate"}

\* q.processing belongs to the one goroutine that is in the loop.
OneDrainer ==
  /\ \A g \in Request : pc[g] \in Draining => processing
  /\ \A g, h \in Request : pc[g] \in Draining /\ pc[h] \in Draining => g = h

\* The timer of the latest request in an unattended batch is not stopped.
LatestTimerPending ==
  batch # <<>> /\ ~processing => pc[batch[Len(batch)]] \in {"armed", "fired"}

\* A request has a timer only once it is enqueued.
IdleHasNoTimer == \A r \in Request : handler[r] = "idle" => pc[r] = "none"

\* What remains of a drained batch is in descending order of count.
DrainedInOrder ==
  \A g \in Request : \A i, j \in DOMAIN local[g] :
    i < j => Count(local[g][i]) >= Count(local[g][j])

\* Only pods that ask for something wait in the queue.
WaitingHasPriority == \A r \in Request : handler[r] = "waiting" => Count(r) > 0

IInv == TypeOK /\ OneDrainer /\ LatestTimerPending /\ IdleHasNoTimer /\ HeldOnce

\* The requests inside mutateFn; SerialMutation makes this at most one.
Mutating == { Head(local[g]) : g \in { h \in Request : pc[h] = "mutate" } }

(***************************************************************************)
(* The promise of SerialBatches, through this mapping: q.batch is what is  *)
(* collected, the drained requests not yet started are the closed batch,   *)
(* the request inside mutateFn is running.                                 *)
(***************************************************************************)
Closed == Drained \ Mutating

Running == IF Mutating = {} THEN NoTimer ELSE CHOOSE r \in Mutating : TRUE

Finished ==
  { r \in Request : Count(r) > 0 /\ (handler[r] = "answered" \/ r \in resultCh) }

Promise == INSTANCE SerialBatches WITH
  Count <- Count, Nobody <- NoTimer, collected <- Range(batch),
  closed <- Closed, running <- Running, finished <- Finished

(***************************************************************************)
(* The queue implements SerialBatches: batches are closed as a whole and   *)
(* never overlap, requests of a batch are mutated one at a time with the   *)
(* largest count first, each exactly once (queue.go, MutationQueue).       *)
(***************************************************************************)
ImplementsSerialBatches == Promise!Spec

(***************************************************************************)
(* A handler blocked in EnqueueFunc is eventually answered, whatever the   *)
(* order in which timers fire, are stopped too late or find the queue busy.*)
(***************************************************************************)
EveryRequestAnswered ==
  \A r \in Request : handler[r] = "waiting" ~> handler[r] = "answered"
=============================================================================
