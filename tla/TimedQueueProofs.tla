--------------------------- MODULE TimedQueueProofs ---------------------------
(***************************************************************************)
(* The debounce bound of the queue, for every window, set of requests and  *)
(* count; and that the clock adds no behaviour to MutationQueue.           *)
(***************************************************************************)
EXTENDS TimedQueue, MutationQueueProofs

-----------------------------------------------------------------------------
(***************************************************************************)
(* The untimed queue.                                                      *)
(***************************************************************************)

\* A step of the timed queue is a step of the queue, or of the clock alone.
LEMMA TimedNextImplementsNext == [TimedNext]_timedVars => [Next]_vars
<1>. SUFFICES ASSUME [TimedNext]_timedVars PROVE [Next]_vars
  OBVIOUS
<1>1. CASE UNCHANGED timedVars
  BY <1>1 DEF timedVars
<1>2. CASE Rest /\ UNCHANGED <<window, waited>>
  BY <1>2 DEF Next
<1>3. CASE Tick
  BY <1>3 DEF Tick
<1>4. ASSUME NEW r \in Request, TimedEnqueue(r) \/ TimedFire(r) \/ TimedDrain(r) \/ Untimed(r)
      PROVE  Next
  BY <1>4 DEF TimedEnqueue, TimedFire, TimedDrain, Untimed, Next, Step
<1>. QED
  BY <1>1, <1>2, <1>3, <1>4 DEF TimedNext

\* TimedQueue implements MutationQueue: timers with a length allow nothing that
\* timers without one do not, so that all theorems about the queue hold.
THEOREM TimedImplementsQueue == TimedSpec => Spec
<1>1. TimedInit => Init
  BY DEF TimedInit
<1>. QED
  BY <1>1, TimedNextImplementsNext, PTL DEF TimedSpec, Spec

-----------------------------------------------------------------------------
(***************************************************************************)
(* The inductive invariant.                                                *)
(***************************************************************************)

\* Nothing has waited and no window is open at the start.
LEMMA InitTimedIInv == TimedInit => TimedIInv
<1>. SUFFICES ASSUME TimedInit PROVE TimedIInv
  OBVIOUS
<1>1. DOMAIN batch = {}
  BY EmptySeq DEF TimedInit, Init
<1>. QED
  BY <1>1 DEF TimedInit, TimedIInv, TimedTypeOK, WaitedInBatch, WindowCovered

\* Steps that change neither clock nor batch, and start nothing but processing.
LEMMA UntimedTimedIInv ==
  ASSUME TimedIInv, UNCHANGED <<batch, window, waited>>, processing => processing' \/ batch = <<>>
  PROVE  TimedIInv'
<1>1. TimedTypeOK' /\ WaitedInBatch'
  BY DEF TimedIInv, TimedTypeOK, WaitedInBatch
<1>2. DOMAIN <<>> = {}
  OBVIOUS
<1>3. WindowCovered'
  BY <1>2 DEF TimedIInv, WindowCovered
<1>. QED
  BY <1>1, <1>3 DEF TimedIInv

\* A request brings a new window, and one more for each that waits already.
LEMMA EnqueueTimedIInv ==
  ASSUME IInv, TimedIInv, NEW r \in Request, TimedEnqueue(r)
  PROVE  TimedIInv'
<1>. DEFINE n == Len(batch)
<1>1. /\ batch \in Seq(Request) /\ n \in Nat /\ DOMAIN batch = 1 .. n
      /\ Debounce \in Nat
      /\ window \in [Request -> Nat] /\ waited \in [Request -> Nat]
  BY LenProperties, DebounceAssumption DEF IInv, TypeOK, TimedIInv, TimedTypeOK
<1>2. EnqueueFunc(r) /\ UNCHANGED <<waited, processing>> /\ batch' = Append(batch, r)
  BY DEF TimedEnqueue, EnqueueFunc
<1>3. r \notin Range(batch)
  BY <1>2 DEF IInv, HeldOnce, EnqueueFunc
<1>4. /\ batch' \in Seq(Request) /\ Range(batch') = Range(batch) \union {r}
      /\ Len(batch') = n + 1 /\ DOMAIN batch' = 1 .. (n + 1)
      /\ \A i \in 1 .. n : batch'[i] = batch[i]
      /\ batch'[n + 1] = r
  BY <1>1, <1>2, AppendRange, AppendProperties, LenProperties
<1>5. window' \in [Request -> Nat] /\ window'[r] = Debounce
  BY <1>1 DEF TimedEnqueue, Window
<1>6. TimedTypeOK'
  BY <1>1, <1>2, <1>5 DEF TimedTypeOK
<1>7. WaitedInBatch'
  BY <1>2, <1>4 DEF TimedIInv, WaitedInBatch
<1>8. WindowCovered'
  <2>. SUFFICES ASSUME ~processing, NEW i \in 1 .. (n + 1)
                PROVE  waited[batch'[i]] + Debounce <= Debounce * ((n + 1) - i + 1)
    BY <1>2, <1>4, <1>5 DEF WindowCovered
  <2>1. CASE i = n + 1
    <3>1. waited[r] = 0
      BY <1>3 DEF TimedIInv, WaitedInBatch
    <3>. QED
      BY <2>1, <3>1, <1>1, <1>4
  <2>2. CASE i \in 1 .. n
    <3>1. waited[batch[i]] + window[batch[n]] <= Debounce * (n - i + 1)
      BY <2>2, <1>1 DEF TimedIInv, WindowCovered
    <3>2. /\ batch[i] \in Request /\ batch[n] \in Request
          /\ waited[batch[i]] \in Nat /\ window[batch[n]] \in Nat
      BY <2>2, <1>1, ElementOfSeq
    <3>3. Debounce * ((n + 1) - i + 1) = Debounce * (n - i + 1) + Debounce
      BY <1>1
    <3>4. Debounce * (n - i + 1) \in Int
      BY <1>1
    <3>. QED
      BY <2>2, <1>1, <1>4, <3>1, <3>2, <3>3, <3>4
  <2>. QED
    BY <2>1, <2>2, <1>1
<1>. QED
  BY <1>6, <1>7, <1>8 DEF TimedIInv

\* What a tick adds to the waiting it takes from the latest window.
LEMMA TickTimedIInv ==
  ASSUME IInv, TimedIInv, Tick
  PROVE  TimedIInv'
<1>. DEFINE n == Len(batch)
<1>1. /\ batch \in Seq(Request) /\ n \in Nat /\ DOMAIN batch = 1 .. n
      /\ Debounce \in Nat
      /\ window \in [Request -> Nat] /\ waited \in [Request -> Nat]
  BY LenProperties, DebounceAssumption DEF IInv, TypeOK, TimedIInv, TimedTypeOK
<1>2. UNCHANGED <<batch, processing, pc>>
  BY DEF Tick, vars
<1>3. TimedTypeOK'
  BY <1>1 DEF Tick, TimedTypeOK
<1>4. WaitedInBatch'
  BY <1>1, <1>2 DEF Tick, TimedIInv, WaitedInBatch
<1>5. WindowCovered'
  <2>. SUFFICES ASSUME ~processing, NEW i \in 1 .. n
                PROVE  waited'[batch[i]] + window'[batch[n]] <= Debounce * (n - i + 1)
    BY <1>1, <1>2 DEF WindowCovered
  <2>1. waited[batch[i]] + window[batch[n]] <= Debounce * (n - i + 1)
    BY <1>1 DEF TimedIInv, WindowCovered
  <2>2. /\ batch[i] \in Request /\ batch[n] \in Request
        /\ waited[batch[i]] \in Nat /\ window[batch[n]] \in Nat
        /\ Debounce * (n - i + 1) \in Int
    BY <1>1, ElementOfSeq
  <2>3. /\ window'[batch[n]] = IF window[batch[n]] > 0 THEN window[batch[n]] - 1 ELSE 0
        /\ waited'[batch[i]] \in {waited[batch[i]], waited[batch[i]] + 1}
    BY <2>2 DEF Tick
  <2>4. CASE Debouncing
    <3>1. batch # <<>>
      BY <1>1, EmptySeq
    <3>2. pc[batch[n]] = "armed"
      BY <2>2, <2>4, <3>1 DEF IInv, LatestTimerPending, Debouncing
    <3>3. window[batch[n]] > 0
      BY <2>2, <2>4, <3>2 DEF Debouncing, Armed
    <3>. QED
      BY <2>1, <2>2, <2>3, <3>3
  <2>5. CASE ~Debouncing
    <3>1. waited'[batch[i]] = waited[batch[i]]
      BY <2>2, <2>5 DEF Tick
    <3>. QED
      BY <2>1, <2>2, <2>3, <3>1
  <2>. QED
    BY <2>4, <2>5
<1>. QED
  BY <1>3, <1>4, <1>5 DEF TimedIInv

\* A drained batch takes its waiting with it; somebody is processing.
LEMMA DrainTimedIInv ==
  ASSUME IInv, TimedIInv, NEW g \in Request, TimedDrain(g)
  PROVE  TimedIInv'
<1>1. batch' = <<>> /\ waited' = [r \in Request |-> 0] /\ window' = window
  BY DEF TimedDrain, Drain
<1>2. DOMAIN <<>> = {}
  OBVIOUS
<1>. QED
  BY <1>1, <1>2 DEF TimedIInv, TimedTypeOK, WaitedInBatch, WindowCovered

LEMMA NextTimedIInv == IInv /\ TimedIInv /\ [TimedNext]_timedVars => TimedIInv'
<1>. SUFFICES ASSUME IInv, TimedIInv, [TimedNext]_timedVars PROVE TimedIInv'
  OBVIOUS
<1>1. CASE UNCHANGED timedVars \/ (Rest /\ UNCHANGED <<window, waited>>)
  BY <1>1, UntimedTimedIInv DEF timedVars, vars, Rest
<1>2. CASE Tick
  BY <1>2, TickTimedIInv
<1>3. ASSUME NEW r \in Request, TimedEnqueue(r) PROVE TimedIInv'
  BY <1>3, EnqueueTimedIInv
<1>4. ASSUME NEW t \in Request, TimedFire(t) PROVE TimedIInv'
  BY <1>4, UntimedTimedIInv DEF TimedFire, Fire
<1>5. ASSUME NEW g \in Request, TimedDrain(g) PROVE TimedIInv'
  BY <1>5, DrainTimedIInv
<1>6. ASSUME NEW r \in Request, Untimed(r) PROVE TimedIInv'
  BY <1>6, UntimedTimedIInv
  DEF Untimed, HandleDirect, Receive, Begin, Leave, StartMutate, SendResult
<1>. QED
  BY <1>1, <1>2, <1>3, <1>4, <1>5, <1>6 DEF TimedNext

\* The bound follows from the stronger one, as windows are not negative.
LEMMA CoveredIsBound == IInv /\ TimedIInv => BatchClosedInTime
<1>. SUFFICES ASSUME IInv, TimedIInv, ~processing, NEW i \in DOMAIN batch
              PROVE  waited[batch[i]] <= Debounce * (Len(batch) - i + 1)
  BY DEF BatchClosedInTime
<1>1. /\ batch \in Seq(Request) /\ Len(batch) \in Nat /\ i \in 1 .. Len(batch)
      /\ Debounce \in Nat
      /\ window \in [Request -> Nat] /\ waited \in [Request -> Nat]
  BY LenProperties, DebounceAssumption DEF IInv, TypeOK, TimedIInv, TimedTypeOK
<1>2. batch[i] \in Request /\ batch[Len(batch)] \in Request
  BY <1>1, ElementOfSeq
<1>3. waited[batch[i]] + window[batch[Len(batch)]] <= Debounce * (Len(batch) - i + 1)
  BY DEF TimedIInv, WindowCovered
<1>4. /\ waited[batch[i]] \in Nat /\ window[batch[Len(batch)]] \in Nat
      /\ Debounce * (Len(batch) - i + 1) \in Int
  BY <1>1, <1>2
<1>. QED
  BY <1>3, <1>4

(***************************************************************************)
(* The debounce holds a request up for one window and one more for each    *)
(* request that comes after it, and no longer, however timers are stopped, *)
(* fire late or are left armed by processBatch (EnqueueFunc).              *)
(***************************************************************************)
THEOREM QueueBatchClosedInTime == TimedSpec => []BatchClosedInTime
<1>1. TimedInit => TimedIInv
  BY InitTimedIInv
<1>2. IInv /\ TimedIInv /\ [TimedNext]_timedVars => TimedIInv'
  BY NextTimedIInv
<1>3. TimedSpec => []IInv
  BY TimedImplementsQueue, QueueIInv, PTL
<1>4. IInv /\ TimedIInv => BatchClosedInTime
  BY CoveredIsBound
<1>. QED
  BY <1>1, <1>2, <1>3, <1>4, PTL DEF TimedSpec
=============================================================================
