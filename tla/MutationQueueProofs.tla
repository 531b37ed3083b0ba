------------------------- MODULE MutationQueueProofs -------------------------
(***************************************************************************)
(* Safety of the mutation queue for every set of requests and all counts.  *)
(***************************************************************************)
EXTENDS MutationQueue, SequenceTheorems, TLAPS

-----------------------------------------------------------------------------
(***************************************************************************)
(* Facts about sequences of requests.                                      *)
(***************************************************************************)

\* Appending a request to q.batch adds it, and only it, to the range.
LEMMA AppendRange ==
  ASSUME NEW b \in Seq(Request), NEW r \in Request
  PROVE  /\ Append(b, r) \in Seq(Request)
         /\ Range(Append(b, r)) = Range(b) \union {r}
         /\ r \notin Range(b) /\ IsInjective(b) => IsInjective(Append(b, r))
         /\ Append(b, r) # <<>>
         /\ Append(b, r)[Len(Append(b, r))] = r
<1>1. /\ Append(b, r) \in Seq(Request)
      /\ Len(Append(b, r)) = Len(b) + 1
      /\ \A i \in 1 .. Len(b) : Append(b, r)[i] = b[i]
      /\ Append(b, r)[Len(b) + 1] = r
  BY AppendProperties
<1>2. DOMAIN b = 1 .. Len(b) /\ Len(b) \in Nat
  BY LenProperties
<1>3. DOMAIN Append(b, r) = 1 .. (Len(b) + 1)
  BY <1>1, LenProperties
<1>4. Range(Append(b, r)) = Range(b) \union {r}
  BY <1>1, <1>2, <1>3 DEF Range
<1>5. r \notin Range(b) /\ IsInjective(b) => IsInjective(Append(b, r))
  BY <1>1, <1>2, <1>3 DEF Range, IsInjective
<1>6. Append(b, r) # <<>>
  BY <1>1, <1>2, EmptySeq
<1>7. Append(b, r)[Len(Append(b, r))] = r
  BY <1>1
<1>. QED
  BY <1>1, <1>4, <1>5, <1>6, <1>7

\* Serving the head of a drained batch removes it, and only it, from the range.
LEMMA TailRange ==
  ASSUME NEW s \in Seq(Request), s # <<>>, IsInjective(s)
  PROVE  /\ Head(s) \in Range(s)
         /\ Tail(s) \in Seq(Request)
         /\ Range(Tail(s)) = Range(s) \ {Head(s)}
         /\ IsInjective(Tail(s))
<1>1. /\ Len(s) \in Nat /\ Len(s) > 0
      /\ DOMAIN s = 1 .. Len(s)
      /\ Head(s) = s[1]
  BY LenProperties, EmptySeq
<1>2. /\ Tail(s) \in Seq(Request)
      /\ Len(Tail(s)) = Len(s) - 1
      /\ \A i \in 1 .. Len(Tail(s)) : Tail(s)[i] = s[i + 1]
  BY HeadTailProperties
<1>3. DOMAIN Tail(s) = 1 .. (Len(s) - 1)
  BY <1>2, LenProperties
<1>4. Range(Tail(s)) = { s[i + 1] : i \in 1 .. (Len(s) - 1) }
  BY <1>1, <1>2, <1>3 DEF Range
<1>5. Range(s) = { s[i] : i \in 1 .. Len(s) }
  BY <1>1 DEF Range
<1>6. \A i, j \in 1 .. Len(s) : s[i] = s[j] => i = j
  BY <1>1 DEF IsInjective
<1>7. Range(Tail(s)) \subseteq Range(s) \ {Head(s)}
  BY <1>1, <1>4, <1>5, <1>6
<1>8. Range(s) \ {Head(s)} \subseteq Range(Tail(s))
  <2>. SUFFICES ASSUME NEW i \in 1 .. Len(s), s[i] # s[1]
               PROVE  s[i] \in Range(Tail(s))
    BY <1>1, <1>5
  <2>1. i - 1 \in 1 .. (Len(s) - 1) /\ s[i] = s[(i - 1) + 1]
    BY <1>1
  <2>. QED
    BY <2>1, <1>4
<1>9. IsInjective(Tail(s))
  BY <1>1, <1>2, <1>3, <1>6 DEF IsInjective
<1>. QED
  BY <1>1, <1>2, <1>5, <1>7, <1>8, <1>9

\* The sort of processBatch loses, adds and repeats nothing.
LEMMA SortsRange ==
  ASSUME NEW b \in Seq(Request), IsInjective(b), b # <<>>, NEW s \in Sorts(b)
  PROVE  /\ s \in Seq(Request)
         /\ s # <<>>
         /\ Range(s) = Range(b)
         /\ IsInjective(s)
         /\ \A i, j \in DOMAIN s : i < j => Count(s[i]) >= Count(s[j])
<1>1. PICK p \in Bijection(DOMAIN b, DOMAIN b) : s = [i \in DOMAIN b |-> b[p[i]]]
  BY DEF Sorts
<1>2. /\ p \in [DOMAIN b -> DOMAIN b]
      /\ \A i, j \in DOMAIN b : p[i] = p[j] => i = j
      /\ \A j \in DOMAIN b : \E i \in DOMAIN b : p[i] = j
  BY DEF Bijection, Injection, Surjection, IsInjective
<1>3. /\ Len(b) \in Nat /\ Len(b) > 0
      /\ DOMAIN b = 1 .. Len(b)
      /\ \A i \in DOMAIN b : b[i] \in Request
  BY LenProperties, EmptySeq, ElementOfSeq
<1>4. s \in Seq(Request) /\ DOMAIN s = DOMAIN b
  <2>1. s \in [1 .. Len(b) -> Request]
    BY <1>1, <1>2, <1>3
  <2>. QED
    BY <2>1, <1>3, SeqDef
<1>5. s # <<>>
  BY <1>3, <1>4, EmptySeq, LenProperties
<1>6. Range(s) = Range(b)
  BY <1>1, <1>2, <1>4 DEF Range
<1>7. IsInjective(s)
  BY <1>1, <1>2, <1>4 DEF IsInjective
<1>8. \A i, j \in DOMAIN s : i < j => Count(s[i]) >= Count(s[j])
  BY <1>4 DEF Sorts
<1>. QED
  BY <1>4, <1>5, <1>6, <1>7, <1>8

-----------------------------------------------------------------------------
(***************************************************************************)
(* The inductive invariant.  One step per action; under it one per part of *)
(* IInv the action can disturb.                                            *)
(***************************************************************************)

\* The queue starts with no request, no timer and no goroutine.
LEMMA InitIInv == Init => IInv
<1>. SUFFICES ASSUME Init PROVE IInv
  OBVIOUS
<1>1. <<>> \in Seq(Request) /\ Range(<<>>) = {} /\ IsInjective(<<>>)
  BY EmptySeq DEF Range, IsInjective
<1>2. TypeOK
  BY <1>1, NoTimerAssumption DEF Init, TypeOK, Handlers, PCs
<1>3. OneDrainer /\ LatestTimerPending /\ IdleHasNoTimer
  BY DEF Init, OneDrainer, LatestTimerPending, IdleHasNoTimer, Draining
<1>4. Drained = {}
  BY <1>1 DEF Init, Drained
<1>5. HeldOnce
  BY <1>1, <1>4 DEF Init, HeldOnce
<1>. QED
  BY <1>2, <1>3, <1>5 DEF IInv

\* What a step that leaves the drained batches alone leaves of Drained.
LEMMA SameDrained == UNCHANGED local => Drained' = Drained
  BY DEF Drained

LEMMA NextIInv == IInv /\ [Next]_vars => IInv'
<1>. SUFFICES ASSUME IInv, [Next]_vars PROVE IInv'
  OBVIOUS
<1>. USE DEF IInv
<1>1. ASSUME NEW r \in Request, HandleDirect(r) PROVE IInv'
  <2>1. Drained' = Drained
    BY <1>1, SameDrained DEF HandleDirect
  <2>2. TypeOK' /\ OneDrainer' /\ LatestTimerPending' /\ IdleHasNoTimer'
    BY <1>1 DEF HandleDirect, TypeOK, OneDrainer, LatestTimerPending,
                IdleHasNoTimer, Handlers
  <2>3. HeldOnce'
    BY <1>1, <2>1 DEF HandleDirect, HeldOnce, TypeOK, Handlers
  <2>. QED
    BY <2>2, <2>3
<1>2. ASSUME NEW r \in Request, EnqueueFunc(r) PROVE IInv'
  <2>1. Drained' = Drained
    BY <1>2, SameDrained DEF EnqueueFunc
  <2>2. r \notin Range(batch) \union Drained \union resultCh
    BY <1>2 DEF EnqueueFunc, HeldOnce
  <2>3. pc[r] = "none"
    BY <1>2 DEF EnqueueFunc, IdleHasNoTimer
  <2>4. /\ pc' \in [Request -> PCs]
        /\ pc'[r] = "armed"
        /\ \A t \in Request : t # r => pc'[t] \in {pc[t], IF pc[t] = "armed" THEN "done" ELSE pc[t]}
    BY <1>2 DEF EnqueueFunc, Stop, TypeOK, PCs
  <2>5. /\ batch' \in Seq(Request)
        /\ Range(batch') = Range(batch) \union {r}
        /\ IsInjective(batch')
        /\ batch'[Len(batch')] = r
    BY <1>2, <2>2, AppendRange DEF EnqueueFunc, HeldOnce, TypeOK
  <2>6. handler' = [handler EXCEPT ![r] = "waiting"]
    BY <1>2 DEF EnqueueFunc
  <2>7. TypeOK'
    BY <1>2, <2>3, <2>4, <2>5, <2>6 DEF EnqueueFunc, TypeOK, Handlers, PCs
  <2>8. OneDrainer'
    BY <1>2, <2>3, <2>4 DEF EnqueueFunc, OneDrainer, Draining
  <2>9. LatestTimerPending'
    BY <2>4, <2>5 DEF LatestTimerPending
  <2>10. IdleHasNoTimer'
    BY <2>4, <2>6 DEF IdleHasNoTimer, TypeOK
  <2>11. HeldOnce'
    BY <1>2, <2>1, <2>2, <2>5, <2>6 DEF EnqueueFunc, HeldOnce, TypeOK
  <2>. QED
    BY <2>7, <2>8, <2>9, <2>10, <2>11
<1>3. ASSUME NEW r \in Request, Receive(r) PROVE IInv'
  <2>1. Drained' = Drained
    BY <1>3, SameDrained DEF Receive
  <2>2. TypeOK' /\ OneDrainer' /\ LatestTimerPending' /\ IdleHasNoTimer'
    BY <1>3 DEF Receive, TypeOK, OneDrainer, LatestTimerPending,
                IdleHasNoTimer, Handlers
  <2>3. HeldOnce'
    BY <1>3, <2>1 DEF Receive, HeldOnce, TypeOK
  <2>. QED
    BY <2>2, <2>3
<1>4. ASSUME NEW t \in Request, Fire(t) PROVE IInv'
  <2>1. Drained' = Drained
    BY <1>4, SameDrained DEF Fire
  <2>2. TypeOK'
    BY <1>4 DEF Fire, TypeOK, PCs
  <2>3. OneDrainer' /\ IdleHasNoTimer'
    BY <1>4 DEF Fire, OneDrainer, IdleHasNoTimer, Draining, TypeOK
  <2>4. LatestTimerPending'
    BY <1>4 DEF Fire, LatestTimerPending, TypeOK
  <2>5. HeldOnce'
    BY <1>4, <2>1 DEF Fire, HeldOnce
  <2>. QED
    BY <2>2, <2>3, <2>4, <2>5
<1>5. ASSUME NEW g \in Request, Begin(g) PROVE IInv'
  <2>1. Drained' = Drained
    BY <1>5, SameDrained DEF Begin
  <2>2. TypeOK'
    BY <1>5 DEF Begin, TypeOK, PCs
  <2>3. OneDrainer' /\ LatestTimerPending' /\ IdleHasNoTimer'
    BY <1>5 DEF Begin, OneDrainer, LatestTimerPending, IdleHasNoTimer,
                Draining, TypeOK
  <2>4. HeldOnce'
    BY <1>5, <2>1 DEF Begin, HeldOnce
  <2>. QED
    BY <2>2, <2>3, <2>4
<1>6. ASSUME NEW g \in Request, Leave(g) PROVE IInv'
  <2>1. Drained' = Drained
    BY <1>6, SameDrained DEF Leave
  <2>2. TypeOK'
    BY <1>6 DEF Leave, TypeOK, PCs
  <2>3. OneDrainer' /\ LatestTimerPending' /\ IdleHasNoTimer'
    BY <1>6 DEF Leave, OneDrainer, LatestTimerPending, IdleHasNoTimer,
                Draining, TypeOK
  <2>4. HeldOnce'
    BY <1>6, <2>1 DEF Leave, HeldOnce
  <2>. QED
    BY <2>2, <2>3, <2>4
<1>7. ASSUME NEW g \in Request, Drain(g) PROVE IInv'
  <2>1. PICK s \in Sorts(batch) : local' = [local EXCEPT ![g] = s]
    BY <1>7 DEF Drain
  <2>2. s \in Seq(Request) /\ s # <<>> /\ Range(s) = Range(batch) /\ IsInjective(s)
    BY <1>7, SortsRange DEF Drain, TypeOK, HeldOnce
  <2>3. local[g] = <<>>
    BY <1>7 DEF Drain, TypeOK
  <2>4. <<>> \in Seq(Request) /\ Range(<<>>) = {} /\ IsInjective(<<>>)
    BY EmptySeq DEF Range, IsInjective
  <2>5. \A h \in Request : local'[h] = IF h = g THEN s ELSE local[h]
    BY <2>1 DEF TypeOK
  <2>6. Drained' = Drained \union Range(batch)
    BY <2>2, <2>3, <2>4, <2>5 DEF Drained
  <2>7. TypeOK'
    BY <1>7, <2>1, <2>2, <2>4, <2>5 DEF Drain, TypeOK, PCs
  <2>8. OneDrainer' /\ LatestTimerPending' /\ IdleHasNoTimer'
    BY <1>7 DEF Drain, OneDrainer, LatestTimerPending, IdleHasNoTimer,
                Draining, TypeOK
  <2>9. \A h \in Request : Range(local[h]) \subseteq Drained
    BY DEF Drained
  <2>10. HeldOnce'
    BY <1>7, <2>2, <2>4, <2>5, <2>6, <2>9 DEF Drain, HeldOnce, TypeOK
  <2>. QED
    BY <2>7, <2>8, <2>10
<1>8. ASSUME NEW g \in Request, StartMutate(g) PROVE IInv'
  <2>1. Drained' = Drained
    BY <1>8, SameDrained DEF StartMutate
  <2>2. TypeOK'
    BY <1>8 DEF StartMutate, TypeOK, PCs
  <2>3. OneDrainer' /\ LatestTimerPending' /\ IdleHasNoTimer'
    BY <1>8 DEF StartMutate, OneDrainer, LatestTimerPending, IdleHasNoTimer,
                Draining, TypeOK
  <2>4. HeldOnce'
    BY <1>8, <2>1 DEF StartMutate, HeldOnce
  <2>. QED
    BY <2>2, <2>3, <2>4
<1>9. ASSUME NEW g \in Request, SendResult(g) PROVE IInv'
  <2>. DEFINE h == Head(local[g])
  <2>1. local[g] \in Seq(Request) /\ local[g] # <<>> /\ IsInjective(local[g])
    BY <1>9 DEF SendResult, TypeOK, HeldOnce
  <2>2. /\ h \in Range(local[g])
        /\ Tail(local[g]) \in Seq(Request)
        /\ Range(Tail(local[g])) = Range(local[g]) \ {h}
        /\ IsInjective(Tail(local[g]))
    BY <2>1, TailRange
  <2>3. h \in Request
    BY <2>1, HeadTailProperties
  <2>4. \A k \in Request : local'[k] = IF k = g THEN Tail(local[g]) ELSE local[k]
    BY <1>9 DEF SendResult, TypeOK
  <2>5. \A k \in Request : k # g => h \notin Range(local[k])
    BY <2>2 DEF HeldOnce
  <2>6. Drained' = Drained \ {h}
    BY <2>2, <2>4, <2>5 DEF Drained
  <2>7. h \in Drained
    BY <2>2 DEF Drained
  <2>8. TypeOK'
    <3>1. local' \in [Request -> Seq(Request)]
      BY <1>9, <2>2 DEF SendResult, TypeOK
    <3>2. pc' \in [Request -> PCs]
      BY <1>9 DEF SendResult, TypeOK, PCs
    <3>3. \A k \in Request : pc'[k] \in {"work", "mutate"} <=> local'[k] # <<>>
      BY <1>9, <2>4 DEF SendResult, TypeOK, PCs
    <3>. QED
      BY <1>9, <2>3, <3>1, <3>2, <3>3 DEF SendResult, TypeOK
  <2>9. OneDrainer' /\ LatestTimerPending' /\ IdleHasNoTimer'
    BY <1>9 DEF SendResult, OneDrainer, LatestTimerPending, IdleHasNoTimer,
                Draining, TypeOK
  <2>10. HeldOnce'
    <3>1. resultCh' = resultCh \union {h} /\ UNCHANGED <<handler, batch>>
      BY <1>9 DEF SendResult
    <3>2. \A k \in Request : IsInjective(local'[k])
      BY <2>2, <2>4 DEF HeldOnce
    <3>3. \A k, l \in Request : k # l => Range(local'[k]) \intersect Range(local'[l]) = {}
      BY <2>2, <2>4 DEF HeldOnce
    <3>. QED
      BY <2>6, <2>7, <3>1, <3>2, <3>3 DEF HeldOnce
  <2>. QED
    BY <2>8, <2>9, <2>10
<1>10. CASE UNCHANGED vars
  <2>1. Drained' = Drained
    BY <1>10, SameDrained DEF vars
  <2>. QED
    BY <1>10, <2>1 DEF vars, TypeOK, OneDrainer, LatestTimerPending,
                       IdleHasNoTimer, HeldOnce
<1>. QED
  BY <1>1, <1>2, <1>3, <1>4, <1>5, <1>6, <1>7, <1>8, <1>9, <1>10
  DEF Next, Step, Rest

\* IInv holds in every reachable state.
THEOREM QueueIInv == Spec => []IInv
  BY InitIInv, NextIInv, PTL DEF Spec

\* Spec => []TypeOK: types, and a goroutine is in the body of its range loop
\* exactly while requests of its batch remain.
THEOREM QueueTypeOK == Spec => []TypeOK
<1>1. IInv => TypeOK
  BY DEF IInv
<1>. QED
  BY <1>1, QueueIInv, PTL

\* Spec => []SerialMutation: no two goroutines are ever inside mutateFn.
THEOREM QueueSerialMutation == Spec => []SerialMutation
<1>1. IInv => SerialMutation
  BY DEF IInv, OneDrainer, SerialMutation, Draining
<1>. QED
  BY <1>1, QueueIInv, PTL

\* Spec => []NoStrandedRequest: an unattended batch has a timer or goroutine
\* on its way.
THEOREM QueueNoStrandedRequest == Spec => []NoStrandedRequest
<1>1. IInv => NoStrandedRequest
  <2>. SUFFICES ASSUME IInv, batch # <<>>, ~processing
               PROVE  \E t \in Request : pc[t] \in {"armed", "fired"}
    BY DEF NoStrandedRequest
  <2>1. batch[Len(batch)] \in Request
    <3>1. batch \in Seq(Request)
      BY DEF IInv, TypeOK
    <3>2. Len(batch) \in 1 .. Len(batch)
      BY <3>1, EmptySeq, LenProperties
    <3>. QED
      BY <3>1, <3>2, ElementOfSeq
  <2>2. pc[batch[Len(batch)]] \in {"armed", "fired"}
    BY DEF IInv, LatestTimerPending
  <2>. QED
    BY <2>1, <2>2
<1>. QED
  BY <1>1, QueueIInv, PTL

\* Spec => []HeldOnce: every blocked handler's request is in exactly one place.
THEOREM QueueHeldOnce == Spec => []HeldOnce
<1>1. IInv => HeldOnce
  BY DEF IInv
<1>. QED
  BY <1>1, QueueIInv, PTL

-----------------------------------------------------------------------------
(***************************************************************************)
(* The refinement.  Order within a drained batch comes first.              *)
(***************************************************************************)

LEMMA InitDrainedInOrder == Init => DrainedInOrder
  BY EmptySeq, LenProperties DEF Init, DrainedInOrder

\* Only Drain and SendResult change a drained batch.
LEMMA NextDrainedInOrder == IInv /\ DrainedInOrder /\ [Next]_vars => DrainedInOrder'
<1>. SUFFICES ASSUME IInv, DrainedInOrder, [Next]_vars PROVE DrainedInOrder'
  OBVIOUS
<1>1. CASE UNCHANGED local
  BY <1>1 DEF DrainedInOrder
<1>2. ASSUME NEW g \in Request, Drain(g) PROVE DrainedInOrder'
  <2>1. PICK s \in Sorts(batch) : local' = [local EXCEPT ![g] = s]
    BY <1>2 DEF Drain
  <2>2. \A i, j \in DOMAIN s : i < j => Count(s[i]) >= Count(s[j])
    BY <1>2, SortsRange DEF Drain, IInv, TypeOK, HeldOnce
  <2>3. \A h \in Request : local'[h] = IF h = g THEN s ELSE local[h]
    BY <2>1 DEF IInv, TypeOK
  <2>. QED
    BY <2>2, <2>3 DEF DrainedInOrder, Count
<1>3. ASSUME NEW g \in Request, SendResult(g) PROVE DrainedInOrder'
  <2>. DEFINE l == local[g]
  <2>1. l \in Seq(Request) /\ l # <<>>
    BY <1>3 DEF SendResult, IInv, TypeOK
  <2>2. /\ Len(l) \in Nat
        /\ DOMAIN l = 1 .. Len(l)
        /\ DOMAIN Tail(l) = 1 .. (Len(l) - 1)
        /\ \A i \in 1 .. (Len(l) - 1) : Tail(l)[i] = l[i + 1]
    BY <2>1, HeadTailProperties, LenProperties
  <2>3. \A i, j \in DOMAIN Tail(l) : i < j => Count(Tail(l)[i]) >= Count(Tail(l)[j])
    <3>. SUFFICES ASSUME NEW i \in DOMAIN Tail(l), NEW j \in DOMAIN Tail(l), i < j
                 PROVE  Count(Tail(l)[i]) >= Count(Tail(l)[j])
      OBVIOUS
    <3>1. /\ i + 1 \in DOMAIN l /\ j + 1 \in DOMAIN l /\ i + 1 < j + 1
          /\ Tail(l)[i] = l[i + 1] /\ Tail(l)[j] = l[j + 1]
      BY <2>2
    <3>2. Count(l[i + 1]) >= Count(l[j + 1])
      BY <3>1 DEF DrainedInOrder
    <3>. QED
      BY <3>1, <3>2
  <2>4. \A h \in Request : local'[h] = IF h = g THEN Tail(l) ELSE local[h]
    BY <1>3 DEF SendResult, IInv, TypeOK
  <2>. QED
    BY <2>3, <2>4 DEF DrainedInOrder, Count
<1>. QED
  BY <1>1, <1>2, <1>3
  DEF Next, Step, Rest, vars, HandleDirect, EnqueueFunc, Receive, Fire, Begin,
      Leave, StartMutate

\* Spec => []DrainedInOrder.
THEOREM QueueDrainedInOrder == Spec => []DrainedInOrder
  BY InitDrainedInOrder, NextDrainedInOrder, QueueIInv, PTL DEF Spec

\* Spec => []WaitingHasPriority: only EnqueueFunc makes a handler wait.
THEOREM QueueWaitingHasPriority == Spec => []WaitingHasPriority
<1>1. Init => WaitingHasPriority
  BY DEF Init, WaitingHasPriority
<1>2. IInv /\ WaitingHasPriority /\ [Next]_vars => WaitingHasPriority'
  BY DEF WaitingHasPriority, IInv, TypeOK, Count, Next, Step, Rest, vars,
         HandleDirect, EnqueueFunc, Receive, Fire, Begin, Leave, Drain,
         StartMutate, SendResult
<1>. QED
  BY <1>1, <1>2, QueueIInv, PTL DEF Spec

\* With one drainer, Mutating and Running say the same thing.
LEMMA RunningIsMutating ==
  ASSUME IInv
  PROVE  /\ \A g \in Request : pc[g] = "mutate" =>
              /\ Mutating = {Head(local[g])}
              /\ Running = Head(local[g])
              /\ Head(local[g]) \in Request
         /\ (\A g \in Request : pc[g] # "mutate") => Mutating = {} /\ Running = NoTimer
<1>1. ASSUME NEW g \in Request, pc[g] = "mutate"
      PROVE  Mutating = {Head(local[g])} /\ Head(local[g]) \in Request
  <2>1. \A h \in Request : pc[h] = "mutate" => h = g
    BY <1>1 DEF IInv, OneDrainer, Draining
  <2>2. local[g] \in Seq(Request) /\ local[g] # <<>>
    BY <1>1 DEF IInv, TypeOK
  <2>. QED
    BY <1>1, <2>1, <2>2, HeadTailProperties DEF Mutating
<1>2. ASSUME NEW x, Mutating = {x} PROVE Running = x
  BY <1>2 DEF Running
<1>3. (\A g \in Request : pc[g] # "mutate") => Mutating = {}
  BY DEF Mutating
<1>. QED
  BY <1>1, <1>2, <1>3 DEF Running

\* A step that touches neither a local batch nor the goroutines in mutateFn.
LEMMA SameMutating ==
  ASSUME UNCHANGED local,
         \A g \in Request : pc'[g] = "mutate" <=> pc[g] = "mutate"
  PROVE  Mutating' = Mutating /\ Running' = Running /\ Drained' = Drained
         /\ Closed' = Closed
<1>1. Mutating' = Mutating
  BY DEF Mutating
<1>. QED
  BY <1>1 DEF Running, Drained, Closed

LEMMA InitPromise == Init => Promise!Init
<1>. SUFFICES ASSUME Init PROVE Promise!Init
  OBVIOUS
<1>1. Range(<<>>) = {}
  BY EmptySeq DEF Range
<1>2. Mutating = {} /\ Drained = {}
  BY <1>1 DEF Init, Mutating, Drained
<1>3. Finished = {}
  BY DEF Init, Finished
<1>. QED
  BY <1>1, <1>2, <1>3 DEF Init, Promise!Init, Closed, Running

\* Every step of the queue is a step of SerialBatches or leaves it unchanged.
LEMMA NextPromise ==
  IInv /\ IInv' /\ DrainedInOrder /\ WaitingHasPriority /\ [Next]_vars
    => [Promise!Next]_(Promise!vars)
<1>. SUFFICES ASSUME IInv, IInv', DrainedInOrder, WaitingHasPriority, [Next]_vars
             PROVE  [Promise!Next]_(Promise!vars)
  OBVIOUS
<1>1. ASSUME NEW r \in Request, HandleDirect(r) PROVE UNCHANGED Promise!vars
  <2>1. UNCHANGED <<Running, Closed>>
    BY <1>1, SameMutating DEF HandleDirect
  <2>2. Finished' = Finished
    BY <1>1 DEF HandleDirect, Finished, Count, IInv, TypeOK
  <2>. QED
    BY <1>1, <2>1, <2>2 DEF HandleDirect, Promise!vars
<1>2. ASSUME NEW r \in Request, EnqueueFunc(r) PROVE Promise!Submit(r)
  <2>1. \A g \in Request : pc'[g] = "mutate" <=> pc[g] = "mutate"
    <3>1. pc[r] = "none"
      BY <1>2 DEF EnqueueFunc, IInv, IdleHasNoTimer
    <3>. QED
      BY <1>2, <3>1 DEF EnqueueFunc, Stop, IInv, TypeOK
  <2>2. UNCHANGED <<Running, Closed>>
    BY <1>2, <2>1, SameMutating DEF EnqueueFunc
  <2>3. Range(batch') = Range(batch) \union {r}
    BY <1>2, AppendRange DEF EnqueueFunc, IInv, TypeOK
  <2>4. Finished' = Finished
    BY <1>2 DEF EnqueueFunc, Finished, Count, IInv, TypeOK
  <2>5. r \notin Range(batch) \union Drained \union resultCh
    BY <1>2 DEF EnqueueFunc, IInv, HeldOnce
  <2>6. r \notin Range(batch) \union Closed \union Finished
    BY <1>2, <2>5 DEF EnqueueFunc, Closed, Finished
  <2>7. r # Running
    <3>1. ASSUME NEW g \in Request, pc[g] = "mutate" PROVE Running \in Drained
      <4>1. local[g] \in Seq(Request) /\ local[g] # <<>> /\ IsInjective(local[g])
        BY <3>1 DEF IInv, TypeOK, HeldOnce
      <4>2. Head(local[g]) \in Range(local[g])
        BY <4>1, TailRange
      <4>. QED
        BY <3>1, <4>2, RunningIsMutating DEF Drained
    <3>2. CASE \A g \in Request : pc[g] # "mutate"
      BY <3>2, RunningIsMutating, NoTimerAssumption
    <3>. QED
      BY <2>5, <3>1, <3>2
  <2>. QED
    BY <2>2, <2>3, <2>4, <2>6, <2>7 DEF Promise!Submit
<1>3. ASSUME NEW r \in Request, Receive(r) PROVE UNCHANGED Promise!vars
  <2>1. UNCHANGED <<Running, Closed>>
    BY <1>3, SameMutating DEF Receive
  <2>2. Finished' = Finished
    BY <1>3 DEF Receive, Finished, Count, IInv, TypeOK
  <2>. QED
    BY <1>3, <2>1, <2>2 DEF Receive, Promise!vars
<1>4. ASSUME NEW g \in Request, Fire(g) \/ Begin(g) \/ Leave(g)
      PROVE  UNCHANGED Promise!vars
  <2>1. /\ UNCHANGED <<local, handler, resultCh, batch>>
        /\ \A h \in Request : pc'[h] = "mutate" <=> pc[h] = "mutate"
    BY <1>4 DEF Fire, Begin, Leave, IInv, TypeOK
  <2>2. UNCHANGED <<Running, Closed>>
    BY <2>1, SameMutating
  <2>3. Finished' = Finished
    BY <2>1 DEF Finished, Count
  <2>. QED
    BY <2>1, <2>2, <2>3 DEF Promise!vars
<1>5. ASSUME NEW g \in Request, Drain(g) PROVE Promise!Close
  <2>1. PICK s \in Sorts(batch) : local' = [local EXCEPT ![g] = s]
    BY <1>5 DEF Drain
  <2>2. Range(s) = Range(batch) /\ s # <<>>
    BY <1>5, SortsRange DEF Drain, IInv, TypeOK, HeldOnce
  <2>3. \A h \in Request : h # g => local[h] = <<>> /\ pc[h] # "mutate"
    BY <1>5 DEF Drain, IInv, OneDrainer, TypeOK, Draining
  <2>4. local[g] = <<>> /\ pc[g] # "mutate"
    BY <1>5 DEF Drain, IInv, TypeOK
  <2>5. Range(<<>>) = {}
    BY EmptySeq DEF Range
  <2>6. Drained = {} /\ Mutating = {} /\ Running = NoTimer
    BY <2>3, <2>4, <2>5, RunningIsMutating DEF Drained
  <2>7. \A h \in Request : local'[h] = (IF h = g THEN s ELSE <<>>) /\ pc'[h] # "mutate"
    BY <1>5, <2>1, <2>3, <2>4 DEF Drain, IInv, TypeOK
  <2>8. Mutating' = {} /\ Running' = NoTimer
    BY <2>7 DEF Mutating, Running
  <2>9. Drained' = Range(batch)
    BY <2>2, <2>5, <2>7 DEF Drained
  <2>10. Finished' = Finished
    BY <1>5 DEF Drain, Finished, Count
  <2>11. Range(batch) # {}
    <3>1. batch \in Seq(Request) /\ batch # <<>>
      BY <1>5 DEF Drain, IInv, TypeOK
    <3>2. 1 \in DOMAIN batch
      BY <3>1, EmptySeq, LenProperties
    <3>. QED
      BY <3>2 DEF Range
  <2>12. batch' = <<>>
    BY <1>5 DEF Drain
  <2>. QED
    BY <2>5, <2>6, <2>8, <2>9, <2>10, <2>11, <2>12 DEF Promise!Close, Closed
<1>6. ASSUME NEW g \in Request, StartMutate(g)
      PROVE  \E r \in Request : Promise!Start(r)
  <2>. DEFINE l == local[g]
  <2>1. l \in Seq(Request) /\ l # <<>> /\ IsInjective(l)
    BY <1>6 DEF StartMutate, IInv, TypeOK, HeldOnce
  <2>2. \A h \in Request : h # g => local[h] = <<>> /\ pc[h] # "mutate"
    BY <1>6 DEF StartMutate, IInv, OneDrainer, TypeOK, Draining
  <2>3. Range(<<>>) = {}
    BY EmptySeq DEF Range
  <2>4. Drained = Range(l) /\ Drained' = Drained
    BY <1>6, <2>2, <2>3 DEF StartMutate, Drained
  <2>5. Mutating = {} /\ Running = NoTimer
    BY <1>6, <2>2, RunningIsMutating DEF StartMutate
  <2>6. \A h \in Request : pc'[h] = "mutate" <=> h = g
    BY <1>6, <2>2 DEF StartMutate, IInv, TypeOK
  <2>7. Mutating' = {Head(l)}
    BY <1>6, <2>6 DEF StartMutate, Mutating
  <2>8. Running' = Head(l)
    BY <2>7 DEF Running
  <2>9. Head(l) \in Range(l)
    BY <2>1, TailRange
  <2>10. \A r \in Range(l) : Count(Head(l)) >= Count(r)
    <3>. SUFFICES ASSUME NEW i \in DOMAIN l PROVE Count(Head(l)) >= Count(l[i])
      BY DEF Range
    <3>1. Head(l) = l[1] /\ 1 \in DOMAIN l /\ i \in Nat /\ (i = 1 \/ 1 < i)
      BY <2>1, EmptySeq, LenProperties
    <3>2. Count(l[i]) \in Nat
      BY <2>1, CountsAssumption, ElementOfSeq, LenProperties DEF Count
    <3>. QED
      BY <3>1, <3>2 DEF DrainedInOrder
  <2>11. Finished' = Finished
    BY <1>6 DEF StartMutate, Finished, Count
  <2>12. Promise!Start(Head(l))
    BY <1>6, <2>4, <2>5, <2>7, <2>8, <2>9, <2>10, <2>11
    DEF StartMutate, Promise!Start, Closed
  <2>13. Head(l) \in Request
    BY <2>1, HeadTailProperties
  <2>. QED
    BY <2>12, <2>13
<1>7. ASSUME NEW g \in Request, SendResult(g) PROVE Promise!Finish
  <2>. DEFINE h == Head(local[g])
  <2>1. Mutating = {h} /\ Running = h /\ h \in Request
    BY <1>7, RunningIsMutating DEF SendResult
  <2>2. local[g] \in Seq(Request) /\ local[g] # <<>> /\ IsInjective(local[g])
    BY <1>7 DEF SendResult, IInv, TypeOK, HeldOnce
  <2>3. Range(Tail(local[g])) = Range(local[g]) \ {h} /\ h \in Range(local[g])
    BY <2>2, TailRange
  <2>4. \A k \in Request : k # g => local[k] = <<>> /\ pc[k] # "mutate"
    BY <1>7 DEF SendResult, IInv, OneDrainer, TypeOK, Draining
  <2>5. /\ \A k \in Request : local'[k] = IF k = g THEN Tail(local[g]) ELSE <<>>
        /\ \A k \in Request : pc'[k] # "mutate"
    BY <1>7, <2>4 DEF SendResult, IInv, TypeOK
  <2>6. Mutating' = {} /\ Running' = NoTimer
    BY <2>5 DEF Mutating, Running
  <2>7. Range(<<>>) = {}
    BY EmptySeq DEF Range
  <2>8. Drained = Range(local[g]) /\ Drained' = Range(Tail(local[g]))
    BY <2>4, <2>5, <2>7 DEF Drained
  <2>9. Closed' = Closed
    BY <2>1, <2>3, <2>6, <2>8 DEF Closed
  <2>10. handler[h] = "waiting"
    BY <2>1, <2>3, <2>8 DEF IInv, HeldOnce
  <2>11. Count(h) > 0
    BY <2>1, <2>10 DEF WaitingHasPriority
  <2>12. Finished' = Finished \union {h}
    BY <1>7, <2>1, <2>11 DEF SendResult, Finished, Count
  <2>13. h # NoTimer
    BY <2>1, NoTimerAssumption
  <2>. QED
    BY <1>7, <2>1, <2>6, <2>9, <2>12, <2>13 DEF SendResult, Promise!Finish
<1>8. CASE UNCHANGED vars
  <2>1. UNCHANGED <<Running, Closed>>
    BY <1>8, SameMutating DEF vars
  <2>2. Finished' = Finished
    BY <1>8 DEF vars, Finished, Count
  <2>. QED
    BY <1>8, <2>1, <2>2 DEF vars, Promise!vars
<1>. QED
  <2>1. CASE UNCHANGED vars
    BY <2>1, <1>8
  <2>2. ASSUME NEW r \in Request, Step(r) PROVE [Promise!Next]_(Promise!vars)
    BY <2>2, <1>1, <1>2, <1>3, <1>4, <1>5, <1>6, <1>7 DEF Step, Promise!Next
  <2>. QED
    BY <2>1, <2>2 DEF Next, Rest

\* Spec => Promise!Spec: the queue implements SerialBatches.
THEOREM QueueImplementsSerialBatches == Spec => ImplementsSerialBatches
  BY InitPromise, NextPromise, QueueIInv, QueueDrainedInOrder,
     QueueWaitingHasPriority, PTL
  DEF Spec, ImplementsSerialBatches, Promise!Spec
=============================================================================
