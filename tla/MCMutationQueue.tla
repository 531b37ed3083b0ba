--------------------------- MODULE MCMutationQueue ---------------------------
(***************************************************************************)
(* Admission requests of every sort: pods with pairs, pods with            *)
(* intercepted GPUs only, and a pod that asks for nothing and bypasses the *)
(* queue.  Three queued requests are enough for a drained batch of two     *)
(* with equal or different counts, an arrival during processing, and a     *)
(* timer left armed by processBatch that elapses over a later batch.       *)
(***************************************************************************)
EXTENDS TimedQueue

CONSTANTS twoPairs, onePair, twoGPUs, nothing

MCPairCount ==
  [r \in Request |-> CASE r = twoPairs -> 2 [] r = onePair -> 1 [] OTHER -> 0]

MCInterceptedCount ==
  [r \in Request |-> IF r = twoGPUs THEN 2 ELSE 0]
=============================================================================
