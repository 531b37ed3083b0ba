----------------------------- MODULE TimedQueue -----------------------------
(***************************************************************************)
(* MutationQueue with the debounce window on a clock.  A timer may fire    *)
(* late, as those of the Go runtime do, so that the order of events is as  *)
(* free as in MutationQueue; what the clock adds is how long the debounce  *)
(* itself keeps a request in the batch.                                    *)
(***************************************************************************)
EXTENDS MutationQueue

CONSTANT Debounce   \* the debounce window, in ticks

ASSUME DebounceAssumption == Debounce \in Nat \ {0}

VARIABLES
  window,  \* ticks before each armed timer is due
  waited   \* history: ticks each request in the batch has spent waiting for timers

timedVars == <<vars, window, waited>>

TimedInit ==
  /\ Init
  /\ window = [r \in Request |-> 0]
  /\ waited = [r \in Request |-> 0]

Armed == {t \in Request : pc[t] = "armed"}

\* Nobody but the debounce keeps the batch waiting.
Debouncing == ~processing /\ \A t \in Request : pc[t] # "fired" /\ (t \in Armed => window[t] > 0)

\* Faulty variant of Window: the new window is added to what is left of the old.
WindowAdded == Debounce + (IF timer = NoTimer THEN 0 ELSE window[timer])

\* The window of the timer EnqueueFunc creates, whatever it finds.
Window == Debounce

TimedEnqueue(r) ==
  /\ EnqueueFunc(r)
  /\ window' = [t \in Request |-> IF t = r THEN Window
                                  ELSE IF pc'[t] = "armed" THEN window[t] ELSE 0]
  /\ UNCHANGED waited

TimedFire(t) == window[t] = 0 /\ Fire(t) /\ UNCHANGED <<window, waited>>

TimedDrain(g) ==
  /\ Drain(g)
  /\ waited' = [r \in Request |-> 0]
  /\ UNCHANGED window

Untimed(r) ==
  /\ \/ HandleDirect(r) \/ Receive(r) \/ Begin(r) \/ Leave(r) \/ StartMutate(r) \/ SendResult(r)
  /\ UNCHANGED <<window, waited>>

Tick ==
  /\ \E t \in Armed : window[t] > 0
  /\ window' = [t \in Request |-> IF window[t] > 0 THEN window[t] - 1 ELSE 0]
  /\ waited' = [r \in Request |->
       IF Debouncing /\ r \in Range(batch) THEN waited[r] + 1 ELSE waited[r]]
  /\ UNCHANGED vars

TimedNext ==
  \/ Rest /\ UNCHANGED <<window, waited>>
  \/ Tick
  \/ \E r \in Request : TimedEnqueue(r) \/ TimedFire(r) \/ TimedDrain(r) \/ Untimed(r)

TimedSpec == TimedInit /\ [][TimedNext]_timedVars

\* As in MutationQueue; and time passes.
TimedFairness ==
  /\ WF_timedVars(Tick)
  /\ \A r \in Request :
       /\ WF_timedVars(TimedFire(r)) /\ WF_timedVars(TimedDrain(r))
       /\ WF_timedVars(Begin(r) /\ UNCHANGED <<window, waited>>)
       /\ WF_timedVars(Leave(r) /\ UNCHANGED <<window, waited>>)
       /\ WF_timedVars(StartMutate(r) /\ UNCHANGED <<window, waited>>)
       /\ WF_timedVars(SendResult(r) /\ UNCHANGED <<window, waited>>)
       /\ WF_timedVars(Receive(r) /\ UNCHANGED <<window, waited>>)

FairTimedSpec == TimedSpec /\ TimedFairness
-----------------------------------------------------------------------------

(***************************************************************************)
(* Debouncing holds a request up for one window, and for one more for each *)
(* request that comes after it - never for longer, but without end as long *)
(* as they keep coming: the API server's timeout of ten seconds is three   *)
(* windows (EnqueueFunc resets the one timer; a timer armed during         *)
(* processing may close the next batch early, never late).                 *)
(***************************************************************************)
BatchClosedInTime ==
  ~processing => \A i \in DOMAIN batch :
    waited[batch[i]] <= Debounce * (Len(batch) - i + 1)

(***************************************************************************)
(* The strengthening under which it is inductive.                          *)
(***************************************************************************)
TimedTypeOK == window \in [Request -> Nat] /\ waited \in [Request -> Nat]

\* Only requests in the batch have waited.
WaitedInBatch == \A r \in Request : r \notin Range(batch) => waited[r] = 0

\* What is left of the latest request's window still lies within the bound.
WindowCovered ==
  ~processing => \A i \in DOMAIN batch :
    waited[batch[i]] + window[batch[Len(batch)]] <= Debounce * (Len(batch) - i + 1)

TimedIInv == TimedTypeOK /\ WaitedInBatch /\ WindowCovered
=============================================================================
