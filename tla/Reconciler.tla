----------------------------- MODULE Reconciler -----------------------------
(***************************************************************************)
(* The reconciler (internal/reconciler): its passes over the claim         *)
(* templates and claims of the cluster, the orphan records it keeps in     *)
(* memory and on disk, and the webhook and API server that change the      *)
(* cluster between any two of its calls.                                   *)
(*                                                                         *)
(* Time is kept as ages in ticks.  The age of an active record stops at    *)
(* GracePeriod and that of a reaped one at PruneAfter + 1: the code        *)
(* compares them with nothing beyond.                                      *)
(***************************************************************************)
EXTENDS Naturals, FiniteSets

CONSTANTS
  Template, Claim, Pod, Namespace,
  Home,            \* the namespace of each template and pod
  Uses,            \* the templates each pod's claims name
  Owner,           \* the pod in each claim's owner references, or NoPod
  NoPod,
  FromTemplate,    \* the claims with the pod-claim-name annotation
  AutoReap, GracePeriod, PruneAfter,   \* the configuration, in ticks
  Faults,          \* the kinds of fault that may happen
  MaxFaults,       \* bound: how many of them
  Timely,          \* a whole pass runs between any two ticks
  IdleBound        \* bound: how far the time a template is unused is counted

Object == Template \union Claim

\* The calls of a pass that can fail, a killed process, and somebody else
\* deleting a template.
FaultKinds ==
  {"templates", "pods", "annotate", "delete", "claims", "owner", "save",
   "crash", "removal"}

ASSUME ReconcilerAssumption ==
  /\ Template \intersect Claim = {}
  /\ Home \in [Template \union Pod -> Namespace]
  /\ Uses \in [Pod -> SUBSET Template]
  /\ \A p \in Pod : \A t \in Uses[p] : Home[t] = Home[p]
  /\ NoPod \notin Pod /\ Owner \in [Claim -> Pod \union {NoPod}]
  /\ FromTemplate \subseteq Claim
  /\ AutoReap \in BOOLEAN /\ Timely \in BOOLEAN
  /\ GracePeriod \in Nat /\ PruneAfter \in Nat
  /\ MaxFaults \in Nat /\ IdleBound \in Nat
  /\ Faults \subseteq FaultKinds

VARIABLES
  exists,      \* the objects in the API server
  annotated,   \* those with the orphaned-at annotation
  pod,         \* where each pod is between admission and deletion
  records,     \* State.state.Orphans
  disk,        \* the state file
  pc,          \* where the pass is
  listed,      \* listed objects the pass has yet to look at
  marked,      \* those of them that were annotated when listed
  unread,      \* namespaces whose pods the pass has yet to list
  refs,        \* referencedTemplates
  due,         \* no pass has run since the last tick
  faults,      \* how many faults there have been
  seen,        \* history: pods there since their namespace was listed
  lifetime,    \* history: the age of each object
  idle         \* history: for how long no pod has used each template

pass == <<pc, listed, marked, unread, refs>>
cluster == <<exists, annotated, pod, lifetime, idle>>
vars == <<cluster, records, disk, pass, due, faults, seen>>

PCs == {"waiting", "pods", "templates", "claims", "owners", "finish"}

NoRecord == [state |-> "none", age |-> 0]
Active(a) == [state |-> "active", age |-> a]
Reaped(a) == [state |-> "reaped", age |-> a]

Record ==
  {NoRecord} \union {Active(a) : a \in 0 .. GracePeriod}
             \union {Reaped(a) : a \in 0 .. PruneAfter + 1}

Stored == {p \in Pod : pod[p] = "stored"}
Referenced(t) == \E p \in Stored : t \in Uses[p]

(***************************************************************************)
(* The reconciler's first start.  The webhook may have run before: there   *)
(* are pods with their templates, and claims, whose names are generated    *)
(* and never come back.                                                    *)
(***************************************************************************)
Init ==
  /\ pod \in [Pod -> {"absent", "stored"}]
  /\ exists = Claim \union UNION {Uses[p] : p \in Stored}
  /\ annotated = {}
  /\ records = [o \in Object |-> NoRecord]
  /\ disk = records
  /\ pc = "waiting"
  /\ listed = {} /\ marked = {} /\ unread = {} /\ refs = {}
  /\ due = TRUE
  /\ faults = 0
  /\ seen = {}
  /\ lifetime = [o \in Object |-> 0]
  /\ idle = [t \in Template |-> 0]

\* The faults F of the given kinds happen in this step.
Fail(F, kinds) ==
  /\ F \subseteq kinds \intersect Faults
  /\ faults + Cardinality(F) <= MaxFaults
  /\ faults' = faults + Cardinality(F)

-----------------------------------------------------------------------------
(***************************************************************************)
(* The operations of StateManager.                                         *)
(***************************************************************************)
RecordOrphan(o) ==
  [records EXCEPT ![o] = IF @ = NoRecord THEN Active(0) ELSE @]

\* Faulty variant of ClearResolved: the record is blanked, but keeps its time.
ClearKeepingTime(o) == [records EXCEPT ![o].state = "none"]

ClearResolved(o) ==
  [records EXCEPT ![o] = IF @.state = "active" THEN NoRecord ELSE @]

MarkReaped(r, o) == [r EXCEPT ![o] = Reaped(0)]

\* Faulty variant of PastGrace: GetOrphan returns reaped records too.
PastGraceOrReaped(r, o) == r[o].state # "none" /\ r[o].age >= GracePeriod

\* GetOrphan returns a record, and it is past the grace period.
PastGrace(r, o) == r[o].state = "active" /\ r[o].age >= GracePeriod

\* Faulty variant of PruneReapedOlderThan: no pruning.
PruneNothing == records

PruneReapedOlderThan ==
  [o \in Object |->
     IF records[o].state = "reaped" /\ records[o].age > PruneAfter
     THEN NoRecord ELSE records[o]]

-----------------------------------------------------------------------------
(***************************************************************************)
(* A pass: reconcileOnce.  One action per call whose answer the pass uses, *)
(* so that the cluster may change between any two.                         *)
(***************************************************************************)

\* reconcileTemplates lists the templates.  A failure is logged, and the pass
\* goes on with the claims, as it does when there are no templates.
ListTemplates ==
  /\ pc = "waiting"
  /\ \E F \in SUBSET {"templates"} :
       /\ Fail(F, {"templates"})
       /\ listed' = IF F = {} THEN exists \intersect Template ELSE {}
  /\ marked' = listed' \intersect annotated
  /\ unread' = {Home[t] : t \in listed'}
  /\ pc' = IF listed' = {} THEN "claims" ELSE "pods"
  /\ due' = FALSE
  /\ UNCHANGED <<cluster, records, disk, refs, seen>>

PodsIn(ns) == {p \in Stored : Home[p] = ns}

\* Faulty variant of WithReferences: the set is made anew for every namespace.
OnlyReferences(ns) == UNION {Uses[p] : p \in PodsIn(ns)}

WithReferences(ns) == refs \union UNION {Uses[p] : p \in PodsIn(ns)}

\* The pods of one namespace.  A failure is logged, and the namespace is left
\* without any referenced template.
ListPods(ns) ==
  /\ pc = "pods" /\ ns \in unread
  /\ \E F \in SUBSET {"pods"} :
       /\ Fail(F, {"pods"})
       /\ refs' = IF F = {} THEN WithReferences(ns) ELSE refs
  /\ unread' = unread \ {ns}
  /\ pc' = IF unread' = {} THEN "templates" ELSE pc
  /\ seen' = seen \union PodsIn(ns)
  /\ UNCHANGED <<cluster, records, disk, listed, marked, due>>

(***************************************************************************)
(* handleOrphanedTemplate and handleOrphanedClaim: record, annotate if the *)
(* listed copy was not, and delete what is past the grace period.  Neither *)
(* a failed annotation nor a failed deletion stops the pass; an object     *)
(* that is gone cannot be annotated, but counts as deleted.                *)
(***************************************************************************)
handleOrphaned(o) ==
  \E F \in SUBSET {"annotate", "delete"} :
    LET recorded == RecordOrphan(o)
        annotate == o \in exists \ marked /\ "annotate" \notin F
        reap == AutoReap /\ PastGrace(recorded, o) /\ "delete" \notin F
    IN  /\ Fail(F, {"annotate", "delete"})
        /\ "annotate" \in F => o \notin marked
        /\ "delete" \in F => AutoReap /\ PastGrace(recorded, o)
        /\ records' = IF reap THEN MarkReaped(recorded, o) ELSE recorded
        /\ exists' = IF reap THEN exists \ {o} ELSE exists
        /\ annotated' = (IF annotate THEN annotated \union {o} ELSE annotated)
                          \intersect exists'

HandleTemplate(t) ==
  /\ pc = "templates" /\ t \in listed
  /\ \/ /\ t \in refs
        /\ records' = ClearResolved(t)
        /\ UNCHANGED <<exists, annotated, faults>>
     \/ t \notin refs /\ handleOrphaned(t)
  /\ listed' = listed \ {t}
  /\ pc' = IF listed' = {} THEN "claims" ELSE pc
  /\ refs' = IF listed' = {} THEN {} ELSE refs
  /\ seen' = IF listed' = {} THEN {} ELSE seen
  /\ UNCHANGED <<pod, lifetime, idle, disk, marked, unread, due>>

\* reconcileClaims lists the claims; those not made from a template are skipped.
ListClaims ==
  /\ pc = "claims"
  /\ \E F \in SUBSET {"claims"} :
       /\ Fail(F, {"claims"})
       /\ listed' = IF F = {} THEN exists \intersect FromTemplate ELSE {}
  /\ marked' = listed' \intersect annotated
  /\ pc' = IF listed' = {} THEN "finish" ELSE "owners"
  /\ UNCHANGED <<cluster, records, disk, unread, refs, due, seen>>

\* A claim whose owner cannot be looked up is left alone in this pass.
HandleClaim(c) ==
  /\ pc = "owners" /\ c \in listed
  /\ \/ Owner[c] \in Stored /\ records' = ClearResolved(c)
          /\ UNCHANGED <<exists, annotated, faults>>
     \/ Owner[c] \notin Stored /\ handleOrphaned(c)
     \/ Owner[c] # NoPod /\ Fail({"owner"}, {"owner"})
          /\ UNCHANGED <<exists, annotated, records>>
  /\ listed' = listed \ {c}
  /\ pc' = IF listed' = {} THEN "finish" ELSE pc
  /\ UNCHANGED <<pod, lifetime, idle, disk, marked, unread, refs, due, seen>>

\* Prune and save.  A failed save leaves the old file: it is replaced by rename.
Finish ==
  /\ pc = "finish"
  /\ records' = PruneReapedOlderThan
  /\ \E F \in SUBSET {"save"} :
       /\ Fail(F, {"save"})
       /\ disk' = IF F = {} THEN records' ELSE disk
  /\ pc' = "waiting"
  /\ marked' = {}
  /\ UNCHANGED <<cluster, listed, unread, refs, due, seen>>

\* The process is killed and starts again: NewStateManager loads the file.
Crash ==
  /\ Fail({"crash"}, {"crash"})
  /\ records' = disk
  /\ pc' = "waiting"
  /\ listed' = {} /\ marked' = {} /\ unread' = {} /\ refs' = {} /\ seen' = {}
  /\ UNCHANGED <<cluster, disk, due>>

-----------------------------------------------------------------------------
(***************************************************************************)
(* The webhook, the API server and time.                                   *)
(***************************************************************************)

\* The webhook admits the pod: ensureClaimTemplate makes the templates that are
\* missing and leaves the others alone.
Admit(p) ==
  /\ pod[p] = "absent"
  /\ pod' = [pod EXCEPT ![p] = "admitted"]
  /\ exists' = exists \union Uses[p]
  /\ lifetime' = [o \in Object |-> IF o \in Uses[p] \ exists THEN 0 ELSE lifetime[o]]
  /\ idle' = [t \in Template |-> IF t \in Uses[p] \ exists THEN 0 ELSE idle[t]]
  /\ UNCHANGED <<annotated, records, disk, pass, due, faults, seen>>

\* The API server stores the admitted pod.
Store(p) ==
  /\ pod[p] = "admitted"
  /\ pod' = [pod EXCEPT ![p] = "stored"]
  /\ idle' = [t \in Template |-> IF t \in Uses[p] THEN 0 ELSE idle[t]]
  /\ UNCHANGED <<exists, annotated, lifetime, records, disk, pass, due, faults, seen>>

\* The pod is not stored after all, or it is deleted.
Leave(p) ==
  /\ pod[p] # "absent"
  /\ pod' = [pod EXCEPT ![p] = "absent"]
  /\ seen' = seen \ {p}
  /\ UNCHANGED <<exists, annotated, lifetime, idle, records, disk, pass, due, faults>>

\* The garbage collector deletes a claim without owner, or somebody a template.
Remove(o) ==
  /\ o \in exists
  /\ \/ o \in Claim /\ Owner[o] \notin Stored /\ UNCHANGED faults
     \/ o \in Template /\ Fail({"removal"}, {"removal"})
  /\ exists' = exists \ {o}
  /\ annotated' = annotated \ {o}
  /\ UNCHANGED <<pod, lifetime, idle, records, disk, pass, due, seen>>

Older(a, limit) == IF a < limit THEN a + 1 ELSE a

Aged(r) ==
  CASE r.state = "active" -> Active(Older(r.age, GracePeriod))
    [] r.state = "reaped" -> Reaped(Older(r.age, PruneAfter + 1))
    [] OTHER -> r

Tick ==
  /\ Timely => pc = "waiting" /\ ~due
  /\ records' = [o \in Object |-> Aged(records[o])]
  /\ disk' = [o \in Object |-> Aged(disk[o])]
  /\ lifetime' = [o \in Object |-> Older(lifetime[o], GracePeriod)]
  /\ idle' = [t \in Template |->
       IF t \in exists /\ ~Referenced(t) THEN Older(idle[t], IdleBound) ELSE 0]
  /\ due' = Timely
  /\ UNCHANGED <<exists, annotated, pod, pass, faults, seen>>

Pass ==
  \/ ListTemplates
  \/ \E ns \in Namespace : ListPods(ns)
  \/ \E t \in Template : HandleTemplate(t)
  \/ ListClaims
  \/ \E c \in Claim : HandleClaim(c)
  \/ Finish

Next ==
  \/ Pass \/ Crash \/ Tick
  \/ \E p \in Pod : Admit(p) \/ Store(p) \/ Leave(p)
  \/ \E o \in Object : Remove(o)

Spec == Init /\ [][Next]_vars

\* The ticker of Run keeps the passes coming, and time passes.
FairSpec == Spec /\ WF_vars(Pass) /\ WF_vars(Tick)

-----------------------------------------------------------------------------

\* Types; only objects that exist are annotated, and a pass has something left
\* to look at in the phases that look at objects.
TypeOK ==
  /\ exists \subseteq Object /\ annotated \subseteq exists
  /\ pod \in [Pod -> {"absent", "admitted", "stored"}]
  /\ records \in [Object -> Record] /\ disk \in [Object -> Record]
  /\ pc \in PCs
  /\ listed \subseteq (IF pc \in {"pods", "templates"} THEN Template ELSE FromTemplate)
  /\ marked \subseteq Object /\ unread \subseteq Namespace /\ refs \subseteq Template
  /\ listed # {} <=> pc \in {"pods", "templates", "owners"}
  /\ unread # {} <=> pc = "pods"
  /\ due \in BOOLEAN /\ faults \in 0 .. MaxFaults
  /\ seen \subseteq Stored
  /\ lifetime \in [Object -> 0 .. GracePeriod]
  /\ idle \in [Template -> 0 .. IdleBound]

\* The reconciler deletes o in this step.
Reaps(o) == o \in exists \ exists' /\ listed' # listed

(***************************************************************************)
(* reconciler.go:94, "A template is orphaned if no pod references it": a   *)
(* template is never reaped while a pod that references it has been there  *)
(* since before the pass listed the pods of its namespace                  *)
(* (reconcileTemplates, reapTemplate).                                     *)
(***************************************************************************)
InUseSpared ==
  [][\A t \in Template : Reaps(t) => \A p \in seen : t \notin Uses[p]]_vars

(***************************************************************************)
(* config.go:23, "GracePeriod is how long an orphan must be detected       *)
(* before it can be auto-reaped": no object is reaped within GracePeriod   *)
(* of its creation (RecordOrphan, MarkReaped, GetOrphan).                  *)
(***************************************************************************)
NewbornSpared ==
  [][\A o \in Object : Reaps(o) => lifetime[o] = GracePeriod]_vars

(***************************************************************************)
(* With a pass in every tick, a template that nothing references is reaped *)
(* before it has been unused for longer than a reaped record of the same   *)
(* name is kept, and a grace period (PruneReapedOlderThan, GetOrphan).     *)
(***************************************************************************)
ReapedInTime ==
  \A t \in Template : idle[t] <= PruneAfter + GracePeriod + 2

(***************************************************************************)
(* config.go:20, "AutoReap enables automatic deletion of orphaned          *)
(* resources after the grace period": a template that is no longer         *)
(* referenced is deleted in the end, unless a pod references it again,     *)
(* whatever failed before.                                                 *)
(***************************************************************************)
OrphanReaped ==
  \A t \in Template :
    (t \in exists /\ ~Referenced(t)) ~> (t \notin exists \/ Referenced(t))
=============================================================================
