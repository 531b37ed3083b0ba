-------------------------- MODULE ReconcilerProofs --------------------------
(***************************************************************************)
(* What the reconciler spares, for all templates, pods, namespaces, claims *)
(* and configurations, and any number of faults of the kinds allowed.      *)
(***************************************************************************)
EXTENDS Reconciler, FiniteSetTheorems, TLAPS

LEMMA FaultKindsFinite == IsFiniteSet(FaultKinds)
<1>. DEFINE A == {"templates", "pods", "annotate"}
            B == A \union {"delete"} \union {"claims"} \union {"owner"}
            C == B \union {"save"} \union {"crash"} \union {"removal"}
<1>1. IsFiniteSet({} \union {"templates"} \union {"pods"} \union {"annotate"})
  BY FS_EmptySet, FS_AddElement
<1>2. A = {} \union {"templates"} \union {"pods"} \union {"annotate"}
  OBVIOUS
<1>3. IsFiniteSet(A)
  BY <1>1, <1>2
<1>4. IsFiniteSet(B)
  <2>. HIDE DEF A
  <2>. QED  BY <1>3, FS_AddElement
<1>5. IsFiniteSet(C)
  <2>. HIDE DEF B
  <2>. QED  BY <1>4, FS_AddElement
<1>6. FaultKinds = C
  BY DEF FaultKinds
<1>. QED
  BY <1>5, <1>6

\* The count of faults stays within its bound, and only the kinds allowed happen.
LEMMA FailType ==
  ASSUME NEW F, NEW kinds, faults \in 0 .. MaxFaults, Fail(F, kinds)
  PROVE  faults' \in 0 .. MaxFaults /\ F \subseteq Faults
<1>1. F \in SUBSET FaultKinds
  BY ReconcilerAssumption DEF Fail
<1>2. Cardinality(F) \in Nat
  BY <1>1, FaultKindsFinite, FS_Subset, FS_CardinalityType
<1>. QED
  BY <1>2, ReconcilerAssumption DEF Fail

\* The records the code writes are records.
LEMMA RecordTypes ==
  /\ NoRecord \in Record /\ Active(0) \in Record /\ Reaped(0) \in Record
  /\ \A r \in Record : Aged(r) \in Record
<1>1. NoRecord \in Record /\ Active(0) \in Record /\ Reaped(0) \in Record
  BY ReconcilerAssumption DEF Record
<1>2. ASSUME NEW r \in Record PROVE Aged(r) \in Record
  <2>1. CASE r = NoRecord
    BY <2>1, <1>1 DEF Aged, NoRecord
  <2>2. CASE \E a \in 0 .. GracePeriod : r = Active(a)
    <3>1. PICK a \in 0 .. GracePeriod : r = Active(a)
      BY <2>2
    <3>2. r.state = "active" /\ r.age = a
      BY <3>1 DEF Active
    <3>3. Older(a, GracePeriod) \in 0 .. GracePeriod
      BY ReconcilerAssumption DEF Older
    <3>. QED
      BY <3>2, <3>3 DEF Aged, Record
  <2>3. CASE \E a \in 0 .. PruneAfter + 1 : r = Reaped(a)
    <3>1. PICK a \in 0 .. PruneAfter + 1 : r = Reaped(a)
      BY <2>3
    <3>2. r.state = "reaped" /\ r.age = a
      BY <3>1 DEF Reaped
    <3>3. Older(a, PruneAfter + 1) \in 0 .. PruneAfter + 1
      BY ReconcilerAssumption DEF Older
    <3>. QED
      BY <3>2, <3>3 DEF Aged, Record
  <2>. QED
    BY <2>1, <2>2, <2>3 DEF Record
<1>. QED
  BY <1>1, <1>2

\* What handling an orphan does, as far as the proofs below use it.
LEMMA HandleOrphanedEffect ==
  ASSUME TypeOK, NEW o \in Object, handleOrphaned(o)
  PROVE  /\ faults' \in 0 .. MaxFaults
         /\ records' \in [Object -> Record]
         /\ annotated' \subseteq exists'
         /\ exists' \subseteq exists
         /\ exists \ {o} \subseteq exists'
         /\ \A x \in Object \ {o} : records'[x] = records[x]
         /\ records'[o].state = "active" =>
              /\ exists' = exists
              /\ records'[o] = records[o] \/ records'[o] = Active(0)
         /\ exists' # exists =>
              \/ GracePeriod = 0
              \/ records[o].state = "active" /\ records[o].age >= GracePeriod
<1>. DEFINE recorded == RecordOrphan(o)
<1>1. PICK F \in SUBSET {"annotate", "delete"} :
        /\ Fail(F, {"annotate", "delete"})
        /\ LET annotate == o \in exists \ marked /\ "annotate" \notin F
               reap == AutoReap /\ PastGrace(recorded, o) /\ "delete" \notin F
           IN  /\ records' = IF reap THEN MarkReaped(recorded, o) ELSE recorded
               /\ exists' = IF reap THEN exists \ {o} ELSE exists
               /\ annotated' = (IF annotate THEN annotated \union {o} ELSE annotated)
                                 \intersect exists'
  BY DEF handleOrphaned
<1>2. faults' \in 0 .. MaxFaults
  BY <1>1, FailType DEF TypeOK
<1>3. /\ recorded \in [Object -> Record]
      /\ \A x \in Object \ {o} : recorded[x] = records[x]
      /\ recorded[o] = records[o] \/ recorded[o] = Active(0)
  BY RecordTypes DEF TypeOK, RecordOrphan
<1>4. /\ MarkReaped(recorded, o) \in [Object -> Record]
      /\ \A x \in Object \ {o} : MarkReaped(recorded, o)[x] = records[x]
      /\ MarkReaped(recorded, o)[o] = Reaped(0)
  <2>. HIDE DEF recorded
  <2>. QED  BY <1>3, RecordTypes DEF MarkReaped
<1>5. PastGrace(recorded, o) =>
        \/ GracePeriod = 0
        \/ records[o].state = "active" /\ records[o].age >= GracePeriod
  <2>. HIDE DEF recorded
  <2>. QED  BY <1>3, ReconcilerAssumption DEF PastGrace, Active
<1>6. Reaped(0).state = "reaped"
  BY DEF Reaped
<1>. HIDE DEF recorded
<1>. QED
  BY <1>1, <1>2, <1>3, <1>4, <1>5, <1>6

-----------------------------------------------------------------------------
(***************************************************************************)
(* Type correctness.                                                       *)
(***************************************************************************)

LEMMA InitTypeOK == Init => TypeOK
<1>. SUFFICES ASSUME Init PROVE TypeOK
  OBVIOUS
<1>1. UNION {Uses[p] : p \in Stored} \subseteq Template
  BY ReconcilerAssumption DEF Stored
<1>2. records \in [Object -> Record] /\ disk \in [Object -> Record]
  BY RecordTypes DEF Init
<1>3. 0 \in 0 .. GracePeriod /\ 0 \in 0 .. IdleBound /\ 0 \in 0 .. MaxFaults
  BY ReconcilerAssumption
<1>. QED
  BY <1>1, <1>2, <1>3 DEF Init, TypeOK, Object, PCs

LEMMA NextTypeOK == TypeOK /\ [Next]_vars => TypeOK'
<1>. SUFFICES ASSUME TypeOK, [Next]_vars PROVE TypeOK'
  OBVIOUS
<1>0. /\ faults \in 0 .. MaxFaults
      /\ \A p \in Pod : Uses[p] \subseteq Template
      /\ \A x \in Template \union Pod : Home[x] \in Namespace
      /\ Template \subseteq Object /\ FromTemplate \subseteq Object
  BY ReconcilerAssumption DEF TypeOK, Object
<1>1. CASE ListTemplates
  <2>1. faults' \in 0 .. MaxFaults
    BY <1>0, <1>1, FailType DEF ListTemplates
  <2>2. /\ listed' \subseteq Template
        /\ unread' \subseteq Namespace
        /\ listed' # {} <=> unread' # {}
    BY <1>0, <1>1 DEF ListTemplates
  <2>. QED
    BY <1>0, <1>1, <2>1, <2>2
    DEF ListTemplates, TypeOK, cluster, PCs, Stored
<1>2. ASSUME NEW ns \in Namespace, ListPods(ns) PROVE TypeOK'
  <2>1. faults' \in 0 .. MaxFaults
    BY <1>0, <1>2, FailType DEF ListPods
  <2>2. refs' \subseteq Template /\ seen' \subseteq Stored'
    BY <1>0, <1>2 DEF ListPods, WithReferences, PodsIn, Stored, TypeOK, cluster
  <2>. QED
    BY <1>2, <2>1, <2>2 DEF ListPods, TypeOK, cluster, PCs
<1>3. ASSUME NEW t \in Template, HandleTemplate(t) PROVE TypeOK'
  <2>1. /\ faults' \in 0 .. MaxFaults
        /\ records' \in [Object -> Record]
        /\ annotated' \subseteq exists' /\ exists' \subseteq exists
    <3>1. CASE t \in refs
      BY <1>0, <1>3, <3>1, RecordTypes DEF HandleTemplate, ClearResolved, TypeOK
    <3>2. CASE t \notin refs
      BY <1>0, <1>3, <3>2, HandleOrphanedEffect DEF HandleTemplate
    <3>. QED
      BY <3>1, <3>2
  <2>. QED
    BY <1>3, <2>1 DEF HandleTemplate, TypeOK, PCs, Stored
<1>4. CASE ListClaims
  <2>1. faults' \in 0 .. MaxFaults
    BY <1>0, <1>4, FailType DEF ListClaims
  <2>. QED
    BY <1>0, <1>4, <2>1 DEF ListClaims, TypeOK, cluster, PCs, Stored
<1>5. ASSUME NEW c \in Claim, HandleClaim(c) PROVE TypeOK'
  <2>1. /\ faults' \in 0 .. MaxFaults
        /\ records' \in [Object -> Record]
        /\ annotated' \subseteq exists' /\ exists' \subseteq exists
    <3>0. c \in Object
      BY DEF Object
    <3>1. CASE records' = ClearResolved(c) /\ UNCHANGED <<exists, annotated, faults>>
      BY <3>0, <3>1, RecordTypes DEF ClearResolved, TypeOK
    <3>2. CASE handleOrphaned(c)
      BY <3>0, <3>2, HandleOrphanedEffect
    <3>3. CASE Fail({"owner"}, {"owner"}) /\ UNCHANGED <<exists, annotated, records>>
      BY <1>0, <3>3, FailType DEF TypeOK
    <3>. QED
      BY <1>5, <3>1, <3>2, <3>3 DEF HandleClaim
  <2>. QED
    BY <1>5, <2>1 DEF HandleClaim, TypeOK, PCs, Stored
<1>6. CASE Finish
  <2>1. faults' \in 0 .. MaxFaults
    BY <1>0, <1>6, FailType DEF Finish
  <2>2. records' \in [Object -> Record] /\ disk' \in [Object -> Record]
    BY <1>6, RecordTypes DEF Finish, PruneReapedOlderThan, TypeOK
  <2>. QED
    BY <1>6, <2>1, <2>2 DEF Finish, TypeOK, cluster, PCs, Stored
<1>7. CASE Crash
  <2>1. faults' \in 0 .. MaxFaults
    BY <1>0, <1>7, FailType DEF Crash
  <2>. QED
    BY <1>7, <2>1 DEF Crash, TypeOK, cluster, PCs, Stored
<1>8. CASE Tick
  <2>1. records' \in [Object -> Record] /\ disk' \in [Object -> Record]
    BY <1>8, RecordTypes DEF Tick, TypeOK
  <2>2. /\ lifetime' \in [Object -> 0 .. GracePeriod]
        /\ idle' \in [Template -> 0 .. IdleBound]
    BY <1>8, ReconcilerAssumption DEF Tick, TypeOK, Older
  <2>. QED
    BY <1>8, <2>1, <2>2, ReconcilerAssumption DEF Tick, TypeOK, pass, Stored
<1>9. ASSUME NEW p \in Pod, Admit(p) PROVE TypeOK'
  <2>1. /\ lifetime' \in [Object -> 0 .. GracePeriod]
        /\ idle' \in [Template -> 0 .. IdleBound]
    BY <1>9, ReconcilerAssumption DEF Admit, TypeOK
  <2>2. exists' \subseteq Object /\ annotated' \subseteq exists'
    BY <1>0, <1>9 DEF Admit, TypeOK
  <2>3. seen' \subseteq Stored'
    BY <1>9 DEF Admit, TypeOK, Stored
  <2>. QED
    BY <1>9, <2>1, <2>2, <2>3 DEF Admit, TypeOK, pass
<1>10. ASSUME NEW p \in Pod, Store(p) PROVE TypeOK'
  <2>1. idle' \in [Template -> 0 .. IdleBound]
    BY <1>10, ReconcilerAssumption DEF Store, TypeOK
  <2>. QED
    BY <1>10, <2>1 DEF Store, TypeOK, pass, Stored
<1>11. ASSUME NEW p \in Pod, Leave(p) PROVE TypeOK'
  BY <1>11 DEF Leave, TypeOK, pass, Stored
<1>12. ASSUME NEW o \in Object, Remove(o) PROVE TypeOK'
  <2>1. faults' \in 0 .. MaxFaults
    BY <1>0, <1>12, FailType DEF Remove
  <2>. QED
    BY <1>12, <2>1 DEF Remove, TypeOK, pass, Stored
<1>13. CASE UNCHANGED vars
  BY <1>13 DEF vars, cluster, pass, TypeOK, Stored
<1>. QED
  BY <1>1, <1>2, <1>3, <1>4, <1>5, <1>6, <1>7, <1>8, <1>9, <1>10, <1>11, <1>12, <1>13
  DEF Next, Pass

(***************************************************************************)
(* TypeOK is an invariant: the pass visits its phases with work left in    *)
(* each, and only existing objects carry the annotation.                   *)
(***************************************************************************)
THEOREM ReconcilerTypeOK == Spec => []TypeOK
  BY InitTypeOK, NextTypeOK, PTL DEF Spec

-----------------------------------------------------------------------------
(***************************************************************************)
(* A referenced template is spared, as long as pod lists do not fail.      *)
(***************************************************************************)

\* What the pods seen reference has been collected in referencedTemplates.
SeenIsReferenced == \A p \in seen : Uses[p] \subseteq refs

LEMMA NextSeen ==
  ASSUME "pods" \notin Faults, TypeOK, SeenIsReferenced, [Next]_vars
  PROVE  SeenIsReferenced'
<1>1. ASSUME NEW ns \in Namespace, ListPods(ns) PROVE SeenIsReferenced'
  <2>1. PICK F \in SUBSET {"pods"} :
          /\ Fail(F, {"pods"})
          /\ refs' = IF F = {} THEN WithReferences(ns) ELSE refs
    BY <1>1 DEF ListPods
  <2>2. F = {}
    BY <2>1, FailType DEF TypeOK
  <2>. QED
    BY <1>1, <2>1, <2>2 DEF ListPods, WithReferences, SeenIsReferenced
<1>2. ASSUME NEW t \in Template, HandleTemplate(t) PROVE SeenIsReferenced'
  BY <1>2 DEF HandleTemplate, SeenIsReferenced
<1>3. CASE Crash
  BY <1>3 DEF Crash, SeenIsReferenced
<1>4. ASSUME NEW p \in Pod, Leave(p) PROVE SeenIsReferenced'
  BY <1>4 DEF Leave, SeenIsReferenced, pass
<1>5. ASSUME UNCHANGED <<seen, refs>> PROVE SeenIsReferenced'
  BY <1>5 DEF SeenIsReferenced
<1>6. \/ ListTemplates \/ ListClaims \/ Finish \/ Tick \/ UNCHANGED vars
      \/ \E c \in Claim : HandleClaim(c)
      \/ \E p \in Pod : Admit(p) \/ Store(p)
      \/ \E o \in Object : Remove(o)
      => UNCHANGED <<seen, refs>>
  BY DEF ListTemplates, ListClaims, Finish, Tick, vars, HandleClaim, Admit, Store,
         Remove, pass
<1>. QED
  BY <1>1, <1>2, <1>3, <1>4, <1>5, <1>6 DEF Next, Pass

\* Only the handling of a listed template takes one from the API server within
\* a step that changes the list.
LEMMA TemplateReaped ==
  ASSUME TypeOK, [Next]_vars, NEW t \in Template, Reaps(t)
  PROVE  HandleTemplate(t) /\ t \notin refs /\ handleOrphaned(t)
<1>0. t \in Object /\ t \notin Claim
  BY ReconcilerAssumption DEF Object
<1>1. ASSUME NEW u \in Template, HandleTemplate(u)
      PROVE  HandleTemplate(t) /\ t \notin refs /\ handleOrphaned(t)
  <2>1. u \notin refs /\ handleOrphaned(u)
    BY <1>1 DEF HandleTemplate, Reaps
  <2>2. u \in Object
    BY DEF Object
  <2>3. t = u
    BY <2>1, <2>2, HandleOrphanedEffect DEF Reaps
  <2>. QED
    BY <1>1, <2>1, <2>3
<1>2. ASSUME NEW c \in Claim, HandleClaim(c) PROVE FALSE
  <2>1. c \in Object /\ c # t
    BY <1>0 DEF Object
  <2>2. exists' # exists
    BY DEF Reaps
  <2>3. handleOrphaned(c)
    BY <1>2, <2>2 DEF HandleClaim
  <2>. QED
    BY <2>1, <2>3, HandleOrphanedEffect DEF Reaps
<1>3. ASSUME NEW p \in Pod, Admit(p) \/ Store(p) \/ Leave(p) PROVE FALSE
  BY <1>3 DEF Admit, Store, Leave, Reaps
<1>4. ASSUME NEW o \in Object, Remove(o) PROVE FALSE
  BY <1>4 DEF Remove, Reaps, pass
<1>5. ASSUME NEW ns \in Namespace, ListPods(ns) PROVE FALSE
  BY <1>5 DEF ListPods, Reaps, cluster
<1>6. ASSUME ListTemplates \/ ListClaims \/ Finish \/ Crash \/ Tick \/ UNCHANGED vars
      PROVE  FALSE
  BY <1>6 DEF ListTemplates, ListClaims, Finish, Crash, Tick, vars, Reaps, cluster
<1>. QED
  BY <1>1, <1>2, <1>3, <1>4, <1>5, <1>6 DEF Next, Pass

(***************************************************************************)
(* If listing pods never fails, no template is reaped while a pod that was *)
(* there when its namespace was listed references it, whatever else fails  *)
(* and however the webhook and the API server interleave with the pass.    *)
(***************************************************************************)
THEOREM ReconcilerInUseSpared ==
  ASSUME "pods" \notin Faults
  PROVE  Spec => InUseSpared
<1>1. Init => SeenIsReferenced
  BY DEF Init, SeenIsReferenced
<1>2. TypeOK /\ SeenIsReferenced /\ [Next]_vars => SeenIsReferenced'
  BY NextSeen
<1>3. TypeOK /\ SeenIsReferenced /\ [Next]_vars
        => [\A t \in Template : Reaps(t) => \A p \in seen : t \notin Uses[p]]_vars
  BY TemplateReaped DEF SeenIsReferenced
<1>. QED
  BY <1>1, <1>2, <1>3, ReconcilerTypeOK, PTL DEF Spec, InUseSpared

-----------------------------------------------------------------------------
(***************************************************************************)
(* A new object is spared, as long as the reconciler forgets nothing and   *)
(* nobody else deletes templates.                                          *)
(***************************************************************************)

\* An active record is no older than its object and, for a template, belongs to
\* the one that exists; so does every template the pass has listed.
RecordsAreOfThisLife ==
  /\ \A o \in Object : records[o].state = "active" =>
       /\ records[o].age <= lifetime[o]
       /\ o \in Template => o \in exists
  /\ pc \in {"pods", "templates"} => listed \subseteq exists

LEMMA NextLife ==
  ASSUME Faults \intersect {"crash", "removal"} = {},
         TypeOK, TypeOK', RecordsAreOfThisLife, [Next]_vars
  PROVE  RecordsAreOfThisLife'
<1>0. /\ Template \subseteq Object /\ Claim \subseteq Object
      /\ Template \intersect Claim = {}
      /\ \A p \in Pod : Uses[p] \subseteq Template
      /\ faults \in 0 .. MaxFaults
      /\ NoRecord.state = "none" /\ Active(0).age = 0
      /\ \A o \in Object : lifetime[o] \in Nat
  BY ReconcilerAssumption DEF Object, NoRecord, Active, TypeOK
<1>1. CASE ListTemplates
  BY <1>1 DEF ListTemplates, RecordsAreOfThisLife, cluster
<1>2. ASSUME NEW ns \in Namespace, ListPods(ns) PROVE RecordsAreOfThisLife'
  BY <1>2 DEF ListPods, RecordsAreOfThisLife, cluster
<1>3. ASSUME NEW t \in Template, HandleTemplate(t) PROVE RecordsAreOfThisLife'
  <2>1. t \in exists
    BY <1>3 DEF HandleTemplate, RecordsAreOfThisLife
  <2>2. CASE t \in refs
    <3>1. exists' = exists /\ lifetime' = lifetime
      BY <1>3, <2>2, <1>0, HandleOrphanedEffect DEF HandleTemplate
    <3>2. \A o \in Object : records'[o].state = "active" => records'[o] = records[o]
      BY <1>0, <1>3, <2>2 DEF HandleTemplate, ClearResolved, TypeOK
    <3>. QED
      BY <1>3, <3>1, <3>2 DEF HandleTemplate, RecordsAreOfThisLife
  <2>3. CASE t \notin refs
    <3>1. handleOrphaned(t) /\ lifetime' = lifetime
      BY <1>3, <2>3 DEF HandleTemplate
    <3>2. /\ exists' \subseteq exists /\ exists \ {t} \subseteq exists'
          /\ \A x \in Object \ {t} : records'[x] = records[x]
          /\ records'[t].state = "active" =>
               /\ exists' = exists
               /\ records'[t] = records[t] \/ records'[t] = Active(0)
      BY <1>0, <3>1, HandleOrphanedEffect
    <3>3. ASSUME NEW o \in Object, records'[o].state = "active"
          PROVE  records'[o].age <= lifetime'[o] /\ (o \in Template => o \in exists')
      <4>1. CASE o = t
        BY <1>0, <2>1, <3>1, <3>2, <3>3, <4>1 DEF RecordsAreOfThisLife
      <4>2. CASE o # t
        BY <3>1, <3>2, <3>3, <4>2 DEF RecordsAreOfThisLife
      <4>. QED
        BY <4>1, <4>2
    <3>. QED
      BY <1>3, <3>2, <3>3 DEF HandleTemplate, RecordsAreOfThisLife
  <2>. QED
    BY <2>2, <2>3
<1>4. CASE ListClaims
  BY <1>4 DEF ListClaims, RecordsAreOfThisLife, cluster
<1>5. ASSUME NEW c \in Claim, HandleClaim(c) PROVE RecordsAreOfThisLife'
  <2>1. /\ pc' \notin {"pods", "templates"}
        /\ lifetime' = lifetime
    BY <1>5 DEF HandleClaim
  <2>2. /\ exists \intersect Template \subseteq exists'
        /\ \A o \in Object : records'[o].state = "active" =>
             records'[o] = records[o] \/ (o = c /\ records'[o] = Active(0))
    <3>1. CASE records' = ClearResolved(c) /\ UNCHANGED <<exists, annotated, faults>>
      BY <1>0, <3>1 DEF ClearResolved, TypeOK
    <3>2. CASE handleOrphaned(c)
      BY <1>0, <3>2, HandleOrphanedEffect
    <3>3. CASE UNCHANGED <<exists, annotated, records>>
      BY <3>3
    <3>. QED
      BY <1>5, <3>1, <3>2, <3>3 DEF HandleClaim
  <2>. QED
    BY <1>0, <2>1, <2>2 DEF RecordsAreOfThisLife
<1>6. CASE Finish
  <2>1. \A o \in Object : records'[o].state = "active" => records'[o] = records[o]
    BY <1>0, <1>6 DEF Finish, PruneReapedOlderThan
  <2>. QED
    BY <1>6, <2>1 DEF Finish, RecordsAreOfThisLife, cluster
<1>7. ASSUME Crash PROVE FALSE
  BY <1>0, <1>7, FailType DEF Crash
<1>8. CASE Tick
  <2>1. ASSUME NEW o \in Object, records'[o].state = "active"
        PROVE  records[o].state = "active" /\ records'[o].age <= lifetime'[o]
    <3>1. records[o] \in Record /\ records'[o] = Aged(records[o])
      BY <1>8 DEF Tick, TypeOK
    <3>2. records[o].state = "active"
      BY <2>1, <3>1 DEF Aged, Reaped
    <3>3. records'[o].age = Older(records[o].age, GracePeriod)
      BY <3>1, <3>2 DEF Aged, Active
    <3>4. records[o].age \in Nat
      BY <3>1, ReconcilerAssumption DEF Record, NoRecord, Active, Reaped
    <3>5. lifetime'[o] = Older(lifetime[o], GracePeriod)
      BY <1>8 DEF Tick
    <3>6. records[o].age <= lifetime[o] /\ lifetime[o] \in 0 .. GracePeriod
      BY <3>2 DEF RecordsAreOfThisLife, TypeOK
    <3>. QED
      BY <3>2, <3>3, <3>4, <3>5, <3>6, ReconcilerAssumption DEF Older
  <2>. QED
    BY <1>8, <2>1 DEF Tick, RecordsAreOfThisLife, pass
<1>9. ASSUME NEW p \in Pod, Admit(p) PROVE RecordsAreOfThisLife'
  <2>1. ASSUME NEW o \in Object, records[o].state = "active"
        PROVE  lifetime'[o] = lifetime[o]
    BY <1>0, <1>9, <2>1 DEF Admit, RecordsAreOfThisLife
  <2>. QED
    BY <1>9, <2>1 DEF Admit, RecordsAreOfThisLife, pass
<1>10. ASSUME NEW p \in Pod, Store(p) \/ Leave(p) PROVE RecordsAreOfThisLife'
  BY <1>10 DEF Store, Leave, RecordsAreOfThisLife, pass
<1>11. ASSUME NEW o \in Object, Remove(o) PROVE RecordsAreOfThisLife'
  <2>1. o \in Claim
    BY <1>0, <1>11, FailType DEF Remove
  <2>2. listed' = listed /\ pc' = pc
    BY <1>11 DEF Remove, pass
  <2>3. pc \in {"pods", "templates"} => listed \subseteq Template
    BY DEF TypeOK
  <2>. QED
    BY <1>0, <1>11, <2>1, <2>2, <2>3 DEF Remove, RecordsAreOfThisLife
<1>12. CASE UNCHANGED vars
  BY <1>12 DEF vars, cluster, pass, RecordsAreOfThisLife
<1>. QED
  BY <1>1, <1>2, <1>3, <1>4, <1>5, <1>6, <1>7, <1>8, <1>9, <1>10, <1>11, <1>12
  DEF Next, Pass

\* What is reaped was recorded a grace period ago, in its present life.
LEMMA ReapedIsOld ==
  ASSUME TypeOK, RecordsAreOfThisLife, [Next]_vars, NEW o \in Object, Reaps(o)
  PROVE  lifetime[o] = GracePeriod
<1>0. lifetime[o] \in 0 .. GracePeriod
  BY DEF TypeOK
<1>1. handleOrphaned(o)
  <2>1. CASE o \in Template
    BY <2>1, TemplateReaped
  <2>2. CASE o \in Claim
    <3>1. ASSUME NEW c \in Claim, HandleClaim(c) PROVE handleOrphaned(o)
      <4>1. c \in Object
        BY DEF Object
      <4>2. handleOrphaned(c)
        BY <3>1 DEF HandleClaim, Reaps
      <4>3. o = c
        BY <4>1, <4>2, HandleOrphanedEffect DEF Reaps
      <4>. QED
        BY <4>2, <4>3
    <3>2. ASSUME NEW t \in Template, HandleTemplate(t) PROVE FALSE
      <4>1. t \in Object /\ t # o
        BY <2>2, ReconcilerAssumption DEF Object
      <4>2. handleOrphaned(t)
        BY <3>2 DEF HandleTemplate, Reaps
      <4>. QED
        BY <4>1, <4>2, HandleOrphanedEffect DEF Reaps
    <3>3. ASSUME NEW p \in Pod, Admit(p) \/ Store(p) \/ Leave(p) PROVE FALSE
      BY <3>3 DEF Admit, Store, Leave, Reaps
    <3>4. ASSUME NEW x \in Object, Remove(x) PROVE FALSE
      BY <3>4 DEF Remove, Reaps, pass
    <3>5. ASSUME NEW ns \in Namespace, ListPods(ns) PROVE FALSE
      BY <3>5 DEF ListPods, Reaps, cluster
    <3>6. ASSUME ListTemplates \/ ListClaims \/ Finish \/ Crash \/ Tick \/ UNCHANGED vars
          PROVE  FALSE
      BY <3>6 DEF ListTemplates, ListClaims, Finish, Crash, Tick, vars, Reaps, cluster
    <3>. QED
      BY <3>1, <3>2, <3>3, <3>4, <3>5, <3>6 DEF Next, Pass
  <2>. QED
    BY <2>1, <2>2 DEF Object
<1>2. \/ GracePeriod = 0
      \/ records[o].state = "active" /\ records[o].age >= GracePeriod
  BY <1>1, HandleOrphanedEffect DEF Reaps
<1>3. records[o].state = "active" => records[o].age <= lifetime[o]
  BY DEF RecordsAreOfThisLife
<1>4. records[o].age \in Nat
  <2>1. records[o] \in Record
    BY DEF TypeOK
  <2>. QED
    BY <2>1, ReconcilerAssumption DEF Record, NoRecord, Active, Reaped
<1>. QED
  BY <1>0, <1>2, <1>3, <1>4, ReconcilerAssumption

(***************************************************************************)
(* If the reconciler is not killed and nobody else deletes templates, no   *)
(* template or claim is reaped within a grace period of its creation: the  *)
(* record of an earlier object of the same name never counts for it.       *)
(***************************************************************************)
THEOREM ReconcilerNewbornSpared ==
  ASSUME Faults \intersect {"crash", "removal"} = {}
  PROVE  Spec => NewbornSpared
<1>1. Init => RecordsAreOfThisLife
  BY DEF Init, RecordsAreOfThisLife, NoRecord
<1>2. TypeOK /\ TypeOK' /\ RecordsAreOfThisLife /\ [Next]_vars => RecordsAreOfThisLife'
  BY NextLife
<1>3. TypeOK /\ RecordsAreOfThisLife /\ [Next]_vars
        => [\A o \in Object : Reaps(o) => lifetime[o] = GracePeriod]_vars
  BY ReapedIsOld
<1>. QED
  BY <1>1, <1>2, <1>3, ReconcilerTypeOK, PTL DEF Spec, NewbornSpared

-----------------------------------------------------------------------------
(***************************************************************************)
(* Nothing is left lying about.                                            *)
(***************************************************************************)

\* The pass since the last tick has looked at the template, or need not.
LookedAt(t) == ~due /\ ~(pc \in {"pods", "templates"} /\ t \in listed)

\* How long a template may have been unused, given its record.
UnusedFor(t) ==
  /\ records[t].state = "none" => idle[t] <= PruneAfter + 2
  /\ records[t].state = "active" => idle[t] <= PruneAfter + 2 + records[t].age
  /\ records[t].state = "reaped" => idle[t] <= records[t].age

UnusedOnceLookedAt(t) ==
  LookedAt(t) /\ idle[t] # 0 =>
    /\ records[t].state = "none" => idle[t] <= PruneAfter + 1
    /\ records[t].state = "active" => records[t].age < GracePeriod

UsedNow ==
  /\ pc \notin {"pods", "templates"} => refs = {}
  /\ \A t \in Template : Referenced(t) \/ t \in refs => idle[t] = 0

Pruned ==
  pc = "waiting" /\ ~due =>
    \A t \in Template : records[t].state = "reaped" => records[t].age <= PruneAfter

InTime ==
  /\ ReapedInTime
  /\ \A t \in Template \intersect exists : UnusedFor(t) /\ UnusedOnceLookedAt(t)
  /\ UsedNow /\ Pruned

LEMMA RecordKinds ==
  ASSUME NEW r \in Record
  PROVE  \/ r = NoRecord /\ r.state = "none"
         \/ r.state = "active" /\ r.age \in 0 .. GracePeriod /\ r = Active(r.age)
         \/ r.state = "reaped" /\ r.age \in 0 .. PruneAfter + 1 /\ r = Reaped(r.age)
  BY DEF Record, NoRecord, Active, Reaped

LEMMA AgedKinds ==
  ASSUME NEW r \in Record
  PROVE  /\ Aged(r).state = r.state
         /\ r.state = "active" => Aged(r).age = Older(r.age, GracePeriod)
         /\ r.state = "reaped" => Aged(r).age = Older(r.age, PruneAfter + 1)
<1>1. CASE r.state = "none"
  BY <1>1 DEF Aged
<1>2. CASE r.state = "active"
  <2>1. Aged(r) = Active(Older(r.age, GracePeriod))
    BY <1>2 DEF Aged
  <2>. QED
    BY <1>2, <2>1 DEF Active
<1>3. CASE r.state = "reaped"
  <2>1. Aged(r) = Reaped(Older(r.age, PruneAfter + 1))
    BY <1>3 DEF Aged
  <2>. QED
    BY <1>3, <2>1 DEF Reaped
<1>. QED
  BY <1>1, <1>2, <1>3, RecordKinds

\* An orphan that is handled and still there is on record, within its grace period.
LEMMA HandledOnTime ==
  ASSUME AutoReap, "delete" \notin Faults, TypeOK,
         NEW t \in Object, handleOrphaned(t), t \in exists'
  PROVE  \/ records'[t] = records[t] /\ records[t].state = "reaped"
         \/ /\ records'[t] = records[t] /\ records[t].state = "active"
            /\ records[t].age < GracePeriod
         \/ records[t] = NoRecord /\ records'[t] = Active(0) /\ 0 < GracePeriod
<1>. DEFINE recorded == RecordOrphan(t)
<1>1. PICK F \in SUBSET {"annotate", "delete"} :
        /\ Fail(F, {"annotate", "delete"})
        /\ LET reap == AutoReap /\ PastGrace(recorded, t) /\ "delete" \notin F
           IN  /\ records' = IF reap THEN MarkReaped(recorded, t) ELSE recorded
               /\ exists' = IF reap THEN exists \ {t} ELSE exists
  BY DEF handleOrphaned
<1>2. "delete" \notin F
  BY <1>1 DEF Fail
<1>3. ~PastGrace(recorded, t) /\ records' = recorded
  <2>. HIDE DEF recorded
  <2>. QED  BY <1>1, <1>2
<1>4. recorded[t] = IF records[t] = NoRecord THEN Active(0) ELSE records[t]
  BY DEF RecordOrphan, TypeOK
<1>5. records[t] \in Record
  BY DEF TypeOK
<1>6. /\ records[t] = NoRecord => records[t].state = "none"
      /\ Active(0).state = "active" /\ Active(0).age = 0
  BY DEF NoRecord, Active
<1>. HIDE DEF recorded
<1>. QED
  BY <1>3, <1>4, <1>5, <1>6, RecordKinds, ReconcilerAssumption DEF PastGrace

LEMMA InitInTime == Init => InTime
<1>. SUFFICES ASSUME Init PROVE InTime
  OBVIOUS
<1>1. \A t \in Template : records[t] = NoRecord /\ NoRecord.state = "none" /\ idle[t] = 0
  BY DEF Init, Object, NoRecord
<1>2. due /\ refs = {}
  BY DEF Init
<1>. QED
  BY <1>1, <1>2, ReconcilerAssumption
  DEF InTime, ReapedInTime, UnusedFor, UnusedOnceLookedAt, LookedAt, UsedNow, Pruned

LEMMA NextInTime ==
  ASSUME Timely, AutoReap, Faults \intersect {"templates", "delete", "crash"} = {},
         TypeOK, InTime, [Next]_vars
  PROVE  InTime'
<1>0. /\ Template \subseteq Object /\ Claim \subseteq Object
      /\ Template \intersect Claim = {}
      /\ \A p \in Pod : Uses[p] \subseteq Template
      /\ PruneAfter \in Nat /\ GracePeriod \in Nat
      /\ \A t \in Template : idle[t] \in Nat /\ records[t] \in Record
      /\ faults \in 0 .. MaxFaults
  BY ReconcilerAssumption DEF Object, TypeOK
<1>. DEFINE Fine(t) == UnusedFor(t) /\ UnusedOnceLookedAt(t)
<1>1. CASE ListTemplates
  <2>1. /\ UNCHANGED <<exists, records, idle, pod, refs>> /\ ~due' /\ pc' # "waiting"
        /\ listed' = exists \intersect Template /\ pc = "waiting"
        /\ listed' # {} => pc' = "pods"
    BY <1>0, <1>1, FailType DEF ListTemplates, cluster
  <2>2. \A t \in Template \intersect exists' : Fine(t)'
    BY <2>1 DEF InTime, UnusedFor, UnusedOnceLookedAt, LookedAt
  <2>3. UsedNow' /\ Pruned' /\ ReapedInTime'
    BY <2>1 DEF InTime, UsedNow, Pruned, ReapedInTime, Referenced, Stored
  <2>. QED
    BY <2>2, <2>3 DEF InTime
<1>2. ASSUME NEW ns \in Namespace, ListPods(ns) PROVE InTime'
  <2>1. /\ UNCHANGED <<exists, records, idle, pod, listed, due>> /\ pc = "pods"
        /\ pc' \in {"pods", "templates"}
        /\ \A t \in refs' : t \in refs \/ Referenced(t)
    BY <1>2 DEF ListPods, cluster, WithReferences, PodsIn, Referenced
  <2>2. \A t \in Template \intersect exists' : Fine(t)'
    BY <2>1 DEF InTime, UnusedFor, UnusedOnceLookedAt, LookedAt
  <2>3. UsedNow' /\ Pruned' /\ ReapedInTime'
    BY <2>1 DEF InTime, UsedNow, Pruned, ReapedInTime, Referenced, Stored
  <2>. QED
    BY <2>2, <2>3 DEF InTime
<1>3. ASSUME NEW t \in Template, HandleTemplate(t) PROVE InTime'
  <2>1. /\ UNCHANGED <<idle, pod, due>> /\ pc = "templates" /\ t \in listed
        /\ listed' = listed \ {t} /\ pc' \in {"templates", "claims"}
        /\ pc' = "claims" => listed' = {} /\ refs' = {}
        /\ refs' \subseteq refs
    BY <1>3 DEF HandleTemplate
  <2>2. /\ \A o \in Object \ {t} : records'[o] = records[o]
        /\ exists' \subseteq exists
    BY <1>0, <1>3, HandleOrphanedEffect DEF HandleTemplate, ClearResolved, TypeOK
  <2>3. ASSUME NEW u \in Template \intersect exists', u # t PROVE Fine(u)'
    <3>1. records'[u] = records[u] /\ u \in exists
      BY <1>0, <2>2, <2>3
    <3>. QED
      BY <2>1, <2>3, <3>1 DEF InTime, UnusedFor, UnusedOnceLookedAt, LookedAt, TypeOK
  <2>4. ASSUME t \in exists' PROVE Fine(t)'
    <3>1. CASE t \in refs
      <4>1. idle'[t] = 0
        BY <2>1, <3>1 DEF InTime, UsedNow
      <4>2. records'[t] \in Record
        BY <1>0, <1>3, <3>1, RecordTypes DEF HandleTemplate, ClearResolved, TypeOK
      <4>. QED
        BY <1>0, <4>1, <4>2, RecordKinds DEF UnusedFor, UnusedOnceLookedAt
    <3>2. CASE t \notin refs
      <4>1. \/ records'[t] = records[t] /\ records[t].state = "reaped"
            \/ /\ records'[t] = records[t] /\ records[t].state = "active"
               /\ records[t].age < GracePeriod
            \/ records[t] = NoRecord /\ records'[t] = Active(0) /\ 0 < GracePeriod
        BY <1>0, <1>3, <2>4, <3>2, HandledOnTime DEF HandleTemplate
      <4>2. UnusedFor(t)
        BY <2>2, <2>4 DEF InTime
      <4>3. NoRecord.state = "none" /\ Active(0).state = "active" /\ Active(0).age = 0
        BY DEF NoRecord, Active
      <4>. QED
        BY <1>0, <2>1, <4>1, <4>2, <4>3 DEF UnusedFor, UnusedOnceLookedAt
    <3>. QED
      BY <3>1, <3>2
  <2>5. UsedNow' /\ Pruned' /\ ReapedInTime'
    BY <2>1 DEF InTime, UsedNow, Pruned, ReapedInTime, Referenced, Stored
  <2>. QED
    BY <2>3, <2>4, <2>5 DEF InTime
<1>4. CASE ListClaims \/ \E c \in Claim : HandleClaim(c)
  <2>1. /\ UNCHANGED <<idle, pod, due, refs>>
        /\ pc \notin {"pods", "templates"} /\ pc' \in {"owners", "finish"}
    BY <1>4 DEF ListClaims, HandleClaim, cluster
  <2>2. exists' \subseteq exists /\ \A t \in Template : records'[t] = records[t]
    <3>1. CASE ListClaims
      BY <3>1 DEF ListClaims, cluster
    <3>2. ASSUME NEW c \in Claim, HandleClaim(c)
          PROVE  exists' \subseteq exists /\ \A t \in Template : records'[t] = records[t]
      BY <1>0, <3>2, HandleOrphanedEffect DEF HandleClaim, ClearResolved, TypeOK
    <3>. QED
      BY <1>4, <3>1, <3>2
  <2>3. \A t \in Template \intersect exists' : Fine(t)'
    BY <2>1, <2>2 DEF InTime, UnusedFor, UnusedOnceLookedAt, LookedAt
  <2>4. UsedNow' /\ Pruned' /\ ReapedInTime'
    BY <2>1 DEF InTime, UsedNow, Pruned, ReapedInTime, Referenced, Stored
  <2>. QED
    BY <2>3, <2>4 DEF InTime
<1>5. CASE Finish
  <2>1. /\ UNCHANGED <<exists, idle, pod, due, refs>> /\ pc = "finish" /\ pc' = "waiting"
        /\ records' = PruneReapedOlderThan
    BY <1>5 DEF Finish, cluster
  <2>2. ASSUME NEW t \in Template
        PROVE  \/ /\ records[t].state = "reaped" /\ records[t].age > PruneAfter
                  /\ records'[t] = NoRecord
               \/ /\ ~(records[t].state = "reaped" /\ records[t].age > PruneAfter)
                  /\ records'[t] = records[t]
    BY <1>0, <2>1 DEF PruneReapedOlderThan
  <2>3. ASSUME NEW t \in Template \intersect exists' PROVE Fine(t)'
    <3>1. t \in exists /\ t \in Template
      BY <2>1
    <3>2. CASE records'[t] = records[t]
      BY <2>1, <3>1, <3>2 DEF InTime, UnusedFor, UnusedOnceLookedAt, LookedAt
    <3>3. CASE /\ records[t].state = "reaped" /\ records[t].age > PruneAfter
               /\ records'[t] = NoRecord
      <4>1. idle[t] <= records[t].age /\ records[t].age \in 0 .. PruneAfter + 1
        BY <1>0, <3>1, <3>3, RecordKinds DEF InTime, UnusedFor
      <4>2. NoRecord.state = "none"
        BY DEF NoRecord
      <4>. QED
        BY <1>0, <2>1, <3>1, <3>3, <4>1, <4>2 DEF UnusedFor, UnusedOnceLookedAt
    <3>. QED
      BY <2>2, <3>1, <3>2, <3>3
  <2>4. Pruned'
    <3>1. ASSUME NEW t \in Template, records'[t].state = "reaped"
          PROVE  records'[t].age <= PruneAfter
      <4>1. records'[t] = records[t] /\ ~(records[t].age > PruneAfter)
        BY <2>2, <3>1 DEF NoRecord
      <4>2. records[t].age \in 0 .. PruneAfter + 1
        BY <1>0, <3>1, <4>1, RecordKinds
      <4>. QED
        BY <1>0, <4>1, <4>2
    <3>. QED
      BY <3>1 DEF Pruned
  <2>5. UsedNow' /\ ReapedInTime'
    BY <2>1 DEF InTime, UsedNow, ReapedInTime, Referenced, Stored
  <2>. QED
    BY <2>3, <2>4, <2>5 DEF InTime
<1>6. ASSUME Crash PROVE FALSE
  BY <1>0, <1>6, FailType DEF Crash
<1>7. CASE Tick
  <2>1. /\ UNCHANGED <<exists, pod, refs, pc, listed>> /\ pc = "waiting" /\ ~due /\ due'
        /\ \A t \in Template : records'[t] = Aged(records[t])
    BY <1>0, <1>7 DEF Tick, pass
  <2>2. refs = {}
    BY <2>1 DEF InTime, UsedNow
  <2>3. \A t \in Template : /\ \/ idle'[t] = 0
                               \/ t \in exists /\ idle'[t] <= idle[t] + 1
                            /\ Referenced(t) => idle'[t] = 0
                            /\ idle'[t] \in Nat
    BY <1>0, <1>7 DEF Tick, Older
  <2>4. ASSUME NEW t \in Template \intersect exists PROVE UnusedFor(t)'
    <3>1. idle'[t] \in Nat /\ idle'[t] <= idle[t] + 1 /\ idle[t] \in Nat
      BY <1>0, <2>3
    <3>2. LookedAt(t)
      BY <2>1 DEF LookedAt
    <3>3. CASE records[t].state = "none"
      <4>1. records'[t].state = "none"
        BY <1>0, <2>1, <3>3, AgedKinds
      <4>2. idle[t] <= PruneAfter + 1
        BY <1>0, <3>2, <3>3 DEF InTime, UnusedOnceLookedAt
      <4>. QED
        BY <1>0, <3>1, <4>1, <4>2 DEF UnusedFor
    <3>4. CASE records[t].state = "active" /\ idle[t] # 0
      <4>1. records[t].age < GracePeriod /\ records[t].age \in Nat
        BY <1>0, <3>2, <3>4, RecordKinds DEF InTime, UnusedOnceLookedAt
      <4>2. records'[t].state = "active" /\ records'[t].age = records[t].age + 1
        BY <1>0, <2>1, <3>4, <4>1, AgedKinds DEF Older
      <4>3. idle[t] <= PruneAfter + 2 + records[t].age
        BY <3>4 DEF InTime, UnusedFor
      <4>. QED
        BY <1>0, <3>1, <4>1, <4>2, <4>3 DEF UnusedFor
    <3>5. CASE records[t].state = "active" /\ idle[t] = 0
      <4>1. records[t].age \in Nat
        BY <1>0, <3>5, RecordKinds
      <4>2. records'[t].state = "active" /\ records'[t].age \in Nat
        BY <1>0, <2>1, <3>5, <4>1, AgedKinds DEF Older
      <4>. QED
        BY <1>0, <3>1, <3>5, <4>2 DEF UnusedFor
    <3>6. CASE records[t].state = "reaped"
      <4>1. records[t].age \in Nat /\ records[t].age <= PruneAfter
        BY <1>0, <2>1, <3>6, RecordKinds DEF InTime, Pruned
      <4>2. records'[t].state = "reaped" /\ records'[t].age = records[t].age + 1
        BY <1>0, <2>1, <3>6, <4>1, AgedKinds DEF Older
      <4>3. idle[t] <= records[t].age
        BY <3>6 DEF InTime, UnusedFor
      <4>. QED
        BY <3>1, <4>1, <4>2, <4>3 DEF UnusedFor
    <3>. QED
      BY <1>0, <3>3, <3>4, <3>5, <3>6, RecordKinds
  <2>5. ReapedInTime'
    <3>. SUFFICES ASSUME NEW t \in Template PROVE idle'[t] <= PruneAfter + GracePeriod + 2
      BY DEF ReapedInTime
    <3>1. CASE t \notin exists
      BY <1>0, <2>3, <3>1
    <3>2. CASE t \in exists
      <4>1. UnusedFor(t)'
        BY <2>4, <3>2
      <4>2. Aged(records[t]) \in Record /\ records'[t] = Aged(records[t])
        BY <1>0, <2>1, RecordTypes
      <4>3. \/ records'[t].state = "none"
            \/ records'[t].state = "active" /\ records'[t].age \in 0 .. GracePeriod
            \/ records'[t].state = "reaped" /\ records'[t].age \in 0 .. PruneAfter + 1
        BY <4>2, RecordKinds
      <4>. QED
        BY <1>0, <2>3, <4>1, <4>3 DEF UnusedFor
    <3>. QED
      BY <3>1, <3>2
  <2>6. UsedNow' /\ Pruned' /\ \A t \in Template : UnusedOnceLookedAt(t)'
    BY <2>1, <2>2, <2>3 DEF UsedNow, Pruned, UnusedOnceLookedAt, LookedAt, Referenced, Stored
  <2>. QED
    BY <2>1, <2>4, <2>5, <2>6 DEF InTime
<1>8. ASSUME NEW p \in Pod, Admit(p) PROVE InTime'
  <2>1. /\ UNCHANGED <<records, refs, pc, listed, due>>
        /\ \A t \in Template : idle'[t] = idle[t] \/ idle'[t] = 0
        /\ \A t \in Template \intersect exists' : t \in exists \/ idle'[t] = 0
        /\ \A t \in Template : Referenced(t)' => Referenced(t)
    BY <1>8 DEF Admit, pass, Referenced, Stored, TypeOK
  <2>2. ASSUME NEW t \in Template \intersect exists' PROVE Fine(t)'
    <3>1. CASE idle'[t] = 0
      BY <1>0, <2>1, <3>1, RecordKinds DEF UnusedFor, UnusedOnceLookedAt
    <3>2. CASE idle'[t] = idle[t] /\ t \in exists
      BY <2>1, <3>2 DEF InTime, UnusedFor, UnusedOnceLookedAt, LookedAt
    <3>. QED
      BY <2>1, <3>1, <3>2
  <2>3. UsedNow' /\ Pruned'
    BY <2>1 DEF InTime, UsedNow, Pruned
  <2>4. ReapedInTime'
    BY <1>0, <2>1 DEF InTime, ReapedInTime
  <2>. QED
    BY <2>2, <2>3, <2>4 DEF InTime
<1>9. ASSUME NEW p \in Pod, Store(p) \/ Leave(p) PROVE InTime'
  <2>1. /\ UNCHANGED <<exists, records, refs, pc, listed, due>>
        /\ \A t \in Template : idle'[t] = idle[t] \/ idle'[t] = 0
        /\ \A t \in Template : Referenced(t)' => Referenced(t) \/ idle'[t] = 0
    BY <1>9 DEF Store, Leave, pass, Referenced, Stored, TypeOK
  <2>2. ASSUME NEW t \in Template \intersect exists' PROVE Fine(t)'
    <3>1. CASE idle'[t] = 0
      BY <1>0, <2>1, <3>1, RecordKinds DEF UnusedFor, UnusedOnceLookedAt
    <3>2. CASE idle'[t] = idle[t]
      BY <2>1, <3>2 DEF InTime, UnusedFor, UnusedOnceLookedAt, LookedAt
    <3>. QED
      BY <2>1, <3>1, <3>2
  <2>3. UsedNow' /\ Pruned'
    BY <2>1 DEF InTime, UsedNow, Pruned
  <2>4. ReapedInTime'
    BY <1>0, <2>1 DEF InTime, ReapedInTime
  <2>. QED
    BY <2>2, <2>3, <2>4 DEF InTime
<1>10. ASSUME UNCHANGED <<records, refs, pc, listed, due, pod, idle>>, exists' \subseteq exists
       PROVE  InTime'
  <2>1. \A t \in Template \intersect exists' : Fine(t)'
    BY <1>10 DEF InTime, UnusedFor, UnusedOnceLookedAt, LookedAt
  <2>2. UsedNow' /\ Pruned' /\ ReapedInTime'
    BY <1>10 DEF InTime, UsedNow, Pruned, ReapedInTime, Referenced, Stored
  <2>. QED
    BY <2>1, <2>2 DEF InTime
<1>11. ASSUME NEW o \in Object, Remove(o) PROVE InTime'
  BY <1>10, <1>11 DEF Remove, pass
<1>12. CASE UNCHANGED vars
  BY <1>10, <1>12 DEF vars, cluster, pass
<1>. QED
  BY <1>1, <1>2, <1>3, <1>4, <1>5, <1>6, <1>7, <1>8, <1>9, <1>11, <1>12 DEF Next, Pass

(***************************************************************************)
(* With a whole pass in every tick, no template is left unused for longer  *)
(* than a reaped record of its name is kept and a grace period, as long as *)
(* templates can be listed and deleted and the process is not killed: pod  *)
(* and claim lists, annotations and saves may fail, and templates may be   *)
(* deleted by others.                                                      *)
(***************************************************************************)
THEOREM ReconcilerReapedInTime ==
  ASSUME Timely, AutoReap, Faults \intersect {"templates", "delete", "crash"} = {}
  PROVE  Spec => []ReapedInTime
<1>1. TypeOK /\ InTime /\ [Next]_vars => InTime'
  BY NextInTime
<1>2. InTime => ReapedInTime
  BY DEF InTime
<1>. QED
  BY <1>1, <1>2, InitInTime, ReconcilerTypeOK, PTL DEF Spec
=============================================================================
