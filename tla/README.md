# Verification of the GPU-NIC admission webhook

TLA+ models of the webhook and the reconciler of this repository, the TLC runs
that check them on small instances, and TLAPS proofs for all instances.

    tlc -workers 2 -config MutationQueue.cfg MCMutationQueue
    tlapm MutationQueueProofs.tla

Line numbers below are those of the commit the project was written against.

## The system

A mutating admission webhook turns a pod's request for `gpu-nic-pair`s, or for
extended resources it intercepts, into DRA resource claims: it chooses a node
and NICs, makes sure that the claim templates exist, and returns a patch that
removes the requests, adds the claims and pins the pod to the node.  A
reconciler finds templates and claims that nothing uses any more.

| Part | State | Operations | Talks to |
|---|---|---|---|
| Admission handlers (`webhook/handler.go`) | one goroutine per request | `handleAdmission` of the two endpoints | queue (blocking call, result channel), mutator |
| Mutation queue (`webhook/queue.go`) | `batch`, `timer`, `processing` under `q.mu` | `EnqueueFunc`, `processBatch` | timers and goroutines of the runtime; calls the mutator |
| Mutator (`webhook/mutator.go`) | none | `Mutate`, `MutateExtOnly`, `ensureClaimTemplate`, patch builders | allocator, API server |
| Allocator (`webhook/allocator.go`, `validator.go`) | `pending`, a map from slot to reservation time | `Allocate`, `AllocateExplicit`, `AllocateExtendedResource` | API server: slices, claims, nodes, pods |
| Claim builder (`webhook/claim_builder.go`) | none | specs and names of templates | mutator |
| Preflight (`webhook/preflight.go`) | none | availability, rail selection; called by tests only | API server |
| Configuration (`webhook/config.go`, `constants.go`) | read once | parsing, validation, pool lookup, transport detection | everything |
| Server (`cmd/webhook/main.go`) | none | loads the configuration, makes allocator, mutator and queue | everything |
| Reconciler (`reconciler/reconciler.go`) | the pass | `reconcileTemplates`, `reconcileClaims`, annotate, reap | API server, state manager |
| Reconciler state (`reconciler/state.go`) | orphan records, their file | record, clear, reap, prune, save, load | file system |
| Dry run (`dryrun/`, `cmd/dryrun`) | none | replay on captured objects | mutator with a fake client |

What is hard about it:

* *Concurrency.*  Handlers, timers that are stopped too late, and batch
  goroutines share the queue; two webhook processes and the reconciler share
  the API server, and every answer of it may be old when it is used.
* *Reservations by time.*  Between the answer to the API server and the moment
  the drivers show a NIC as taken, nothing but an entry in `pending` that
  expires after two minutes keeps the NIC from the next pod.
* *Tolerated failures.*  Several list calls are logged and skipped when they
  fail, so that "nothing was found" and "the call failed" look alike.
* *Names that come back.*  A template is named after its position and the
  configuration, so a deleted template returns under its name, a record may
  outlive its object, and a new release meets the templates of the old one.
* *Judged twice.*  The allocator reserves slots and evaluates constraints; the
  scheduler, which knows neither, allocates the claims later.

What should hold of each part: mutations are serial and every blocked handler
is answered exactly once, larger requests of a batch first (queue); a placement
is what was asked for, and no device is promised twice (allocator); a patched pod
has its devices by claims, beside what it had, on the chosen node (mutator);
what the scheduler allocates to those claims is what was reserved, and can be
allocated (claim builder); a claim is what its pod's mutation built, whoever
else uses the template's name (templates); only what is unused, and has been
for the grace period, is deleted, and in the end it is (reconciler).  `PROJECT.json` lists the hazards line by line.

## The modules

### SerialBatches, MutationQueue, TimedQueue, MutationQueueProofs, TimedQueueProofs, MCMutationQueue

`SerialBatches` is the promise: requests are collected, closed as one batch,
and served one at a time, largest count first, before the next batch is closed.

`MutationQueue` is the code.  A step is one critical section of `q.mu` or a
stretch of code that shares nothing.  A timer and the goroutine it starts are
named by the request that created them (`EnqueueFunc` creates one timer per
call, and a timer starts at most one goroutine); `pc` follows both: `armed`,
`fired` (the goroutine exists but does not hold `q.mu`), `loop`, `work`,
`mutate`, `done`.  `Stop` does nothing to a timer that has fired, as in Go.
`local` is the drained slice, sorted by any permutation `sort.Slice` may leave.
`resultCh` is the set of requests whose channel of capacity one is full.  An
armed timer may fire at any time, which allows more orders than any length of
the debounce window does.  Both endpoints enqueue
with a count, and 0 means the handler calls the mutator itself; for the
extended-resource endpoint `PairCount` is 0.  What `mutateFn` does is
the subject of `Allocator`; it may fail, which the queue does not look at.

`TimedQueue` puts the window on a clock.  `window` counts the ticks before a
timer is due; it may fire later than that, as Go's timers do, so every order of
`MutationQueue` remains possible and the run checks all its properties again.
`waited` is history: the ticks a request has spent in the batch while nothing
but a timer kept it there.

### Allocator, AllocatorProofs, MCAllocator

A slot is a NIC, `<<node, rail>>`, or in explicit mode the node and the index
of a configured pair.  `pending` holds ages, not times: an entry is fresh up to
and including `TTL`, as `expirePending` keeps an entry exactly at the cutoff.
`Allocate` is phase 1 of `Mutate` with `Allocate` or `AllocateExplicit`,
`AllocateExtendedResource` one iteration of phase 2 (or of `MutateExtOnly`);
their guards are the validation, availability and constraint checks, and a
request that fails them is denied and changes nothing.  `Reject` is everything
that ends the pod after a reservation was made: a later step of `Mutate` that
fails, or the API server not storing the pod.  `Create`, `Bind`, `Delete` and
`Recreate` are the API server, the scheduler and the drivers.  `mode` is the
transport and pairing mode, fixed at start; it decides which list call a
failure of which is tolerated.

The environment is a parameter.  `Prompt`: a pod is scheduled, rejected or
deleted within `TTL`.  `ListsFail`: tolerated calls may fail.  `Replica`: the
webhook processes, each with its own map.  `Restarts`: a process may lose it.
`Fits` is what the pod's own node constraints allow.

`owner` and `age` are history variables: which process remembers placing the
pod, and for how long.  They are read by properties and by `Tick`'s `Prompt`
guard; `owner` also tells which process goes on with a pod whose mutation has
several steps.

### NodeConstraints, NodeConstraintsProofs, ClaimBuilder

Operators only.  `NodeConstraints` has the matching of `nodeSelector` and node
affinity as `allocator.go` does it, and as the scheduler does it
(`SchedulerAccepts`).  `ClaimBuilder` has the specs and names of
`claim_builder.go` and the validation, lookup and detection of `config.go`: a
CEL selector is the set of attribute values it asks for, the opaque parameters
are interface, rules and routes, and a hash is the tuple of what is hashed.

### Scheduling, Booking, Preflight, SchedulingProofs, MCScheduling

`Scheduling` composes `Allocator` with both.  When pairs are allocated,
`chosen` fixes their order, and with it the claim of each NIC position
(`Claims`).  `Schedule` takes the place of `Allocator`'s `Bind`: a scheduler that
knows devices, their classes, attributes and PCIe roots, the claims and the
pod's constraints, and no slots, allocates any devices that satisfy all of
them (`held`).  Both have the effect `Settle` on the allocator's state; `Bind`
guards it by slots, `Schedule` by devices.  `Fits` is what `NodeConstraints`
says.  There is one process, and extended resources are left to `Allocator`.

Slots stand for devices only if the configuration is true of the cluster, which
no code checks.  `ClusterAssumption` says what is needed: a rail's prefix (and
RDMA, where required) or address names one NIC of a node, the address of its
GPU is on the NIC's PCIe root, a configured pair names one NIC
(`EthernetRails`, `InfiniBandRails`, `ExplicitPools`); the NIC is on the subnets
its rules will speak of, and the slots of a node have different rails or none
(`SubnetRails`).  `SupplyAssumption` says what must be there for every slot:
a device for each request of its claim; where devices are pinned by address,
none that another request of the node asks for as well; on Ethernet, where any
GPU of the NIC's root will do, as many GPUs as NICs on each root.
`FitsAssumption` ties `Fits` to `NodeConstraints`, and `PreflightAssumption`
says what the preflight check takes for granted beside: no NIC is of the GPUs'
class, slots of explicit mode are pairs of their node's pool, and no other NIC
(with RDMA, where required) is on the prefix of a rail.  TLC evaluates them all for
the cluster of the run.

`Booking` is the promise: NICs of one node, booked as a whole in one step, by
one pod at a time, and given back as a whole.

`Preflight` extends `Scheduling` by operators on its state: what the preflight
check answers for a request, which rails it selects, and on which nodes a dry
run of the captured cluster puts the pod.  They change nothing, so the module
adds no actions; its properties compare them with what the allocator could do
in the same state.

### Templates, TemplatesProofs, MCTemplates

The templates of a namespace, and everybody who uses them.  `Mutate` decides
what a pod wants; `CreateTemplate` and `GetTemplate` are the two calls of
`ensureClaimTemplate`, one template after the other, with anything in between;
`MakeClaim` is the controller that reads the template when it makes a claim, a
good while later; `Condemn` and `Reap` are the reconciler, which judges and
deletes in different steps (when it judges is the subject of `Reconciler`).
A process loads its configuration when it starts (`Loaded`); `Edit` changes the
ConfigMap and `Upgrade` the release, and until it is restarted a process knows
nothing of either.  A later release may build another spec under the same name,
so a spec carries its release.  `bereft` is history.

### Mutator, MutatorProofs, MCMutator

One pod on its way through the API server: `/mutate` if its namespace is
labeled, `/mutate-ext`, and each once more if the pod has changed since
(`stale`; `reinvocationPolicy: IfNeeded`).  `Skip`, `Deny` and `Mutate` are the
outcomes of a call, `Unanswered` a call that times out, which rejects the pod
at `/mutate` and is ignored at `/mutate-ext`; `Inject` is another webhook.

A mutation takes several steps, with nothing of the pod changing before its
end: `Mutate` opens a `draft`, `Replace` is one round of the loop over the
intercepted resources, and `Answer` makes the patch take effect.  The operators named after the patch
builders say what their operations do to the draft; like the builders they decide by
the pod as it was *sent* (`p`) and by `firstPodClaim` and `refAdded`, and what
they change is the pod as the operations before have left it (`d`).  The
resources are replaced in any order, as the code iterates over a map.  A term
of the node affinity is the nodes its expressions allow, the nodes its fields
allow, and whether it has fields at all; `Applies` is the one condition for a
JSON patch operation that the shape of a pod can fail.  Which node is chosen is
the allocator's business; here it is any the pod's node affinity allows.

Init containers and all fields the mutator never touches are left out;
`nodeSelector`, which only the allocator reads, is in `NodeConstraints`.

### Reconciler, ReconcilerProofs, MCReconciler

One action per call whose answer a pass uses: `ListTemplates`, `ListPods` (per
namespace), `HandleTemplate`, `ListClaims`, `HandleClaim`, `Finish` (prune and
save).  The cluster may change between any two.  `handleOrphaned` is both
`handleOrphanedTemplate` and `handleOrphanedClaim` with the calls they make;
each may fail.  `HandleClaim` joins the lookup of the owner and the deletion:
claim names are generated, so a pod that appears in between never has the
claim.  `records` is the map in memory and `disk` the file; `Crash` reloads it.
`Admit` is the webhook's `ensureClaimTemplate`, which leaves an existing
template alone, and `Store` the moment the pod becomes visible to lists.
`Faults` names the kinds of fault a run allows and `MaxFaults` how many.
`due` exists for `Timely`, under which a whole pass runs between two ticks.
`seen`, `lifetime` and `idle` are history.

The statistics and the log are left out.  A running pass also fails its calls
when the process is asked to stop; this is a combination of faults.

## The runs

| Run | Shows | Bounds, and why they are enough |
|---|---|---|
| `MutationQueue` | mutations are serial; no request is stranded, lost, or served twice; batches are served in order; every waiting handler is answered; the debounce holds a request up for a window and one more for each that comes after it | four requests (2 pairs, 1 pair, 2 GPUs, none): three timers, so that one can run late, one be stopped and one start a batch while another drains; equal and different counts; a window of two ticks, so that a timer can be reset with time left |
| `Scheduling` | in all three modes: placements fit and no NIC is promised twice (`ImplementsBooking`); the scheduler allocates the very NICs that were reserved, each with a GPU on its PCIe root, and always can; interfaces and routes do not collide; preflight and dry run refuse nothing the allocator would place, except as below | three pods (2, 1, 1 pairs), two of them with affinity terms of every operator the code names, one with a pod affinity, one with anti-affinity; five NICs on two nodes, a zone and a PCIe root with two NICs, a NIC without RDMA on a rail's subnet; `TTL = 1`; every pod can return |
| `AllocatorHostile` | one process never promises a NIC twice within `TTL`; reservations are given back | two processes, restarts, failing lists, slow pods; two pods competing for two NICs |
| `AllocatorExt` | any two pods placed by one process fit together; devices that are subtracted twice become available again | three pods on one node, two classes, one pod asking for both |
| `AllocatorOverbooking` | *finding*: three pods together do not fit | three pods, one node |
| `AllocatorAntiAffinity` | *finding*: exclusive pods of a batch share a node | two pods |
| `Templates` | a claim is what the pod's own mutation built; a request is refused only because of another release's template; a template that is gone is not taken for existing | two processes, two pods that want a pair or an intercepted device, four ConfigMaps (explicit pairs sharing a rail, detected transport, an intercepted resource, an invalid one), one edit or upgrade, one deletion under way: enough for two processes with different configurations, transports or releases on one name |
| `Mutator` | resources are stripped, each container refers to its own claims, the pod's claims stay, it is pinned, and only queued pods are patched | 780 pods with three containers: two resources, two counts, zero counts, pairs, both together, with and without limits, five node affinities on two nodes, own claims that take the names the webhook would use; a third container for injected requests |
| `MutatorPatch` | *finding*: the patch of a pod with expressions only does not apply | the same pods without claims |
| `ReconcilerFaults` | unused templates are reaped in the end | a template, a claim of its pod and a claim of something else; any two faults but a failed pod list |
| `ReconcilerTimely` | what is in use or new is not reaped, and what is unused is in time | two templates in two namespaces, so that one list can be old when the other is read; a grace period of two ticks, so that detection, waiting and reaping fall into different passes; the bound on `idle` lies beyond the deadline |
| `ReconcilerPodListFailure` | *finding*: a namespace whose pods cannot be listed loses its templates | one template, two failures |

The ages bound themselves: beyond `TTL`, `GracePeriod` or `PruneAfter` nothing
the code compares with is left.  `MaxChanges` and `MaxDoomed` bound the edits
and the deletions under way in `Templates`, `MaxFaults` the faults of
`Reconciler`.  No state constraint is used.  Pods and processes of `Templates`
are symmetric, and it has no liveness property; elsewhere pods differ in what
they ask for.  Deadlock is checked except where the
system ends (`CHECK_DEADLOCK FALSE`): the mutator's pod is stored or rejected.  `PROJECT.json` quotes the sentence
each finding contradicts.

`FreshBelowTTL`, `SortsAscending` and the other definitions called *faulty* are
bugs the code might have had; each property has one that violates it.

## Fairness

* `MutationQueue`: weak fairness on every step of timers and goroutines (the Go
  runtime fires timers, schedules goroutines and hands over `q.mu`) and on the
  return of `mutateFn`, whose calls end with the request's context; in
  `TimedQueue` on `Tick`, and on the firing of a timer once it is due.  None on
  requests arriving.
* `Allocator`: weak fairness on `Tick`.  `Prompt` blocks ticks until pods are
  settled, so the liveness runs do not assume it (`ExtSpec` of `MCAllocator` is `FairSpec` in
  one mode: extended resources do not depend on it).  `ReservationReclaimed` says
  *available to every process*: expiry is checked when the map is read.
* `Reconciler`: weak fairness on `Pass` (the ticker of `Run`, and calls that
  return) and on `Tick`.  Faults are finite in number; nothing else is assumed
  of them.

## What is proved

For all values of the constants that satisfy the modules' assumptions.

**Queue** (`MutationQueueProofs`).  `IInv` strengthens the properties by three
facts.  `OneDrainer`: a goroutine past the first critical section implies
`processing`, and there is at most one; without it `Begin` could admit a
second.  `LatestTimerPending`: while nobody is processing, the timer *of the
last request in the batch* has not been stopped; `NoStrandedRequest` alone is
not preserved by `EnqueueFunc`, which may stop the very timer that was to
serve the batch.  `IdleHasNoTimer`: the new timer is new.  `QueueTypeOK`,
`QueueSerialMutation`, `QueueNoStrandedRequest` and `QueueHeldOnce` follow;
`QueueImplementsSerialBatches` maps every step to a step of `SerialBatches` or
a stutter, using that a drained batch is in descending order.

**Timed queue** (`TimedQueueProofs`).  `TimedImplementsQueue`: with the clock
erased, the timed queue is the queue, so all of the above holds of it.
`QueueBatchClosedInTime` needs `WindowCovered`: while nobody is processing, the
latest request's timer is *due* within what is left of the windows of the
requests that came after the one that waits.  It rests on
`LatestTimerPending`, which says which timer that is.

**Allocator** (`AllocatorProofs`).  `Covered` is the key: the process that
placed an unsettled pod holds reservations for its slots no older than the
placement.  So `AllocatorReservedOnce` holds in *every* environment, as a slot
with a fresh reservation is never selected.  `AllocatorNoDoubleBooking` adds
`Tracked` (every unsettled pod is remembered and young), which one process that
keeps running and prompt pods give, and that lists show the NICs of bound pods.
None of these assumptions can be dropped.  In `Scheduling.cfg` a second process in
`Replica` (the pending map is private to a process, and
`deploy/base/webhook-deployment.yaml:9` has two replicas), setting `ListsFail`
(on InfiniBand a failed claim list reads as "nothing in use",
allocator.go:700) or clearing `Prompt` (a pod that waits longer than `TTL` for
the scheduler, allocator.go:89) violates it.  `AllocatorPlacementFits` again
holds in every environment: a free slot is a NIC of its node, a choice has the
size asked for, and `FitsSoFar` says that a pod whose mutation takes several
steps was pinned to a node that fits by the first of them.

**Node constraints** (`NodeConstraintsProofs`).  `MatchesAgree`: for terms that
say something, and whose expressions use `In`, `NotIn`, `Exists` or
`DoesNotExist`, the webhook's matching of `nodeSelector` and node affinity is
the scheduler's, for every node and pod.

**Reconciler** (`ReconcilerProofs`).  `ReconcilerInUseSpared`, if pod lists do
not fail: what the pods in `seen` reference is in `refs`.
`ReconcilerNewbornSpared`, without crashes and foreign deletions: an active
record is no older than its object and, for a template, never outlives it
(`RecordsAreOfThisLife`).  The assumptions are needed: `ReconcilerPodListFailure`
violates the first without its own, and a crash between a reap and the save at
the end of the pass (reconciler.go:79) leaves an old active record on disk that
has the next template of the name reaped the first time it looks unused.
`ReconcilerReapedInTime` assumes `Timely`, `AutoReap`, and that templates can be
listed and deleted and the process is not killed; lists of pods and claims,
annotations and saves may fail, and others may remove templates.  Its invariant,
`InTime`, bounds how long a template has been idle by its record (`UnusedFor`),
more tightly once the pass has looked at it (`UnusedOnceLookedAt`); what is
referenced is not idle (`UsedNow`), and at the end of a pass no reaped record is
older than the pruning period (`Pruned`).

**Templates** (`TemplatesProofs`).  All four properties follow from one
invariant, `IInv`.  `OnlyBuilt` says that whatever is asked for, stored or claimed
was built by some process of some release; `Secured` that a template
`ensureClaimTemplate` has made sure of is there as wanted until it is claimed,
or was removed in between, in which case the position is `bereft`.  The lemma
`NamesDetermineClaims` (whoever builds them, two templates of one name hold the
same claim) gives `TemplatesDivergesByRelease`.  A template that exists is taken
for the pod's only if the specs agree (`GetTemplate`), so `Secured` is kept, and
`TemplatesIntendedClaims` and `TemplatesTemplatesThere` follow from it.

**Mutator** (`MutatorProofs`).  `Drafting` says what each step of a mutation has
done so far, in whatever order the resources were taken: which requests are
gone from the draft, which claims stand at its end, and how many each container
refers to; `Drafted` what the finished patch owes to the pod that was sent; with
`Stripped`, `PinnedToNode` and `NoneLate` they are inductive.  From them
`MutatorStripped`, `MutatorOwnClaimsKept`, `MutatorPinnedToNode`,
`MutatorOnlyQueuedPodsPatched` for any containers, counts, nodes and affinities, and
`MutatorPerContainerBinding`, which assumes `OwnNames`: the names of the pod's own
claims differ, and none is a name the webhook gives to pairs.

**Extended resources** (`AllocatorProofs`).  `AllocatorExtFitPairwise` holds in
every environment.  A reservation of `k` devices is of the indices `0 .. k - 1`,
so that two reservations overlap; but the larger of the two is subtracted in
full.  `ExtCovered` says that it is still there, `ExtFitAlone` that the first pod
fits by itself; nothing of the kind holds for three (`AllocatorOverbooking`).

**Scheduling** (`SchedulingProofs`).  `SchedulingImplementsBooking` maps every
step to one of `Booking` or a stutter, under the assumptions of
`AllocatorNoDoubleBooking`.  `SInv` adds to the allocator's invariants that a
placed pod has its slots in an order (`ChosenOrdered`) and that what a bound pod
holds satisfies the claims of these slots (`HeldSatisfies`).
`SchedulingHeldAsReserved` and `SchedulingNICsConfigured` follow in every
environment: the selectors of a claim have the NIC of its slot for their only
solution.  `SchedulingAdmittedCanRun` needs the environment of
`AllocatorNoDoubleBooking`, `SupplyAssumption`, and terms on which `MatchesAgree`.
A device that is held belongs to a slot in use, which is not a slot of a
waiting pod; on Ethernet GPUs do not belong to slots, but each GPU held at a
root goes with a slot in use at that root (`HeldGPUGoesWith`), so that as many
are left as slots are (`GPUsLeft`), and the pod's slots get different ones.

**Preflight** (also `SchedulingProofs`).  `PreflightNoFalseRefusal` and
`PreflightSelectedRailsFree` compare, in any state of `SInv`, a placement of the
allocator with what the check sees: a slot that is free is shown, has its
address and, on Ethernet, a GPU on its root; on InfiniBand no more NICs are held
than slots are in use (`InfiniBandTotal`).  `SelectsIfPossible` says that
`selectSlots` finds slots whenever there are as many that would do.  Both
assume that NUMA packing is not disabled: `DisableNUMAPacking` frees the
allocator from the zones and the preflight check does not look at it.

Only model-checked: liveness (`EveryRequestAnswered`, `ReservationReclaimed`,
`DevicesReclaimed`, `OrphanReaped`), which is beyond the prover: it needs
`ENABLED` and induction over what is still to be done.  The four runs that
expect a violation are counterexamples and have nothing to prove.  All other
properties of the runs are theorems.

## What the models leave to be decided

Behaviours recorded as hazards rather than as findings.

Queue.  A pod with three intercepted GPUs is mutated before one with two pairs
of the same batch, against the comment at handler.go:105, as both kinds share
one scale.  The comment at queue.go:53 expects a debounce of 50 to 100 ms and
main.go:112 sets 3 s: three later arrivals bring the first request to the API
server's timeout.  Requests that arrive during processing are drained at once,
without a window of their own, and a timer that `processBatch` forgets
(queue.go:114) can close the next batch early.

Constraints.  `AdmittedCanRun` holds for `In`, `NotIn`, `Exists` and
`DoesNotExist` and for fields on the name.  With `Gt` or `Lt`, or with a term
that says nothing, the code lets every node pass and the scheduler does not, so
a pod can be pinned to a node on which it never runs (allocator.go:906).  A pod
whose required affinity matches only itself is always denied
(allocator.go:1017); the scheduler would let the first of its kind pass.

Configuration.  Nothing checks that the pairs of a pool have different devices
(config.go:227); with a shared device `AdmittedCanRun` fails.  After a failed
list of slices a process takes InfiniBand for Ethernet until it is restarted
(config.go:179); the names of its templates differ from those of the other
process (`DivergesByRelease`).  After an upgrade that builds another spec for the
same configuration every mutation is denied as long as the template exists
(mutator.go:528); the reconciler does not remove it while a pod uses it.

Preflight.  On InfiniBand the NICs in use are spread over the NUMA zones in
proportion (preflight.go:178), which can refuse a pod that fits, and rails in
use are selected.  With `DisableNUMAPacking` the allocator places pods across
zones that the check, which does not know the setting, refuses.  A dry run of pods with an affinity term finds no pods.

Reconciler.  The record of an orphan that somebody else removes, as the garbage
collector does with the claims of a deleted pod, is never pruned (state.go:202),
though pruning is there "to keep the state file from growing unbounded".  A pod
stored between the pod list and the deletion loses the template it references
(reconciler.go:286), as `bereft` in `Templates` says of positions;
`InUseSpared` therefore speaks of the pods that were there when the list was
made.  A template that is orphaned again under the name of one already reaped
waits until the old record is pruned (state.go:157), which is why
`ReapedInTime` allows for the pruning period.

A sidecar injected after the mutation keeps its intercepted resource
(mutator.go:277).

## Plan

1. Safety steps under the liveness properties: what decreases towards an
   answered request, an expired reservation and a reaped orphan, as action
   properties that can be proved.
2. Pairs and extended resources on the same GPUs in `Scheduling`.

## Not modelled

HTTP and TLS, decoding of reviews and YAML, logging and statistics, command
lines and the files of the dry run: no state of theirs is shared.
`ClearPending`, `BuildClaimTemplateSpec` and `TemplateName`, which only tests
call.  The configuration of the reconciler, which is read once at start.
