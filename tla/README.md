# replica-control in TLA+

replica-control lets authenticated clients read and set the replica count of
Kubernetes Deployments. It grows over five levels: levels 1 to 4 serve HTTP and
write a Deployment's scale directly; level 5 serves gRPC, stores each request as
a `ReplicaIntent` object and has an elected controller apply it. These modules
model what can go wrong between several clients, several server processes, the
Kubernetes API and its other users. TLC checks small instances, and TLAPS proves
the safety properties for every instance.

## 1. Inventory

| Component | State | Operations | Hard behaviour | Right when |
|---|---|---|---|---|
| Set path (`internal/service`, `internal/kube`) | none between requests; locals of a call | `Set`, `checkWritable`, `setIntent` | four or more API requests per call, nothing locked; retries after conflicts; lost responses | every call looks atomic and replaces the version its caller expected |
| Reconciliation (`internal/reconcile`, `internal/kube/intents.go`) | locals of a pass; `status` of the intent | `Reconcile`, `UpdateScale`, `WriteStatus` | guards checked long before the write; passes of two leaders overlap; a pass outlives its generation | a scale write still meets its guards; a status is true and never goes back; everything converges |
| Controller (`internal/controller`) | work queue, informer indexers, two workers | informer handlers, `Run`, `process` | events lost to a relist, stale indexer, failing passes, cancellation | passes per key are serialized, no target is forgotten, `Run` returns |
| Health (`internal/health`) | `draining`, `lastOK`, `lastGood` | `Drain`, `Ready`, `Run` | separate atomics, probe deadline against ticker | outages are noticed in bounded time |
| Server process (`cmd/server`) | run context, `errs` channel, gRPC health status | `run`, election callbacks, health loop | five threads; errors before anyone listens; ordered shutdown against a grace period | draining is visible before serving stops, failures end the process, exit is in time |
| Leader election (client-go) | the Lease | acquire, renew, callbacks | a paused leader does not know that it lost | one controller at a time while requests are in time, and never none for good; overlapping passes are harmless |
| Upgrade probe (`cmd/probe`) | timers, finish channel | `monitor`, `POST /finish` | deadline, signal, settling and samples race in one select | success means a complete observation, in time |
| Cached and paginated reads (`internal/kube/backend.go`) | informer caches | `New`, `Start`, `Synced`, `Get`, `List`, `decorateIntent` | two caches of different moments, empty ones after a restart; pages of a moving list | every answer was true once, a caller who acts on it replaces only what he saw; a list is one moment |
| HTTP and gRPC API (`httpapi`, `grpcapi`, `service`), `replicactl` | none between requests | routes, decoding, handlers, deadline, panic recovery | missing and repeated fields, trailing data, misplaced flags, a backend that never returns | nothing is written that was not asked for; every request is answered |
| Validation, error codes (`internal/model`) | none | `Validate`, `ParseKey`, `mapError`, `ErrorCode`, `PublicError` | boundaries, errors mapped twice | keys are unambiguous, a failure keeps its kind on both transports |
| TLS admission (`internal/security`, `tlscheck`) | loaded certificates, one connection | `VerifyConnection`, `ValidateProbeIdentity`, `CheckRejection` | the server judges the client after the client believes to be connected | only the allowlisted identity is served; a reported refusal is one by policy |
| Certificates (`certgen`) | a directory | `run`, `writePair` | a run that stops half way | identities of two runs never mix |
| Rolling upgrade (chart, `health`, `server`, `probe`) | Pods, endpoints | probes, surge, retirement, drain | the Service learns late; a leader drains on its own | clients always find a Pod that accepts |
| `gen/`, remaining templates, docs tools | none | generated code, configuration | – | – |

Interactions: API handlers call `service.Set`, which calls the backend; the
backend talks to the API server. Informers deliver changes of intents,
Deployments and HPAs to the controller's handlers, which put keys into the work
queue; workers run a pass of the engine, which uses the backend again. Leader
election starts the controller and, when it ends, drains the process. The main
thread, the election callback, the listeners, the probe loop and the gRPC
health loop share the drain flag, the error channel and the run context.
`PROJECT.json` lists the hazards line by line.

## 2. Modules

    Cluster ── SetCall ────┬── CachedReads
       └────── Reconcile ──┴── ReplicaControl ── HPARace ── MCReplicaControl
                                  └ (INSTANCE) SetRegister
    WorkQueue ── Controller         Health ── Server
    Rollout ── MCRollout            Lease
    Errors ── Api ─┐
    PagedList, Names, Monitor, Certgen, Admission ─┴── MCComponents

Proofs are in modules of their own:

    ReplicaControl ── ReplicaControlProofs ─┐
    HPARace, SetRegister ───────────────────┴── RaceProofs
    Controller ── ControllerProofs          Server ── ServerProofs
    Lease ── LeaseProofs                    CachedReads ── CachedReadsProofs
    PagedList, Names ── OrderProofs
    Monitor, Certgen, Admission, Rollout, Api ── PartsProofs

**Cluster** is the API server as replica-control uses it: one Deployment, one
intent, the presence of an HPA, and one revision counter. A resourceVersion is
the revision of the last write and a UID the revision of the creation, so no
version and no UID is ever used twice. One target suffices because targets share
no object. Other users may create, delete, replace, scale, protect and annotate;
the Deployment controller and the garbage collector act too. The CRD makes
`deploymentName` equal to the name, `deploymentUID` immutable and `replicas`
bounded, so `parseIntent` succeeds on every stored intent.

**SetCall** has one action per API request of a Set call: the live read, the HPA
list, then either the read and update of the scale (levels 2 to 4) or the read,
creation or update of the intent (level 5), with both retry loops. A request may
fail at any point and a write may be applied with its response lost.
Deadlines are such failures; the codes of a deadline and of an unreachable
server are both represented by `Unavailable`.

**Reconcile** does the same for `Engine.Reconcile` over the backend. `Passes` is a
set of processes: the queue serializes passes inside a process, while nothing
fences a previous leader's requests. The branch `InvalidReplicas`
(reconcile.go:39-43) cannot be reached through the backend: `parseIntent` has
already refused such an intent.

**ReplicaControl** interleaves calls, passes, users and Kubernetes, and states the
properties. **SetRegister** is the abstract specification of Set: a versioned
register on which every call takes effect at one instant or not at all. The
refinement mapping is `Target` (the object whose version the level compares: the
Deployment up to level 4, the intent at level 5) and `View`, which forgets in which
of its requests a call is.
**HPARace** extends ReplicaControl by a history variable: which calls and
processes have been at rest since the HPA appeared.

**CachedReads** composes SetCall with the reads. The API server's past is a log by
revision; every Pod has a position in it per kind of object, moved forward by its
informers and reset by a restart. `Get` reads the Deployment in one step and its
intent in another. A caller reads from any Pod, sends a Set that expects the
version it was shown, and reads again when it is refused. **PagedList** is `List`
over several Deployments: pages of `Limit` items, continue tokens that pin a
revision and expire, and the cached variant, which is refused before the first sync and whose lister has no
order. Sorting
and paging are defined by counting: the n-th item is the one with n - 1 before it.

**WorkQueue** is client-go's queue (external). **Controller** models the informer
handlers, `Run` and `process`. An intent is reduced to its UID and generation,
which is all the handlers compare; a pass reads the live intent and returns. The
indexer changes first and the handler is told later. Intents, Deployments and HPAs
may have any name, also one that `ParseKey` rejects: the API server and the CRD
limit the length of a `deploymentName` but not of its labels, and
`Target.Validate` refuses a label of more than 63 characters. Set never creates
such an intent (it validates first), a user of the API server can.

**Health** and **Server** model one process in time, at every level; below level 5
there is neither an elector nor a health loop, and the API listener is HTTP. Ages and countdowns
replace clock readings, so time needs no bound. Only waiting takes time: `Tick`
is disabled while some thread can go on. Every thread is a sequence of actions
that the others may interleave with. The health loop's call of `Ready` is split
into its reads of `draining` and `lastGood` and its later read of `lastOK`, between
which Drain or a probe may come. The two `SetServingStatus` calls of a round set
the same value for two names and are one action.

**Lease** has the electors of several processes around one Lease, with the
configuration and the callbacks of `cmd/server`. client-go's elector is external:
it reads the record, updates it at the version it read and takes it over when it
has not changed for `LeaseDuration` on its own clock. Requests take up to
`Latency`, which the model assumes small enough (`LeaseAssumption`); beyond it the
Lease excludes nothing, and that overlap is what Reconcile's `Passes` are.
A restarted process has a new identity, so it waits for its predecessor's Lease
like everybody else.

**Monitor** models `monitor` of the upgrade probe with all its channels.
**Rollout** puts what is visible of several processes behind a Service, with the
chart's readiness probe, surge, availability and minReadySeconds, and with
proxies that hear of every change up to `Lag` later. Its assumption states the
margins: `ProbeTime + Lag < SleepTime`, `Lag < MinReady`,
`RequestTime < StopTime`; with the chart's values (2 + 1, 5, 5, 15, 10) they hold
for a lag of a second. The API server is there throughout: an outage takes
readiness away from all Pods, by design.

**Errors** has the error maps as operators on what `errors.As` and `errors.Is`
find in a chain. **Api** takes one request from the wire to the backend and back.
JSON bodies are sequences of fields, so that a field may be repeated, null,
unknown or followed by more, and a version may be spelled out as empty. **Names** compares validation, written with `Split`
and a label pattern as in the code, with a definition by positions.

**Admission** is one TLS 1.3 connection in the order of events that matters: the
client has sent its request when the server judges its certificate. Which alert
stands for which failure is Go's. **Certgen** is a sequence of runs on one
directory, each file created and then written, with an end possible anywhere.

**MCComponents** puts the modules that share no state with the others side by
side: one of them works, the others rest in an initial state, and each has the
fairness of its own specification.

Operators marked "Mutant of" are deliberately wrong variants that no behaviour of
the specifications uses; each shows that a property would notice the mistake.

## 3. Runs

| Run | Instance | Properties |
|---|---|---|
| reconcile | level 5, two processes, 2 foreign writes | SafetyInv, ReadyIsTrue, HPARespected, StatusMovesForward, PassScalesSafely |
| set_intent | level 5, two calls, 2 foreign writes, 1 fault | TypeOK, SetIsConditional, SetIsAtomic |
| set_scale | level 2, two calls, 2 foreign writes, 1 fault | HPARespected, SetIsConditional, SetIsAtomic |
| converge | level 5, two processes, 1 foreign write, 1 fault, fair | EventuallyConverged, EventuallyExplained |
| protected | level 2, one call; a violation is expected | ProtectedNotScaled |
| controller | two workers, one target and one name that is none, fair | ControllerInv, NoKeyForgotten, EveryIntentApplied, RunReturns |
| server | one process of any level, scaled-down times | ServerInv, OutageIsSeen, ExitsInTime |
| lease | two processes, 7/3/1 s, 4 faults, fair | LeaseInv, SomebodyLeads |
| cached_reads | level 5, two foreign or status writes, 1 fault | ReadInv, NothingUnseenReplaced |
| cached_reads_live | level 5, two attempts, fair | RefusalIsTemporary |
| rollout | two old and two new Pods, one lost Lease | ListedAccepts, SomebodyListed, NothingCut |
| components: api | every short request of levels 1 to 5, fair | NoAccidentalWrite, PreconditionKept, SameFailure, RequestAnswered |
| components: list | pages of one item and cached lists, fair | ListIsSnapshot, ListEnds |
| components: names | all strings up to 6 characters of 5 classes | ParseKeyIsExact |
| components: monitor | both modes, fair | MonitorInv, StartedMonitorReturns |
| components: certgen | three runs | OneIdentitySet |
| components: admission | all certificates, servers and flags | NoStrangerServed, VerdictIsRight |

An invariant called Inv is the conjunction of a module's type invariant, the named
properties next to it, and the conjuncts that make it inductive (section 4). What
it promises is OnePassPerKey and BackoffIsBounded in ControllerInv, DrainIsSeen and
LostLeaderNotReady in ServerInv, OneController in LeaseInv, AnswersWereTrue in
ReadInv, SuccessIsObserved and SuccessNotLate in MonitorInv; VerdictIsRight is
RejectionIsPolicy and LabPasses.

*What they show.* A pass that took its decision four requests ago never scales a
replaced, protected or deleting Deployment, although the HPA list, a second read
of the intent and a read of the scale lie in between (PassScalesSafely); late
passes of a previous leader neither falsify nor turn back a status (ReadyIsTrue,
StatusMovesForward); a Set is atomic, with the version its caller expected, in
spite of its retries (SetIsAtomic, SetIsConditional); and two leaders that keep
reconciling still converge. In the controller, the 30 s requeue repairs events
that a relist swallowed (EveryIntentApplied). Both promises are for targets. An
intent made by hand under a name that `ParseKey` rejects is stored, listed and
announced, but `process` forgets its key for good (controller.go:115-118): it is
never reconciled, never requeued and gets no status. The run shows that its key is
dropped every time (MalformedDropped) and that the target beside it loses nothing.
In the process, the five-second
sleep covers the one-second health loop, an outage is noticed in
`2 * Deadline + Period` (7 s, well before the 12 s freshness limit), and a process
that has a reason to end (a signal, a listener that failed, a lost Lease) is gone
within 5 + 15 + 2 = 22 s of the chart's 40 s: none of the errors sent on the
channel is lost, whenever it comes (ExitsInTime).

An HPA and the controller do not fight: the window between HasHPA and the write is
real, but a pass or a call that falls into it writes once, and nobody who starts
later gets that far (HPARespected); the status then says so (EventuallyExplained). Answers
from caches are old but never invented: a cache still empty is not an absent
Deployment, an intent is shown only with the instance it was made for, and its
absence is only ever told from a filled cache (AnswersWereTrue, IntentCacheFilled). Whoever sends back the version he was shown replaces the count
he saw (NothingUnseenReplaced), and a stale cache only delays him
(RefusalIsTemporary). A list is complete for one revision or an error.

The Lease keeps two controllers apart through crashes, partitions, lost answers
and the 20 s in which a leader drains and still works; releasing it on exit would
not (OneController). Since an elector is never run twice, the process has to end
with it (SomebodyLeads). During an upgrade, clients are sent only to Pods that
accept, also when a leader drains on its own and only the readiness probe tells
the Service; `minReadySeconds` is what keeps a Pod in the endpoints then
(SomebodyListed), and no accepted call is cut off (NothingCut).

No request becomes a scale to zero, or any write, that its sender did not spell
out, and a precondition is never lost on the way, not even when the flag of
`replicactl` stands behind the command: the words no longer count up, or the
target is refused. Failures keep their kind on both transports. A tlscheck that
succeeds has seen a refusal for want of a certificate or because of the URI.

*What the violation shows.* At levels 2 to 4 the retry loop of `Backend.Set`
repeats the scale request after a conflict without looking at the protection
annotation again, so a call can scale a Deployment that has become protected,
which README.md says is denied. Level 5 applies the count through a pass, and
PassScalesSafely excludes it there.

### Bounds

- `MaxReplicas = 1`: two valid counts, and one invalid on each side. Counts are
  only compared for equality and range.
- `Attempts = 2` (4 in client-go): one retry, and running out of retries.
- `EnvLimit` bounds the revisions after which only replica-control and Kubernetes
  write. The initial revision is 2, so 4 allows two foreign writes (delete and
  re-create) and 3 allows one. The theorems hold for every bound.
- `MaxFaults = 1`: one failed request or lost response, anywhere.
- CachedReads: `EnvLimit` also bounds what the controller and Kubernetes write;
  one caller, one Pod whose caches may restart: other Pods differ only in their
  positions, which restarts and skipped revisions already make arbitrary.
- PagedList: more Deployments than one page holds, so that a list needs several;
  `System` splits them into two namespaces.
- CachedReads: the liveness run has no fault, as a caller whose Pod restarts just
  reads again. Level 4, where only the Deployment is cached and the scale is
  written, has no run of its own: its reads are the first half of those of level
  5, and its writes are in set_scale.
- Lease: the smallest parameters that keep the order of the real ones
  (15/10/2 s, 20 s of draining), which LeaseAssumption states.
- Rollout: smallest times that satisfy the margins and let a call outlive the
  sleep; one lost Lease, as two of them may leave two replicas with none.
- Names: labels of 2 and names of 3 characters instead of 63 and 253, so that
  strings of 6 reach every limit.
- Api: counts below, at and above both limits; up to three fields. All bodies are
  tried at level 4, whose decoder is that of levels 2 and 3, all routes at each.
- Certgen: three runs, so that one may follow a failed and a partly removed one.
- Controller: the target has an intent when the process starts, and
  `MaxWrites = 2` allows to delete and re-create it, the sequence that defeats the
  update handler; `MaxErrors = 2` with `MaxRequeues = 1` reaches the minute-long
  delay. `Malformed` holds one name that is no target's; an intent of that name
  may be created and deleted or changed, and events of a Deployment or an HPA of
  that name count as writes too (`CountStray`), while the target's are unlimited.
- Server: the times keep their order (Deadline < Period, detection < Fresh,
  SleepTime above the one-second loop); the properties are stated in the constants.
- `CHECK_DEADLOCK FALSE` everywhere: a process that has exited, a monitor that
  has returned and a cluster in which nothing is left to do may stop.
- Symmetry over calls, passes and Pods is used in runs without liveness.

### Fairness

- Passes: weak fairness of the steps of a pass, including its start. The requeue
  after 30 s (success) or at most a minute (failure) starts another one, which the
  controller module checks separately (NoKeyForgotten, EveryIntentApplied). Like
  there, the target is one whose key parses.
- The Deployment controller eventually rolls out. Nothing is assumed of callers,
  users, faults, or the garbage collector.
- Controller: informers list and watch, timers elapse, workers go on because every
  pass has a ten-second deadline, and `Run` reacts to its context.
- Server: none. That failures end the process is a bound in time (ExitsInTime), and
  time waits for every thread that can go on.
- Lease: time passes, electors and processes run; the property itself asks for
  processes that can reach the API server again and again.
- CachedReads: watches deliver, requests of a call go on, and the caller keeps
  trying. PagedList: the call goes on.
- Api: handler code runs and the ten-second timer fires; that the backend ever
  returns is not assumed.
- Monitor: the select chooses at random among ready channels, hence strong
  fairness of the deadline case.

## 4. Proofs

Every safety property that a passing run checks is also a theorem, for all values
of the constants that the named assumptions allow. The table says what makes each
one inductive; a conjunct that is named in a model module is also checked by the
runs, as part of the Inv they check.

| Theorem | States | Rests on |
|---|---|---|
| `Safety`, `TypeCorrect`, `ReadyTrue`, `StatusForward`, `PassScales`, `SetConditional` | SafetyInv, TypeOK, ReadyIsTrue, StatusMovesForward, PassScalesSafely, SetIsConditional | `Evolution` and what memories are worth, below |
| `SetAtomic` | SetIsAtomic | `Safety`; `RegisterInv`: what is absent has no content, a call has a reason to update |
| `NoFight` | HPARespected | `TypeCorrect`; nobody is warned of an HPA that is not there |
| `OnePass`, `NothingForgotten` | ControllerInv, NoKeyForgotten (for targets) | the queue is the dirty keys nobody works on |
| `OneAtATime` | LeaseInv | the time left to a holder against the age others have seen |
| `DrainSeen`, `OutageSeen`, `ExitTimely` | ServerInv, OutageIsSeen, ExitsInTime | sums of elapsed and remaining time per thread |
| `ReadsWereTrue`, `UnseenKept` | ReadInv, NothingUnseenReplaced | a version names one state in the log |
| `ListWhole` | ListIsSnapshot | what is collected is the selected items up to the token |
| `ParseExact` | ParseKeyIsExact | the pieces of `Split`, by position |
| `MonitorVerdict` | MonitorInv | how long the settling has been observed |
| `OneIdentity` | OneIdentitySet | while a run works, all files are its own, torn or absent |
| `StrangersOut`, `VerdictRight` | NoStrangerServed, VerdictIsRight | the certificate shown is the one set up, and was judged |
| `ListedServe`, `CallsFinish` | ListedAccepts, NothingCut | `RollInv`: each Pod's waits against the probe and the lag |
| `SomebodyServes` | SomebodyListed, if `MaxLost < Replicas` | `ServedInv`: available Pods and lost Leases add up |
| `FailureSame`, `WritesAsked`, `PreconditionReaches` | SameFailure, NoAccidentalWrite, PreconditionKept | `ApiInv`: what is known of a request at each stage |

**Set and passes.** None of the properties of ReplicaControl is inductive alone.
That a status is truthful depends on what a pass remembers of an intent that may
have changed since; that a scale write is safe depends on the Deployment read four
requests ago. The invariant says what such a memory is worth:

- `RevisionsKnown`: no object carries a revision not yet given out, so a version
  that was read never comes back with other contents;
- `RemembersSpec`: within one generation of one object the count is the one the
  pass remembers;
- `Guarded`: a Deployment that still has the version the pass read *is* the
  Deployment it read, guards included;
- `HonestStatus`, `StatusPinned`: what WriteStatus is about to store is about the
  generation it will meet, if the update is accepted;
- `CallInv`: the version a call is about to replace is the expected one and
  belongs to the Deployment instance it checked.

The argument goes through one relation, `Evolution`: whatever anybody writes,
revisions grow, a changed object carries a new revision, and a generation's count
never changes. Every action is shown to satisfy it, and it alone keeps the
memories of all other passes and calls true; so a step needs a proof only for the
pass or the call that takes it.

**Refinement.** `SetAtomic` shows that initial states are initial states of the
register and that every step is one of its steps or invisible to it. A call takes
effect in its one accepted write, or in the read that finds the count already
there; a step of a pass, a user or Kubernetes is a foreign write or changes no
`Target`. The create and the update of an intent each need to know that nothing
else could have written the expected version in between, which is `CallInv`.

**Controller.** `QueueIsDirty` ties the three sets of the queue together, so Get
hands out no key twice; `BusyWorkersHold` ties the workers to them;
`ReturnIsArranged` says that a worker about to call Done has already re-queued its
key, which is what NoKeyForgotten needs in the instant in which nobody holds it. It
holds of targets only, and `MalformedDropped` is what it leaves out: other keys,
with or without an intent, go back to nobody.

**Lease.** Two processes never compare clocks. `StopsInTime` compares, for one that
has seen the holder's last write, the age it has measured with all that the
holder may still do: the rest of its deadline, an answer under way and the last
request of its controller. `TakesOverLate` is the other side: who takes over has
measured all of `LeaseDuration`. Without the margin of LeaseAssumption the two
overlap.

**Server.** Each bound is a sum over the threads that news passes: `ProbeOnTime`
(probe loop), `StatusFollows` and `StatusInTime` (gRPC loop), `ShutdownInOrder`
(main thread and its error channel). A channel of capacity one is enough.

**Reads.** Every write is stamped with a new revision, so the log only grows and a
resourceVersion found in it names one state of one object (`VersionsName`). Then
an object that Set meets at the version the caller was shown is what he was shown.

**Order.** `sort.Slice`, pages and `strings.Split` would be recursive in most
definitions, which needs induction over data. Here each is defined by position, and
one lemma replaces the induction: in a finite set of n different numbers every
place from 0 to n - 1 is taken by exactly one of them (`Places`). ListWhole then
says of each page that it continues exactly where the collected items end, and
ParseExact that the pieces between dots are labels exactly if the name is a
subdomain.

Assumptions of the theorems are the named ASSUMEs, each justified by the code or
the chart:

- counts, times and bounds are numbers; `Calls` and `Passes` are different names;
- LeaseAssumption: the order of 15 s, 10 s, 2 s, with requests that are quick
  against their differences;
- CapacityAssumption: the error channel is buffered (`errs`, capacity 4);
- RolloutAssumption: the margins of the chart's times; SomebodyServes also needs
  fewer lost Leases than replicas, as each takes one Pod out of the Service;
- ListAssumption: finitely many Deployments. Their keys are positive numbers,
  0 standing for the empty token.

Only model-checked: EventuallyConverged, EventuallyExplained, EveryIntentApplied,
RunReturns, SomebodyLeads, RefusalIsTemporary, RequestAnswered, ListEnds and
StartedMonitorReturns. They are liveness properties, which need ENABLED and are
beyond the prover. ProtectedNotScaled is refuted by its run.

## 5. Plan and what is not modelled

Next:

1. the steps of the liveness arguments that are safety: a pass that nobody disturbs
   takes the Deployment to its intent's count, a step of it never leads away from
   there, and what RunReturns, ListEnds and StartedMonitorReturns count down shrinks;
2. the work queue as an abstract specification (a set of keys, each given to one
   worker at a time), implemented by WorkQueue under Controller;
3. the Lease as mutual exclusion in the same way;
4. what a level does not touch: intents at levels 2 to 4, the scale from Set at
   level 5.

Left out for good:

- parsing of the server's flags and loading of its files and client
  configuration, which either fail before a thread exists or leave no trace;
- logging, wording and layout of messages, `replicactl`'s output;
- the generated message code apart from the handlers and the optional count:
  reflection, descriptors and client stubs make no decisions;
- cryptography and certificate chains, which are the library's;
- RBAC, Service, disruption budget and security context of the chart, the shell
  scripts and the documentation tools;
- the moment in which a starting process answers /readyz before its API listener
  is open (`cmd/server/main.go:164-216`): Rollout takes the way of that news to the
  proxies to be longer. Nothing in the repository promises an order.
