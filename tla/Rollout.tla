------------------------------ MODULE Rollout ------------------------------
(***************************************************************************)
(* A rolling upgrade as its clients see it: the shutdown of cmd/server, the*)
(* readiness route of internal/health and the requests of cmd/probe, put   *)
(* together with what Kubernetes makes of the chart: the kubelet's probes, *)
(* the Deployment's rolling update and the Service, whose proxies learn of *)
(* a Pod with a delay.  Module Server has the threads of one process; here *)
(* a process is what can be seen of it from outside.  Time is in seconds.  *)
(***************************************************************************)
EXTENDS Naturals, FiniteSets

CONSTANTS
    Old, New,      \* the Pods before and after the upgrade
    ProbeTime,     \* readinessProbe: periodSeconds and timeoutSeconds (2 + 1)
    MinReady,      \* minReadySeconds (5)
    Lag,           \* longest way of a change of readiness to the proxies
    SleepTime,     \* between Drain and the stop of the API server (5)
    StopTime,      \* for the calls in flight (15)
    RequestTime,   \* longest call: the deadline of the handlers (10)
    MaxLost        \* BOUND: how often a leader loses its Lease

Pods == Old \cup New
Replicas == Cardinality(Old)

(* The margins of the configuration: with the chart's values they hold for *)
(* a Service that follows within a second.                                 *)
ASSUME RolloutAssumption ==
    /\ IsFiniteSet(Pods) /\ Old \cap New = {} /\ Cardinality(New) = Replicas
    /\ {ProbeTime, MinReady, Lag, SleepTime, StopTime, RequestTime, MaxLost} \subseteq Nat
    /\ ProbeTime > 0 /\ Lag > 0 /\ RequestTime > 0
    /\ ProbeTime + Lag < SleepTime /\ Lag < MinReady /\ RequestTime < StopTime

VARIABLES
    pod,     \* pod[p]: the process of Pod p, and what Kubernetes knows of it
    lost     \* how often leadership was lost

rollVars == <<pod, lost>>

NoPod ==
    [main |-> "none",        \* none, starting, serving, sleeping, stopping, gone
     left |-> 0,             \* of the sleep, of the graceful stop
     draining |-> FALSE,
     work |-> 0,             \* what the latest call may still take
     deleted |-> FALSE,      \* the Pod has a deletionTimestamp
     ready |-> FALSE,        \* its condition Ready, set by the kubelet
     probe |-> 0,            \* until the next result of the readiness probe
     age |-> 0,              \* since it has become ready, up to MinReady
     listed |-> FALSE,       \* the proxies send connections to it
     lag |-> 0]              \* until they must know the latest change

Runs(p) == pod[p].main \notin {"none", "gone"}
Wanted(p) == pod[p].ready /\ ~pod[p].deleted

-----------------------------------------------------------------------------
(* The process *)

(* It listens; the proxies cannot have heard of it before. *)
Listens(p) ==
    /\ pod[p].main = "starting"
    /\ pod' = [pod EXCEPT ![p].main = "serving"]
    /\ UNCHANGED lost

(* Mutants of DrainFirst: readiness stays; nothing waits for the proxies. *)
DrainLate(x) == [x EXCEPT !.main = "sleeping", !.left = SleepTime]
DrainAtOnce(x) == [x EXCEPT !.main = "stopping", !.left = StopTime, !.draining = TRUE]

(* Drain, and the sleep that follows. *)
DrainFirst(x) == [x EXCEPT !.main = "sleeping", !.left = SleepTime, !.draining = TRUE]

(* SIGTERM follows the deletion; run takes it from its select. *)
Terminates(p) ==
    /\ pod[p].main = "serving" /\ pod[p].deleted
    /\ pod' = [pod EXCEPT ![p] = DrainFirst(@)]
    /\ UNCHANGED lost

(* The leader loses its Lease: it drains although nobody deletes the Pod,  *)
(* so that only the readiness probe tells the Service.                     *)
LosesLease(p) ==
    /\ lost < MaxLost
    /\ pod[p].main = "serving"
    /\ pod' = [pod EXCEPT ![p] = DrainFirst(@)]
    /\ lost' = lost + 1

Slept(p) ==
    /\ pod[p].main = "sleeping" /\ pod[p].left = 0
    /\ pod' = [pod EXCEPT ![p].main = "stopping", ![p].left = StopTime]
    /\ UNCHANGED lost

(* Mutant of Exits: calls in flight are not waited for. *)
ExitsAtOnce(p) ==
    /\ pod[p].main = "stopping"
    /\ pod' = [pod EXCEPT ![p] =
          [NoPod EXCEPT !.main = IF pod[p].deleted THEN "gone" ELSE "starting",
                        !.deleted = pod[p].deleted, !.listed = pod[p].listed,
                        !.probe = IF pod[p].deleted THEN 0 ELSE ProbeTime,
                        !.lag = IF pod[p].ready THEN Lag ELSE pod[p].lag]]
    /\ UNCHANGED lost

(* The graceful stop ends with the last call, or after StopTime, and the   *)
(* process with it; the kubelet starts the container of a live Pod again.  *)
Exits(p) ==
    /\ pod[p].main = "stopping"
    /\ pod[p].work = 0 \/ pod[p].left = 0
    /\ pod' = [pod EXCEPT ![p] =
          [NoPod EXCEPT !.main = IF pod[p].deleted THEN "gone" ELSE "starting",
                        !.deleted = pod[p].deleted, !.listed = pod[p].listed,
                        !.probe = IF pod[p].deleted THEN 0 ELSE ProbeTime,
                        !.lag = IF pod[p].ready THEN Lag ELSE pod[p].lag]]
    /\ UNCHANGED lost

(* A call arrives, over a connection of its own, at a Pod that the proxies *)
(* choose (cmd/probe: "deliberately establishes fresh connections"), ...   *)
Request(p) ==
    /\ pod[p].listed /\ pod[p].main \in {"serving", "sleeping"}
    /\ pod' = [pod EXCEPT ![p].work = RequestTime]
    /\ UNCHANGED lost

(* ... and ends, at the latest when its time is over. *)
RequestEnds(p) ==
    /\ pod[p].work > 0
    /\ pod' = [pod EXCEPT ![p].work = 0]
    /\ UNCHANGED lost

-----------------------------------------------------------------------------
(* Kubernetes *)

(* The kubelet asks /readyz.  A process that starts may need time for its  *)
(* caches and its first look at the API server, which is there throughout. *)
KubeletProbes(p) ==
    /\ Runs(p) /\ pod[p].probe = 0
    /\ \E ready \in IF pod[p].draining THEN {FALSE} ELSE {pod[p].ready, TRUE} :
          pod' = [pod EXCEPT ![p] =
             [pod[p] EXCEPT !.ready = ready, !.probe = ProbeTime,
                            !.age = IF ready /\ pod[p].ready THEN pod[p].age ELSE 0,
                            !.lag = IF ready # pod[p].ready THEN Lag ELSE pod[p].lag]]
    /\ UNCHANGED lost

(* The proxies follow; a Pod that has just become ready is not theirs yet. *)
Propagates(p) ==
    /\ pod[p].listed # Wanted(p)
    /\ Wanted(p) => pod[p].lag < Lag
    /\ pod' = [pod EXCEPT ![p].listed = ~@]
    /\ UNCHANGED lost

(* Mutant of Available: a Pod counts as soon as it is ready. *)
AvailableAtOnce(p) == Wanted(p)

(* The Deployment controller counts Pods that have been ready for a while. *)
Available(p) == Wanted(p) /\ pod[p].age >= MinReady

Current == {p \in Pods : Runs(p) /\ ~pod[p].deleted}

(* maxSurge: 1 *)
Surges(p) ==
    /\ p \in New /\ pod[p].main = "none"
    /\ Cardinality(Current) < Replicas + 1
    /\ pod' = [pod EXCEPT ![p].main = "starting", ![p].probe = ProbeTime]
    /\ UNCHANGED lost

(* maxUnavailable: 0, and the removal of old Pods that are not available   *)
(* anyway.                                                                 *)
Retires(p) ==
    /\ p \in Old \cap Current
    /\ IF Available(p)
       THEN Cardinality({q \in Current : Available(q)}) > Replicas
       ELSE Cardinality(Current) > Replicas + Cardinality({q \in Current \cap New : ~Available(q)})
    /\ pod' = [pod EXCEPT ![p].deleted = TRUE,
                          ![p].lag = IF pod[p].ready THEN Lag ELSE @]
    /\ UNCHANGED lost

-----------------------------------------------------------------------------
Due(p) ==
    \/ Runs(p) /\ pod[p].probe = 0
    \/ pod[p].main = "starting"
    \/ pod[p].main \in {"sleeping", "stopping"} /\ pod[p].left = 0
    \/ pod[p].listed # Wanted(p) /\ pod[p].lag = 0

Less(n) == IF n = 0 THEN 0 ELSE n - 1

Tick ==
    /\ \A p \in Pods : ~Due(p)
    /\ pod' = [p \in Pods |->
          [pod[p] EXCEPT !.left = Less(@), !.work = Less(@), !.probe = Less(@), !.lag = Less(@),
                         !.age = IF pod[p].ready /\ @ < MinReady THEN @ + 1 ELSE @]]
    /\ UNCHANGED lost

RollInit ==
    /\ \E phase \in [Old -> 0..ProbeTime] :
          pod = [p \in Pods |->
             IF p \in New THEN NoPod
             ELSE [NoPod EXCEPT !.main = "serving", !.ready = TRUE, !.listed = TRUE,
                                !.age = MinReady, !.probe = phase[p]]]
    /\ lost = 0

Process(p) == Listens(p) \/ Terminates(p) \/ Slept(p) \/ Exits(p)

Kubernetes(p) == KubeletProbes(p) \/ Propagates(p) \/ Surges(p) \/ Retires(p)

RollNext ==
    \/ Tick
    \/ \E p \in Pods :
          Process(p) \/ LosesLease(p) \/ Kubernetes(p) \/ Request(p) \/ RequestEnds(p)

RollSpec == RollInit /\ [][RollNext]_rollVars

-----------------------------------------------------------------------------
(* main.go: "Readiness is removed first; allow EndpointSlice updates before*)
(* draining RPCs."  While clients are sent to a Pod it accepts their       *)
(* connections, whether it shuts down on a signal or on its own.           *)
ListedAccepts == \A p \in Pods : pod[p].listed => pod[p].main \in {"serving", "sleeping"}

(* There is always a Pod to go to, although in the middle of the upgrade   *)
(* a leader may lose its Lease and drain.                                  *)
SomebodyListed == \E p \in Pods : pod[p].listed

(* No call that was accepted is cut off by the shutdown. *)
NothingCut ==
    [][\A p \in Pods : pod[p].main = "stopping" /\ pod'[p].main # "stopping" => pod[p].work = 0]_rollVars
=============================================================================
