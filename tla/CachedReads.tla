---------------------------- MODULE CachedReads ----------------------------
(***************************************************************************)
(* Reads of one target, and the callers that act on what they read.        *)
(*                                                                         *)
(* Levels 1 to 3 ask the API server.  From level 4 on every Pod answers    *)
(* Get and List from informer caches, one per kind of object, each filled  *)
(* by its own list and watch: a Pod knows the Deployment of one revision   *)
(* and the ReplicaIntent of another, and a handler that has read the one   *)
(* has not yet read the other.                                             *)
(*                                                                         *)
(* A caller reads, then sends a Set that expects the version it was shown, *)
(* and reads again when it is refused.                                     *)
(***************************************************************************)
EXTENDS SetCall

CONSTANTS
    Pods      \* the server processes that answer reads

VARIABLES
    log,      \* log[r]: what the API server stored at revision r
    pos,      \* pos[p]: the revisions that the caches of Pod p have reached
    view      \* view[c]: what caller c is doing and what it was shown

cacheVars == <<log, pos, view>>
readVars == <<rv, dep, intent, hpa, faults, call, log, pos, view>>

Kinds == {"dep", "intent", "hpa"}

(* backend.New: the informers a level sets up.  *)
Informers == CASE Level = 5 -> Kinds [] Level = 4 -> {"dep"} [] OTHER -> {}

(* What DesiredReplicas, IntentVersion and ReconcilePhase of the view show.*)
(* version = 0: the fields are left empty.                                 *)
Shown == [version : Nat, replicas : Counts, phase : {"none", "Ready", "Blocked", "Reconciling"}]
NothingShown == [version |-> 0, replicas |-> 0, phase |-> "none"]

View ==
    [pc : {"idle", "decorate", "read", "sent", "finished"}, pod : Pods,
     result : Codes, dep : Deployment, shown : Shown]

-----------------------------------------------------------------------------
(* The caches.  A watch delivers the states of the object in order; a      *)
(* relist, and the compaction of events, may skip some.  The first list is *)
(* served from the API server's own watch cache, which may lag.  Nothing   *)
(* reads the HPA cache: all that matters is whether it was ever filled.    *)

Advance(p, k) ==
    /\ k \in Informers
    /\ \E r \in (pos[p][k] + 1)..(IF k = "hpa" THEN 1 ELSE rv) :
          pos' = [pos EXCEPT ![p][k] = r]
    /\ UNCHANGED <<clusterVars, faults, call, log, view>>

(* A Pod is replaced: the new process starts with empty caches. *)
PodRestarts(p) ==
    /\ faults < MaxFaults
    /\ pos' = [pos EXCEPT ![p] = [k \in Kinds |-> 0]]
    /\ view' = [c \in Calls |->
                  IF view[c].pc = "decorate" /\ view[c].pod = p
                  THEN [view[c] EXCEPT !.pc = "idle", !.dep = NoDeployment]
                  ELSE view[c]]
    /\ faults' = faults + 1
    /\ UNCHANGED <<clusterVars, call, log>>

(* Mutant of Synced: an empty cache is taken for an empty cluster. *)
SyncedAlways(p) == TRUE

(* Every informer of the level has completed its first list. *)
Synced(p) == \A k \in Informers : pos[p][k] # 0

(* The listers: what the cache holds; a cache never filled holds nothing.  *)
CachedDeployment(p) == IF pos[p].dep = 0 THEN NoDeployment ELSE log[pos[p].dep].dep
CachedIntent(p) == IF pos[p].intent = 0 THEN NoIntent ELSE log[pos[p].intent].intent

-----------------------------------------------------------------------------
(* Backend.Get up to the Deployment it returns, and the same for the one   *)
(* target in Backend.List.                                                 *)
ReadDeployment(c, p) ==
    /\ view[c].pc = "idle"
    /\ LET d == IF Level >= 4 THEN CachedDeployment(p) ELSE dep
           result == IF Level >= 4 /\ ~Synced(p) THEN "Unavailable"
                     ELSE IF d.uid = 0 THEN "NotFound" ELSE "OK"
       IN  view' = [view EXCEPT ![c] =
                     [pc |-> IF result = "OK" /\ Level = 5 THEN "decorate" ELSE "read",
                      pod |-> p, result |-> result, shown |-> NothingShown,
                      dep |-> IF result = "OK" THEN d ELSE NoDeployment]]
    /\ UNCHANGED <<clusterVars, faults, call, log, pos>>

(* Mutant of Decoration: an old owner's intent is shown. *)
DecorationAnyUID(d, i) ==
    IF i.uid = 0 THEN NothingShown
    ELSE [version |-> i.rv, replicas |-> i.replicas, phase |-> Phase(i.status.reason)]

(* Mutants of Decoration: the reason is shown for the phase; the version   *)
(* shown is the Deployment's.                                              *)
DecorationReason(d, i) ==
    IF i.uid = 0 \/ i.depUID # d.uid THEN NothingShown
    ELSE [version |-> i.rv, replicas |-> i.replicas, phase |-> i.status.reason]

DecorationOther(d, i) ==
    IF i.uid = 0 \/ i.depUID # d.uid THEN NothingShown
    ELSE [version |-> d.rv, replicas |-> i.replicas, phase |-> Phase(i.status.reason)]

(* decorateIntent: the intent of this very Deployment instance, or nothing.*)
Decoration(d, i) ==
    IF i.uid = 0 \/ i.depUID # d.uid THEN NothingShown
    ELSE [version |-> i.rv, replicas |-> i.replicas, phase |-> Phase(i.status.reason)]

ReadIntent(c) ==
    /\ view[c].pc = "decorate"
    /\ view' = [view EXCEPT ![c].pc = "read",
                            ![c].shown = Decoration(view[c].dep, CachedIntent(view[c].pod))]
    /\ UNCHANGED <<clusterVars, faults, call, log, pos>>

-----------------------------------------------------------------------------
(* The caller.  The version to expect is that of the object Set will write;*)
(* where no intent is shown there is none to expect.  Level 1 only reads.  *)
ExpectedVersion(v) == IF Level = 5 THEN v.shown.version ELSE v.dep.rv

SendSet(c) ==
    /\ Level >= 2
    /\ view[c].pc = "read" /\ view[c].result = "OK"
    /\ \E n \in Counts :
          call' = [call EXCEPT ![c] = [IdleCall EXCEPT !.pc = "GetTarget", !.n = n,
                                             !.expected = ExpectedVersion(view[c])]]
    /\ view' = [view EXCEPT ![c].pc = "sent"]
    /\ UNCHANGED <<clusterVars, faults, log, pos>>

(* The read failed, or the Set was refused: the caller reads once more. *)
ReadAgain(c) ==
    /\ \/ view[c].pc = "read" /\ view[c].result # "OK"
       \/ view[c].pc = "sent" /\ call[c].pc = "done" /\ call[c].result # "OK"
    /\ view' = [view EXCEPT ![c] = [@ EXCEPT !.pc = "idle", !.result = "OK",
                                      !.dep = NoDeployment, !.shown = NothingShown]]
    /\ call' = [call EXCEPT ![c] = IdleCall]
    /\ UNCHANGED <<clusterVars, faults, log, pos>>

Finish(c) ==
    /\ view[c].pc = "sent" /\ call[c].pc = "done" /\ call[c].result = "OK"
    /\ view' = [view EXCEPT ![c].pc = "finished"]
    /\ UNCHANGED <<clusterVars, faults, call, log, pos>>

-----------------------------------------------------------------------------
Stored == [dep |-> dep, intent |-> intent]

ReadInit ==
    /\ ClusterInit /\ CallInit
    /\ Level < 5 => intent = NoIntent
    /\ log = [r \in 1..2 |-> IF r = 1 THEN [dep |-> dep, intent |-> NoIntent] ELSE Stored]
    /\ pos = [p \in Pods |-> [k \in Kinds |-> 0]]
    /\ view \in [Calls -> [pc : {"idle"}, pod : Pods, result : {"OK"},
                           dep : {NoDeployment}, shown : {NothingShown}]]

(* The API server's log grows with every write. *)
Logged == log' = IF rv' = rv THEN log
                 ELSE [r \in 1..rv' |-> IF r = rv' THEN Stored' ELSE log[r]]

(* The controller reports on the intent (see Reconcile), which moves the   *)
(* version that callers expect.                                            *)
StatusReported ==
    /\ intent.uid # 0
    /\ \E r \in {"ScaleUpdated", "DesiredStateObserved"} \ {intent.status.reason} :
          StoreIntent([intent EXCEPT !.status = [reason |-> r, gen |-> intent.gen,
                                                 replicas |-> dep.replicas,
                                                 ready |-> dep.ready]])

(* Here EnvLimit also bounds what the controller and Kubernetes write. *)
ClusterMoves ==
    /\ rv < EnvLimit
    /\ Users \/ Kubernetes \/ StatusReported
    /\ Logged /\ UNCHANGED <<faults, call, pos, view>>

CallMoves(c) ==
    /\ CallStep(c) \/ CallRequestFails(c) \/ CallResponseLost(c)
    /\ Logged /\ UNCHANGED <<pos, view>>

CallerMoves(c) ==
    \/ \E p \in Pods : ReadDeployment(c, p)
    \/ ReadIntent(c) \/ SendSet(c) \/ ReadAgain(c) \/ Finish(c)

ReadNext ==
    \/ ClusterMoves
    \/ \E p \in Pods : PodRestarts(p) \/ \E k \in Kinds : Advance(p, k)
    \/ \E c \in Calls : CallMoves(c) \/ CallerMoves(c)

ReadSpec == ReadInit /\ [][ReadNext]_readVars

(* Watches deliver, requests go on and the caller keeps trying. *)
ReadFairness ==
    /\ \A p \in Pods, k \in Kinds : WF_readVars(Advance(p, k))
    /\ \A c \in Calls :
          WF_readVars(CallStep(c) /\ Logged /\ UNCHANGED <<pos, view>>)
          /\ WF_readVars(CallerMoves(c))

FairReadSpec == ReadSpec /\ ReadFairness

-----------------------------------------------------------------------------
ReadTypeOK ==
    /\ ClusterTypeOK /\ CallTypeOK
    /\ log \in [1..rv -> [dep : Deployment, intent : Intent]]
    /\ pos \in [Pods -> [Kinds -> 0..rv]]
    /\ view \in [Calls -> View]

(* Every answer is true of the past.  "Not found" is an answer too: there  *)
(* was a moment without the Deployment, and what is shown of an intent     *)
(* (count, version and phase) was stored together, for this very instance. *)
(* A cache that is still empty, and the two caches being apart, do not     *)
(* show.                                                                   *)
WasTrue(v) ==
    v.pc \in {"read", "sent"} =>
       /\ v.result = "NotFound" => \E r \in 1..rv : log[r].dep.uid = 0
       /\ v.result = "OK" => \E r \in 1..rv : log[r].dep = v.dep
       /\ v.result = "OK" /\ Level = 5 /\ v.shown.version # 0 =>
             \E r \in 1..rv :
                LET i == log[r].intent
                IN  /\ i.uid # 0 /\ i.depUID = v.dep.uid
                    /\ i.rv = v.shown.version
                    /\ i.replicas = v.shown.replicas
                    /\ Phase(i.status.reason) = v.shown.phase

AnswersWereTrue == \A c \in Calls : WasTrue(view[c])

(* What makes a version worth expecting: the log ends with what is stored, *)
(* and a resourceVersion is the revision that stored this very state.      *)
VersionsName ==
    /\ rv >= 1 /\ log[rv] = Stored
    /\ \A r \in 1..rv :
          LET d == log[r].dep
              i == log[r].intent
          IN  /\ d.uid # 0 => d.rv \in 1..r /\ log[d.rv].dep = d
              /\ i.uid # 0 => i.rv \in 1..r /\ log[i.rv].intent = i

(* What a handler holds between its two reads was stored once. *)
IsHeld(v) ==
    /\ v.pc = "decorate" => /\ Level = 5 /\ v.result = "OK"
                            /\ \E r \in 1..rv : log[r].dep = v.dep
    /\ v.pc = "sent" => v.result = "OK"
    /\ v.pc \in {"decorate", "read", "sent"} /\ v.result = "OK" => v.dep.uid # 0

ReadsHold == \A c \in Calls : IsHeld(view[c])

(* A handler between its two reads is on a Pod whose intents have arrived: *)
(* if it then shows none, that is not because the cache is still empty.    *)
IntentCacheFilled ==
    \A c \in Calls : view[c].pc = "decorate" => pos[view[c].pod].intent # 0

(* A Set k on its way expects what its caller was shown, v, and writes the *)
(* version it expects, in the instance its caller read.                    *)
Follows(k, v) ==
    k.pc \in CallSteps =>
       /\ v.pc = "sent" /\ k.expected = ExpectedVersion(v) /\ k.n \in Counts
       /\ k.pc \in {"GetScale", "UpdateScale"} => Level # 5
       /\ k.pc \in {"GetIntent", "CreateIntent", "UpdateIntent"} => Level = 5
       /\ k.pc = "CreateIntent" => k.expected = 0
       /\ k.pc \in {"UpdateScale", "UpdateIntent"} /\ k.expected # 0 =>
             k.seen = k.expected /\ k.depUID = v.dep.uid

SetsFollowReads == \A c \in Calls : Follows(call[c], view[c])

ReadInv ==
    /\ ReadTypeOK /\ AnswersWereTrue /\ VersionsName
    /\ ReadsHold /\ IntentCacheFilled /\ SetsFollowReads

(* The same call sees only what it was shown: a Set that expects a version *)
(* replaces the count that its caller read, in the Deployment instance the *)
(* caller read, however far the caches were behind.                        *)
NothingUnseenReplaced ==
    [][\A c \in Calls :
          LET v == view[c]
          IN  call[c].pc \in CallSteps /\ call'[c].pc = "done" /\ call'[c].result = "OK"
              /\ call[c].expected # 0 =>
                 /\ call[c].depUID = v.dep.uid
                 /\ IF Level = 5 THEN intent.replicas = v.shown.replicas
                                 ELSE dep.replicas = v.dep.replicas]_readVars

(* A stale cache delays a caller, it does not lock him out: while the      *)
(* target can be written, whoever reads again after each refusal gets his  *)
(* Set through.                                                            *)
CanBeSet ==
    /\ dep.uid # 0 /\ ~dep.deleting /\ ~dep.protected /\ ~hpa
    /\ intent.uid = 0 \/ (~intent.deleting /\ intent.depUID = dep.uid)

RefusalIsTemporary ==
    \A c \in Calls : <>[]CanBeSet => <>(view[c].pc = "finished")
=============================================================================
