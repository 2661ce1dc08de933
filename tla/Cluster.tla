------------------------------ MODULE Cluster ------------------------------
(***************************************************************************)
(* The Kubernetes objects that replica-control reads and writes for ONE    *)
(* target (namespace/name), as internal/kube sees them through client-go,  *)
(* and everything that changes them besides replica-control itself.        *)
(*                                                                         *)
(* Targets do not share an object, so one target is enough for every       *)
(* property of a Set call or of a reconciliation pass.                     *)
(*                                                                         *)
(* The API server numbers all its writes with one revision counter, rv; an *)
(* object's resourceVersion is the revision of its last write and its UID  *)
(* is represented by the revision that created it, which no other object   *)
(* can have.  uid = 0 stands for "no such object".                         *)
(***************************************************************************)
EXTENDS Integers

CONSTANTS
    MaxReplicas,   \* largest accepted replica count (1000 in the code)
    Attempts,      \* steps of retry.DefaultBackoff (4 in client-go)
    EnvLimit,      \* BOUND: nobody but replica-control writes once rv reaches it
    MaxFaults      \* BOUND: requests to the API server that fail

ASSUME MaxReplicasAssumption == MaxReplicas \in Nat
ASSUME AttemptsAssumption == Attempts \in Nat \ {0}
ASSUME EnvLimitAssumption == EnvLimit \in Nat
ASSUME MaxFaultsAssumption == MaxFaults \in Nat

VARIABLES
    rv,       \* revision of the API server's latest write
    dep,      \* the Deployment of the target, as internal/kube reads it
    intent,   \* the ReplicaIntent of the target
    hpa,      \* does an HPA target the Deployment?
    faults    \* requests of replica-control that have failed so far

clusterVars == <<rv, dep, intent, hpa>>

(* The counts that ValidateReplicas, parseIntent and the CRD accept. *)
Counts == 0..MaxReplicas

-----------------------------------------------------------------------------
(* model.Deployment: the view that the function deployment() extracts.     *)
Deployment ==
    [uid : Nat, rv : Nat, gen : Nat, observed : Nat,
     replicas : Counts, ready : Counts,
     protected : BOOLEAN, deleting : BOOLEAN]

NoDeployment ==
    [uid |-> 0, rv |-> 0, gen |-> 0, observed |-> 0, replicas |-> 0,
     ready |-> 0, protected |-> FALSE, deleting |-> FALSE]

(* model.ReconcileStatus.  The reason determines the phase; see Phase. *)
BlockedReasons ==
    {"DeploymentNotFound", "DeploymentUIDMismatch", "DeploymentDeleting",
     "ProtectedDeployment", "HPAConflict"}

Reasons ==
    BlockedReasons \cup
    {"ScaleUpdated", "WaitingForDeployment", "DesiredStateObserved"}

Phase(reason) ==
    CASE reason = "DesiredStateObserved" -> "Ready"
      [] reason \in BlockedReasons -> "Blocked"
      [] reason \in {"ScaleUpdated", "WaitingForDeployment"} -> "Reconciling"
      [] OTHER -> "none"

ReconcileStatus ==
    [reason : Reasons \cup {"none"}, gen : Nat, replicas : Counts, ready : Counts]

NoStatus == [reason |-> "none", gen |-> 0, replicas |-> 0, ready |-> 0]

(* model.Intent together with the status subresource of the custom         *)
(* resource.  The CRD makes deploymentName equal to the object's name,     *)
(* deploymentUID immutable and replicas a member of Counts, so parseIntent *)
(* succeeds on every stored intent.                                        *)
Intent ==
    [uid : Nat, rv : Nat, gen : Nat, depUID : Nat, replicas : Counts,
     deleting : BOOLEAN, status : ReconcileStatus]

NoIntent ==
    [uid |-> 0, rv |-> 0, gen |-> 0, depUID |-> 0, replicas |-> 0,
     deleting |-> FALSE, status |-> NoStatus]

-----------------------------------------------------------------------------
(* Writes of the API server: every one is stamped with a new revision. *)

StoreDeployment(d) ==
    /\ rv' = rv + 1
    /\ dep' = [d EXCEPT !.rv = rv + 1]
    /\ UNCHANGED <<intent, hpa>>

StoreIntent(i) ==
    /\ rv' = rv + 1
    /\ intent' = [i EXCEPT !.rv = rv + 1]
    /\ UNCHANGED <<dep, hpa>>

(* A spec change moves the generation, and an update that changes nothing  *)
(* is not a write: the API server answers it with the stored object.       *)
StoreScale(n) ==
    IF dep.replicas = n
    THEN UNCHANGED clusterVars
    ELSE StoreDeployment([dep EXCEPT !.replicas = n, !.gen = dep.gen + 1])

(* An intent for the Deployment instance uid, and a change of its count. *)
NewIntent(uid, n) ==
    [NoIntent EXCEPT !.uid = rv + 1, !.gen = 1, !.depUID = uid, !.replicas = n]

WithReplicas(i, n) == [i EXCEPT !.replicas = n, !.gen = i.gen + 1]

-----------------------------------------------------------------------------
(* Other users of the cluster: kubectl, GitOps tools, an HPA's owner.      *)
(* Their number of writes is bounded by EnvLimit.                          *)

DeployCreated ==
    /\ rv < EnvLimit
    /\ dep.uid = 0
    /\ \E n \in Counts, p \in BOOLEAN :
          StoreDeployment([NoDeployment EXCEPT !.uid = rv + 1, !.gen = 1,
                                               !.replicas = n, !.protected = p])

(* A deletion that waits for finalizers first sets deletionTimestamp, which*)
(* also moves the generation; without finalizers the object just goes.     *)
DeployDeleting ==
    /\ rv < EnvLimit
    /\ dep.uid # 0 /\ ~dep.deleting
    /\ StoreDeployment([dep EXCEPT !.deleting = TRUE, !.gen = dep.gen + 1])

DeployRemoved ==
    /\ rv < EnvLimit
    /\ dep.uid # 0
    /\ rv' = rv + 1
    /\ dep' = NoDeployment
    /\ UNCHANGED <<intent, hpa>>

(* Somebody else scales the Deployment: the drift a reconciler corrects. *)
DeployDrifts ==
    /\ rv < EnvLimit
    /\ dep.uid # 0
    /\ \E n \in Counts \ {dep.replicas} : StoreScale(n)

DeployProtected ==
    /\ rv < EnvLimit
    /\ dep.uid # 0
    /\ StoreDeployment([dep EXCEPT !.protected = ~dep.protected])

HPAChanges ==
    /\ rv < EnvLimit
    /\ rv' = rv + 1
    /\ hpa' = ~hpa
    /\ UNCHANGED <<dep, intent>>

IntentDeleting ==
    /\ rv < EnvLimit
    /\ intent.uid # 0 /\ ~intent.deleting
    /\ StoreIntent([intent EXCEPT !.deleting = TRUE, !.gen = intent.gen + 1])

IntentRemoved ==
    /\ rv < EnvLimit
    /\ intent.uid # 0
    /\ rv' = rv + 1
    /\ intent' = NoIntent
    /\ UNCHANGED <<dep, hpa>>

(* An intent is created or edited by hand, or by another replica-control   *)
(* process.                                                                *)
IntentAdded ==
    /\ rv < EnvLimit
    /\ intent.uid = 0 /\ dep.uid # 0
    /\ \E n \in Counts : StoreIntent(NewIntent(dep.uid, n))

IntentEdited ==
    /\ rv < EnvLimit
    /\ intent.uid # 0
    /\ \E n \in Counts \ {intent.replicas} : StoreIntent(WithReplicas(intent, n))

PodsFail ==
    /\ rv < EnvLimit
    /\ dep.uid # 0
    /\ \E n \in 0..(dep.ready - 1) : StoreDeployment([dep EXCEPT !.ready = n])

Users ==
    \/ DeployCreated \/ DeployDeleting \/ DeployRemoved \/ DeployDrifts
    \/ DeployProtected \/ HPAChanges \/ PodsFail
    \/ IntentAdded \/ IntentEdited \/ IntentDeleting \/ IntentRemoved

-----------------------------------------------------------------------------
(* Kubernetes itself.  The Deployment controller reports the generation it *)
(* has seen before the pods follow, or both at once; the garbage collector *)
(* removes an intent whose owner, the Deployment instance it names, is     *)
(* gone.                                                                   *)

DeployObserved ==
    /\ dep.uid # 0
    /\ dep.observed # dep.gen
    /\ StoreDeployment([dep EXCEPT !.observed = dep.gen])

DeployRolledOut ==
    /\ dep.uid # 0
    /\ dep.observed # dep.gen \/ dep.ready # dep.replicas
    /\ StoreDeployment([dep EXCEPT !.observed = dep.gen, !.ready = dep.replicas])

IntentCollected ==
    /\ intent.uid # 0
    /\ intent.depUID # dep.uid
    /\ rv' = rv + 1
    /\ intent' = NoIntent
    /\ UNCHANGED <<dep, hpa>>

Kubernetes == DeployObserved \/ DeployRolledOut \/ IntentCollected

-----------------------------------------------------------------------------
ClusterTypeOK ==
    /\ rv \in Nat
    /\ dep \in Deployment
    /\ intent \in Intent
    /\ hpa \in BOOLEAN
    /\ faults \in Nat

(* One Deployment exists; an earlier replica-control process may have left *)
(* an intent for it.                                                       *)
ClusterInit ==
    /\ rv = 2
    /\ \E n \in Counts :
          dep = [NoDeployment EXCEPT !.uid = 1, !.rv = 1, !.gen = 1, !.replicas = n]
    /\ \/ intent = NoIntent
       \/ \E n \in Counts :
             intent = [NoIntent EXCEPT !.uid = 2, !.rv = 2, !.gen = 1,
                                       !.depUID = 1, !.replicas = n]
    /\ hpa = FALSE
    /\ faults = 0
=============================================================================
