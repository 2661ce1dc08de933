------------------------ MODULE ReplicaControlProofs ------------------------
(***************************************************************************)
(* Proofs about ReplicaControl: type correctness, the inductive invariant  *)
(* SafetyInv, and the safety and action properties that follow from it,    *)
(* for every set of calls and passes and every value of the bounds.        *)
(*                                                                         *)
(* The argument: every action, whoever takes it, makes the cluster evolve  *)
(* so that a revision is never used twice and a generation names one spec  *)
(* (Evolution).  That alone keeps what the OTHER calls and passes remember *)
(* true; only the acting call or pass needs a case analysis.               *)
(***************************************************************************)
EXTENDS ReplicaControl, TLAPS

-----------------------------------------------------------------------------
(* Types of the records. *)

(* The records that stand for "nothing yet" are typed. *)
LEMMA EmptyRecordsTyped ==
    /\ NoDeployment \in Deployment
    /\ NoStatus \in ReconcileStatus
    /\ NoIntent \in Intent
    /\ IdlePass \in Pass
    /\ IdleCall \in Call
BY MaxReplicasAssumption
   DEF NoDeployment, Deployment, NoStatus, ReconcileStatus, NoIntent, Intent,
       IdlePass, Pass, IdleCall, Call, Counts, Requests, Codes, CallSteps,
       PassSteps, Reasons

(* The next generation of an object is a generation. *)
LEMMA NextGeneration ==
    /\ \A d \in Deployment : d.gen + 1 \in Nat
    /\ \A i \in Intent : i.gen + 1 \in Nat
BY DEF Deployment, Intent

(* A change of an intent's count is an intent. *)
LEMMA WithReplicasTyped ==
    ASSUME NEW i \in Intent, NEW n \in Counts
    PROVE  WithReplicas(i, n) \in Intent
<1>1. \A g \in Nat : [i EXCEPT !.replicas = n, !.gen = g] \in Intent
  BY DEF Intent
<1> QED
  BY <1>1, NextGeneration DEF WithReplicas

(* So is a fresh intent for a Deployment instance. *)
LEMMA NewIntentTyped ==
    ASSUME rv \in Nat, NEW uid \in Nat, NEW n \in Counts
    PROVE  NewIntent(uid, n) \in Intent
<1>1. \A u \in Nat : [NoIntent EXCEPT !.uid = u, !.gen = 1, !.depUID = uid,
                                       !.replicas = n] \in Intent
  BY EmptyRecordsTyped DEF Intent
<1>2. rv + 1 \in Nat
  OBVIOUS
<1> QED
  BY <1>1, <1>2 DEF NewIntent

(* A status is typed whenever its reason is one of the code's. *)
LEMMA StatusTyped ==
    ASSUME NEW i \in Intent, NEW d \in Deployment, NEW r \in Reasons
    PROVE  Status(r, i, d) \in ReconcileStatus
BY DEF Intent, Deployment, ReconcileStatus, Status

-----------------------------------------------------------------------------
(* How the cluster evolves. *)

ClusterInv == ClusterTypeOK /\ RevisionsKnown /\ ReadyIsTrue

(* A revision is never used twice, within one generation the count of an   *)
(* intent does not change, and its status is never turned back.            *)
Evolution ==
    /\ rv' >= rv
    /\ dep'.uid # 0 => dep' = dep \/ (rv' > rv /\ dep'.rv = rv')
    /\ intent'.uid # 0 => intent' = intent \/ (rv' > rv /\ intent'.rv = rv')
    /\ intent'.uid # 0 =>
          \/ rv' > rv /\ intent'.uid = rv'
          \/ /\ intent'.uid = intent.uid
             /\ intent'.gen >= intent.gen
             /\ intent'.gen = intent.gen => intent'.replicas = intent.replicas
    /\ intent'.uid = intent.uid => intent'.status.gen >= intent.status.gen

Evolves == ClusterInv' /\ Evolution

(* A request that writes nothing. *)
LEMMA NothingStored ==
    ASSUME ClusterInv, UNCHANGED clusterVars, faults' \in Nat
    PROVE  Evolves
<1>1. rv \in Nat /\ intent \in Intent
  BY DEF ClusterInv, ClusterTypeOK
<1>2. intent.gen \in Nat /\ intent.status.gen \in Nat
  BY <1>1 DEF Intent, ReconcileStatus
<1>3. ClusterInv'
  BY DEF ClusterInv, ClusterTypeOK, RevisionsKnown, ReadyIsTrue, clusterVars
<1> QED
  BY <1>1, <1>2, <1>3 DEF Evolves, Evolution, clusterVars

(* A write of the Deployment: the same instance, or a new one. *)
LEMMA DeploymentStored ==
    ASSUME ClusterInv, NEW d \in Deployment, d.uid \in {dep.uid, rv + 1},
           StoreDeployment(d), faults' \in Nat
    PROVE  Evolves
<1>1. rv \in Nat /\ intent \in Intent /\ rv + 1 \in Nat
  BY DEF ClusterInv, ClusterTypeOK
<1>2. dep' \in Deployment
  BY <1>1 DEF StoreDeployment, Deployment
<1>3. dep'.rv = rv + 1 /\ dep'.uid = d.uid
  BY DEF StoreDeployment, Deployment
<1>4. intent' = intent /\ hpa' = hpa /\ rv' = rv + 1
  BY DEF StoreDeployment
<1>5. intent.rv \in Nat /\ intent.uid \in Nat /\ intent.gen \in Nat
      /\ intent.status.gen \in Nat /\ dep.uid \in Nat /\ d.uid \in Nat
  BY <1>1 DEF Intent, ReconcileStatus, Deployment, ClusterInv, ClusterTypeOK
<1>6. ClusterTypeOK'
  BY <1>1, <1>2, <1>4 DEF ClusterInv, ClusterTypeOK
<1>7. RevisionsKnown'
  BY <1>1, <1>3, <1>4, <1>5 DEF ClusterInv, RevisionsKnown
<1>8. ReadyIsTrue'
  BY <1>4 DEF ClusterInv, ReadyIsTrue
<1>9. Evolution
  BY <1>1, <1>3, <1>4, <1>5 DEF Evolution
<1> QED
  BY <1>6, <1>7, <1>8, <1>9 DEF Evolves, ClusterInv

(* A write of the intent: the same object at the same or a later           *)
(* generation, or a new one; its status is truthful.                       *)
LEMMA IntentStored ==
    ASSUME ClusterInv, NEW i \in Intent, Truthful(i),
           \/ i.uid = rv + 1
           \/ /\ i.uid = intent.uid
              /\ i.gen >= intent.gen
              /\ i.gen = intent.gen => i.replicas = intent.replicas
              /\ i.status.gen >= intent.status.gen,
           StoreIntent(i), faults' \in Nat
    PROVE  Evolves
<1>1. rv \in Nat /\ dep \in Deployment /\ intent \in Intent /\ rv + 1 \in Nat
  BY DEF ClusterInv, ClusterTypeOK
<1>2. intent' \in Intent
  BY <1>1 DEF StoreIntent, Intent
<1>3. /\ intent'.rv = rv + 1 /\ intent'.uid = i.uid /\ intent'.gen = i.gen
      /\ intent'.replicas = i.replicas /\ intent'.status = i.status
  BY DEF StoreIntent, Intent
<1>4. dep' = dep /\ hpa' = hpa /\ rv' = rv + 1
  BY DEF StoreIntent
<1>5. intent.uid \in Nat /\ i.uid \in Nat /\ i.gen \in Nat
      /\ dep.uid \in Nat /\ dep.rv \in Nat /\ intent.uid <= rv
  BY <1>1 DEF Intent, Deployment, ClusterInv, RevisionsKnown
<1>6. ClusterTypeOK'
  BY <1>1, <1>2, <1>4 DEF ClusterInv, ClusterTypeOK
<1>7. RevisionsKnown'
  BY <1>1, <1>3, <1>4, <1>5 DEF ClusterInv, RevisionsKnown
<1>8. ReadyIsTrue'
  BY <1>3 DEF ReadyIsTrue, Truthful
<1>9. Evolution
  BY <1>1, <1>3, <1>4, <1>5 DEF Evolution
<1> QED
  BY <1>6, <1>7, <1>8, <1>9 DEF Evolves, ClusterInv

(* An object is removed. *)
LEMMA DeploymentRemoved ==
    ASSUME ClusterInv, rv' = rv + 1, dep' = NoDeployment,
           UNCHANGED <<intent, hpa>>, faults' \in Nat
    PROVE  Evolves
<1>1. rv \in Nat /\ intent \in Intent /\ dep' \in Deployment
  BY EmptyRecordsTyped DEF ClusterInv, ClusterTypeOK
<1>2. intent.rv \in Nat /\ intent.uid \in Nat /\ intent.gen \in Nat
      /\ intent.status.gen \in Nat
  BY <1>1 DEF Intent, ReconcileStatus
<1>3. dep'.uid = 0 /\ dep'.rv = 0
  BY DEF NoDeployment
<1>4. ClusterTypeOK'
  BY <1>1 DEF ClusterInv, ClusterTypeOK
<1>5. RevisionsKnown' /\ Evolution
  BY <1>1, <1>2, <1>3 DEF ClusterInv, RevisionsKnown, Evolution
<1> QED
  BY <1>4, <1>5 DEF Evolves, ClusterInv, ReadyIsTrue

(* The intent is removed, by a user or by the garbage collector. *)
LEMMA IntentGone ==
    ASSUME ClusterInv, intent.uid # 0, rv' = rv + 1, intent' = NoIntent,
           UNCHANGED <<dep, hpa>>, faults' \in Nat
    PROVE  Evolves
<1>1. rv \in Nat /\ dep \in Deployment /\ intent' \in Intent
  BY EmptyRecordsTyped DEF ClusterInv, ClusterTypeOK
<1>2. dep.rv \in Nat /\ dep.uid \in Nat
  BY <1>1 DEF Deployment
<1>3. intent'.uid = 0 /\ intent'.rv = 0 /\ intent'.gen = 0
  BY DEF NoIntent
<1>4. ClusterTypeOK'
  BY <1>1 DEF ClusterInv, ClusterTypeOK
<1>5. RevisionsKnown' /\ Evolution
  BY <1>1, <1>2, <1>3 DEF ClusterInv, RevisionsKnown, Evolution
<1>6. ReadyIsTrue'
  <2>1. intent'.status = NoStatus /\ intent'.gen = 0
    BY DEF NoIntent
  <2>2. NoStatus.gen = 0 /\ NoStatus.reason = "none"
    BY DEF NoStatus
  <2> QED
    BY <2>1, <2>2 DEF ReadyIsTrue, Truthful
<1> QED
  BY <1>4, <1>5, <1>6 DEF Evolves, ClusterInv

(* A scale write keeps the instance. *)
LEMMA ScaleStored ==
    ASSUME ClusterInv, NEW n \in Counts, StoreScale(n), faults' \in Nat
    PROVE  Evolves
<1>1. CASE dep.replicas = n
  BY <1>1, NothingStored DEF StoreScale
<1>2. CASE dep.replicas # n
  <2> DEFINE d == [dep EXCEPT !.replicas = n, !.gen = dep.gen + 1]
  <2>1. dep \in Deployment
    BY DEF ClusterInv, ClusterTypeOK
  <2>2. d \in Deployment /\ d.uid = dep.uid
    <3>1. \A g \in Nat : /\ [dep EXCEPT !.replicas = n, !.gen = g] \in Deployment
                         /\ [dep EXCEPT !.replicas = n, !.gen = g].uid = dep.uid
      BY <2>1 DEF Deployment
    <3> QED
      BY <2>1, <3>1, NextGeneration
  <2>3. StoreDeployment(d)
    BY <1>2 DEF StoreScale
  <2> QED
    BY <2>2, <2>3, DeploymentStored
<1> QED
  BY <1>1, <1>2

(* A change of the count begins a new generation, so the status of the old *)
(* one stays truthful.                                                     *)
LEMMA IntentCountStored ==
    ASSUME ClusterInv, NEW n \in Counts, StoreIntent(WithReplicas(intent, n)),
           faults' \in Nat
    PROVE  Evolves
<1> DEFINE i == WithReplicas(intent, n)
<1>1. intent \in Intent /\ intent.gen \in Nat /\ intent.status.gen \in Nat
  BY DEF ClusterInv, ClusterTypeOK, Intent, ReconcileStatus
<1>2. i \in Intent
  BY <1>1, WithReplicasTyped
<1>3. i.uid = intent.uid /\ i.gen = intent.gen + 1 /\ i.status = intent.status
  BY <1>1 DEF WithReplicas, Intent
<1>4. Truthful(i)
  BY <1>1, <1>3 DEF ClusterInv, ReadyIsTrue, Truthful
<1> HIDE DEF i
<1> QED
  BY <1>1, <1>2, <1>3, <1>4, IntentStored DEF i

(* A fresh intent has no status yet. *)
LEMMA IntentCreated ==
    ASSUME ClusterInv, NEW uid \in Nat, NEW n \in Counts,
           StoreIntent(NewIntent(uid, n)), faults' \in Nat
    PROVE  Evolves
<1> DEFINE i == NewIntent(uid, n)
<1>1. rv \in Nat
  BY DEF ClusterInv, ClusterTypeOK
<1>2. i \in Intent
  BY <1>1, NewIntentTyped
<1>3. i.uid = rv + 1 /\ i.gen = 1 /\ i.status = NoStatus
  BY DEF NewIntent, NoIntent
<1>4. NoStatus.gen = 0 /\ NoStatus.reason = "none"
  BY DEF NoStatus
<1>5. Truthful(i)
  BY <1>3, <1>4 DEF Truthful
<1> HIDE DEF i
<1> QED
  BY <1>2, <1>3, <1>5, IntentStored DEF i

-----------------------------------------------------------------------------
(* Steps of everybody else. *)

(* Whatever other users of the cluster do, the objects evolve. *)
LEMMA UsersEvolve ==
    ASSUME ClusterInv, Users, faults' \in Nat
    PROVE  Evolves
<1>0. /\ rv \in Nat /\ rv + 1 \in Nat
      /\ dep \in Deployment /\ intent \in Intent
  BY DEF ClusterInv, ClusterTypeOK
<1>1. CASE DeployCreated
  <2>1. PICK n \in Counts, q \in BOOLEAN :
          StoreDeployment([NoDeployment EXCEPT !.uid = rv + 1, !.gen = 1,
                                               !.replicas = n, !.protected = q])
    BY <1>1 DEF DeployCreated
  <2> DEFINE d == [NoDeployment EXCEPT !.uid = rv + 1, !.gen = 1,
                                       !.replicas = n, !.protected = q]
  <2>2. d \in Deployment /\ d.uid = rv + 1
    <3>1. \A u \in Nat :
            /\ [NoDeployment EXCEPT !.uid = u, !.gen = 1,
                     !.replicas = n, !.protected = q] \in Deployment
            /\ [NoDeployment EXCEPT !.uid = u, !.gen = 1,
                     !.replicas = n, !.protected = q].uid = u
      BY EmptyRecordsTyped DEF Deployment
    <3> QED
      BY <1>0, <3>1
  <2> QED
    BY <2>1, <2>2, DeploymentStored
<1>2. CASE DeployDeleting
  <2> DEFINE d == [dep EXCEPT !.deleting = TRUE, !.gen = dep.gen + 1]
  <2>1. d \in Deployment /\ d.uid = dep.uid
    <3>1. \A g \in Nat : /\ [dep EXCEPT !.deleting = TRUE, !.gen = g] \in Deployment
                         /\ [dep EXCEPT !.deleting = TRUE, !.gen = g].uid = dep.uid
      BY <1>0 DEF Deployment
    <3> QED
      BY <1>0, <3>1, NextGeneration
  <2> QED
    BY <1>2, <2>1, DeploymentStored DEF DeployDeleting
<1>3. CASE DeployRemoved
  BY <1>3, DeploymentRemoved DEF DeployRemoved
<1>4. CASE DeployDrifts
  BY <1>4, ScaleStored DEF DeployDrifts
<1>5. CASE DeployProtected
  <2> DEFINE d == [dep EXCEPT !.protected = ~dep.protected]
  <2>1. d \in Deployment /\ d.uid = dep.uid
    BY <1>0 DEF Deployment
  <2> QED
    BY <1>5, <2>1, DeploymentStored DEF DeployProtected
<1>6. CASE HPAChanges
  <2>1. /\ intent.rv \in Nat /\ intent.uid \in Nat /\ intent.gen \in Nat
        /\ dep.rv \in Nat /\ dep.uid \in Nat /\ intent.status.gen \in Nat
    BY <1>0 DEF Intent, ReconcileStatus, Deployment
  <2>2. rv' = rv + 1 /\ dep' = dep /\ intent' = intent /\ hpa' \in BOOLEAN
    BY <1>6 DEF HPAChanges
  <2>3. ClusterTypeOK' /\ ReadyIsTrue'
    BY <1>0, <2>2 DEF ClusterInv, ClusterTypeOK, ReadyIsTrue
  <2>4. RevisionsKnown' /\ Evolution
    BY <1>0, <2>1, <2>2 DEF ClusterInv, RevisionsKnown, Evolution
  <2> QED
    BY <2>3, <2>4 DEF Evolves, ClusterInv
<1>7. CASE PodsFail
  <2>1. PICK n \in 0..(dep.ready - 1) : StoreDeployment([dep EXCEPT !.ready = n])
    BY <1>7 DEF PodsFail
  <2>2. n \in Counts
    BY <1>0, MaxReplicasAssumption DEF Deployment, Counts
  <2>3. [dep EXCEPT !.ready = n] \in Deployment /\ [dep EXCEPT !.ready = n].uid = dep.uid
    BY <1>0, <2>2 DEF Deployment
  <2> QED
    BY <2>1, <2>3, DeploymentStored
<1>8. CASE IntentEdited
  BY <1>8, IntentCountStored DEF IntentEdited
<1>9. CASE IntentDeleting
  <2> DEFINE i == [intent EXCEPT !.deleting = TRUE, !.gen = intent.gen + 1]
  <2>1. i \in Intent /\ i.uid = intent.uid /\ i.status = intent.status
        /\ i.gen = intent.gen + 1
    <3>1. \A g \in Nat :
            LET j == [intent EXCEPT !.deleting = TRUE, !.gen = g]
            IN  j \in Intent /\ j.uid = intent.uid /\ j.status = intent.status
                /\ j.gen = g
      BY <1>0 DEF Intent
    <3> QED
      BY <1>0, <3>1, NextGeneration
  <2>2. intent.gen \in Nat /\ intent.status.gen \in Nat
    BY <1>0 DEF Intent, ReconcileStatus
  <2>3. Truthful(i)
    BY <2>1, <2>2 DEF ClusterInv, ReadyIsTrue, Truthful
  <2>4. StoreIntent(i)
    BY <1>9 DEF IntentDeleting
  <2> HIDE DEF i
  <2> QED
    BY <2>1, <2>2, <2>3, <2>4, IntentStored
<1>10. CASE IntentRemoved
  BY <1>10, IntentGone DEF IntentRemoved
<1>11. CASE IntentAdded
  <2>1. dep.uid \in Nat
    BY <1>0 DEF Deployment
  <2> QED
    BY <1>11, <2>1, IntentCreated DEF IntentAdded
<1> QED
  BY <1>1, <1>2, <1>3, <1>4, <1>5, <1>6, <1>7, <1>8, <1>9, <1>10, <1>11 DEF Users

(* So they do when Kubernetes itself writes. *)
LEMMA KubernetesEvolves ==
    ASSUME ClusterInv, Kubernetes, faults' \in Nat
    PROVE  Evolves
<1>0. dep \in Deployment
  BY DEF ClusterInv, ClusterTypeOK
<1>1. CASE DeployObserved
  <2> DEFINE d == [dep EXCEPT !.observed = dep.gen]
  <2>1. d \in Deployment /\ d.uid = dep.uid
    BY <1>0 DEF Deployment
  <2> QED
    BY <1>1, <2>1, DeploymentStored DEF DeployObserved
<1>2. CASE DeployRolledOut
  <2> DEFINE d == [dep EXCEPT !.observed = dep.gen, !.ready = dep.replicas]
  <2>1. d \in Deployment /\ d.uid = dep.uid
    BY <1>0 DEF Deployment
  <2> QED
    BY <1>2, <2>1, DeploymentStored DEF DeployRolledOut
<1>3. CASE IntentCollected
  BY <1>3, IntentGone DEF IntentCollected
<1> QED
  BY <1>1, <1>2, <1>3 DEF Kubernetes

-----------------------------------------------------------------------------
(* What a call or a pass remembers stays true while others act. *)

(* The locals of a pass that does not act stay true. *)
LEMMA PassStays ==
    ASSUME ClusterInv, Evolves, PassTypeOK, NEW p \in Passes, PassInv(p),
           pass'[p] = pass[p]
    PROVE  PassInv(p)'
<1>1. /\ rv \in Nat /\ rv' \in Nat /\ dep \in Deployment /\ dep' \in Deployment
      /\ intent \in Intent /\ intent' \in Intent /\ pass[p] \in Pass
  BY DEF ClusterInv, ClusterTypeOK, Evolves, PassTypeOK
<1>2. /\ pass[p].intent \in Intent /\ pass[p].dep \in Deployment
      /\ pass[p].seen \in Nat
  BY <1>1 DEF Pass
<1>3. /\ pass[p].intent.uid \in Nat /\ pass[p].intent.gen \in Nat
      /\ intent.uid \in Nat /\ intent.gen \in Nat /\ intent.rv \in Nat
      /\ intent'.uid \in Nat /\ intent'.gen \in Nat /\ intent'.rv \in Nat
  BY <1>1, <1>2 DEF Intent
<1>4. pass[p].dep.rv \in Nat /\ dep.rv \in Nat /\ dep'.rv \in Nat
  BY <1>1, <1>2 DEF Deployment
<1>5. RemembersSpec(p) => RemembersSpec(p)'
  BY <1>1, <1>3 DEF RemembersSpec, Evolves, Evolution
<1>6. Guarded(p) => Guarded(p)'
  BY <1>1, <1>4 DEF Guarded, Evolves, Evolution
<1>7. HonestStatus(p) => HonestStatus(p)'
  BY DEF HonestStatus
<1>8. StatusPinned(p) => StatusPinned(p)'
  BY <1>1, <1>2, <1>3 DEF StatusPinned, Evolves, Evolution
<1> QED
  BY <1>5, <1>6, <1>7, <1>8 DEF PassInv

(* So do the locals of a call that does not act. *)
LEMMA CallStays ==
    ASSUME ClusterInv, Evolves, CallTypeOK, NEW c \in Calls, CallInv(c),
           call'[c] = call[c]
    PROVE  CallInv(c)'
<1>1. /\ rv \in Nat /\ rv' \in Nat /\ dep' \in Deployment
      /\ intent' \in Intent /\ call[c] \in Call
  BY DEF ClusterInv, ClusterTypeOK, Evolves, CallTypeOK
<1>2. call[c].seen \in Nat /\ dep'.rv \in Nat /\ intent'.rv \in Nat
  BY <1>1 DEF Call, Deployment, Intent
<1>3. call[c].seen <= rv' /\ (rv' > rv => call[c].seen # rv')
  BY <1>1, <1>2 DEF CallInv, Evolves, Evolution
<1>4. dep'.uid # 0 /\ dep'.rv = call[c].seen => dep' = dep
  BY <1>3 DEF Evolves, Evolution
<1>5. intent'.uid # 0 /\ intent'.rv = call[c].seen => intent' = intent
  BY <1>3 DEF Evolves, Evolution
<1> QED
  BY <1>3, <1>4, <1>5 DEF CallInv

-----------------------------------------------------------------------------
(* Steps of a pass. *)

(* The end of a pass forgets everything. *)
LEMMA PassEnds ==
    ASSUME PassTypeOK, NEW p \in Passes, EndPass(p)
    PROVE  /\ PassTypeOK'
           /\ PassInv(p)'
           /\ \A q \in Passes \ {p} : pass'[q] = pass[q]
<1>1. pass' = [pass EXCEPT ![p] = IdlePass]
  BY DEF EndPass
<1>2. PassTypeOK' /\ pass'[p] = IdlePass
  BY <1>1, EmptyRecordsTyped DEF PassTypeOK
<1>3. pass'[p].pc = "idle"
  BY <1>2 DEF IdlePass
<1>4. PassInv(p)'
  BY <1>3 DEF PassInv
<1> QED
  BY <1>1, <1>2, <1>4 DEF PassTypeOK

(* The fields that a step of a pass replaces, and the ones it keeps. *)
LEMMA PassGoes ==
    ASSUME PassTypeOK, NEW p \in Passes, NEW pc \in PassSteps, PassGoto(p, pc)
    PROVE  /\ PassTypeOK'
           /\ pass'[p].pc = pc
           /\ pass'[p].intent = pass[p].intent
           /\ pass'[p].dep = pass[p].dep
           /\ \A q \in Passes \ {p} : pass'[q] = pass[q]
BY DEF PassTypeOK, Pass, PassGoto

(* On the way to WriteStatus the pass keeps only its intent. *)
LEMMA PassToWriteStatus ==
    ASSUME PassTypeOK, NEW p \in Passes, NEW reason \in Reasons,
           NEW d \in Deployment, ToWriteStatus(p, reason, d)
    PROVE  /\ PassTypeOK'
           /\ pass'[p].pc = "GetStatus"
           /\ pass'[p].intent = pass[p].intent
           /\ pass'[p].st = Status(reason, pass[p].intent, d)
           /\ \A q \in Passes \ {p} : pass'[q] = pass[q]
<1>1. pass[p].intent \in Intent
  BY DEF PassTypeOK, Pass
<1>2. Status(reason, pass[p].intent, d) \in ReconcileStatus
  BY <1>1, StatusTyped
<1>3. "GetStatus" \in PassSteps
  BY DEF PassSteps
<1> QED
  BY <1>2, <1>3, EmptyRecordsTyped DEF PassTypeOK, Pass, ToWriteStatus

(* A pass that keeps the intent it read keeps remembering its spec. *)
LEMMA StillRemembers ==
    ASSUME ClusterInv, Evolves, PassTypeOK, NEW p \in Passes, RemembersSpec(p),
           pass'[p].intent = pass[p].intent
    PROVE  RemembersSpec(p)'
<1>1. /\ rv \in Nat /\ rv' \in Nat /\ intent \in Intent /\ intent' \in Intent
      /\ pass[p].intent \in Intent
  BY DEF ClusterInv, ClusterTypeOK, Evolves, PassTypeOK, Pass
<1>2. /\ pass[p].intent.uid \in Nat /\ pass[p].intent.gen \in Nat
      /\ intent.uid \in Nat /\ intent.gen \in Nat
      /\ intent'.uid \in Nat /\ intent'.gen \in Nat
  BY <1>1 DEF Intent
<1> QED
  BY <1>1, <1>2 DEF RemembersSpec, Evolves, Evolution

(* On the way to WriteStatus: Ready is only claimed with the counts to     *)
(* show for it.                                                            *)
LEMMA HonestOnTheWay ==
    ASSUME ClusterInv, Evolves, PassTypeOK, NEW p \in Passes, RemembersSpec(p),
           NEW reason \in Reasons, NEW d \in Deployment, ToWriteStatus(p, reason, d),
           reason = "DesiredStateObserved" =>
              d.replicas = pass[p].intent.replicas /\ d.ready = pass[p].intent.replicas
    PROVE  PassInv(p)'
<1>1. /\ pass'[p].pc = "GetStatus" /\ pass'[p].intent = pass[p].intent
      /\ pass'[p].st = Status(reason, pass[p].intent, d)
  BY PassToWriteStatus
<1>2. RemembersSpec(p)'
  BY <1>1, StillRemembers
<1>3. HonestStatus(p)'
  BY <1>1 DEF HonestStatus, Status
<1> QED
  BY <1>1, <1>2, <1>3 DEF PassInv

(* What a step of the pass p leaves behind. *)
PassKept(p) ==
    /\ Evolves
    /\ PassTypeOK'
    /\ PassInv(p)'
    /\ \A q \in Passes \ {p} : pass'[q] = pass[q]

PassReady(p) == ClusterInv /\ PassTypeOK /\ PassInv(p) /\ faults' \in Nat

(* The first read of the intent establishes what the pass remembers. *)
LEMMA GetIntentKept ==
    ASSUME NEW p \in Passes, PassReady(p), PassGetIntent(p)
    PROVE  PassKept(p)
<1> DEFINE new == [IdlePass EXCEPT !.pc = "GetTarget", !.intent = Parsed(intent)]
<1>1. Evolves
  BY NothingStored DEF PassReady, PassGetIntent
<1>2. rv \in Nat /\ intent \in Intent
  BY DEF PassReady, ClusterInv, ClusterTypeOK
<1>3. Parsed(intent) \in Intent /\ Parsed(intent).uid = intent.uid
      /\ Parsed(intent).gen = intent.gen /\ Parsed(intent).replicas = intent.replicas
  BY <1>2, EmptyRecordsTyped DEF Parsed, Intent
<1>4. "GetTarget" \in PassSteps
  BY DEF PassSteps
<1>5. new \in Pass /\ new.pc = "GetTarget" /\ new.intent = Parsed(intent)
  BY <1>3, <1>4, EmptyRecordsTyped DEF Pass
<1>6. pass' = [pass EXCEPT ![p] = new]
  BY DEF PassGetIntent
<1> HIDE DEF new
<1>7. PassTypeOK' /\ pass'[p] = new /\ \A q \in Passes \ {p} : pass'[q] = pass[q]
  BY <1>5, <1>6 DEF PassReady, PassTypeOK
<1>8. rv' = rv /\ intent' = intent /\ intent.uid # 0 /\ intent.uid <= rv
  BY DEF PassGetIntent, clusterVars, PassReady, ClusterInv, RevisionsKnown
<1>9. intent.gen \in Nat /\ intent.uid \in Nat
  BY <1>2 DEF Intent
<1>10. RemembersSpec(p)'
  BY <1>3, <1>5, <1>7, <1>8, <1>9 DEF RemembersSpec
<1>11. PassInv(p)'
  BY <1>5, <1>7, <1>10 DEF PassInv
<1> QED
  BY <1>1, <1>7, <1>11 DEF PassKept

(* GetTarget blocks the pass or leaves it with a guarded Deployment. *)
LEMMA GetTargetKept ==
    ASSUME NEW p \in Passes, PassReady(p), PassGetTarget(p)
    PROVE  PassKept(p)
<1> DEFINE reason == Obstacle(pass[p].intent, dep)
<1>1. Evolves
  BY NothingStored DEF PassReady, PassGetTarget
<1>2. pass[p].pc = "GetTarget" /\ RemembersSpec(p)
  BY DEF PassGetTarget, PassReady, PassInv
<1>3. /\ rv \in Nat /\ dep \in Deployment /\ dep.rv <= rv
      /\ rv' = rv /\ dep' = dep
  BY DEF PassReady, ClusterInv, ClusterTypeOK, RevisionsKnown, PassGetTarget, clusterVars
<1>4. CASE reason # "none"
  <2>1. ToWriteStatus(p, reason, dep)
    BY <1>4 DEF PassGetTarget
  <2>2. reason \in Reasons /\ reason # "DesiredStateObserved"
    BY <1>4 DEF Obstacle, Reasons, BlockedReasons
  <2> HIDE DEF reason
  <2>3. PassInv(p)'
    BY <1>1, <1>2, <1>3, <2>1, <2>2, HonestOnTheWay DEF PassReady
  <2> QED
    BY <1>1, <1>3, <2>1, <2>2, <2>3, PassToWriteStatus DEF PassKept, PassReady
<1>5. CASE reason = "none"
  <2>1. pass' = [pass EXCEPT ![p].pc = "HasHPA", ![p].dep = dep]
    BY <1>5 DEF PassGetTarget
  <2>2. "HasHPA" \in PassSteps
    BY DEF PassSteps
  <2>3. /\ PassTypeOK' /\ pass'[p].pc = "HasHPA" /\ pass'[p].dep = dep
        /\ pass'[p].intent = pass[p].intent
        /\ \A q \in Passes \ {p} : pass'[q] = pass[q]
    BY <1>3, <2>1, <2>2 DEF PassReady, PassTypeOK, Pass
  <2>4. /\ dep.uid # 0 /\ dep.uid = pass[p].intent.depUID
        /\ dep.deleting = FALSE /\ dep.protected = FALSE
    <3>1. dep.deleting \in BOOLEAN /\ dep.protected \in BOOLEAN
      BY <1>3 DEF Deployment
    <3> QED
      BY <1>5, <3>1 DEF Obstacle
  <2>5. Guarded(p)'
    BY <1>3, <2>3, <2>4 DEF Guarded
  <2>6. RemembersSpec(p)'
    BY <1>1, <1>2, <2>3, StillRemembers DEF PassReady
  <2>7. PassInv(p)'
    BY <2>3, <2>5, <2>6 DEF PassInv
  <2> QED
    BY <1>1, <2>3, <2>7 DEF PassKept
<1> QED
  BY <1>4, <1>5

(* A step that only moves on, among the steps that hold a guarded          *)
(* Deployment.                                                             *)
LEMMA GuardKept ==
    ASSUME NEW p \in Passes, PassReady(p), UNCHANGED clusterVars,
           pass[p].pc \in {"HasHPA", "GetFresh", "GetScale"},
           NEW pc \in {"GetFresh", "GetScale", "UpdateScale"}, PassGoto(p, pc)
    PROVE  PassKept(p)
<1>1. Evolves
  BY NothingStored DEF PassReady
<1>2. RemembersSpec(p) /\ Guarded(p)
  BY DEF PassReady, PassInv
<1>3. pc \in PassSteps
  BY DEF PassSteps
<1>4. /\ PassTypeOK' /\ pass'[p].pc = pc /\ pass'[p].dep = pass[p].dep
      /\ pass'[p].intent = pass[p].intent
      /\ \A q \in Passes \ {p} : pass'[q] = pass[q]
  BY <1>3, PassGoes DEF PassReady
<1>5. RemembersSpec(p)'
  BY <1>1, <1>2, <1>4, StillRemembers DEF PassReady
<1>6. Guarded(p)'
  BY <1>2, <1>4 DEF Guarded, clusterVars
<1>7. PassInv(p)'
  BY <1>4, <1>5, <1>6 DEF PassInv
<1> QED
  BY <1>1, <1>4, <1>7 DEF PassKept

(* A step that ends the pass, whatever it stored. *)
LEMMA EndKept ==
    ASSUME NEW p \in Passes, PassReady(p), Evolves, EndPass(p)
    PROVE  PassKept(p)
BY PassEnds DEF PassReady, PassKept

(* The HPA check reports, or goes on with the guarded Deployment. *)
LEMMA HasHPAKept ==
    ASSUME NEW p \in Passes, PassReady(p), PassHasHPA(p)
    PROVE  PassKept(p)
<1> DEFINE i == pass[p].intent
           d == pass[p].dep
<1>1. Evolves /\ UNCHANGED clusterVars
  BY NothingStored DEF PassReady, PassHasHPA
<1>2. pass[p].pc = "HasHPA" /\ RemembersSpec(p)
  BY DEF PassHasHPA, PassReady, PassInv
<1>3. d \in Deployment
  BY DEF PassReady, PassTypeOK, Pass
<1>4. ASSUME NEW reason \in Reasons, ToWriteStatus(p, reason, d),
             reason = "DesiredStateObserved" =>
                d.replicas = i.replicas /\ d.ready = i.replicas
      PROVE  PassKept(p)
  <2>1. PassInv(p)'
    BY <1>1, <1>2, <1>3, <1>4, HonestOnTheWay DEF PassReady
  <2> QED
    BY <1>1, <1>3, <1>4, <2>1, PassToWriteStatus DEF PassKept, PassReady
<1>5. CASE hpa /\ ToWriteStatus(p, "HPAConflict", d)
  <2>1. "HPAConflict" \in Reasons
    BY DEF Reasons, BlockedReasons
  <2> QED
    BY <1>4, <1>5, <2>1
<1>6. CASE PassGoto(p, "GetFresh")
  BY <1>1, <1>2, <1>6, GuardKept
<1>7. CASE d.replicas = i.replicas /\ ToWriteStatus(p, Observation(i, d), d)
  <2>1. Observation(i, d) \in Reasons
    BY DEF Observation, Reasons
  <2>2. Observation(i, d) = "DesiredStateObserved" => d.ready = i.replicas
    BY DEF Observation
  <2> QED
    BY <1>4, <1>7, <2>1, <2>2
<1> QED
  BY <1>5, <1>6, <1>7 DEF PassHasHPA

(* The second read of the intent goes on or ends the pass. *)
LEMMA GetFreshKept ==
    ASSUME NEW p \in Passes, PassReady(p), PassGetFresh(p)
    PROVE  PassKept(p)
<1>1. Evolves /\ UNCHANGED clusterVars /\ pass[p].pc = "GetFresh"
  BY NothingStored DEF PassReady, PassGetFresh
<1>2. PassGoto(p, "GetScale") \/ EndPass(p)
  BY DEF PassGetFresh
<1> QED
  BY <1>1, <1>2, GuardKept, EndKept

(* So does the read of the scale. *)
LEMMA GetScaleKept ==
    ASSUME NEW p \in Passes, PassReady(p), PassGetScale(p)
    PROVE  PassKept(p)
<1>1. Evolves /\ UNCHANGED clusterVars /\ pass[p].pc = "GetScale"
  BY NothingStored DEF PassReady, PassGetScale
<1>2. PassGoto(p, "UpdateScale") \/ EndPass(p)
  BY DEF PassGetScale
<1> QED
  BY <1>1, <1>2, GuardKept, EndKept

(* The scale write: accepted, or the end of the pass. *)
LEMMA UpdateScaleKept ==
    ASSUME NEW p \in Passes, PassReady(p), PassUpdateScale(p)
    PROVE  PassKept(p)
<1>1. pass[p].pc = "UpdateScale" /\ RemembersSpec(p)
  BY DEF PassUpdateScale, PassReady, PassInv
<1>2. pass[p].intent.replicas \in Counts /\ pass[p].dep \in Deployment
  BY DEF PassReady, PassTypeOK, Pass, Intent
<1>3. CASE /\ StoreScale(pass[p].intent.replicas)
           /\ ToWriteStatus(p, "ScaleUpdated", pass[p].dep)
  <2>1. Evolves
    BY <1>2, <1>3, ScaleStored DEF PassReady
  <2>2. "ScaleUpdated" \in Reasons
    BY DEF Reasons
  <2>3. PassInv(p)'
    BY <1>1, <1>2, <1>3, <2>1, <2>2, HonestOnTheWay DEF PassReady
  <2> QED
    BY <1>2, <1>3, <2>1, <2>2, <2>3, PassToWriteStatus DEF PassKept, PassReady
<1>4. CASE EndPass(p) /\ UNCHANGED clusterVars
  <2>1. Evolves
    BY <1>4, NothingStored DEF PassReady
  <2> QED
    BY <1>4, <2>1, EndKept
<1> QED
  BY <1>3, <1>4 DEF PassUpdateScale

(* The read of WriteStatus pins the generation by its version. *)
LEMMA GetStatusKept ==
    ASSUME NEW p \in Passes, PassReady(p), PassGetStatus(p)
    PROVE  PassKept(p)
<1>1. Evolves /\ UNCHANGED clusterVars
  BY NothingStored DEF PassReady, PassGetStatus
<1>2. pass[p].pc = "GetStatus" /\ RemembersSpec(p) /\ HonestStatus(p)
  BY DEF PassGetStatus, PassReady, PassInv
<1>3. CASE EndPass(p)
  BY <1>1, <1>3, EndKept
<1>4. CASE /\ SameGeneration(p)
           /\ pass' = [pass EXCEPT ![p].pc = "UpdateStatus", ![p].seen = intent.rv]
  <2>1. /\ rv \in Nat /\ intent.rv \in Nat /\ intent.rv <= rv
    BY DEF PassReady, ClusterInv, ClusterTypeOK, RevisionsKnown, Intent
  <2>2. "UpdateStatus" \in PassSteps
    BY DEF PassSteps
  <2>3. /\ PassTypeOK' /\ pass'[p].pc = "UpdateStatus" /\ pass'[p].seen = intent.rv
        /\ pass'[p].intent = pass[p].intent /\ pass'[p].st = pass[p].st
        /\ \A q \in Passes \ {p} : pass'[q] = pass[q]
    BY <1>4, <2>1, <2>2 DEF PassReady, PassTypeOK, Pass
  <2>4. RemembersSpec(p)'
    BY <1>1, <1>2, <2>3, StillRemembers DEF PassReady
  <2>5. HonestStatus(p)'
    BY <1>2, <2>3 DEF HonestStatus
  <2>6. StatusPinned(p)'
    BY <1>1, <1>4, <2>1, <2>3 DEF StatusPinned, SameGeneration, clusterVars
  <2>7. PassInv(p)'
    BY <2>3, <2>4, <2>5, <2>6 DEF PassInv
  <2> QED
    BY <1>1, <2>3, <2>7 DEF PassKept
<1> QED
  BY <1>3, <1>4 DEF PassGetStatus

(* The heart of ReadyIsTrue: the status that an accepted UpdateStatus      *)
(* stores is about the generation the intent still has.                    *)
LEMMA StatusStored ==
    ASSUME NEW p \in Passes, PassReady(p), pass[p].pc = "UpdateStatus",
           StatusAccepted(p), StoreIntent([intent EXCEPT !.status = pass[p].st])
    PROVE  Evolves
<1> DEFINE i == [intent EXCEPT !.status = pass[p].st]
<1>1. intent \in Intent /\ pass[p].st \in ReconcileStatus
  BY DEF PassReady, ClusterInv, ClusterTypeOK, PassTypeOK, Pass
<1>2. /\ i \in Intent /\ i.uid = intent.uid /\ i.gen = intent.gen
      /\ i.replicas = intent.replicas /\ i.status = pass[p].st
  BY <1>1 DEF Intent
<1>3. RemembersSpec(p) /\ HonestStatus(p) /\ StatusPinned(p)
  BY DEF PassReady, PassInv
<1>4. intent.uid = pass[p].intent.uid /\ intent.gen = pass[p].intent.gen
  BY <1>3 DEF StatusAccepted, StatusPinned
<1>5. intent.gen \in Nat /\ intent.status.gen \in Nat
  BY <1>1 DEF Intent, ReconcileStatus
<1>6. Truthful(i) /\ i.status.gen >= intent.status.gen
  BY <1>2, <1>3, <1>4, <1>5
  DEF PassReady, ClusterInv, ReadyIsTrue, RemembersSpec, HonestStatus, Truthful
<1>7. StoreIntent(i) /\ ClusterInv /\ faults' \in Nat
  BY DEF PassReady
<1> HIDE DEF i
<1> QED
  BY <1>2, <1>5, <1>6, <1>7, IntentStored

(* The write of WriteStatus: accepted, retried or given up. *)
LEMMA UpdateStatusKept ==
    ASSUME NEW p \in Passes, PassReady(p), PassUpdateStatus(p)
    PROVE  PassKept(p)
<1>1. pass[p].pc = "UpdateStatus" /\ RemembersSpec(p) /\ HonestStatus(p)
  BY DEF PassUpdateStatus, PassReady, PassInv
<1>2. CASE /\ StatusAccepted(p) /\ EndPass(p)
           /\ StoreIntent([intent EXCEPT !.status = pass[p].st])
  BY <1>1, <1>2, StatusStored, EndKept
<1>3. CASE EndPass(p) /\ UNCHANGED clusterVars
  <2>1. Evolves
    BY <1>3, NothingStored DEF PassReady
  <2> QED
    BY <1>3, <2>1, EndKept
<1>4. CASE /\ UNCHANGED clusterVars
           /\ pass' = [pass EXCEPT ![p].pc = "GetStatus", ![p].seen = 0,
                                   ![p].tries = pass[p].tries + 1]
  <2>1. Evolves
    BY <1>4, NothingStored DEF PassReady
  <2>2. "GetStatus" \in PassSteps
    BY DEF PassSteps
  <2>3. pass[p].tries + 1 \in Nat
    BY DEF PassReady, PassTypeOK, Pass
  <2>4. /\ PassTypeOK' /\ pass'[p].pc = "GetStatus"
        /\ pass'[p].intent = pass[p].intent /\ pass'[p].st = pass[p].st
        /\ \A q \in Passes \ {p} : pass'[q] = pass[q]
    BY <1>4, <2>2, <2>3 DEF PassReady, PassTypeOK, Pass
  <2>5. RemembersSpec(p)'
    BY <1>1, <2>1, <2>4, StillRemembers DEF PassReady
  <2>6. HonestStatus(p)'
    BY <1>1, <2>4 DEF HonestStatus
  <2>7. PassInv(p)'
    BY <2>4, <2>5, <2>6 DEF PassInv
  <2> QED
    BY <2>1, <2>4, <2>7 DEF PassKept
<1> QED
  BY <1>2, <1>3, <1>4 DEF PassUpdateStatus

(* A pass that fails, with or without its write applied. *)
LEMMA PassFaultKept ==
    ASSUME NEW p \in Passes, PassReady(p), PassFails(p) \/ PassResponseLost(p)
    PROVE  PassKept(p)
<1>1. EndPass(p)
  BY DEF PassFails, PassResponseLost
<1>2. CASE UNCHANGED clusterVars
  BY <1>2, NothingStored, <1>1, EndKept DEF PassReady
<1>3. CASE pass[p].pc = "UpdateScale" /\ StoreScale(pass[p].intent.replicas)
  <2>1. pass[p].intent.replicas \in Counts
    BY DEF PassReady, PassTypeOK, Pass, Intent
  <2> QED
    BY <1>1, <1>3, <2>1, ScaleStored, EndKept DEF PassReady
<1>4. CASE /\ pass[p].pc = "UpdateStatus" /\ StatusAccepted(p)
           /\ StoreIntent([intent EXCEPT !.status = pass[p].st])
  BY <1>1, <1>4, StatusStored, EndKept
<1> QED
  BY <1>2, <1>3, <1>4 DEF PassFails, PassResponseLost

(* Every step of a pass keeps the invariant. *)
LEMMA PassNextKept ==
    ASSUME NEW p \in Passes, PassReady(p), PassNext(p)
    PROVE  PassKept(p)
BY GetIntentKept, GetTargetKept, HasHPAKept, GetFreshKept, GetScaleKept,
   UpdateScaleKept, GetStatusKept, UpdateStatusKept, PassFaultKept
   DEF PassNext, PassStep

-----------------------------------------------------------------------------
(* Steps of a Set call. *)

CallKept(c) ==
    /\ Evolves
    /\ CallTypeOK'
    /\ CallInv(c)'
    /\ \A o \in Calls \ {c} : call'[o] = call[o]

CallReady(c) == ClusterInv /\ CallTypeOK /\ CallInv(c) /\ faults' \in Nat

(* An answer leaves nothing to be wrong about. *)
LEMMA AnswerKept ==
    ASSUME NEW c \in Calls, CallReady(c), Evolves,
           NEW r \in Codes, NEW v \in Nat, Answer(c, r, v)
    PROVE  CallKept(c)
<1> DEFINE new == [IdleCall EXCEPT !.pc = "done", !.result = r, !.version = v]
<1>1. new \in Call
  BY EmptyRecordsTyped DEF Call
<1>2. new.pc = "done" /\ new.seen = 0
  BY DEF IdleCall
<1>3. call' = [call EXCEPT ![c] = new]
  BY DEF Answer
<1> HIDE DEF new
<1>4. CallTypeOK' /\ call'[c] = new /\ \A o \in Calls \ {c} : call'[o] = call[o]
  BY <1>1, <1>3 DEF CallReady, CallTypeOK
<1>5. rv' \in Nat
  BY DEF Evolves, ClusterInv, ClusterTypeOK
<1>6. CallInv(c)'
  BY <1>2, <1>4, <1>5 DEF CallInv, CallSteps
<1> QED
  BY <1>4, <1>6 DEF CallKept

(* A failure is an answer. *)
LEMMA FailKept ==
    ASSUME NEW c \in Calls, CallReady(c), Evolves, NEW r \in Codes, Fail(c, r)
    PROVE  CallKept(c)
BY AnswerKept DEF Fail

(* The retry loop goes back to its first request. *)
LEMMA RetryKept ==
    ASSUME NEW c \in Calls, CallReady(c), UNCHANGED clusterVars,
           NEW first \in {"GetScale", "GetIntent"}, Retry(c, first),
           call[c].pc \in CallSteps,
           first = "GetIntent" <=> Level = 5
    PROVE  CallKept(c)
<1>1. Evolves
  BY NothingStored DEF CallReady
<1>2. CASE call[c].tries + 1 < Attempts
  <2>1. call' = [call EXCEPT ![c].pc = first, ![c].seen = 0,
                             ![c].tries = call[c].tries + 1]
    BY <1>2 DEF Retry
  <2>2. call[c].tries + 1 \in Nat
    BY DEF CallReady, CallTypeOK, Call
  <2>3. first \in CallSteps
    BY DEF CallSteps
  <2>4. /\ CallTypeOK' /\ call'[c].pc = first /\ call'[c].seen = 0
        /\ call'[c].n = call[c].n
        /\ \A o \in Calls \ {c} : call'[o] = call[o]
    BY <2>1, <2>2, <2>3 DEF CallReady, CallTypeOK, Call
  <2>5. rv' \in Nat
    BY <1>1 DEF Evolves, ClusterInv, ClusterTypeOK
  <2>6. CallInv(c)'
    BY <2>4, <2>5 DEF CallReady, CallInv
  <2> QED
    BY <1>1, <2>4, <2>6 DEF CallKept
<1>3. CASE ~(call[c].tries + 1 < Attempts)
  <2>1. Fail(c, "Conflict")
    BY <1>3 DEF Retry
  <2> QED
    BY <1>1, <2>1, FailKept DEF Codes
<1> QED
  BY <1>2, <1>3

(* A call moves on without having read a version. *)
LEMMA CallGoes ==
    ASSUME NEW c \in Calls, CallReady(c), UNCHANGED clusterVars,
           NEW pc \in {"GetScale", "GetIntent", "CreateIntent"}, Goto(c, pc),
           call[c].pc \in CallSteps,
           pc \in {"GetIntent", "CreateIntent"} => Level = 5,
           pc = "GetScale" => Level # 5,
           pc = "CreateIntent" => call[c].expected = 0
    PROVE  CallKept(c)
<1>1. Evolves
  BY NothingStored DEF CallReady
<1>2. pc \in CallSteps
  BY DEF CallSteps
<1>3. /\ CallTypeOK' /\ call'[c].pc = pc /\ call'[c].seen = call[c].seen
      /\ call'[c].n = call[c].n /\ call'[c].expected = call[c].expected
      /\ \A o \in Calls \ {c} : call'[o] = call[o]
  BY <1>2 DEF CallReady, CallTypeOK, Call, Goto
<1>4. CallInv(c)'
  BY <1>3 DEF CallReady, CallInv, clusterVars
<1> QED
  BY <1>1, <1>3, <1>4 DEF CallKept

(* A call moves on to a write of the version v that it has just read. *)
LEMMA CallReadVersion ==
    ASSUME NEW c \in Calls, CallReady(c), UNCHANGED clusterVars,
           NEW pc \in {"UpdateScale", "UpdateIntent"}, NEW v \in Nat, v <= rv,
           call[c].pc \in CallSteps, call[c].expected \in {0, v},
           call' = [call EXCEPT ![c].pc = pc, ![c].seen = v],
           pc = "UpdateScale" => Level # 5 /\ dep.uid = call[c].depUID,
           pc = "UpdateIntent" => Level = 5 /\ intent.depUID = call[c].depUID
    PROVE  CallKept(c)
<1>1. Evolves
  BY NothingStored DEF CallReady
<1>2. pc \in CallSteps
  BY DEF CallSteps
<1>3. /\ CallTypeOK' /\ call'[c].pc = pc /\ call'[c].seen = v
      /\ call'[c].n = call[c].n /\ call'[c].expected = call[c].expected
      /\ call'[c].depUID = call[c].depUID
      /\ \A o \in Calls \ {c} : call'[o] = call[o]
  BY <1>2 DEF CallReady, CallTypeOK, Call
<1>4. CallInv(c)'
  BY <1>3 DEF CallReady, CallInv, clusterVars
<1> QED
  BY <1>1, <1>3, <1>4 DEF CallKept

(* A call begins with a valid count, or is refused. *)
LEMMA StartSetKept ==
    ASSUME NEW c \in Calls, CallReady(c), StartSet(c)
    PROVE  CallKept(c)
<1>1. Evolves
  BY NothingStored DEF CallReady, StartSet
<1>2. PICK n \in Requests, e \in Versions :
         IF n \notin Counts THEN Fail(c, "InvalidArgument")
         ELSE IF Level < 2 THEN Fail(c, "Forbidden")
         ELSE call' = [call EXCEPT ![c] = [IdleCall EXCEPT !.pc = "GetTarget",
                                                           !.n = n, !.expected = e]]
  BY DEF StartSet
<1>3. CASE Fail(c, "InvalidArgument") \/ Fail(c, "Forbidden")
  BY <1>1, <1>3, FailKept DEF Codes
<1>4. CASE /\ n \in Counts
           /\ call' = [call EXCEPT ![c] = [IdleCall EXCEPT !.pc = "GetTarget",
                                                           !.n = n, !.expected = e]]
  <2> DEFINE new == [IdleCall EXCEPT !.pc = "GetTarget", !.n = n, !.expected = e]
  <2>1. e \in Nat
    BY DEF Versions, CallReady, ClusterInv, ClusterTypeOK, Deployment, Intent
  <2>2. "GetTarget" \in CallSteps
    BY DEF CallSteps
  <2>3. new \in Call
    BY <2>1, <2>2, EmptyRecordsTyped DEF Call
  <2>4. new.pc = "GetTarget" /\ new.n = n /\ new.seen = 0
    BY DEF IdleCall
  <2>5. call' = [call EXCEPT ![c] = new]
    BY <1>4
  <2> HIDE DEF new
  <2>6. CallTypeOK' /\ call'[c] = new /\ \A o \in Calls \ {c} : call'[o] = call[o]
    BY <2>3, <2>5 DEF CallReady, CallTypeOK
  <2>7. rv' \in Nat
    BY <1>1 DEF Evolves, ClusterInv, ClusterTypeOK
  <2>8. CallInv(c)'
    <3>1. /\ call'[c].pc = "GetTarget" /\ call'[c].n \in Counts
          /\ call'[c].seen = 0
      BY <1>4, <2>4, <2>6
    <3> QED
      BY <2>7, <3>1 DEF CallInv
  <2> QED
    BY <1>1, <2>6, <2>8 DEF CallKept
<1> QED
  BY <1>2, <1>3, <1>4

(* The checks on the Deployment: the call fails or remembers the UID. *)
LEMMA CallGetTargetKept ==
    ASSUME NEW c \in Calls, CallReady(c), CallGetTarget(c)
    PROVE  CallKept(c)
<1>1. Evolves /\ UNCHANGED clusterVars /\ call[c].pc = "GetTarget"
  BY NothingStored DEF CallReady, CallGetTarget
<1>2. CASE \E r \in {"NotFound", "FailedPrecondition", "Forbidden"} : Fail(c, r)
  BY <1>1, <1>2, FailKept DEF Codes
<1>3. CASE call' = [call EXCEPT ![c].pc = "HasHPA", ![c].depUID = dep.uid]
  <2>1. dep.uid \in Nat
    BY DEF CallReady, ClusterInv, ClusterTypeOK, Deployment
  <2>2. "HasHPA" \in CallSteps /\ "GetTarget" \in CallSteps
    BY DEF CallSteps
  <2>3. /\ CallTypeOK' /\ call'[c].pc = "HasHPA" /\ call'[c].seen = call[c].seen
        /\ call'[c].n = call[c].n
        /\ \A o \in Calls \ {c} : call'[o] = call[o]
    BY <1>3, <2>1, <2>2 DEF CallReady, CallTypeOK, Call
  <2>4. CallInv(c)'
    BY <1>1, <2>2, <2>3 DEF CallReady, CallInv, clusterVars
  <2> QED
    BY <1>1, <2>3, <2>4 DEF CallKept
<1> QED
  BY <1>2, <1>3 DEF CallGetTarget

(* The HPA check: the call fails or enters the loop of its level. *)
LEMMA CallHasHPAKept ==
    ASSUME NEW c \in Calls, CallReady(c), CallHasHPA(c)
    PROVE  CallKept(c)
<1>1. Evolves /\ UNCHANGED clusterVars /\ call[c].pc \in CallSteps
  BY NothingStored DEF CallReady, CallHasHPA, CallSteps
<1>2. CASE Fail(c, "FailedPrecondition")
  BY <1>1, <1>2, FailKept DEF Codes
<1>3. CASE Goto(c, IF Level = 5 THEN "GetIntent" ELSE "GetScale")
  <2>1. CASE Level = 5
    BY <1>1, <1>3, <2>1, CallGoes
  <2>2. CASE Level # 5
    BY <1>1, <1>3, <2>2, CallGoes
  <2> QED
    BY <2>1, <2>2
<1> QED
  BY <1>2, <1>3 DEF CallHasHPA

(* The read of the scale establishes the version to replace. *)
LEMMA CallGetScaleKept ==
    ASSUME NEW c \in Calls, CallReady(c), CallGetScale(c)
    PROVE  CallKept(c)
<1>1. /\ Evolves /\ UNCHANGED clusterVars /\ call[c].pc \in CallSteps /\ Level # 5
  BY NothingStored DEF CallReady, CallGetScale, CallSteps, CallInv
<1>2. CASE \E r \in {"NotFound", "Conflict"} : Fail(c, r)
  BY <1>1, <1>2, FailKept DEF Codes
<1>3. CASE /\ dep.uid = call[c].depUID /\ call[c].expected \in {0, dep.rv}
           /\ call' = [call EXCEPT ![c].pc = "UpdateScale", ![c].seen = dep.rv]
  <2>1. dep.rv \in Nat /\ dep.rv <= rv
    BY DEF CallReady, ClusterInv, ClusterTypeOK, RevisionsKnown, Deployment
  <2> QED
    BY <1>1, <1>3, <2>1, CallReadVersion
<1> QED
  BY <1>2, <1>3 DEF CallGetScale

(* The scale write of a call: accepted, retried or refused. *)
LEMMA CallUpdateScaleKept ==
    ASSUME NEW c \in Calls, CallReady(c), CallUpdateScale(c)
    PROVE  CallKept(c)
<1>1. call[c].pc \in CallSteps /\ Level # 5 /\ call[c].n \in Counts
  BY DEF CallUpdateScale, CallReady, CallSteps, CallInv
<1>2. CASE StoreScale(call[c].n) /\ Answer(c, "OK", dep'.rv)
  <2>1. Evolves
    BY <1>1, <1>2, ScaleStored DEF CallReady
  <2>2. dep'.rv \in Nat
    BY <2>1 DEF Evolves, ClusterInv, ClusterTypeOK, Deployment
  <2> QED
    BY <1>2, <2>1, <2>2, AnswerKept DEF Codes
<1>3. CASE Retry(c, "GetScale") /\ UNCHANGED clusterVars
  BY <1>1, <1>3, RetryKept
<1>4. CASE Fail(c, "NotFound") /\ UNCHANGED clusterVars
  BY <1>4, NothingStored, FailKept DEF CallReady, Codes
<1> QED
  BY <1>2, <1>3, <1>4 DEF CallUpdateScale

(* The read of the intent establishes the version to replace. *)
LEMMA CallGetIntentKept ==
    ASSUME NEW c \in Calls, CallReady(c), CallGetIntent(c)
    PROVE  CallKept(c)
<1>1. /\ Evolves /\ UNCHANGED clusterVars /\ call[c].pc \in CallSteps /\ Level = 5
  BY NothingStored DEF CallReady, CallGetIntent, CallSteps, CallInv
<1>2. intent.rv \in Nat /\ intent.rv <= rv
  BY DEF CallReady, ClusterInv, ClusterTypeOK, RevisionsKnown, Intent
<1>3. CASE \E r \in {"Conflict", "FailedPrecondition"} : Fail(c, r)
  BY <1>1, <1>3, FailKept DEF Codes
<1>4. CASE call[c].expected = 0 /\ Goto(c, "CreateIntent")
  BY <1>1, <1>4, CallGoes
<1>5. CASE /\ intent.depUID = call[c].depUID /\ call[c].expected \in {0, intent.rv}
           /\ call' = [call EXCEPT ![c].pc = "UpdateIntent", ![c].seen = intent.rv]
  BY <1>1, <1>2, <1>5, CallReadVersion
<1>6. CASE Answer(c, "OK", intent.rv)
  BY <1>1, <1>2, <1>6, AnswerKept DEF Codes
<1> QED
  BY <1>3, <1>4, <1>5, <1>6 DEF CallGetIntent

(* The creation of an intent: accepted, or retried as an update. *)
LEMMA CallCreateIntentKept ==
    ASSUME NEW c \in Calls, CallReady(c), CallCreateIntent(c)
    PROVE  CallKept(c)
<1>1. call[c].pc \in CallSteps /\ Level = 5 /\ call[c].n \in Counts
  BY DEF CallCreateIntent, CallReady, CallSteps, CallInv
<1>2. rv + 1 \in Nat /\ call[c].depUID \in Nat
  BY DEF CallReady, ClusterInv, ClusterTypeOK, CallTypeOK, Call
<1>3. CASE StoreIntent(NewIntent(call[c].depUID, call[c].n)) /\ Answer(c, "OK", rv + 1)
  BY <1>1, <1>2, <1>3, IntentCreated, AnswerKept DEF CallReady, Codes
<1>4. CASE Retry(c, "GetIntent") /\ UNCHANGED clusterVars
  BY <1>1, <1>4, RetryKept
<1> QED
  BY <1>3, <1>4 DEF CallCreateIntent

(* The update of an intent: accepted, retried or refused. *)
LEMMA CallUpdateIntentKept ==
    ASSUME NEW c \in Calls, CallReady(c), CallUpdateIntent(c)
    PROVE  CallKept(c)
<1>1. call[c].pc \in CallSteps /\ Level = 5 /\ call[c].n \in Counts
  BY DEF CallUpdateIntent, CallReady, CallSteps, CallInv
<1>2. rv + 1 \in Nat
  BY DEF CallReady, ClusterInv, ClusterTypeOK
<1>3. CASE StoreIntent(WithReplicas(intent, call[c].n)) /\ Answer(c, "OK", rv + 1)
  BY <1>1, <1>2, <1>3, IntentCountStored, AnswerKept DEF CallReady, Codes
<1>4. CASE Retry(c, "GetIntent") /\ UNCHANGED clusterVars
  BY <1>1, <1>4, RetryKept
<1>5. CASE Fail(c, "NotFound") /\ UNCHANGED clusterVars
  BY <1>5, NothingStored, FailKept DEF CallReady, Codes
<1> QED
  BY <1>3, <1>4, <1>5 DEF CallUpdateIntent

(* A request that fails, with or without its write applied. *)
LEMMA CallFaultKept ==
    ASSUME NEW c \in Calls, CallReady(c), CallRequestFails(c) \/ CallResponseLost(c)
    PROVE  CallKept(c)
<1>1. Fail(c, "Unavailable") /\ "Unavailable" \in Codes
  BY DEF CallRequestFails, CallResponseLost, Codes
<1>2. CASE UNCHANGED clusterVars
  BY <1>1, <1>2, NothingStored, FailKept DEF CallReady
<1>3. CASE call[c].pc = "UpdateScale" /\ StoreScale(call[c].n)
  <2>1. call[c].n \in Counts
    BY <1>3 DEF CallReady, CallInv, CallSteps
  <2> QED
    BY <1>1, <1>3, <2>1, ScaleStored, FailKept DEF CallReady
<1>4. CASE /\ call[c].pc = "CreateIntent"
           /\ StoreIntent(NewIntent(call[c].depUID, call[c].n))
  <2>1. call[c].n \in Counts /\ call[c].depUID \in Nat
    BY <1>4 DEF CallReady, CallInv, CallSteps, CallTypeOK, Call
  <2> QED
    BY <1>1, <1>4, <2>1, IntentCreated, FailKept DEF CallReady
<1>5. CASE /\ call[c].pc = "UpdateIntent"
           /\ StoreIntent(WithReplicas(intent, call[c].n))
  <2>1. call[c].n \in Counts
    BY <1>5 DEF CallReady, CallInv, CallSteps
  <2> QED
    BY <1>1, <1>5, <2>1, IntentCountStored, FailKept DEF CallReady
<1> QED
  BY <1>2, <1>3, <1>4, <1>5 DEF CallRequestFails, CallResponseLost

(* A call that has returned is idle. *)
LEMMA ReturnKept ==
    ASSUME NEW c \in Calls, CallReady(c), Return(c)
    PROVE  CallKept(c)
<1>1. Evolves /\ call' = [call EXCEPT ![c] = IdleCall]
  BY NothingStored DEF CallReady, Return
<1>2. CallTypeOK' /\ call'[c] = IdleCall /\ \A o \in Calls \ {c} : call'[o] = call[o]
  BY <1>1, EmptyRecordsTyped DEF CallReady, CallTypeOK
<1>3. IdleCall.pc = "idle" /\ IdleCall.seen = 0
  BY DEF IdleCall
<1>4. rv' \in Nat
  BY <1>1 DEF Evolves, ClusterInv, ClusterTypeOK
<1>5. CallInv(c)'
  BY <1>2, <1>3, <1>4 DEF CallInv, CallSteps
<1> QED
  BY <1>1, <1>2, <1>5 DEF CallKept

(* Every step of a call keeps the invariant. *)
LEMMA CallNextKept ==
    ASSUME NEW c \in Calls, CallReady(c), CallNext(c)
    PROVE  CallKept(c)
BY StartSetKept, CallGetTargetKept, CallHasHPAKept, CallGetScaleKept,
   CallUpdateScaleKept, CallGetIntentKept, CallCreateIntentKept,
   CallUpdateIntentKept, CallFaultKept, ReturnKept
   DEF CallNext, CallStep

-----------------------------------------------------------------------------
(* The invariant. *)

(* The invariant holds initially. *)
LEMMA InitSafety == Init => SafetyInv
<1> SUFFICES ASSUME Init PROVE SafetyInv
  OBVIOUS
<1>1. rv = 2 /\ hpa = FALSE /\ faults = 0
  BY DEF Init, ClusterInit
<1>2. dep \in Deployment /\ dep.uid = 1 /\ dep.rv = 1
  <2>1. PICK n \in Counts :
          dep = [NoDeployment EXCEPT !.uid = 1, !.rv = 1, !.gen = 1, !.replicas = n]
    BY DEF Init, ClusterInit
  <2> QED
    BY <2>1, EmptyRecordsTyped DEF Deployment
<1>3. NoIntent.uid = 0 /\ NoIntent.rv = 0 /\ NoIntent.gen = 0 /\ NoIntent.status = NoStatus
  BY DEF NoIntent
<1>4. NoStatus.gen = 0 /\ NoStatus.reason = "none"
  BY DEF NoStatus
<1>5. intent \in Intent /\ intent.uid <= 2 /\ intent.rv <= 2 /\ intent.gen >= 0
      /\ intent.status = NoStatus
  <2>1. CASE intent = NoIntent
    BY <1>3, <2>1, EmptyRecordsTyped
  <2>2. ASSUME NEW n \in Counts,
               intent = [NoIntent EXCEPT !.uid = 2, !.rv = 2, !.gen = 1,
                                         !.depUID = 1, !.replicas = n]
        PROVE  /\ intent \in Intent /\ intent.uid <= 2 /\ intent.rv <= 2
               /\ intent.gen >= 0 /\ intent.status = NoStatus
    <3>1. /\ intent \in Intent /\ intent.uid = 2 /\ intent.rv = 2
          /\ intent.gen = 1 /\ intent.status = NoStatus
      BY <1>3, <2>2, EmptyRecordsTyped DEF Intent
    <3> QED
      BY <3>1
  <2>3. \/ intent = NoIntent
        \/ \E n \in Counts :
              intent = [NoIntent EXCEPT !.uid = 2, !.rv = 2, !.gen = 1,
                                        !.depUID = 1, !.replicas = n]
    BY DEF Init, ClusterInit
  <2> QED
    BY <2>1, <2>2, <2>3
<1>6. ClusterTypeOK /\ RevisionsKnown
  <2>1. ClusterTypeOK
    BY <1>1, <1>2, <1>5 DEF ClusterTypeOK
  <2>2. RevisionsKnown
    BY <1>1, <1>2, <1>5 DEF RevisionsKnown
  <2> QED
    BY <2>1, <2>2
<1>7. ReadyIsTrue
  BY <1>4, <1>5 DEF ReadyIsTrue, Truthful
<1>8. PassTypeOK /\ \A p \in Passes : pass[p].pc = "idle"
  BY EmptyRecordsTyped DEF Init, PassInit, PassTypeOK, IdlePass
<1>9. CallTypeOK /\ \A c \in Calls : call[c].pc = "idle" /\ call[c].seen = 0
  BY EmptyRecordsTyped DEF Init, CallInit, CallTypeOK, IdleCall
<1>10. \A p \in Passes : PassInv(p)
  BY <1>8 DEF PassInv
<1>11. \A c \in Calls : CallInv(c)
  BY <1>1, <1>9 DEF CallInv, CallSteps
<1> QED
  BY <1>6, <1>7, <1>8, <1>9, <1>10, <1>11 DEF SafetyInv, TypeOK

(* The invariant holds after a step in which every pass and every call is  *)
(* either kept or the one that acted.                                      *)
LEMMA Assemble ==
    ASSUME SafetyInv, Evolves, PassTypeOK', CallTypeOK',
           \A p \in Passes : pass'[p] = pass[p] \/ PassInv(p)',
           \A c \in Calls : call'[c] = call[c] \/ CallInv(c)'
    PROVE  SafetyInv'
<1>1. ClusterInv /\ PassTypeOK /\ CallTypeOK
  BY DEF SafetyInv, TypeOK, ClusterInv
<1>2. \A p \in Passes : PassInv(p)'
  BY <1>1, PassStays DEF SafetyInv
<1>3. \A c \in Calls : CallInv(c)'
  BY <1>1, CallStays DEF SafetyInv
<1> QED
  BY <1>2, <1>3 DEF SafetyInv, TypeOK, Evolves, ClusterInv

(* The invariant is kept by every step. *)
LEMMA NextSafety == SafetyInv /\ [Next]_vars => SafetyInv'
<1> SUFFICES ASSUME SafetyInv, [Next]_vars PROVE SafetyInv'
  OBVIOUS
<1>0. /\ ClusterInv /\ PassTypeOK /\ CallTypeOK /\ faults \in Nat
      /\ \A p \in Passes : PassInv(p)
      /\ \A c \in Calls : CallInv(c)
  BY DEF SafetyInv, TypeOK, ClusterInv, ClusterTypeOK
<1>1. CASE Others
  <2>1. UNCHANGED <<faults, call, pass>> /\ (Users \/ Kubernetes)
    BY <1>1 DEF Others
  <2>2. Evolves
    BY <1>0, <2>1, UsersEvolve, KubernetesEvolves
  <2> QED
    BY <1>0, <2>1, <2>2, Assemble DEF PassTypeOK, CallTypeOK
<1>2. ASSUME NEW c \in Calls, CallNext(c), UNCHANGED pass
      PROVE  SafetyInv'
  <2>1. faults' \in Nat
    <3>1. CallStep(c) => faults' = faults
      <4>1. CallGetTarget(c) \/ CallHasHPA(c) \/ CallGetScale(c) => faults' = faults
        BY DEF CallGetTarget, CallHasHPA, CallGetScale
      <4>2. CallUpdateScale(c) \/ CallGetIntent(c) => faults' = faults
        BY DEF CallUpdateScale, CallGetIntent
      <4>3. CallCreateIntent(c) \/ CallUpdateIntent(c) => faults' = faults
        BY DEF CallCreateIntent, CallUpdateIntent
      <4> QED
        BY <4>1, <4>2, <4>3 DEF CallStep
    <3>2. CallRequestFails(c) \/ CallResponseLost(c) => faults' = faults + 1
      BY DEF CallRequestFails, CallResponseLost
    <3>3. StartSet(c) \/ Return(c) => faults' = faults
      BY DEF StartSet, Return
    <3> QED
      BY <1>0, <1>2, <3>1, <3>2, <3>3 DEF CallNext
  <2>2. CallKept(c)
    BY <1>0, <1>2, <2>1, CallNextKept DEF CallReady
  <2> QED
    BY <1>0, <1>2, <2>2, Assemble DEF CallKept, PassTypeOK
<1>3. ASSUME NEW p \in Passes, PassNext(p), UNCHANGED call
      PROVE  SafetyInv'
  <2>1. faults' \in Nat
    <3>1. PassStep(p) => faults' = faults
      <4>1. PassGetIntent(p) \/ PassGetTarget(p) \/ PassHasHPA(p) => faults' = faults
        BY DEF PassGetIntent, PassGetTarget, PassHasHPA
      <4>2. PassGetFresh(p) \/ PassGetScale(p) \/ PassUpdateScale(p) => faults' = faults
        BY DEF PassGetFresh, PassGetScale, PassUpdateScale
      <4>3. PassGetStatus(p) \/ PassUpdateStatus(p) => faults' = faults
        BY DEF PassGetStatus, PassUpdateStatus
      <4> QED
        BY <4>1, <4>2, <4>3 DEF PassStep
    <3>2. PassFails(p) \/ PassResponseLost(p) => faults' = faults + 1
      BY DEF PassFails, PassResponseLost
    <3> QED
      BY <1>0, <1>3, <3>1, <3>2 DEF PassNext
  <2>2. PassKept(p)
    BY <1>0, <1>3, <2>1, PassNextKept DEF PassReady
  <2> QED
    BY <1>0, <1>3, <2>2, Assemble DEF PassKept, CallTypeOK
<1>4. CASE UNCHANGED vars
  <2>1. UNCHANGED <<clusterVars, faults, call, pass>>
    BY <1>4 DEF vars, clusterVars
  <2>2. Evolves
    BY <1>0, <2>1, NothingStored
  <2> QED
    BY <1>0, <2>1, <2>2, Assemble DEF PassTypeOK, CallTypeOK
<1> QED
  BY <1>1, <1>2, <1>3, <1>4 DEF Next

(* In every reachable state, for any number of concurrent calls and passes *)
(* and any behaviour of the rest of the cluster, versions identify what    *)
(* was read and what is about to be written (SafetyInv).                   *)
THEOREM Safety == Spec => []SafetyInv
<1>1. Init => SafetyInv
  BY InitSafety
<1>2. SafetyInv /\ [Next]_vars => SafetyInv'
  BY NextSafety
<1> QED
  BY <1>1, <1>2, PTL DEF Spec

(* Every variable keeps its type. *)
THEOREM TypeCorrect == Spec => []TypeOK
<1>1. SafetyInv => TypeOK
  BY DEF SafetyInv
<1> QED
  BY <1>1, Safety, PTL

(* A status that says Ready for the current generation is true: late       *)
(* passes and lost responses included (WriteStatus).                       *)
THEOREM ReadyTrue == Spec => []ReadyIsTrue
<1>1. SafetyInv => ReadyIsTrue
  BY DEF SafetyInv
<1> QED
  BY <1>1, Safety, PTL

-----------------------------------------------------------------------------
(* The action properties. *)

(* Every step makes the cluster evolve, and a pass changes only when it is *)
(* the one that acts.                                                      *)
LEMMA StepEvolves ==
    ASSUME SafetyInv, Next
    PROVE  Evolves
<1>0. /\ ClusterInv /\ PassTypeOK /\ CallTypeOK
      /\ \A p \in Passes : PassInv(p)
      /\ \A c \in Calls : CallInv(c)
  BY DEF SafetyInv, TypeOK, ClusterInv
<1>1. faults' \in Nat
  BY NextSafety DEF SafetyInv, TypeOK, ClusterTypeOK
<1> QED
  BY <1>0, <1>1, UsersEvolve, KubernetesEvolves, CallNextKept, PassNextKept
  DEF Next, Others, CallReady, PassReady, CallKept, PassKept

(* The status of an intent never goes back to an older generation,         *)
(* whatever the order in which passes of two leaders finish (WriteStatus). *)
THEOREM StatusForward == Spec => StatusMovesForward
<1>1. ASSUME SafetyInv, [Next]_vars
      PROVE  [intent'.uid = intent.uid => intent'.status.gen >= intent.status.gen]_vars
  BY <1>1, StepEvolves DEF Evolves, Evolution
<1> QED
  BY <1>1, Safety, PTL DEF Spec, StatusMovesForward

(* An accepted scale write keeps the instance and sets the count. *)
LEMMA ScaleWritten ==
    ASSUME dep \in Deployment, NEW n \in Counts, StoreScale(n), dep' # dep
    PROVE  dep'.uid = dep.uid /\ dep'.replicas = n
<1>1. StoreDeployment([dep EXCEPT !.replicas = n, !.gen = dep.gen + 1])
  BY DEF StoreScale, clusterVars
<1> QED
  BY <1>1 DEF StoreDeployment, Deployment

(* What a pass writes to a Deployment, it writes to the instance the       *)
(* intent names, unprotected and not being deleted at that very moment     *)
(* (UpdateScale).                                                          *)
THEOREM PassScales == Spec => PassScalesSafely
<1> DEFINE Safe(p) ==
      (pass[p].pc = "UpdateScale" /\ pass'[p] # pass[p] /\ dep' # dep) =>
         /\ dep.uid = pass[p].intent.depUID
         /\ dep.protected = FALSE
         /\ dep.deleting = FALSE
         /\ dep'.uid = dep.uid
         /\ dep'.replicas = pass[p].intent.replicas
<1>1. ASSUME SafetyInv, Next, NEW p \in Passes
      PROVE  Safe(p)
  <2> SUFFICES ASSUME pass[p].pc = "UpdateScale", pass'[p] # pass[p], dep' # dep
               PROVE  /\ dep.uid = pass[p].intent.depUID
                      /\ dep.protected = FALSE
                      /\ dep.deleting = FALSE
                      /\ dep'.uid = dep.uid
                      /\ dep'.replicas = pass[p].intent.replicas
    OBVIOUS
  <2>1. /\ ClusterInv /\ PassTypeOK /\ \A q \in Passes : PassInv(q)
        /\ dep \in Deployment /\ pass[p].intent.replicas \in Counts
    BY <1>1 DEF SafetyInv, TypeOK, ClusterInv, ClusterTypeOK, PassTypeOK, Pass, Intent
  <2>2. faults' \in Nat
    BY <1>1, NextSafety DEF SafetyInv, TypeOK, ClusterTypeOK
  <2>3. pass' # pass
    OBVIOUS
  <2>4. PICK q \in Passes : PassNext(q)
    BY <1>1, <2>3 DEF Next, Others
  <2>5. q = p
    BY <2>1, <2>2, <2>4, PassNextKept DEF PassReady, PassKept
  <2>6. ScaleAccepted(p) /\ StoreScale(pass[p].intent.replicas)
    <3>1. PassUpdateScale(p) \/ PassFails(p) \/ PassResponseLost(p)
      BY <2>4, <2>5 DEF PassNext, PassStep, PassGetIntent, PassGetTarget, PassHasHPA,
         PassGetFresh, PassGetScale, PassGetStatus, PassUpdateStatus
    <3> QED
      BY <3>1 DEF PassUpdateScale, PassFails, PassResponseLost, clusterVars
  <2>7. Guarded(p)
    BY <2>1 DEF PassInv
  <2>8. dep = pass[p].dep
    BY <2>6, <2>7 DEF ScaleAccepted, Guarded
  <2> QED
    BY <2>1, <2>6, <2>7, <2>8, ScaleWritten DEF Guarded
<1>2. ASSUME SafetyInv, [Next]_vars
      PROVE  [\A p \in Passes : Safe(p)]_vars
  BY <1>1, <1>2
<1> QED
  BY <1>2, Safety, PTL DEF Spec, PassScalesSafely

(* What an answer says. *)
LEMMA AnswerSays ==
    ASSUME CallTypeOK, NEW c \in Calls, NEW r, NEW v, Answer(c, r, v)
    PROVE  call'[c].pc = "done" /\ call'[c].result = r /\ call'[c].version = v
<1>1. call'[c] = [IdleCall EXCEPT !.pc = "done", !.result = r, !.version = v]
  BY DEF Answer, CallTypeOK
<1> QED
  BY <1>1 DEF IdleCall

(* The requests of a call that can succeed. *)
LEMMA WhoSucceeds ==
    ASSUME CallTypeOK, NEW c \in Calls, CallNext(c),
           call'[c].pc = "done", call'[c].result = "OK", call[c].pc # "done"
    PROVE  \/ /\ call[c].pc = "UpdateScale" /\ dep.uid # 0 /\ dep.rv = call[c].seen
              /\ StoreScale(call[c].n) /\ call'[c].version = dep'.rv
           \/ /\ call[c].pc = "GetIntent" /\ UNCHANGED clusterVars
              /\ intent.uid # 0
              /\ intent.depUID = call[c].depUID /\ intent.replicas = call[c].n
              /\ call[c].expected \in {0, intent.rv}
              /\ call'[c].version = intent.rv
           \/ /\ call[c].pc = "CreateIntent" /\ intent.uid = 0
              /\ StoreIntent(NewIntent(call[c].depUID, call[c].n))
              /\ call'[c].version = rv + 1
           \/ /\ call[c].pc = "UpdateIntent" /\ intent.uid # 0
              /\ intent.rv = call[c].seen
              /\ StoreIntent(WithReplicas(intent, call[c].n))
              /\ call'[c].version = rv + 1
<1>1. \A r : r # "OK" => ~Fail(c, r)
  BY AnswerSays DEF Fail
<1>2. \A pc : pc # "done" => ~Goto(c, pc)
  BY DEF Goto, CallTypeOK, Call
<1>3. \A first \in {"GetScale", "GetIntent"} : ~Retry(c, first)
  BY <1>1 DEF Retry, CallTypeOK, Call
<1>4. CASE StartSet(c)
  <2>1. ASSUME NEW n, NEW e,
               call' = [call EXCEPT ![c] = [IdleCall EXCEPT !.pc = "GetTarget",
                                                           !.n = n, !.expected = e]]
        PROVE  FALSE
    BY <2>1 DEF CallTypeOK, IdleCall
  <2>2. ~Fail(c, "InvalidArgument") /\ ~Fail(c, "Forbidden")
    BY <1>1
  <2>3. \E n \in Requests, e \in Versions :
          call' = [call EXCEPT ![c] = [IdleCall EXCEPT !.pc = "GetTarget",
                                                       !.n = n, !.expected = e]]
    BY <1>4, <2>2 DEF StartSet
  <2> QED
    BY <2>1, <2>3
<1>5. CASE CallGetTarget(c)
  BY <1>1, <1>5 DEF CallGetTarget, CallTypeOK, Call
<1>6. CASE CallHasHPA(c)
  BY <1>1, <1>2, <1>6 DEF CallHasHPA
<1>7. CASE CallGetScale(c)
  BY <1>1, <1>7 DEF CallGetScale, CallTypeOK, Call
<1>8. CASE CallUpdateScale(c)
  BY <1>1, <1>3, <1>8, AnswerSays DEF CallUpdateScale
<1>9. CASE CallGetIntent(c)
  <2>1. call' # [call EXCEPT ![c].pc = "UpdateIntent", ![c].seen = intent.rv]
    BY DEF CallTypeOK, Call
  <2>2. /\ ~Fail(c, "Conflict") /\ ~Fail(c, "FailedPrecondition")
        /\ ~Goto(c, "CreateIntent")
    BY <1>1, <1>2
  <2>3. /\ intent.uid # 0 /\ intent.depUID = call[c].depUID
        /\ call[c].expected \in {0, intent.rv}
        /\ intent.replicas = call[c].n /\ Answer(c, "OK", intent.rv)
    BY <1>9, <2>1, <2>2 DEF CallGetIntent
  <2>4. call[c].pc = "GetIntent" /\ UNCHANGED clusterVars
    BY <1>9 DEF CallGetIntent
  <2>5. call'[c].version = intent.rv
    BY <2>3, AnswerSays
  <2> QED
    BY <2>3, <2>4, <2>5
<1>10. CASE CallCreateIntent(c)
  BY <1>3, <1>10, AnswerSays DEF CallCreateIntent
<1>11. CASE CallUpdateIntent(c)
  BY <1>1, <1>3, <1>11, AnswerSays DEF CallUpdateIntent
<1>12. CASE CallRequestFails(c) \/ CallResponseLost(c)
  BY <1>1, <1>12 DEF CallRequestFails, CallResponseLost
<1>13. CASE Return(c)
  BY <1>13 DEF Return
<1> QED
  BY <1>4, <1>5, <1>6, <1>7, <1>8, <1>9, <1>10, <1>11, <1>12, <1>13
  DEF CallNext, CallStep

(* A successful Set replaced exactly the version its caller expected, on   *)
(* the Deployment instance it had checked (Set, setIntent).                *)
THEOREM SetConditional == Spec => SetIsConditional
<1> DEFINE Conditional(c) ==
      call'[c].pc = "done" /\ call'[c].result = "OK" /\ call[c].pc # "done" =>
         /\ call[c].expected \in {0, Target.rv}
         /\ Target'.rv = call'[c].version
         /\ Target'.n = call[c].n
         /\ Target'.uid = call[c].depUID
<1>1. ASSUME SafetyInv, Next, NEW c \in Calls,
             call'[c].pc = "done", call'[c].result = "OK", call[c].pc # "done"
      PROVE  /\ call[c].expected \in {0, Target.rv}
             /\ Target'.rv = call'[c].version
             /\ Target'.n = call[c].n
             /\ Target'.uid = call[c].depUID
  <2>1. /\ CallTypeOK /\ CallInv(c) /\ rv \in Nat
        /\ dep \in Deployment /\ intent \in Intent
        /\ ClusterInv /\ \A o \in Calls : CallInv(o)
    BY <1>1 DEF SafetyInv, TypeOK, ClusterTypeOK, ClusterInv
  <2>2. faults' \in Nat
    BY <1>1, NextSafety DEF SafetyInv, TypeOK, ClusterTypeOK
  <2>3. PICK o \in Calls : CallNext(o)
    BY <1>1 DEF Next, Others
  <2>4. o = c
    BY <1>1, <2>1, <2>2, <2>3, CallNextKept DEF CallReady, CallKept
  <2>5. CallNext(c)
    BY <2>3, <2>4
  <2>6. CASE /\ call[c].pc = "UpdateScale" /\ dep.uid # 0 /\ dep.rv = call[c].seen
             /\ StoreScale(call[c].n) /\ call'[c].version = dep'.rv
    <3>1. /\ Level # 5 /\ call[c].n \in Counts /\ dep.uid = call[c].depUID
          /\ call[c].expected \in {0, dep.rv}
      BY <2>1, <2>6 DEF CallInv, CallSteps
    <3>2. dep'.uid = dep.uid /\ dep'.replicas = call[c].n
      <4>1. CASE dep' = dep
        <5>1. dep.replicas = call[c].n
          <6>1. SUFFICES ASSUME dep.replicas # call[c].n PROVE FALSE
            OBVIOUS
          <6>2. dep' = [[dep EXCEPT !.replicas = call[c].n, !.gen = dep.gen + 1]
                          EXCEPT !.rv = rv + 1]
            BY <2>6, <6>1 DEF StoreScale, StoreDeployment
          <6>3. dep'.replicas = call[c].n
            BY <2>1, <6>2 DEF Deployment
          <6> QED
            BY <4>1, <6>1, <6>3
        <5> QED
          BY <4>1, <5>1
      <4>2. CASE dep' # dep
        BY <2>1, <2>6, <3>1, <4>2, ScaleWritten
      <4> QED
        BY <4>1, <4>2
    <3>3. /\ Target.rv = dep.rv /\ Target'.rv = dep'.rv
          /\ Target'.n = dep'.replicas /\ Target'.uid = dep'.uid
      BY <3>1 DEF Target
    <3> QED
      BY <2>6, <3>1, <3>2, <3>3
  <2>7. CASE /\ call[c].pc = "GetIntent" /\ UNCHANGED clusterVars
             /\ intent.depUID = call[c].depUID /\ intent.replicas = call[c].n
             /\ call[c].expected \in {0, intent.rv}
             /\ call'[c].version = intent.rv
    <3>1. Level = 5
      BY <2>1, <2>7 DEF CallInv
    <3> QED
      BY <2>7, <3>1 DEF Target, clusterVars
  <2>8. CASE /\ call[c].pc = "CreateIntent"
             /\ StoreIntent(NewIntent(call[c].depUID, call[c].n))
             /\ call'[c].version = rv + 1
    <3>1. Level = 5 /\ call[c].expected = 0
      BY <2>1, <2>8 DEF CallInv
    <3>2. /\ intent'.rv = rv + 1 /\ intent'.replicas = call[c].n
          /\ intent'.depUID = call[c].depUID
      BY <2>8 DEF StoreIntent, NewIntent, NoIntent
    <3> QED
      BY <2>8, <3>1, <3>2 DEF Target
  <2>9. CASE /\ call[c].pc = "UpdateIntent" /\ intent.uid # 0
             /\ intent.rv = call[c].seen
             /\ StoreIntent(WithReplicas(intent, call[c].n))
             /\ call'[c].version = rv + 1
    <3>1. /\ Level = 5 /\ call[c].expected \in {0, intent.rv}
          /\ intent.depUID = call[c].depUID
      BY <2>1, <2>9 DEF CallInv
    <3>2. /\ intent'.rv = rv + 1 /\ intent'.replicas = call[c].n
          /\ intent'.depUID = intent.depUID
      BY <2>1, <2>9 DEF StoreIntent, WithReplicas, Intent
    <3> QED
      BY <2>9, <3>1, <3>2 DEF Target
  <2> QED
    BY <1>1, <2>1, <2>5, <2>6, <2>7, <2>8, <2>9, WhoSucceeds
<1>2. ASSUME SafetyInv, [Next]_vars
      PROVE  [\A c \in Calls : Conditional(c)]_vars
  BY <1>1, <1>2
<1> QED
  BY <1>2, Safety, PTL DEF Spec, SetIsConditional
=============================================================================
