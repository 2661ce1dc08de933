------------------------- MODULE CachedReadsProofs -------------------------
(***************************************************************************)
(* Proofs about CachedReads, for every set of callers and Pods and every   *)
(* value of the bounds: what a read shows was true, and a Set that expects *)
(* a version replaces only what its caller was shown.                      *)
(*                                                                         *)
(* The argument: however the cluster moves, every write carries a new      *)
(* revision (Stamped).  So the log of revisions only grows, what was read  *)
(* from it, through whatever cache, stays in it, and a version found in it *)
(* names one state of one object (VersionsName).  Two objects of the same  *)
(* version are then the same, which is all that a Set relies on.           *)
(***************************************************************************)
EXTENDS CachedReads, TLAPS

-----------------------------------------------------------------------------
(* Types of the records. *)

(* The records that stand for "nothing yet" are typed. *)
LEMMA NothingTyped ==
    /\ NoDeployment \in Deployment /\ NoDeployment.uid = 0
    /\ NoIntent \in Intent /\ NoIntent.uid = 0
    /\ IdleCall \in Call /\ IdleCall.pc = "idle"
    /\ NothingShown \in Shown /\ NothingShown.version = 0
<1>1. 0 \in Counts /\ "GetTarget" \in CallSteps
  BY MaxReplicasAssumption DEF Counts, CallSteps
<1>2. NoStatus \in ReconcileStatus
  BY <1>1 DEF NoStatus, ReconcileStatus
<1>3. NoDeployment \in Deployment /\ NoDeployment.uid = 0
  BY <1>1 DEF NoDeployment, Deployment
<1>4. NoIntent \in Intent /\ NoIntent.uid = 0
  BY <1>1, <1>2 DEF NoIntent, Intent
<1>5. 0 \in Requests /\ "OK" \in Codes
  BY MaxReplicasAssumption DEF Requests, Codes
<1>6. IdleCall \in Call /\ IdleCall.pc = "idle"
  BY <1>5 DEF IdleCall, Call
<1>7. NothingShown \in Shown /\ NothingShown.version = 0
  BY <1>1 DEF NothingShown, Shown
<1> QED
  BY <1>3, <1>4, <1>6, <1>7

(* Every reason of a status has a phase that a read can show. *)
LEMMA PhaseTyped ==
    ASSUME NEW r \in Reasons \cup {"none"}
    PROVE  Phase(r) \in {"none", "Ready", "Blocked", "Reconciling"}
<1>1. CASE r = "DesiredStateObserved"
  BY <1>1 DEF Phase, BlockedReasons
<1>2. CASE r \in BlockedReasons
  BY <1>2 DEF Phase, BlockedReasons
<1>3. CASE r \in {"ScaleUpdated", "WaitingForDeployment"}
  BY <1>3 DEF Phase, BlockedReasons
<1>4. CASE r = "none"
  BY <1>4 DEF Phase, BlockedReasons
<1> QED
  BY <1>1, <1>2, <1>3, <1>4 DEF Reasons

-----------------------------------------------------------------------------
(* How the cluster moves. *)

ObjectsTyped == rv \in Nat /\ dep \in Deployment /\ intent \in Intent /\ hpa \in BOOLEAN

(* A step that writes stamps what it writes with a new revision.  *)
Stamped ==
    /\ ObjectsTyped'
    /\ \/ UNCHANGED <<rv, dep, intent>>
       \/ /\ rv' = rv + 1
          /\ dep' = dep \/ dep'.uid = 0 \/ dep'.rv = rv'
          /\ intent' = intent \/ intent'.uid = 0 \/ intent'.rv = rv'

(* A step that writes nothing. *)
LEMMA NothingWritten ==
    ASSUME ObjectsTyped, UNCHANGED clusterVars
    PROVE  Stamped
BY DEF ObjectsTyped, Stamped, clusterVars

(* A write of the Deployment. *)
LEMMA DeploymentWritten ==
    ASSUME ObjectsTyped, NEW d \in Deployment, StoreDeployment(d)
    PROVE  Stamped
<1>1. rv' = rv + 1 /\ rv' \in Nat /\ UNCHANGED <<intent, hpa>>
  BY DEF StoreDeployment, ObjectsTyped
<1>2. dep' \in Deployment /\ dep'.rv = rv'
  BY <1>1 DEF StoreDeployment, Deployment
<1> QED
  BY <1>1, <1>2 DEF Stamped, ObjectsTyped

(* A write of the intent. *)
LEMMA IntentWritten ==
    ASSUME ObjectsTyped, NEW i \in Intent, StoreIntent(i)
    PROVE  Stamped
<1>1. rv' = rv + 1 /\ rv' \in Nat /\ UNCHANGED <<dep, hpa>>
  BY DEF StoreIntent, ObjectsTyped
<1>2. intent' \in Intent /\ intent'.rv = rv'
  BY <1>1 DEF StoreIntent, Intent
<1> QED
  BY <1>1, <1>2 DEF Stamped, ObjectsTyped

(* A scale write. *)
LEMMA ScaleWritten ==
    ASSUME ObjectsTyped, NEW n \in Counts, StoreScale(n)
    PROVE  Stamped
<1>1. CASE dep.replicas = n
  BY <1>1, NothingWritten DEF StoreScale
<1>2. CASE dep.replicas # n
  <2>1. dep.gen + 1 \in Nat
    BY DEF ObjectsTyped, Deployment
  <2>2. \A g \in Nat : [dep EXCEPT !.replicas = n, !.gen = g] \in Deployment
    BY DEF ObjectsTyped, Deployment
  <2> QED
    BY <1>2, <2>1, <2>2, DeploymentWritten DEF StoreScale
<1> QED
  BY <1>1, <1>2

(* A change of the intent's count. *)
LEMMA CountWritten ==
    ASSUME ObjectsTyped, NEW n \in Counts, StoreIntent(WithReplicas(intent, n))
    PROVE  Stamped
<1>1. intent.gen + 1 \in Nat
  BY DEF ObjectsTyped, Intent
<1>2. \A g \in Nat : [intent EXCEPT !.replicas = n, !.gen = g] \in Intent
  BY DEF ObjectsTyped, Intent
<1>3. WithReplicas(intent, n) \in Intent
  BY <1>1, <1>2 DEF WithReplicas
<1> QED
  BY <1>3, IntentWritten

(* A new intent. *)
LEMMA NewIntentWritten ==
    ASSUME ObjectsTyped, NEW uid \in Nat, NEW n \in Counts, StoreIntent(NewIntent(uid, n))
    PROVE  Stamped
<1>1. rv + 1 \in Nat
  BY DEF ObjectsTyped
<1>2. \A u \in Nat : [NoIntent EXCEPT !.uid = u, !.gen = 1, !.depUID = uid,
                                       !.replicas = n] \in Intent
  BY NothingTyped DEF Intent
<1>3. NewIntent(uid, n) \in Intent
  BY <1>1, <1>2 DEF NewIntent
<1> QED
  BY <1>3, IntentWritten

(* An object is gone. *)
LEMMA ObjectGone ==
    ASSUME ObjectsTyped, rv' = rv + 1, UNCHANGED hpa,
           \/ dep' = NoDeployment /\ UNCHANGED intent
           \/ intent' = NoIntent /\ UNCHANGED dep
    PROVE  Stamped
BY NothingTyped DEF ObjectsTyped, Stamped

(* Whoever moves the cluster besides the callers stamps what he writes. *)
LEMMA UsersStamped ==
    ASSUME ObjectsTyped, Users
    PROVE  Stamped
<1>1. /\ rv + 1 \in Nat /\ dep.gen + 1 \in Nat /\ intent.gen + 1 \in Nat
      /\ dep.uid \in Nat
  BY DEF ObjectsTyped, Deployment, Intent
<1>2. CASE DeployCreated
  <2>1. PICK n \in Counts, p \in BOOLEAN :
           StoreDeployment([NoDeployment EXCEPT !.uid = rv + 1, !.gen = 1,
                                                !.replicas = n, !.protected = p])
    BY <1>2 DEF DeployCreated
  <2>2. \A u \in Nat : [NoDeployment EXCEPT !.uid = u, !.gen = 1, !.replicas = n,
                                            !.protected = p] \in Deployment
    BY NothingTyped DEF Deployment
  <2> QED
    BY <1>1, <2>1, <2>2, DeploymentWritten
<1>3. CASE DeployDeleting
  <2>1. \A g \in Nat : [dep EXCEPT !.deleting = TRUE, !.gen = g] \in Deployment
    BY DEF ObjectsTyped, Deployment
  <2> QED
    BY <1>1, <1>3, <2>1, DeploymentWritten DEF DeployDeleting
<1>4. CASE DeployDrifts
  BY <1>4, ScaleWritten DEF DeployDrifts
<1>5. CASE DeployProtected
  <2>1. [dep EXCEPT !.protected = ~dep.protected] \in Deployment
    BY DEF ObjectsTyped, Deployment
  <2> QED
    BY <1>5, <2>1, DeploymentWritten DEF DeployProtected
<1>6. CASE PodsFail
  <2>1. PICK n \in 0..(dep.ready - 1) : StoreDeployment([dep EXCEPT !.ready = n])
    BY <1>6 DEF PodsFail
  <2>2. n \in Counts
    BY MaxReplicasAssumption DEF ObjectsTyped, Deployment, Counts
  <2>3. [dep EXCEPT !.ready = n] \in Deployment
    BY <2>2 DEF ObjectsTyped, Deployment
  <2> QED
    BY <2>1, <2>3, DeploymentWritten
<1>7. CASE HPAChanges
  BY <1>7 DEF HPAChanges, ObjectsTyped, Stamped
<1>8. CASE IntentEdited
  BY <1>8, CountWritten DEF IntentEdited
<1>9. CASE IntentDeleting
  <2>1. \A g \in Nat : [intent EXCEPT !.deleting = TRUE, !.gen = g] \in Intent
    BY DEF ObjectsTyped, Intent
  <2> QED
    BY <1>1, <1>9, <2>1, IntentWritten DEF IntentDeleting
<1>10. CASE IntentAdded
  BY <1>1, <1>10, NewIntentWritten DEF IntentAdded
<1>11. CASE DeployRemoved \/ IntentRemoved
  BY <1>11, ObjectGone DEF DeployRemoved, IntentRemoved
<1> QED
  BY <1>2, <1>3, <1>4, <1>5, <1>6, <1>7, <1>8, <1>9, <1>10, <1>11 DEF Users

(* So do Kubernetes and the controller. *)
LEMMA MachinesStamped ==
    ASSUME ObjectsTyped, Kubernetes \/ StatusReported
    PROVE  Stamped
<1>1. CASE DeployObserved \/ DeployRolledOut
  <2>1. /\ [dep EXCEPT !.observed = dep.gen] \in Deployment
        /\ [dep EXCEPT !.observed = dep.gen, !.ready = dep.replicas] \in Deployment
    BY DEF ObjectsTyped, Deployment
  <2> QED
    BY <1>1, <2>1, DeploymentWritten DEF DeployObserved, DeployRolledOut
<1>2. CASE IntentCollected
  BY <1>2, ObjectGone DEF IntentCollected
<1>3. CASE StatusReported
  <2>1. PICK r \in {"ScaleUpdated", "DesiredStateObserved"} :
           StoreIntent([intent EXCEPT !.status = [reason |-> r, gen |-> intent.gen,
                                                  replicas |-> dep.replicas,
                                                  ready |-> dep.ready]])
    BY <1>3 DEF StatusReported
  <2>2. [reason |-> r, gen |-> intent.gen, replicas |-> dep.replicas,
         ready |-> dep.ready] \in ReconcileStatus
    BY DEF ObjectsTyped, Deployment, Intent, ReconcileStatus, Reasons
  <2>3. \A s \in ReconcileStatus : [intent EXCEPT !.status = s] \in Intent
    BY DEF ObjectsTyped, Intent
  <2> QED
    BY <2>1, <2>2, <2>3, IntentWritten
<1> QED
  BY <1>1, <1>2, <1>3 DEF Kubernetes

-----------------------------------------------------------------------------
(* The log. *)

LogTyped == log \in [1..rv -> [dep : Deployment, intent : Intent]]

LogInv == ObjectsTyped /\ LogTyped /\ VersionsName

(* What the log says stays there, whatever is written. *)
LogGrew ==
    /\ LogInv' /\ rv' >= rv
    /\ \A r \in 1..rv : r \in 1..rv' /\ log'[r] = log[r]

(* A stamped write, recorded in the log, is the only one of its version. *)
LEMMA LogGrows ==
    ASSUME LogInv, Stamped, Logged
    PROVE  LogGrew
<1>1. /\ rv \in Nat /\ rv >= 1 /\ ObjectsTyped'
      /\ dep' \in Deployment /\ intent' \in Intent
  BY DEF LogInv, VersionsName, Stamped, ObjectsTyped
<1>2. CASE UNCHANGED <<rv, dep, intent>>
  BY <1>1, <1>2 DEF LogInv, LogTyped, VersionsName, LogGrew, Logged, Stored
<1>3. CASE /\ rv' = rv + 1
           /\ dep' = dep \/ dep'.uid = 0 \/ dep'.rv = rv'
           /\ intent' = intent \/ intent'.uid = 0 \/ intent'.rv = rv'
  <2>1. log' = [r \in 1..rv' |-> IF r = rv' THEN Stored' ELSE log[r]]
    BY <1>1, <1>3 DEF Logged
  <2>2. /\ rv' \in 1..rv' /\ rv' \notin 1..rv /\ rv \in 1..rv /\ 1 \in 1..rv
        /\ rv' >= rv /\ rv' >= 1
        /\ \A r \in 1..rv' : r # rv' => r \in 1..rv
        /\ \A r \in 1..rv : r \in 1..rv' /\ r # rv'
    BY <1>1, <1>3
  <2>3. /\ log'[rv'] = Stored'
        /\ \A r \in 1..rv : log'[r] = log[r]
    BY <2>1, <2>2
  <2>4. Stored' \in [dep : Deployment, intent : Intent]
        /\ Stored'.dep = dep' /\ Stored'.intent = intent'
    BY <1>1 DEF Stored
  <2>5. LogTyped'
    <3>1. \A r \in 1..rv : log[r] \in [dep : Deployment, intent : Intent]
      BY DEF LogInv, LogTyped
    <3>2. \A r \in 1..rv' : (IF r = rv' THEN Stored' ELSE log[r])
                             \in [dep : Deployment, intent : Intent]
      BY <2>2, <2>4, <3>1
    <3> QED
      BY <2>1, <3>2 DEF LogTyped
  <2>6. ASSUME NEW r \in 1..rv'
        PROVE  LET d == log'[r].dep
                   i == log'[r].intent
               IN  /\ d.uid # 0 => d.rv \in 1..r /\ log'[d.rv].dep = d
                   /\ i.uid # 0 => i.rv \in 1..r /\ log'[i.rv].intent = i
    <3>1. ASSUME NEW q \in 1..rv
          PROVE  LET d == log[q].dep
                     i == log[q].intent
                 IN  /\ d.uid # 0 => /\ d.rv \in 1..q /\ d.rv \in 1..rv
                                     /\ log'[d.rv].dep = d
                     /\ i.uid # 0 => /\ i.rv \in 1..q /\ i.rv \in 1..rv
                                     /\ log'[i.rv].intent = i
      <4>1. \A v \in 1..q : v \in 1..rv
        BY <1>1
      <4> QED
        BY <2>3, <4>1 DEF LogInv, VersionsName
    <3>2. CASE r # rv'
      BY <2>2, <2>3, <3>1, <3>2
    <3>3. CASE r = rv'
      <4>1. log'[r].dep = dep' /\ log'[r].intent = intent'
        BY <2>3, <2>4, <3>3
      <4>2. log[rv].dep = dep /\ log[rv].intent = intent
        BY DEF LogInv, VersionsName, Stored
      <4>3. \A v \in 1..rv : v \in 1..r
        BY <2>2, <3>3
      <4>4. dep'.uid # 0 => dep'.rv \in 1..r /\ log'[dep'.rv].dep = dep'
        BY <1>3, <2>2, <3>1, <3>3, <4>1, <4>2, <4>3
      <4>5. intent'.uid # 0 => intent'.rv \in 1..r /\ log'[intent'.rv].intent = intent'
        BY <1>3, <2>2, <3>1, <3>3, <4>1, <4>2, <4>3
      <4> QED
        BY <4>1, <4>4, <4>5
    <3> QED
      BY <3>2, <3>3
  <2>7. VersionsName'
    BY <2>2, <2>3, <2>6 DEF VersionsName
  <2> QED
    BY <1>1, <2>2, <2>3, <2>5, <2>7 DEF LogGrew, LogInv
<1> QED
  BY <1>2, <1>3 DEF Stamped

(* A Deployment that was read at the version now stored is the one stored. *)
LEMMA SameDeployment ==
    ASSUME LogInv, dep.uid # 0, NEW r \in 1..rv, log[r].dep.uid # 0,
           log[r].dep.rv = dep.rv
    PROVE  log[r].dep = dep
<1>1. rv \in 1..rv /\ log[rv].dep = dep
  BY DEF LogInv, ObjectsTyped, VersionsName, Stored
<1> QED
  BY <1>1 DEF LogInv, VersionsName

(* So is an intent. *)
LEMMA SameIntent ==
    ASSUME LogInv, intent.uid # 0, NEW r \in 1..rv, log[r].intent.uid # 0,
           log[r].intent.rv = intent.rv
    PROVE  log[r].intent = intent
<1>1. rv \in 1..rv /\ log[rv].intent = intent
  BY DEF LogInv, ObjectsTyped, VersionsName, Stored
<1> QED
  BY <1>1 DEF LogInv, VersionsName

-----------------------------------------------------------------------------
(* Steps of a Set call. *)

CallReady(c) ==
    /\ LogInv /\ CallTypeOK /\ AnswersWereTrue /\ ReadsHold
    /\ Follows(call[c], view[c])

CallKept(c) ==
    /\ Stamped /\ CallTypeOK'
    /\ Follows(call'[c], view[c])
    /\ \A o \in Calls \ {c} : call'[o] = call[o]

(* The object at the version a call expects is the one its caller read.    *)
LEMMA ExpectedWasRead ==
    ASSUME NEW c \in Calls, CallReady(c), call[c].pc \in CallSteps,
           call[c].expected # 0
    PROVE  /\ Level # 5 /\ dep.uid # 0 /\ dep.rv = call[c].expected =>
                 dep = view[c].dep
           /\ Level = 5 /\ intent.uid # 0 /\ intent.rv = call[c].expected =>
                 /\ intent.depUID = view[c].dep.uid
                 /\ intent.replicas = view[c].shown.replicas
<1>1. /\ view[c].pc = "sent" /\ view[c].result = "OK" /\ view[c].dep.uid # 0
      /\ call[c].expected = ExpectedVersion(view[c])
  BY DEF CallReady, Follows, ReadsHold, IsHeld
<1>2. ASSUME Level # 5, dep.uid # 0, dep.rv = call[c].expected
      PROVE  dep = view[c].dep
  <2>1. PICK r \in 1..rv : log[r].dep = view[c].dep
    BY <1>1 DEF CallReady, AnswersWereTrue, WasTrue
  <2>2. view[c].dep.rv = dep.rv
    BY <1>1, <1>2 DEF ExpectedVersion
  <2> QED
    BY <1>1, <1>2, <2>1, <2>2, SameDeployment DEF CallReady
<1>3. ASSUME Level = 5, intent.uid # 0, intent.rv = call[c].expected
      PROVE  /\ intent.depUID = view[c].dep.uid
             /\ intent.replicas = view[c].shown.replicas
  <2>1. view[c].shown.version = intent.rv /\ view[c].shown.version # 0
    BY <1>1, <1>3 DEF ExpectedVersion
  <2>2. PICK r \in 1..rv :
           /\ log[r].intent.uid # 0 /\ log[r].intent.depUID = view[c].dep.uid
           /\ log[r].intent.rv = view[c].shown.version
           /\ log[r].intent.replicas = view[c].shown.replicas
    BY <1>1, <1>3, <2>1 DEF CallReady, AnswersWereTrue, WasTrue
  <2>3. log[r].intent = intent
    BY <1>3, <2>1, <2>2, SameIntent DEF CallReady
  <2> QED
    BY <2>2, <2>3
<1> QED
  BY <1>2, <1>3

(* An answer leaves nothing to be wrong about. *)
LEMMA AnswerKept ==
    ASSUME NEW c \in Calls, CallReady(c), Stamped,
           NEW r \in Codes, NEW v \in Nat, Answer(c, r, v)
    PROVE  CallKept(c)
<1> DEFINE new == [IdleCall EXCEPT !.pc = "done", !.result = r, !.version = v]
<1>1. new \in Call
  BY NothingTyped DEF Call
<1>2. new.pc = "done"
  BY DEF IdleCall
<1>3. call' = [call EXCEPT ![c] = new]
  BY DEF Answer
<1> HIDE DEF new
<1>4. CallTypeOK' /\ call'[c] = new /\ \A o \in Calls \ {c} : call'[o] = call[o]
  BY <1>1, <1>3 DEF CallReady, CallTypeOK
<1>5. Follows(call'[c], view[c])
  BY <1>2, <1>4 DEF Follows, CallSteps
<1> QED
  BY <1>4, <1>5 DEF CallKept

(* A failure is an answer. *)
LEMMA FailKept ==
    ASSUME NEW c \in Calls, CallReady(c), Stamped, NEW r \in Codes, Fail(c, r)
    PROVE  CallKept(c)
BY AnswerKept DEF Fail

(* The retry loop goes back to its first request. *)
LEMMA RetryKept ==
    ASSUME NEW c \in Calls, CallReady(c), UNCHANGED clusterVars,
           NEW first \in {"GetScale", "GetIntent"}, Retry(c, first),
           call[c].pc \in CallSteps,
           first = "GetIntent" <=> Level = 5
    PROVE  CallKept(c)
<1>1. Stamped
  BY NothingWritten DEF CallReady, LogInv
<1>2. CASE call[c].tries + 1 < Attempts
  <2>1. call' = [call EXCEPT ![c].pc = first, ![c].seen = 0,
                             ![c].tries = call[c].tries + 1]
    BY <1>2 DEF Retry
  <2>2. call[c].tries + 1 \in Nat
    BY DEF CallReady, CallTypeOK, Call
  <2>3. first \in CallSteps
    BY DEF CallSteps
  <2>4. /\ CallTypeOK' /\ call'[c].pc = first
        /\ call'[c].n = call[c].n /\ call'[c].expected = call[c].expected
        /\ \A o \in Calls \ {c} : call'[o] = call[o]
    BY <2>1, <2>2, <2>3 DEF CallReady, CallTypeOK, Call
  <2>5. Follows(call'[c], view[c])
    BY <2>4 DEF CallReady, Follows
  <2> QED
    BY <1>1, <2>4, <2>5 DEF CallKept
<1>3. CASE ~(call[c].tries + 1 < Attempts)
  BY <1>1, <1>3, FailKept DEF Retry, Codes
<1> QED
  BY <1>2, <1>3

(* A call moves on without having read a version. *)
LEMMA CallGoes ==
    ASSUME NEW c \in Calls, CallReady(c), UNCHANGED clusterVars,
           NEW pc \in {"GetScale", "GetIntent", "CreateIntent"}, Goto(c, pc),
           call[c].pc \in CallSteps,
           pc \in {"GetIntent", "CreateIntent"} => Level = 5,
           pc = "GetScale" => Level # 5,
           pc = "CreateIntent" => call[c].expected = 0
    PROVE  CallKept(c)
<1>1. Stamped
  BY NothingWritten DEF CallReady, LogInv
<1>2. pc \in CallSteps
  BY DEF CallSteps
<1>3. /\ CallTypeOK' /\ call'[c].pc = pc
      /\ call'[c].n = call[c].n /\ call'[c].expected = call[c].expected
      /\ \A o \in Calls \ {c} : call'[o] = call[o]
  BY <1>2 DEF CallReady, CallTypeOK, Call, Goto
<1>4. Follows(call'[c], view[c])
  BY <1>3 DEF CallReady, Follows
<1> QED
  BY <1>1, <1>3, <1>4 DEF CallKept

(* A call moves on to a write of the version v that it has just read.      *)
LEMMA CallReadVersion ==
    ASSUME NEW c \in Calls, CallReady(c), UNCHANGED clusterVars,
           NEW pc \in {"UpdateScale", "UpdateIntent"}, NEW v \in Nat,
           call[c].pc \in CallSteps, call[c].expected \in {0, v},
           call' = [call EXCEPT ![c].pc = pc, ![c].seen = v],
           pc = "UpdateScale" => Level # 5,
           pc = "UpdateIntent" => Level = 5,
           call[c].expected # 0 => call[c].depUID = view[c].dep.uid
    PROVE  CallKept(c)
<1>1. Stamped
  BY NothingWritten DEF CallReady, LogInv
<1>2. pc \in CallSteps
  BY DEF CallSteps
<1>3. /\ CallTypeOK' /\ call'[c].pc = pc /\ call'[c].seen = v
      /\ call'[c].n = call[c].n /\ call'[c].expected = call[c].expected
      /\ call'[c].depUID = call[c].depUID
      /\ \A o \in Calls \ {c} : call'[o] = call[o]
  BY <1>2 DEF CallReady, CallTypeOK, Call
<1>4. Follows(call'[c], view[c])
  BY <1>3 DEF CallReady, Follows
<1> QED
  BY <1>1, <1>3, <1>4 DEF CallKept

(* The checks before the loop: the call fails, remembers the UID, or       *)
(* enters the loop of its level.                                           *)
LEMMA ChecksKept ==
    ASSUME NEW c \in Calls, CallReady(c), CallGetTarget(c) \/ CallHasHPA(c)
    PROVE  CallKept(c)
<1>1. Stamped /\ UNCHANGED clusterVars /\ call[c].pc \in {"GetTarget", "HasHPA"}
  BY NothingWritten DEF CallReady, LogInv, CallGetTarget, CallHasHPA
<1>2. call[c].pc \in CallSteps
  BY <1>1 DEF CallSteps
<1>3. CASE \E r \in {"NotFound", "FailedPrecondition", "Forbidden"} : Fail(c, r)
  BY <1>1, <1>3, FailKept DEF Codes
<1>4. CASE call' = [call EXCEPT ![c].pc = "HasHPA", ![c].depUID = dep.uid]
  <2>1. dep.uid \in Nat
    BY DEF CallReady, LogInv, ObjectsTyped, Deployment
  <2>2. "HasHPA" \in CallSteps
    BY DEF CallSteps
  <2>3. /\ CallTypeOK' /\ call'[c].pc = "HasHPA"
        /\ call'[c].n = call[c].n /\ call'[c].expected = call[c].expected
        /\ \A o \in Calls \ {c} : call'[o] = call[o]
    BY <1>4, <2>1, <2>2 DEF CallReady, CallTypeOK, Call
  <2>4. Follows(call'[c], view[c])
    BY <1>2, <2>3 DEF CallReady, Follows
  <2> QED
    BY <1>1, <2>3, <2>4 DEF CallKept
<1>5. CASE Goto(c, IF Level = 5 THEN "GetIntent" ELSE "GetScale")
  <2>1. CASE Level = 5
    BY <1>1, <1>2, <1>5, <2>1, CallGoes
  <2>2. CASE Level # 5
    BY <1>1, <1>2, <1>5, <2>2, CallGoes
  <2> QED
    BY <2>1, <2>2
<1> QED
  BY <1>3, <1>4, <1>5 DEF CallGetTarget, CallHasHPA

(* The loop of levels 2 to 4. *)
LEMMA ScaleLoopKept ==
    ASSUME NEW c \in Calls, CallReady(c), CallGetScale(c) \/ CallUpdateScale(c)
    PROVE  CallKept(c)
<1>1. /\ call[c].pc \in {"GetScale", "UpdateScale"} /\ call[c].pc \in CallSteps
      /\ ObjectsTyped
  BY DEF CallGetScale, CallUpdateScale, CallSteps, CallReady, LogInv
<1>2. Level # 5 /\ call[c].n \in Counts
  BY <1>1 DEF CallReady, Follows
<1>3. CASE UNCHANGED clusterVars /\ \E r \in {"NotFound", "Conflict"} : Fail(c, r)
  BY <1>1, <1>3, NothingWritten, FailKept DEF Codes
<1>4. CASE /\ UNCHANGED clusterVars
           /\ dep.uid # 0 /\ dep.uid = call[c].depUID
           /\ call[c].expected \in {0, dep.rv}
           /\ call' = [call EXCEPT ![c].pc = "UpdateScale", ![c].seen = dep.rv]
  <2>1. dep.rv \in Nat
    BY <1>1 DEF ObjectsTyped, Deployment
  <2>2. call[c].expected # 0 => call[c].depUID = view[c].dep.uid
    BY <1>1, <1>2, <1>4, ExpectedWasRead
  <2> QED
    BY <1>1, <1>2, <1>4, <2>1, <2>2, CallReadVersion
<1>5. CASE StoreScale(call[c].n) /\ Answer(c, "OK", dep'.rv)
  <2>1. Stamped
    BY <1>1, <1>2, <1>5, ScaleWritten
  <2>2. dep'.rv \in Nat
    BY <2>1 DEF Stamped, ObjectsTyped, Deployment
  <2> QED
    BY <1>5, <2>1, <2>2, AnswerKept DEF Codes
<1>6. CASE Retry(c, "GetScale") /\ UNCHANGED clusterVars
  BY <1>1, <1>2, <1>6, RetryKept
<1>7. CASE CallGetScale(c)
  BY <1>3, <1>4, <1>7 DEF CallGetScale
<1>8. CASE CallUpdateScale(c)
  BY <1>3, <1>5, <1>6, <1>8 DEF CallUpdateScale
<1> QED
  BY <1>7, <1>8

(* The loop of level 5. *)
LEMMA IntentLoopKept ==
    ASSUME NEW c \in Calls, CallReady(c),
           CallGetIntent(c) \/ CallCreateIntent(c) \/ CallUpdateIntent(c)
    PROVE  CallKept(c)
<1>1. /\ call[c].pc \in {"GetIntent", "CreateIntent", "UpdateIntent"}
      /\ call[c].pc \in CallSteps /\ ObjectsTyped
  BY DEF CallGetIntent, CallCreateIntent, CallUpdateIntent, CallSteps, CallReady, LogInv
<1>2. Level = 5 /\ call[c].n \in Counts
  BY <1>1 DEF CallReady, Follows
<1>3. rv + 1 \in Nat /\ intent.rv \in Nat /\ call[c].depUID \in Nat
  BY <1>1 DEF ObjectsTyped, Intent, CallReady, CallTypeOK, Call
<1>4. CASE /\ UNCHANGED clusterVars
           /\ \E r \in {"Conflict", "FailedPrecondition", "NotFound"} : Fail(c, r)
  BY <1>1, <1>4, NothingWritten, FailKept DEF Codes
<1>5. CASE UNCHANGED clusterVars /\ call[c].expected = 0 /\ Goto(c, "CreateIntent")
  BY <1>1, <1>2, <1>5, CallGoes
<1>6. CASE /\ UNCHANGED clusterVars
           /\ intent.uid # 0 /\ intent.depUID = call[c].depUID
           /\ call[c].expected \in {0, intent.rv}
           /\ call' = [call EXCEPT ![c].pc = "UpdateIntent", ![c].seen = intent.rv]
  <2>1. call[c].expected # 0 => call[c].depUID = view[c].dep.uid
    BY <1>1, <1>2, <1>6, ExpectedWasRead
  <2> QED
    BY <1>1, <1>2, <1>3, <1>6, <2>1, CallReadVersion
<1>7. CASE UNCHANGED clusterVars /\ Answer(c, "OK", intent.rv)
  BY <1>1, <1>3, <1>7, NothingWritten, AnswerKept DEF Codes
<1>8. CASE /\ StoreIntent(NewIntent(call[c].depUID, call[c].n))
           /\ Answer(c, "OK", rv + 1)
  BY <1>1, <1>2, <1>3, <1>8, NewIntentWritten, AnswerKept DEF Codes
<1>9. CASE StoreIntent(WithReplicas(intent, call[c].n)) /\ Answer(c, "OK", rv + 1)
  BY <1>1, <1>2, <1>3, <1>9, CountWritten, AnswerKept DEF Codes
<1>10. CASE Retry(c, "GetIntent") /\ UNCHANGED clusterVars
  BY <1>1, <1>2, <1>10, RetryKept
<1>11. CASE CallGetIntent(c)
  BY <1>4, <1>5, <1>6, <1>7, <1>11 DEF CallGetIntent
<1>12. CASE CallCreateIntent(c)
  BY <1>8, <1>10, <1>12 DEF CallCreateIntent
<1>13. CASE CallUpdateIntent(c)
  BY <1>4, <1>9, <1>10, <1>13 DEF CallUpdateIntent
<1> QED
  BY <1>11, <1>12, <1>13

(* A request that fails, with or without its write applied. *)
LEMMA FaultKept ==
    ASSUME NEW c \in Calls, CallReady(c), CallRequestFails(c) \/ CallResponseLost(c)
    PROVE  CallKept(c)
<1>1. Fail(c, "Unavailable") /\ "Unavailable" \in Codes /\ ObjectsTyped
  BY DEF CallRequestFails, CallResponseLost, Codes, CallReady, LogInv
<1>2. CASE UNCHANGED clusterVars
  BY <1>1, <1>2, NothingWritten, FailKept
<1>3. CASE CallResponseLost(c)
  <2>1. call[c].pc \in CallSteps
    BY <1>3 DEF CallResponseLost, CallSteps
  <2>2. call[c].n \in Counts /\ call[c].depUID \in Nat
    BY <2>1 DEF CallReady, Follows, CallTypeOK, Call
  <2>3. Stamped
    BY <1>1, <1>3, <2>2, ScaleWritten, NewIntentWritten, CountWritten
       DEF CallResponseLost
  <2> QED
    BY <1>1, <2>3, FailKept
<1> QED
  BY <1>2, <1>3 DEF CallRequestFails

-----------------------------------------------------------------------------
(* What was read stays true. *)

(* Caches and views are untouched while the log grows. *)
LEMMA ReadsStay ==
    ASSUME ReadInv, LogGrew, UNCHANGED <<pos, view>>
    PROVE  /\ AnswersWereTrue' /\ ReadsHold' /\ IntentCacheFilled'
           /\ pos' \in [Pods -> [Kinds -> 0..rv']]
           /\ view' \in [Calls -> View]
<1>1. ASSUME NEW c \in Calls
      PROVE  WasTrue(view[c])' /\ IsHeld(view[c])'
  <2>1. WasTrue(view[c]) /\ IsHeld(view[c]) /\ view'[c] = view[c]
    BY DEF ReadInv, AnswersWereTrue, ReadsHold
  <2>2. WasTrue(view[c])'
    BY <2>1 DEF WasTrue, LogGrew
  <2>3. IsHeld(view[c])'
    BY <2>1 DEF IsHeld, LogGrew
  <2> QED
    BY <2>2, <2>3
<1>2. 0..rv \subseteq 0..rv'
  BY DEF LogGrew, LogInv, ReadInv, ReadTypeOK, ClusterTypeOK, ObjectsTyped
<1>3. pos' \in [Pods -> [Kinds -> 0..rv']]
  BY <1>2 DEF ReadInv, ReadTypeOK
<1>4. IntentCacheFilled'
  BY DEF ReadInv, IntentCacheFilled
<1> QED
  BY <1>1, <1>3, <1>4 DEF AnswersWereTrue, ReadsHold, ReadInv, ReadTypeOK

(* The invariant says that the log is well formed. *)
LEMMA ReadInvParts == ReadInv => LogInv /\ CallTypeOK /\ faults \in Nat
BY DEF ReadInv, ReadTypeOK, ClusterTypeOK, LogInv, LogTyped, ObjectsTyped

(* The cluster moves. *)
LEMMA ClusterMovesKept ==
    ASSUME ReadInv, ClusterMoves
    PROVE  ReadInv'
<1>1. LogInv /\ ObjectsTyped
  BY ReadInvParts DEF LogInv
<1>2. Stamped
  BY <1>1, UsersStamped, MachinesStamped DEF ClusterMoves
<1>3. LogGrew
  BY <1>1, <1>2, LogGrows DEF ClusterMoves
<1>4. UNCHANGED <<faults, call, pos, view>>
  BY DEF ClusterMoves
<1>5. /\ AnswersWereTrue' /\ ReadsHold' /\ IntentCacheFilled'
      /\ pos' \in [Pods -> [Kinds -> 0..rv']] /\ view' \in [Calls -> View]
  BY <1>3, <1>4, ReadsStay
<1>6. SetsFollowReads' /\ CallTypeOK' /\ faults' \in Nat /\ LogInv'
  BY <1>3, <1>4, ReadInvParts
     DEF ReadInv, SetsFollowReads, Follows, ExpectedVersion, CallTypeOK, LogGrew
<1> QED
  BY <1>5, <1>6
     DEF ReadInv, ReadTypeOK, ClusterTypeOK, LogInv, LogTyped, ObjectsTyped

(* A call moves. *)
LEMMA CallMovesKept ==
    ASSUME ReadInv, NEW c \in Calls, CallMoves(c)
    PROVE  ReadInv'
<1>1. CallReady(c)
  BY ReadInvParts DEF CallReady, ReadInv, SetsFollowReads
<1>2. CallKept(c)
  BY <1>1, ChecksKept, ScaleLoopKept, IntentLoopKept, FaultKept
     DEF CallMoves, CallStep
<1>3. LogGrew
  BY <1>1, <1>2, LogGrows DEF CallMoves, CallReady, CallKept
<1>4. UNCHANGED <<pos, view>>
  BY DEF CallMoves
<1>5. /\ AnswersWereTrue' /\ ReadsHold' /\ IntentCacheFilled'
      /\ pos' \in [Pods -> [Kinds -> 0..rv']] /\ view' \in [Calls -> View]
  BY <1>3, <1>4, ReadsStay
<1>6. faults \in Nat
  BY ReadInvParts
<1>7. faults' \in Nat
  BY <1>6 DEF CallMoves, CallStep, CallRequestFails, CallResponseLost,
              CallGetTarget, CallHasHPA, CallGetScale, CallUpdateScale,
              CallGetIntent, CallCreateIntent, CallUpdateIntent
<1>8. SetsFollowReads'
  <2>1. ASSUME NEW o \in Calls
        PROVE  Follows(call'[o], view[o])
    <3>1. CASE o = c
      BY <1>2, <3>1 DEF CallKept
    <3>2. CASE o # c
      BY <1>2, <3>2 DEF CallKept, ReadInv, SetsFollowReads
    <3> QED
      BY <3>1, <3>2
  <2> QED
    BY <1>4, <2>1 DEF SetsFollowReads, Follows, ExpectedVersion
<1>9. CallTypeOK' /\ LogInv'
  BY <1>2, <1>3 DEF CallKept, LogGrew
<1> QED
  BY <1>5, <1>7, <1>8, <1>9
     DEF ReadInv, ReadTypeOK, ClusterTypeOK, LogInv, LogTyped, ObjectsTyped

(* A caller changes what he holds, and perhaps starts or forgets his Set.  *)
LEMMA ViewChanges ==
    ASSUME ReadInv, NEW c \in Calls, NEW v \in View, NEW k \in Call,
           view' = [view EXCEPT ![c] = v], call' = [call EXCEPT ![c] = k],
           UNCHANGED <<clusterVars, faults, log, pos>>,
           WasTrue(v), IsHeld(v), v.pc = "decorate" => pos[v.pod].intent # 0, Follows(k, v)
    PROVE  ReadInv'
<1>1. /\ LogInv /\ CallTypeOK /\ faults \in Nat
      /\ pos \in [Pods -> [Kinds -> 0..rv]] /\ view \in [Calls -> View]
  BY ReadInvParts DEF ReadInv, ReadTypeOK
<1>2. /\ view'[c] = v /\ call'[c] = k
      /\ \A o \in Calls \ {c} : view'[o] = view[o] /\ call'[o] = call[o]
      /\ view' \in [Calls -> View] /\ CallTypeOK'
  BY <1>1 DEF CallTypeOK
<1>3. rv' = rv /\ log' = log /\ dep' = dep /\ intent' = intent /\ hpa' = hpa
      /\ pos' = pos /\ faults' = faults
  BY DEF clusterVars
<1>4. LogInv' /\ faults' \in Nat /\ pos' \in [Pods -> [Kinds -> 0..rv']]
  BY <1>1, <1>3 DEF LogInv, LogTyped, ObjectsTyped, VersionsName, Stored
<1>5. ASSUME NEW o \in Calls
      PROVE  WasTrue(view'[o]) /\ IsHeld(view'[o]) /\ Follows(call'[o], view'[o])
  <2>1. CASE o = c
    BY <1>2, <2>1
  <2>2. CASE o # c
    BY <1>2, <2>2 DEF ReadInv, AnswersWereTrue, ReadsHold, SetsFollowReads
  <2> QED
    BY <2>1, <2>2
<1>6. AnswersWereTrue'
  BY <1>3, <1>5 DEF AnswersWereTrue, WasTrue
<1>7. ReadsHold'
  BY <1>3, <1>5 DEF ReadsHold, IsHeld
<1>8. SetsFollowReads'
  BY <1>5 DEF SetsFollowReads, Follows, ExpectedVersion
<1>9. IntentCacheFilled'
  <2>1. \A o \in Calls : view'[o].pc = "decorate" => pos[view'[o].pod].intent # 0
    BY <1>2 DEF ReadInv, IntentCacheFilled
  <2> QED
    BY <1>3, <2>1 DEF IntentCacheFilled
<1> QED
  BY <1>2, <1>4, <1>6, <1>7, <1>8, <1>9
     DEF ReadInv, ReadTypeOK, ClusterTypeOK, LogInv, LogTyped, ObjectsTyped

(* The same, when no Set of his is on its way. *)
LEMMA ViewReplaced ==
    ASSUME ReadInv, NEW c \in Calls, NEW v \in View,
           view' = [view EXCEPT ![c] = v], view[c].pc # "sent" \/ call[c].pc = "done",
           UNCHANGED <<clusterVars, faults, call, log, pos>>,
           WasTrue(v), IsHeld(v), v.pc = "decorate" => pos[v.pod].intent # 0
    PROVE  ReadInv'
<1>1. call \in [Calls -> Call] /\ call[c] \in Call
  BY DEF ReadInv, ReadTypeOK, CallTypeOK
<1>2. call' = [call EXCEPT ![c] = call[c]]
  BY <1>1
<1>3. call[c].pc \notin CallSteps
  BY DEF ReadInv, SetsFollowReads, Follows, CallSteps
<1>4. Follows(call[c], v)
  BY <1>3 DEF Follows
<1> QED
  BY <1>1, <1>2, <1>4, ViewChanges

-----------------------------------------------------------------------------
(* The steps of a caller and of a Pod. *)

(* The Deployment is read, from the API server or from a cache. *)
LEMMA ReadDeploymentKept ==
    ASSUME ReadInv, NEW c \in Calls, NEW p \in Pods, ReadDeployment(c, p)
    PROVE  ReadInv'
<1> DEFINE d == IF Level >= 4 THEN CachedDeployment(p) ELSE dep
           result == IF Level >= 4 /\ ~Synced(p) THEN "Unavailable"
                     ELSE IF d.uid = 0 THEN "NotFound" ELSE "OK"
           v == [pc |-> IF result = "OK" /\ Level = 5 THEN "decorate" ELSE "read",
                 pod |-> p, result |-> result, shown |-> NothingShown,
                 dep |-> IF result = "OK" THEN d ELSE NoDeployment]
<1>1. /\ view' = [view EXCEPT ![c] = v] /\ view[c].pc = "idle"
      /\ UNCHANGED <<clusterVars, faults, call, log, pos>>
  BY DEF ReadDeployment
<1>2. /\ rv \in Nat /\ rv \in 1..rv /\ log[rv].dep = dep /\ dep \in Deployment
      /\ LogTyped
  BY ReadInvParts DEF LogInv, VersionsName, ObjectsTyped, Stored
<1>3. ASSUME Level >= 4, Synced(p)
      PROVE  pos[p].dep \in 1..rv /\ d = log[pos[p].dep].dep
  <2>1. "dep" \in Informers
    BY <1>3, LevelAssumption DEF Informers, Kinds
  <2>2. pos[p].dep # 0
    BY <1>3, <2>1 DEF Synced
  <2>3. pos[p].dep \in 0..rv
    BY DEF ReadInv, ReadTypeOK, Kinds
  <2> QED
    BY <1>2, <1>3, <2>2, <2>3 DEF CachedDeployment
<1>4. result # "Unavailable" => d \in Deployment /\ \E r \in 1..rv : log[r].dep = d
  <2>1. CASE Level >= 4 /\ Synced(p)
    BY <1>2, <1>3, <2>1 DEF LogTyped
  <2>2. CASE ~(Level >= 4)
    BY <1>2, <2>2
  <2> QED
    BY <2>1, <2>2
<1>5. /\ result \in {"Unavailable", "NotFound", "OK"}
      /\ result = "NotFound" => d.uid = 0
      /\ result = "OK" => d.uid # 0
  OBVIOUS
<1> HIDE DEF d, result
<1>6. v \in View
  <2>1. v.dep \in Deployment
    BY <1>4, NothingTyped
  <2> QED
    BY <1>5, <2>1, NothingTyped DEF View, Codes
<1>7. WasTrue(v)
  BY <1>4, <1>5 DEF WasTrue
<1>8. IsHeld(v)
  BY <1>4, <1>5 DEF IsHeld
<1>9. v.pc = "decorate" => pos[v.pod].intent # 0
  <2>1. Level = 5 => "intent" \in Informers
    BY DEF Informers, Kinds
  <2> QED
    BY <2>1 DEF result, Synced
<1> HIDE DEF v
<1> QED
  BY <1>1, <1>6, <1>7, <1>8, <1>9, ViewReplaced

(* The intent is read: from a moment of its own, for the instance read     *)
(* before.                                                                 *)
LEMMA ReadIntentKept ==
    ASSUME ReadInv, NEW c \in Calls, ReadIntent(c)
    PROVE  ReadInv'
<1> DEFINE w == view[c]
           i == CachedIntent(w.pod)
           sh == Decoration(w.dep, i)
           v == [view[c] EXCEPT !.pc = "read", !.shown = sh]
<1>1. /\ view' = [view EXCEPT ![c] = v] /\ w.pc = "decorate"
      /\ UNCHANGED <<clusterVars, faults, call, log, pos>>
  BY DEF ReadIntent
<1>2. /\ LogTyped
      /\ w \in View /\ pos \in [Pods -> [Kinds -> 0..rv]]
  BY ReadInvParts DEF LogInv, VersionsName, ObjectsTyped, ReadInv, ReadTypeOK
<1>3. PICK r \in 1..rv : i = log[r].intent
  <2>1. w.pod \in Pods
    BY <1>2 DEF View
  <2>2. rv \in Nat /\ pos[w.pod].intent \in 0..rv
    BY <1>2, <2>1, ReadInvParts DEF Kinds, LogInv, ObjectsTyped
  <2>3. pos[w.pod].intent # 0
    BY <1>1 DEF ReadInv, IntentCacheFilled
  <2> QED
    BY <2>2, <2>3 DEF CachedIntent
<1>4. i \in Intent
  BY <1>2, <1>3 DEF LogTyped
<1>5. i.uid # 0 => i.rv # 0
  BY <1>3, ReadInvParts DEF LogInv, VersionsName
<1> HIDE DEF i
<1>6. sh \in Shown
  <2>1. i.rv \in Nat /\ i.replicas \in Counts /\ i.status.reason \in Reasons \cup {"none"}
    BY <1>4 DEF Intent, ReconcileStatus
  <2>2. Phase(i.status.reason) \in {"none", "Ready", "Blocked", "Reconciling"}
    BY <2>1, PhaseTyped
  <2> QED
    BY <2>1, <2>2, NothingTyped DEF Decoration, Shown
<1>7. sh.version # 0 =>
         /\ i.uid # 0 /\ i.depUID = w.dep.uid /\ i.rv = sh.version
         /\ i.replicas = sh.replicas /\ Phase(i.status.reason) = sh.phase
  BY <1>5, NothingTyped DEF Decoration
<1>8. /\ Level = 5 /\ w.result = "OK" /\ w.dep.uid # 0
      /\ \E q \in 1..rv : log[q].dep = w.dep
  BY <1>1 DEF ReadInv, ReadsHold, IsHeld
<1> HIDE DEF sh
<1>9. /\ v \in View /\ v.pc = "read" /\ v.shown = sh /\ v.dep = w.dep
      /\ v.result = w.result
  BY <1>2, <1>6 DEF View
<1> HIDE DEF v, w
<1>10. WasTrue(v)
  BY <1>3, <1>7, <1>8, <1>9 DEF WasTrue
<1>11. IsHeld(v)
  BY <1>8, <1>9 DEF IsHeld
<1>12. view[c].pc # "sent"
  BY <1>1 DEF w
<1> QED
  BY <1>1, <1>9, <1>10, <1>11, <1>12, ViewReplaced

(* The Set that follows expects what was shown. *)
LEMMA SendSetKept ==
    ASSUME ReadInv, NEW c \in Calls, SendSet(c)
    PROVE  ReadInv'
<1> DEFINE w == view[c]
           v == [view[c] EXCEPT !.pc = "sent"]
<1>1. PICK n \in Counts :
         call' = [call EXCEPT ![c] = [IdleCall EXCEPT !.pc = "GetTarget", !.n = n,
                                            !.expected = ExpectedVersion(view[c])]]
  BY DEF SendSet
<1> DEFINE k == [IdleCall EXCEPT !.pc = "GetTarget", !.n = n,
                                 !.expected = ExpectedVersion(view[c])]
<1>2. /\ view' = [view EXCEPT ![c] = v] /\ w.pc = "read" /\ w.result = "OK"
      /\ UNCHANGED <<clusterVars, faults, log, pos>>
  BY DEF SendSet
<1>3. w \in View /\ WasTrue(w) /\ IsHeld(w)
  BY DEF ReadInv, ReadTypeOK, AnswersWereTrue, ReadsHold
<1>4. ExpectedVersion(w) \in Nat
  BY <1>3 DEF ExpectedVersion, View, Shown, Deployment
<1>5. n \in Requests /\ "GetTarget" \in CallSteps
  BY MaxReplicasAssumption DEF Counts, Requests, CallSteps
<1>6. \A e \in Nat : [IdleCall EXCEPT !.pc = "GetTarget", !.n = n, !.expected = e] \in Call
  BY <1>5, NothingTyped DEF Call
<1>7. k \in Call
  BY <1>4, <1>6
<1>8. k.pc = "GetTarget" /\ k.expected = ExpectedVersion(w) /\ k.n = n
  BY DEF IdleCall
<1>9. /\ v \in View /\ v.pc = "sent" /\ v.result = w.result
      /\ v.dep = w.dep /\ v.shown = w.shown
  BY <1>3 DEF View
<1>10. call' = [call EXCEPT ![c] = k]
  BY <1>1
<1> HIDE DEF k, v, w
<1>11. WasTrue(v)
  BY <1>2, <1>3, <1>9 DEF WasTrue
<1>12. IsHeld(v)
  BY <1>2, <1>3, <1>9 DEF IsHeld
<1>13. Follows(k, v)
  BY <1>8, <1>9 DEF Follows, ExpectedVersion
<1> QED
  BY <1>2, <1>7, <1>9, <1>10, <1>11, <1>12, <1>13, ViewChanges

(* A refused caller forgets what he held. *)
LEMMA ReadAgainKept ==
    ASSUME ReadInv, NEW c \in Calls, ReadAgain(c)
    PROVE  ReadInv'
<1> DEFINE v == [view[c] EXCEPT !.pc = "idle", !.result = "OK",
                                !.dep = NoDeployment, !.shown = NothingShown]
<1>1. /\ view' = [view EXCEPT ![c] = v] /\ call' = [call EXCEPT ![c] = IdleCall]
      /\ UNCHANGED <<clusterVars, faults, log, pos>>
  BY DEF ReadAgain
<1>2. view[c] \in View
  BY DEF ReadInv, ReadTypeOK
<1>3. v \in View /\ v.pc = "idle"
  BY <1>2, NothingTyped DEF View, Codes
<1> HIDE DEF v
<1>4. WasTrue(v) /\ IsHeld(v)
  BY <1>3 DEF WasTrue, IsHeld
<1>5. IdleCall \in Call /\ Follows(IdleCall, v)
  BY NothingTyped DEF Follows, CallSteps
<1> QED
  BY <1>1, <1>3, <1>4, <1>5, ViewChanges

(* A satisfied caller stops. *)
LEMMA FinishKept ==
    ASSUME ReadInv, NEW c \in Calls, Finish(c)
    PROVE  ReadInv'
<1> DEFINE v == [view[c] EXCEPT !.pc = "finished"]
<1>1. /\ view' = [view EXCEPT ![c] = v] /\ call[c].pc = "done"
      /\ UNCHANGED <<clusterVars, faults, call, log, pos>>
  BY DEF Finish
<1>2. view[c] \in View
  BY DEF ReadInv, ReadTypeOK
<1>3. v \in View /\ v.pc = "finished"
  BY <1>2 DEF View
<1> HIDE DEF v
<1>4. WasTrue(v) /\ IsHeld(v)
  BY <1>3 DEF WasTrue, IsHeld
<1> QED
  BY <1>1, <1>3, <1>4, ViewReplaced

(* A cache catches up. *)
LEMMA AdvanceKept ==
    ASSUME ReadInv, NEW p \in Pods, NEW k \in Kinds, Advance(p, k)
    PROVE  ReadInv'
<1>1. PICK r \in (pos[p][k] + 1)..(IF k = "hpa" THEN 1 ELSE rv) :
         pos' = [pos EXCEPT ![p][k] = r]
  BY DEF Advance
<1>2. UNCHANGED <<rv, dep, intent, hpa, faults, call, log, view>>
  BY DEF Advance, clusterVars
<1>3. /\ rv \in Nat /\ rv >= 1 /\ pos \in [Pods -> [Kinds -> 0..rv]]
  BY DEF ReadInv, ReadTypeOK, ClusterTypeOK, VersionsName
<1>4. r \in 0..rv
  <2>1. pos[p][k] \in 0..rv
    BY <1>3
  <2> QED
    BY <1>3, <2>1
<1>5. pos' \in [Pods -> [Kinds -> 0..rv]]
  BY <1>1, <1>3, <1>4
<1>6. IntentCacheFilled'
  <2>1. r # 0
    <3>1. pos[p][k] \in 0..rv
      BY <1>3
    <3> QED
      BY <1>1, <1>3, <3>1
  <2>2. \A q \in Pods, j \in Kinds : pos[q][j] # 0 => pos'[q][j] # 0
    BY <1>1, <1>3, <2>1
  <2>3. \A c \in Calls : view[c].pod \in Pods
    BY DEF ReadInv, ReadTypeOK, View
  <2> QED
    BY <1>2, <2>2, <2>3 DEF ReadInv, IntentCacheFilled, Kinds
<1> QED
  BY <1>2, <1>5, <1>6
     DEF ReadInv, ReadTypeOK, ClusterTypeOK, CallTypeOK, AnswersWereTrue, WasTrue,
         VersionsName, Stored, ReadsHold, IsHeld, SetsFollowReads, Follows,
         ExpectedVersion

(* A Pod is replaced: its caches are empty, and who was reading there has  *)
(* to read again.                                                          *)
LEMMA PodRestartsKept ==
    ASSUME ReadInv, NEW p \in Pods, PodRestarts(p)
    PROVE  ReadInv'
<1>1. /\ pos' = [pos EXCEPT ![p] = [k \in Kinds |-> 0]]
      /\ view' = [c \in Calls |->
                    IF view[c].pc = "decorate" /\ view[c].pod = p
                    THEN [view[c] EXCEPT !.pc = "idle", !.dep = NoDeployment]
                    ELSE view[c]]
      /\ faults' = faults + 1
      /\ UNCHANGED <<rv, dep, intent, hpa, call, log>>
  BY DEF PodRestarts, clusterVars
<1>2. /\ rv \in Nat /\ faults \in Nat /\ pos \in [Pods -> [Kinds -> 0..rv]]
      /\ view \in [Calls -> View]
  BY DEF ReadInv, ReadTypeOK, ClusterTypeOK
<1>3. pos' \in [Pods -> [Kinds -> 0..rv']] /\ faults' \in Nat
  <2> DEFINE empty == [k \in Kinds |-> 0]
  <2>1. empty \in [Kinds -> 0..rv]
    BY <1>2
  <2>2. pos' = [pos EXCEPT ![p] = empty] /\ faults' = faults + 1
    BY <1>1
  <2> HIDE DEF empty
  <2>3. \A S : pos \in [Pods -> S] /\ empty \in S => pos' \in [Pods -> S]
    BY <2>2
  <2>4. pos' \in [Pods -> [Kinds -> 0..rv]]
    BY <1>2, <2>1, <2>3
  <2>5. faults' \in Nat
    BY <1>2, <2>2
  <2>6. rv' = rv
    BY <1>1
  <2> QED
    BY <2>4, <2>5, <2>6
<1>4. ASSUME NEW c \in Calls
      PROVE  /\ view'[c] \in View
             /\ WasTrue(view'[c]) /\ IsHeld(view'[c])
             /\ Follows(call[c], view'[c])
  <2>1. /\ view[c] \in View /\ WasTrue(view[c]) /\ IsHeld(view[c])
        /\ Follows(call[c], view[c])
    BY DEF ReadInv, ReadTypeOK, AnswersWereTrue, ReadsHold, SetsFollowReads
  <2>2. CASE view[c].pc = "decorate" /\ view[c].pod = p
    <3> DEFINE v == [view[c] EXCEPT !.pc = "idle", !.dep = NoDeployment]
    <3>1. view'[c] = v /\ v \in View /\ v.pc = "idle"
      BY <1>1, <2>1, <2>2, NothingTyped DEF View
    <3> HIDE DEF v
    <3>2. call[c].pc \notin CallSteps
      BY <2>1, <2>2 DEF Follows
    <3> QED
      BY <3>1, <3>2 DEF WasTrue, IsHeld, Follows
  <2>3. CASE ~(view[c].pc = "decorate" /\ view[c].pod = p)
    BY <1>1, <2>1, <2>3
  <2> QED
    BY <2>2, <2>3
<1>5. view' \in [Calls -> View]
  <2>1. \E f : view' = [c \in Calls |-> f[c]]
    <3> DEFINE f == [c \in Calls |->
                       IF view[c].pc = "decorate" /\ view[c].pod = p
                       THEN [view[c] EXCEPT !.pc = "idle", !.dep = NoDeployment]
                       ELSE view[c]]
    <3>1. f = [c \in Calls |-> f[c]]
      OBVIOUS
    <3> QED
      BY <1>1, <3>1
  <2> QED
    BY <1>4, <2>1
<1>6. AnswersWereTrue' /\ ReadsHold' /\ SetsFollowReads'
  <2>1. UNCHANGED <<rv, call, log>>
    BY <1>1
  <2>2. AnswersWereTrue'
    BY <1>4, <2>1 DEF AnswersWereTrue, WasTrue
  <2>3. ReadsHold'
    BY <1>4, <2>1 DEF ReadsHold, IsHeld
  <2>4. SetsFollowReads'
    BY <1>4, <2>1 DEF SetsFollowReads, Follows, ExpectedVersion
  <2> QED
    BY <2>2, <2>3, <2>4
<1>7. VersionsName'
  BY <1>1 DEF ReadInv, VersionsName, Stored
<1>8. IntentCacheFilled'
  <2> SUFFICES ASSUME NEW c \in Calls, view'[c].pc = "decorate"
               PROVE  pos'[view'[c].pod].intent # 0
    BY DEF IntentCacheFilled
  <2>1. /\ view[c] \in View /\ pos'[view[c].pod] = pos[view[c].pod]
        /\ view'[c] = view[c] /\ view[c].pc = "decorate"
    <3>1. CASE view[c].pc = "decorate" /\ view[c].pod = p
      <4>1. view'[c].pc = "idle"
        BY <1>1, <1>2, <3>1 DEF View
      <4> QED
        BY <4>1
    <3>2. CASE ~(view[c].pc = "decorate" /\ view[c].pod = p)
      <4>1. view'[c] = view[c]
        BY <1>1, <3>2
      <4>2. view[c].pod \in Pods /\ view[c].pod # p
        BY <1>2, <3>2, <4>1 DEF View
      <4>3. \A q \in Pods \ {p} : pos'[q] = pos[q]
        BY <1>1, <1>2
      <4> QED
        BY <1>2, <4>1, <4>2, <4>3
    <3> QED
      BY <3>1, <3>2
  <2> QED
    BY <2>1 DEF ReadInv, IntentCacheFilled
<1> QED
  BY <1>1, <1>3, <1>5, <1>6, <1>7, <1>8
     DEF ReadInv, ReadTypeOK, ClusterTypeOK, CallTypeOK

-----------------------------------------------------------------------------
(* The theorems. *)

(* The invariant holds initially. *)
LEMMA ReadInitInv == ReadInit => ReadInv
<1> SUFFICES ASSUME ReadInit PROVE ReadInv
  OBVIOUS
<1>1. /\ rv = 2 /\ hpa = FALSE /\ faults = 0
      /\ call = [c \in Calls |-> IdleCall]
      /\ log = [r \in 1..2 |-> IF r = 1 THEN [dep |-> dep, intent |-> NoIntent] ELSE Stored]
      /\ pos = [p \in Pods |-> [k \in Kinds |-> 0]]
      /\ view \in [Calls -> [pc : {"idle"}, pod : Pods, result : {"OK"},
                             dep : {NoDeployment}, shown : {NothingShown}]]
  BY DEF ReadInit, ClusterInit, CallInit
<1>2. dep \in Deployment /\ dep.rv = 1
  <2>1. PICK n \in Counts :
           dep = [NoDeployment EXCEPT !.uid = 1, !.rv = 1, !.gen = 1, !.replicas = n]
    BY DEF ReadInit, ClusterInit
  <2> QED
    BY <2>1, NothingTyped DEF Deployment
<1>3. intent \in Intent /\ (intent = NoIntent \/ intent.rv = 2)
  <2>1. CASE intent = NoIntent
    BY <2>1, NothingTyped
  <2>2. CASE \E n \in Counts :
               intent = [NoIntent EXCEPT !.uid = 2, !.rv = 2, !.gen = 1,
                                         !.depUID = 1, !.replicas = n]
    <3>1. PICK n \in Counts :
             intent = [NoIntent EXCEPT !.uid = 2, !.rv = 2, !.gen = 1,
                                       !.depUID = 1, !.replicas = n]
      BY <2>2
    <3>2. NoIntent \in Intent
      BY NothingTyped
    <3>3. intent \in Intent
      BY <3>1, <3>2 DEF Intent
    <3>4. intent.rv = 2
      BY <3>1, <3>2 DEF Intent
    <3> QED
      BY <3>3, <3>4
  <2> QED
    BY <2>1, <2>2 DEF ReadInit, ClusterInit
<1>4. 1..2 = {1, 2} /\ 1..1 = {1} /\ 0 \in 0..2
  OBVIOUS
<1>5. log[1] = [dep |-> dep, intent |-> NoIntent] /\ log[2] = [dep |-> dep, intent |-> intent]
  BY <1>1, <1>4 DEF Stored
<1>6. LogTyped
  BY <1>1, <1>2, <1>3, NothingTyped DEF LogTyped, Stored
<1>7. VersionsName
  <2>1. rv >= 1 /\ log[rv] = Stored
    BY <1>1, <1>5 DEF Stored
  <2>2. \A r \in {1, 2} : log[r].dep = dep /\ dep.rv \in 1..r /\ log[dep.rv].dep = dep
    BY <1>2, <1>5
  <2>3. \A r \in {1, 2} :
           log[r].intent.uid # 0 =>
              /\ log[r].intent.rv \in 1..r
              /\ log[log[r].intent.rv].intent = log[r].intent
    <3>1. log[1].intent.uid = 0
      BY <1>5, NothingTyped
    <3>2. log[2].intent.uid # 0 => log[2].intent = intent /\ intent.rv = 2
      BY <1>3, <1>5, NothingTyped
    <3> QED
      BY <1>4, <3>1, <3>2
  <2> QED
    BY <1>1, <1>4, <2>1, <2>2, <2>3 DEF VersionsName
<1>8. CallTypeOK
  BY <1>1, NothingTyped DEF CallTypeOK
<1>9. pos \in [Pods -> [Kinds -> 0..rv]]
  BY <1>1, <1>4
<1>10. view \in [Calls -> View] /\ \A c \in Calls : view[c].pc = "idle"
  <2>1. [pc : {"idle"}, pod : Pods, result : {"OK"}, dep : {NoDeployment},
         shown : {NothingShown}] \subseteq View
    BY NothingTyped DEF View, Codes
  <2> QED
    BY <1>1, <2>1
<1>11. AnswersWereTrue /\ ReadsHold /\ IntentCacheFilled
  BY <1>10 DEF AnswersWereTrue, WasTrue, ReadsHold, IsHeld, IntentCacheFilled
<1>12. SetsFollowReads
  BY <1>1, NothingTyped DEF SetsFollowReads, Follows, CallSteps
<1> QED
  BY <1>1, <1>2, <1>3, <1>6, <1>7, <1>8, <1>9, <1>10, <1>11, <1>12
     DEF ReadInv, ReadTypeOK, ClusterTypeOK, LogTyped

(* Every step keeps it. *)
LEMMA ReadNextInv == ReadInv /\ [ReadNext]_readVars => ReadInv'
<1> SUFFICES ASSUME ReadInv, [ReadNext]_readVars PROVE ReadInv'
  OBVIOUS
<1>1. CASE ClusterMoves
  BY <1>1, ClusterMovesKept
<1>2. ASSUME NEW p \in Pods, PodRestarts(p) \/ \E k \in Kinds : Advance(p, k)
      PROVE  ReadInv'
  BY <1>2, PodRestartsKept, AdvanceKept
<1>3. ASSUME NEW c \in Calls, CallMoves(c) PROVE ReadInv'
  BY <1>3, CallMovesKept
<1>4. ASSUME NEW c \in Calls, CallerMoves(c) PROVE ReadInv'
  BY <1>4, ReadDeploymentKept, ReadIntentKept, SendSetKept, ReadAgainKept, FinishKept
     DEF CallerMoves
<1>5. CASE UNCHANGED readVars
  BY <1>5
     DEF readVars, ReadInv, ReadTypeOK, ClusterTypeOK, CallTypeOK, AnswersWereTrue,
         WasTrue, VersionsName, Stored, ReadsHold, IsHeld, IntentCacheFilled,
         SetsFollowReads, Follows, ExpectedVersion
<1> QED
  BY <1>1, <1>2, <1>3, <1>4, <1>5 DEF ReadNext

(* Whatever the caches lag behind, and whenever a Pod restarts, an answer  *)
(* of Get is true of one moment of each object it shows, and "not found"   *)
(* or "no intent" is never an empty cache (backend.go, Get and             *)
(* decorateIntent).                                                        *)
THEOREM ReadsWereTrue == ReadSpec => []ReadInv
<1> QED
  BY ReadInitInv, ReadNextInv, PTL DEF ReadSpec

(* A Set that expects a version succeeds only on the object its caller was *)
(* shown: in that Deployment instance, replacing that count.               *)
LEMMA NothingUnseenStep ==
    ASSUME ReadInv, [ReadNext]_readVars, NEW c \in Calls,
           call[c].pc \in CallSteps, call'[c].pc = "done", call'[c].result = "OK",
           call[c].expected # 0
    PROVE  /\ call[c].depUID = view[c].dep.uid
           /\ IF Level = 5 THEN intent.replicas = view[c].shown.replicas
                           ELSE dep.replicas = view[c].dep.replicas
<1>1. CallReady(c)
  BY ReadInvParts DEF CallReady, ReadInv, SetsFollowReads
<1>2. call \in [Calls -> Call]
  BY DEF CallReady, CallTypeOK, ReadInv, ReadTypeOK
<1>3. call'[c] # call[c] /\ call[c].pc # "done" /\ call[c].pc # "idle"
  BY DEF CallSteps
<1>4. view[c].pc = "sent"
  BY <1>1 DEF CallReady, Follows
<1>5. CallMoves(c)
  <2>1. call' # call
    BY <1>3
  <2>2. PICK o \in Calls : CallMoves(o) \/ SendSet(o) \/ ReadAgain(o)
    BY <2>1 DEF ReadNext, readVars, ClusterMoves, PodRestarts, Advance, CallerMoves,
                ReadDeployment, ReadIntent, Finish
  <2>3. CASE SendSet(o) \/ ReadAgain(o)
    <3>1. PICK k : call' = [call EXCEPT ![o] = k] /\ k.pc \in {"GetTarget", "idle"}
      <4>1. CASE SendSet(o)
        <5>1. PICK n \in Counts :
                 call' = [call EXCEPT ![o] = [IdleCall EXCEPT
                             !.pc = "GetTarget", !.n = n,
                             !.expected = ExpectedVersion(view[o])]]
          BY <4>1 DEF SendSet
        <5>2. [IdleCall EXCEPT !.pc = "GetTarget", !.n = n,
                               !.expected = ExpectedVersion(view[o])].pc = "GetTarget"
          BY DEF IdleCall
        <5> QED
          BY <5>1, <5>2
      <4>2. CASE ReadAgain(o)
        BY <4>2, NothingTyped DEF ReadAgain
      <4> QED
        BY <2>3, <4>1, <4>2
    <3> QED
      BY <1>2, <1>3, <3>1
  <2>4. CASE CallMoves(o)
    <3>1. CallReady(o)
      BY ReadInvParts DEF CallReady, ReadInv, SetsFollowReads
    <3>2. CallKept(o)
      BY <2>4, <3>1, ChecksKept, ScaleLoopKept, IntentLoopKept, FaultKept
         DEF CallMoves, CallStep
    <3>3. o = c
      BY <1>3, <3>2 DEF CallKept
    <3> QED
      BY <2>4, <3>3
  <2> QED
    BY <2>2, <2>3, <2>4
<1>6. \A r \in Codes, v \in Nat : Answer(c, r, v) => call'[c].result = r
  BY <1>2 DEF Answer, IdleCall
<1>7. \A r \in Codes : Fail(c, r) => call'[c].result = r
  BY <1>6 DEF Fail
<1>8. \A pc : Goto(c, pc) => call'[c].pc = pc
  BY <1>2 DEF Goto, Call
<1>9. \A first : Retry(c, first) => call'[c].pc = first \/ call'[c].result = "Conflict"
  BY <1>2, <1>7 DEF Retry, Codes, Call
<1>10. CASE CallUpdateScale(c)
  <2>1. dep.uid # 0 /\ dep.rv = call[c].seen
    BY <1>7, <1>9, <1>10 DEF CallUpdateScale, Codes
  <2>2. Level # 5 /\ call[c].seen = call[c].expected /\ call[c].depUID = view[c].dep.uid
    BY <1>1, <1>10 DEF CallReady, Follows, CallUpdateScale
  <2> QED
    BY <1>1, <2>1, <2>2, ExpectedWasRead
<1>11. CASE CallUpdateIntent(c)
  <2>1. intent.uid # 0 /\ intent.rv = call[c].seen
    BY <1>7, <1>9, <1>11 DEF CallUpdateIntent, Codes
  <2>2. Level = 5 /\ call[c].seen = call[c].expected /\ call[c].depUID = view[c].dep.uid
    BY <1>1, <1>11 DEF CallReady, Follows, CallUpdateIntent
  <2> QED
    BY <1>1, <2>1, <2>2, ExpectedWasRead
<1>12. CASE CallGetIntent(c)
  <2>1. Level = 5
    BY <1>1, <1>12 DEF CallReady, Follows, CallGetIntent
  <2>2. /\ intent.uid # 0 /\ intent.depUID = call[c].depUID
        /\ intent.rv = call[c].expected
    <3>1. call' = [call EXCEPT ![c].pc = "UpdateIntent", ![c].seen = intent.rv]
          => call'[c].pc = "UpdateIntent"
      BY <1>2 DEF Call
    <3> QED
      BY <1>7, <1>8, <1>12, <3>1 DEF CallGetIntent, Codes
  <2> QED
    BY <1>1, <2>1, <2>2, ExpectedWasRead
<1>13. CASE CallCreateIntent(c)
  BY <1>1, <1>13 DEF CallReady, Follows, CallCreateIntent
<1>14. CASE CallGetTarget(c) \/ CallHasHPA(c)
  <2>1. call' = [call EXCEPT ![c].pc = "HasHPA", ![c].depUID = dep.uid]
        => call'[c].pc = "HasHPA"
    BY <1>2 DEF Call
  <2> QED
    BY <1>7, <1>8, <1>14, <2>1 DEF CallGetTarget, CallHasHPA, Codes
<1>15. CASE CallGetScale(c)
  <2>1. call' = [call EXCEPT ![c].pc = "UpdateScale", ![c].seen = dep.rv]
        => call'[c].pc = "UpdateScale"
    BY <1>2 DEF Call
  <2> QED
    BY <1>7, <1>15, <2>1 DEF CallGetScale, Codes
<1>16. CASE CallRequestFails(c) \/ CallResponseLost(c)
  BY <1>7, <1>16 DEF CallRequestFails, CallResponseLost, Codes
<1> QED
  BY <1>5, <1>10, <1>11, <1>12, <1>13, <1>14, <1>15, <1>16 DEF CallMoves, CallStep

(* The expected version is a promise across processes: read from one Pod's *)
(* cache, checked by another's Set against the API server, in between any  *)
(* number of writes (backend.go, Set and setIntent).                       *)
THEOREM UnseenKept == ReadSpec => NothingUnseenReplaced
<1>1. ReadInv /\ [ReadNext]_readVars =>
        [\A c \in Calls :
            LET v == view[c]
            IN  call[c].pc \in CallSteps /\ call'[c].pc = "done" /\ call'[c].result = "OK"
                /\ call[c].expected # 0 =>
                   /\ call[c].depUID = v.dep.uid
                   /\ IF Level = 5 THEN intent.replicas = v.shown.replicas
                                   ELSE dep.replicas = v.dep.replicas]_readVars
  BY NothingUnseenStep
<1> QED
  BY <1>1, ReadsWereTrue, PTL DEF ReadSpec, NothingUnseenReplaced

=============================================================================
