----------------------------- MODULE RaceProofs -----------------------------
(***************************************************************************)
(* Proofs about calls and passes that overlap, for every set of them.      *)
(*                                                                         *)
(* SetReplicas is atomic: ReplicaControl implements SetRegister.  A call   *)
(* takes effect in the one request that the API server accepts, or in the  *)
(* read that finds the count already there.  At that instant the version   *)
(* is the expected one (CallInv), the register belongs to the Deployment   *)
(* that the call addressed, and an intent at the version that was read     *)
(* still has the other count that made the call write it.  Every other     *)
(* step of the call is invisible to its caller, and every step of anybody  *)
(* else is a write under a version never used before.                      *)
(*                                                                         *)
(* An HPA is respected (HPARace): the history variable is empty unless the *)
(* HPA is there, so a warned call or pass that reaches the HasHPA check    *)
(* finds the HPA; and every way to the writes leads through the check.     *)
(***************************************************************************)
EXTENDS HPARace, ReplicaControlProofs

-----------------------------------------------------------------------------
(* The second inductive invariant. *)

(* What is not there has no content. *)
GoneIsEmpty ==
    /\ dep.uid = 0 => dep = NoDeployment
    /\ intent.uid = 0 => intent = NoIntent

(* A call that got past GetTarget knows a Deployment, and one that is about*)
(* to update an intent does so for a reason.                               *)
CallHasReason(c) ==
    /\ call[c].pc \in CallSteps \ {"GetTarget"} => call[c].depUID # 0
    /\ call[c].pc = "UpdateIntent" /\ intent.uid # 0 /\ intent.rv = call[c].seen =>
          intent.replicas # call[c].n

RegisterInv == GoneIsEmpty /\ \A c \in Calls : CallHasReason(c)

(* Nothing exists under uid 0 when the system starts. *)
LEMMA InitRegister == Init => RegisterInv
<1> SUFFICES ASSUME Init PROVE RegisterInv
  OBVIOUS
<1>1. dep.uid = 1 /\ (intent = NoIntent \/ intent.uid = 2)
  BY DEF Init, ClusterInit, NoDeployment, NoIntent
<1>2. \A c \in Calls : call[c] = IdleCall
  BY DEF Init, CallInit
<1>3. \A c \in Calls : CallHasReason(c)
  BY <1>2 DEF CallHasReason, IdleCall, CallSteps
<1> QED
  BY <1>1, <1>3 DEF RegisterInv, GoneIsEmpty

-----------------------------------------------------------------------------
(* How the objects change. *)

(* Every write is stamped with the next revision, and a deletion leaves    *)
(* nothing behind.                                                         *)
Stamped ==
    \/ UNCHANGED <<rv, dep, intent>>
    \/ /\ rv' = rv + 1
       /\ \/ dep' = dep \/ dep' = NoDeployment
          \/ dep'.rv = rv' /\ dep'.uid # 0
       /\ \/ intent' = intent \/ intent' = NoIntent
          \/ intent'.rv = rv' /\ intent'.uid # 0

(* A write of a Deployment or of an intent that exists. *)
LEMMA StoreStamps ==
    /\ \A d \in Deployment : d.uid # 0 /\ StoreDeployment(d) => Stamped
    /\ \A i \in Intent : i.uid # 0 /\ StoreIntent(i) => Stamped
<1>1. ASSUME NEW d \in Deployment, d.uid # 0, StoreDeployment(d)
      PROVE  Stamped
  <2>1. dep'.rv = rv + 1 /\ dep'.uid = d.uid
    BY <1>1 DEF StoreDeployment, Deployment
  <2> QED
    BY <1>1, <2>1 DEF StoreDeployment, Stamped
<1>2. ASSUME NEW i \in Intent, i.uid # 0, StoreIntent(i)
      PROVE  Stamped
  <2>1. intent'.rv = rv + 1 /\ intent'.uid = i.uid
    BY <1>2 DEF StoreIntent, Intent
  <2> QED
    BY <1>2, <2>1 DEF StoreIntent, Stamped
<1> QED
  BY <1>1, <1>2

(* The writes of the scale subresource and of an intent's count. *)
LEMMA CountStamps ==
    ASSUME ClusterInv, NEW n \in Counts
    PROVE  /\ dep.uid # 0 /\ StoreScale(n) => Stamped
           /\ intent.uid # 0 /\ StoreIntent(WithReplicas(intent, n)) => Stamped
           /\ \A uid \in Nat : StoreIntent(NewIntent(uid, n)) => Stamped
<1>1. dep \in Deployment /\ intent \in Intent /\ rv \in Nat
  BY DEF ClusterInv, ClusterTypeOK
<1>2. ASSUME dep.uid # 0, StoreScale(n), dep.replicas # n
      PROVE  Stamped
  <2> DEFINE d == [dep EXCEPT !.replicas = n, !.gen = dep.gen + 1]
  <2>1. d \in Deployment /\ d.uid # 0
    <3>1. \A g \in Nat : /\ [dep EXCEPT !.replicas = n, !.gen = g] \in Deployment
                         /\ [dep EXCEPT !.replicas = n, !.gen = g].uid = dep.uid
      BY <1>1 DEF Deployment
    <3> QED
      BY <1>1, <1>2, <3>1, NextGeneration
  <2>2. StoreDeployment(d)
    BY <1>2 DEF StoreScale
  <2> QED
    BY <2>1, <2>2, StoreStamps
<1>3. ASSUME StoreScale(n), dep.replicas = n
      PROVE  Stamped
  BY <1>3 DEF StoreScale, Stamped, clusterVars
<1>4. ASSUME intent.uid # 0, StoreIntent(WithReplicas(intent, n))
      PROVE  Stamped
  <2>1. WithReplicas(intent, n) \in Intent /\ WithReplicas(intent, n).uid # 0
    BY <1>1, <1>4, WithReplicasTyped DEF WithReplicas, Intent
  <2> QED
    BY <1>4, <2>1, StoreStamps
<1>5. ASSUME NEW uid \in Nat, StoreIntent(NewIntent(uid, n))
      PROVE  Stamped
  <2>1. NewIntent(uid, n) \in Intent
    BY <1>1, NewIntentTyped
  <2>2. NewIntent(uid, n).uid = rv + 1 /\ rv + 1 # 0
    BY <1>1 DEF NewIntent, NoIntent
  <2> QED
    BY <1>5, <2>1, <2>2, StoreStamps
<1> QED
  BY <1>2, <1>3, <1>4, <1>5

(* Whatever other users and Kubernetes do is stamped. *)
LEMMA OthersStamp ==
    ASSUME ClusterInv, Users \/ Kubernetes
    PROVE  Stamped
<1>0. rv \in Nat /\ dep \in Deployment /\ intent \in Intent
  BY DEF ClusterInv, ClusterTypeOK
<1>1. CASE DeployCreated
  <2>1. PICK n \in Counts, q \in BOOLEAN :
          StoreDeployment([NoDeployment EXCEPT !.uid = rv + 1, !.gen = 1,
                                               !.replicas = n, !.protected = q])
    BY <1>1 DEF DeployCreated
  <2>2. dep'.rv = rv + 1 /\ dep'.uid = rv + 1
    BY <2>1 DEF StoreDeployment, NoDeployment
  <2> QED
    BY <1>0, <2>1, <2>2 DEF StoreDeployment, Stamped
<1>2. CASE DeployDeleting
  <2>1. dep'.rv = rv + 1 /\ dep'.uid = dep.uid
    BY <1>0, <1>2 DEF DeployDeleting, StoreDeployment, Deployment
  <2> QED
    BY <1>2, <2>1 DEF DeployDeleting, StoreDeployment, Stamped
<1>3. CASE DeployRemoved \/ IntentRemoved \/ IntentCollected \/ HPAChanges
  BY <1>3 DEF DeployRemoved, IntentRemoved, IntentCollected, HPAChanges, Stamped
<1>4. CASE DeployDrifts
  BY <1>4, CountStamps DEF DeployDrifts
<1>5. CASE DeployProtected
  <2>1. dep'.rv = rv + 1 /\ dep'.uid = dep.uid
    BY <1>0, <1>5 DEF DeployProtected, StoreDeployment, Deployment
  <2> QED
    BY <1>5, <2>1 DEF DeployProtected, StoreDeployment, Stamped
<1>6. CASE PodsFail
  <2>1. dep'.rv = rv + 1 /\ dep'.uid = dep.uid
    BY <1>0, <1>6 DEF PodsFail, StoreDeployment, Deployment
  <2> QED
    BY <1>6, <2>1 DEF PodsFail, StoreDeployment, Stamped
<1>7. CASE IntentEdited
  BY <1>7, CountStamps DEF IntentEdited
<1>8. CASE IntentDeleting
  <2>1. intent'.rv = rv + 1 /\ intent'.uid = intent.uid
    BY <1>0, <1>8 DEF IntentDeleting, StoreIntent, Intent
  <2> QED
    BY <1>8, <2>1 DEF IntentDeleting, StoreIntent, Stamped
<1>9. CASE IntentAdded
  BY <1>0, <1>9, CountStamps DEF IntentAdded, Deployment
<1>10. CASE DeployObserved \/ DeployRolledOut
  <2>1. dep'.rv = rv + 1 /\ dep'.uid = dep.uid
    BY <1>0, <1>10 DEF DeployObserved, DeployRolledOut, StoreDeployment, Deployment
  <2> QED
    BY <1>10, <2>1 DEF DeployObserved, DeployRolledOut, StoreDeployment, Stamped
<1> QED
  BY <1>1, <1>2, <1>3, <1>4, <1>5, <1>6, <1>7, <1>8, <1>9, <1>10
     DEF Users, Kubernetes

(* So are the writes of a pass: its scale and its status. *)
LEMMA PassStamps ==
    ASSUME ClusterInv, NEW p \in Passes, PassTypeOK, PassInv(p), PassNext(p)
    PROVE  Stamped
<1>0. rv \in Nat /\ dep \in Deployment /\ intent \in Intent /\ pass[p] \in Pass
  BY DEF ClusterInv, ClusterTypeOK, PassTypeOK
<1>1. CASE UNCHANGED clusterVars
  BY <1>1 DEF clusterVars, Stamped
<1>2. CASE ScaleAccepted(p) /\ StoreScale(pass[p].intent.replicas)
  <2>1. pass[p].intent.replicas \in Counts
    BY <1>0 DEF Pass, Intent
  <2> QED
    BY <1>2, <2>1, CountStamps DEF ScaleAccepted
<1>3. CASE StatusAccepted(p) /\ StoreIntent([intent EXCEPT !.status = pass[p].st])
  <2>1. intent'.rv = rv + 1 /\ intent'.uid = intent.uid
    BY <1>0, <1>3 DEF StoreIntent, Intent
  <2> QED
    BY <1>3, <2>1 DEF StoreIntent, StatusAccepted, Stamped
<1> QED
  BY <1>1, <1>2, <1>3
     DEF PassNext, PassStep, PassGetIntent, PassGetTarget, PassHasHPA,
         PassGetFresh, PassGetScale, PassUpdateScale, PassGetStatus,
         PassUpdateStatus, PassFails, PassResponseLost

(* And those of a call. *)
LEMMA CallStamps ==
    ASSUME ClusterInv, NEW c \in Calls, CallTypeOK, CallInv(c), CallNext(c)
    PROVE  Stamped
<1>0. call[c] \in Call
  BY DEF CallTypeOK
<1>1. CASE UNCHANGED clusterVars
  BY <1>1 DEF clusterVars, Stamped
<1>2. CASE /\ call[c].pc = "UpdateScale" /\ dep.uid # 0
           /\ StoreScale(call[c].n)
  BY <1>2, CountStamps DEF CallInv, CallSteps
<1>3. CASE /\ call[c].pc = "CreateIntent"
           /\ StoreIntent(NewIntent(call[c].depUID, call[c].n))
  BY <1>0, <1>3, CountStamps DEF CallInv, CallSteps, Call
<1>4. CASE /\ call[c].pc = "UpdateIntent" /\ intent.uid # 0
           /\ StoreIntent(WithReplicas(intent, call[c].n))
  BY <1>4, CountStamps DEF CallInv, CallSteps
<1> QED
  BY <1>1, <1>2, <1>3, <1>4
     DEF CallNext, CallStep, StartSet, CallGetTarget, CallHasHPA, CallGetScale,
         CallUpdateScale, CallGetIntent, CallCreateIntent, CallUpdateIntent,
         CallRequestFails, CallResponseLost, Return

(* Nothing that is gone leaves content behind. *)
LEMMA GoneStaysEmpty ==
    ASSUME GoneIsEmpty, Stamped
    PROVE  GoneIsEmpty'
BY DEF GoneIsEmpty, Stamped, NoDeployment, NoIntent

-----------------------------------------------------------------------------
(* The reasons of the calls. *)

(* What another call remembers stays true: a new version of the intent is  *)
(* not the one it has seen.                                                *)
LEMMA ReasonStays ==
    ASSUME NEW c \in Calls, CallTypeOK, rv \in Nat, CallInv(c), CallHasReason(c),
           Stamped, call'[c] = call[c]
    PROVE  CallHasReason(c)'
<1>1. call[c].seen \in Nat /\ call[c].seen <= rv
  BY DEF CallTypeOK, Call, CallInv
<1>2. intent'.uid # 0 /\ intent'.rv = call[c].seen => intent' = intent
  BY <1>1 DEF Stamped, NoIntent
<1> QED
  BY <1>2 DEF CallHasReason

(* The acting call: GetTarget finds a Deployment, GetIntent another count. *)
LEMMA ReasonFound ==
    ASSUME NEW c \in Calls, CallTypeOK, CallHasReason(c), CallNext(c)
    PROVE  CallHasReason(c)'
<1>0. call[c] \in Call /\ call \in [Calls -> Call]
  BY DEF CallTypeOK
<1>1. \A r, v : Answer(c, r, v) => CallHasReason(c)'
  BY AnswerSays DEF CallHasReason, CallSteps
<1>2. \A r : Fail(c, r) => CallHasReason(c)'
  BY <1>1 DEF Fail
<1>3. ASSUME NEW pc \in {"GetScale", "GetIntent", "CreateIntent"}, Goto(c, pc),
             call[c].pc \in CallSteps \ {"GetTarget"}
      PROVE  CallHasReason(c)'
  BY <1>0, <1>3 DEF Goto, CallHasReason, Call
<1>4. ASSUME NEW pc \in {"GetScale", "GetIntent"}, Retry(c, pc),
             call[c].pc \in CallSteps \ {"GetTarget"}
      PROVE  CallHasReason(c)'
  BY <1>0, <1>2, <1>4 DEF Retry, CallHasReason, Call
<1>5. CASE StartSet(c)
  <2>1. ASSUME NEW n, NEW e,
               call' = [call EXCEPT ![c] = [IdleCall EXCEPT !.pc = "GetTarget",
                                                           !.n = n, !.expected = e]]
        PROVE  CallHasReason(c)'
    BY <1>0, <2>1 DEF IdleCall, CallHasReason
  <2> QED
    BY <1>2, <1>5, <2>1 DEF StartSet
<1>6. CASE CallGetTarget(c)
  <2>1. CASE /\ dep.uid # 0
             /\ call' = [call EXCEPT ![c].pc = "HasHPA", ![c].depUID = dep.uid]
    BY <1>0, <2>1 DEF Call, CallHasReason
  <2> QED
    BY <1>2, <1>6, <2>1 DEF CallGetTarget
<1>7. CASE CallHasHPA(c)
  BY <1>2, <1>3, <1>7 DEF CallHasHPA, CallSteps
<1>8. CASE CallGetScale(c)
  <2>1. CASE call' = [call EXCEPT ![c].pc = "UpdateScale", ![c].seen = dep.rv]
    BY <1>0, <1>8, <2>1 DEF CallGetScale, Call, CallHasReason, CallSteps
  <2> QED
    BY <1>2, <1>8, <2>1 DEF CallGetScale
<1>9. CASE CallUpdateScale(c)
  BY <1>1, <1>2, <1>4, <1>9 DEF CallUpdateScale, CallSteps
<1>10. CASE CallGetIntent(c)
  <2>1. CASE /\ intent.replicas # call[c].n
             /\ call' = [call EXCEPT ![c].pc = "UpdateIntent", ![c].seen = intent.rv]
    <3>1. intent' = intent /\ call[c].depUID # 0
      BY <1>10 DEF CallGetIntent, CallHasReason, CallSteps, clusterVars
    <3>2. call'[c].depUID = call[c].depUID /\ call'[c].n = call[c].n
          /\ call'[c].pc = "UpdateIntent"
      BY <1>0, <2>1 DEF Call
    <3> QED
      BY <2>1, <3>1, <3>2 DEF CallHasReason
  <2> QED
    BY <1>1, <1>2, <1>3, <1>10, <2>1 DEF CallGetIntent, CallSteps
<1>11. CASE CallCreateIntent(c)
  BY <1>1, <1>4, <1>11 DEF CallCreateIntent, CallSteps
<1>12. CASE CallUpdateIntent(c)
  BY <1>1, <1>2, <1>4, <1>12 DEF CallUpdateIntent, CallSteps
<1>13. CASE CallRequestFails(c) \/ CallResponseLost(c)
  BY <1>2, <1>13 DEF CallRequestFails, CallResponseLost
<1>14. CASE Return(c)
  BY <1>0, <1>14 DEF Return, IdleCall, CallHasReason, CallSteps
<1> QED
  BY <1>5, <1>6, <1>7, <1>8, <1>9, <1>10, <1>11, <1>12, <1>13, <1>14
     DEF CallNext, CallStep

-----------------------------------------------------------------------------
(* What the callers see. *)

(* The step of one call changes only what its own caller sees. *)
LEMMA ViewUpdate ==
    ASSUME NEW c \in Calls, \A d \in Calls \ {c} : call'[d] = call[d]
    PROVE  View' = [View EXCEPT ![c] = View'[c]]
<1>1. \A d \in Calls \ {c} : View'[d] = View[d]
  BY DEF View
<1> QED
  BY <1>1 DEF View

(* An answer of the handler is the answer of the register. *)
LEMMA ViewAnswer ==
    ASSUME CallTypeOK, NEW c \in Calls, NEW r, NEW v, Answer(c, r, v)
    PROVE  /\ Register!Answered(c, r, v)
           /\ View'[c].result = r
<1>1. call' = [call EXCEPT ![c] = [IdleCall EXCEPT !.pc = "done", !.result = r,
                                                   !.version = v]]
      /\ call \in [Calls -> Call]
  BY DEF Answer, CallTypeOK
<1>2. call'[c] = [IdleCall EXCEPT !.pc = "done", !.result = r, !.version = v]
      /\ \A d \in Calls \ {c} : call'[d] = call[d]
  BY <1>1
<1>3. /\ call'[c].pc = "done" /\ call'[c].n = 0 /\ call'[c].expected = 0
      /\ call'[c].result = r /\ call'[c].version = v
  BY <1>2 DEF IdleCall
<1>4. View'[c] = [st |-> "done", n |-> 0, expected |-> 0, result |-> r, version |-> v]
  BY <1>3 DEF View, CallSteps
<1>5. View'[c] = [Register!Idle EXCEPT !.st = "done", !.result = r, !.version = v]
  <2>1. ASSUME NEW I, I = [st |-> "idle", n |-> 0, expected |-> 0, result |-> "OK",
                           version |-> 0],
               NEW J, J = [I EXCEPT !.st = "done", !.result = r, !.version = v]
        PROVE  J = [st |-> "done", n |-> 0, expected |-> 0, result |-> r, version |-> v]
    BY <2>1
  <2>2. Register!Idle = [st |-> "idle", n |-> 0, expected |-> 0, result |-> "OK",
                         version |-> 0]
    BY DEF Register!Idle
  <2> QED
    BY <1>4, <2>1, <2>2, Zenon
<1>6. View' = [View EXCEPT ![c] = View'[c]]
  BY <1>2, ViewUpdate
<1> QED
  BY <1>4, <1>5, <1>6 DEF Register!Answered

(* A call that goes on to its next request looks as before. *)
LEMMA ViewStays ==
    ASSUME NEW c \in Calls, \A d \in Calls \ {c} : call'[d] = call[d],
           call[c].pc \in CallSteps, call'[c].pc \in CallSteps,
           call'[c].n = call[c].n, call'[c].expected = call[c].expected,
           call'[c].result = call[c].result, call'[c].version = call[c].version
    PROVE  View' = View
BY DEF View

-----------------------------------------------------------------------------
(* The instant at which a call takes effect. *)

CallFacts(c) ==
    /\ ClusterInv /\ CallTypeOK /\ GoneIsEmpty
    /\ CallInv(c) /\ CallHasReason(c)

(* The scale is written, or found, at the version that was read. *)
LEMMA ScaleTakesEffect ==
    ASSUME NEW c \in Calls, CallFacts(c), call[c].pc = "UpdateScale",
           dep.uid # 0, dep.rv = call[c].seen, StoreScale(call[c].n)
    PROVE  Register!Effect(c) /\ Target'.rv = dep'.rv
<1>1. /\ Level # 5 /\ call[c].n \in Counts /\ call[c].expected \in {0, dep.rv}
      /\ dep \in Deployment
  BY DEF CallFacts, CallInv, CallSteps, ClusterInv, ClusterTypeOK
<1>2. /\ View[c].st = "pending" /\ View[c].n = call[c].n
      /\ View[c].expected = call[c].expected
  BY DEF View, CallSteps
<1>3. /\ Target = [uid |-> dep.uid, rv |-> dep.rv, n |-> dep.replicas]
      /\ Target' = [uid |-> dep'.uid, rv |-> dep'.rv, n |-> dep'.replicas]
  BY <1>1 DEF Target
<1>4. CASE dep.replicas = call[c].n
  <2>1. UNCHANGED <<rv, Target>>
    BY <1>3, <1>4 DEF StoreScale, clusterVars
  <2> QED
    BY <1>1, <1>2, <1>3, <1>4, <2>1 DEF Register!Effect
<1>5. CASE dep.replicas # call[c].n
  <2>1. rv' = rv + 1 /\ dep'.uid = dep.uid /\ dep'.rv = rv' /\ dep'.replicas = call[c].n
    BY <1>1, <1>5 DEF StoreScale, StoreDeployment, Deployment
  <2> QED
    BY <1>1, <1>2, <1>3, <1>5, <2>1 DEF Register!Effect
<1> QED
  BY <1>4, <1>5

(* An intent is created where there was none. *)
LEMMA CreationTakesEffect ==
    ASSUME NEW c \in Calls, CallFacts(c), call[c].pc = "CreateIntent",
           intent.uid = 0, StoreIntent(NewIntent(call[c].depUID, call[c].n))
    PROVE  Register!Effect(c) /\ Target'.rv = rv + 1
<1>1. Level = 5 /\ call[c].expected = 0 /\ intent = NoIntent
  BY DEF CallFacts, CallInv, GoneIsEmpty
<1>2. /\ View[c].st = "pending" /\ View[c].n = call[c].n
      /\ View[c].expected = call[c].expected
  BY DEF View, CallSteps
<1>3. /\ Target = [uid |-> intent.depUID, rv |-> intent.rv, n |-> intent.replicas]
      /\ Target' = [uid |-> intent'.depUID, rv |-> intent'.rv, n |-> intent'.replicas]
  BY <1>1 DEF Target
<1>4. /\ rv' = rv + 1 /\ intent'.depUID = call[c].depUID /\ intent'.rv = rv'
      /\ intent'.replicas = call[c].n
  BY DEF StoreIntent, NewIntent, NoIntent
<1>5. Target.uid = 0
  BY <1>1, <1>3 DEF NoIntent
<1> QED
  BY <1>1, <1>2, <1>3, <1>4, <1>5 DEF Register!Effect

(* An intent is updated at the version that was read, which has another    *)
(* count.                                                                  *)
LEMMA UpdateTakesEffect ==
    ASSUME NEW c \in Calls, CallFacts(c), call[c].pc = "UpdateIntent",
           intent.uid # 0, intent.rv = call[c].seen,
           StoreIntent(WithReplicas(intent, call[c].n))
    PROVE  Register!Effect(c) /\ Target'.rv = rv + 1
<1>1. /\ Level = 5 /\ call[c].expected \in {0, intent.rv}
      /\ intent \in Intent /\ intent.replicas # call[c].n
  BY DEF CallFacts, CallInv, CallHasReason, ClusterInv, ClusterTypeOK
<1>2. /\ View[c].st = "pending" /\ View[c].n = call[c].n
      /\ View[c].expected = call[c].expected
  BY DEF View, CallSteps
<1>3. /\ Target = [uid |-> intent.depUID, rv |-> intent.rv, n |-> intent.replicas]
      /\ Target' = [uid |-> intent'.depUID, rv |-> intent'.rv, n |-> intent'.replicas]
  BY <1>1 DEF Target
<1>4. /\ rv' = rv + 1 /\ intent'.depUID = intent.depUID /\ intent'.rv = rv'
      /\ intent'.replicas = call[c].n
  BY <1>1 DEF StoreIntent, WithReplicas, Intent
<1> QED
  BY <1>1, <1>2, <1>3, <1>4 DEF Register!Effect

(* The intent has the count already. *)
LEMMA ReadTakesEffect ==
    ASSUME NEW c \in Calls, CallFacts(c), call[c].pc = "GetIntent",
           intent.uid # 0, intent.depUID = call[c].depUID,
           call[c].expected \in {0, intent.rv}, intent.replicas = call[c].n,
           UNCHANGED clusterVars
    PROVE  Register!Effect(c) /\ Target'.rv = intent.rv
<1>1. Level = 5 /\ call[c].depUID # 0
  BY DEF CallFacts, CallInv, CallHasReason, CallSteps
<1>2. /\ View[c].st = "pending" /\ View[c].n = call[c].n
      /\ View[c].expected = call[c].expected
  BY DEF View, CallSteps
<1>3. /\ Target = [uid |-> intent.depUID, rv |-> intent.rv, n |-> intent.replicas]
      /\ Target' = Target
  BY <1>1 DEF Target, clusterVars
<1> QED
  BY <1>1, <1>2, <1>3 DEF Register!Effect, clusterVars

-----------------------------------------------------------------------------
(* Every step is a step of the register, or invisible. *)

RegisterStep == Register!Next \/ UNCHANGED <<rv, Target, View>>

(* A refusal leaves the register alone. *)
LEMMA Refused ==
    ASSUME NEW c \in Calls, CallTypeOK, NEW r, r # "OK", Fail(c, r),
           call[c].pc \in CallSteps \cup {"idle"}, UNCHANGED clusterVars
    PROVE  RegisterStep
<1>1. Register!Answered(c, r, 0) /\ View'[c].result = r
  BY ViewAnswer DEF Fail
<1>2. View[c].st \in {"idle", "pending"}
  BY DEF View, CallSteps
<1>3. UNCHANGED <<rv, Target>>
  BY DEF clusterVars, Target
<1>4. Register!Refuse(c)
  BY <1>1, <1>2, <1>3 DEF Register!Refuse
<1> QED
  BY <1>4 DEF RegisterStep, Register!Next

(* An effect that is answered OK, or whose answer is lost. *)
LEMMA Answered ==
    ASSUME NEW c \in Calls, CallTypeOK, Register!Effect(c),
           Answer(c, "OK", Target'.rv) \/ Fail(c, "Unavailable")
    PROVE  RegisterStep
<1>1. \/ Register!Answered(c, "OK", Target'.rv)
      \/ Register!Answered(c, "Unavailable", 0)
  BY ViewAnswer DEF Fail
<1>2. Register!Succeed(c) \/ Register!InDoubt(c)
  BY <1>1 DEF Register!Succeed, Register!InDoubt
<1> QED
  BY <1>2 DEF RegisterStep, Register!Next

(* A request that only reads. *)
LEMMA GoesOn ==
    ASSUME NEW c \in Calls, \A d \in Calls \ {c} : call'[d] = call[d],
           call[c].pc \in CallSteps, call'[c].pc \in CallSteps,
           call'[c].n = call[c].n, call'[c].expected = call[c].expected,
           call'[c].result = call[c].result, call'[c].version = call[c].version,
           UNCHANGED clusterVars
    PROVE  RegisterStep
BY ViewStays DEF RegisterStep, clusterVars, Target

(* The caller's request reaches the handler, or is refused at once. *)
LEMMA StartSetMaps ==
    ASSUME NEW c \in Calls, CallFacts(c), StartSet(c)
    PROVE  RegisterStep
<1>1. /\ call[c].pc = "idle" /\ call \in [Calls -> Call]
      /\ UNCHANGED clusterVars /\ CallTypeOK
  BY DEF StartSet, CallFacts, CallTypeOK
<1>2. CASE Fail(c, "InvalidArgument") \/ Fail(c, "Forbidden")
  BY <1>1, <1>2, Refused
<1>3. ASSUME NEW n \in Counts, NEW e \in Versions,
             call' = [call EXCEPT ![c] = [IdleCall EXCEPT !.pc = "GetTarget",
                                                         !.n = n, !.expected = e]]
      PROVE  RegisterStep
  <2>1. \A d \in Calls \ {c} : call'[d] = call[d]
    BY <1>1, <1>3
  <2>2. /\ call'[c].pc = "GetTarget" /\ call'[c].n = n /\ call'[c].expected = e
        /\ call'[c].result = "OK" /\ call'[c].version = 0
    BY <1>1, <1>3 DEF IdleCall
  <2>3. View'[c] = [st |-> "pending", n |-> n, expected |-> e, result |-> "OK",
                    version |-> 0]
    BY <2>2 DEF View, CallSteps
  <2>4. View'[c].n = n /\ View'[c].expected = e
    BY <2>3
  <2>5. View'[c] = [Register!Idle EXCEPT !.st = "pending", !.n = View'[c].n,
                                         !.expected = View'[c].expected]
    <3>1. ASSUME NEW I, I = [st |-> "idle", n |-> 0, expected |-> 0, result |-> "OK",
                             version |-> 0],
                 NEW J, J = [I EXCEPT !.st = "pending", !.n = n, !.expected = e]
          PROVE  J = [st |-> "pending", n |-> n, expected |-> e, result |-> "OK",
                      version |-> 0]
      BY <3>1
    <3>2. Register!Idle = [st |-> "idle", n |-> 0, expected |-> 0, result |-> "OK",
                           version |-> 0]
      BY DEF Register!Idle
    <3> QED
      BY <2>3, <2>4, <3>1, <3>2, Zenon
  <2>6. View' = [View EXCEPT ![c] = View'[c]]
    BY <2>1, ViewUpdate
  <2>7. View[c].st = "idle"
    BY <1>1 DEF View, CallSteps
  <2>8. UNCHANGED <<rv, Target>>
    BY <1>1 DEF clusterVars, Target
  <2>9. Register!Invoke(c)
    BY <2>4, <2>5, <2>6, <2>7, <2>8 DEF Register!Invoke
  <2> QED
    BY <2>9 DEF RegisterStep, Register!Next
<1> QED
  BY <1>2, <1>3 DEF StartSet

(* The requests of a call: an effect, a refusal, or invisible. *)
LEMMA CallStepMaps ==
    ASSUME NEW c \in Calls, CallFacts(c), CallStep(c)
    PROVE  RegisterStep
<1>0. CallTypeOK /\ call \in [Calls -> Call] /\ call[c] \in Call
  BY DEF CallFacts, CallTypeOK
<1>1. ASSUME NEW r, r # "OK", Fail(c, r), call[c].pc \in CallSteps, UNCHANGED clusterVars
      PROVE  RegisterStep
  BY <1>0, <1>1, Refused
<1>2. ASSUME NEW pc \in CallSteps, Goto(c, pc), call[c].pc \in CallSteps,
             UNCHANGED clusterVars
      PROVE  RegisterStep
  <2>1. /\ \A d \in Calls \ {c} : call'[d] = call[d]
        /\ call'[c].pc = pc /\ call'[c].n = call[c].n
        /\ call'[c].expected = call[c].expected
        /\ call'[c].result = call[c].result /\ call'[c].version = call[c].version
    BY <1>0, <1>2 DEF Goto, Call
  <2> QED
    BY <1>2, <2>1, GoesOn
<1>3. ASSUME NEW first \in CallSteps, Retry(c, first), call[c].pc \in CallSteps,
             UNCHANGED clusterVars
      PROVE  RegisterStep
  <2>1. CASE call' = [call EXCEPT ![c].pc = first, ![c].seen = 0,
                                  ![c].tries = call[c].tries + 1]
    <3>1. /\ \A d \in Calls \ {c} : call'[d] = call[d]
          /\ call'[c].pc = first /\ call'[c].n = call[c].n
          /\ call'[c].expected = call[c].expected
          /\ call'[c].result = call[c].result /\ call'[c].version = call[c].version
      BY <1>0, <2>1 DEF Call
    <3> QED
      BY <1>3, <3>1, GoesOn
  <2> QED
    BY <1>1, <1>3, <2>1 DEF Retry
<1>4. ASSUME NEW pc \in CallSteps, NEW v, call[c].pc \in CallSteps, UNCHANGED clusterVars,
             call' = [call EXCEPT ![c].pc = pc, ![c].seen = v]
      PROVE  RegisterStep
  <2>1. /\ \A d \in Calls \ {c} : call'[d] = call[d]
        /\ call'[c].pc = pc /\ call'[c].n = call[c].n
        /\ call'[c].expected = call[c].expected
        /\ call'[c].result = call[c].result /\ call'[c].version = call[c].version
    BY <1>0, <1>4 DEF Call
  <2> QED
    BY <1>4, <2>1, GoesOn
<1>5. CASE CallGetTarget(c)
  <2>1. CASE call' = [call EXCEPT ![c].pc = "HasHPA", ![c].depUID = dep.uid]
    <3>1. /\ \A d \in Calls \ {c} : call'[d] = call[d]
          /\ call'[c].pc = "HasHPA" /\ call'[c].n = call[c].n
          /\ call'[c].expected = call[c].expected
          /\ call'[c].result = call[c].result /\ call'[c].version = call[c].version
      BY <1>0, <2>1 DEF Call
    <3>2. "HasHPA" \in CallSteps /\ call[c].pc \in CallSteps /\ UNCHANGED clusterVars
      BY <1>5 DEF CallSteps, CallGetTarget
    <3> QED
      BY <3>1, <3>2, GoesOn
  <2> QED
    BY <1>1, <1>5, <2>1 DEF CallGetTarget, CallSteps
<1>6. CASE CallHasHPA(c)
  BY <1>1, <1>2, <1>6 DEF CallHasHPA, CallSteps
<1>7. CASE CallGetScale(c)
  BY <1>1, <1>4, <1>7 DEF CallGetScale, CallSteps
<1>8. CASE CallUpdateScale(c)
  <2>1. CASE /\ dep.uid # 0 /\ dep.rv = call[c].seen
             /\ StoreScale(call[c].n) /\ Answer(c, "OK", dep'.rv)
    BY <1>0, <1>8, <2>1, ScaleTakesEffect, Answered DEF CallUpdateScale
  <2> QED
    BY <1>1, <1>3, <1>8, <2>1 DEF CallUpdateScale, CallSteps
<1>9. CASE CallGetIntent(c)
  <2>1. CASE /\ intent.uid # 0 /\ intent.depUID = call[c].depUID
             /\ call[c].expected \in {0, intent.rv} /\ intent.replicas = call[c].n
             /\ Answer(c, "OK", intent.rv)
    BY <1>0, <1>9, <2>1, ReadTakesEffect, Answered DEF CallGetIntent
  <2> QED
    BY <1>1, <1>2, <1>4, <1>9, <2>1 DEF CallGetIntent, CallSteps
<1>10. CASE CallCreateIntent(c)
  <2>1. CASE /\ intent.uid = 0
             /\ StoreIntent(NewIntent(call[c].depUID, call[c].n))
             /\ Answer(c, "OK", rv + 1)
    BY <1>0, <1>10, <2>1, CreationTakesEffect, Answered DEF CallCreateIntent
  <2> QED
    BY <1>3, <1>10, <2>1 DEF CallCreateIntent, CallSteps
<1>11. CASE CallUpdateIntent(c)
  <2>1. CASE /\ intent.uid # 0 /\ intent.rv = call[c].seen
             /\ StoreIntent(WithReplicas(intent, call[c].n))
             /\ Answer(c, "OK", rv + 1)
    BY <1>0, <1>11, <2>1, UpdateTakesEffect, Answered DEF CallUpdateIntent
  <2> QED
    BY <1>1, <1>3, <1>11, <2>1 DEF CallUpdateIntent, CallSteps
<1> QED
  BY <1>5, <1>6, <1>7, <1>8, <1>9, <1>10, <1>11 DEF CallStep

(* A request that fails leaves the caller in doubt only if it was a write. *)
LEMMA CallFaultMaps ==
    ASSUME NEW c \in Calls, CallFacts(c), CallRequestFails(c) \/ CallResponseLost(c)
    PROVE  RegisterStep
<1>0. CallTypeOK
  BY DEF CallFacts
<1>1. CASE CallRequestFails(c)
  BY <1>0, <1>1, Refused DEF CallRequestFails
<1>2. CASE CallResponseLost(c)
  BY <1>0, <1>2, ScaleTakesEffect, CreationTakesEffect, UpdateTakesEffect, Answered
     DEF CallResponseLost
<1> QED
  BY <1>1, <1>2

(* The answer has reached the caller. *)
LEMMA ReturnMaps ==
    ASSUME NEW c \in Calls, CallFacts(c), Return(c)
    PROVE  RegisterStep
<1>1. /\ call' = [call EXCEPT ![c] = IdleCall] /\ call \in [Calls -> Call]
      /\ call[c].pc = "done" /\ UNCHANGED clusterVars
  BY DEF Return, CallFacts, CallTypeOK
<1>2. call'[c] = IdleCall /\ \A d \in Calls \ {c} : call'[d] = call[d]
  BY <1>1
<1>3. View'[c] = Register!Idle
  BY <1>2 DEF View, IdleCall, CallSteps, Register!Idle
<1>4. View' = [View EXCEPT ![c] = Register!Idle]
  BY <1>2, <1>3, ViewUpdate
<1>5. View[c].st = "done" /\ UNCHANGED <<rv, Target>>
  BY <1>1 DEF View, CallSteps, clusterVars, Target
<1>6. Register!Finish(c)
  BY <1>4, <1>5 DEF Register!Finish
<1> QED
  BY <1>6 DEF RegisterStep, Register!Next

(* Every step of a call maps to a step of the register. *)
LEMMA CallMaps ==
    ASSUME NEW c \in Calls, CallFacts(c), CallNext(c)
    PROVE  RegisterStep
BY StartSetMaps, CallStepMaps, CallFaultMaps, ReturnMaps DEF CallNext

(* So does every step of anybody else: a write under a new version. *)
LEMMA OtherMaps ==
    ASSUME ClusterInv, Stamped, UNCHANGED call
    PROVE  RegisterStep
<1>1. View' = View
  BY DEF View
<1>2. CASE UNCHANGED <<rv, dep, intent>>
  BY <1>1, <1>2 DEF RegisterStep, Target
<1>3. CASE ~UNCHANGED <<rv, dep, intent>>
  <2>1. rv' = rv + 1 /\ rv \in Nat
    BY <1>3 DEF Stamped, ClusterInv, ClusterTypeOK
  <2>2. Target' = Target \/ Target'.rv \in {0, rv'}
    BY <1>3 DEF Stamped, Target, NoDeployment, NoIntent
  <2>3. Register!OtherWrite
    BY <1>1, <2>1, <2>2 DEF Register!OtherWrite
  <2> QED
    BY <2>3 DEF RegisterStep, Register!Next
<1> QED
  BY <1>2, <1>3

-----------------------------------------------------------------------------
(* The refinement. *)

(* The second invariant is kept, and every step maps to one of SetRegister.*)
LEMMA StepRefines ==
    ASSUME SafetyInv, RegisterInv, [Next]_vars, SafetyInv'
    PROVE  RegisterInv' /\ RegisterStep
<1>1. /\ ClusterInv /\ CallTypeOK /\ PassTypeOK /\ rv \in Nat
      /\ \A c \in Calls : CallFacts(c)
      /\ \A p \in Passes : PassInv(p)
      /\ faults' \in Nat
  BY DEF SafetyInv, RegisterInv, TypeOK, ClusterInv, ClusterTypeOK, CallFacts
<1>2. ASSUME Stamped, NEW c \in Calls, call'[c] = call[c]
      PROVE  CallHasReason(c)'
  BY <1>1, <1>2, ReasonStays DEF CallFacts
<1>3. ASSUME Stamped, UNCHANGED call
      PROVE  RegisterInv' /\ RegisterStep
  BY <1>1, <1>2, <1>3, GoneStaysEmpty, OtherMaps DEF RegisterInv
<1>4. CASE Others
  BY <1>1, <1>3, <1>4, OthersStamp DEF Others
<1>5. ASSUME NEW p \in Passes, PassNext(p), UNCHANGED call
      PROVE  RegisterInv' /\ RegisterStep
  BY <1>1, <1>3, <1>5, PassStamps
<1>6. ASSUME NEW c \in Calls, CallNext(c)
      PROVE  RegisterInv' /\ RegisterStep
  <2>1. Stamped
    BY <1>1, <1>6, CallStamps DEF CallFacts
  <2>2. CallReady(c)
    BY <1>1 DEF CallReady, CallFacts
  <2>3. \A d \in Calls \ {c} : call'[d] = call[d]
    BY <1>6, <2>2, CallNextKept DEF CallKept
  <2>4. CallHasReason(c)'
    BY <1>1, <1>6, ReasonFound DEF CallFacts
  <2> QED
    BY <1>1, <1>2, <1>6, <2>1, <2>3, <2>4, GoneStaysEmpty, CallMaps DEF RegisterInv
<1>7. CASE UNCHANGED vars
  <2>1. Stamped /\ UNCHANGED call
    BY <1>7 DEF vars, Stamped
  <2> QED
    BY <1>3, <2>1
<1> QED
  BY <1>4, <1>5, <1>6, <1>7 DEF Next

(* Every call of SetReplicas, with all its requests and retries, looks to  *)
(* all callers like one atomic operation of a register with versions:      *)
(* ReplicaControl implements SetRegister.                                  *)
THEOREM SetAtomic == Spec => SetIsAtomic
<1>1. Init => Register!Init
  BY DEF Init, CallInit, View, IdleCall, CallSteps, Register!Init, Register!Idle
<1>2. SafetyInv /\ RegisterInv /\ [Next]_vars /\ SafetyInv' => RegisterInv'
  BY StepRefines
<1>3. SafetyInv /\ RegisterInv /\ [Next]_vars /\ SafetyInv'
         => [Register!Next]_<<rv, Target, View>>
  BY StepRefines DEF RegisterStep
<1> QED
  BY <1>1, <1>2, <1>3, InitRegister, Safety, PTL
     DEF Spec, SetIsAtomic, Register!Spec

-----------------------------------------------------------------------------
(* Who begins after an HPA appeared. *)

(* The steps of a call before and at the check, and outside of the handler.*)
HarmlessCall == {"idle", "GetTarget", "HasHPA", "done"}

(* The steps of a pass from which the scale can still be written without   *)
(* another check.                                                          *)
PastCheck == {"GetFresh", "GetScale", "UpdateScale"}

-----------------------------------------------------------------------------
(* One step of a call: while there is an HPA, a call that has not passed   *)
(* the check does not pass it.                                             *)
LEMMA CallHeldBack ==
    ASSUME call \in [Calls -> Call], NEW c \in Calls, CallNext(c)
    PROVE  /\ \A d \in Calls \ {c} : call'[d] = call[d]
           /\ hpa /\ call[c].pc \in HarmlessCall => call'[c].pc \in HarmlessCall
<1>1. ASSUME NEW code, NEW version, Answer(c, code, version)
      PROVE  /\ \A d \in Calls \ {c} : call'[d] = call[d]
             /\ call'[c].pc = "done"
  BY <1>1 DEF Answer, IdleCall
<1>2. ASSUME NEW code, Fail(c, code)
      PROVE  /\ \A d \in Calls \ {c} : call'[d] = call[d]
             /\ call'[c].pc = "done"
  BY <1>1, <1>2 DEF Fail
<1>3. ASSUME NEW pc, Goto(c, pc)
      PROVE  \A d \in Calls \ {c} : call'[d] = call[d]
  BY <1>3 DEF Goto
<1>4. ASSUME NEW pc, Retry(c, pc)
      PROVE  \A d \in Calls \ {c} : call'[d] = call[d]
  BY <1>2, <1>4 DEF Retry
<1>5. CASE StartSet(c)
  BY <1>2, <1>5 DEF StartSet, IdleCall, HarmlessCall
<1>6. CASE CallGetTarget(c)
  BY <1>2, <1>6 DEF CallGetTarget, HarmlessCall, Call
<1>7. CASE CallHasHPA(c)
  BY <1>2, <1>3, <1>7 DEF CallHasHPA, HarmlessCall
<1>8. CASE CallGetScale(c)
  BY <1>2, <1>8 DEF CallGetScale, HarmlessCall
<1>9. CASE CallUpdateScale(c)
  BY <1>1, <1>2, <1>4, <1>9 DEF CallUpdateScale, HarmlessCall
<1>10. CASE CallGetIntent(c)
  BY <1>1, <1>2, <1>3, <1>10 DEF CallGetIntent, HarmlessCall
<1>11. CASE CallCreateIntent(c)
  BY <1>1, <1>4, <1>11 DEF CallCreateIntent, HarmlessCall
<1>12. CASE CallUpdateIntent(c)
  BY <1>1, <1>2, <1>4, <1>12 DEF CallUpdateIntent, HarmlessCall
<1>13. CASE CallRequestFails(c) \/ CallResponseLost(c)
  BY <1>2, <1>13 DEF CallRequestFails, CallResponseLost, HarmlessCall
<1>14. CASE Return(c)
  BY <1>14 DEF Return, IdleCall, HarmlessCall
<1> QED
  BY <1>5, <1>6, <1>7, <1>8, <1>9, <1>10, <1>11, <1>12, <1>13, <1>14
     DEF CallNext, CallStep

(* One step of a pass: the same, and nothing leads from the report of the  *)
(* status back to the scale.                                               *)
LEMMA PassHeldBack ==
    ASSUME pass \in [Passes -> Pass], NEW p \in Passes, PassNext(p)
    PROVE  /\ \A q \in Passes \ {p} : pass'[q] = pass[q]
           /\ hpa /\ pass[p].pc \notin PastCheck => pass'[p].pc \notin PastCheck
<1>1. ASSUME EndPass(p)
      PROVE  /\ \A q \in Passes \ {p} : pass'[q] = pass[q]
             /\ pass'[p].pc = "idle"
  BY <1>1 DEF EndPass, IdlePass
<1>2. ASSUME NEW pc, PassGoto(p, pc)
      PROVE  \A q \in Passes \ {p} : pass'[q] = pass[q]
  BY <1>2 DEF PassGoto
<1>3. ASSUME NEW reason, NEW d, ToWriteStatus(p, reason, d)
      PROVE  /\ \A q \in Passes \ {p} : pass'[q] = pass[q]
             /\ pass'[p].pc = "GetStatus"
  BY <1>3 DEF ToWriteStatus, Pass
<1>4. CASE PassGetIntent(p)
  BY <1>4 DEF PassGetIntent, IdlePass, PastCheck
<1>5. CASE PassGetTarget(p)
  <2>1. \/ \E reason : ToWriteStatus(p, reason, dep)
        \/ pass' = [pass EXCEPT ![p].pc = "HasHPA", ![p].dep = dep]
    BY <1>5 DEF PassGetTarget
  <2>2. CASE pass' = [pass EXCEPT ![p].pc = "HasHPA", ![p].dep = dep]
    BY <2>2 DEF PastCheck, Pass
  <2> QED
    BY <1>3, <2>1, <2>2 DEF PastCheck
<1>6. CASE PassHasHPA(p)
  <2>1. \/ \E reason, d : ToWriteStatus(p, reason, d)
        \/ ~hpa /\ PassGoto(p, "GetFresh")
    BY <1>6 DEF PassHasHPA
  <2> QED
    BY <1>2, <1>3, <2>1 DEF PastCheck
<1>7. CASE PassGetFresh(p) \/ PassGetScale(p)
  BY <1>1, <1>2, <1>7 DEF PassGetFresh, PassGetScale, PastCheck
<1>8. CASE PassUpdateScale(p)
  BY <1>1, <1>3, <1>8 DEF PassUpdateScale, PastCheck
<1>9. CASE PassGetStatus(p)
  BY <1>1, <1>9 DEF PassGetStatus, PastCheck, Pass
<1>10. CASE PassUpdateStatus(p)
  BY <1>1, <1>10 DEF PassUpdateStatus, PastCheck, Pass
<1>11. CASE PassFails(p) \/ PassResponseLost(p)
  BY <1>1, <1>11 DEF PassFails, PassResponseLost, PastCheck
<1> QED
  BY <1>4, <1>5, <1>6, <1>7, <1>8, <1>9, <1>10, <1>11 DEF PassNext, PassStep

-----------------------------------------------------------------------------
(* The inductive invariant: nobody is warned of an HPA that is not there. *)
HPAInv ==
    /\ HPARespected
    /\ ~hpa => warned = {}

(* Whatever happens, the calls and passes that are warned already, or were *)
(* at rest while the HPA was there, stay before the check.                 *)
LEMMA HPAStep ==
    ASSUME HPAInv, TypeOK, [HPANext]_<<vars, warned>>
    PROVE  HPAInv'
<1> DEFINE Warned == warned \cup AtRest
<1>1. call \in [Calls -> Call] /\ pass \in [Passes -> Pass]
  BY DEF TypeOK, CallTypeOK, PassTypeOK
<1>2. CASE UNCHANGED <<vars, warned>>
  BY <1>2 DEF HPAInv, HPARespected, vars
<1>3. CASE HPANext
  <2>1. /\ \A c \in Calls \cap Warned : call[c].pc \in HarmlessCall
        /\ \A p \in Passes \cap Warned : pass[p].pc \notin PastCheck
    BY ActorsAssumption DEF HPAInv, HPARespected, AtRest, HarmlessCall, PastCheck
  <2>2. warned' \subseteq Warned /\ (warned' # {} => hpa /\ hpa')
    BY <1>3 DEF HPANext
  <2>3. ASSUME hpa, NEW c \in Calls \cap Warned
        PROVE  call'[c].pc \in HarmlessCall
    <3>1. CASE Others
      BY <2>1, <3>1 DEF Others
    <3>2. ASSUME NEW d \in Calls, CallNext(d)
          PROVE  call'[c].pc \in HarmlessCall
      BY <1>1, <2>1, <2>3, <3>2, CallHeldBack
    <3>3. ASSUME NEW p \in Passes, UNCHANGED call
          PROVE  call'[c].pc \in HarmlessCall
      BY <2>1, <3>3
    <3> QED
      BY <1>3, <3>1, <3>2, <3>3 DEF HPANext, Next
  <2>4. ASSUME hpa, NEW p \in Passes \cap Warned
        PROVE  pass'[p].pc \notin PastCheck
    <3>1. CASE Others
      BY <2>1, <3>1 DEF Others
    <3>2. ASSUME NEW q \in Passes, PassNext(q)
          PROVE  pass'[p].pc \notin PastCheck
      BY <1>1, <2>1, <2>4, <3>2, PassHeldBack
    <3>3. ASSUME NEW c \in Calls, UNCHANGED pass
          PROVE  pass'[p].pc \notin PastCheck
      BY <2>1, <3>3
    <3> QED
      BY <1>3, <3>1, <3>2, <3>3 DEF HPANext, Next
  <2>5. HPARespected'
    BY <2>2, <2>3, <2>4 DEF HPARespected, HarmlessCall, PastCheck
  <2> QED
    BY <1>3, <2>5 DEF HPAInv, HPANext
<1> QED
  BY <1>2, <1>3

(* Whoever starts after the HPA appeared does not touch what the HPA       *)
(* controls: a Set call is refused, a pass reports HPAConflict.  Only a    *)
(* write whose check was done before the HPA came can still follow it.     *)
THEOREM NoFight == HPASpec => []HPARespected
<1>1. HPAInit => HPAInv
  BY DEF HPAInit, HPAInv, HPARespected
<1>2. HPASpec => Spec
  <2>1. HPAInit => Init
    BY DEF HPAInit
  <2>2. [HPANext]_<<vars, warned>> => [Next]_vars
    BY DEF HPANext
  <2> QED
    BY <2>1, <2>2, PTL DEF HPASpec, Spec
<1>3. HPAInv /\ TypeOK /\ [HPANext]_<<vars, warned>> => HPAInv'
  BY HPAStep
<1>4. HPAInv => HPARespected
  BY DEF HPAInv
<1> QED
  BY <1>1, <1>2, <1>3, <1>4, TypeCorrect, PTL DEF HPASpec
=============================================================================
