----------------------------- MODULE Reconcile -----------------------------
(***************************************************************************)
(* Engine.Reconcile over the level-5 Backend (GetIntent, GetTarget, HasHPA,*)
(* UpdateScale, WriteStatus), one action per request to the API server.    *)
(*                                                                         *)
(* The work queue runs one pass at a time for a target inside one process, *)
(* but leader election does not fence the previous leader's requests: two  *)
(* processes may each have a pass on the same target under way.  Passes is *)
(* the set of those processes.                                             *)
(***************************************************************************)
EXTENDS Cluster

CONSTANTS
    Passes    \* the processes that run a pass on the target

VARIABLES
    pass      \* pass[p]: the locals of the pass that p runs

PassSteps == {"GetTarget", "HasHPA", "GetFresh", "GetScale", "UpdateScale",
              "GetStatus", "UpdateStatus"}

Pass ==
    [pc : PassSteps \cup {"idle"},
     intent : Intent,           \* the intent of the first read
     dep : Deployment,          \* the Deployment of GetTarget
     st : ReconcileStatus,      \* what WriteStatus is to record
     seen : Nat,                \* resourceVersion that WriteStatus read
     tries : Nat]               \* attempts of WriteStatus already used up

IdlePass == [pc |-> "idle", intent |-> NoIntent, dep |-> NoDeployment,
             st |-> NoStatus, seen |-> 0, tries |-> 0]

-----------------------------------------------------------------------------
(* The pass ends.  The controller starts the next one for an error (rate   *)
(* limited, at most a minute later) and for a success (30 s later).        *)
EndPass(p) == pass' = [pass EXCEPT ![p] = IdlePass]

PassGoto(p, pc) == pass' = [pass EXCEPT ![p].pc = pc]

Status(reason, i, d) == [reason |-> reason, gen |-> i.gen,
                         replicas |-> d.replicas, ready |-> d.ready]

(* On to WriteStatus; the Deployment that was read is not used again. *)
ToWriteStatus(p, reason, d) ==
    pass' = [pass EXCEPT ![p].pc = "GetStatus", ![p].dep = NoDeployment,
                         ![p].st = Status(reason, pass[p].intent, d)]

(* What parseIntent keeps of the object; Reconcile never looks at its      *)
(* resourceVersion and model.Intent has no status.                         *)
Parsed(i) == [i EXCEPT !.rv = 0, !.status = NoStatus]

(* A pass begins with the live intent and stops at once without one. *)
PassGetIntent(p) ==
    /\ pass[p].pc = "idle"
    /\ intent.uid # 0 /\ ~intent.deleting
    /\ pass' = [pass EXCEPT ![p] = [IdlePass EXCEPT !.pc = "GetTarget",
                                                    !.intent = Parsed(intent)]]
    /\ UNCHANGED <<clusterVars, faults>>

(* Mutant of Obstacle: the UID that the intent names is not compared. *)
ObstacleAnyUID(i, d) ==
    CASE d.uid = 0    -> "DeploymentNotFound"
      [] d.deleting   -> "DeploymentDeleting"
      [] d.protected  -> "ProtectedDeployment"
      [] OTHER        -> "none"

(* The reasons to block that the Deployment itself shows, in code order. *)
Obstacle(i, d) ==
    CASE d.uid = 0         -> "DeploymentNotFound"
      [] i.depUID # d.uid  -> "DeploymentUIDMismatch"
      [] d.deleting        -> "DeploymentDeleting"
      [] d.protected       -> "ProtectedDeployment"
      [] OTHER             -> "none"

PassGetTarget(p) ==
    /\ pass[p].pc = "GetTarget"
    /\ LET reason == Obstacle(pass[p].intent, dep)
       IN  IF reason # "none"
           THEN ToWriteStatus(p, reason, dep)
           ELSE pass' = [pass EXCEPT ![p].pc = "HasHPA", ![p].dep = dep]
    /\ UNCHANGED <<clusterVars, faults>>

(* The phase a pass reports when it has nothing to write. *)
Observation(i, d) ==
    IF d.ready = i.replicas /\ d.observed >= d.gen
    THEN "DesiredStateObserved" ELSE "WaitingForDeployment"

(* Mutant of PassHasHPA: an HPA is only reported when nothing is to be done. *)
PassHasHPALate(p) ==
    /\ pass[p].pc = "HasHPA"
    /\ LET i == pass[p].intent
           d == pass[p].dep
       IN  \/ d.replicas # i.replicas /\ PassGoto(p, "GetFresh")
           \/ hpa /\ d.replicas = i.replicas /\ ToWriteStatus(p, "HPAConflict", d)
           \/ ~hpa /\ d.replicas = i.replicas
                   /\ ToWriteStatus(p, Observation(i, d), d)
    /\ UNCHANGED <<clusterVars, faults>>

PassHasHPA(p) ==
    /\ pass[p].pc = "HasHPA"
    /\ LET i == pass[p].intent
           d == pass[p].dep
       IN  \/ hpa /\ ToWriteStatus(p, "HPAConflict", d)
           \/ ~hpa /\ d.replicas # i.replicas /\ PassGoto(p, "GetFresh")
           \/ ~hpa /\ d.replicas = i.replicas
                   /\ ToWriteStatus(p, Observation(i, d), d)
    /\ UNCHANGED <<clusterVars, faults>>

(* The second read of the intent: it must still be the same generation of  *)
(* the same object, or the pass fails with NotFound or Conflict.           *)
PassGetFresh(p) ==
    /\ pass[p].pc = "GetFresh"
    /\ IF /\ intent.uid = pass[p].intent.uid
          /\ intent.gen = pass[p].intent.gen
          /\ ~intent.deleting
       THEN PassGoto(p, "GetScale")
       ELSE EndPass(p)
    /\ UNCHANGED <<clusterVars, faults>>

(* Backend.UpdateScale compares UID and resourceVersion with the           *)
(* Deployment whose guards were checked ...                                *)
PassGetScale(p) ==
    /\ pass[p].pc = "GetScale"
    /\ IF dep.uid # 0 /\ dep.uid = pass[p].dep.uid /\ dep.rv = pass[p].dep.rv
       THEN PassGoto(p, "UpdateScale")
       ELSE EndPass(p)
    /\ UNCHANGED <<clusterVars, faults>>

(* Mutant of ScaleAccepted: the scale is sent without resourceVersion. *)
ScaleAcceptedBlind(p) == dep.uid # 0

(* ... and the API server takes the write only at that resourceVersion.    *)
ScaleAccepted(p) == dep.uid # 0 /\ dep.rv = pass[p].dep.rv

PassUpdateScale(p) ==
    /\ pass[p].pc = "UpdateScale"
    /\ \/ /\ ScaleAccepted(p)
          /\ StoreScale(pass[p].intent.replicas)
          /\ ToWriteStatus(p, "ScaleUpdated", pass[p].dep)
       \/ ~ScaleAccepted(p) /\ EndPass(p) /\ UNCHANGED clusterVars
    /\ UNCHANGED faults

(* Mutants of SameGeneration: the same generation of any object will do;   *)
(* any generation of the same object will do.                              *)
SameNumber(p) ==
    intent.uid # 0 /\ intent.gen = pass[p].intent.gen /\ ~intent.deleting

SameObject(p) ==
    intent.uid # 0 /\ intent.uid = pass[p].intent.uid /\ ~intent.deleting

(* Backend.WriteStatus: read, compare, skip an identical status, else      *)
(* update at the version that was read; only a conflict of that update is  *)
(* retried.                                                                *)
SameGeneration(p) ==
    /\ intent.uid # 0 /\ intent.uid = pass[p].intent.uid
    /\ intent.gen = pass[p].intent.gen
    /\ ~intent.deleting

(* Mutant of PassGetStatus: any status of this generation is kept. *)
PassGetStatusOnce(p) ==
    /\ pass[p].pc = "GetStatus"
    /\ IF SameGeneration(p) /\ intent.status.gen # pass[p].st.gen
       THEN pass' = [pass EXCEPT ![p].pc = "UpdateStatus", ![p].seen = intent.rv]
       ELSE EndPass(p)
    /\ UNCHANGED <<clusterVars, faults>>

PassGetStatus(p) ==
    /\ pass[p].pc = "GetStatus"
    /\ IF SameGeneration(p) /\ intent.status # pass[p].st
       THEN pass' = [pass EXCEPT ![p].pc = "UpdateStatus", ![p].seen = intent.rv]
       ELSE EndPass(p)
    /\ UNCHANGED <<clusterVars, faults>>

StatusAccepted(p) == intent.uid # 0 /\ intent.rv = pass[p].seen

PassUpdateStatus(p) ==
    /\ pass[p].pc = "UpdateStatus"
    /\ \/ /\ StatusAccepted(p)
          /\ StoreIntent([intent EXCEPT !.status = pass[p].st])
          /\ EndPass(p)
       \/ /\ ~StatusAccepted(p)
          /\ IF intent.uid # 0 /\ pass[p].tries + 1 < Attempts
             THEN pass' = [pass EXCEPT ![p].pc = "GetStatus", ![p].seen = 0,
                                       ![p].tries = pass[p].tries + 1]
             ELSE EndPass(p)
          /\ UNCHANGED clusterVars
    /\ UNCHANGED faults

-----------------------------------------------------------------------------
(* A request fails, its ten seconds are over, or the process that runs the *)
(* pass loses the lease or crashes: the pass stops where it is.            *)
PassFails(p) ==
    /\ faults < MaxFaults
    /\ pass[p].pc \in PassSteps
    /\ EndPass(p)
    /\ faults' = faults + 1
    /\ UNCHANGED clusterVars

(* A write is applied and the pass never learns of it. *)
PassResponseLost(p) ==
    /\ faults < MaxFaults
    /\ \/ /\ pass[p].pc = "UpdateScale" /\ ScaleAccepted(p)
          /\ StoreScale(pass[p].intent.replicas)
       \/ /\ pass[p].pc = "UpdateStatus" /\ StatusAccepted(p)
          /\ StoreIntent([intent EXCEPT !.status = pass[p].st])
    /\ EndPass(p)
    /\ faults' = faults + 1

PassStep(p) ==
    \/ PassGetIntent(p) \/ PassGetTarget(p) \/ PassHasHPA(p) \/ PassGetFresh(p)
    \/ PassGetScale(p) \/ PassUpdateScale(p)
    \/ PassGetStatus(p) \/ PassUpdateStatus(p)

PassNext(p) == PassStep(p) \/ PassFails(p) \/ PassResponseLost(p)

PassTypeOK == pass \in [Passes -> Pass]

PassInit == pass = [p \in Passes |-> IdlePass]
=============================================================================
