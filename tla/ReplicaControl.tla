--------------------------- MODULE ReplicaControl ---------------------------
(***************************************************************************)
(* SetReplicas calls, reconciliation passes, other users of the cluster    *)
(* and Kubernetes itself, interleaved on one target.                       *)
(***************************************************************************)
EXTENDS SetCall, Reconcile

vars == <<rv, dep, intent, hpa, faults, call, pass>>

(* Only level 5 installs the ReplicaIntent resource. *)
Init == /\ ClusterInit /\ CallInit /\ PassInit
        /\ Level < 5 => intent = NoIntent

Others == (Users \/ Kubernetes) /\ UNCHANGED <<faults, call, pass>>

Next ==
    \/ Others
    \/ \E c \in Calls : CallNext(c) /\ UNCHANGED pass
    \/ \E p \in Passes : PassNext(p) /\ UNCHANGED call

Spec == Init /\ [][Next]_vars

(* Fairness: a pass that is under way goes on, and another one is started  *)
(* (the 30 s requeue of the controller); the Deployment controller acts.   *)
(* Nothing is assumed of callers and other users.                          *)
Fairness ==
    /\ \A p \in Passes : WF_vars(PassStep(p) /\ UNCHANGED call)
    /\ WF_vars(DeployRolledOut /\ UNCHANGED <<faults, call, pass>>)

FairSpec == Spec /\ Fairness

-----------------------------------------------------------------------------
TypeOK == ClusterTypeOK /\ CallTypeOK /\ PassTypeOK

(* A status that reports Ready for the CURRENT generation of the intent    *)
(* tells the truth about the count of that generation: it was observed, as *)
(* the spec and as the ready pods of the Deployment.  A pass that started  *)
(* under an older generation, or under a deleted intent of the same name,  *)
(* can never write such a status (WriteStatus).                            *)
Truthful(i) ==
    /\ i.status.gen <= i.gen
    /\ i.status.reason = "DesiredStateObserved" /\ i.status.gen = i.gen
       => i.status.replicas = i.replicas /\ i.status.ready = i.replicas

ReadyIsTrue == Truthful(intent)

(* An intent object never reports on an older generation than it already   *)
(* has: late passes of a previous leader do not turn the status back.      *)
StatusMovesForward ==
    [][intent'.uid = intent.uid => intent'.status.gen >= intent.status.gen]_vars

(* A reconciliation pass writes the scale only of the very Deployment      *)
(* instance the intent names, while that instance is neither protected nor *)
(* being deleted AT THE MOMENT OF THE WRITE, and only to the count of the  *)
(* intent it read: the guards of GetTarget still hold although four        *)
(* requests lie between them and the write.                                *)
PassScalesSafely ==
    [][\A p \in Passes :
          (pass[p].pc = "UpdateScale" /\ pass'[p] # pass[p] /\ dep' # dep) =>
             /\ dep.uid = pass[p].intent.depUID
             /\ dep.protected = FALSE
             /\ dep.deleting = FALSE
             /\ dep'.uid = dep.uid
             /\ dep'.replicas = pass[p].intent.replicas]_vars

(* What a Set call writes: the intent at level 5, else the Deployment. *)
Target == IF Level = 5
          THEN [uid |-> intent.depUID, rv |-> intent.rv, n |-> intent.replicas]
          ELSE [uid |-> dep.uid, rv |-> dep.rv, n |-> dep.replicas]

(* A successful call replaced (or found) exactly the version its caller    *)
(* expected, the answer names the version that holds its count, and that   *)
(* version belongs to the Deployment instance whose guards the call        *)
(* checked, never to a replacement of the same name.                       *)
SetIsConditional ==
    [][\A c \in Calls :
          call'[c].pc = "done" /\ call'[c].result = "OK" /\ call[c].pc # "done" =>
             /\ call[c].expected \in {0, Target.rv}
             /\ Target'.rv = call'[c].version
             /\ Target'.n = call[c].n
             /\ Target'.uid = call[c].depUID]_vars

(* README.md: "The service denies ... annotated protected Deployments".    *)
(* Levels 2 to 4 look at the annotation once, before the retry loop of     *)
(* Backend.Set, which then retries over the very conflict that the         *)
(* annotation causes.                                                      *)
ProtectedNotScaled ==
    [][\A c \in Calls :
          call[c].pc = "UpdateScale" /\ call'[c] # call[c] /\ dep' # dep =>
             ~dep.protected]_vars

(* Every call is atomic: the requests of a call, its retries and the writes*)
(* of everybody else in between look to all callers like the abstract      *)
(* register of SetRegister.                                                *)
View ==
    [c \in Calls |->
       [st |-> IF call[c].pc \in CallSteps THEN "pending" ELSE call[c].pc,
        n |-> call[c].n, expected |-> call[c].expected,
        result |-> call[c].result, version |-> call[c].version]]

Register == INSTANCE SetRegister WITH obj <- Target, op <- View

SetIsAtomic == Register!Spec

(* Once the intent is the only writer left, the Deployment follows it and  *)
(* the status says so.  Managed: nothing stands in the way.                *)
Managed ==
    /\ intent.uid # 0 /\ ~intent.deleting
    /\ intent.depUID = dep.uid
    /\ ~dep.deleting /\ ~dep.protected /\ ~hpa

Converged ==
    /\ dep.replicas = intent.replicas
    /\ intent.status.reason = "DesiredStateObserved"
    /\ intent.status.gen = intent.gen

EventuallyConverged == <>[](Managed => Converged)

(* An intent that is not carried out says why: the status of its current   *)
(* generation ends up naming what stands in the way NOW, although each     *)
(* pass reports what it saw some requests ago and passes of two processes  *)
(* overtake each other.                                                    *)
InTheWay ==
    IF Obstacle(intent, dep) = "none" /\ hpa THEN "HPAConflict" ELSE Obstacle(intent, dep)

Explained ==
    intent.status.reason = InTheWay /\ intent.status.gen = intent.gen

EventuallyExplained ==
    <>[](intent.uid # 0 /\ ~intent.deleting /\ InTheWay # "none" => Explained)

-----------------------------------------------------------------------------
(***************************************************************************)
(* Why the safety properties hold: the inductive invariant.                *)
(***************************************************************************)

(* Nothing carries a revision that the API server has not yet given out. *)
RevisionsKnown ==
    /\ dep.rv <= rv /\ intent.rv <= rv
    /\ dep.uid <= rv /\ intent.uid <= rv

(* A pass under way: the intent it read may have moved on, but within one  *)
(* generation its spec is what the pass remembers.                         *)
RemembersSpec(p) ==
    /\ pass[p].intent.uid # 0
    /\ pass[p].intent.uid <= rv
    /\ intent.uid = pass[p].intent.uid =>
          /\ pass[p].intent.gen <= intent.gen
          /\ pass[p].intent.gen = intent.gen =>
                pass[p].intent.replicas = intent.replicas

(* Between GetTarget and the scale write, the Deployment the pass read met *)
(* every guard, and a Deployment with its resourceVersion is that very one.*)
Guarded(p) ==
    /\ pass[p].dep.rv <= rv
    /\ pass[p].dep.uid # 0
    /\ pass[p].dep.uid = pass[p].intent.depUID
    /\ pass[p].dep.protected = FALSE
    /\ pass[p].dep.deleting = FALSE
    /\ dep.uid # 0 /\ dep.rv = pass[p].dep.rv => dep = pass[p].dep

(* What WriteStatus is about to record is about the generation that the    *)
(* pass read, and Ready only if the count of that generation was observed. *)
HonestStatus(p) ==
    /\ pass[p].st.gen = pass[p].intent.gen
    /\ pass[p].st.reason = "DesiredStateObserved" =>
          /\ pass[p].st.replicas = pass[p].intent.replicas
          /\ pass[p].st.ready = pass[p].intent.replicas

(* The version that WriteStatus read pins uid and generation. *)
StatusPinned(p) ==
    /\ pass[p].seen <= rv
    /\ intent.uid # 0 /\ intent.rv = pass[p].seen =>
          intent.uid = pass[p].intent.uid /\ intent.gen = pass[p].intent.gen

PassInv(p) ==
    /\ pass[p].pc # "idle" => RemembersSpec(p)
    /\ pass[p].pc \in {"HasHPA", "GetFresh", "GetScale", "UpdateScale"} => Guarded(p)
    /\ pass[p].pc \in {"GetStatus", "UpdateStatus"} => HonestStatus(p)
    /\ pass[p].pc = "UpdateStatus" => StatusPinned(p)

(* The version that a Set call is about to replace is the expected one and *)
(* belongs to the Deployment instance the call addressed.                  *)
CallInv(c) ==
    /\ call[c].seen <= rv
    /\ call[c].pc \in CallSteps => call[c].n \in Counts
    /\ call[c].pc \in {"GetIntent", "CreateIntent", "UpdateIntent"} => Level = 5
    /\ call[c].pc \in {"GetScale", "UpdateScale"} => Level # 5
    /\ call[c].pc = "CreateIntent" => call[c].expected = 0
    /\ call[c].pc \in {"UpdateScale", "UpdateIntent"} =>
          call[c].expected \in {0, call[c].seen}
    /\ call[c].pc = "UpdateScale" /\ dep.uid # 0 /\ dep.rv = call[c].seen =>
          dep.uid = call[c].depUID
    /\ call[c].pc = "UpdateIntent" /\ intent.uid # 0 /\ intent.rv = call[c].seen =>
          intent.depUID = call[c].depUID

(* Revisions identify contents, passes remember truthfully, calls replace  *)
(* what they read.  This is what makes the properties above inductive.     *)
SafetyInv ==
    /\ TypeOK
    /\ RevisionsKnown
    /\ ReadyIsTrue
    /\ \A p \in Passes : PassInv(p)
    /\ \A c \in Calls : CallInv(c)
=============================================================================
