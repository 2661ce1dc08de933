------------------------------ MODULE SetCall ------------------------------
(***************************************************************************)
(* SetReplicas: service.Set, Backend.Set and setIntent, one action per     *)
(* request to the API server.  Nothing is locked between two requests, so  *)
(* the steps of several calls, of a reconciler and of other users of the   *)
(* cluster interleave freely.                                              *)
(*                                                                         *)
(* Levels 2 to 4 write the Deployment's scale subresource; level 5 writes  *)
(* a ReplicaIntent that the controller applies later.                      *)
(***************************************************************************)
EXTENDS Cluster

CONSTANTS
    Level,       \* which of the five applications runs
    Calls        \* concurrent calls of SetReplicas

ASSUME LevelAssumption == Level \in 1..5

VARIABLES
    call      \* call[c]: the locals of one call

(* Error codes of internal/model that a Set can return, and "OK". *)
Codes == {"OK", "InvalidArgument", "NotFound", "Conflict", "Forbidden",
          "FailedPrecondition", "Unavailable"}

(* What the call does next: "GetTarget" before backend.go:208, and so on;   *)
(* "idle" and "done" are outside the handler.                              *)
CallSteps == {"GetTarget", "HasHPA", "GetScale", "UpdateScale",
              "GetIntent", "CreateIntent", "UpdateIntent"}

(* The counts a caller may ask for, out-of-range ones included. *)
Requests == (0 - 1)..(MaxReplicas + 1)

Call ==
    [pc : CallSteps \cup {"idle", "done"}, n : Requests,
     expected : Nat,    \* expectedVersion; 0 is the empty string
     depUID : Nat,      \* dep.UID of the GetTarget of this call
     seen : Nat,        \* resourceVersion of the object last read
     tries : Nat,       \* attempts of the retry loop already used up
     result : Codes, version : Nat]

IdleCall == [pc |-> "idle", n |-> 0, expected |-> 0, depUID |-> 0, seen |-> 0,
             tries |-> 0, result |-> "OK", version |-> 0]

-----------------------------------------------------------------------------
Goto(c, pc) == call' = [call EXCEPT ![c].pc = pc]

(* What the handler answers: all that is left of its locals. *)
Answer(c, result, version) ==
    call' = [call EXCEPT ![c] = [IdleCall EXCEPT !.pc = "done",
                                                 !.result = result,
                                                 !.version = version]]

Fail(c, code) == Answer(c, code, 0)

(* retry.OnError and retry.RetryOnConflict: back to the first request of   *)
(* the loop, or the conflict itself when the attempts are used up.         *)
Retry(c, first) ==
    IF call[c].tries + 1 < Attempts
    THEN call' = [call EXCEPT ![c].pc = first, ![c].seen = 0,
                              ![c].tries = call[c].tries + 1]
    ELSE Fail(c, "Conflict")

(* The expected versions worth sending: none, what a read returns now, and *)
(* a stale one.  Versions only grow, so all stale ones are alike.          *)
Versions == {0, 1, dep.rv, intent.rv}

(* Mutant of StartSet: the count is not validated. *)
StartSetUnchecked(c) ==
    /\ rv < EnvLimit
    /\ call[c].pc = "idle"
    /\ \E n \in Requests, e \in Versions :
          call' = [call EXCEPT ![c] = [IdleCall EXCEPT !.pc = "GetTarget", !.n = n,
                                                       !.expected = e]]
    /\ UNCHANGED <<clusterVars, faults>>

(* service.Set validates the count before the backend sees the request;    *)
(* Backend.Set refuses to write at level 1.                                *)
StartSet(c) ==
    /\ rv < EnvLimit
    /\ call[c].pc = "idle"
    /\ \E n \in Requests, e \in Versions :
          IF n \notin Counts THEN Fail(c, "InvalidArgument")
          ELSE IF Level < 2 THEN Fail(c, "Forbidden")
          ELSE call' = [call EXCEPT ![c] = [IdleCall EXCEPT !.pc = "GetTarget",
                                                            !.n = n,
                                                            !.expected = e]]
    /\ UNCHANGED <<clusterVars, faults>>

(* Backend.GetTarget and the first half of checkWritable. *)
CallGetTarget(c) ==
    /\ call[c].pc = "GetTarget"
    /\ \/ dep.uid = 0 /\ Fail(c, "NotFound")
       \/ dep.uid # 0 /\ dep.deleting /\ Fail(c, "FailedPrecondition")
       \/ dep.uid # 0 /\ ~dep.deleting /\ dep.protected /\ Fail(c, "Forbidden")
       \/ /\ dep.uid # 0 /\ ~dep.deleting /\ ~dep.protected
          /\ call' = [call EXCEPT ![c].pc = "HasHPA", ![c].depUID = dep.uid]
    /\ UNCHANGED <<clusterVars, faults>>

(* Mutant of CallHasHPA: the answer is not looked at. *)
CallHasHPAIgnored(c) ==
    /\ call[c].pc = "HasHPA"
    /\ Goto(c, IF Level = 5 THEN "GetIntent" ELSE "GetScale")
    /\ UNCHANGED <<clusterVars, faults>>

(* The second half of checkWritable, then the level decides. *)
CallHasHPA(c) ==
    /\ call[c].pc = "HasHPA"
    /\ IF hpa
       THEN Fail(c, "FailedPrecondition")
       ELSE Goto(c, IF Level = 5 THEN "GetIntent" ELSE "GetScale")
    /\ UNCHANGED <<clusterVars, faults>>

-----------------------------------------------------------------------------
(* Levels 2 to 4: the retry loop of Backend.Set. *)

(* Mutants of CallGetScale: a replaced Deployment, or another version than *)
(* the expected one, goes unnoticed.                                       *)
CallGetScaleAnyUID(c) ==
    /\ call[c].pc = "GetScale"
    /\ \/ dep.uid = 0 /\ Fail(c, "NotFound")
       \/ dep.uid # 0 /\ call[c].expected \notin {0, dep.rv} /\ Fail(c, "Conflict")
       \/ dep.uid # 0 /\ call[c].expected \in {0, dep.rv}
          /\ call' = [call EXCEPT ![c].pc = "UpdateScale", ![c].seen = dep.rv]
    /\ UNCHANGED <<clusterVars, faults>>

CallGetScaleAnyVersion(c) ==
    /\ call[c].pc = "GetScale"
    /\ IF dep.uid # 0 /\ dep.uid = call[c].depUID
       THEN call' = [call EXCEPT ![c].pc = "UpdateScale", ![c].seen = dep.rv]
       ELSE Fail(c, "Conflict")
    /\ UNCHANGED <<clusterVars, faults>>

CallGetScale(c) ==
    /\ call[c].pc = "GetScale"
    /\ \/ dep.uid = 0 /\ Fail(c, "NotFound")
       \/ dep.uid # 0 /\ dep.uid # call[c].depUID /\ Fail(c, "Conflict")
       \/ /\ dep.uid # 0 /\ dep.uid = call[c].depUID
          /\ IF call[c].expected \notin {0, dep.rv}
             THEN Fail(c, "Conflict")
             ELSE call' = [call EXCEPT ![c].pc = "UpdateScale", ![c].seen = dep.rv]
    /\ UNCHANGED <<clusterVars, faults>>

(* The API server takes the scale only at the resourceVersion that was     *)
(* read; an update that changes nothing keeps the version.                 *)
CallUpdateScale(c) ==
    /\ call[c].pc = "UpdateScale"
    /\ \/ /\ dep.uid # 0 /\ dep.rv = call[c].seen
          /\ StoreScale(call[c].n)
          /\ Answer(c, "OK", dep'.rv)
       \/ dep.uid # 0 /\ dep.rv # call[c].seen /\ Retry(c, "GetScale")
                      /\ UNCHANGED clusterVars
       \/ dep.uid = 0 /\ Fail(c, "NotFound") /\ UNCHANGED clusterVars
    /\ UNCHANGED faults

-----------------------------------------------------------------------------
(* Level 5: the retry loop of setIntent. *)

(* Mutant of CallGetIntent: an intent of an earlier Deployment of the same *)
(* name is taken for one of this Deployment.                               *)
CallGetIntentAnyUID(c) ==
    /\ call[c].pc = "GetIntent"
    /\ \/ /\ intent.uid = 0
          /\ IF call[c].expected # 0 THEN Fail(c, "Conflict")
                                     ELSE Goto(c, "CreateIntent")
       \/ /\ intent.uid # 0 /\ call[c].expected \in {0, intent.rv}
          /\ call' = [call EXCEPT ![c].pc = "UpdateIntent", ![c].seen = intent.rv]
       \/ /\ intent.uid # 0 /\ call[c].expected \notin {0, intent.rv}
          /\ Fail(c, "Conflict")
    /\ UNCHANGED <<clusterVars, faults>>

CallGetIntent(c) ==
    /\ call[c].pc = "GetIntent"
    /\ \/ /\ intent.uid = 0
          /\ IF call[c].expected # 0 THEN Fail(c, "Conflict")
                                     ELSE Goto(c, "CreateIntent")
       \/ /\ intent.uid # 0
          /\ intent.deleting \/ intent.depUID # call[c].depUID
          /\ Fail(c, "FailedPrecondition")
       \/ /\ intent.uid # 0
          /\ ~intent.deleting /\ intent.depUID = call[c].depUID
          /\ IF call[c].expected \notin {0, intent.rv}
             THEN Fail(c, "Conflict")
             ELSE IF intent.replicas # call[c].n
             THEN call' = [call EXCEPT ![c].pc = "UpdateIntent",
                                       ![c].seen = intent.rv]
             ELSE Answer(c, "OK", intent.rv)
    /\ UNCHANGED <<clusterVars, faults>>

CallCreateIntent(c) ==
    /\ call[c].pc = "CreateIntent"
    /\ \/ /\ intent.uid = 0
          /\ StoreIntent(NewIntent(call[c].depUID, call[c].n))
          /\ Answer(c, "OK", rv + 1)
       \/ intent.uid # 0 /\ Retry(c, "GetIntent") /\ UNCHANGED clusterVars
    /\ UNCHANGED faults

(* Mutant of CallUpdateIntent: the update carries no resourceVersion. *)
CallUpdateIntentBlind(c) ==
    /\ call[c].pc = "UpdateIntent"
    /\ IF intent.uid # 0
       THEN /\ StoreIntent(WithReplicas(intent, call[c].n))
            /\ Answer(c, "OK", rv + 1)
       ELSE Fail(c, "NotFound") /\ UNCHANGED clusterVars
    /\ UNCHANGED faults

CallUpdateIntent(c) ==
    /\ call[c].pc = "UpdateIntent"
    /\ \/ /\ intent.uid # 0 /\ intent.rv = call[c].seen
          /\ StoreIntent(WithReplicas(intent, call[c].n))
          /\ Answer(c, "OK", rv + 1)
       \/ intent.uid # 0 /\ intent.rv # call[c].seen /\ Retry(c, "GetIntent")
                         /\ UNCHANGED clusterVars
       \/ intent.uid = 0 /\ Fail(c, "NotFound") /\ UNCHANGED clusterVars
    /\ UNCHANGED faults

-----------------------------------------------------------------------------
(* A request fails: nothing reached the API server, or the deadline passed,*)
(* or the server answered with an error that no retry loop retries.        *)
CallRequestFails(c) ==
    /\ faults < MaxFaults
    /\ call[c].pc \in CallSteps
    /\ Fail(c, "Unavailable")
    /\ faults' = faults + 1
    /\ UNCHANGED clusterVars

(* A write is applied and its response is lost: the caller sees an error. *)
CallResponseLost(c) ==
    /\ faults < MaxFaults
    /\ \/ /\ call[c].pc = "UpdateScale"
          /\ dep.uid # 0 /\ dep.rv = call[c].seen
          /\ StoreScale(call[c].n)
       \/ /\ call[c].pc = "CreateIntent"
          /\ intent.uid = 0
          /\ StoreIntent(NewIntent(call[c].depUID, call[c].n))
       \/ /\ call[c].pc = "UpdateIntent"
          /\ intent.uid # 0 /\ intent.rv = call[c].seen
          /\ StoreIntent(WithReplicas(intent, call[c].n))
    /\ Fail(c, "Unavailable")
    /\ faults' = faults + 1

(* The answer has reached the caller. *)
Return(c) ==
    /\ call[c].pc = "done"
    /\ call' = [call EXCEPT ![c] = IdleCall]
    /\ UNCHANGED <<clusterVars, faults>>

CallStep(c) ==
    \/ CallGetTarget(c) \/ CallHasHPA(c)
    \/ CallGetScale(c) \/ CallUpdateScale(c)
    \/ CallGetIntent(c) \/ CallCreateIntent(c) \/ CallUpdateIntent(c)

CallNext(c) ==
    StartSet(c) \/ CallStep(c) \/ CallRequestFails(c) \/ CallResponseLost(c)
    \/ Return(c)

CallTypeOK == call \in [Calls -> Call]

CallInit == call = [c \in Calls |-> IdleCall]
=============================================================================
