---------------------------- MODULE SetRegister ----------------------------
(***************************************************************************)
(* What SetReplicas promises its callers, without saying how: a register   *)
(* that holds a count and a version.  A successful call takes effect at    *)
(* ONE instant between its invocation and its answer, at which the version *)
(* was the expected one; it answers with the version of that instant.  A   *)
(* refused call has no effect.  Only a call that answers Unavailable may   *)
(* leave its caller in doubt.                                              *)
(***************************************************************************)
EXTENDS Integers

CONSTANTS Calls, Counts

VARIABLES
    rv,     \* revision of the latest write to anything
    obj,    \* the register: [uid, rv, n]; uid = 0 when there is none
    op      \* op[c]: the call as its caller sees it

Idle == [st |-> "idle", n |-> 0, expected |-> 0, result |-> "OK", version |-> 0]

Answered(c, result, version) ==
    op' = [op EXCEPT ![c] = [Idle EXCEPT !.st = "done", !.result = result,
                                         !.version = version]]

(* The caller picks the count and the expected version. *)
Invoke(c) ==
    /\ op[c].st = "idle"
    /\ op'[c].n \in Counts
    /\ op' = [op EXCEPT ![c] = [Idle EXCEPT !.st = "pending", !.n = op'[c].n,
                                            !.expected = op'[c].expected]]
    /\ UNCHANGED <<rv, obj>>

(* The effect of a call, at one instant. *)
Effect(c) ==
    /\ op[c].st = "pending"
    /\ op[c].expected \in {0, obj.rv}
    /\ IF obj.uid # 0 /\ obj.n = op[c].n
       THEN UNCHANGED <<rv, obj>>
       ELSE /\ rv' = rv + 1
            /\ obj.uid \in {0, obj'.uid}
            /\ obj' = [uid |-> obj'.uid, rv |-> rv', n |-> op[c].n]

Succeed(c) == Effect(c) /\ Answered(c, "OK", obj'.rv)

InDoubt(c) == Effect(c) /\ Answered(c, "Unavailable", 0)

Refuse(c) ==
    /\ op[c].st \in {"idle", "pending"}
    /\ op'[c].result # "OK"
    /\ Answered(c, op'[c].result, 0)
    /\ UNCHANGED <<rv, obj>>

Finish(c) ==
    /\ op[c].st = "done"
    /\ op' = [op EXCEPT ![c] = Idle]
    /\ UNCHANGED <<rv, obj>>

(* Somebody else writes: a version is never used twice. *)
OtherWrite ==
    /\ rv' > rv
    /\ obj' = obj \/ obj'.rv \in {0, rv'}
    /\ UNCHANGED op

Init == op = [c \in Calls |-> Idle]

Next ==
    \/ OtherWrite
    \/ \E c \in Calls : Invoke(c) \/ Succeed(c) \/ InDoubt(c) \/ Refuse(c) \/ Finish(c)

Spec == Init /\ [][Next]_<<rv, obj, op>>
=============================================================================
