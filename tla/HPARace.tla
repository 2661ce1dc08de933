------------------------------ MODULE HPARace ------------------------------
(***************************************************************************)
(* Two controllers of one Deployment.  An HPA shares no version with the   *)
(* Deployment or the intent, so nothing orders its creation with a write   *)
(* whose HasHPA check is already done.  ReplicaControl is extended by a    *)
(* history variable that tells the writes of that unavoidable window from  *)
(* those that would be a fight.                                            *)
(***************************************************************************)
EXTENDS ReplicaControl

(* A call of SetReplicas is not a pass of a controller. *)
ASSUME ActorsAssumption == Calls \cap Passes = {}

VARIABLES
    warned    \* calls and processes that were between two runs of theirs
              \* since the HPA appeared: what they do now starts after it

AtRest == {c \in Calls : call[c].pc = "idle"} \cup {p \in Passes : pass[p].pc = "idle"}

HPAInit == Init /\ warned = {}

HPANext == Next /\ warned' = IF hpa' THEN (IF hpa THEN warned \cup AtRest ELSE {}) ELSE {}

HPASpec == HPAInit /\ [][HPANext]_<<vars, warned>>

(* Nobody who starts after the HPA appeared gets beyond the HasHPA check:  *)
(* a call does not touch the intent (or the scale), and a process that     *)
(* writes late, from a pass begun before, does so in that one pass only.   *)
(* HasHPA: "The check and a later scale write are separate Kubernetes      *)
(* operations."                                                            *)
HPARespected ==
    /\ \A c \in Calls \cap warned : call[c].pc \in {"idle", "GetTarget", "HasHPA", "done"}
    /\ \A p \in Passes \cap warned : pass[p].pc \notin {"GetFresh", "GetScale", "UpdateScale"}
=============================================================================
