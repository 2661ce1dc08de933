------------------------------- MODULE Server -------------------------------
(***************************************************************************)
(* cmd/server: the life of one server process.  Its threads are run itself,*)
(* which waits for a signal or an error and then shuts down in order; at   *)
(* level 5 the leader elector with its callback and the loop that copies   *)
(* Ready to the gRPC health service; the two listeners; and the probe loop *)
(* of module Health.  They share the Drain flag, the channel errs and the  *)
(* run context, and each takes its steps at its own pace; only waiting     *)
(* takes time.                                                             *)
(***************************************************************************)
EXTENDS Health

CONSTANTS
    SleepTime,   \* seconds between Drain and the stop of the API server (5)
    StopTime,    \* seconds in-flight calls have to finish (15)
    AdminTime,   \* seconds the health listener has to finish (2)
    Capacity     \* of the channel errs (4)

ASSUME SleepTimeAssumption == SleepTime \in Nat \ {0}
ASSUME StopTimeAssumption == StopTime \in Nat \ {0}
ASSUME AdminTimeAssumption == AdminTime \in Nat \ {0}
ASSUME CapacityAssumption == Capacity \in Nat \ {0}

VARIABLES
    main,        \* the thread of run: [pc, left]
    errs,        \* errors waiting in the channel
    elect,       \* the thread of the elector
    status,      \* the gRPC health loop and what it last set: [pc, tick, val, serving];
                 \* its pc is "none" below level 5
    failed,      \* listeners that stopped with an error
    sigterm,     \* the process was told to terminate
    since        \* seconds since the process has had a reason to end, up to a cap

serverVars == <<main, errs, elect, status, failed, sigterm, since>>
vars == <<healthVars, serverVars>>

(* The health listener, and the API listener: HTTP, or gRPC at level 5. *)
Listeners == {"admin", "api"}

(* cancel() ends the run context, which caches, probes and the elector use.*)
Cancelled == main.pc \in {"admin", "exited"}
Alive == main.pc # "exited"

(* Why a process ends: a signal, a listener that failed, a lost Lease. *)
MustEnd == sigterm \/ failed # {} \/ elect \in {"stopped", "drain", "send", "over"}

(* The longest shutdown, and the cap on since. *)
Shutdown == SleepTime + StopTime + AdminTime
SinceCap == Shutdown + 1

-----------------------------------------------------------------------------
(* Mutant of SendError: the channel is not buffered. *)
SendErrorUnbuffered == errs' = IF main.pc = "serving" /\ errs = 0 THEN 1 ELSE errs

(* sendError: an error that finds the channel full is dropped. *)
SendError == errs' = IF errs < Capacity THEN errs + 1 ELSE errs

(* The kubelet sends SIGTERM; signal.NotifyContext ends the context. *)
Sigterm ==
    /\ Alive /\ ~sigterm
    /\ sigterm' = TRUE
    /\ UNCHANGED <<healthVars, main, errs, elect, status, failed, since>>

(* run has started every thread and waits. *)
MainServes ==
    /\ main.pc = "starting"
    /\ main' = [pc |-> "serving", left |-> 0]
    /\ UNCHANGED <<healthVars, errs, elect, status, failed, sigterm, since>>

(* net.Listen fails at level 5: run returns, without any draining. *)
MainCannotListen ==
    /\ main.pc = "starting" /\ status.pc # "none"
    /\ main' = [pc |-> "exited", left |-> 0]
    /\ UNCHANGED <<healthVars, errs, elect, status, failed, sigterm, since>>

(* Mutant of MainDrains: run stops serving without Drain. *)
MainStopsReady ==
    /\ main.pc = "serving"
    /\ \/ sigterm /\ UNCHANGED errs
       \/ errs > 0 /\ errs' = errs - 1
    /\ main' = [pc |-> "sleeping", left |-> SleepTime]
    /\ UNCHANGED <<healthVars, elect, status, failed, sigterm, since>>

(* A signal or an error; then Drain, before anything is stopped. *)
MainDrains ==
    /\ main.pc = "serving"
    /\ \/ sigterm /\ UNCHANGED errs
       \/ errs > 0 /\ errs' = errs - 1
    /\ draining' = TRUE
    /\ main' = [pc |-> "sleeping", left |-> SleepTime]
    /\ UNCHANGED <<synced, lastOK, age, probe, api, down>>
    /\ UNCHANGED <<elect, status, failed, sigterm, since>>

(* Mutant of MainSlept: the sleep is added to the time of the stop. *)
MainSleptTwice ==
    /\ main.pc = "sleeping" /\ main.left = 0
    /\ main' = [pc |-> "stopping", left |-> SleepTime + StopTime]
    /\ UNCHANGED <<healthVars, errs, elect, status, failed, sigterm, since>>

MainSlept ==
    /\ main.pc = "sleeping" /\ main.left = 0
    /\ main' = [pc |-> "stopping", left |-> StopTime]
    /\ UNCHANGED <<healthVars, errs, elect, status, failed, sigterm, since>>

(* GracefulStop (Shutdown over HTTP) returns as soon as the last call in   *)
(* flight has ended, or Stop (Close) cuts the calls off after StopTime;    *)
(* then cancel.                                                            *)
MainCancels ==
    /\ main.pc = "stopping"
    /\ main' = [pc |-> "admin", left |-> AdminTime]
    /\ UNCHANGED <<healthVars, errs, elect, status, failed, sigterm, since>>

(* admin.Shutdown returns, at the latest after AdminTime. *)
MainReturns ==
    /\ main.pc = "admin"
    /\ main' = [pc |-> "exited", left |-> 0]
    /\ UNCHANGED <<healthVars, errs, elect, status, failed, sigterm, since>>

MainNext == MainServes \/ MainCannotListen \/ MainDrains \/ MainSlept \/ MainCancels \/ MainReturns

-----------------------------------------------------------------------------
(* The elector: acquire, renew, and OnStoppedLeading, which the library    *)
(* runs whenever its Run ends, also for a candidate that never led.        *)

Elected ==
    /\ Alive /\ elect = "candidate" /\ ~Cancelled
    /\ elect' = "leading"
    /\ UNCHANGED <<healthVars, main, errs, status, failed, sigterm, since>>

(* The lease could not be renewed within the deadline. *)
LeaseLost ==
    /\ Alive /\ elect = "leading"
    /\ elect' = "stopped"
    /\ UNCHANGED <<healthVars, main, errs, status, failed, sigterm, since>>

ElectionCancelled ==
    /\ Alive /\ elect \in {"candidate", "leading"} /\ Cancelled
    /\ elect' = "stopped"
    /\ UNCHANGED <<healthVars, main, errs, status, failed, sigterm, since>>

(* The callback asks whether the process is going down anyway ... *)
CallbackChecks ==
    /\ Alive /\ elect = "stopped"
    /\ elect' = IF Cancelled THEN "over" ELSE "drain"
    /\ UNCHANGED <<healthVars, main, errs, status, failed, sigterm, since>>

(* Mutant of CallbackDrains: the callback leaves readiness to run. *)
CallbackStaysReady ==
    /\ Alive /\ elect = "drain"
    /\ elect' = "send"
    /\ UNCHANGED <<healthVars, main, errs, status, failed, sigterm, since>>

(* ... and if not, removes readiness ... *)
CallbackDrains ==
    /\ Alive /\ elect = "drain"
    /\ draining' = TRUE
    /\ elect' = "send"
    /\ UNCHANGED <<synced, lastOK, age, probe, api, down>>
    /\ UNCHANGED <<main, errs, status, failed, sigterm, since>>

(* ... and ends the process. *)
CallbackSends ==
    /\ Alive /\ elect = "send"
    /\ SendError
    /\ elect' = "over"
    /\ UNCHANGED <<healthVars, main, status, failed, sigterm, since>>

ElectionNext == ElectionCancelled \/ CallbackChecks \/ CallbackDrains \/ CallbackSends

-----------------------------------------------------------------------------
(* The gRPC health loop: every second it calls Ready, which reads lastGood *)
(* and draining first and lastOK last, then sets the status of both        *)
(* service names to the result.                                            *)

StatusReads ==
    /\ Alive /\ status.pc = "wait" /\ status.tick
    /\ status' = [status EXCEPT !.pc = "read", !.tick = FALSE,
                                !.val = ~draining /\ synced /\ age < Fresh]
    /\ UNCHANGED <<healthVars, main, errs, elect, failed, sigterm, since>>

StatusReadsOK ==
    /\ Alive /\ status.pc = "read"
    /\ status' = [status EXCEPT !.pc = "set", !.val = status.val /\ lastOK]
    /\ UNCHANGED <<healthVars, main, errs, elect, failed, sigterm, since>>

StatusSets ==
    /\ Alive /\ status.pc = "set"
    /\ status' = [status EXCEPT !.pc = "wait", !.serving = status.val]
    /\ UNCHANGED <<healthVars, main, errs, elect, failed, sigterm, since>>

(* hs.Shutdown *)
StatusShuts ==
    /\ Alive /\ status.pc = "wait" /\ Cancelled
    /\ status' = [status EXCEPT !.pc = "closed", !.serving = FALSE]
    /\ UNCHANGED <<healthVars, main, errs, elect, failed, sigterm, since>>

StatusNext == StatusReads \/ StatusReadsOK \/ StatusSets \/ StatusShuts

(* A listener ends with an error of its own; a listener that is stopped by *)
(* run ends with ErrServerStopped or ErrServerClosed, which is not sent.   *)
ListenerFails(l) ==
    /\ Alive /\ l \notin failed
    /\ l = "api" => main.pc \in {"starting", "serving", "sleeping"}
    /\ l = "admin" => main.pc # "admin"
    /\ failed' = failed \cup {l}
    /\ SendError
    /\ UNCHANGED <<healthVars, main, elect, status, sigterm, since>>

-----------------------------------------------------------------------------
(* Time passes only while every thread waits for something. *)
Due ==
    \/ main.pc = "starting"
    \/ main.pc = "serving" /\ (sigterm \/ errs > 0)
    \/ main.pc \in {"sleeping", "stopping", "admin"} /\ main.left = 0
    \/ elect \in {"stopped", "drain", "send"}
    \/ elect \in {"candidate", "leading"} /\ Cancelled
    \/ status.pc \in {"read", "set"}
    \/ status.pc = "wait" /\ (status.tick \/ Cancelled)
    \/ probe.pc = "wait" /\ Cancelled

Tick ==
    /\ Alive /\ ~Due
    /\ HealthTick
    /\ main' = [main EXCEPT !.left = IF main.left = 0 THEN 0 ELSE @ - 1]
    /\ status' = [status EXCEPT !.tick = status.pc \notin {"none", "closed"}]
    /\ since' = IF MustEnd /\ since < SinceCap THEN since + 1 ELSE since
    /\ UNCHANGED <<errs, elect, failed, sigterm>>

(* The probe loop and its surroundings belong to this process. *)
ProbeWorks == Alive /\ ProbeNext /\ UNCHANGED serverVars
ProbeEnds == Alive /\ Cancelled /\ ProbeStops /\ UNCHANGED serverVars
Surroundings == Alive /\ (APIChanges \/ CacheSyncs) /\ UNCHANGED serverVars

(* One of the five applications, with or without -leader-election; both    *)
(* the election and gRPC are of level 5 only.                              *)
Init == \E level \in 1..5, election \in BOOLEAN :
    /\ HealthInit
    /\ main = [pc |-> "starting", left |-> 0]
    /\ errs = 0
    /\ elect = IF level = 5 /\ election THEN "candidate" ELSE "none"
    /\ status = [pc |-> IF level = 5 THEN "wait" ELSE "none",
                 tick |-> FALSE, val |-> FALSE, serving |-> FALSE]
    /\ failed = {}
    /\ sigterm = FALSE
    /\ since = 0

Next ==
    \/ MainNext \/ Elected \/ LeaseLost \/ ElectionNext \/ StatusNext
    \/ \E l \in Listeners : ListenerFails(l)
    \/ ProbeWorks \/ ProbeEnds \/ Surroundings \/ Sigterm \/ Tick

Spec == Init /\ [][Next]_vars

-----------------------------------------------------------------------------
TypeOK ==
    /\ HealthTypeOK
    /\ main \in [pc : {"starting", "serving", "sleeping", "stopping", "admin", "exited"},
                 left : 0..Shutdown]
    /\ errs \in 0..Capacity
    /\ elect \in {"none", "candidate", "leading", "stopped", "drain", "send", "over"}
    /\ status \in [pc : {"none", "wait", "read", "set", "closed"}, tick : BOOLEAN,
                   val : BOOLEAN, serving : BOOLEAN]
    /\ failed \subseteq Listeners
    /\ sigterm \in BOOLEAN
    /\ since \in 0..SinceCap

(* Traffic is turned away before it is refused: a second after the process *)
(* has had a reason to end (a signal, a failed listener, a lost Lease), and *)
(* for the rest of its life, both /readyz and the gRPC health status are   *)
(* negative, although the loop that copies one to the other may have read  *)
(* Ready just before Drain.                                                *)
DrainIsSeen == Alive /\ since > 1 => ~Ready /\ ~status.serving

(* An outage of the Kubernetes API removes readiness within Notice, and a  *)
(* second later the gRPC status: long before the last success grows too    *)
(* old, even if the answer to the last good probe was slow to arrive.      *)
OutageIsSeen ==
    /\ down > Notice => ~Ready
    /\ down > Notice + 1 => ~status.serving

(* After a signal, a failed listener or a lost Lease the process is gone   *)
(* within the sum of its three waits: no error is lost, whether it comes   *)
(* before run waits for it, together with others or during the shutdown.   *)
(* The chart grants 40 s.                                                  *)
ExitsInTime == Alive => since <= Shutdown

(* A process whose elector has ended is not ready again. *)
LostLeaderNotReady == elect \in {"send", "over"} => ~Ready

(* Why these hold.  run leaves no second between a reason to end and       *)
(* Drain, because the reason is a signal or waits in the channel; then its *)
(* three waits follow each other...                                        *)
ShutdownInOrder ==
    /\ errs > 0 => failed # {} \/ elect = "over"
    /\ main.pc \in {"starting", "serving"} =>
          since = 0 /\ (failed # {} \/ elect = "over" => errs > 0)
    /\ main.pc \in {"sleeping", "stopping", "admin"} => draining /\ MustEnd
    /\ main.pc = "sleeping" => since + main.left = SleepTime
    /\ main.pc = "stopping" => since >= SleepTime /\ since + main.left <= SleepTime + StopTime
    /\ main.pc = "admin" => since >= SleepTime /\ since + main.left <= Shutdown
    /\ elect \in {"send", "over"} => draining

(* ...a success is never older than a probe, a period and a probe, unless  *)
(* the probe loop has ended with its process...                            *)
ProbeOnTime ==
    /\ probe.pc = "first" => ~lastOK
    /\ probe.pc # "first" => probe.next > 0
    /\ probe.pc = "stopped" => draining /\ since > 0
    /\ lastOK /\ probe.pc = "check" => down + probe.left <= Notice
    /\ lastOK /\ probe.pc = "good" => down <= Deadline
    /\ lastOK /\ probe.pc = "wait" =>
          IF probe.tick THEN down <= Deadline + Period ELSE down + probe.next <= Deadline + Period

(* ...and what the gRPC loop has read in an earlier second it has set.     *)
StatusFollows ==
    /\ status.pc \in {"none", "closed"} => ~status.serving
    /\ since > 0 => /\ status.pc \in {"read", "set"} => ~status.val
                    /\ status.pc = "wait" /\ ~status.tick => ~status.serving
    /\ down > Notice => /\ status.pc = "read" => ~(status.val /\ lastOK)
                        /\ status.pc = "set" => ~status.val
                        /\ status.pc = "wait" /\ ~status.tick => ~status.serving

(* What holds of readiness while the process goes down, for any reason. *)
ServerInv ==
    /\ TypeOK /\ DrainIsSeen /\ LostLeaderNotReady
    /\ ShutdownInOrder /\ ProbeOnTime /\ StatusFollows
=============================================================================
