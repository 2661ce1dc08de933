------------------------------- MODULE Lease -------------------------------
(***************************************************************************)
(* The server processes of a level-5 deployment and the Lease that elects  *)
(* the one whose controller works: the configuration and the callbacks of  *)
(* cmd/server around the elector of client-go (external).                  *)
(*                                                                         *)
(* The elector reads the Lease and updates it at the version it read.  A   *)
(* candidate takes it over once the record has not changed for             *)
(* LeaseDuration as seen by the candidate's own clock; a leader that has   *)
(* not renewed for RenewDeadline cancels its controller.  Time is counted  *)
(* in seconds; countdowns and ages replace clock readings, and a flag per  *)
(* process ("the record has moved since you read it") replaces versions.   *)
(***************************************************************************)
EXTENDS Naturals

CONSTANTS
    Procs,
    LeaseDuration, RenewDeadline, RetryPeriod,   \* 15, 10, 2 in the code
    Latency,      \* longest time a request to the API server is under way
    DrainTime,    \* from the signal or the error to cancel() (at most 5 + 15)
    MaxFaults,    \* BOUND: signals, crashes and changes of reachability
    Nobody,       \* the Lease has no holder
    Former        \* its holder is a process that is no more

(* The margin of the configuration: 2 * 1 + 2 + 10 < 15.  client-go does   *)
(* not fence leaders; slower requests are what module Reconcile is about.  *)
ASSUME LeaseAssumption ==
    /\ {LeaseDuration, RenewDeadline, RetryPeriod, Latency, DrainTime, MaxFaults} \subseteq Nat
    /\ RetryPeriod > 0 /\ RenewDeadline > RetryPeriod + Latency
    /\ 2 * Latency + RetryPeriod + RenewDeadline < LeaseDuration
    /\ Nobody \notin Procs /\ Former \notin Procs /\ Nobody # Former

VARIABLES
    holder,   \* holderIdentity of the Lease
    moved,    \* moved[p]: the record has changed since p last read or wrote it
    proc,     \* proc[p]: the elector of p and its process
    reach,    \* reach[p]: can p talk to the API server?
    faults

leaseVars == <<holder, moved, proc, reach, faults>>

Proc ==
    [pc : {"down", "candidate", "leading", "ended"},
     req : {"none", "update", "answer"},   \* what the elector waits for
     left : 0..Latency,                    \* rest of the time of that request
     wait : 0..RetryPeriod,                \* until the next try
     deadline : 0..(RetryPeriod + RenewDeadline),
     age : 0..LeaseDuration,               \* since observedTime, capped
     draining : BOOLEAN, exit : 0..DrainTime,
     busy : 0..Latency]                    \* a write of the controller under way

Started == [pc |-> "candidate", req |-> "none", left |-> 0, wait |-> 0, deadline |-> 0,
            age |-> 0, draining |-> FALSE, exit |-> 0, busy |-> 0]

Campaigns(p) == proc[p].pc \in {"candidate", "leading"}

(* A write of the record: everybody else's copy is outdated. *)
Write(p, h) ==
    /\ holder' = h
    /\ moved' = [q \in Procs |-> q # p]

-----------------------------------------------------------------------------
(* tryAcquireOrRenew *)

NextTry(p) == [proc[p] EXCEPT !.req = "none", !.left = 0, !.wait = RetryPeriod]

TryReads(p) ==
    /\ Campaigns(p) /\ reach[p]
    /\ proc[p].req = "none" /\ proc[p].wait = 0
    /\ LET age == IF moved[p] THEN 0 ELSE proc[p].age
       IN  proc' = [proc EXCEPT ![p] =
              IF holder \in {Nobody, p} \/ age >= LeaseDuration
              THEN [@ EXCEPT !.age = age, !.req = "update", !.left = Latency]
              ELSE [NextTry(p) EXCEPT !.age = age]]
    /\ moved' = [moved EXCEPT ![p] = FALSE]
    /\ UNCHANGED <<holder, reach, faults>>

TryUpdates(p) ==
    /\ Campaigns(p) /\ reach[p]
    /\ proc[p].req = "update"
    /\ \/ moved[p] /\ proc' = [proc EXCEPT ![p] = NextTry(p)] /\ UNCHANGED <<holder, moved>>
       \/ ~moved[p] /\ Write(p, p) /\ proc' = [proc EXCEPT ![p].req = "answer"]
    /\ UNCHANGED <<reach, faults>>

(* The answer: a candidate calls OnStartedLeading and renews at once; a    *)
(* leader starts its next renewal after RetryPeriod.                       *)
TrySucceeds(p) ==
    /\ Campaigns(p) /\ reach[p]
    /\ proc[p].req = "answer"
    /\ proc' = [proc EXCEPT ![p] =
          IF proc[p].pc = "candidate"
          THEN [@ EXCEPT !.pc = "leading", !.req = "none", !.left = 0, !.age = 0,
                         !.deadline = RenewDeadline]
          ELSE [NextTry(p) EXCEPT !.age = 0, !.deadline = RetryPeriod + RenewDeadline]]
    /\ UNCHANGED <<holder, moved, reach, faults>>

(* The request, or its answer, is lost. *)
TryFails(p) ==
    /\ Campaigns(p) /\ ~reach[p]
    /\ proc[p].wait = 0
    /\ proc' = [proc EXCEPT ![p] = NextTry(p)]
    /\ UNCHANGED <<holder, moved, reach, faults>>

-----------------------------------------------------------------------------
(* The process. *)

(* Mutant of StoppedLeading: the callback does not end the process. *)
StoppedLeadingStays(p) ==
    /\ proc[p].pc = "leading" /\ proc[p].deadline = 0
    /\ proc' = [proc EXCEPT ![p] = [@ EXCEPT !.pc = "ended", !.req = "none", !.left = 0]]
    /\ UNCHANGED <<holder, moved, reach, faults>>

(* The deadline has passed: the controller's context is cancelled, then    *)
(* OnStoppedLeading removes readiness and ends the process.  The elector   *)
(* is never run again.                                                     *)
StoppedLeading(p) ==
    /\ proc[p].pc = "leading" /\ proc[p].deadline = 0
    /\ proc' = [proc EXCEPT ![p] =
          [@ EXCEPT !.pc = "ended", !.req = "none", !.left = 0, !.draining = TRUE,
                    !.exit = IF proc[p].draining THEN proc[p].exit ELSE DrainTime]]
    /\ UNCHANGED <<holder, moved, reach, faults>>

(* ctl.Run: the controller of the leader writes. *)
StartWork(p) ==
    /\ proc[p].pc = "leading" /\ proc[p].busy = 0
    /\ proc' = [proc EXCEPT ![p].busy = Latency]
    /\ UNCHANGED <<holder, moved, reach, faults>>

(* Mutant of Terminate: every further signal prolongs the drain. *)
TerminateAgain(p) ==
    /\ faults < MaxFaults
    /\ Campaigns(p)
    /\ proc' = [proc EXCEPT ![p].draining = TRUE, ![p].exit = @ + DrainTime]
    /\ faults' = faults + 1
    /\ UNCHANGED <<holder, moved, reach>>

(* SIGTERM: the process drains and leads on until cancel(). *)
Terminate(p) ==
    /\ faults < MaxFaults
    /\ Campaigns(p) /\ ~proc[p].draining
    /\ proc' = [proc EXCEPT ![p].draining = TRUE, ![p].exit = DrainTime]
    /\ faults' = faults + 1
    /\ UNCHANGED <<holder, moved, reach>>

Gone(p) == [Started EXCEPT !.pc = "down", !.busy = proc[p].busy]

(* Mutant of Exit: the elector releases the Lease when it is cancelled. *)
ExitReleases(p) ==
    /\ proc[p].draining /\ proc[p].exit = 0
    /\ proc' = [proc EXCEPT ![p] = Gone(p)]
    /\ IF proc[p].pc = "leading" /\ holder = p THEN Write(p, Nobody)
                                               ELSE UNCHANGED <<holder, moved>>
    /\ UNCHANGED <<reach, faults>>

(* cancel() and the end of the process.  The Lease is not released; what   *)
(* the controller has sent may still be under way.                         *)
Exit(p) ==
    /\ proc[p].draining /\ proc[p].exit = 0
    /\ proc' = [proc EXCEPT ![p] = Gone(p)]
    /\ UNCHANGED <<holder, moved, reach, faults>>

Crash(p) ==
    /\ faults < MaxFaults
    /\ proc[p].pc # "down"
    /\ proc' = [proc EXCEPT ![p] = Gone(p)]
    /\ faults' = faults + 1
    /\ UNCHANGED <<holder, moved, reach>>

(* The kubelet starts the process again, later than the last request of    *)
(* the old one.  Its identity is a new one (the UUID after the host name), *)
(* and it knows nothing of the record.                                     *)
Restart(p) ==
    /\ proc[p].pc = "down" /\ proc[p].busy = 0
    /\ proc' = [proc EXCEPT ![p] = Started]
    /\ moved' = [moved EXCEPT ![p] = TRUE]
    /\ holder' = IF holder = p THEN Former ELSE holder
    /\ UNCHANGED <<reach, faults>>

ReachChanges(p) ==
    /\ faults < MaxFaults
    /\ reach' = [reach EXCEPT ![p] = ~@]
    /\ faults' = faults + 1
    /\ UNCHANGED <<holder, moved, proc>>

-----------------------------------------------------------------------------
(* What may not wait for another second. *)
Due(p) ==
    \/ Campaigns(p) /\ IF proc[p].req = "none" THEN proc[p].wait = 0 ELSE proc[p].left = 0
    \/ proc[p].pc = "leading" /\ proc[p].deadline = 0
    \/ proc[p].draining /\ proc[p].exit = 0

Less(n) == IF n = 0 THEN 0 ELSE n - 1

Tick ==
    /\ \A p \in Procs : ~Due(p)
    /\ proc' = [p \in Procs |->
          [proc[p] EXCEPT !.left = Less(@), !.wait = Less(@), !.deadline = Less(@),
                          !.exit = Less(@), !.busy = Less(@),
                          !.age = IF @ < LeaseDuration /\ Campaigns(p) THEN @ + 1 ELSE @]]
    /\ UNCHANGED <<holder, moved, reach, faults>>

Elector(p) == TryReads(p) \/ TryUpdates(p) \/ TrySucceeds(p) \/ TryFails(p)

Process(p) == StoppedLeading(p) \/ Exit(p) \/ Restart(p)

LeaseInit ==
    /\ holder = Nobody
    /\ moved = [p \in Procs |-> TRUE]
    /\ proc = [p \in Procs |-> Started]
    /\ reach = [p \in Procs |-> TRUE]
    /\ faults = 0

LeaseNext ==
    \/ Tick
    \/ \E p \in Procs :
          \/ Elector(p) \/ Process(p)
          \/ StartWork(p) \/ Terminate(p) \/ Crash(p) \/ ReachChanges(p)

LeaseSpec == LeaseInit /\ [][LeaseNext]_leaseVars

(* Time passes, electors and processes run. *)
FairLeaseSpec ==
    /\ LeaseSpec
    /\ WF_leaseVars(Tick)
    /\ \A p \in Procs : WF_leaseVars(Elector(p)) /\ WF_leaseVars(Process(p))

-----------------------------------------------------------------------------
LeaseTypeOK ==
    /\ holder \in Procs \cup {Nobody, Former}
    /\ moved \in [Procs -> BOOLEAN]
    /\ proc \in [Procs -> Proc]
    /\ reach \in [Procs -> BOOLEAN]
    /\ faults \in 0..MaxFaults

(* One controller at a time: while one process leads, or a write of its    *)
(* controller is still under way, no other one does, through crashes, lost *)
(* answers, partitions and shutdowns.  main.go: "Avoid releasing the Lease *)
(* before all old in-flight work stops."                                   *)
Works(p) == proc[p].pc = "leading" \/ proc[p].busy > 0

OneController == \A p, q \in Procs : Works(p) /\ Works(q) => p = q

(* Why it holds.  Who works, or is about to because its write is being     *)
(* answered, holds the Lease...                                            *)
Answered(p) == Campaigns(p) /\ proc[p].req = "answer"

WorkerHolds == \A p \in Procs : Works(p) \/ Answered(p) => holder = p

(* ...an elector that is about to take over somebody's Lease has seen it   *)
(* unchanged for LeaseDuration...                                          *)
TakesOverLate ==
    \A q \in Procs : proc[q].req = "update" /\ ~moved[q] =>
        holder \in {Nobody, q} \/ proc[q].age = LeaseDuration

(* ...and by then the holder will have stopped: for whoever has seen its   *)
(* last write, the deadline, the answer that may still extend it, and the  *)
(* last request of the controller end before LeaseDuration does.           *)
StopsInTime ==
    \A p, q \in Procs : p # q /\ holder = p /\ ~moved[q] =>
        /\ proc[p].pc = "leading" =>
              proc[q].age + proc[p].deadline + Latency < LeaseDuration
        /\ Answered(p) =>
              proc[q].age + proc[p].left + RetryPeriod + RenewDeadline + Latency < LeaseDuration
        /\ proc[p].busy > 0 => proc[q].age + proc[p].busy < LeaseDuration

CandidatesIdle == \A p \in Procs : proc[p].pc = "candidate" => proc[p].busy = 0

LeaseInv ==
    /\ LeaseTypeOK /\ OneController
    /\ WorkerHolds /\ TakesOverLate /\ StopsInTime /\ CandidatesIdle

(* The controller always comes back: when signals, crashes and partitions  *)
(* end, some process leads for good, although an elector that has once     *)
(* lost the Lease never campaigns again: its process has to be replaced.   *)
SomebodyLeads == (\A p \in Procs : []<>reach[p]) => <>[](\E p \in Procs : proc[p].pc = "leading")
=============================================================================
