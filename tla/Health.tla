------------------------------- MODULE Health -------------------------------
(***************************************************************************)
(* internal/health: the readiness of one server process.  A probe loop     *)
(* checks the Kubernetes API every Period seconds with a Deadline; Ready   *)
(* combines its result, the age of the last success, the initial cache     *)
(* synchronization and the permanent Drain.                                *)
(*                                                                         *)
(* Time is counted in seconds.  Ages and countdowns are kept instead of    *)
(* clock readings, so that the state space is finite without a bound.      *)
(***************************************************************************)
EXTENDS Naturals

CONSTANTS
    Period,      \* seconds between two probes (3)
    Deadline,    \* seconds a probe may take (2)
    Fresh        \* age at which a success no longer counts (12)

ASSUME PeriodAssumption == Period \in Nat \ {0}
ASSUME DeadlineAssumption == Deadline \in Nat \ {0}
ASSUME FreshAssumption == Fresh \in Nat \ {0}

VARIABLES
    draining,    \* State.draining
    synced,      \* Backend.Synced: the caches completed their initial list
    lastOK,      \* State.lastOK
    age,         \* seconds since State.lastGood; Fresh if never or too old
    probe,       \* the probe loop: [pc, left, next, tick]
    api,         \* does the Kubernetes API answer?
    down         \* seconds for which it has not answered, up to a cap

healthVars == <<draining, synced, lastOK, age, probe, api, down>>

(* How long an outage may go unnoticed: the answer to the first probe, on  *)
(* whose return the ticker starts, is Deadline old at most; then a period; *)
(* then a probe that fails.  DownCap is the longest outage that a property *)
(* distinguishes.                                                          *)
Notice == Deadline + Period + Deadline
DownCap == Notice + 2

(* State.Ready *)
Ready == ~draining /\ synced /\ lastOK /\ age < Fresh

-----------------------------------------------------------------------------
(* The environment: the API server comes and goes, the caches sync. *)

APIChanges ==
    /\ api' = ~api
    /\ down' = 0
    /\ UNCHANGED <<draining, synced, lastOK, age, probe>>

CacheSyncs ==
    /\ ~synced /\ api
    /\ synced' = TRUE
    /\ UNCHANGED <<draining, lastOK, age, probe, api, down>>

-----------------------------------------------------------------------------
(* State.Run.  probe.left is the rest of the two seconds of a check under  *)
(* way; probe.next is the time to the next tick of the ticker, which keeps *)
(* at most one tick (probe.tick) for a loop that is busy.                  *)

(* Mutant of ProbeStarts: the check gets more time than its deadline. *)
ProbeStartsLong ==
    /\ probe.pc = "wait" /\ probe.tick
    /\ probe' = [probe EXCEPT !.pc = "check", !.tick = FALSE, !.left = Deadline + 1]
    /\ UNCHANGED <<draining, synced, lastOK, age, api, down>>

(* The first probe runs at once; the ticker starts after it. *)
ProbeStarts ==
    /\ probe.pc = "wait" /\ probe.tick
    /\ probe' = [probe EXCEPT !.pc = "check", !.tick = FALSE, !.left = Deadline]
    /\ UNCHANGED <<draining, synced, lastOK, age, api, down>>

(* Mutant of ProbeReturns: a failed check is not recorded. *)
ProbeReturnsGood(ok) ==
    /\ probe.pc \in {"first", "check"}
    /\ ok => down <= Deadline - probe.left
    /\ lastOK' = (lastOK \/ ok)
    /\ probe' = [probe EXCEPT !.pc = IF ok THEN "good" ELSE "wait", !.left = 0,
                              !.next = IF probe.pc = "first" THEN Period ELSE @]
    /\ UNCHANGED <<draining, synced, age, api, down>>

(* The check returns: an error at any time, nil only if the API answered   *)
(* while the check was under way; the answer may reach a process whose API *)
(* is gone by then.  lastOK is stored first ...                            *)
ProbeReturns(ok) ==
    /\ probe.pc \in {"first", "check"}
    /\ ok => down <= Deadline - probe.left
    /\ lastOK' = ok
    /\ probe' = [probe EXCEPT !.pc = IF ok THEN "good" ELSE "wait", !.left = 0,
                              !.next = IF probe.pc = "first" THEN Period ELSE @]
    /\ UNCHANGED <<draining, synced, age, api, down>>

(* ... and lastGood after it. *)
ProbeRecords ==
    /\ probe.pc = "good"
    /\ age' = 0
    /\ probe' = [probe EXCEPT !.pc = "wait"]
    /\ UNCHANGED <<draining, synced, lastOK, api, down>>

(* The context of the process ends: the loop returns. *)
ProbeStops ==
    /\ probe.pc = "wait"
    /\ probe' = [probe EXCEPT !.pc = "stopped"]
    /\ UNCHANGED <<draining, synced, lastOK, age, api, down>>

ProbeNext == ProbeStarts \/ ProbeRecords \/ \E ok \in BOOLEAN : ProbeReturns(ok)

(* Work that is due before time goes on: computing takes no time. *)
ProbeDue ==
    \/ probe.pc = "wait" /\ probe.tick
    \/ probe.pc = "good"
    \/ probe.pc \in {"first", "check"} /\ probe.left = 0

(* One second passes. *)
HealthTick ==
    /\ ~ProbeDue
    /\ age' = IF age < Fresh THEN age + 1 ELSE age
    /\ down' = IF ~api /\ down < DownCap THEN down + 1 ELSE down
    /\ probe' =
         CASE probe.pc = "stopped" -> probe
           [] probe.pc = "first" -> [probe EXCEPT !.left = @ - 1]
           [] OTHER -> [probe EXCEPT
                 !.left = IF probe.pc = "check" THEN @ - 1 ELSE @,
                 !.next = IF @ = 1 THEN Period ELSE @ - 1,
                 !.tick = @ \/ probe.next = 1]
    /\ UNCHANGED <<draining, synced, lastOK, api>>

HealthTypeOK ==
    /\ draining \in BOOLEAN /\ synced \in BOOLEAN /\ lastOK \in BOOLEAN
    /\ age \in 0..Fresh
    /\ probe \in [pc : {"first", "wait", "check", "good", "stopped"}, left : 0..Deadline,
                  next : 0..Period, tick : BOOLEAN]
    /\ api \in BOOLEAN
    /\ down \in 0..DownCap

HealthInit ==
    /\ draining = FALSE /\ synced = FALSE /\ lastOK = FALSE
    /\ age = Fresh
    /\ probe = [pc |-> "first", left |-> Deadline, next |-> 0, tick |-> FALSE]
    /\ api \in BOOLEAN
    /\ down = 0
=============================================================================
