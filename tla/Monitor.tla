------------------------------- MODULE Monitor -------------------------------
(***************************************************************************)
(* cmd/probe: the monitor that watches a service through a rolling upgrade.*)
(* One select waits for the overall deadline, for the finish signal of the *)
(* harness, for the end of the settling period and for the sampling ticker;*)
(* whichever of them are ready, any one may be taken.  A sample keeps the  *)
(* select waiting for up to CheckTime while the timers run on.             *)
(***************************************************************************)
EXTENDS Naturals

CONSTANTS
    Duration,    \* the overall deadline
    Interval,    \* between two samples
    Settle,      \* how long to observe after the finish signal
    CheckTime    \* deadline of one sample (3 s in the code)

ASSUME DurationAssumption == Duration \in Nat \ {0}
ASSUME IntervalAssumption == Interval \in Nat \ {0}
ASSUME SettleAssumption == Settle \in Nat \ {0}
ASSUME CheckTimeAssumption == CheckTime \in Nat \ {0}

VARIABLES
    controlled,  \* the flag -controlled
    pc,          \* "first", "sample" and "final": in sample(); "select"; "end"
    busy,        \* time the sample under way may still take
    left,        \* time to the overall deadline
    late,        \* time since then, up to a cap
    next, tick,  \* time to the next tick, and whether one is waiting
    ready,       \* the first sample succeeded
    finish,      \* the channel: "open", "closed", or "nil" once it was taken
    settling,    \* time to the end of settling; Settle + 1 before it starts
    window,      \* time since the harness closed the channel, up to Settle
    sampled,     \* the value of window at which the last sample started
    result       \* "none", "ok" or "error"

timers == <<left, late, next, settling, window>>
monitorVars == <<controlled, pc, busy, timers, tick, ready, finish, sampled, result>>

LateCap == CheckTime + 1

-----------------------------------------------------------------------------
(* The handler of POST /finish, which sync.Once runs once. *)
FinishPosted ==
    /\ controlled /\ result = "none"
    /\ ready /\ finish = "open"
    /\ finish' = "closed"
    /\ UNCHANGED <<controlled, pc, busy, timers, tick, ready, sampled, result>>

(* Mutant of StartSample: the check is given more time than its deadline. *)
StartSampleLong(from) ==
    /\ pc' = from
    /\ busy' = CheckTime + 1
    /\ sampled' = window

(* sample() begins, called from the place that pc tells. *)
StartSample(from) ==
    /\ pc' = from
    /\ busy' = CheckTime
    /\ sampled' = window

(* monitor returns. *)
End(r) == pc' = "end" /\ result' = r

(* sample() returns: a failure ends the run; the first success announces   *)
(* readiness, the final one is the result.                                 *)
SampleReturns(ok) ==
    /\ pc \in {"first", "sample", "final"}
    /\ \/ ~ok /\ End("error") /\ UNCHANGED ready
       \/ ok /\ pc = "first" /\ pc' = "select" /\ ready' = TRUE /\ UNCHANGED result
       \/ ok /\ pc = "sample" /\ pc' = "select" /\ UNCHANGED <<ready, result>>
       \/ ok /\ pc = "final" /\ End("ok") /\ UNCHANGED ready
    /\ busy' = 0
    /\ UNCHANGED <<controlled, timers, tick, finish, sampled>>

(* Mutant of SelectDeadline: a controlled run waits for its finish signal. *)
SelectDeadlineUncontrolled ==
    /\ pc = "select" /\ left = 0 /\ ~controlled
    /\ End("ok")
    /\ UNCHANGED <<controlled, busy, timers, tick, ready, finish, sampled>>

SelectDeadline ==
    /\ pc = "select" /\ left = 0
    /\ End(IF controlled THEN "error" ELSE "ok")
    /\ UNCHANGED <<controlled, busy, timers, tick, ready, finish, sampled>>

SelectFinish ==
    /\ pc = "select" /\ finish = "closed"
    /\ finish' = "nil"
    /\ settling' = Settle
    /\ UNCHANGED <<controlled, pc, busy, left, late, next, window, tick, ready,
                   sampled, result>>

(* Mutants of SelectSettled: the deadline is not looked at again; the last *)
(* sample is left out.                                                     *)
SelectSettledAnyTime ==
    /\ pc = "select" /\ settling = 0
    /\ StartSample("final")
    /\ UNCHANGED <<controlled, timers, tick, ready, finish, result>>

SelectSettledUnsampled ==
    /\ pc = "select" /\ settling = 0
    /\ End(IF controlled /\ left = 0 THEN "error" ELSE "ok")
    /\ UNCHANGED <<controlled, busy, timers, tick, ready, finish, sampled>>

SelectSettled ==
    /\ pc = "select" /\ settling = 0
    /\ \/ /\ controlled /\ left = 0
          /\ End("error")
          /\ UNCHANGED <<busy, sampled>>
       \/ /\ ~controlled \/ left > 0
          /\ StartSample("final")
          /\ UNCHANGED result
    /\ UNCHANGED <<controlled, timers, tick, ready, finish>>

SelectTick ==
    /\ pc = "select" /\ tick
    /\ tick' = FALSE
    /\ StartSample("sample")
    /\ UNCHANGED <<controlled, timers, ready, finish, result>>

Step ==
    \/ SelectDeadline \/ SelectFinish \/ SelectSettled \/ SelectTick
    \/ \E ok \in BOOLEAN : SampleReturns(ok)

(* One unit of time passes, but not while the select can go on. *)
EventDue ==
    \/ pc \in {"first", "sample", "final"} /\ busy = 0
    \/ pc = "select" /\ (left = 0 \/ finish = "closed" \/ settling = 0 \/ tick)

Down(t) == IF t = 0 THEN 0 ELSE t - 1

TimePasses ==
    /\ result = "none" /\ ~EventDue
    /\ busy' = Down(busy)
    /\ left' = Down(left)
    /\ late' = IF left = 0 /\ late < LateCap THEN late + 1 ELSE late
    /\ next' = IF next = 1 THEN Interval ELSE next - 1
    /\ tick' = (tick \/ next = 1)
    /\ settling' = IF settling > Settle THEN settling ELSE Down(settling)
    /\ window' = IF finish # "open" /\ window < Settle THEN window + 1 ELSE window
    /\ UNCHANGED <<controlled, pc, ready, finish, sampled, result>>

(* The timers are set before the first sample is taken. *)
MonitorInit ==
    /\ controlled \in BOOLEAN
    /\ pc = "first" /\ busy = CheckTime
    /\ left = Duration /\ late = 0
    /\ next = Interval /\ tick = FALSE
    /\ ready = FALSE /\ finish = "open"
    /\ settling = Settle + 1 /\ window = 0 /\ sampled = 0
    /\ result = "none"

MonitorNext == FinishPosted \/ Step \/ TimePasses

MonitorSpec == MonitorInit /\ [][MonitorNext]_monitorVars

(* The select chooses at random among the channels that are ready, so a    *)
(* channel that stays ready is not passed over for ever.                   *)
MonitorFairness ==
    /\ WF_monitorVars(Step) /\ WF_monitorVars(TimePasses)
    /\ SF_monitorVars(SelectDeadline)

FairMonitorSpec == MonitorSpec /\ MonitorFairness

-----------------------------------------------------------------------------
MonitorTypeOK ==
    /\ controlled \in BOOLEAN /\ tick \in BOOLEAN /\ ready \in BOOLEAN
    /\ pc \in {"first", "sample", "final", "select", "end"}
    /\ busy \in 0..CheckTime
    /\ left \in 0..Duration /\ late \in 0..LateCap
    /\ next \in 1..Interval
    /\ finish \in {"open", "closed", "nil"}
    /\ settling \in 0..(Settle + 1)
    /\ window \in 0..Settle /\ sampled \in 0..Settle
    /\ result \in {"none", "ok", "error"}

(* A controlled run succeeds only after the finish signal, with a sample   *)
(* that was taken when the whole settling period had been observed.        *)
SuccessIsObserved ==
    controlled /\ result = "ok" => finish = "nil" /\ sampled = Settle

(* It succeeds before the overall deadline, or at most one sample after    *)
(* it: when several channels are ready, the choice of the select does not  *)
(* matter.                                                                 *)
SuccessNotLate == controlled /\ result = "ok" => late <= CheckTime

(* Why these hold: the settling period is as long as what the harness has  *)
(* shown since its signal, and the final sample starts after the one and   *)
(* before the deadline.                                                    *)
SettlingObserved ==
    /\ settling <= Settle => finish = "nil" /\ window + settling >= Settle
    /\ pc = "final" => settling = 0 /\ sampled = Settle

FinalInTime ==
    /\ left > 0 => late = 0
    /\ controlled /\ pc = "final" => late + busy <= CheckTime
    /\ pc = "end" <=> result # "none"

(* The verdict of a controlled run, in both respects. *)
MonitorInv ==
    /\ MonitorTypeOK /\ SuccessIsObserved /\ SuccessNotLate
    /\ SettlingObserved /\ FinalInTime

(* monitor returns, whatever the harness does and however slow the samples *)
(* are.                                                                    *)
MonitorReturns == <>(result # "none")
=============================================================================
