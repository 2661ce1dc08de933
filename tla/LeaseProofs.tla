----------------------------- MODULE LeaseProofs -----------------------------
(***************************************************************************)
(* Proofs about module Lease, for any number of processes and any timing   *)
(* that keeps the margin LeaseAssumption names: no two controllers work at *)
(* a time.  LeaseInv is inductive as it stands there.                      *)
(***************************************************************************)
EXTENDS Lease, TLAPS

(* The constants are numbers, one by one. *)
LEMMA Numbers ==
    /\ LeaseDuration \in Nat /\ RenewDeadline \in Nat /\ RetryPeriod \in Nat
    /\ Latency \in Nat /\ DrainTime \in Nat /\ MaxFaults \in Nat
    /\ 2 * Latency + RetryPeriod + RenewDeadline < LeaseDuration
BY LeaseAssumption

(* A process that starts is a process. *)
LEMMA StartedTyped == Started \in Proc
BY Numbers DEF Started, Proc

(* Processes start idle, with nobody elected. *)
LEMMA LeaseInitInv == LeaseInit => LeaseInv
<1> SUFFICES ASSUME LeaseInit PROVE LeaseInv
  OBVIOUS
<1>1. LeaseTypeOK
  BY StartedTyped, Numbers DEF LeaseInit, LeaseTypeOK
<1>2. OneController /\ WorkerHolds /\ TakesOverLate /\ StopsInTime /\ CandidatesIdle
  BY Numbers DEF LeaseInit, OneController, WorkerHolds, TakesOverLate, StopsInTime,
                 CandidatesIdle, Works, Answered, Campaigns, Started
<1> QED
  BY <1>1, <1>2 DEF LeaseInv

(* The fields of a process are in their ranges. *)
LEMMA Fields ==
    ASSUME LeaseTypeOK, NEW p \in Procs
    PROVE  /\ proc[p] \in Proc
           /\ proc[p].left \in 0..Latency /\ proc[p].wait \in 0..RetryPeriod
           /\ proc[p].deadline \in 0..(RetryPeriod + RenewDeadline)
           /\ proc[p].age \in 0..LeaseDuration /\ proc[p].exit \in 0..DrainTime
           /\ proc[p].busy \in 0..Latency
<1>1. proc[p] \in Proc
  BY DEF LeaseTypeOK
<1> QED
  BY <1>1 DEF Proc

-----------------------------------------------------------------------------

(* An elector that waits for its next try is a process. *)
LEMMA NextTryTyped ==
    ASSUME LeaseTypeOK, NEW p \in Procs
    PROVE  NextTry(p) \in Proc
<1>1. /\ 0 \in 0..Latency /\ RetryPeriod \in 0..RetryPeriod
      /\ proc[p] \in Proc
  BY Fields, Numbers
<1> DEFINE r == proc[p]
<1> HIDE DEF r
<1>2. ASSUME r \in Proc
      PROVE [r EXCEPT !.req = "none", !.left = 0, !.wait = RetryPeriod] \in Proc
  BY <1>1, <1>2 DEF Proc
<1> QED
  BY <1>1, <1>2 DEF NextTry, r

(* A read of the record that is late, or finds nobody or the reader        *)
(* itself, is the only way to an update; what others know stays the same.  *)
LEMMA ReadsKeep ==
    ASSUME LeaseInv, NEW p \in Procs, TryReads(p)
    PROVE  LeaseInv'
<1> DEFINE age == IF moved[p] THEN 0 ELSE proc[p].age
<1>0. \E r \in Proc : proc' = [proc EXCEPT ![p] = r]
  <2> DEFINE up == [proc[p] EXCEPT !.age = age, !.req = "update", !.left = Latency]
             no == [NextTry(p) EXCEPT !.age = age]
  <2>0. age \in 0..LeaseDuration
    BY Fields, Numbers DEF LeaseInv
  <2> HIDE DEF age
  <2>1. up \in Proc
    <3> DEFINE r == proc[p]
    <3>1. r \in Proc /\ Latency \in 0..Latency
      BY Fields, Numbers DEF LeaseInv
    <3> HIDE DEF r
    <3>2. [r EXCEPT !.age = age, !.req = "update", !.left = Latency] \in Proc
      BY <2>0, <3>1 DEF Proc
    <3> QED
      BY <3>2 DEF r
  <2>3. no \in Proc
    BY <2>0, NextTryTyped DEF LeaseInv, Proc
  <2>2. proc' = [proc EXCEPT ![p] = up] \/ proc' = [proc EXCEPT ![p] = no]
    BY DEF TryReads, age
  <2> QED
    BY <2>1, <2>2, <2>3, Zenon
<1>1. /\ proc' \in [Procs -> Proc]
      /\ moved' = [moved EXCEPT ![p] = FALSE] /\ holder' = holder
  BY <1>0 DEF LeaseInv, LeaseTypeOK, TryReads
<1>2. LeaseTypeOK'
  BY <1>1 DEF LeaseInv, LeaseTypeOK, TryReads
<1>3. /\ proc'[p].pc = proc[p].pc /\ proc'[p].deadline = proc[p].deadline
      /\ proc'[p].busy = proc[p].busy /\ proc'[p].age = age
      /\ proc'[p].req \in {"none", "update"}
      /\ proc'[p].req = "update" => holder \in {Nobody, p} \/ age >= LeaseDuration
      /\ \A q \in Procs \ {p} : proc'[q] = proc[q]
  BY Fields DEF LeaseInv, LeaseTypeOK, TryReads, NextTry, Proc
<1>4. WorkerHolds'
  BY <1>1, <1>3 DEF LeaseInv, WorkerHolds, Works, Answered, Campaigns
<1>5. TakesOverLate'
  BY <1>1, <1>2, <1>3, Fields, Numbers DEF LeaseInv, LeaseTypeOK, TakesOverLate
<1>6. StopsInTime'
  BY <1>1, <1>2, <1>3, Fields, Numbers
     DEF LeaseInv, LeaseTypeOK, StopsInTime, WorkerHolds, Works, Answered, Campaigns
<1>7. CandidatesIdle'
  BY <1>1, <1>3 DEF LeaseInv, CandidatesIdle
<1>8. OneController'
  BY <1>4 DEF WorkerHolds, OneController
<1> QED
  BY <1>2, <1>4, <1>5, <1>6, <1>7, <1>8 DEF LeaseInv

-----------------------------------------------------------------------------
(* What a process does on its own, seen from the record: it does not come  *)
(* to work or to update, its copy does not age, and it works no longer     *)
(* than its deadline or the answer it waits for allowed.                   *)
Local(p, r) ==
    /\ r \in Proc /\ proc' = [proc EXCEPT ![p] = r]
    /\ UNCHANGED <<holder, moved>>
    /\ r.pc = "candidate" => r.busy = 0
    /\ r.age <= proc[p].age
    /\ r.req = "update" => proc[p].req = "update" /\ r.age = proc[p].age
    /\ r.pc = "leading" =>
          \/ proc[p].pc = "leading" /\ r.deadline <= proc[p].deadline
          \/ Answered(p) /\ r.deadline <= proc[p].left + RetryPeriod + RenewDeadline
    /\ r.pc \in {"candidate", "leading"} /\ r.req = "answer" =>
          Answered(p) /\ r.left = proc[p].left
    /\ r.busy > 0 => \/ proc[p].busy > 0 /\ r.busy <= proc[p].busy
                     \/ proc[p].pc = "leading"

(* Such a step keeps everything but the list of what changed outside. *)
LEMMA LocalKeeps ==
    ASSUME LeaseInv, NEW p \in Procs, NEW r, Local(p, r),
           reach' \in [Procs -> BOOLEAN], faults' \in 0..MaxFaults
    PROVE  LeaseInv'
<1>1. /\ holder' = holder /\ moved' = moved /\ proc'[p] = r /\ r \in Proc
      /\ \A q \in Procs \ {p} : proc'[q] = proc[q]
      /\ proc' \in [Procs -> Proc]
  BY DEF Local, LeaseInv, LeaseTypeOK
<1>2. LeaseTypeOK'
  BY <1>1 DEF LeaseInv, LeaseTypeOK
<1>3. \A q \in Procs : Works(q)' \/ Answered(q)' => Works(q) \/ Answered(q)
  <2>1. Works(p)' \/ Answered(p)' => Works(p) \/ Answered(p)
    BY <1>1 DEF Local, Works, Answered, Campaigns
  <2>2. \A q \in Procs \ {p} : Works(q)' \/ Answered(q)' => Works(q) \/ Answered(q)
    BY <1>1 DEF Works, Answered, Campaigns
  <2> QED
    BY <2>1, <2>2
<1>4. WorkerHolds'
  BY <1>1, <1>3 DEF LeaseInv, WorkerHolds
<1>5. TakesOverLate'
  BY <1>1 DEF LeaseInv, TakesOverLate, Local
<1>6. StopsInTime'
  <2> SUFFICES ASSUME NEW a \in Procs, NEW q \in Procs, a # q, holder = a, ~moved[q]
               PROVE  /\ proc'[a].pc = "leading" =>
                            proc'[q].age + proc'[a].deadline + Latency < LeaseDuration
                      /\ Answered(a)' => proc'[q].age + proc'[a].left + RetryPeriod
                                            + RenewDeadline + Latency < LeaseDuration
                      /\ proc'[a].busy > 0 => proc'[q].age + proc'[a].busy < LeaseDuration
    BY <1>1 DEF StopsInTime
  <2>1. /\ proc[a].pc = "leading" =>
              proc[q].age + proc[a].deadline + Latency < LeaseDuration
        /\ Answered(a) => proc[q].age + proc[a].left + RetryPeriod
                              + RenewDeadline + Latency < LeaseDuration
        /\ proc[a].busy > 0 => proc[q].age + proc[a].busy < LeaseDuration
    BY DEF LeaseInv, StopsInTime
  <2>2. /\ proc[a].left \in Nat /\ proc[a].deadline \in Nat /\ proc[a].busy \in Nat
        /\ proc[q].age \in Nat /\ proc'[q].age \in Nat /\ proc'[a].deadline \in Nat
        /\ proc'[a].busy \in 0..Latency /\ proc'[a].left \in Nat
    BY <1>2, Fields, Numbers DEF LeaseInv, LeaseTypeOK, Proc
  <2>3. CASE a = p
    <3>1. proc'[q].age = proc[q].age
      BY <1>1, <2>3
    <3>2. r.pc = "leading" => proc[q].age + r.deadline + Latency < LeaseDuration
      BY <1>1, <2>1, <2>2, <2>3, Numbers DEF Local
    <3>3. Answered(p)' => proc[q].age + r.left + RetryPeriod
                             + RenewDeadline + Latency < LeaseDuration
      BY <1>1, <2>1, <2>2, <2>3, Numbers DEF Local, Answered, Campaigns
    <3>4. r.busy > 0 => proc[q].age + r.busy < LeaseDuration
      BY <1>1, <2>1, <2>2, <2>3, Numbers DEF Local
    <3> QED
      BY <1>1, <2>3, <3>1, <3>2, <3>3, <3>4
  <2>4. CASE a # p
    <3>1. proc'[a] = proc[a] /\ (Answered(a)' <=> Answered(a)) /\ proc'[q].age <= proc[q].age
      BY <1>1, <2>2, <2>4 DEF Local, Answered, Campaigns
    <3> QED
      BY <2>1, <2>2, <3>1, Numbers
  <2> QED
    BY <2>3, <2>4
<1>7. CandidatesIdle'
  BY <1>1 DEF LeaseInv, CandidatesIdle, Local
<1>8. OneController'
  BY <1>4 DEF WorkerHolds, OneController
<1> QED
  BY <1>2, <1>4, <1>5, <1>6, <1>7, <1>8 DEF LeaseInv

(* Waiting for the next try is local, whatever the elector did before. *)
LEMMA NextTryLocal ==
    ASSUME LeaseInv, NEW p \in Procs, Campaigns(p), proc' = [proc EXCEPT ![p] = NextTry(p)],
           UNCHANGED <<holder, moved>>
    PROVE  Local(p, NextTry(p))
<1>1. NextTry(p) \in Proc
  BY NextTryTyped DEF LeaseInv
<1>2. /\ NextTry(p).pc = proc[p].pc /\ NextTry(p).age = proc[p].age
      /\ NextTry(p).req = "none" /\ NextTry(p).deadline = proc[p].deadline
      /\ NextTry(p).busy = proc[p].busy /\ proc[p].busy \in Nat
      /\ proc[p].age \in Nat /\ proc[p].deadline \in Nat
  BY Fields, Numbers DEF LeaseInv, NextTry, Proc
<1> QED
  BY <1>1, <1>2 DEF Local, LeaseInv, CandidatesIdle

(* A lost request or answer is local. *)
LEMMA FailsKeep ==
    ASSUME LeaseInv, NEW p \in Procs, TryFails(p)
    PROVE  LeaseInv'
<1>1. Local(p, NextTry(p))
  BY NextTryLocal DEF TryFails
<1> QED
  BY <1>1, LocalKeeps DEF TryFails, LeaseInv, LeaseTypeOK

(* The answer to an update makes a leader, until a deadline that everyone  *)
(* else waits for.                                                         *)
LEMMA SucceedsKeep ==
    ASSUME LeaseInv, NEW p \in Procs, TrySucceeds(p)
    PROVE  LeaseInv'
<1> DEFINE s == proc[p]
           led == [s EXCEPT !.pc = "leading", !.req = "none", !.left = 0, !.age = 0,
                            !.deadline = RenewDeadline]
           renewed == [[s EXCEPT !.req = "none", !.left = 0, !.wait = RetryPeriod]
                          EXCEPT !.age = 0, !.deadline = RetryPeriod + RenewDeadline]
<1>1. s \in Proc /\ s.age \in Nat /\ s.busy \in Nat /\ s.left \in Nat /\ s.req = "answer"
  BY Fields, Numbers DEF TrySucceeds, LeaseInv
<1>2. /\ 0 \in 0..Latency /\ 0 \in 0..LeaseDuration /\ RetryPeriod \in 0..RetryPeriod
      /\ RenewDeadline \in 0..(RetryPeriod + RenewDeadline)
      /\ RetryPeriod + RenewDeadline \in 0..(RetryPeriod + RenewDeadline)
  BY Numbers
<1>3. \/ proc' = [proc EXCEPT ![p] = led]
      \/ s.pc # "candidate" /\ proc' = [proc EXCEPT ![p] = renewed]
  BY DEF TrySucceeds, NextTry
<1>4. /\ Answered(p) /\ s.pc \in {"candidate", "leading"} /\ UNCHANGED <<holder, moved>>
      /\ s.pc = "candidate" => s.busy = 0
      /\ proc[p] = s
  BY <1>1 DEF TrySucceeds, Answered, Campaigns, LeaseInv, CandidatesIdle
<1> HIDE DEF s
<1>5. led \in Proc /\ renewed \in Proc
  BY <1>1, <1>2 DEF Proc
<1>6. /\ led.pc = "leading" /\ led.req = "none" /\ led.age = 0 /\ led.busy = s.busy
      /\ led.deadline = RenewDeadline
      /\ renewed.pc = s.pc /\ renewed.req = "none" /\ renewed.age = 0
      /\ renewed.busy = s.busy /\ renewed.deadline = RetryPeriod + RenewDeadline
  BY <1>1 DEF Proc
<1> HIDE DEF led, renewed
<1>7. CASE proc' = [proc EXCEPT ![p] = led]
  <2>1. Local(p, led)
    BY <1>1, <1>4, <1>5, <1>6, <1>7, Numbers DEF Local
  <2> QED
    BY <2>1, LocalKeeps DEF TrySucceeds, LeaseInv, LeaseTypeOK
<1>8. CASE s.pc # "candidate" /\ proc' = [proc EXCEPT ![p] = renewed]
  <2>1. Local(p, renewed)
    BY <1>1, <1>4, <1>5, <1>6, <1>8, Numbers DEF Local
  <2> QED
    BY <2>1, LocalKeeps DEF TrySucceeds, LeaseInv, LeaseTypeOK
<1> QED
  BY <1>3, <1>7, <1>8

(* Losing the lead ends the work; only what is under way goes on. *)
LEMMA StoppedKeeps ==
    ASSUME LeaseInv, NEW p \in Procs, StoppedLeading(p)
    PROVE  LeaseInv'
<1> DEFINE s == proc[p]
           e == IF s.draining THEN s.exit ELSE DrainTime
           r == [s EXCEPT !.pc = "ended", !.req = "none", !.left = 0, !.draining = TRUE,
                          !.exit = e]
<1>1. /\ s \in Proc /\ s.age \in Nat /\ s.busy \in Nat /\ e \in 0..DrainTime
      /\ 0 \in 0..Latency
  BY Fields, Numbers DEF LeaseInv
<1>2. /\ proc' = [proc EXCEPT ![p] = r]
      /\ UNCHANGED <<holder, moved>> /\ proc[p] = s
  <2>1. proc' = [proc EXCEPT ![p] = r]
    BY Zenon DEF StoppedLeading
  <2> QED
    BY <2>1 DEF StoppedLeading
<1> HIDE DEF s, e
<1>3. r \in Proc
  BY <1>1 DEF Proc
<1>4. r.pc = "ended" /\ r.req = "none" /\ r.age = s.age /\ r.busy = s.busy
  BY <1>1 DEF Proc
<1> HIDE DEF r
<1>5. Local(p, r)
  BY <1>1, <1>2, <1>3, <1>4 DEF Local
<1> QED
  BY <1>5, LocalKeeps DEF StoppedLeading, LeaseInv, LeaseTypeOK

(* A leader that writes is still a leader. *)
LEMMA WorkKeeps ==
    ASSUME LeaseInv, NEW p \in Procs, StartWork(p)
    PROVE  LeaseInv'
<1> DEFINE s == proc[p]
           r == [s EXCEPT !.busy = Latency]
<1>1. s \in Proc /\ s.age \in Nat /\ s.deadline \in Nat /\ Latency \in 0..Latency
  BY Fields, Numbers DEF LeaseInv
<1>2. /\ proc' = [proc EXCEPT ![p] = r] /\ UNCHANGED <<holder, moved>>
      /\ proc[p] = s /\ s.pc = "leading"
  BY DEF StartWork
<1> HIDE DEF s
<1>3. r \in Proc
  BY <1>1 DEF Proc
<1>4. /\ r.pc = s.pc /\ r.req = s.req /\ r.left = s.left /\ r.age = s.age
      /\ r.deadline = s.deadline
  BY <1>1 DEF Proc
<1> HIDE DEF r
<1>5. Local(p, r)
  BY <1>1, <1>2, <1>3, <1>4 DEF Local, Answered, Campaigns
<1> QED
  BY <1>5, LocalKeeps DEF StartWork, LeaseInv, LeaseTypeOK

(* A signal changes only the drain. *)
LEMMA TerminateKeeps ==
    ASSUME LeaseInv, NEW p \in Procs, Terminate(p)
    PROVE  LeaseInv'
<1> DEFINE s == proc[p]
           r == [s EXCEPT !.draining = TRUE, !.exit = DrainTime]
<1>1. /\ s \in Proc /\ s.age \in Nat /\ s.deadline \in Nat /\ s.busy \in Nat
      /\ DrainTime \in 0..DrainTime /\ faults' \in 0..MaxFaults
  BY Fields, Numbers DEF LeaseInv, LeaseTypeOK, Terminate
<1>2. /\ proc' = [proc EXCEPT ![p] = r] /\ UNCHANGED <<holder, moved>> /\ proc[p] = s
      /\ s.pc = "candidate" => s.busy = 0
  BY DEF Terminate, LeaseInv, CandidatesIdle
<1> HIDE DEF s
<1>3. r \in Proc
  BY <1>1 DEF Proc
<1>4. /\ r.pc = s.pc /\ r.req = s.req /\ r.left = s.left /\ r.age = s.age
      /\ r.deadline = s.deadline /\ r.busy = s.busy
  BY <1>1 DEF Proc
<1> HIDE DEF r
<1>5. Local(p, r)
  BY <1>1, <1>2, <1>3, <1>4 DEF Local, Answered, Campaigns
<1> QED
  BY <1>1, <1>5, LocalKeeps DEF Terminate, LeaseInv, LeaseTypeOK

(* The end of a process leaves what its controller has sent. *)
LEMMA GoneLocal ==
    ASSUME LeaseInv, NEW p \in Procs, proc' = [proc EXCEPT ![p] = Gone(p)],
           UNCHANGED <<holder, moved>>
    PROVE  Local(p, Gone(p))
<1> DEFINE b == proc[p].busy
<1>1. b \in 0..Latency /\ b \in Nat /\ proc[p].age \in Nat /\ Started \in Proc
  BY Fields, Numbers, StartedTyped DEF LeaseInv
<1>2. Gone(p) = [Started EXCEPT !.pc = "down", !.busy = b]
  BY DEF Gone
<1> HIDE DEF b
<1>3. Gone(p) \in Proc
  BY <1>1, <1>2 DEF Proc
<1>4. /\ Gone(p).pc = "down" /\ Gone(p).req = "none" /\ Gone(p).age = 0
      /\ Gone(p).busy = b
  BY <1>1, <1>2 DEF Started
<1> QED
  BY <1>1, <1>3, <1>4 DEF Local, b

(* So neither a clean end nor a crash is noticed in the record. *)
LEMMA EndKeeps ==
    ASSUME LeaseInv, NEW p \in Procs, Exit(p) \/ Crash(p)
    PROVE  LeaseInv'
<1>1. Local(p, Gone(p))
  BY GoneLocal DEF Exit, Crash
<1>2. reach' \in [Procs -> BOOLEAN] /\ faults' \in 0..MaxFaults
  BY Numbers DEF Exit, Crash, LeaseInv, LeaseTypeOK
<1> QED
  BY <1>1, <1>2, LocalKeeps

-----------------------------------------------------------------------------

(* Who takes the Lease over finds nobody at work: the copy it compares     *)
(* with is LeaseDuration old, and StopsInTime leaves the holder no time.   *)
LEMMA NobodyElseWorks ==
    ASSUME LeaseInv, NEW q \in Procs, proc[q].req = "update", ~moved[q],
           NEW p \in Procs, p # q
    PROVE  ~Works(p) /\ ~Answered(p)
<1> SUFFICES ASSUME Works(p) \/ Answered(p) PROVE FALSE
  OBVIOUS
<1>1. holder = p
  BY DEF LeaseInv, WorkerHolds
<1>2. proc[q].age = LeaseDuration
  BY <1>1, LeaseAssumption DEF LeaseInv, TakesOverLate
<1>3. /\ proc[p].pc = "leading" =>
            proc[q].age + proc[p].deadline + Latency < LeaseDuration
      /\ Answered(p) => proc[q].age + proc[p].left + RetryPeriod
                            + RenewDeadline + Latency < LeaseDuration
      /\ proc[p].busy > 0 => proc[q].age + proc[p].busy < LeaseDuration
  BY <1>1 DEF LeaseInv, StopsInTime
<1>4. proc[p].deadline \in Nat /\ proc[p].left \in Nat /\ proc[p].busy \in Nat
  BY Fields, Numbers DEF LeaseInv
<1> QED
  BY <1>2, <1>3, <1>4, Numbers DEF Works

(* The update of the record: refused when the record has moved, otherwise  *)
(* everybody else starts to wait anew.                                     *)
LEMMA UpdatesKeep ==
    ASSUME LeaseInv, NEW p \in Procs, TryUpdates(p)
    PROVE  LeaseInv'
<1>1. CASE moved[p]
  <2>1. Local(p, NextTry(p))
    BY <1>1, NextTryLocal DEF TryUpdates
  <2> QED
    BY <2>1, LocalKeeps DEF TryUpdates, LeaseInv, LeaseTypeOK
<1>2. CASE ~moved[p]
  <2> DEFINE s == proc[p]
             r == [s EXCEPT !.req = "answer"]
  <2>1. /\ proc' = [proc EXCEPT ![p] = r] /\ s \in Proc
        /\ holder' = p /\ moved' = [q \in Procs |-> q # p]
        /\ s.req = "update" /\ s.pc \in {"candidate", "leading"}
    BY <1>2, Fields DEF TryUpdates, Write, Campaigns, LeaseInv
  <2>2. /\ r \in Proc /\ r.req = "answer" /\ r.pc = s.pc /\ r.busy = s.busy
    BY <2>1 DEF Proc
  <2>3. /\ proc'[p] = r /\ proc' \in [Procs -> Proc]
        /\ \A q \in Procs \ {p} : proc'[q] = proc[q]
    BY <2>1, <2>2 DEF LeaseInv, LeaseTypeOK
  <2>4. LeaseTypeOK'
    BY <2>1, <2>3 DEF LeaseInv, LeaseTypeOK, TryUpdates
  <2>5. \A q \in Procs \ {p} : ~Works(q)' /\ ~Answered(q)'
    BY <1>2, <2>1, <2>3, NobodyElseWorks DEF Works, Answered, Campaigns
  <2>6. WorkerHolds'
    BY <2>1, <2>5 DEF WorkerHolds
  <2>7. TakesOverLate'
    BY <2>1, <2>2, <2>3 DEF TakesOverLate
  <2>8. StopsInTime'
    BY <2>1 DEF StopsInTime
  <2>9. CandidatesIdle'
    BY <2>2, <2>3 DEF CandidatesIdle, LeaseInv
  <2>10. OneController'
    BY <2>6 DEF WorkerHolds, OneController
  <2> QED
    BY <2>4, <2>6, <2>7, <2>8, <2>9, <2>10 DEF LeaseInv
<1> QED
  BY <1>1, <1>2

(* A process that starts again has another identity and knows nothing. *)
LEMMA RestartKeeps ==
    ASSUME LeaseInv, NEW p \in Procs, Restart(p)
    PROVE  LeaseInv'
<1>1. /\ proc'[p] = Started /\ proc' \in [Procs -> Proc]
      /\ \A q \in Procs \ {p} : proc'[q] = proc[q]
      /\ moved' \in [Procs -> BOOLEAN] /\ moved'[p] = TRUE
      /\ \A q \in Procs \ {p} : moved'[q] = moved[q]
  BY StartedTyped DEF Restart, LeaseInv, LeaseTypeOK
<1>2. holder' \in {holder, Former} /\ holder' # p /\ (holder # p => holder' = holder)
  BY LeaseAssumption DEF Restart
<1>3. LeaseTypeOK'
  BY <1>1, <1>2 DEF LeaseInv, LeaseTypeOK, Restart
<1>4. /\ proc'[p].pc = "candidate" /\ proc'[p].req = "none" /\ proc'[p].busy = 0
  BY <1>1 DEF Started
<1>5. ~Works(p)' /\ ~Answered(p)'
  BY <1>4 DEF Works, Answered
<1>6. \A q \in Procs \ {p} : (Works(q)' <=> Works(q)) /\ (Answered(q)' <=> Answered(q))
  BY <1>1 DEF Works, Answered, Campaigns
<1>7. WorkerHolds'
  BY <1>2, <1>5, <1>6 DEF WorkerHolds, LeaseInv
<1>8. TakesOverLate'
  <2> SUFFICES ASSUME NEW q \in Procs, proc'[q].req = "update", ~moved'[q]
               PROVE  holder' \in {Nobody, q} \/ proc'[q].age = LeaseDuration
    BY DEF TakesOverLate
  <2>1. q # p
    BY <1>1
  <2>2. holder \in {Nobody, q} \/ proc[q].age = LeaseDuration
    BY <2>1, <1>1 DEF LeaseInv, TakesOverLate
  <2> QED
    BY <1>1, <1>2, <2>1, <2>2, LeaseAssumption
<1>9. StopsInTime'
  <2> SUFFICES ASSUME NEW a \in Procs, NEW q \in Procs, a # q, holder' = a, ~moved'[q]
               PROVE  /\ proc'[a].pc = "leading" =>
                            proc'[q].age + proc'[a].deadline + Latency < LeaseDuration
                      /\ Answered(a)' => proc'[q].age + proc'[a].left + RetryPeriod
                                            + RenewDeadline + Latency < LeaseDuration
                      /\ proc'[a].busy > 0 => proc'[q].age + proc'[a].busy < LeaseDuration
    BY DEF StopsInTime
  <2>1. a # p /\ q # p /\ holder = a
    BY <1>1, <1>2, LeaseAssumption
  <2> QED
    BY <1>1, <1>6, <2>1 DEF LeaseInv, StopsInTime
<1>10. CandidatesIdle'
  BY <1>1, <1>4 DEF LeaseInv, CandidatesIdle
<1>11. OneController'
  BY <1>7 DEF WorkerHolds, OneController
<1> QED
  BY <1>3, <1>7, <1>8, <1>9, <1>10, <1>11 DEF LeaseInv

(* A second passes: the copies age by one, and what the holder has left    *)
(* shrinks by one, because nothing due may wait.                           *)
LEMMA TickKeeps ==
    ASSUME LeaseInv, Tick
    PROVE  LeaseInv'
<1> DEFINE Older(p) == IF proc[p].age < LeaseDuration /\ Campaigns(p)
                       THEN proc[p].age + 1 ELSE proc[p].age
           Later(p) == [proc[p] EXCEPT !.left = Less(proc[p].left),
                          !.wait = Less(proc[p].wait), !.deadline = Less(proc[p].deadline),
                          !.exit = Less(proc[p].exit), !.busy = Less(proc[p].busy),
                          !.age = Older(p)]
<1>1. /\ proc' = [p \in Procs |-> Later(p)]
      /\ UNCHANGED <<holder, moved>>
  BY DEF Tick
<1>2. \A p \in Procs :
         /\ Less(proc[p].left) \in 0..Latency /\ Less(proc[p].wait) \in 0..RetryPeriod
         /\ Less(proc[p].deadline) \in 0..(RetryPeriod + RenewDeadline)
         /\ Less(proc[p].exit) \in 0..DrainTime /\ Less(proc[p].busy) \in 0..Latency
         /\ Older(p) \in 0..LeaseDuration
  <2>1. ASSUME NEW n \in Nat, NEW m \in 0..n PROVE Less(m) \in 0..n
    BY DEF Less
  <2>2. RetryPeriod + RenewDeadline \in Nat
    BY Numbers
  <2> SUFFICES ASSUME NEW p \in Procs
               PROVE  /\ Less(proc[p].left) \in 0..Latency
                      /\ Less(proc[p].wait) \in 0..RetryPeriod
                      /\ Less(proc[p].deadline) \in 0..(RetryPeriod + RenewDeadline)
                      /\ Less(proc[p].exit) \in 0..DrainTime
                      /\ Less(proc[p].busy) \in 0..Latency
                      /\ Older(p) \in 0..LeaseDuration
    OBVIOUS
  <2>3. Older(p) \in 0..LeaseDuration
    BY Fields, Numbers DEF LeaseInv
  <2>4. /\ proc[p].left \in 0..Latency /\ proc[p].wait \in 0..RetryPeriod
        /\ proc[p].deadline \in 0..(RetryPeriod + RenewDeadline)
        /\ proc[p].exit \in 0..DrainTime /\ proc[p].busy \in 0..Latency
    BY Fields DEF LeaseInv
  <2> HIDE DEF Older
  <2> QED
    BY <2>1, <2>2, <2>3, <2>4, Numbers
<1>3. ASSUME NEW p \in Procs
      PROVE  /\ Later(p) \in Proc
             /\ Later(p).pc = proc[p].pc /\ Later(p).req = proc[p].req
             /\ Later(p).left = Less(proc[p].left) /\ Later(p).busy = Less(proc[p].busy)
             /\ Later(p).deadline = Less(proc[p].deadline) /\ Later(p).age = Older(p)
  <2> DEFINE s == proc[p]
             l == Less(s.left)
             w == Less(s.wait)
             d == Less(s.deadline)
             e == Less(s.exit)
             b == Less(s.busy)
             a == Older(p)
  <2>1. s \in Proc
    BY Fields DEF LeaseInv
  <2>2. /\ l \in 0..Latency /\ w \in 0..RetryPeriod
        /\ d \in 0..(RetryPeriod + RenewDeadline)
        /\ e \in 0..DrainTime /\ b \in 0..Latency
        /\ a \in 0..LeaseDuration
    BY <1>2
  <2>3. Later(p) = [s EXCEPT !.left = l, !.wait = w, !.deadline = d, !.exit = e,
                             !.busy = b, !.age = a]
    OBVIOUS
  <2> HIDE DEF s, l, w, d, e, b, a, Later
  <2>4. /\ Later(p) \in Proc
        /\ Later(p).pc = s.pc /\ Later(p).req = s.req
        /\ Later(p).left = l /\ Later(p).busy = b
        /\ Later(p).deadline = d /\ Later(p).age = a
    BY <2>1, <2>2, <2>3 DEF Proc
  <2> QED
    BY <2>4 DEF s, l, b, d, a
<1> HIDE DEF Later
<1>4. proc' \in [Procs -> Proc] /\ \A p \in Procs : proc'[p] = Later(p)
  BY <1>1, <1>3
<1>5. LeaseTypeOK'
  BY <1>4 DEF LeaseInv, LeaseTypeOK, Tick
<1>6. \A p \in Procs : (Answered(p)' <=> Answered(p)) /\ (Works(p)' => Works(p))
  BY <1>3, <1>4, Fields, Numbers DEF LeaseInv, Works, Answered, Campaigns, Less
<1>7. WorkerHolds'
  BY <1>1, <1>6 DEF WorkerHolds, LeaseInv
<1>8. TakesOverLate'
  BY <1>1, <1>3, <1>4, Fields, Numbers DEF LeaseInv, TakesOverLate
<1>9. StopsInTime'
  <2> SUFFICES ASSUME NEW p \in Procs, NEW q \in Procs, p # q, holder = p, ~moved[q]
               PROVE  /\ proc'[p].pc = "leading" =>
                            proc'[q].age + proc'[p].deadline + Latency < LeaseDuration
                      /\ Answered(p)' => proc'[q].age + proc'[p].left + RetryPeriod
                                            + RenewDeadline + Latency < LeaseDuration
                      /\ proc'[p].busy > 0 => proc'[q].age + proc'[p].busy < LeaseDuration
    BY <1>1 DEF StopsInTime
  <2>1. /\ proc[p].pc = "leading" =>
              proc[q].age + proc[p].deadline + Latency < LeaseDuration
        /\ Answered(p) => proc[q].age + proc[p].left + RetryPeriod
                              + RenewDeadline + Latency < LeaseDuration
        /\ proc[p].busy > 0 => proc[q].age + proc[p].busy < LeaseDuration
    BY DEF LeaseInv, StopsInTime
  <2>2. /\ proc[p].left \in Nat /\ proc[p].deadline \in Nat /\ proc[p].busy \in Nat
        /\ proc[q].age \in Nat
    BY Fields, Numbers DEF LeaseInv
  <2>3. proc'[q].age \in {proc[q].age, proc[q].age + 1}
    BY <1>3, <1>4
  <2>4. ~Due(p)
    BY DEF Tick
  <2>5. proc[p].pc = "leading" => proc'[p].deadline = proc[p].deadline - 1
                                  /\ proc[p].deadline > 0
    BY <1>3, <1>4, <2>2, <2>4 DEF Due, Less
  <2>6. Answered(p) => proc'[p].left = proc[p].left - 1 /\ proc[p].left > 0
    BY <1>3, <1>4, <2>2, <2>4 DEF Due, Less, Answered
  <2>7. proc'[p].busy > 0 => proc'[p].busy = proc[p].busy - 1 /\ proc[p].busy > 0
    BY <1>3, <1>4, <2>2 DEF Less
  <2>8. proc'[p].pc = proc[p].pc /\ (Answered(p)' <=> Answered(p))
    BY <1>3, <1>4, <1>6
  <2> QED
    BY <2>1, <2>2, <2>3, <2>5, <2>6, <2>7, <2>8, Numbers
<1>10. CandidatesIdle'
  BY <1>3, <1>4 DEF LeaseInv, CandidatesIdle, Less
<1>11. OneController'
  BY <1>7 DEF WorkerHolds, OneController
<1> QED
  BY <1>5, <1>7, <1>8, <1>9, <1>10, <1>11 DEF LeaseInv

(* Whether the API server can be reached is no part of the argument. *)
LEMMA ReachKeeps ==
    ASSUME LeaseInv, NEW p \in Procs, ReachChanges(p)
    PROVE  LeaseInv'
<1>1. LeaseTypeOK'
  BY Numbers DEF LeaseInv, LeaseTypeOK, ReachChanges
<1> QED
  BY <1>1 DEF ReachChanges, LeaseInv, OneController, WorkerHolds, TakesOverLate,
              StopsInTime, CandidatesIdle, Works, Answered, Campaigns

(* Every step keeps the invariant. *)
LEMMA LeaseStep == LeaseInv /\ [LeaseNext]_leaseVars => LeaseInv'
<1> SUFFICES ASSUME LeaseInv, [LeaseNext]_leaseVars PROVE LeaseInv'
  OBVIOUS
<1>1. CASE Tick
  BY <1>1, TickKeeps
<1>2. ASSUME NEW p \in Procs, Elector(p) PROVE LeaseInv'
  BY <1>2, ReadsKeep, UpdatesKeep, SucceedsKeep, FailsKeep DEF Elector
<1>3. ASSUME NEW p \in Procs, Process(p) PROVE LeaseInv'
  BY <1>3, StoppedKeeps, EndKeeps, RestartKeeps DEF Process
<1>4. ASSUME NEW p \in Procs,
             StartWork(p) \/ Terminate(p) \/ Crash(p) \/ ReachChanges(p)
      PROVE LeaseInv'
  BY <1>4, WorkKeeps, TerminateKeeps, EndKeeps, ReachKeeps
<1>5. CASE UNCHANGED leaseVars
  BY <1>5 DEF leaseVars, LeaseInv, LeaseTypeOK, OneController, WorkerHolds, TakesOverLate,
              StopsInTime, CandidatesIdle, Works, Answered, Campaigns
<1> QED
  BY <1>1, <1>2, <1>3, <1>4, <1>5 DEF LeaseNext

(* No two controllers work at a time, whatever crashes, partitions, lost   *)
(* answers, signals and restarts come between: the leader election of      *)
(* cmd/server with its three durations and without ReleaseOnCancel.        *)
THEOREM OneAtATime == LeaseSpec => []LeaseInv
<1> QED
  BY LeaseInitInv, LeaseStep, PTL DEF LeaseSpec
=============================================================================
