---------------------------- MODULE ServerProofs ----------------------------
(***************************************************************************)
(* Proofs about module Server, and with it Health, for every setting of    *)
(* the periods, deadlines and waits and every capacity of the channel:     *)
(* readiness follows shutdowns and outages in bounded time, and a process  *)
(* that has to end is gone within the sum of its waits.                    *)
(***************************************************************************)
EXTENDS Server, TLAPS

(* What the gRPC status shows in time, the rest of which ServerInv and     *)
(* OutageIsSeen say of Ready itself.                                       *)
StatusInTime ==
    /\ Alive /\ since > 1 => ~status.serving
    /\ down > Notice + 1 => ~status.serving

(* The inductive invariant, one conjunct per argument. *)
Core == TypeOK /\ ShutdownInOrder /\ ProbeOnTime /\ StatusFollows /\ StatusInTime

(* The constants are numbers, one by one. *)
LEMMA Numbers ==
    /\ Period \in Nat /\ Period > 0 /\ Deadline \in Nat /\ Deadline > 0
    /\ Fresh \in Nat /\ Fresh > 0
    /\ SleepTime \in Nat /\ SleepTime > 0 /\ StopTime \in Nat /\ StopTime > 0
    /\ AdminTime \in Nat /\ AdminTime > 0 /\ Capacity \in Nat /\ Capacity > 0
    /\ Shutdown \in Nat /\ Shutdown = SleepTime + StopTime + AdminTime
    /\ SinceCap = Shutdown + 1
    /\ Notice \in Nat /\ Notice = Deadline + Period + Deadline /\ DownCap = Notice + 2
BY PeriodAssumption, DeadlineAssumption, FreshAssumption, SleepTimeAssumption,
   StopTimeAssumption, AdminTimeAssumption, CapacityAssumption
   DEF Shutdown, SinceCap, Notice, DownCap

(* The fields of the records are in their ranges. *)
LEMMA Ranges ==
    ASSUME TypeOK
    PROVE  /\ main.left \in 0..Shutdown /\ main.left \in Nat /\ since \in Nat
           /\ errs \in Nat /\ errs <= Capacity
           /\ probe.left \in 0..Deadline /\ probe.next \in 0..Period
           /\ probe.left \in Nat /\ probe.next \in Nat /\ probe.tick \in BOOLEAN
           /\ probe.pc \in {"first", "wait", "check", "good", "stopped"}
           /\ down \in 0..DownCap /\ down \in Nat /\ age \in 0..Fresh
           /\ status.tick \in BOOLEAN /\ status.val \in BOOLEAN /\ status.serving \in BOOLEAN
BY Numbers DEF TypeOK, HealthTypeOK

(* What the inductive invariant says of readiness and of time. *)
LEMMA CoreSays == Core => ServerInv /\ OutageIsSeen /\ ExitsInTime
<1> SUFFICES ASSUME Core PROVE ServerInv /\ OutageIsSeen /\ ExitsInTime
  OBVIOUS
<1> USE DEF Core
<1>1. main.pc \in {"starting", "serving", "sleeping", "stopping", "admin", "exited"}
  BY DEF TypeOK
<1>2. DrainIsSeen
  BY <1>1, Ranges DEF DrainIsSeen, StatusInTime, ShutdownInOrder, Alive, Ready
<1>3. LostLeaderNotReady
  BY DEF LostLeaderNotReady, ShutdownInOrder, Ready
<1>4. OutageIsSeen
  BY Ranges, Numbers DEF OutageIsSeen, StatusInTime, ProbeOnTime, Ready
<1>5. ExitsInTime
  BY <1>1, Ranges, Numbers DEF ExitsInTime, ShutdownInOrder, Alive
<1> QED
  BY <1>2, <1>3, <1>4, <1>5 DEF ServerInv

(* A process starts with nothing behind it. *)
LEMMA CoreInit == Init => Core
<1> SUFFICES ASSUME NEW level \in 1..5, NEW election \in BOOLEAN, HealthInit,
                    main = [pc |-> "starting", left |-> 0], errs = 0,
                    elect = IF level = 5 /\ election THEN "candidate" ELSE "none",
                    status = [pc |-> IF level = 5 THEN "wait" ELSE "none",
                              tick |-> FALSE, val |-> FALSE, serving |-> FALSE],
                    failed = {}, sigterm = FALSE, since = 0
             PROVE  Core
  BY DEF Init
<1>1. HealthTypeOK
  <2>1. Fresh \in 0..Fresh /\ Deadline \in 0..Deadline /\ 0 \in 0..Period /\ 0 \in 0..DownCap
    BY Numbers
  <2> QED
    BY <2>1 DEF HealthInit, HealthTypeOK
<1>2. TypeOK
  <2>1. errs \in 0..Capacity /\ since \in 0..SinceCap /\ failed \subseteq Listeners
    BY Numbers
  <2>2. main \in [pc : {"starting", "serving", "sleeping", "stopping", "admin", "exited"},
                  left : 0..Shutdown]
    BY Numbers
  <2> QED
    BY <1>1, <2>1, <2>2 DEF TypeOK
<1>3. ShutdownInOrder /\ ProbeOnTime
  BY Numbers DEF ShutdownInOrder, ProbeOnTime, HealthInit
<1>4. StatusFollows /\ StatusInTime
  BY Numbers DEF StatusFollows, StatusInTime, HealthInit
<1> QED
  BY <1>2, <1>3, <1>4 DEF Core

-----------------------------------------------------------------------------
(* What run does after a signal or an error: every wait begins where the   *)
(* one before it ended.                                                    *)
LEMMA MainKeeps == Core /\ MainNext => Core'
<1> SUFFICES ASSUME Core, MainNext PROVE Core'
  OBVIOUS
<1> USE DEF Core
<1>1. TypeOK'
  <2>1. CASE MainServes \/ MainCannotListen \/ MainReturns
    BY <2>1, Numbers DEF TypeOK, HealthTypeOK, healthVars, MainServes, MainCannotListen,
                         MainReturns
  <2>2. CASE MainSlept \/ MainCancels
    BY <2>2, Numbers DEF TypeOK, HealthTypeOK, healthVars, MainSlept, MainCancels
  <2>3. CASE MainDrains
    BY <2>3, Numbers DEF TypeOK, HealthTypeOK, MainDrains
  <2> QED
    BY <2>1, <2>2, <2>3 DEF MainNext
<1>2. UNCHANGED <<lastOK, age, probe, down, elect, status, failed, sigterm, since>>
  BY DEF MainNext, MainServes, MainCannotListen, MainDrains, MainSlept, MainCancels,
         MainReturns, healthVars
<1>3. draining => draining'
  BY DEF MainNext, MainServes, MainCannotListen, MainDrains, MainSlept, MainCancels,
         MainReturns, healthVars
<1>4. ShutdownInOrder'
  <2>1. CASE MainServes \/ MainCannotListen
    BY <2>1, <1>2, Ranges
       DEF MainServes, MainCannotListen, healthVars, ShutdownInOrder
  <2>2. CASE MainDrains
    BY <2>2, <1>2, Ranges, Numbers DEF MainDrains, ShutdownInOrder, MustEnd
  <2>3. CASE MainSlept \/ MainCancels \/ MainReturns
    BY <2>3, <1>2, Ranges, Numbers
       DEF MainSlept, MainCancels, MainReturns, healthVars, ShutdownInOrder, MustEnd
  <2> QED
    BY <2>1, <2>2, <2>3 DEF MainNext
<1>5. ProbeOnTime' /\ StatusFollows'
  BY <1>2, <1>3 DEF ProbeOnTime, StatusFollows
<1>6. StatusInTime'
  <2>1. Alive' => Alive
    BY DEF Alive, MainNext, MainServes, MainCannotListen, MainDrains, MainSlept, MainCancels,
           MainReturns
  <2> QED
    BY <1>2, <2>1 DEF StatusInTime
<1> QED
  BY <1>1, <1>4, <1>5, <1>6

(* The elector and its callback: readiness goes before the error is sent,  *)
(* and an error that is dropped finds another one waiting.                 *)
LEMMA ElectionKeeps == Core /\ (Elected \/ LeaseLost \/ ElectionNext) => Core'
<1> SUFFICES ASSUME Core, Elected \/ LeaseLost \/ ElectionNext PROVE Core'
  OBVIOUS
<1> USE DEF Core
<1>1. /\ UNCHANGED <<main, lastOK, age, probe, down, status, failed, sigterm, since>>
      /\ UNCHANGED <<synced, api>>
      /\ (draining' = draining \/ draining' = TRUE)
      /\ Alive
  BY DEF Elected, LeaseLost, ElectionNext, ElectionCancelled, CallbackChecks, CallbackDrains,
         CallbackSends, healthVars
<1>2. errs' \in 0..Capacity /\ (errs' > 0 => errs > 0 \/ elect' = "over") /\ errs' >= errs
  BY Ranges, Numbers
     DEF Elected, LeaseLost, ElectionNext, ElectionCancelled, CallbackChecks, CallbackDrains,
         CallbackSends, SendError
<1>3. TypeOK'
  <2>1. elect' \in {"none", "candidate", "leading", "stopped", "drain", "send", "over"}
    BY DEF Elected, LeaseLost, ElectionNext, ElectionCancelled, CallbackChecks,
           CallbackDrains, CallbackSends
  <2>2. draining' \in BOOLEAN
    BY <1>1 DEF TypeOK, HealthTypeOK
  <2>3. HealthTypeOK'
    BY <1>1, <2>2 DEF TypeOK, HealthTypeOK
  <2> QED
    BY <1>1, <1>2, <2>1, <2>3 DEF TypeOK
<1>4. ShutdownInOrder'
  <2>1. CASE CallbackSends
    <3>1. errs' > 0 /\ elect' = "over" /\ draining' = draining /\ elect = "send"
      BY <2>1, Ranges, Numbers DEF CallbackSends, SendError, healthVars
    <3> QED
      BY <1>1, <3>1 DEF ShutdownInOrder, MustEnd
  <2>2. CASE CallbackChecks
    BY <1>1, <2>2, Ranges DEF CallbackChecks, ShutdownInOrder, MustEnd, Cancelled, Alive, healthVars
  <2>3. CASE CallbackDrains
    BY <1>1, <2>3, Ranges DEF CallbackDrains, ShutdownInOrder, MustEnd
  <2>4. CASE Elected
    BY <1>1, <2>4, Ranges DEF Elected, ShutdownInOrder, MustEnd, healthVars
  <2>5. CASE LeaseLost \/ ElectionCancelled
    BY <1>1, <2>5, Ranges DEF LeaseLost, ElectionCancelled, ShutdownInOrder, MustEnd, healthVars
  <2> QED
    BY <2>1, <2>2, <2>3, <2>4, <2>5 DEF ElectionNext
<1>5. ProbeOnTime' /\ StatusFollows' /\ StatusInTime'
  BY <1>1 DEF ProbeOnTime, StatusFollows, StatusInTime, Alive
<1> QED
  BY <1>3, <1>4, <1>5

(* A listener that fails leaves an error, its own or an earlier one, in    *)
(* the channel; a signal needs none.                                       *)
LEMMA CausesKeep ==
    Core /\ (Sigterm \/ \E l \in Listeners : ListenerFails(l)) => Core'
<1> SUFFICES ASSUME Core, Sigterm \/ \E l \in Listeners : ListenerFails(l) PROVE Core'
  OBVIOUS
<1> USE DEF Core
<1>1. /\ UNCHANGED <<healthVars, main, elect, status, since>>
      /\ sigterm => sigterm'
      /\ failed \subseteq failed'
  BY DEF Sigterm, ListenerFails
<1>2. errs' \in 0..Capacity /\ errs' >= errs /\ (errs' > errs => failed' # {})
      /\ (failed' = failed \/ errs' > 0)
  BY Ranges, Numbers DEF Sigterm, ListenerFails, SendError
<1>3. TypeOK'
  <2>1. sigterm' \in BOOLEAN /\ failed' \subseteq Listeners
    BY DEF Sigterm, ListenerFails, TypeOK
  <2> QED
    BY <1>1, <1>2, <2>1 DEF TypeOK, HealthTypeOK, healthVars
<1>4. ShutdownInOrder'
  BY <1>1, <1>2, Ranges DEF ShutdownInOrder, MustEnd, healthVars
<1>5. ProbeOnTime' /\ StatusFollows' /\ StatusInTime'
  BY <1>1 DEF ProbeOnTime, StatusFollows, StatusInTime, Alive, healthVars
<1> QED
  BY <1>3, <1>4, <1>5

(* The gRPC health loop shows nothing that Ready did not say this second.  *)
LEMMA StatusKeeps == Core /\ StatusNext => Core'
<1> SUFFICES ASSUME Core, StatusNext PROVE Core'
  OBVIOUS
<1> USE DEF Core
<1>1. UNCHANGED <<healthVars, main, errs, elect, failed, sigterm, since>>
  BY DEF StatusNext, StatusReads, StatusReadsOK, StatusSets, StatusShuts
<1>2. ShutdownInOrder' /\ ProbeOnTime'
  BY <1>1 DEF ShutdownInOrder, ProbeOnTime, MustEnd, healthVars
<1>3. Alive /\ status \in [pc : {"none", "wait", "read", "set", "closed"}, tick : BOOLEAN,
                           val : BOOLEAN, serving : BOOLEAN]
  BY DEF StatusNext, StatusReads, StatusReadsOK, StatusSets, StatusShuts, TypeOK
<1>4. since > 0 => draining
  BY Ranges DEF ShutdownInOrder, TypeOK, Alive, StatusNext, StatusReads, StatusReadsOK,
                StatusSets, StatusShuts
<1>5. down > Notice /\ lastOK => since > 0
  BY Ranges, Numbers DEF ProbeOnTime
<1>6. CASE StatusReads
  <2> DEFINE v == ~draining /\ synced /\ age < Fresh
  <2>1. /\ v \in BOOLEAN
        /\ status' = [status EXCEPT !.pc = "read", !.tick = FALSE, !.val = v]
    BY <1>6 DEF StatusReads, TypeOK, HealthTypeOK
  <2>2. since > 0 => ~v
    BY <1>4
  <2> HIDE DEF v
  <2>3. /\ status'.pc = "read" /\ status'.val = v /\ status'.serving = status.serving
        /\ status' \in [pc : {"none", "wait", "read", "set", "closed"}, tick : BOOLEAN,
                        val : BOOLEAN, serving : BOOLEAN]
    BY <1>3, <2>1
  <2>4. StatusFollows'
    BY <1>1, <1>5, <2>2, <2>3 DEF StatusFollows, healthVars
  <2>5. StatusInTime'
    BY <1>1, <2>3 DEF StatusInTime, Alive, healthVars
  <2> QED
    BY <1>1, <1>2, <2>3, <2>4, <2>5 DEF TypeOK, HealthTypeOK, healthVars
<1>7. CASE StatusReadsOK
  <2> DEFINE v == status.val /\ lastOK
  <2>1. v \in BOOLEAN /\ status' = [status EXCEPT !.pc = "set", !.val = v] /\ status.pc = "read"
    BY <1>3, <1>7 DEF StatusReadsOK, TypeOK, HealthTypeOK
  <2>2. (since > 0 => ~v) /\ (down > Notice => ~v)
    BY <2>1 DEF StatusFollows
  <2> HIDE DEF v
  <2>3. /\ status'.pc = "set" /\ status'.val = v /\ status'.serving = status.serving
        /\ status' \in [pc : {"none", "wait", "read", "set", "closed"}, tick : BOOLEAN,
                        val : BOOLEAN, serving : BOOLEAN]
    BY <1>3, <2>1
  <2>4. StatusFollows'
    BY <1>1, <2>2, <2>3 DEF StatusFollows, healthVars
  <2>5. StatusInTime'
    BY <1>1, <2>3 DEF StatusInTime, Alive, healthVars
  <2> QED
    BY <1>1, <1>2, <2>3, <2>4, <2>5 DEF TypeOK, HealthTypeOK, healthVars
<1>8. CASE StatusSets
  <2>1. /\ status'.pc = "wait" /\ status'.serving = status.val /\ status.pc = "set"
        /\ status' \in [pc : {"none", "wait", "read", "set", "closed"}, tick : BOOLEAN,
                        val : BOOLEAN, serving : BOOLEAN]
    BY <1>3, <1>8 DEF StatusSets
  <2>2. (since > 0 => ~status'.serving) /\ (down > Notice => ~status'.serving)
    BY <2>1 DEF StatusFollows
  <2>3. StatusFollows'
    BY <1>1, <2>1, <2>2 DEF StatusFollows, healthVars
  <2>4. StatusInTime'
    BY <1>1, <2>2, Ranges, Numbers DEF StatusInTime, Alive, healthVars
  <2> QED
    BY <1>1, <1>2, <2>1, <2>3, <2>4 DEF TypeOK, HealthTypeOK, healthVars
<1>9. CASE StatusShuts
  <2>1. /\ status'.pc = "closed" /\ status'.serving = FALSE
        /\ status' \in [pc : {"none", "wait", "read", "set", "closed"}, tick : BOOLEAN,
                        val : BOOLEAN, serving : BOOLEAN]
    BY <1>3, <1>9 DEF StatusShuts
  <2>2. StatusFollows' /\ StatusInTime'
    BY <2>1 DEF StatusFollows, StatusInTime
  <2> QED
    BY <1>1, <1>2, <2>1, <2>2 DEF TypeOK, HealthTypeOK, healthVars
<1> QED
  BY <1>6, <1>7, <1>8, <1>9 DEF StatusNext

-----------------------------------------------------------------------------
(* The probe loop: a success that counts was the API's answer to a check   *)
(* under way, and only the end of the process ends the loop.               *)
LEMMA ProbeKeeps == Core /\ (ProbeWorks \/ ProbeEnds \/ Surroundings) => Core'
<1> SUFFICES ASSUME Core, ProbeWorks \/ ProbeEnds \/ Surroundings PROVE Core'
  OBVIOUS
<1> USE DEF Core
<1> DEFINE Loop == [pc : {"first", "wait", "check", "good", "stopped"}, left : 0..Deadline,
                    next : 0..Period, tick : BOOLEAN]
<1>1. /\ UNCHANGED <<draining, main, errs, elect, status, failed, sigterm, since>>
      /\ Alive /\ probe \in Loop
  BY DEF ProbeWorks, ProbeEnds, Surroundings, ProbeNext, ProbeStarts, ProbeRecords,
         ProbeReturns, ProbeStops, APIChanges, CacheSyncs, serverVars, TypeOK, HealthTypeOK
<1>2. ShutdownInOrder'
  BY <1>1 DEF ShutdownInOrder, MustEnd
<1>3. ASSUME HealthTypeOK' PROVE TypeOK'
  BY <1>1, <1>3 DEF TypeOK
<1>4. ASSUME down' = down \/ down' = 0 PROVE StatusInTime'
  BY <1>1, <1>4, Ranges, Numbers DEF StatusInTime, Alive
<1>5. CASE Surroundings
  <2>1. /\ down' = down \/ down' = 0
        /\ UNCHANGED <<lastOK, age, probe>>
    BY <1>5 DEF Surroundings, APIChanges, CacheSyncs
  <2>2. HealthTypeOK'
    <3>1. api' \in BOOLEAN /\ synced' \in BOOLEAN
      BY <1>5, Zenon DEF Surroundings, APIChanges, CacheSyncs, TypeOK, HealthTypeOK
    <3>2. down' \in 0..DownCap
      BY <2>1, Ranges, Numbers
    <3> QED
      BY <1>1, <2>1, <3>1, <3>2 DEF TypeOK, HealthTypeOK
  <2>3. ProbeOnTime'
    BY <1>1, <2>1, Ranges, Numbers DEF ProbeOnTime
  <2>4. StatusFollows'
    BY <1>1, <2>1, Ranges, Numbers DEF StatusFollows
  <2> QED
    BY <1>2, <1>3, <1>4, <2>1, <2>2, <2>3, <2>4
<1>6. CASE ProbeEnds
  <2>1. /\ probe' = [probe EXCEPT !.pc = "stopped"]
        /\ UNCHANGED <<draining, synced, lastOK, age, api, down>> /\ Cancelled
    BY <1>6 DEF ProbeEnds, ProbeStops
  <2>2. probe' \in Loop /\ probe'.pc = "stopped" /\ probe'.next = probe.next /\ probe.pc = "wait"
    BY <1>1, <1>6, <2>1 DEF ProbeEnds, ProbeStops
  <2>3. draining /\ since > 0
    BY <1>1, <2>1, Ranges, Numbers DEF ShutdownInOrder, Cancelled, Alive
  <2>4. ProbeOnTime'
    BY <1>1, <2>1, <2>2, <2>3, Ranges DEF ProbeOnTime
  <2>5. HealthTypeOK' /\ StatusFollows'
    BY <1>1, <2>1, <2>2 DEF StatusFollows, TypeOK, HealthTypeOK
  <2> QED
    BY <1>2, <1>3, <1>4, <2>1, <2>4, <2>5
<1>7. CASE ProbeWorks
  <2>1. CASE ProbeStarts
    <3>1. /\ probe' = [probe EXCEPT !.pc = "check", !.tick = FALSE, !.left = Deadline]
          /\ UNCHANGED <<draining, synced, lastOK, age, api, down>>
          /\ probe.pc = "wait" /\ probe.tick /\ Deadline \in 0..Deadline
      BY <2>1, Numbers DEF ProbeStarts
    <3>2. /\ probe' \in Loop /\ probe'.pc = "check" /\ probe'.left = Deadline
          /\ probe'.next = probe.next
      BY <1>1, <3>1
    <3>3. ProbeOnTime'
      BY <3>1, <3>2, Ranges, Numbers DEF ProbeOnTime
    <3>4. HealthTypeOK' /\ StatusFollows'
      BY <1>1, <3>1, <3>2 DEF StatusFollows, TypeOK, HealthTypeOK
    <3> QED
      BY <1>2, <1>3, <1>4, <3>1, <3>3, <3>4
  <2>2. CASE ProbeRecords
    <3>1. /\ probe' = [probe EXCEPT !.pc = "wait"] /\ age' = 0 /\ probe.pc = "good"
          /\ UNCHANGED <<draining, synced, lastOK, api, down>> /\ 0 \in 0..Fresh
      BY <2>2, Numbers DEF ProbeRecords
    <3>2. /\ probe' \in Loop /\ probe'.pc = "wait" /\ probe'.next = probe.next
          /\ probe'.tick = probe.tick
      BY <1>1, <3>1
    <3>3. ProbeOnTime'
      BY <3>1, <3>2, Ranges, Numbers DEF ProbeOnTime
    <3>4. HealthTypeOK' /\ StatusFollows'
      BY <1>1, <3>1, <3>2 DEF StatusFollows, TypeOK, HealthTypeOK
    <3> QED
      BY <1>2, <1>3, <1>4, <3>1, <3>3, <3>4
  <2>3. ASSUME NEW ok \in BOOLEAN, ProbeReturns(ok) PROVE Core'
    <3> DEFINE pc == IF ok THEN "good" ELSE "wait"
               next == IF probe.pc = "first" THEN Period ELSE probe.next
    <3>1. /\ probe' = [probe EXCEPT !.pc = pc, !.left = 0, !.next = next]
          /\ UNCHANGED <<draining, synced, age, api, down>>
          /\ lastOK' = ok /\ (ok => down <= Deadline - probe.left)
      BY <2>3 DEF ProbeReturns
    <3>2. pc \in {"good", "wait"} /\ (pc = "good" <=> ok) /\ next \in 0..Period /\ next > 0
          /\ 0 \in 0..Deadline
      BY Ranges, Numbers DEF ProbeOnTime
    <3> HIDE DEF pc, next
    <3>3. /\ probe' \in Loop /\ probe'.pc = pc /\ probe'.next = next
      BY <1>1, <3>1, <3>2
    <3>4. ok => down <= Deadline
      BY <3>1, Ranges, Numbers
    <3>5. ProbeOnTime'
      BY <3>1, <3>2, <3>3, <3>4, Ranges, Numbers DEF ProbeOnTime
    <3>6. HealthTypeOK'
      BY <3>1, <3>3 DEF TypeOK, HealthTypeOK
    <3>7. StatusFollows'
      BY <1>1, <3>1, <3>4, Ranges, Numbers DEF StatusFollows
    <3> QED
      BY <1>2, <1>3, <1>4, <3>1, <3>5, <3>6, <3>7
  <2> QED
    BY <1>7, <2>1, <2>2, <2>3 DEF ProbeWorks, ProbeNext
<1> QED
  BY <1>5, <1>6, <1>7

(* A second passes only when every thread waits, so whatever the loops     *)
(* were to notice by now they have noticed.                                *)
LEMMA TickKeeps == Core /\ Tick => Core'
<1> SUFFICES ASSUME Core, Tick PROVE Core'
  OBVIOUS
<1> USE DEF Core
<1> DEFINE Loop == [pc : {"first", "wait", "check", "good", "stopped"}, left : 0..Deadline,
                    next : 0..Period, tick : BOOLEAN]
           GrpcLoop == [pc : {"none", "wait", "read", "set", "closed"}, tick : BOOLEAN,
                        val : BOOLEAN, serving : BOOLEAN]
           Steps == [pc : {"starting", "serving", "sleeping", "stopping", "admin", "exited"},
                     left : 0..Shutdown]
<1>1. /\ UNCHANGED <<draining, synced, lastOK, api, errs, elect, failed, sigterm>>
      /\ Alive /\ ~Due /\ ~ProbeDue
      /\ probe \in Loop /\ status \in GrpcLoop /\ main \in Steps
  BY DEF Tick, HealthTick, TypeOK, HealthTypeOK
<1>2. /\ age' \in 0..Fresh
      /\ down' \in 0..DownCap /\ down' \in {down, down + 1}
      /\ since' \in 0..SinceCap /\ since' \in {since, since + 1}
      /\ MustEnd /\ since < SinceCap => since' = since + 1
      /\ ~MustEnd => since' = since
  <2>1. age' \in 0..Fresh
    BY Ranges, Numbers DEF Tick, HealthTick
  <2>2. down' \in 0..DownCap /\ down' \in {down, down + 1}
    BY Ranges, Numbers DEF Tick, HealthTick
  <2>3. since' \in 0..SinceCap /\ since' \in {since, since + 1}
        /\ (MustEnd /\ since < SinceCap => since' = since + 1)
        /\ (~MustEnd => since' = since)
    BY Numbers DEF Tick, TypeOK
  <2> QED
    BY <2>1, <2>2, <2>3
<1>3. /\ main' \in Steps /\ main'.pc = main.pc
      /\ main'.left = IF main.left = 0 THEN 0 ELSE main.left - 1
  <2> DEFINE l == IF main.left = 0 THEN 0 ELSE main.left - 1
  <2>1. l \in 0..Shutdown
    BY Ranges, Numbers
  <2>2. main' = [main EXCEPT !.left = l]
    BY DEF Tick
  <2> HIDE DEF l
  <2>3. main' \in Steps /\ main'.pc = main.pc /\ main'.left = l
    BY <1>1, <2>1, <2>2
  <2> QED
    BY <2>3 DEF l
<1>4. /\ status' \in GrpcLoop /\ status'.pc = status.pc /\ status'.serving = status.serving
      /\ status.pc \notin {"none", "closed"} => status'.tick
  BY <1>1 DEF Tick
<1>5. /\ probe' \in Loop /\ probe'.pc = probe.pc
      /\ probe.pc = "check" => probe.left > 0 /\ probe'.left = probe.left - 1
      /\ probe.pc = "wait" => ~probe.tick
      /\ probe.pc # "good"
      /\ probe.pc \in {"wait", "check"} =>
            /\ probe'.next = IF probe.next = 1 THEN Period ELSE probe.next - 1
            /\ probe'.tick = (probe.tick \/ probe.next = 1)
      /\ probe.pc = "stopped" => probe' = probe
  <2>1. CASE probe.pc = "stopped"
    BY <1>1, <2>1 DEF Tick, HealthTick
  <2>2. CASE probe.pc = "first"
    <3> DEFINE l == probe.left - 1
    <3>1. probe' = [probe EXCEPT !.left = l] /\ probe.left # 0
      BY <1>1, <2>2 DEF Tick, HealthTick, ProbeDue
    <3>2. l \in 0..Deadline
      BY <3>1, Ranges, Numbers
    <3> HIDE DEF l
    <3>3. probe' \in Loop /\ probe'.pc = probe.pc
      BY <1>1, <3>1, <3>2
    <3> QED
      BY <2>2, <3>3
  <2>3. CASE probe.pc \in {"wait", "check"}
    <3> DEFINE l == IF probe.pc = "check" THEN probe.left - 1 ELSE probe.left
               n == IF probe.next = 1 THEN Period ELSE probe.next - 1
               t == probe.tick \/ probe.next = 1
    <3>1. probe' = [probe EXCEPT !.left = l, !.next = n, !.tick = t]
      BY <1>1, <2>3 DEF Tick, HealthTick
    <3>2. probe.pc = "check" => probe.left > 0
      BY <1>1, Ranges DEF ProbeDue
    <3>3. probe.pc = "wait" => ~probe.tick
      BY <1>1 DEF ProbeDue
    <3>4. l \in 0..Deadline /\ n \in 0..Period /\ t \in BOOLEAN
      BY <2>3, <3>2, Ranges, Numbers DEF ProbeOnTime
    <3>5. probe.pc = "check" => l = probe.left - 1
      OBVIOUS
    <3> HIDE DEF l, n, t
    <3>6. /\ probe' \in Loop /\ probe'.pc = probe.pc /\ probe'.left = l
          /\ probe'.next = n /\ probe'.tick = t
      BY <1>1, <3>1, <3>4
    <3> QED
      BY <2>3, <3>2, <3>3, <3>5, <3>6 DEF n, t
  <2> QED
    BY <1>1, <2>1, <2>2, <2>3, Ranges DEF ProbeDue
<1>6. TypeOK'
  BY <1>1, <1>2, <1>3, <1>4, <1>5 DEF TypeOK, HealthTypeOK
<1>7. /\ main.pc # "starting" /\ (main.pc = "serving" => ~sigterm /\ errs = 0)
      /\ main.pc \in {"sleeping", "stopping", "admin"} => main.left > 0
      /\ elect \notin {"stopped", "drain", "send"}
      /\ status.pc \notin {"read", "set"} /\ (status.pc = "wait" => ~status.tick)
  BY <1>1, Ranges DEF Due
<1>8. ShutdownInOrder'
  <2>1. main.pc = "serving" => ~MustEnd
    BY <1>7 DEF MustEnd, ShutdownInOrder
  <2>2. MustEnd' <=> MustEnd
    BY <1>1 DEF MustEnd
  <2>3. main.pc \in {"sleeping", "stopping", "admin"} => since < SinceCap
    BY <1>7, Ranges, Numbers DEF ShutdownInOrder
  <2>4. main.pc = "serving" => since' = 0 /\ (failed # {} \/ elect = "over" => errs > 0)
    BY <1>2, <2>1 DEF ShutdownInOrder
  <2>5. main.pc = "sleeping" => since' + main'.left = SleepTime
    BY <1>2, <1>3, <1>7, <2>3, Ranges, Numbers DEF ShutdownInOrder
  <2>6. main.pc = "stopping" =>
          since' >= SleepTime /\ since' + main'.left <= SleepTime + StopTime
    BY <1>2, <1>3, <1>7, <2>3, Ranges, Numbers DEF ShutdownInOrder
  <2>7. main.pc = "admin" => since' >= SleepTime /\ since' + main'.left <= Shutdown
    BY <1>2, <1>3, <1>7, <2>3, Ranges, Numbers DEF ShutdownInOrder
  <2> QED
    BY <1>1, <1>3, <1>7, <2>2, <2>4, <2>5, <2>6, <2>7 DEF ShutdownInOrder
<1>9. ProbeOnTime'
  <2>1. probe.pc \in {"wait", "check"} => probe'.next > 0
    BY <1>5, Ranges, Numbers DEF ProbeOnTime
  <2>2. lastOK /\ probe.pc = "check" => down' + probe'.left <= Notice
    BY <1>2, <1>5, Ranges, Numbers DEF ProbeOnTime
  <2>3. lastOK /\ probe.pc = "wait" =>
          IF probe'.tick THEN down' <= Deadline + Period
                         ELSE down' + probe'.next <= Deadline + Period
    BY <1>2, <1>5, Ranges, Numbers DEF ProbeOnTime
  <2>4. probe.pc = "stopped" => draining /\ since' > 0 /\ probe'.next > 0
    BY <1>2, <1>5, Ranges DEF ProbeOnTime
  <2> QED
    BY <1>1, <1>5, <2>1, <2>2, <2>3, <2>4, Ranges DEF ProbeOnTime
<1>10. StatusFollows'
  BY <1>4, <1>7, Ranges DEF StatusFollows
<1>11. StatusInTime'
  <2>1. since > 0 \/ down > Notice => ~status.serving
    BY <1>4, <1>7, Ranges DEF StatusFollows, TypeOK
  <2> QED
    BY <1>2, <1>4, <2>1, Ranges, Numbers DEF StatusInTime
<1> QED
  BY <1>6, <1>8, <1>9, <1>10, <1>11

-----------------------------------------------------------------------------
(* Every step keeps the inductive invariant. *)
LEMMA CoreStep == Core /\ [Next]_vars => Core'
<1> SUFFICES ASSUME Core, [Next]_vars PROVE Core'
  OBVIOUS
<1>1. CASE UNCHANGED vars
  BY <1>1 DEF vars, healthVars, serverVars, Core, TypeOK, HealthTypeOK, ShutdownInOrder,
              ProbeOnTime, StatusFollows, StatusInTime, MustEnd, Alive
<1> QED
  BY <1>1, MainKeeps, ElectionKeeps, CausesKeep, StatusKeeps, ProbeKeeps, TickKeeps DEF Next

(* While a process goes down, for a signal, a failed listener or a lost    *)
(* Lease, neither /readyz nor the gRPC health status invites traffic: run, *)
(* the election callback and health.State.                                 *)
THEOREM DrainSeen == Spec => []ServerInv
<1> QED
  BY CoreInit, CoreStep, CoreSays, PTL DEF Spec

(* An outage of the Kubernetes API shows in Ready after a probe, a period  *)
(* and a probe, and a second later in the gRPC status: State.Run and the   *)
(* loop that copies Ready.                                                 *)
THEOREM OutageSeen == Spec => []OutageIsSeen
<1> QED
  BY CoreInit, CoreStep, CoreSays, PTL DEF Spec

(* A process that has to end is gone after its three waits: no error is    *)
(* lost on the way through the channel, and the waits do not add up to     *)
(* more, however signals, errors and the lost Lease fall together.         *)
THEOREM ExitTimely == Spec => []ExitsInTime
<1> QED
  BY CoreInit, CoreStep, CoreSays, PTL DEF Spec
=============================================================================
