----------------------------- MODULE PartsProofs -----------------------------
(***************************************************************************)
(* Proofs about the parts that share no state with the set path and the    *)
(* controller, each under its own specification: the upgrade probe         *)
(* (Monitor), the certificate tool (Certgen), a TLS connection (Admission),*)
(* a rolling upgrade (Rollout) and a request through the API (Api).        *)
(***************************************************************************)
EXTENDS Monitor, Certgen, Admission, Api, Rollout, FiniteSetTheorems, TLAPS

(* The upgrade probe *)

(* Its constants are numbers, one by one. *)
LEMMA MonitorNumbers ==
    /\ Duration \in Nat /\ Interval \in Nat /\ Settle \in Nat /\ CheckTime \in Nat
    /\ Duration > 0 /\ Interval > 0 /\ Settle > 0 /\ CheckTime > 0
    /\ LateCap = CheckTime + 1
BY DurationAssumption, IntervalAssumption, SettleAssumption, CheckTimeAssumption DEF LateCap

(* A monitor starts with its timers set and nothing observed. *)
LEMMA MonitorStarts == MonitorInit => MonitorInv
<1> SUFFICES ASSUME MonitorInit PROVE MonitorInv
  OBVIOUS
<1>1. MonitorTypeOK
  <2>1. /\ busy \in 0..CheckTime /\ left \in 0..Duration /\ late \in 0..LateCap
        /\ next \in 1..Interval /\ settling \in 0..(Settle + 1)
        /\ window \in 0..Settle /\ sampled \in 0..Settle
    BY MonitorNumbers DEF MonitorInit
  <2> QED
    BY <2>1 DEF MonitorInit, MonitorTypeOK
<1>2. SuccessIsObserved /\ SuccessNotLate /\ SettlingObserved /\ FinalInTime
  BY MonitorNumbers DEF MonitorInit, SuccessIsObserved, SuccessNotLate, SettlingObserved,
                        FinalInTime
<1> QED
  BY <1>1, <1>2 DEF MonitorInv

(* The finish signal starts the window. *)
LEMMA FinishKeeps == MonitorInv /\ FinishPosted => MonitorInv'
BY MonitorNumbers
   DEF MonitorInv, MonitorTypeOK, SuccessIsObserved, SuccessNotLate, SettlingObserved,
       FinalInTime, FinishPosted, timers

(* A final sample that succeeds was started in time, after the window. *)
LEMMA SampleKeeps == ASSUME MonitorInv, NEW ok \in BOOLEAN, SampleReturns(ok) PROVE MonitorInv'
<1> USE DEF MonitorInv
<1>1. /\ UNCHANGED <<controlled, left, late, next, settling, window, tick, finish, sampled>>
      /\ busy' = 0 /\ pc \in {"first", "sample", "final"}
      /\ \/ pc' = "end" /\ result' = "error" /\ ready' = ready
         \/ pc' = "select" /\ ready' \in {ready, TRUE} /\ result' = result
         \/ pc = "final" /\ pc' = "end" /\ result' = "ok" /\ ready' = ready
  BY DEF SampleReturns, End, timers
<1>2. MonitorTypeOK'
  <2>1. busy' \in 0..CheckTime
    BY <1>1, MonitorNumbers
  <2> QED
    BY <1>1, <2>1 DEF MonitorTypeOK
<1>6. result = "none" /\ (result' = "ok" => pc = "final")
  BY <1>1 DEF FinalInTime
<1>3. SuccessIsObserved'
  <2>1. pc = "final" => finish = "nil" /\ sampled = Settle
    BY MonitorNumbers DEF SettlingObserved
  <2> QED
    BY <1>1, <1>6, <2>1 DEF SuccessIsObserved
<1>4. SuccessNotLate'
  <2>1. controlled /\ pc = "final" => late <= CheckTime
    BY MonitorNumbers DEF MonitorTypeOK, FinalInTime
  <2> QED
    BY <1>1, <1>6, <2>1 DEF SuccessNotLate
<1>5. SettlingObserved' /\ FinalInTime'
  BY <1>1 DEF SettlingObserved, FinalInTime
<1> QED
  BY <1>2, <1>3, <1>4, <1>5

(* Whatever the select takes, only a settled run takes the final sample,   *)
(* and only before the deadline if it is controlled.                       *)
LEMMA SelectKeeps ==
    MonitorInv /\ (SelectDeadline \/ SelectFinish \/ SelectSettled \/ SelectTick)
        => MonitorInv'
<1> SUFFICES ASSUME MonitorInv,
                    SelectDeadline \/ SelectFinish \/ SelectSettled \/ SelectTick
             PROVE  MonitorInv'
  OBVIOUS
<1> USE MonitorNumbers
        DEF MonitorInv, MonitorTypeOK, SuccessIsObserved, SuccessNotLate, SettlingObserved,
            FinalInTime
<1>1. CASE SelectDeadline
  BY <1>1 DEF SelectDeadline, End, timers
<1>2. CASE SelectFinish
  BY <1>2 DEF SelectFinish
<1>3. CASE SelectSettled
  BY <1>3 DEF SelectSettled, StartSample, End, timers
<1>4. CASE SelectTick
  <2>1. /\ UNCHANGED <<controlled, left, late, next, settling, window, ready, finish, result>>
        /\ tick' = FALSE /\ pc' = "sample" /\ busy' = CheckTime /\ sampled' = window
        /\ pc = "select"
    BY <1>4 DEF SelectTick, StartSample, timers
  <2>4. busy' \in 0..CheckTime
    BY <2>1
  <2>5. sampled' \in 0..Settle
    BY <2>1
  <2>2. MonitorTypeOK'
    BY <2>1, <2>4, <2>5
  <2>3. SuccessIsObserved' /\ SuccessNotLate' /\ SettlingObserved' /\ FinalInTime'
    BY <2>1
  <2> QED
    BY <2>2, <2>3
<1> QED
  BY <1>1, <1>2, <1>3, <1>4

(* While time passes the sample under way, the settling period and the     *)
(* window move together.                                                   *)
LEMMA TimeKeeps == MonitorInv /\ TimePasses => MonitorInv'
<1> SUFFICES ASSUME MonitorInv, TimePasses PROVE MonitorInv'
  OBVIOUS
<1> USE MonitorNumbers DEF MonitorInv
<1>1. MonitorTypeOK'
  BY DEF MonitorTypeOK, TimePasses, Down
<1>2. SettlingObserved'
  BY DEF MonitorTypeOK, SettlingObserved, TimePasses, Down
<1>3. FinalInTime'
  BY DEF MonitorTypeOK, FinalInTime, TimePasses, Down, EventDue
<1>4. SuccessIsObserved' /\ SuccessNotLate'
  BY DEF SuccessIsObserved, SuccessNotLate, TimePasses
<1> QED
  BY <1>1, <1>2, <1>3, <1>4

(* A controlled run that succeeds has seen the finish signal, the whole    *)
(* settling period after it and a good sample at its end, and succeeds no  *)
(* later than one sample after the deadline: the select of monitor.        *)
THEOREM MonitorVerdict == MonitorSpec => []MonitorInv
<1>1. MonitorInv /\ [MonitorNext]_monitorVars => MonitorInv'
  <2>1. MonitorInv /\ UNCHANGED monitorVars => MonitorInv'
    BY DEF MonitorInv, MonitorTypeOK, SuccessIsObserved, SuccessNotLate, SettlingObserved,
           FinalInTime, monitorVars, timers
  <2> QED
    BY <2>1, FinishKeeps, SampleKeeps, SelectKeeps, TimeKeeps DEF MonitorNext, Step
<1> QED
  BY <1>1, MonitorStarts, PTL DEF MonitorSpec

-----------------------------------------------------------------------------
(* The certificate tool *)

(* A run that is at work finds nothing but its own files. *)
Alone == exit = "none" => \A f \in FileNames : dir[f] \in {Absent, Torn, run.n}

CertTypeOK ==
    /\ dir \in [FileNames -> 0..Torn]
    /\ run = [n |-> run.n, pc |-> run.pc] /\ run.n \in 0..MaxRuns

CertInv == CertTypeOK /\ Alone /\ OneIdentitySet

(* The directory holds the files of one run at most, whatever was cut      *)
(* short, repeated or removed: run and writePair of cmd/certgen.           *)
THEOREM OneIdentity == CertSpec => []OneIdentitySet
<1> USE MaxRunsAssumption DEF Absent, Torn
<1>1. CertInit => CertInv
  BY DEF CertInit, CertInv, CertTypeOK, Alone, OneIdentitySet
<1>2. CertInv /\ [CertNext]_certVars => CertInv'
  <2> SUFFICES ASSUME CertInv, [CertNext]_certVars PROVE CertInv'
    OBVIOUS
  <2> USE DEF CertInv, CertTypeOK, Alone, OneIdentitySet
  <2>1. CASE Starts
    <3>1. PICK valid \in BOOLEAN :
             /\ run' = [n |-> run.n + 1, pc |-> IF Empty /\ valid THEN 0 ELSE Over]
             /\ exit' = IF Empty /\ valid THEN "none" ELSE "error"
      BY <2>1 DEF Starts
    <3>2. run'.n = run.n + 1 /\ dir' = dir /\ run' = [n |-> run'.n, pc |-> run'.pc]
      BY <2>1, <3>1 DEF Starts
    <3> QED
      BY <2>1, <3>1, <3>2 DEF Starts, Empty
  <2>2. CASE Creates
    <3>1. run' = [n |-> run.n, pc |-> run.pc + 1]
      BY <2>2 DEF Creates
    <3>2. run'.n = run.n /\ run' = [n |-> run'.n, pc |-> run'.pc]
      BY <3>1
    <3>4. exit' = exit /\ exit = "none" /\ Torn \in 0..Torn
      BY <2>2 DEF Creates
    <3>5. PICK g : dir' = [dir EXCEPT ![g] = Torn]
      BY <2>2, Zenon DEF Creates
    <3>3. dir' \in [FileNames -> 0..Torn] /\ \A f \in FileNames : dir'[f] \in {dir[f], Torn}
      BY <3>4, <3>5
    <3> QED
      BY <3>2, <3>3, <3>4
  <2>3. CASE Writes
    <3>1. run.n \in 0..Torn /\ run' = run /\ exit' = exit /\ exit = "none"
      BY <2>3 DEF Writes
    <3>2. /\ dir' \in [FileNames -> 0..Torn] /\ \A f \in FileNames : dir'[f] \in {dir[f], run.n}
      BY <2>3, <3>1 DEF Writes
    <3> QED
      BY <3>1, <3>2
  <2>4. CASE Succeeds \/ Stops
    BY <2>4 DEF Succeeds, Stops
  <2>5. CASE Removed
    BY <2>5 DEF Removed
  <2>6. CASE UNCHANGED certVars
    BY <2>6 DEF certVars
  <2> QED
    BY <2>1, <2>2, <2>3, <2>4, <2>5, <2>6 DEF CertNext
<1>3. CertInv => OneIdentitySet
  BY DEF CertInv
<1> QED
  BY <1>1, <1>2, <1>3, PTL DEF CertSpec

-----------------------------------------------------------------------------
(* A TLS connection *)

(* Nothing is sent before the hello, and what the client has shown or will *)
(* never show does not change once the server has judged it.               *)
ShownOnce ==
    /\ presented # NoCertificate => client \in {"sent", "over"}
    /\ conn \in {"open", "refused"} => client \in {"sent", "over"}
    /\ presented \in {NoCertificate, setup.cert}
    /\ setup.noCert => presented = NoCertificate
    /\ served => conn = "open"

(* What a certificate that is let in, or refused with this alert, is. *)
Judged ==
    /\ conn = "open" => /\ presented.ca = setup.server.clientCA
                        /\ presented.usage = "client"
                        /\ setup.server.allowed \in presented.uris
    /\ conn = "refused" =>
          \/ alert = "certificate required" /\ presented = NoCertificate
          \/ /\ alert = "unknown CA" /\ presented # NoCertificate
             /\ presented.ca # setup.server.clientCA
          \/ alert = "expired" /\ expired
          \/ /\ alert = "bad certificate" /\ presented.ca = setup.server.clientCA
             /\ presented.usage = "client" => setup.server.allowed \notin presented.uris

(* tlscheck has looked at its fixture before it connects. *)
FixtureLooked ==
    setup.tool = "tlscheck" /\ (client \in {"loaded", "hello", "sent"} \/ presented # NoCertificate)
        => setup.cert.usage = "client"

AdmInv == setup \in Setups /\ ShownOnce /\ Judged /\ FixtureLooked /\ RejectionIsPolicy /\ LabPasses

(* A connection begins with nothing sent and nothing said. *)
LEMMA AdmStarts == AdmInit => AdmInv
BY DEF AdmInit, AdmInv, ShownOnce, Judged, FixtureLooked, RejectionIsPolicy, LabPasses

(* The server's judgement: Verdict in the order of its cases. *)
LEMMA VerifiesKeeps == AdmInv /\ Verifies => AdmInv'
<1> SUFFICES ASSUME AdmInv, Verifies PROVE AdmInv'
  OBVIOUS
<1>1. /\ UNCHANGED <<setup, expired, client, presented, served, broken, says>>
      /\ conn = "hello" /\ (client = "sent" \/ presented # NoCertificate)
      /\ conn' = (IF alert' = "none" THEN "open" ELSE "refused")
      /\ alert' = Verdict(presented)
  BY DEF Verifies
<1>2. Judged'
  <2>1. \/ /\ alert' = "none" /\ presented.ca = setup.server.clientCA
           /\ presented.usage = "client" /\ setup.server.allowed \in presented.uris
        \/ alert' = "certificate required" /\ presented = NoCertificate
        \/ /\ alert' = "unknown CA" /\ presented # NoCertificate
           /\ presented.ca # setup.server.clientCA
        \/ alert' = "expired" /\ expired
        \/ /\ alert' = "bad certificate" /\ presented.ca = setup.server.clientCA
           /\ presented.usage = "client" => setup.server.allowed \notin presented.uris
    <3>1. CASE presented = NoCertificate
      <4>1. setup.server \in Servers
        BY DEF AdmInv, Setups
      <4>2. presented.ca # setup.server.clientCA
        BY <3>1, <4>1 DEF NoCertificate, Servers, CAs
      <4> QED
        BY <1>1, <3>1, <4>2 DEF Verdict
    <3>2. CASE presented # NoCertificate /\ presented.ca # setup.server.clientCA
      BY <1>1, <3>2 DEF Verdict
    <3>3. CASE presented # NoCertificate /\ presented.ca = setup.server.clientCA /\ expired
      BY <1>1, <3>3 DEF Verdict
    <3>4. CASE /\ presented # NoCertificate /\ presented.ca = setup.server.clientCA
               /\ ~expired /\ presented.usage # "client"
      BY <1>1, <3>4 DEF Verdict
    <3>5. CASE /\ presented # NoCertificate /\ presented.ca = setup.server.clientCA
               /\ ~expired /\ presented.usage = "client"
      <4>1. alert' = IF VerifyConnection(presented) THEN "none" ELSE "bad certificate"
        BY <1>1, <3>5 DEF Verdict
      <4> QED
        BY <3>5, <4>1 DEF VerifyConnection
    <3> QED
      BY <3>1, <3>2, <3>3, <3>4, <3>5
  <2> QED
    BY <1>1, <2>1 DEF Judged
<1>3. ShownOnce'
  BY <1>1 DEF AdmInv, ShownOnce
<1>4. FixtureLooked' /\ LabPasses'
  BY <1>1 DEF AdmInv, FixtureLooked, LabPasses
<1>5. RejectionIsPolicy'
  BY <1>1 DEF AdmInv, RejectionIsPolicy
<1> QED
  BY <1>1, <1>2, <1>3, <1>4, <1>5 DEF AdmInv

(* What the client reads: CheckRejection counts only refusals that mean no *)
(* certificate or the wrong URI.                                           *)
LEMMA ReadsKeeps == AdmInv /\ Reads => AdmInv'
<1> SUFFICES ASSUME AdmInv, Reads PROVE AdmInv'
  OBVIOUS
<1>1. /\ UNCHANGED <<setup, expired, conn, presented, alert, served, broken>>
      /\ client = "sent" /\ client' = "over"
  BY DEF Reads, Ends
<1>2. ShownOnce' /\ Judged' /\ FixtureLooked'
  BY <1>1 DEF AdmInv, ShownOnce, Judged, FixtureLooked
<1>3. RejectionIsPolicy'
  <2> SUFFICES ASSUME says' = "rejected"
               PROVE  /\ conn = "refused" /\ ~served
                      /\ \/ presented = NoCertificate
                         \/ /\ presented.ca = setup.server.clientCA
                            /\ presented.usage = "client"
                            /\ setup.server.allowed \notin presented.uris
    BY <1>1 DEF RejectionIsPolicy
  <2>1. conn = "refused" /\ setup.tool = "tlscheck" /\ alert \in RejectionAlerts
    BY DEF Reads, Ends
  <2>2. ~served
    BY <2>1 DEF AdmInv, ShownOnce
  <2>3. \/ presented = NoCertificate
        \/ /\ presented.ca = setup.server.clientCA
           /\ presented.usage = "client" => setup.server.allowed \notin presented.uris
    BY <2>1 DEF AdmInv, Judged, RejectionAlerts
  <2>4. presented # NoCertificate => presented.usage = "client"
    BY <1>1, <2>1 DEF AdmInv, FixtureLooked, ShownOnce
  <2> QED
    BY <2>1, <2>2, <2>3, <2>4
<1>5. presented = NoCertificate \/ (presented = setup.cert /\ ~setup.noCert)
  BY DEF AdmInv, ShownOnce
<1>4. LabPasses'
  <2> SUFFICES ASSUME setup.tool = "tlscheck",
                      setup.server = [ca |-> "ours", name |-> "localhost", clientCA |-> "ours",
                                      allowed |-> DefaultClientURI],
                      setup.cert = [ca |-> "ours", usage |-> "client",
                                    uris |-> IF setup.noCert THEN {DefaultClientURI}
                                                             ELSE {"auditor"}],
                      says' \in {"failed", "accepted"}
               PROVE  expired
    BY <1>1 DEF LabPasses
  <2>1. setup.server.clientCA = "ours" /\ setup.server.allowed = "operator"
        /\ setup.cert.ca = "ours"
        /\ (setup.noCert \/ setup.cert.uris = {"auditor"})
    BY DEF DefaultClientURI
  <2>3. setup.server.allowed \notin presented.uris
    BY <1>5, <2>1 DEF NoCertificate
  <2>4. ~served
    BY <2>3 DEF AdmInv, ShownOnce, Judged
  <2>5. conn = "refused" /\ alert \notin RejectionAlerts
    BY <2>4 DEF Reads, Ends
  <2> QED
    BY <1>5, <2>1, <2>5 DEF RejectionAlerts, AdmInv, Judged
<1> QED
  BY <1>1, <1>2, <1>3, <1>4 DEF AdmInv

(* The client's way to its request; it fails on a bad server only.         *)
LEMMA ClientKeeps == AdmInv /\ (Loads \/ Dials \/ Finishes \/ Breaks) => AdmInv'
<1> SUFFICES ASSUME AdmInv, Loads \/ Dials \/ Finishes \/ Breaks PROVE AdmInv'
  OBVIOUS
<1>1. CASE Loads
  <2>1. /\ UNCHANGED <<setup, expired, conn, presented, alert, served, broken>>
        /\ client = "start" /\ client' \in {"loaded", "over"} /\ says' \in {says, "failed"}
    BY <1>1 DEF Loads, Ends
  <2>2. ShownOnce' /\ Judged'
    BY <2>1 DEF AdmInv, ShownOnce, Judged
  <2>3. FixtureLooked'
    BY <1>1, <2>1 DEF Loads, Ends, ProbeIdentityOK, AdmInv, FixtureLooked, ShownOnce
  <2>4. RejectionIsPolicy'
    BY <2>1 DEF AdmInv, RejectionIsPolicy
  <2>5. LabPasses'
    <3> SUFFICES ASSUME setup.cert = [ca |-> "ours", usage |-> "client",
                                      uris |-> IF setup.noCert THEN {DefaultClientURI}
                                                               ELSE {"auditor"}],
                        says' # says, ~expired
                 PROVE  FALSE
      BY <2>1 DEF AdmInv, LabPasses
    <3>1. setup.noCert \in BOOLEAN
      BY DEF AdmInv, Setups
    <3>2. ProbeIdentityOK
      BY <3>1 DEF ProbeIdentityOK, DefaultClientURI
    <3> QED
      BY <1>1, <3>2 DEF Loads
  <2> QED
    BY <2>1, <2>2, <2>3, <2>4, <2>5 DEF AdmInv
<1>2. CASE Dials
  BY <1>2 DEF Dials, AdmInv, ShownOnce, Judged, FixtureLooked, RejectionIsPolicy, LabPasses
<1>3. CASE Finishes
  <2>1. /\ UNCHANGED <<setup, expired, conn, alert, served, broken>>
        /\ client = "hello" /\ client' \in {"sent", "over"}
        /\ presented = NoCertificate /\ conn \notin {"open", "refused"} /\ ~served
        /\ presented' \in {NoCertificate, setup.cert}
        /\ setup.noCert => presented' = NoCertificate
        /\ presented' # NoCertificate => client' = "sent"
    BY <1>3 DEF Finishes, Ends, AdmInv, ShownOnce
  <2>2. ShownOnce' /\ Judged' /\ FixtureLooked'
    BY <2>1 DEF AdmInv, ShownOnce, Judged, FixtureLooked
  <2>3. says' = says \/ (says' = "failed" /\
                         ~(setup.server.ca = "ours" /\ setup.server.name = "localhost"))
    BY <1>3 DEF Finishes, Ends
  <2>4. RejectionIsPolicy' /\ LabPasses'
    BY <2>1, <2>3 DEF AdmInv, RejectionIsPolicy, LabPasses
  <2> QED
    BY <2>1, <2>2, <2>4 DEF AdmInv
<1>4. CASE Breaks
  BY <1>4 DEF Breaks, Ends, AdmInv, ShownOnce, Judged, FixtureLooked, RejectionIsPolicy, LabPasses
<1> QED
  BY <1>1, <1>2, <1>3, <1>4

(* Serving, and the passing of the certificate's time. *)
LEMMA OthersKeep == AdmInv /\ (Serves \/ Expires \/ UNCHANGED admVars) => AdmInv'
<1> SUFFICES ASSUME AdmInv, Serves \/ Expires \/ UNCHANGED admVars PROVE AdmInv'
  OBVIOUS
<1> USE DEF AdmInv, ShownOnce, Judged, FixtureLooked, RejectionIsPolicy, LabPasses
<1>1. CASE Serves
  BY <1>1 DEF Serves
<1>2. CASE Expires
  BY <1>2 DEF Expires
<1>3. CASE UNCHANGED admVars
  BY <1>3 DEF admVars
<1> QED
  BY <1>1, <1>2, <1>3

(* Every step keeps the invariant. *)
LEMMA AdmStep == AdmInv /\ [AdmNext]_admVars => AdmInv'
BY VerifiesKeeps, ReadsKeeps, ClientKeeps, OthersKeep DEF AdmNext

(* A handler runs only for a client whose certificate the server's CA has  *)
(* signed for clients and whose URI it was started with:                   *)
(* RequireAndVerifyClientCert and VerifyConnection of security.Server.     *)
THEOREM StrangersOut == AdmSpec => []NoStrangerServed
<1>1. AdmInv => NoStrangerServed
  BY DEF AdmInv, ShownOnce, Judged, NoStrangerServed
<1> QED
  BY <1>1, AdmStarts, AdmStep, PTL DEF AdmSpec

(* tlscheck succeeds only on a refusal by policy, and does not fail with   *)
(* the lab's fixtures unless something breaks or expires: CheckRejection   *)
(* and ValidateProbeIdentity.                                              *)
THEOREM VerdictRight == AdmSpec => []VerdictIsRight
<1>1. AdmInv => VerdictIsRight
  BY DEF AdmInv, VerdictIsRight
<1> QED
  BY <1>1, AdmStarts, AdmStep, PTL DEF AdmSpec

-----------------------------------------------------------------------------
(* A rolling upgrade *)

(* Its constants are numbers, one by one, with the margins between them.   *)
LEMMA RolloutNumbers ==
    /\ ProbeTime \in Nat /\ MinReady \in Nat /\ Lag \in Nat /\ SleepTime \in Nat
    /\ StopTime \in Nat /\ RequestTime \in Nat
    /\ ProbeTime > 0 /\ Lag > 0 /\ RequestTime > 0
    /\ ProbeTime + Lag < SleepTime /\ RequestTime < StopTime
BY RolloutAssumption

RollPod ==
    [main : {"none", "starting", "serving", "sleeping", "stopping", "gone"},
     left : Nat, draining : BOOLEAN, work : 0..RequestTime, deleted : BOOLEAN,
     ready : BOOLEAN, probe : 0..ProbeTime, age : Nat, listed : BOOLEAN, lag : 0..Lag]

(* What makes the order of the shutdown enough: the sleep outlasts the     *)
(* probe that notices the drain and the way of that news to the proxies;   *)
(* when the listener closes the kubelet and the proxies know, and keep     *)
(* knowing through the restart of the container.                           *)
PodSound(x) ==
    /\ x.main \in {"none", "gone", "starting", "stopping"} => ~x.ready /\ ~x.listed
    /\ x.main = "starting" => x.probe > 0
    /\ x.main \in {"sleeping", "stopping"} => x.draining
    /\ x.main = "sleeping" /\ x.ready => x.left > x.probe + Lag
    /\ x.main = "sleeping" /\ x.listed /\ ~x.ready => x.left > x.lag
    /\ x.main = "stopping" => x.work = 0 \/ x.work < x.left

RollInv == pod \in [Pods -> RollPod] /\ \A p \in Pods : PodSound(pod[p])

(* Before the upgrade every old Pod serves and the new ones do not exist.  *)
LEMMA RollStarts == RollInit => RollInv
<1> SUFFICES ASSUME RollInit PROVE RollInv
  OBVIOUS
<1>1. PICK phase \in [Old -> 0..ProbeTime] :
         pod = [p \in Pods |->
             IF p \in New THEN NoPod
             ELSE [NoPod EXCEPT !.main = "serving", !.ready = TRUE, !.listed = TRUE,
                                !.age = MinReady, !.probe = phase[p]]]
  BY DEF RollInit
<1>2. NoPod \in RollPod /\ PodSound(NoPod)
  BY RolloutNumbers DEF NoPod, RollPod, PodSound
<1>3. ASSUME NEW p \in Pods, p \notin New
      PROVE  LET x == [NoPod EXCEPT !.main = "serving", !.ready = TRUE, !.listed = TRUE,
                                    !.age = MinReady, !.probe = phase[p]]
             IN  x \in RollPod /\ PodSound(x)
  <2>1. phase[p] \in 0..ProbeTime
    BY <1>3 DEF Pods
  <2>2. \A t \in 0..ProbeTime, a \in Nat :
           LET x == [NoPod EXCEPT !.main = "serving", !.ready = TRUE, !.listed = TRUE,
                                  !.age = a, !.probe = t]
           IN  x \in RollPod /\ x.main = "serving"
    BY <1>2 DEF RollPod
  <2> QED
    BY <2>1, <2>2, RolloutNumbers DEF PodSound
<1> QED
  BY <1>1, <1>2, <1>3 DEF RollInv

(* A step of one Pod. *)
LEMMA PodReplaced ==
    ASSUME RollInv, NEW p \in Pods, NEW y \in RollPod, PodSound(y),
           pod' = [pod EXCEPT ![p] = y]
    PROVE  RollInv'
BY DEF RollInv

(* The process: it listens, drains, sleeps, stops and exits. *)
LEMMA ProcessKeeps ==
    ASSUME RollInv, NEW p \in Pods, Process(p) \/ LosesLease(p)
    PROVE  RollInv'
<1> DEFINE x == pod[p]
<1>1. x \in RollPod /\ PodSound(x)
  BY DEF RollInv
<1>2. CASE Listens(p)
  <2> DEFINE y == [x EXCEPT !.main = "serving"]
  <2>1. pod' = [pod EXCEPT ![p] = y]
    BY <1>2 DEF Listens
  <2> HIDE DEF x
  <2>2. y \in RollPod /\ y.main = "serving"
    BY <1>1 DEF RollPod
  <2> HIDE DEF y
  <2>3. PodSound(y)
    BY <2>2 DEF PodSound
  <2> QED
    BY <2>1, <2>2, <2>3, PodReplaced
<1>3. CASE Terminates(p) \/ LosesLease(p)
  <2> DEFINE y == [x EXCEPT !.main = "sleeping", !.left = SleepTime, !.draining = TRUE]
  <2>1. pod' = [pod EXCEPT ![p] = y]
    BY <1>3 DEF Terminates, LosesLease, DrainFirst
  <2> HIDE DEF x
  <2>2. /\ y \in RollPod /\ y.main = "sleeping" /\ y.left = SleepTime /\ y.draining
        /\ y.probe \in 0..ProbeTime /\ y.lag \in 0..Lag
    BY <1>1, RolloutNumbers DEF RollPod
  <2> HIDE DEF y
  <2>3. PodSound(y)
    BY <2>2, RolloutNumbers DEF PodSound
  <2> QED
    BY <2>1, <2>2, <2>3, PodReplaced
<1>4. CASE Slept(p)
  <2> DEFINE y == [x EXCEPT !.main = "stopping", !.left = StopTime]
  <2>1. pod' = [pod EXCEPT ![p] = y] /\ x.main = "sleeping" /\ x.left = 0
    BY <1>4 DEF Slept
  <2> HIDE DEF x
  <2>a. StopTime \in Nat
    BY RolloutNumbers
  <2>b. /\ y \in RollPod /\ y.main = "stopping" /\ y.left = StopTime
        /\ y.work = x.work /\ y.ready = x.ready /\ y.listed = x.listed
        /\ y.draining = x.draining
    BY <1>1, <2>a DEF RollPod
  <2>c. /\ x.probe \in 0..ProbeTime /\ x.lag \in 0..Lag /\ x.work \in 0..RequestTime
        /\ x.ready \in BOOLEAN /\ x.listed \in BOOLEAN
    BY <1>1 DEF RollPod
  <2>2. /\ y.work \in 0..RequestTime /\ y.left = StopTime
        /\ x.probe \in Nat /\ x.lag \in Nat
    BY <2>b, <2>c
  <2>3. ~(0 > x.probe + Lag) /\ ~(0 > x.lag)
    BY <2>2, RolloutNumbers
  <2>4. x.draining /\ ~x.ready /\ ~x.listed
    BY <1>1, <2>1, <2>c, <2>3 DEF PodSound
  <2>5. y.work < y.left
    BY <2>2, RolloutNumbers
  <2> HIDE DEF y
  <2>6. PodSound(y)
    BY <2>b, <2>4, <2>5 DEF PodSound
  <2> QED
    BY <2>1, <2>b, <2>6, PodReplaced
<1>5. CASE Exits(p)
  <2> DEFINE y == [NoPod EXCEPT !.main = IF x.deleted THEN "gone" ELSE "starting",
                                !.deleted = x.deleted, !.listed = x.listed,
                                !.probe = IF x.deleted THEN 0 ELSE ProbeTime,
                                !.lag = IF x.ready THEN Lag ELSE x.lag]
  <2>1. pod' = [pod EXCEPT ![p] = y] /\ x.main = "stopping"
    BY <1>5 DEF Exits
  <2> HIDE DEF x
  <2>2. ~x.listed /\ x.lag \in 0..Lag /\ x.deleted \in BOOLEAN /\ x.listed \in BOOLEAN
    BY <1>1, <2>1 DEF PodSound, RollPod
  <2>3. /\ y.main \in {"gone", "starting"} /\ y.ready = FALSE /\ y.listed = x.listed
        /\ y.main = "starting" => y.probe = ProbeTime
    BY DEF NoPod
  <2>4. y \in RollPod
    <3>1. \A m \in {"gone", "starting"}, d \in BOOLEAN, l \in BOOLEAN,
             t \in 0..ProbeTime, g \in 0..Lag :
             [NoPod EXCEPT !.main = m, !.deleted = d, !.listed = l, !.probe = t, !.lag = g]
             \in RollPod
      <4>1. NoPod \in RollPod
        BY RolloutNumbers DEF NoPod, RollPod
      <4> QED
        BY <4>1 DEF RollPod
    <3>2. /\ (IF x.deleted THEN 0 ELSE ProbeTime) \in 0..ProbeTime
          /\ (IF x.ready THEN Lag ELSE x.lag) \in 0..Lag
      BY <2>2, RolloutNumbers
    <3> QED
      BY <2>2, <3>1, <3>2
  <2> HIDE DEF y
  <2>5. PodSound(y)
    BY <2>2, <2>3, RolloutNumbers DEF PodSound
  <2> QED
    BY <2>1, <2>4, <2>5, PodReplaced
<1> QED
  BY <1>2, <1>3, <1>4, <1>5 DEF Process

(* The calls: one arrives only where the process accepts it. *)
LEMMA CallsKeep ==
    ASSUME RollInv, NEW p \in Pods, Request(p) \/ RequestEnds(p)
    PROVE  RollInv'
<1> DEFINE x == pod[p]
<1>1. x \in RollPod /\ PodSound(x)
  BY DEF RollInv
<1>2. ASSUME NEW w \in 0..RequestTime, w = 0 \/ x.main \in {"serving", "sleeping"},
             pod' = [pod EXCEPT ![p].work = w]
      PROVE  RollInv'
  <2> DEFINE y == [x EXCEPT !.work = w]
  <2>1. pod' = [pod EXCEPT ![p] = y]
    BY <1>2
  <2> HIDE DEF x
  <2>2. /\ y \in RollPod /\ y.main = x.main /\ y.left = x.left /\ y.work = w
        /\ y.draining = x.draining /\ y.ready = x.ready /\ y.probe = x.probe
        /\ y.listed = x.listed /\ y.lag = x.lag
    BY <1>1, <1>2 DEF RollPod
  <2> HIDE DEF y
  <2>3. PodSound(y)
    BY <1>1, <1>2, <2>2 DEF PodSound
  <2> QED
    BY <2>1, <2>2, <2>3, PodReplaced
<1>3. 0 \in 0..RequestTime /\ RequestTime \in 0..RequestTime
  BY RolloutNumbers
<1> QED
  BY <1>2, <1>3 DEF Request, RequestEnds

(* Kubernetes: a draining process fails its next probe, and nothing lists  *)
(* a Pod that is not ready.                                                *)
LEMMA KubernetesKeeps ==
    ASSUME RollInv, NEW p \in Pods, Kubernetes(p)
    PROVE  RollInv'
<1> DEFINE x == pod[p]
<1>1. x \in RollPod /\ PodSound(x)
  BY DEF RollInv
<1>2. CASE KubeletProbes(p)
  <2>1. PICK r \in IF x.draining THEN {FALSE} ELSE {x.ready, TRUE} :
           pod' = [pod EXCEPT ![p] =
              [x EXCEPT !.ready = r, !.probe = ProbeTime,
                        !.age = IF r /\ x.ready THEN x.age ELSE 0,
                        !.lag = IF r # x.ready THEN Lag ELSE x.lag]]
    BY <1>2 DEF KubeletProbes
  <2> DEFINE y == [x EXCEPT !.ready = r, !.probe = ProbeTime,
                            !.age = IF r /\ x.ready THEN x.age ELSE 0,
                            !.lag = IF r # x.ready THEN Lag ELSE x.lag]
  <2>2. pod' = [pod EXCEPT ![p] = y] /\ x.main \notin {"none", "gone"} /\ x.probe = 0
    BY <1>2, <2>1 DEF KubeletProbes, Runs
  <2> HIDE DEF x
  <2>3. r \in BOOLEAN /\ x.ready \in BOOLEAN /\ x.listed \in BOOLEAN
        /\ x.draining \in BOOLEAN /\ x.left \in Nat /\ x.lag \in 0..Lag /\ x.age \in Nat
    BY <1>1 DEF RollPod
  <2>4. /\ (IF r # x.ready THEN Lag ELSE x.lag) \in 0..Lag
        /\ (IF r /\ x.ready THEN x.age ELSE 0) \in Nat /\ ProbeTime \in 0..ProbeTime
    BY <2>3, RolloutNumbers
  <2>5. /\ y \in RollPod /\ y.main = x.main /\ y.left = x.left /\ y.work = x.work
        /\ y.draining = x.draining /\ y.ready = r /\ y.probe = ProbeTime
        /\ y.listed = x.listed /\ y.lag = IF r # x.ready THEN Lag ELSE x.lag
    BY <1>1, <2>3, <2>4 DEF RollPod
  <2> HIDE DEF y
  <2>6. x.main # "starting"
    BY <1>1, <2>2 DEF PodSound
  <2>7. x.main \in {"sleeping", "stopping"} => ~r
    BY <1>1, <2>1 DEF PodSound
  <2>8. PodSound(y)
    <3>1. x.main = "sleeping" /\ x.ready => x.left > Lag
      BY <1>1, <2>2, <2>3, RolloutNumbers DEF PodSound
    <3> QED
      BY <1>1, <2>2, <2>3, <2>5, <2>6, <2>7, <3>1 DEF PodSound
  <2> QED
    BY <2>2, <2>5, <2>8, PodReplaced
<1>3. CASE Propagates(p)
  <2> DEFINE y == [x EXCEPT !.listed = ~x.listed]
  <2>1. pod' = [pod EXCEPT ![p] = y] /\ x.listed # (x.ready /\ ~x.deleted)
    BY <1>3 DEF Propagates, Wanted
  <2> HIDE DEF x
  <2>2. /\ x.listed \in BOOLEAN /\ x.ready \in BOOLEAN /\ x.deleted \in BOOLEAN
    BY <1>1 DEF RollPod
  <2>3. /\ y \in RollPod /\ y.main = x.main /\ y.left = x.left /\ y.work = x.work
        /\ y.draining = x.draining /\ y.ready = x.ready /\ y.probe = x.probe
        /\ y.listed = ~x.listed /\ y.lag = x.lag
    BY <1>1, <2>2 DEF RollPod
  <2> HIDE DEF y
  <2>4. ~x.listed => x.ready
    BY <2>1, <2>2
  <2>5. PodSound(y)
    BY <1>1, <2>1, <2>2, <2>3, <2>4 DEF PodSound
  <2> QED
    BY <2>1, <2>3, <2>5, PodReplaced
<1>4. CASE Surges(p)
  <2> DEFINE y == [x EXCEPT !.main = "starting", !.probe = ProbeTime]
  <2>1. pod' = [pod EXCEPT ![p] = y] /\ x.main = "none"
    BY <1>4 DEF Surges
  <2> HIDE DEF x
  <2>a. ProbeTime \in 0..ProbeTime
    BY RolloutNumbers
  <2>2. /\ y \in RollPod /\ y.main = "starting" /\ y.probe = ProbeTime
        /\ y.ready = x.ready /\ y.listed = x.listed
    BY <1>1, <2>a DEF RollPod
  <2> HIDE DEF y
  <2>3. PodSound(y)
    BY <1>1, <2>1, <2>2, RolloutNumbers DEF PodSound
  <2> QED
    BY <2>1, <2>2, <2>3, PodReplaced
<1>5. CASE Retires(p)
  <2> DEFINE y == [x EXCEPT !.deleted = TRUE, !.lag = IF x.ready THEN Lag ELSE x.lag]
  <2>1. pod' = [pod EXCEPT ![p] = y]
    BY <1>5 DEF Retires
  <2> HIDE DEF x
  <2>2. (IF x.ready THEN Lag ELSE x.lag) \in 0..Lag
    BY <1>1, RolloutNumbers DEF RollPod
  <2>3. /\ y \in RollPod /\ y.main = x.main /\ y.left = x.left /\ y.work = x.work
        /\ y.draining = x.draining /\ y.ready = x.ready /\ y.probe = x.probe
        /\ y.listed = x.listed /\ y.lag = IF x.ready THEN Lag ELSE x.lag
    BY <1>1, <2>2 DEF RollPod
  <2> HIDE DEF y
  <2>4. PodSound(y)
    BY <1>1, <2>3 DEF PodSound
  <2> QED
    BY <2>1, <2>3, <2>4, PodReplaced
<1> QED
  BY <1>2, <1>3, <1>4, <1>5 DEF Kubernetes

(* Time: it does not pass a probe, the end of a sleep or a notice that is  *)
(* due, so the sleep outlasts both ways of the news.                       *)
LEMMA TickKeeps == ASSUME RollInv, Tick PROVE RollInv'
<1>1. pod' = [p \in Pods |->
          [pod[p] EXCEPT !.left = Less(pod[p].left), !.work = Less(pod[p].work),
                         !.probe = Less(pod[p].probe), !.lag = Less(pod[p].lag),
                         !.age = IF pod[p].ready /\ pod[p].age < MinReady
                                 THEN pod[p].age + 1 ELSE pod[p].age]]
  BY DEF Tick
<1>2. \A n \in Nat : /\ Less(n) \in Nat /\ Less(n) <= n
                     /\ n > 0 => Less(n) = n - 1
                     /\ n = 0 => Less(n) = 0
  BY DEF Less
<1>3. ASSUME NEW p \in Pods PROVE pod'[p] \in RollPod /\ PodSound(pod'[p])
  <2> DEFINE x == pod[p]
             y == [x EXCEPT !.left = Less(x.left), !.work = Less(x.work),
                            !.probe = Less(x.probe), !.lag = Less(x.lag),
                            !.age = IF x.ready /\ x.age < MinReady
                                    THEN x.age + 1 ELSE x.age]
  <2>1. x \in RollPod /\ PodSound(x) /\ pod'[p] = y
    BY <1>1 DEF RollInv
  <2>2. /\ x.main \notin {"none", "gone"} => x.probe # 0
        /\ x.main # "starting"
        /\ x.main \in {"sleeping", "stopping"} => x.left # 0
    BY DEF Tick, Due, Runs
  <2>a. ASSUME x.listed, ~x.ready PROVE x.lag # 0
    <3>1. x.listed = TRUE /\ Wanted(p) = FALSE
      BY <2>1, <2>a DEF Wanted, RollPod
    <3>2. x.listed # Wanted(p)
      BY <3>1
    <3> QED
      BY <3>2 DEF Tick, Due
  <2> HIDE DEF x
  <2>3. /\ x.left \in Nat /\ x.work \in 0..RequestTime /\ x.probe \in 0..ProbeTime
        /\ x.lag \in 0..Lag /\ x.age \in Nat
        /\ x.listed \in BOOLEAN /\ x.ready \in BOOLEAN /\ x.deleted \in BOOLEAN
    BY <2>1 DEF RollPod
  <2>4. /\ Less(x.left) \in Nat /\ Less(x.work) \in 0..RequestTime
        /\ Less(x.probe) \in 0..ProbeTime /\ Less(x.lag) \in 0..Lag
        /\ (IF x.ready /\ x.age < MinReady THEN x.age + 1 ELSE x.age) \in Nat
    BY <1>2, <2>3, RolloutNumbers
  <2>5. /\ y \in RollPod /\ y.main = x.main /\ y.left = Less(x.left)
        /\ y.work = Less(x.work) /\ y.draining = x.draining /\ y.ready = x.ready
        /\ y.probe = Less(x.probe) /\ y.listed = x.listed /\ y.lag = Less(x.lag)
    BY <2>1, <2>4 DEF RollPod
  <2> HIDE DEF y
  <2>6. x.main = "sleeping" /\ x.ready => y.left > y.probe + Lag
    <3>1. x.main = "sleeping" /\ x.ready =>
             x.left > x.probe + Lag /\ x.probe > 0 /\ x.left > 0
      BY <2>1, <2>2, <2>3 DEF PodSound
    <3> QED
      BY <1>2, <2>3, <2>5, <3>1, RolloutNumbers
  <2>7. x.main = "sleeping" /\ x.listed /\ ~x.ready => y.left > y.lag
    <3>1. x.main = "sleeping" /\ x.listed /\ ~x.ready =>
             x.left > x.lag /\ x.lag > 0 /\ x.left > 0
      <4>1. x.listed /\ ~x.ready => x.lag > 0
        BY <2>a, <2>3
      <4> QED
        BY <2>1, <2>2, <2>3, <4>1 DEF PodSound
    <3> QED
      BY <1>2, <2>3, <2>5, <3>1, RolloutNumbers
  <2>8. x.main = "stopping" => y.work = 0 \/ y.work < y.left
    <3>1. x.main = "stopping" => (x.work = 0 \/ x.work < x.left) /\ x.left > 0
      BY <2>1, <2>2, <2>3 DEF PodSound
    <3> QED
      BY <1>2, <2>3, <2>5, <3>1, RolloutNumbers
  <2>9. PodSound(y)
    BY <2>1, <2>2, <2>5, <2>6, <2>7, <2>8 DEF PodSound
  <2> QED
    BY <2>1, <2>5, <2>9
<1>4. pod' \in [Pods -> RollPod]
  <2> DEFINE f == [p \in Pods |->
          [pod[p] EXCEPT !.left = Less(pod[p].left), !.work = Less(pod[p].work),
                         !.probe = Less(pod[p].probe), !.lag = Less(pod[p].lag),
                         !.age = IF pod[p].ready /\ pod[p].age < MinReady
                                 THEN pod[p].age + 1 ELSE pod[p].age]]
  <2>1. pod' = f /\ f = [p \in Pods |-> f[p]]
    BY <1>1
  <2> HIDE DEF f
  <2> QED
    BY <1>3, <2>1
<1> QED
  BY <1>3, <1>4 DEF RollInv

(* Every step keeps the invariant. *)
LEMMA RollStep == RollInv /\ [RollNext]_rollVars => RollInv'
<1> SUFFICES ASSUME RollInv, [RollNext]_rollVars PROVE RollInv'
  OBVIOUS
<1>1. CASE UNCHANGED rollVars
  BY <1>1 DEF rollVars, RollInv
<1> QED
  BY <1>1, TickKeeps, ProcessKeeps, CallsKeep, KubernetesKeeps DEF RollNext

LEMMA RollAlways == RollSpec => []RollInv
<1> QED
  BY RollStarts, RollStep, PTL DEF RollSpec

(* Whatever the numbers of Pods, and however often leaders lose the Lease: *)
(* as long as the sleep after Drain is longer than a probe and the lag of  *)
(* the proxies, no client is sent to a closed listener (main.go, run).     *)
THEOREM ListedServe == RollSpec => []ListedAccepts
<1>1. RollInv => ListedAccepts
  BY DEF RollInv, RollPod, PodSound, ListedAccepts
<1> QED
  BY <1>1, RollAlways, PTL

(* And as long as the graceful stop is longer than the handlers' deadline, *)
(* no accepted call is cut off (main.go, shutdown).                        *)
THEOREM CallsFinish == RollSpec => NothingCut
<1>1. ASSUME RollInv, [RollNext]_rollVars, NEW p \in Pods,
             pod[p].main = "stopping", pod'[p].main # "stopping"
      PROVE  pod[p].work = 0
  <2>1. pod[p] \in RollPod /\ PodSound(pod[p]) /\ pod \in [Pods -> RollPod]
    BY <1>1 DEF RollInv
  <2>2. pod' # pod
    BY <1>1
  <2>3. ~Tick
    <3>1. ASSUME Tick PROVE pod'[p].main = pod[p].main
      BY <2>1, <3>1 DEF Tick, RollPod
    <3> QED
      BY <1>1, <3>1
  <2>4. PICK q \in Pods : \/ Process(q) \/ LosesLease(q)
                          \/ Kubernetes(q) \/ Request(q) \/ RequestEnds(q)
    BY <1>1, <2>2, <2>3 DEF RollNext, rollVars
  <2>5. Exits(p)
    <3>1. CASE (Process(q) /\ ~Exits(q)) \/ LosesLease(q)
      <4>1. pod[q].main # "stopping"
        BY <3>1 DEF Process, Listens, Terminates, Slept, LosesLease
      <4>2. \A o \in Pods \ {q} : pod'[o] = pod[o]
        BY <2>1, <3>1 DEF Process, Listens, Terminates, Slept, LosesLease
      <4> QED
        BY <1>1, <4>1, <4>2
    <3>2. CASE Exits(q)
      <4>1. \A o \in Pods \ {q} : pod'[o] = pod[o]
        BY <2>1, <3>2 DEF Exits
      <4> QED
        BY <1>1, <3>2, <4>1
    <3>3. CASE Kubernetes(q) \/ Request(q) \/ RequestEnds(q)
      <4>1. CASE Surges(q)
        <5>1. pod[q].main # "stopping" /\ \A o \in Pods \ {q} : pod'[o] = pod[o]
          BY <2>1, <4>1 DEF Surges
        <5> QED
          BY <1>1, <5>1
      <4>2. CASE KubeletProbes(q)
        <5>1. PICK r \in IF pod[q].draining THEN {FALSE} ELSE {pod[q].ready, TRUE} :
                 pod' = [pod EXCEPT ![q] =
                    [pod[q] EXCEPT !.ready = r, !.probe = ProbeTime,
                                   !.age = IF r /\ pod[q].ready THEN pod[q].age ELSE 0,
                                   !.lag = IF r # pod[q].ready THEN Lag ELSE pod[q].lag]]
          BY <4>2 DEF KubeletProbes
        <5> QED
          BY <1>1, <2>1, <5>1 DEF RollPod
      <4>3. CASE Propagates(q) \/ Retires(q) \/ Request(q) \/ RequestEnds(q)
        BY <1>1, <2>1, <4>3 DEF Propagates, Retires, Request, RequestEnds, RollPod
      <4> QED
        BY <3>3, <4>1, <4>2, <4>3 DEF Kubernetes
    <3> QED
      BY <2>4, <3>1, <3>2, <3>3
  <2>6. pod[p].work \in Nat /\ pod[p].left \in Nat
    BY <2>1, RolloutNumbers DEF RollPod
  <2>7. pod[p].work = 0 \/ pod[p].work < pod[p].left
    BY <1>1, <2>1 DEF PodSound
  <2> QED
    BY <2>5, <2>6, <2>7 DEF Exits
<1>2. RollInv /\ [RollNext]_rollVars =>
        [\A p \in Pods : pod[p].main = "stopping" /\ pod'[p].main # "stopping"
                            => pod[p].work = 0]_rollVars
  BY <1>1
<1> QED
  BY <1>2, RollAlways, PTL DEF RollSpec, NothingCut

(* Somebody is always listed.  A Pod is fit when it is available and does  *)
(* not drain; only the loss of a Lease makes it drain before its deletion. *)
Fit(x) == x.ready /\ ~x.deleted /\ x.age >= MinReady /\ ~x.draining
Drains(x) == x.draining /\ ~x.deleted
FitPods == {p \in Pods : Fit(pod[p])}
DrainPods == {p \in Pods : Drains(pod[p])}

(* The proxies learn of a Pod while it is not yet available: what is left  *)
(* of their lag and its age stay within the lag.                           *)
NoticedInTime(x) == x.ready /\ ~x.deleted /\ ~x.listed => x.age + x.lag <= Lag

(* The Deployment controller deletes no Pod that leaves fewer than         *)
(* Replicas available, and of those at most lost drain.                    *)
ServedInv ==
    /\ RollInv
    /\ \A p \in Pods : NoticedInTime(pod[p])
    /\ lost \in 0..MaxLost
    /\ Cardinality(DrainPods) <= lost
    /\ Cardinality(FitPods) + lost >= Replicas

(* The sets are finite and their sizes are numbers. *)
LEMMA PodsCounted ==
    /\ IsFiniteSet(Pods) /\ Replicas \in Nat /\ MaxLost \in Nat
    /\ \A S \in SUBSET Pods : IsFiniteSet(S) /\ Cardinality(S) \in Nat
    /\ \A S \in SUBSET Pods : \A T \in SUBSET S : Cardinality(T) <= Cardinality(S)
<1>1. IsFiniteSet(Pods) /\ MaxLost \in Nat
  BY RolloutAssumption
<1>2. \A S \in SUBSET Pods : IsFiniteSet(S) /\ Cardinality(S) \in Nat
  BY <1>1, FS_Subset, FS_CardinalityType
<1>3. \A S \in SUBSET Pods : \A T \in SUBSET S : Cardinality(T) <= Cardinality(S)
  BY <1>2, FS_Subset
<1>4. Replicas \in Nat
  BY <1>2 DEF Replicas, Pods
<1> QED
  BY <1>1, <1>2, <1>3, <1>4

LEMMA ServedStarts == RollInit => ServedInv
<1> SUFFICES ASSUME RollInit PROVE ServedInv
  OBVIOUS
<1>1. RollInv
  BY RollStarts
<1>2. PICK phase \in [Old -> 0..ProbeTime] :
         pod = [p \in Pods |->
             IF p \in New THEN NoPod
             ELSE [NoPod EXCEPT !.main = "serving", !.ready = TRUE, !.listed = TRUE,
                                !.age = MinReady, !.probe = phase[p]]]
  BY DEF RollInit
<1>3. \A p \in Pods : NoticedInTime(pod[p]) /\ ~Drains(pod[p])
  BY <1>2 DEF NoPod, NoticedInTime, Drains
<1>4. \A p \in Old : p \in Pods /\ Fit(pod[p])
  <2>1. \A p \in Old : p \in Pods /\ p \notin New
    BY RolloutAssumption DEF Pods
  <2>2. MinReady >= MinReady
    BY RolloutNumbers
  <2> QED
    BY <1>2, <2>1, <2>2 DEF NoPod, Fit
<1>5. Cardinality(DrainPods) = 0
  BY <1>3, FS_EmptySet DEF DrainPods
<1>6. Cardinality(FitPods) >= Replicas
  <2>1. FitPods \in SUBSET Pods /\ Old \in SUBSET FitPods
    BY <1>4 DEF FitPods
  <2> QED
    BY <2>1, PodsCounted DEF Replicas
<1>7. lost = 0 /\ Cardinality(FitPods) \in Nat
  BY PodsCounted DEF RollInit, FitPods
<1> QED
  BY <1>1, <1>3, <1>5, <1>6, <1>7, PodsCounted DEF ServedInv

(* Steps that neither lose a Lease nor delete a Pod. *)
Calm(p) ==
    \/ Process(p) \/ Request(p) \/ RequestEnds(p)
    \/ KubeletProbes(p) \/ Propagates(p) \/ Surges(p)

(* What such a step may make of a Pod. *)
StaysFit(x, y) ==
    /\ NoticedInTime(x) => NoticedInTime(y)
    /\ Fit(x) => Fit(y)
    /\ Drains(y) => Drains(x)

LEMMA CalmKeepsFit ==
    ASSUME RollInv, NEW p \in Pods, Calm(p)
    PROVE  lost' = lost /\ \A q \in Pods : StaysFit(pod[q], pod'[q])
<1> DEFINE x == pod[p]
<1>1. x \in RollPod /\ PodSound(x) /\ pod \in [Pods -> RollPod]
  BY DEF RollInv
<1>2. lost' = lost
  BY DEF Calm, Process, Listens, Terminates, Slept, Exits, Request, RequestEnds,
         KubeletProbes, Propagates, Surges
<1>3. \A q \in Pods : StaysFit(pod[q], pod[q])
  BY DEF StaysFit
<1>4. ASSUME NEW y, pod' = [pod EXCEPT ![p] = y], StaysFit(x, y)
      PROVE  \A q \in Pods : StaysFit(pod[q], pod'[q])
  BY <1>1, <1>3, <1>4
<1>5. CASE Listens(p) \/ Slept(p) \/ Request(p) \/ RequestEnds(p) \/ Surges(p)
  <2>1. \E y : /\ pod' = [pod EXCEPT ![p] = y]
               /\ y.ready = x.ready /\ y.deleted = x.deleted /\ y.age = x.age
               /\ y.draining = x.draining /\ y.listed = x.listed /\ y.lag = x.lag
    BY <1>1, <1>5 DEF Listens, Slept, Request, RequestEnds, Surges, RollPod
  <2> QED
    <3>1. PICK y : /\ pod' = [pod EXCEPT ![p] = y]
                   /\ y.ready = x.ready /\ y.deleted = x.deleted /\ y.age = x.age
                   /\ y.draining = x.draining /\ y.listed = x.listed /\ y.lag = x.lag
      BY <2>1
    <3>2. StaysFit(x, y)
      BY <3>1 DEF StaysFit, NoticedInTime, Fit, Drains
    <3> QED
      BY <1>2, <1>4, <3>1, <3>2
<1>6. CASE Terminates(p)
  <2> DEFINE y == [x EXCEPT !.main = "sleeping", !.left = SleepTime, !.draining = TRUE]
  <2>1. pod' = [pod EXCEPT ![p] = y] /\ x.deleted
    BY <1>6 DEF Terminates, DrainFirst
  <2> HIDE DEF x
  <2>2. y.deleted = x.deleted
    BY <1>1 DEF RollPod
  <2> HIDE DEF y
  <2>3. StaysFit(x, y)
    BY <2>1, <2>2 DEF StaysFit, NoticedInTime, Fit, Drains
  <2> QED
    BY <1>2, <1>4, <2>1, <2>3 DEF x
<1>7. CASE Exits(p)
  <2> DEFINE y == [NoPod EXCEPT !.main = IF x.deleted THEN "gone" ELSE "starting",
                                !.deleted = x.deleted, !.listed = x.listed,
                                !.probe = IF x.deleted THEN 0 ELSE ProbeTime,
                                !.lag = IF x.ready THEN Lag ELSE x.lag]
  <2>1. pod' = [pod EXCEPT ![p] = y] /\ x.main = "stopping"
    BY <1>7 DEF Exits
  <2> HIDE DEF x
  <2>2. ~y.ready /\ ~y.draining
    BY DEF NoPod
  <2>3. ~Fit(x)
    BY <1>1, <2>1 DEF PodSound, Fit
  <2> HIDE DEF y
  <2>4. StaysFit(x, y)
    BY <2>2, <2>3 DEF StaysFit, NoticedInTime, Drains
  <2> QED
    BY <1>2, <1>4, <2>1, <2>4 DEF x
<1>8. CASE KubeletProbes(p)
  <2>1. PICK r \in IF x.draining THEN {FALSE} ELSE {x.ready, TRUE} :
           pod' = [pod EXCEPT ![p] =
              [x EXCEPT !.ready = r, !.probe = ProbeTime,
                        !.age = IF r /\ x.ready THEN x.age ELSE 0,
                        !.lag = IF r # x.ready THEN Lag ELSE x.lag]]
    BY <1>8 DEF KubeletProbes
  <2> DEFINE y == [x EXCEPT !.ready = r, !.probe = ProbeTime,
                            !.age = IF r /\ x.ready THEN x.age ELSE 0,
                            !.lag = IF r # x.ready THEN Lag ELSE x.lag]
  <2>2. pod' = [pod EXCEPT ![p] = y]
    BY <2>1
  <2> HIDE DEF x
  <2>3. r \in BOOLEAN /\ x.ready \in BOOLEAN /\ x.draining \in BOOLEAN /\ ~x.draining /\ x.ready => r
    BY <1>1, <2>1 DEF RollPod
  <2>4. /\ y.ready = r /\ y.deleted = x.deleted /\ y.draining = x.draining
        /\ y.listed = x.listed
        /\ y.age = IF r /\ x.ready THEN x.age ELSE 0
        /\ y.lag = IF r # x.ready THEN Lag ELSE x.lag
    BY <1>1 DEF RollPod
  <2> HIDE DEF y
  <2>5. r /\ x.ready => y.age = x.age /\ y.lag = x.lag
    BY <2>3, <2>4
  <2>6. r /\ ~x.ready => y.age + y.lag <= Lag
    <3>1. r /\ ~x.ready => y.age = 0 /\ y.lag = Lag
      BY <2>3, <2>4
    <3>2. 0 + Lag <= Lag
      BY RolloutNumbers
    <3> QED
      BY <3>1, <3>2
  <2>7. StaysFit(x, y)
    BY <2>3, <2>4, <2>5, <2>6 DEF StaysFit, NoticedInTime, Fit, Drains
  <2> QED
    BY <1>2, <1>4, <2>2, <2>7 DEF x
<1>9. CASE Propagates(p)
  <2> DEFINE y == [x EXCEPT !.listed = ~x.listed]
  <2>1. pod' = [pod EXCEPT ![p] = y] /\ x.listed # (x.ready /\ ~x.deleted)
    BY <1>9 DEF Propagates, Wanted
  <2> HIDE DEF x
  <2>2. /\ y.ready = x.ready /\ y.deleted = x.deleted /\ y.age = x.age
        /\ y.draining = x.draining /\ y.listed = ~x.listed /\ y.lag = x.lag
        /\ x.listed \in BOOLEAN /\ x.ready \in BOOLEAN /\ x.deleted \in BOOLEAN
    BY <1>1 DEF RollPod
  <2> HIDE DEF y
  <2>3. x.ready /\ ~x.deleted => y.listed
    BY <2>1, <2>2
  <2>4. StaysFit(x, y)
    BY <2>2, <2>3 DEF StaysFit, NoticedInTime, Fit, Drains
  <2> QED
    BY <1>2, <1>4, <2>1, <2>4 DEF x
<1> QED
  BY <1>2, <1>5, <1>6, <1>7, <1>8, <1>9 DEF Calm, Process

(* Time: a notice that is due stops it, and no Pod grows younger. *)
LEMMA TickKeepsFit ==
    ASSUME RollInv, Tick
    PROVE  lost' = lost /\ \A q \in Pods : StaysFit(pod[q], pod'[q])
<1>1. ASSUME NEW p \in Pods PROVE StaysFit(pod[p], pod'[p])
  <2> DEFINE x == pod[p]
             y == [x EXCEPT !.left = Less(x.left), !.work = Less(x.work),
                            !.probe = Less(x.probe), !.lag = Less(x.lag),
                            !.age = IF x.ready /\ x.age < MinReady
                                    THEN x.age + 1 ELSE x.age]
  <2>1. x \in RollPod /\ pod'[p] = y
    BY DEF Tick, RollInv
  <2>2. x.ready /\ ~x.deleted /\ ~x.listed => x.lag # 0
    <3>1. ASSUME x.ready, ~x.deleted, ~x.listed PROVE x.lag # 0
      <4>1. x.listed # Wanted(p)
        BY <3>1 DEF Wanted
      <4> QED
        BY <4>1 DEF Tick, Due
    <3> QED
      BY <3>1
  <2> HIDE DEF x
  <2>3. x.lag \in Nat /\ x.age \in Nat
    BY <2>1, RolloutNumbers DEF RollPod
  <2>4. /\ y.ready = x.ready /\ y.deleted = x.deleted /\ y.draining = x.draining
        /\ y.listed = x.listed /\ y.lag = Less(x.lag)
        /\ y.age = IF x.ready /\ x.age < MinReady THEN x.age + 1 ELSE x.age
    BY <2>1 DEF RollPod
  <2> HIDE DEF y
  <2>5. /\ y.age \in Nat /\ y.age >= x.age /\ y.age <= x.age + 1
        /\ x.lag # 0 => y.lag = x.lag - 1
    BY <2>3, <2>4 DEF Less
  <2>6. x.lag # 0 /\ x.age + x.lag <= Lag => y.age + y.lag <= Lag
    BY <2>3, <2>5, RolloutNumbers
  <2>7. x.age >= MinReady => y.age >= MinReady
    BY <2>3, <2>5, RolloutNumbers
  <2>8. NoticedInTime(x) => NoticedInTime(y)
    BY <2>2, <2>4, <2>6 DEF NoticedInTime
  <2>9. StaysFit(x, y)
    BY <2>4, <2>7, <2>8 DEF StaysFit, Fit, Drains
  <2> QED
    BY <2>1, <2>9 DEF x
<1> QED
  BY <1>1 DEF Tick

(* No step of these kinds takes a fit Pod away or adds one that drains. *)
LEMMA StayingServes ==
    ASSUME ServedInv, RollInv', lost' = lost, \A q \in Pods : StaysFit(pod[q], pod'[q])
    PROVE  ServedInv'
<1>1. /\ FitPods \in SUBSET Pods /\ FitPods' \in SUBSET Pods /\ FitPods \in SUBSET FitPods'
      /\ DrainPods \in SUBSET Pods /\ DrainPods' \in SUBSET DrainPods
  BY DEF StaysFit, FitPods, DrainPods
<1>2. /\ Cardinality(FitPods) <= Cardinality(FitPods')
      /\ Cardinality(DrainPods') <= Cardinality(DrainPods)
      /\ Cardinality(FitPods) \in Nat /\ Cardinality(FitPods') \in Nat
      /\ Cardinality(DrainPods) \in Nat /\ Cardinality(DrainPods') \in Nat
      /\ Replicas \in Nat /\ MaxLost \in Nat
  <2>1. DrainPods' \in SUBSET Pods
    BY DEF DrainPods
  <2> QED
    BY <1>1, <2>1, PodsCounted
<1>3. \A q \in Pods : NoticedInTime(pod'[q])
  BY DEF ServedInv, StaysFit
<1>4. lost \in Nat /\ lost' \in 0..MaxLost
  BY <1>2 DEF ServedInv
<1>5. Cardinality(DrainPods') <= lost' /\ Cardinality(FitPods') + lost' >= Replicas
  BY <1>2, <1>4 DEF ServedInv
<1> QED
  BY <1>3, <1>4, <1>5 DEF ServedInv

(* A lost Lease costs one fit Pod and is counted. *)
LEMMA LeaseServes ==
    ASSUME ServedInv, RollInv', NEW p \in Pods, LosesLease(p)
    PROVE  ServedInv'
<1> DEFINE x == pod[p]
           y == [x EXCEPT !.main = "sleeping", !.left = SleepTime, !.draining = TRUE]
<1>1. pod' = [pod EXCEPT ![p] = y] /\ lost' = lost + 1 /\ lost < MaxLost
  BY DEF LosesLease, DrainFirst
<1>2. x \in RollPod /\ pod \in [Pods -> RollPod]
  BY DEF ServedInv, RollInv
<1>3. /\ \A q \in Pods \ {p} : pod'[q] = pod[q]
      /\ pod'[p] = y
  BY <1>1, <1>2
<1>4. /\ y.ready = x.ready /\ y.deleted = x.deleted /\ y.age = x.age
      /\ y.listed = x.listed /\ y.lag = x.lag
  BY <1>2 DEF RollPod
<1>5. \A q \in Pods : NoticedInTime(pod'[q])
  BY <1>3, <1>4 DEF ServedInv, NoticedInTime
<1>6. /\ FitPods \in SUBSET Pods /\ FitPods' \in SUBSET Pods
      /\ FitPods \ {p} \in SUBSET FitPods'
      /\ DrainPods \in SUBSET Pods /\ DrainPods \cup {p} \in SUBSET Pods
      /\ DrainPods' \in SUBSET (DrainPods \cup {p})
  BY <1>3 DEF FitPods, DrainPods
<1>7. /\ Cardinality(FitPods) - 1 <= Cardinality(FitPods')
      /\ Cardinality(FitPods) \in Nat /\ Cardinality(FitPods') \in Nat
  <2>1. Cardinality(FitPods \ {p}) \in {Cardinality(FitPods), Cardinality(FitPods) - 1}
    BY <1>6, PodsCounted, FS_RemoveElement
  <2>2. Cardinality(FitPods \ {p}) <= Cardinality(FitPods')
    BY <1>6, PodsCounted
  <2>3. Cardinality(FitPods) \in Nat /\ Cardinality(FitPods') \in Nat
    BY <1>6, PodsCounted
  <2> QED
    BY <2>1, <2>2, <2>3
<1>8. /\ Cardinality(DrainPods') <= Cardinality(DrainPods) + 1
      /\ Cardinality(DrainPods) \in Nat /\ Cardinality(DrainPods') \in Nat
  <2>1. Cardinality(DrainPods \cup {p}) \in {Cardinality(DrainPods), Cardinality(DrainPods) + 1}
    BY <1>6, PodsCounted, FS_AddElement
  <2>2. Cardinality(DrainPods') <= Cardinality(DrainPods \cup {p})
    BY <1>6, PodsCounted
  <2>3. DrainPods' \in SUBSET Pods
    BY <1>6
  <2>4. Cardinality(DrainPods) \in Nat /\ Cardinality(DrainPods') \in Nat
    BY <1>6, <2>3, PodsCounted
  <2> QED
    BY <2>1, <2>2, <2>4
<1>9. lost \in Nat /\ lost' \in 0..MaxLost /\ Replicas \in Nat
  BY <1>1, PodsCounted DEF ServedInv
<1>10. Cardinality(DrainPods') <= lost' /\ Cardinality(FitPods') + lost' >= Replicas
  BY <1>1, <1>7, <1>8, <1>9 DEF ServedInv
<1> QED
  BY <1>5, <1>9, <1>10 DEF ServedInv

(* A deletion takes a fit Pod only if there are enough: the available ones *)
(* are fit or drain, and of those that drain there are at most lost.       *)
LEMMA RetiringServes ==
    ASSUME ServedInv, RollInv', NEW p \in Pods, Retires(p)
    PROVE  ServedInv'
<1> DEFINE x == pod[p]
           y == [x EXCEPT !.deleted = TRUE, !.lag = IF x.ready THEN Lag ELSE x.lag]
           able == {q \in Current : Available(q)}
<1>1. pod' = [pod EXCEPT ![p] = y] /\ lost' = lost
  BY DEF Retires
<1>2. x \in RollPod /\ pod \in [Pods -> RollPod]
  BY DEF ServedInv, RollInv
<1>3. /\ \A q \in Pods \ {p} : pod'[q] = pod[q]
      /\ pod'[p] = y
  BY <1>1, <1>2
<1>4. y.deleted
  BY <1>2 DEF RollPod
<1>5. \A q \in Pods : NoticedInTime(pod'[q])
  BY <1>3, <1>4 DEF ServedInv, NoticedInTime
<1>6. /\ FitPods \in SUBSET Pods /\ FitPods' \in SUBSET Pods
      /\ FitPods \ {p} \in SUBSET FitPods'
      /\ DrainPods \in SUBSET Pods /\ DrainPods' \in SUBSET DrainPods
      /\ DrainPods' \in SUBSET Pods
      /\ FitPods \cup DrainPods \in SUBSET Pods
      /\ able \in SUBSET (FitPods \cup DrainPods)
  BY <1>3, <1>4 DEF FitPods, DrainPods, Fit, Drains, Current, Available, Wanted
<1>7. /\ Cardinality(FitPods) \in Nat /\ Cardinality(FitPods') \in Nat
      /\ Cardinality(DrainPods) \in Nat /\ Cardinality(DrainPods') \in Nat
      /\ Cardinality(FitPods \ {p}) <= Cardinality(FitPods')
      /\ Cardinality(DrainPods') <= Cardinality(DrainPods)
      /\ IsFiniteSet(FitPods) /\ IsFiniteSet(DrainPods)
      /\ Cardinality(FitPods \cup DrainPods) \in Nat
      /\ Cardinality(able) <= Cardinality(FitPods \cup DrainPods)
      /\ Cardinality(able) \in Nat
  <2>1. able \in SUBSET Pods
    BY DEF Current
  <2> QED
    BY <1>6, <2>1, PodsCounted
<1>8. lost \in Nat /\ lost' \in 0..MaxLost /\ Replicas \in Nat
  BY <1>1, PodsCounted DEF ServedInv
<1>9. Cardinality(FitPods') + lost' >= Replicas
  <2>1. CASE p \in FitPods
    <3>1. Available(p)
      BY <2>1 DEF FitPods, Fit, Available, Wanted
    <3>2. Cardinality(able) > Replicas
      BY <3>1 DEF Retires
    <3>3. Cardinality(FitPods \cup DrainPods) <= Cardinality(FitPods) + Cardinality(DrainPods)
      <4>1. /\ Cardinality(FitPods \cup DrainPods)
                 = Cardinality(FitPods) + Cardinality(DrainPods)
                   - Cardinality(FitPods \cap DrainPods)
        BY <1>7, FS_Union
      <4>2. Cardinality(FitPods \cap DrainPods) \in Nat
        BY <1>6, PodsCounted
      <4> QED
        BY <1>7, <4>1, <4>2
    <3>4. Cardinality(FitPods \ {p}) = Cardinality(FitPods) - 1
      BY <1>7, <2>1, FS_RemoveElement
    <3>5. Cardinality(DrainPods) <= lost
      BY DEF ServedInv
    <3> HIDE DEF able
    <3> QED
      BY <1>1, <1>7, <1>8, <3>2, <3>3, <3>4, <3>5
  <2>2. CASE p \notin FitPods
    <3>1. Cardinality(FitPods \ {p}) = Cardinality(FitPods)
      BY <1>7, <2>2, FS_RemoveElement
    <3>2. Cardinality(FitPods) + lost >= Replicas
      BY DEF ServedInv
    <3> HIDE DEF able
    <3> QED
      BY <1>1, <1>7, <1>8, <3>1, <3>2
  <2> QED
    BY <2>1, <2>2
<1>10. Cardinality(DrainPods') <= lost'
  BY <1>1, <1>7, <1>8 DEF ServedInv
<1> QED
  BY <1>5, <1>8, <1>9, <1>10 DEF ServedInv

LEMMA ServedStep == ServedInv /\ [RollNext]_rollVars => ServedInv'
<1> SUFFICES ASSUME ServedInv, [RollNext]_rollVars PROVE ServedInv'
  OBVIOUS
<1>1. RollInv /\ RollInv'
  BY RollStep DEF ServedInv
<1>2. CASE UNCHANGED rollVars
  <2>1. lost' = lost /\ \A q \in Pods : StaysFit(pod[q], pod'[q])
    BY <1>2 DEF rollVars, StaysFit
  <2> QED
    BY <1>1, <2>1, StayingServes
<1>3. CASE Tick
  BY <1>1, <1>3, TickKeepsFit, StayingServes
<1>4. ASSUME NEW p \in Pods, Calm(p) PROVE ServedInv'
  BY <1>1, <1>4, CalmKeepsFit, StayingServes
<1>5. ASSUME NEW p \in Pods, LosesLease(p) \/ Retires(p) PROVE ServedInv'
  BY <1>1, <1>5, LeaseServes, RetiringServes
<1> QED
  BY <1>2, <1>3, <1>4, <1>5 DEF RollNext, Calm, Kubernetes

(* Whatever the number of Pods and the moment of each step of the upgrade, *)
(* while leaders lose the Lease less often than there are replicas, and    *)
(* minReadySeconds is longer than the lag of the proxies, some Pod is in   *)
(* the Service (the chart's maxUnavailable: 0 and minReadySeconds, main.go *)
(* run, which drains on its own when the leader is deposed).               *)
THEOREM SomebodyServes == ASSUME MaxLost < Replicas PROVE RollSpec => []SomebodyListed
<1>1. ServedInv => SomebodyListed
  <2> SUFFICES ASSUME ServedInv PROVE SomebodyListed
    OBVIOUS
  <2>1. FitPods \in SUBSET Pods /\ Cardinality(FitPods) \in Nat
    BY PodsCounted DEF FitPods
  <2>2. Cardinality(FitPods) > 0
    BY <2>1, PodsCounted DEF ServedInv
  <2>3. PICK p \in Pods : Fit(pod[p])
    <3>1. FitPods # {}
      BY <2>1, <2>2, FS_EmptySet
    <3> QED
      BY <3>1 DEF FitPods
  <2>4. /\ pod[p] \in RollPod /\ NoticedInTime(pod[p])
        /\ pod[p].age \in Nat /\ pod[p].lag \in 0..Lag
    BY DEF ServedInv, RollInv, RollPod
  <2>5. Lag < MinReady
    BY RolloutAssumption
  <2>6. ~(pod[p].age + pod[p].lag <= Lag)
    BY <2>3, <2>4, <2>5, RolloutNumbers DEF Fit
  <2> QED
    BY <2>3, <2>4, <2>6 DEF Fit, NoticedInTime, SomebodyListed
<1> QED
  BY <1>1, ServedStarts, ServedStep, PTL DEF RollSpec

-----------------------------------------------------------------------------
(* A request through the API *)

(* However often an error passes mapError, it keeps its kind.              *)
LEMMA KindKept ==
    ASSUME NEW e \in RawErrors, NEW f, f = MapError(e) \/ f = MapError(MapError(e))
    PROVE  /\ e.own # "none" => ErrorCode(f) = e.own
           /\ e.api # "none" => ErrorCode(f) = MappedCode(e.api)
           /\ e.ctx # "none" => ErrorCode(f) = "Unavailable" /\ GRPCCode(f) = e.ctx
           /\ GRPCText(f) = PublicError(f)
<1>1. CASE \E c \in Codes : e = [NoError EXCEPT !.own = c]
  <2>1. e.own \in Codes /\ e.ctx = "none" /\ e.api = "none"
    BY <1>1 DEF NoError
  <2>2. e.own # "none"
    BY <2>1 DEF Codes
  <2>3. f = e
    BY <2>2 DEF MapError
  <2> QED
    BY <2>1, <2>2, <2>3 DEF ErrorCode, GRPCText, PublicError
<1>2. CASE \E c \in Contexts : e = [NoError EXCEPT !.ctx = c]
  <2>1. e.own = "none" /\ e.ctx \in Contexts /\ e.api = "none"
    BY <1>2 DEF NoError
  <2>2. e.ctx # "none"
    BY <2>1 DEF Contexts
  <2>3. f = e
    BY <2>2 DEF MapError
  <2> QED
    BY <2>1, <2>2, <2>3 DEF ErrorCode, GRPCCode, GRPCText, PublicError, Contexts
<1>3. CASE \E s \in Statuses : e = [NoError EXCEPT !.api = s]
  <2>1. e.own = "none" /\ e.ctx = "none" /\ e.api \in Statuses
    BY <1>3 DEF NoError
  <2>2. MappedCode(e.api) \in Codes
    BY <2>1 DEF MappedCode, Statuses, Codes
  <2>3. MappedCode(e.api) # "none"
    BY <2>2 DEF Codes
  <2> DEFINE m == MappedCode(e.api)
  <2>4. MapError(e) = [e EXCEPT !.own = m]
    BY <2>1 DEF MapError
  <2> HIDE DEF m
  <2>5. MapError(e).own = m /\ MapError(e).ctx = "none"
    BY <1>3, <2>1, <2>4 DEF NoError
  <2>6. f.own = m /\ f.ctx = "none"
    <3>1. MapError(MapError(e)) = MapError(e)
      BY <2>3, <2>5 DEF MapError, m
    <3> QED
      BY <2>5, <3>1
  <2> QED
    BY <2>1, <2>3, <2>6 DEF ErrorCode, GRPCText, PublicError, m
<1> QED
  BY <1>1, <1>2, <1>3 DEF RawErrors

(* Both transports tell of the same failure, whatever its cause and way.   *)
LEMMA FailureStep == SameFailure /\ [ApiNext]_apiVars => SameFailure'
<1> SUFFICES ASSUME SameFailure, [ApiNext]_apiVars PROVE SameFailure'
  OBVIOUS
<1>1. ASSUME NEW e \in RawErrors, raw' = e,
             err' = MapError(e) \/ err' = MapError(MapError(e))
      PROVE  SameFailure'
  BY <1>1, KindKept DEF SameFailure
<1>2. CASE Serve
  <2>1. CASE raw' = Invalid /\ err' = Invalid
    <3>1. Invalid \in RawErrors /\ Invalid = MapError(Invalid)
      BY DEF Invalid, RawErrors, MapError, NoError, Codes
    <3> QED
      BY <1>1, <2>1, <3>1
  <2>2. CASE stage' = "backend"
    BY <2>2 DEF SameFailure
  <2> QED
    BY <1>2, <2>1, <2>2 DEF Serve
<1>3. CASE BackendReturns
  <2>1. CASE Answer(IF level = 5 THEN "OK" ELSE "200", "result")
    BY <2>1 DEF SameFailure, Answer
  <2>2. CASE \E e \in RawErrors, twice \in BOOLEAN :
                /\ raw' = e
                /\ err' = IF twice THEN MapError(MapError(e)) ELSE MapError(e)
    BY <1>1, <2>2
  <2> QED
    BY <1>3, <2>1, <2>2 DEF BackendReturns
<1>4. CASE Expire
  <2>1. raw' \in RawErrors
    BY <1>4 DEF Expire, RawErrors, Contexts
  <2> QED
    BY <1>1, <1>4, <2>1 DEF Expire
<1>5. CASE UNCHANGED apiVars
  BY <1>5 DEF apiVars, SameFailure
<1>6. ASSUME stage' # "failed" PROVE SameFailure'
  BY <1>6 DEF SameFailure
<1>7. CASE Route \/ Decode \/ Trailing \/ Command \/ RPC \/ Panic \/ Fails
  <2>1. stage' # "failed"
    BY <1>7 DEF Route, Decode, Trailing, Command, RPC, Panic, Fails, Answer, AnswerError,
                BadJSON
  <2> QED
    BY <1>6, <2>1
<1> QED
  BY <1>2, <1>3, <1>4, <1>5, <1>7 DEF ApiNext, Handler

(* An error means the same over HTTP and gRPC, and its cause stays inside  *)
(* (mapError, model.ErrorCode, respond and convertError).                  *)
THEOREM FailureSame == ApiSpec => []SameFailure
<1>1. ApiInit => SameFailure
  BY DEF ApiInit, SameFailure
<1> QED
  BY <1>1, FailureStep, PTL DEF ApiSpec

(* What is decoded from a body is what it says: a count only if its last   *)
(* word on it is that count, and no version only if it gives none.         *)
LEMMA DecodedSaid ==
    ASSUME NEW fs \in Objects,
           \A i \in DOMAIN fs : fs[i].name \in {"replicas", "expectedVersion"}
    PROVE  /\ Decoded(fs).n # Missing =>
                 \E i \in DOMAIN fs :
                    /\ fs[i].name = "replicas" /\ fs[i].n = Decoded(fs).n
                    /\ \A j \in DOMAIN fs : j > i => fs[j].name # "replicas"
           /\ Decoded(fs).version = "none" => GivesNoVersion(fs)
<1> DEFINE counts == {i \in DOMAIN fs : fs[i].name = "replicas"}
           versions == {i \in DOMAIN fs : fs[i].name = "expectedVersion"
                                          /\ fs[i].text # "none"}
           last(is) == CHOOSE i \in is : \A j \in is : j <= i
<1>1. DOMAIN fs \subseteq {1, 2, 3}
  <2>1. PICK k \in 0..3 : fs \in [1..k -> Fields]
    BY DEF Objects
  <2> QED
    BY <2>1
<1>2. ASSUME NEW is \in SUBSET DOMAIN fs, is # {}
      PROVE  last(is) \in is /\ \A j \in is : j <= last(is)
  <2>1. \E i \in is : \A j \in is : j <= i
    <3>1. CASE 3 \in is
      BY <1>1, <1>2, <3>1
    <3>2. CASE 3 \notin is /\ 2 \in is
      BY <1>1, <1>2, <3>2
    <3>3. CASE 3 \notin is /\ 2 \notin is
      BY <1>1, <1>2, <3>3
    <3> QED
      BY <3>1, <3>2, <3>3
  <2> QED
    BY <2>1
<1>3. Decoded(fs) =
        [n |-> IF (IF counts = {} THEN 0 ELSE last(counts)) = 0 THEN Missing
               ELSE fs[IF counts = {} THEN 0 ELSE last(counts)].n,
         version |-> IF \/ (IF versions = {} THEN 0 ELSE last(versions)) = 0
                        \/ fs[IF versions = {} THEN 0 ELSE last(versions)].text = "empty"
                     THEN "none"
                     ELSE fs[IF versions = {} THEN 0 ELSE last(versions)].text]
  BY DEF Decoded, LastWith
<1>4. ASSUME Decoded(fs).n # Missing
      PROVE  \E i \in DOMAIN fs :
                /\ fs[i].name = "replicas" /\ fs[i].n = Decoded(fs).n
                /\ \A j \in DOMAIN fs : j > i => fs[j].name # "replicas"
  <2>1. counts # {}
    BY <1>3, <1>4
  <2>2. last(counts) \in counts /\ \A j \in counts : j <= last(counts)
    BY <1>2, <2>1
  <2> HIDE DEF last
  <2>3. last(counts) \in DOMAIN fs /\ last(counts) # 0
    BY <1>1, <2>2
  <2>4. Decoded(fs).n = fs[last(counts)].n
    BY <1>3, <2>1, <2>3
  <2>5. \A j \in DOMAIN fs : j > last(counts) => fs[j].name # "replicas"
    BY <1>1, <2>2, <2>3
  <2> QED
    BY <2>2, <2>3, <2>4, <2>5
<1>5. ASSUME Decoded(fs).version = "none", NEW i \in DOMAIN fs,
             fs[i].name = "expectedVersion", fs[i].text \notin {"none", "empty"}
      PROVE  \E j \in DOMAIN fs :
                j > i /\ fs[j].name = "expectedVersion" /\ fs[j].text = "empty"
  <2>1. i \in versions
    BY <1>5
  <2>2. last(versions) \in versions /\ i <= last(versions)
    BY <1>2, <2>1
  <2> HIDE DEF last
  <2>3. /\ last(versions) \in DOMAIN fs /\ last(versions) # 0
        /\ fs[last(versions)].name = "expectedVersion" /\ fs[last(versions)].text # "none"
    BY <1>1, <2>2
  <2>4. fs[last(versions)].text = "empty"
    BY <1>3, <1>5, <2>1, <2>3
  <2>5. last(versions) > i
    <3>1. last(versions) # i
      BY <1>5, <2>4
    <3> QED
      BY <1>1, <2>2, <2>3, <3>1
  <2> QED
    BY <2>3, <2>4, <2>5
<1> QED
  BY <1>4, <1>5 DEF GivesNoVersion

(* The bodies that requests over HTTP come with. *)
LEMMA BodiesTyped == EmptyBody \in Body /\ PlainBody \in Body
<1>1. <<>> \in Objects /\ <<[name |-> "replicas", n |-> 1]>> \in Objects
  <2>1. [name |-> "replicas", n |-> 1] \in Fields
    BY DEF Fields, Numbers
  <2>2. <<[name |-> "replicas", n |-> 1]>> \in [1..1 -> Fields] /\ <<>> \in [1..0 -> Fields]
    BY <2>1
  <2> QED
    BY <2>2 DEF Objects
<1>2. /\ [kind |-> "broken", fields |-> <<>>] \in Value
      /\ [kind |-> "object", fields |-> <<[name |-> "replicas", n |-> 1]>>] \in Value
  BY <1>1 DEF Value, NotObjects
<1> QED
  BY <1>2 DEF EmptyBody, PlainBody, Body

(* The object has only fields that a SetRequest has. *)
FieldsKnown(b) ==
    /\ b.first.kind \in {"object", "null"}
    /\ \A i \in DOMAIN b.first.fields :
          b.first.fields[i].name \in {"replicas", "expectedVersion"}

PutsJSON == req.method = "PUT" /\ req.path = "replicas" /\ req.json

(* What has been established about a request when it is at a stage: a PUT  *)
(* reaches the service only decoded to its end, a message of replicactl    *)
(* has its flag where the flag package finds it, or no valid name.         *)
ApiInv ==
    /\ level \in 1..5
    /\ level < 5 => req.body \in Body /\ req.name \in {"good", "bad"}
    /\ stage \in {"route", "decode", "trailing"} => level < 5
    /\ stage \in {"command", "rpc"} => level = 5
    /\ stage = "command" => req \in Commands
    /\ stage \in {"route", "decode", "trailing", "command", "rpc", "service"} => called = NoCall
    /\ stage = "decode" => Operation(req) = "Set" /\ PutsJSON
    /\ stage = "trailing" =>
          /\ Operation(req) = "Set" /\ PutsJSON /\ req.body.over # "first"
          /\ FieldsKnown(req.body) /\ set = Decoded(req.body.first.fields)
    /\ stage = "service" /\ level < 5 /\ Operation(req) = "Set" =>
          /\ PutsJSON /\ req.body.over = "no" /\ req.body.rest = "nothing"
          /\ FieldsKnown(req.body) /\ set = Decoded(req.body.first.fields)
    /\ stage \in {"rpc", "service"} /\ level = 5 =>
          /\ req.name \in {"good", "bad"}
          /\ stage = "service" /\ req.rpc = "Set" => set = RPCSet(req)
          /\ "cmd" \in DOMAIN req =>
                /\ req.cmd.flag \in {"no", "before", "after"}
                /\ req.cmd.flag = "before" => req.version # "none"
                /\ req.cmd.flag = "after" /\ req.rpc = "Set" => req.name = "bad"
    /\ NoAccidentalWrite /\ PreconditionKept

(* Nothing has been called when a request comes in. *)
LEMMA ApiStarts == ApiInit => ApiInv
<1> SUFFICES ASSUME ApiInit PROVE ApiInv
  OBVIOUS
<1>1. level \in 1..5 /\ called = NoCall /\ called.op = "none"
  BY DEF ApiInit, NoCall
<1>2. CASE level < 5 /\ req \in HTTPRequest \cup SetRequests /\ stage = "route"
  <2>1. req.body \in Body /\ req.name \in {"good", "bad"}
    BY <1>2, BodiesTyped DEF HTTPRequest, SetRequests
  <2> QED
    BY <1>1, <1>2, <2>1 DEF ApiInv, NoAccidentalWrite, PreconditionKept
<1>3. CASE level = 5 /\ req \in RPCRequest /\ stage = "rpc"
  <2>1. req.name \in {"good", "bad"} /\ "cmd" \notin DOMAIN req
    BY <1>3 DEF RPCRequest
  <2> QED
    BY <1>1, <1>3, <2>1 DEF ApiInv, NoAccidentalWrite, PreconditionKept
<1>4. CASE level = 5 /\ req \in Commands /\ stage = "command"
  BY <1>1, <1>4 DEF ApiInv, NoAccidentalWrite, PreconditionKept
<1>5. level = 4 => level < 5
  OBVIOUS
<1> QED
  BY <1>2, <1>3, <1>4, <1>5 DEF ApiInit

(* After the backend was called the request is only answered. *)
LEMMA AnswerKeepsApi ==
    ASSUME ApiInv, UNCHANGED <<level, req, set, called>>,
           stage' \in {"failed", "answered"}
    PROVE  ApiInv'
BY DEF ApiInv, NoAccidentalWrite, PreconditionKept, GivesNoVersion, AsksFor

(* The routes and the decoder. *)
LEMMA RouteKeeps == ASSUME ApiInv, Route PROVE ApiInv'
<1>1. UNCHANGED <<level, req, set, called>> /\ stage = "route" /\ level < 5
      /\ called = NoCall
  BY DEF Route, ApiInv
<1>2. CASE stage' = "answered"
  BY <1>1, <1>2, AnswerKeepsApi
<1>3. CASE Operation(req) = "Set" /\ req.json /\ stage' = "decode"
  <2>1. PutsJSON
    BY <1>3 DEF Operation, PutsJSON
  <2> QED
    BY <1>1, <1>3, <2>1
       DEF ApiInv, NoAccidentalWrite, PreconditionKept, GivesNoVersion, AsksFor, PutsJSON, Operation, NoCall
<1>4. CASE Operation(req) \notin {"none", "Set"} /\ stage' = "service"
  BY <1>1, <1>4
     DEF ApiInv, NoAccidentalWrite, PreconditionKept, GivesNoVersion, AsksFor, PutsJSON, Operation, NoCall
<1> QED
  BY <1>2, <1>3, <1>4 DEF Route, Answer

LEMMA DecodeKeeps == ASSUME ApiInv, Decode \/ Trailing PROVE ApiInv'
<1>1. UNCHANGED <<level, req, called>> /\ level < 5 /\ level \in 1..5
      /\ called = NoCall /\ stage \in {"decode", "trailing"}
      /\ req.body \in Body /\ req.name \in {"good", "bad"}
      /\ Operation(req) = "Set" /\ PutsJSON
  BY DEF Decode, Trailing, ApiInv
<1>2. Operation(req)' = Operation(req) /\ PutsJSON' = PutsJSON
  BY <1>1 DEF Operation, PutsJSON
<1>3. NoAccidentalWrite' /\ PreconditionKept'
  BY <1>1 DEF NoAccidentalWrite, PreconditionKept, NoCall
<1>4. CASE UNCHANGED set /\ stage' = "answered"
  BY <1>1, <1>4, AnswerKeepsApi
<1>5. CASE /\ Decode /\ req.body.over # "first" /\ FieldsKnown(req.body)
           /\ set' = Decoded(req.body.first.fields) /\ stage' = "trailing"
  BY <1>1, <1>2, <1>3, <1>5 DEF ApiInv, FieldsKnown
<1>6. CASE /\ Trailing /\ UNCHANGED set /\ stage' = "service"
           /\ req.body.over # "rest" /\ req.body.rest = "nothing"
  <2>1. req.body.over \in {"no", "first", "rest"}
    BY <1>1 DEF Body
  <2>2. /\ req.body.over = "no" /\ FieldsKnown(req.body)
        /\ set = Decoded(req.body.first.fields)
    BY <1>6, <2>1 DEF ApiInv, Trailing
  <2> QED
    BY <1>1, <1>2, <1>3, <1>6, <2>2 DEF ApiInv, FieldsKnown
<1>7. CASE Decode
  BY <1>4, <1>5, <1>7 DEF Decode, BadJSON, Answer, FieldsKnown
<1>8. CASE Trailing
  BY <1>4, <1>6, <1>8 DEF Trailing, BadJSON, Answer
<1> QED
  BY <1>7, <1>8

(* replicactl's words become a message, or nothing. *)
LEMMA CommandKeeps == ASSUME ApiInv, Command PROVE ApiInv'
<1>1. /\ UNCHANGED <<level, set, called>> /\ stage = "command" /\ level = 5
      /\ req \in Commands /\ called = NoCall
  BY DEF Command, ApiInv
<1>2. CASE stage' = "answered" /\ UNCHANGED req
  BY <1>1, <1>2, AnswerKeepsApi
<1>3. CASE ~(~CommandOK(req) \/ req.cmd = "health")
  <2>1. PICK name \in IF req.flag = "after" /\ req.words <= 3
                      THEN {"bad"} ELSE {"good", "bad"} :
           req' = [cmd |-> req, name |-> name,
                   rpc |-> [get |-> "Get", set |-> "Set", list |-> "List"][req.cmd],
                   n |-> IF req.cmd = "set" THEN req.n ELSE Missing,
                   version |-> IF req.flag = "before" THEN "v" ELSE "none"]
    BY <1>3 DEF Command
  <2>2. stage' = "rpc"
    BY <1>3 DEF Command
  <2>3. /\ req'.name = name /\ req'.cmd = req
        /\ req'.rpc = [get |-> "Get", set |-> "Set", list |-> "List"][req.cmd]
        /\ req'.version = IF req.flag = "before" THEN "v" ELSE "none"
    BY <2>1
  <2>4. req.cmd \in {"get", "set", "list"}
    BY <1>1, <1>3 DEF CommandOK, Commands
  <2>5. req'.rpc = "Set" => req.cmd = "set"
    BY <2>3, <2>4
  <2>6. req.cmd = "set" => req.words = 3
    BY <1>3, <2>4 DEF CommandOK
  <2>7. req'.rpc = "Set" /\ req.flag = "after" => name = "bad"
    BY <2>1, <2>5, <2>6
  <2>8. req.flag \in {"no", "before", "after"}
    BY <1>1 DEF Commands
  <2>9. NoAccidentalWrite' /\ PreconditionKept'
    BY <1>1 DEF NoAccidentalWrite, PreconditionKept, NoCall
  <2>10. name \in {"good", "bad"}
    BY <2>1
  <2> QED
    BY <1>1, <2>2, <2>3, <2>7, <2>8, <2>9, <2>10 DEF ApiInv
<1> QED
  BY <1>2, <1>3 DEF Command, Answer

(* The generated handler hands on what the message says. *)
LEMMA RPCKeeps == ASSUME ApiInv, RPC PROVE ApiInv'
<1>1. UNCHANGED <<level, req, called>> /\ stage = "rpc" /\ level = 5 /\ called = NoCall
  BY DEF RPC, ApiInv
<1>2. CASE stage' = "answered" /\ UNCHANGED set
  BY <1>1, <1>2, AnswerKeepsApi
<1>3. CASE stage' = "service" /\ set' = IF req.rpc = "Set" THEN RPCSet(req) ELSE NoSet
  <2>1. NoAccidentalWrite' /\ PreconditionKept'
    BY <1>1 DEF NoAccidentalWrite, PreconditionKept, NoCall
  <2>2. RPCSet(req)' = RPCSet(req)
    BY <1>1 DEF RPCSet
  <2> QED
    BY <1>1, <1>3, <2>1, <2>2 DEF ApiInv
<1> QED
  BY <1>2, <1>3 DEF RPC, Answer

(* The backend is called with what was asked for. *)
LEMMA ServeKeeps == ASSUME ApiInv, Serve PROVE ApiInv'
<1>1. UNCHANGED <<level, req, set>> /\ stage = "service" /\ level \in 1..5
      /\ called = NoCall
  BY DEF Serve, ApiInv
<1>2. CASE stage' = "failed" /\ UNCHANGED called
  BY <1>1, <1>2, AnswerKeepsApi
<1>3. CASE /\ ~(req.name = "bad" \/ (Op = "Set" /\ ~ValidSet(set)))
           /\ called' = [op |-> Op, n |-> set.n, version |-> set.version]
           /\ stage' = "backend"
  <2>1. /\ called'.op = Op /\ called'.n = set.n /\ called'.version = set.version
        /\ req.name # "bad"
    BY <1>3
  <2>2. ASSUME Op = "Set", level < 5
        PROVE  /\ level >= 2 /\ set.n \in 0..MaxReplicas /\ AsksFor(set.n)
               /\ set.version = "none" => GivesNoVersion(req.body.first.fields)
    <3> DEFINE fs == req.body.first.fields
    <3>1. Operation(req) = "Set"
      BY <2>2 DEF Op
    <3>2. /\ PutsJSON /\ req.body.over = "no" /\ req.body.rest = "nothing"
          /\ FieldsKnown(req.body) /\ set = Decoded(fs)
          /\ req.body \in Body /\ req.name = "good"
      BY <1>1, <2>1, <2>2, <3>1 DEF ApiInv
    <3>3. level >= 2 /\ set.n # Missing /\ set.n \in 0..MaxReplicas
      BY <1>1, <1>3, <2>2, <3>1 DEF Operation, ValidSet
    <3>4. req.body.first \in Value
      BY <3>2 DEF Body
    <3>5. fs \in Objects /\ (req.body.first.kind = "null" => fs = <<>>)
      <4>1. CASE req.body.first \in [kind : {"object"}, fields : Objects]
        BY <4>1
      <4>2. CASE req.body.first \in [kind : NotObjects, fields : {<<>>}]
        <5>1. fs = <<>>
          BY <4>2
        <5>2. <<>> \in [1..0 -> Fields]
          OBVIOUS
        <5>3. <<>> \in Objects
          BY <5>2 DEF Objects
        <5> QED
          BY <5>1, <5>3
      <4> QED
        BY <3>4, <4>1, <4>2 DEF Value
    <3> HIDE DEF fs
    <3>6. \A i \in DOMAIN fs : fs[i].name \in {"replicas", "expectedVersion"}
      BY <3>2 DEF FieldsKnown, fs
    <3>7. PICK i \in DOMAIN fs :
             /\ fs[i].name = "replicas" /\ fs[i].n = set.n
             /\ \A j \in DOMAIN fs : j > i => fs[j].name # "replicas"
      BY <3>2, <3>3, <3>5, <3>6, DecodedSaid
    <3>8. req.body.first.kind = "object"
      <4>1. fs # <<>>
        BY <3>7
      <4> QED
        BY <3>2, <3>5, <4>1 DEF FieldsKnown
    <3>9. AsksFor(set.n)
      BY <2>2, <3>2, <3>6, <3>7, <3>8 DEF AsksFor, PutsJSON, fs
    <3>10. set.version = "none" => GivesNoVersion(fs)
      BY <3>2, <3>5, <3>6, DecodedSaid
    <3> QED
      BY <3>3, <3>9, <3>10 DEF fs
  <2>3. ASSUME Op = "Set", level = 5
        PROVE  /\ set.n \in 0..MaxReplicas /\ AsksFor(set.n)
               /\ set.version = "none" => /\ req.version = "none"
                                          /\ "cmd" \in DOMAIN req => req.cmd.flag = "no"
    <3>1. req.rpc = "Set"
      BY <2>3 DEF Op
    <3>2. set = RPCSet(req) /\ req.name = "good"
      BY <1>1, <2>1, <2>3, <3>1 DEF ApiInv
    <3>3. set.n = req.n /\ set.version = req.version
      BY <3>2 DEF RPCSet
    <3>4. set.n \in 0..MaxReplicas
      BY <1>3, <2>3 DEF ValidSet
    <3>5. AsksFor(set.n)
      BY <2>3, <3>1, <3>2, <3>3 DEF AsksFor
    <3>6. req.version = "none" => ("cmd" \in DOMAIN req => req.cmd.flag = "no")
      BY <1>1, <2>3, <3>1, <3>2 DEF ApiInv
    <3> QED
      BY <3>3, <3>4, <3>5, <3>6
  <2>4. NoAccidentalWrite'
    <3>1. ASSUME Op = "Set"
          PROVE  level >= 2 /\ set.n \in 0..MaxReplicas /\ AsksFor(set.n)
      BY <1>1, <2>2, <2>3, <3>1
    <3>2. AsksFor(called.n)' = AsksFor(called'.n)
      BY <1>1 DEF AsksFor
    <3> QED
      BY <1>1, <2>1, <3>1, <3>2 DEF NoAccidentalWrite
  <2>5. PreconditionKept'
    BY <1>1, <2>1, <2>2, <2>3 DEF PreconditionKept
  <2> QED
    BY <1>1, <1>3, <2>4, <2>5 DEF ApiInv
<1> QED
  BY <1>2, <1>3 DEF Serve

(* Every step keeps the invariant. *)
LEMMA ApiStep == ApiInv /\ [ApiNext]_apiVars => ApiInv'
<1> SUFFICES ASSUME ApiInv, [ApiNext]_apiVars PROVE ApiInv'
  OBVIOUS
<1>1. CASE BackendReturns \/ Expire \/ Panic \/ Fails
  <2>1. UNCHANGED <<level, req, set, called>> /\ stage' \in {"failed", "answered"}
    BY <1>1 DEF BackendReturns, Expire, Panic, Fails, Answer, AnswerError
  <2> QED
    BY <2>1, AnswerKeepsApi
<1>2. CASE UNCHANGED apiVars
  BY <1>2 DEF apiVars, ApiInv, PutsJSON, Operation, FieldsKnown, RPCSet, NoAccidentalWrite,
              PreconditionKept, GivesNoVersion, AsksFor
<1> QED
  BY <1>1, <1>2, RouteKeeps, DecodeKeeps, CommandKeeps, RPCKeeps, ServeKeeps
     DEF ApiNext, Handler

LEMMA ApiAlways == ApiSpec => []ApiInv
<1> QED
  BY ApiStarts, ApiStep, PTL DEF ApiSpec

(* No request, however malformed, and no word of the command line in the   *)
(* wrong place writes a count that it does not ask for (docs/DESIGN.md).   *)
THEOREM WritesAsked == ApiSpec => []NoAccidentalWrite
<1>1. ApiInv => NoAccidentalWrite
  BY DEF ApiInv
<1> QED
  BY <1>1, ApiAlways, PTL

(* No expectedVersion gets lost on the way to the backend. *)
THEOREM PreconditionReaches == ApiSpec => []PreconditionKept
<1>1. ApiInv => PreconditionKept
  BY DEF ApiInv
<1> QED
  BY <1>1, ApiAlways, PTL
=============================================================================
