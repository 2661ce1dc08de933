-------------------------- MODULE ControllerProofs --------------------------
(***************************************************************************)
(* Proofs about Controller: one pass at a time for a target, bounded       *)
(* backoff and no target forgotten, for every set of targets and workers   *)
(* and every value of the bounds.                                          *)
(*                                                                         *)
(* The argument: the queue holds exactly the dirty keys that no worker     *)
(* has, once each, whatever Add, Get and Done do (the first lemmas); so    *)
(* Get never hands out a key twice.  A key leaves dirty only through Get   *)
(* and processing only through Done, and by then its next pass is arranged.*)
(***************************************************************************)
EXTENDS Controller, TLAPS

-----------------------------------------------------------------------------
(* The work queue. *)

(* Add, called with any key at any time, keeps the queue in step with dirty*)
(* and makes the key dirty unless the queue is shut.                       *)
LEMMA AddKeepsQueue ==
    ASSUME NEW k \in Keys, QueueTypeOK, QueueIsDirty, Add(k),
           UNCHANGED <<processing, shut>>
    PROVE  /\ queue' \in Seq(Keys)
           /\ dirty' \subseteq Keys
           /\ QueueIsDirty'
           /\ dirty \subseteq dirty'
           /\ shut \/ k \in dirty'
<1>1. CASE shut \/ k \in dirty
  BY <1>1 DEF Add, QueueTypeOK, QueueIsDirty
<1>2. CASE ~shut /\ k \notin dirty /\ k \in processing
  BY <1>2 DEF Add, QueueTypeOK, QueueIsDirty
<1>3. CASE ~shut /\ k \notin dirty /\ k \notin processing
  <2>1. queue' = Append(queue, k) /\ dirty' = dirty \cup {k} /\ queue \in Seq(Keys)
    BY <1>3 DEF Add, QueueTypeOK
  <2>2. Len(queue') = Len(queue) + 1 /\ queue'[Len(queue) + 1] = k
    BY <2>1
  <2>3. \A i \in 1..Len(queue) : queue'[i] = queue[i]
    BY <2>1
  <2>4. Len(queue) \in Nat
    BY <2>1
  <2>5. \A i \in 1..Len(queue') : i \in 1..Len(queue) \/ i = Len(queue')
    BY <2>2, <2>4
  <2>6. QueueIsDirty'
    BY <1>3, <2>1, <2>2, <2>3, <2>4, <2>5 DEF QueueIsDirty
  <2> QED
    BY <2>1, <2>6 DEF QueueTypeOK
<1> QED
  BY <1>1, <1>2, <1>3

(* Get takes a key that nobody processes and that is not dirty afterwards. *)
LEMMA GetKeepsQueue ==
    ASSUME NEW k \in Keys, QueueTypeOK, QueueIsDirty, Get(k)
    PROVE  /\ queue' \in Seq(Keys)
           /\ QueueIsDirty'
           /\ k \notin processing
<1>1. queue \in Seq(Keys) /\ queue # <<>> /\ k = queue[1] /\ queue' = Tail(queue)
  BY DEF Get, QueueTypeOK
<1>2. Len(queue) \in Nat \ {0} /\ Len(queue') = Len(queue) - 1
  BY <1>1
<1>3. \A i \in 1..Len(queue') : queue'[i] = queue[i + 1] /\ i + 1 \in 1..Len(queue)
  BY <1>1, <1>2
<1>4. \A i \in 1..Len(queue) : i = 1 \/ (i - 1 \in 1..Len(queue') /\ (i - 1) + 1 = i)
  BY <1>2
<1>5. k \in dirty \ processing
  BY <1>1, <1>2 DEF QueueIsDirty
<1>6. \A i \in 1..Len(queue') : queue'[i] # k
  BY <1>1, <1>2, <1>3 DEF QueueIsDirty
<1>7. \A i \in 1..Len(queue') : queue'[i] \in dirty' \ processing'
  BY <1>3, <1>6 DEF QueueIsDirty, Get
<1>8. \A j \in dirty' \ processing' : \E i \in 1..Len(queue') : queue'[i] = j
  <2> TAKE j \in dirty' \ processing'
  <2>1. j \in dirty \ processing /\ j # k
    BY DEF Get
  <2>2. PICK i \in 1..Len(queue) : queue[i] = j
    BY <2>1 DEF QueueIsDirty
  <2>3. i # 1
    BY <1>1, <2>1, <2>2
  <2> QED
    BY <1>3, <1>4, <2>2, <2>3
<1>9. \A i, j \in 1..Len(queue') : queue'[i] = queue'[j] => i = j
  BY <1>2, <1>3 DEF QueueIsDirty
<1> QED
  BY <1>1, <1>5, <1>7, <1>8, <1>9 DEF QueueIsDirty

(* Done queues the key again if it became dirty while it was processed. *)
LEMMA DoneKeepsQueue ==
    ASSUME NEW k \in processing, QueueTypeOK, QueueIsDirty, Done(k), UNCHANGED dirty
    PROVE  queue' \in Seq(Keys) /\ QueueIsDirty'
<1>1. CASE k \notin dirty
  BY <1>1 DEF Done, QueueTypeOK, QueueIsDirty
<1>2. CASE k \in dirty
  <2>1. queue' = Append(queue, k) /\ queue \in Seq(Keys) /\ k \in Keys
    BY <1>2 DEF Done, QueueTypeOK
  <2>2. Len(queue') = Len(queue) + 1 /\ queue'[Len(queue) + 1] = k
    BY <2>1
  <2>3. \A i \in 1..Len(queue) : queue'[i] = queue[i]
    BY <2>1
  <2>4. Len(queue) \in Nat
    BY <2>1
  <2>5. \A i \in 1..Len(queue') : i \in 1..Len(queue) \/ i = Len(queue')
    BY <2>2, <2>4
  <2>6. QueueIsDirty'
    BY <1>2, <2>2, <2>3, <2>4, <2>5 DEF QueueIsDirty, Done
  <2> QED
    BY <2>1, <2>6
<1> QED
  BY <1>1, <1>2

-----------------------------------------------------------------------------
(* The inductive invariant. *)

IInv == ControllerInv /\ NoKeyForgotten

(* When the process starts, the queue is empty and no worker has a key. *)
LEMMA InitInv == Init => IInv
<1> SUFFICES ASSUME Init PROVE IInv
  OBVIOUS
<1>1. TypeOK
  <2>1. QueueTypeOK
    <3>1. queue \in Seq(Keys)
      BY DEF Init, QueueInit
    <3>2. requeues \in [Keys -> Nat]
      BY DEF Init, QueueInit
    <3> QED
      BY <3>1, <3>2 DEF Init, QueueInit, QueueTypeOK
  <2>2. None \in Nat \X Nat /\ <<1, 1>> \in Nat \X Nat
    BY DEF None
  <2>3. IdleWorker \in [pc : WorkerSteps, key : Keys \cup {NoKey},
                         read : Nat \X Nat, err : BOOLEAN]
    BY <2>2 DEF IdleWorker, WorkerSteps
  <2> QED
    BY <2>1, <2>2, <2>3 DEF Init, TypeOK
<1>2. OnePassPerKey
  <2>1. \A w \in Workers : worker[w].key = NoKey
    BY DEF Init, IdleWorker
  <2> QED
    BY <2>1, NoKeyAssumption DEF Init, QueueInit, OnePassPerKey, Holds
<1>3. BackoffIsBounded
  <2>1. \A k \in Keys : requeues[k] = 0
    BY DEF Init, QueueInit
  <2>2. 0 <= MaxRequeues
    BY MaxRequeuesAssumption
  <2> QED
    BY <2>1, <2>2 DEF BackoffIsBounded
<1>4. QueueIsDirty /\ EndsInOrder
  BY DEF Init, QueueInit, QueueIsDirty, EndsInOrder, IdleWorker
<1>5. BusyWorkersHold /\ MalformedDropped
  <2>1. \A w \in Workers : worker[w].key = NoKey /\ worker[w].pc = "idle"
    BY DEF Init, IdleWorker
  <2>2. NoKey \notin Malformed
    BY NoKeyAssumption, MalformedAssumption
  <2>3. \A k \in Malformed : k \notin delayed /\ requeues[k] = 0 /\ applied[k] = None
    BY MalformedAssumption DEF Init, QueueInit
  <2> QED
    BY <2>1, <2>2, <2>3 DEF BusyWorkersHold, MalformedDropped
<1>6. ReturnIsArranged /\ NoKeyForgotten
  BY DEF Init, ReturnIsArranged, NoKeyForgotten, Targets, IdleWorker
<1> QED
  BY <1>1, <1>2, <1>3, <1>4, <1>5, <1>6 DEF IInv, ControllerInv

(* A worker between Get and Done holds a key that is being processed. *)
LEMMA HeldKeyTyped ==
    ASSUME IInv, NEW w \in Workers, worker[w].pc \notin {"idle", "exited"}
    PROVE  worker[w].key \in processing /\ worker[w].key \in Keys
<1>1. worker[w].key \in Keys
  BY DEF IInv, ControllerInv, TypeOK, BusyWorkersHold
<1> QED
  BY <1>1 DEF IInv, ControllerInv, OnePassPerKey, Holds

-----------------------------------------------------------------------------
(* Steps that do not touch the queue. *)

(* A write in the API server: the indexer does not know of it yet. *)
LEMMA WriteIntentKept ==
    ASSUME IInv, NEW k \in Keys, WriteIntent(k)
    PROVE  IInv'
<1>1. TypeOK'
  <2>1. live[k] \in Nat \X Nat /\ writes \in Nat
    BY DEF IInv, ControllerInv, TypeOK
  <2>2. <<writes + 2, 1>> \in Nat \X Nat /\ None \in Nat \X Nat
        /\ <<live[k][1], live[k][2] + 1>> \in Nat \X Nat /\ writes + 1 \in Nat
    BY <2>1 DEF None
  <2>3. live' \in [Keys -> Nat \X Nat]
    BY <2>2 DEF WriteIntent, IInv, ControllerInv, TypeOK
  <2> QED
    BY <2>2, <2>3 DEF WriteIntent, IInv, ControllerInv, TypeOK, QueueTypeOK,
          queueVars, informerVars, workerVars
<1>2. MalformedDropped'
  BY DEF WriteIntent, IInv, ControllerInv, MalformedDropped, queueVars, workerVars
<1> QED
  BY <1>1, <1>2 DEF WriteIntent, IInv, ControllerInv, OnePassPerKey, Holds,
        BackoffIsBounded, QueueIsDirty, BusyWorkersHold, EndsInOrder,
        ReturnIsArranged, NoKeyForgotten, queueVars, informerVars, workerVars

(* The initial list announces every intent it puts into the indexer. *)
LEMMA InitialListKept ==
    ASSUME IInv, InitialList
    PROVE  IInv'
<1>1. TypeOK'
  BY DEF InitialList, IInv, ControllerInv, TypeOK, QueueTypeOK, queueVars,
         objectVars, workerVars
<1>2. MalformedDropped'
  BY DEF InitialList, IInv, ControllerInv, MalformedDropped, queueVars, workerVars
<1>3. \A k \in Keys : cache'[k] # None => notices'[k] > 0
  BY DEF InitialList
<1>4. NoKeyForgotten'
  BY <1>3 DEF NoKeyForgotten, Targets
<1>5. ReturnIsArranged'
  <2>1. \A w \in Workers : worker[w].pc = "done" => worker[w].key \in Keys
    BY HeldKeyTyped
  <2> QED
    BY <1>3, <2>1 DEF InitialList, ReturnIsArranged, workerVars
<1> QED
  BY <1>1, <1>2, <1>4, <1>5
     DEF InitialList, IInv, ControllerInv, OnePassPerKey, Holds,
         BackoffIsBounded, QueueIsDirty, BusyWorkersHold, EndsInOrder,
         queueVars, objectVars, workerVars

(* An intent that becomes known to the indexer is announced; an update that*)
(* is not was known before, and its key was not forgotten then.            *)
LEMMA ObserveKept ==
    ASSUME IInv, NEW k \in Keys, Observe(k)
    PROVE  IInv'
<1>1. cache' = [cache EXCEPT ![k] = live[k]]
      /\ notices' = [notices EXCEPT ![k] =
            @ + (IF Enqueues(cache[k], live[k]) THEN 1 ELSE 0)]
  BY DEF Observe
<1>2. cache \in [Keys -> Nat \X Nat] /\ notices \in [Keys -> Nat]
      /\ live \in [Keys -> Nat \X Nat]
  BY DEF IInv, ControllerInv, TypeOK
<1>3. cache' \in [Keys -> Nat \X Nat] /\ notices' \in [Keys -> Nat]
  BY <1>1, <1>2
<1>4. TypeOK'
  BY <1>3 DEF Observe, IInv, ControllerInv, TypeOK, QueueTypeOK, queueVars,
        objectVars, workerVars
<1>5. MalformedDropped'
  BY DEF Observe, IInv, ControllerInv, MalformedDropped, queueVars, workerVars
<1>6. \A j \in Keys : notices'[j] >= notices[j]
  BY <1>1, <1>2
<1>7. \A j \in Keys : cache'[j] # None /\ cache[j] = None => notices'[j] > 0
  BY <1>1, <1>2 DEF Enqueues
<1>8. NoKeyForgotten'
  BY <1>2, <1>3, <1>6, <1>7 DEF Observe, IInv, NoKeyForgotten, Targets, queueVars
<1>9. ReturnIsArranged'
  <2>1. \A w \in Workers : worker[w].pc = "done" => worker[w].key \in Keys
    BY HeldKeyTyped
  <2> QED
    BY <1>2, <1>3, <1>6, <1>7, <2>1
       DEF Observe, IInv, ControllerInv, ReturnIsArranged, queueVars, workerVars
<1> QED
  BY <1>4, <1>5, <1>8, <1>9
     DEF Observe, IInv, ControllerInv, OnePassPerKey, Holds,
         BackoffIsBounded, QueueIsDirty, BusyWorkersHold, EndsInOrder,
         queueVars, objectVars, workerVars

(* Controller.Run changes its own state and shuts the queue, no more. *)
LEMMA RunKept ==
    ASSUME IInv, Start \/ Cancel \/ ShutDown \/ AllDone
    PROVE  IInv'
<1>1. UNCHANGED <<queue, dirty, processing, delayed, requeues, objectVars,
                  informerVars, workerVars>>
  BY DEF Start, Cancel, ShutDown, AllDone, queueVars
<1>2. /\ shut' = shut \/ run' = "cancelled"
      /\ shut' \in BOOLEAN
      /\ run' \in {"standby", "leading", "cancelled", "returned"}
      /\ run \in {"cancelled", "returned"} => run' \in {"cancelled", "returned"}
  BY DEF Start, Cancel, ShutDown, AllDone, queueVars, IInv, ControllerInv,
         TypeOK, QueueTypeOK
<1>3. TypeOK'
  BY <1>1, <1>2 DEF IInv, ControllerInv, TypeOK, QueueTypeOK, objectVars,
        informerVars, workerVars
<1>4. OnePassPerKey' /\ BackoffIsBounded' /\ BusyWorkersHold'
  BY <1>1 DEF IInv, ControllerInv, OnePassPerKey, Holds, BackoffIsBounded,
        BusyWorkersHold, workerVars
<1>5. QueueIsDirty'
  BY <1>1 DEF IInv, ControllerInv, QueueIsDirty
<1>6. MalformedDropped' /\ EndsInOrder'
  BY <1>1, <1>2 DEF IInv, ControllerInv, MalformedDropped, EndsInOrder,
        workerVars
<1>7. run' \in {"standby", "leading"} => run \in {"standby", "leading"}
  BY <1>2 DEF IInv, ControllerInv, TypeOK
<1>8. ReturnIsArranged' /\ NoKeyForgotten'
  BY <1>1, <1>7 DEF IInv, ControllerInv, ReturnIsArranged, NoKeyForgotten,
        informerVars, workerVars
<1> QED
  BY <1>3, <1>4, <1>5, <1>6, <1>8 DEF IInv, ControllerInv

-----------------------------------------------------------------------------
(* Steps that add a key. *)

(* Whoever calls Add changes the queue, dirty and perhaps delayed, notices *)
(* or writes: if a key that was waiting or announced is the added one, or  *)
(* still is, no key is forgotten.                                          *)
LEMMA AdderKept ==
    ASSUME IInv, NEW k \in Keys, Add(k),
           UNCHANGED <<processing, requeues, shut, live, cache, listed, run, workerVars>>,
           delayed' \subseteq delayed, delayed \subseteq delayed' \cup {k},
           notices' \in [Keys -> Nat],
           \A j \in Keys \ {k} : notices'[j] = notices[j],
           writes' \in Nat,
           run \in {"standby", "leading"} => ~shut
    PROVE  IInv'
<1>1. QueueTypeOK /\ QueueIsDirty
  BY DEF IInv, ControllerInv, TypeOK
<1>2. /\ queue' \in Seq(Keys) /\ dirty' \subseteq Keys /\ QueueIsDirty'
      /\ dirty \subseteq dirty'
      /\ shut \/ k \in dirty'
  BY <1>1, AddKeepsQueue
<1>3. TypeOK'
  BY <1>1, <1>2 DEF IInv, ControllerInv, TypeOK, QueueTypeOK, workerVars
<1>4. OnePassPerKey' /\ BackoffIsBounded' /\ BusyWorkersHold'
  BY DEF IInv, ControllerInv, OnePassPerKey, Holds, BackoffIsBounded,
         BusyWorkersHold, workerVars
<1>5. MalformedDropped' /\ EndsInOrder'
  BY DEF IInv, ControllerInv, MalformedDropped, EndsInOrder, workerVars
<1>6. run \in {"standby", "leading"} => k \in dirty'
  BY <1>2
<1>7. ReturnIsArranged'
  <2>1. \A w \in Workers : worker[w].pc = "done" => worker[w].key \in Keys
    BY HeldKeyTyped
  <2> QED
    BY <1>2, <1>6, <2>1 DEF IInv, ControllerInv, ReturnIsArranged, workerVars
<1>8. NoKeyForgotten'
  BY <1>2, <1>6 DEF IInv, NoKeyForgotten, Targets
<1> QED
  BY <1>2, <1>3, <1>4, <1>5, <1>7, <1>8 DEF IInv, ControllerInv

(* The handlers of the informers and the timers of AddAfter. *)
LEMMA EventsKept ==
    ASSUME IInv, NEW k \in Keys,
           \/ Notify(k) \/ DepEvent(k) \/ HPAEvent(k)
           \/ DelayElapsed(k) /\ UNCHANGED <<objectVars, informerVars, run, workerVars>>
    PROVE  IInv'
<1>1. run \in {"standby", "leading"} => ~shut
  BY DEF IInv, ControllerInv, EndsInOrder
<1>2. notices \in [Keys -> Nat] /\ writes \in Nat /\ delayed \subseteq Keys
  BY DEF IInv, ControllerInv, TypeOK, QueueTypeOK
<1>3. CASE Notify(k)
  <2>1. notices' \in [Keys -> Nat] /\ \A j \in Keys \ {k} : notices'[j] = notices[j]
    BY <1>2, <1>3 DEF Notify
  <2> QED
    BY <1>1, <1>2, <1>3, <2>1, AdderKept DEF Notify, objectVars
<1>4. CASE DepEvent(k)
  <2>1. writes' \in Nat
    BY <1>2, <1>4 DEF DepEvent, CountStray
  <2> QED
    BY <1>1, <1>2, <1>4, <2>1, AdderKept DEF DepEvent, informerVars
<1>5. CASE HPAEvent(k)
  <2>1. writes' \in Nat
    BY <1>2, <1>5 DEF HPAEvent, CountStray
  <2> QED
    BY <1>1, <1>2, <1>5, <2>1, AdderKept DEF HPAEvent, informerVars
<1>6. CASE DelayElapsed(k) /\ UNCHANGED <<objectVars, informerVars, run, workerVars>>
  BY <1>1, <1>2, <1>6, AdderKept DEF DelayElapsed, informerVars, objectVars
<1> QED
  BY <1>3, <1>4, <1>5, <1>6

-----------------------------------------------------------------------------
(* Steps of a worker. *)

(* Get: the key was dirty and not being processed, so no worker has it. *)
LEMMA WorkerGetKept ==
    ASSUME IInv, NEW w \in Workers, WorkerGet(w)
    PROVE  IInv'
<1>1. worker[w].pc = "idle" /\ worker[w].key = NoKey
  BY DEF WorkerGet, IInv, ControllerInv, BusyWorkersHold
<1>2. worker \in [Workers -> [pc : WorkerSteps, key : Keys \cup {NoKey},
                              read : Nat \X Nat, err : BOOLEAN]]
  BY DEF IInv, ControllerInv, TypeOK
<1>3. CASE \E k \in Keys :
             /\ Get(k)
             /\ worker' = [worker EXCEPT ![w] = [IdleWorker EXCEPT !.pc = "reconcile",
                                                             !.key = k]]
             /\ UNCHANGED <<delayed, requeues, shut>>
  <2> PICK k \in Keys :
             /\ Get(k)
             /\ worker' = [worker EXCEPT ![w] = [IdleWorker EXCEPT !.pc = "reconcile",
                                                             !.key = k]]
             /\ UNCHANGED <<delayed, requeues, shut>>
    BY <1>3
  <2>1. queue' \in Seq(Keys) /\ QueueIsDirty' /\ k \notin processing
    BY GetKeepsQueue DEF IInv, ControllerInv, TypeOK
  <2>2. worker'[w].pc = "reconcile" /\ worker'[w].key = k
        /\ \A v \in Workers \ {w} : worker'[v] = worker[v]
    BY <1>2 DEF IdleWorker
  <2>3. TypeOK'
    <3>1. [IdleWorker EXCEPT !.pc = "reconcile", !.key = k] \in
             [pc : WorkerSteps, key : Keys \cup {NoKey},
              read : Nat \X Nat, err : BOOLEAN]
      BY DEF IdleWorker, WorkerSteps, None
    <3> QED
      BY <1>2, <2>1, <3>1 DEF WorkerGet, Get, IInv, ControllerInv, TypeOK,
            QueueTypeOK, objectVars, informerVars
  <2>4. OnePassPerKey'
    BY <1>1, <2>1, <2>2, NoKeyAssumption
       DEF Get, IInv, ControllerInv, OnePassPerKey, Holds
  <2>5. BusyWorkersHold'
    BY <2>2, NoKeyAssumption DEF IInv, ControllerInv, BusyWorkersHold
  <2>6. BackoffIsBounded' /\ MalformedDropped'
    BY <2>2 DEF WorkerGet, IInv, ControllerInv, BackoffIsBounded, MalformedDropped
  <2>7. EndsInOrder'
    BY <2>2 DEF WorkerGet, IInv, ControllerInv, EndsInOrder
  <2>8. ReturnIsArranged'
    <3> SUFFICES ASSUME NEW v \in Workers, run \in {"standby", "leading"},
                        worker'[v].pc = "done", worker'[v].key \in Targets,
                        cache[worker'[v].key] # None
                 PROVE  \/ worker'[v].key \in dirty' \cup delayed
                        \/ notices[worker'[v].key] > 0
      BY DEF WorkerGet, ReturnIsArranged, informerVars
    <3>1. v # w /\ worker'[v] = worker[v]
      BY <2>2
    <3>2. worker[v].key \in processing
      BY <3>1, HeldKeyTyped
    <3> QED
      BY <2>1, <3>1, <3>2 DEF Get, IInv, ControllerInv, ReturnIsArranged
  <2>9. NoKeyForgotten'
    BY DEF WorkerGet, Get, IInv, NoKeyForgotten, informerVars
  <2> QED
    BY <2>1, <2>3, <2>4, <2>5, <2>6, <2>7, <2>8, <2>9 DEF IInv, ControllerInv
<1>4. CASE /\ queue = <<>> /\ shut
           /\ worker' = [worker EXCEPT ![w].pc = "exited"]
           /\ UNCHANGED queueVars
  <2>1. /\ worker'[w].pc = "exited"
        /\ \A v \in Workers : worker'[v].key = worker[v].key
        /\ \A v \in Workers \ {w} : worker'[v] = worker[v]
    BY <1>2, <1>4
  <2>2. TypeOK'
    <3>1. worker' \in [Workers -> [pc : WorkerSteps, key : Keys \cup {NoKey},
                                   read : Nat \X Nat, err : BOOLEAN]]
      BY <1>2, <1>4 DEF WorkerSteps
    <3> QED
      BY <1>4, <3>1 DEF WorkerGet, IInv, ControllerInv, TypeOK, QueueTypeOK,
            queueVars, objectVars, informerVars
  <2>3. BusyWorkersHold'
    BY <1>1, <2>1 DEF IInv, ControllerInv, BusyWorkersHold
  <2>4. ReturnIsArranged' /\ EndsInOrder'
    BY <1>4, <2>1 DEF WorkerGet, IInv, ControllerInv, ReturnIsArranged,
          EndsInOrder, queueVars, informerVars
  <2>5. MalformedDropped'
    <3>1. worker'[w].key \notin Malformed
      BY <1>1, <2>1, NoKeyAssumption, MalformedAssumption
    <3> QED
      BY <1>4, <2>1, <3>1 DEF WorkerGet, IInv, ControllerInv, MalformedDropped, queueVars
  <2> QED
    BY <1>4, <2>1, <2>2, <2>3, <2>4, <2>5
       DEF WorkerGet, IInv, ControllerInv, OnePassPerKey, Holds, QueueIsDirty,
           BackoffIsBounded, NoKeyForgotten, queueVars, objectVars, informerVars
<1> QED
  BY <1>3, <1>4 DEF WorkerGet

(* What the three steps between Get and Done have in common: the worker    *)
(* keeps its key and the queue keeps all of its own.                       *)
Between(w) ==
    /\ worker[w].pc \notin {"idle", "exited"}
    /\ UNCHANGED <<queue, dirty, processing, shut, objectVars, informerVars, run>>
    /\ worker' \in [Workers -> [pc : WorkerSteps, key : Keys \cup {NoKey},
                                read : Nat \X Nat, err : BOOLEAN]]
    /\ worker'[w].pc \notin {"idle", "exited"}
    /\ worker'[w].key = worker[w].key
    /\ \A v \in Workers \ {w} : worker'[v] = worker[v]
    /\ applied' \in [Keys -> Nat \X Nat]
    /\ errors' \in Nat
    /\ requeues' \in [Keys -> Nat]
    /\ BackoffIsBounded'
    /\ delayed \subseteq delayed' /\ delayed' \subseteq Keys
    /\ worker'[w].pc = "leave" => run \in {"cancelled", "returned"}
    /\ MalformedDropped'

(* Such a step keeps the invariant if it goes on to Done only when the key *)
(* will come back.                                                         *)
LEMMA BetweenKept ==
    ASSUME IInv, NEW w \in Workers, Between(w),
           (/\ run \in {"standby", "leading"} /\ worker'[w].pc = "done"
            /\ worker[w].key \in Targets) =>
              (cache[worker[w].key] # None => worker[w].key \in delayed')
    PROVE  IInv'
<1>1. TypeOK'
  BY DEF Between, IInv, ControllerInv, TypeOK, QueueTypeOK, objectVars, informerVars
<1>2. \A v \in Workers : worker'[v].key = worker[v].key
  BY DEF Between
<1>3. OnePassPerKey'
  <2>1. processing' = processing
    BY DEF Between
  <2> QED
    BY <1>2, <2>1 DEF IInv, ControllerInv, OnePassPerKey, Holds
<1>4. QueueIsDirty' /\ MalformedDropped'
  BY DEF Between, IInv, ControllerInv, QueueIsDirty
<1>5. BusyWorkersHold'
  BY DEF Between, IInv, ControllerInv, BusyWorkersHold
<1>6. EndsInOrder'
  BY DEF Between, IInv, ControllerInv, EndsInOrder
<1>7. ReturnIsArranged'
  <2> SUFFICES ASSUME NEW v \in Workers, run \in {"standby", "leading"},
                      worker'[v].pc = "done", worker'[v].key \in Targets,
                      cache[worker'[v].key] # None
               PROVE  \/ worker'[v].key \in dirty \cup delayed'
                      \/ notices[worker'[v].key] > 0
    BY DEF ReturnIsArranged, Between, informerVars
  <2>1. CASE v = w
    BY <2>1 DEF Between
  <2>2. CASE v # w
    BY <2>2 DEF Between, IInv, ControllerInv, ReturnIsArranged
  <2> QED
    BY <2>1, <2>2
<1>8. NoKeyForgotten'
  BY DEF Between, IInv, NoKeyForgotten, informerVars
<1> QED
  BY <1>1, <1>3, <1>4, <1>5, <1>6, <1>7, <1>8 DEF IInv, ControllerInv, Between

(* process drops a key that is no target, whether or not an intent has that *)
(* name: nothing was promised of it.                                       *)
LEMMA WorkerRejectsKept ==
    ASSUME IInv, NEW w \in Workers, WorkerRejects(w)
    PROVE  IInv'
<1>1. worker \in [Workers -> [pc : WorkerSteps, key : Keys \cup {NoKey},
                              read : Nat \X Nat, err : BOOLEAN]]
      /\ worker' = [worker EXCEPT ![w].pc = "done"]
      /\ worker[w].pc = "reconcile"
  BY DEF WorkerRejects, IInv, ControllerInv, TypeOK
<1>2. worker' \in [Workers -> [pc : WorkerSteps, key : Keys \cup {NoKey},
                               read : Nat \X Nat, err : BOOLEAN]]
      /\ worker'[w].pc = "done" /\ worker'[w].key = worker[w].key
      /\ \A v \in Workers \ {w} : worker'[v] = worker[v]
  BY <1>1 DEF WorkerSteps
<1>3. requeues' \in [Keys -> Nat] /\ BackoffIsBounded'
  <2>1. requeues \in [Keys -> Nat] /\ requeues' = [requeues EXCEPT ![worker[w].key] = 0]
    BY DEF WorkerRejects, Forget, IInv, ControllerInv, TypeOK, QueueTypeOK
  <2>2. 0 <= MaxRequeues
    BY MaxRequeuesAssumption
  <2> QED
    BY <2>1, <2>2 DEF IInv, ControllerInv, BackoffIsBounded
<1>4. MalformedDropped'
  <2>1. requeues \in [Keys -> Nat] /\ requeues' = [requeues EXCEPT ![worker[w].key] = 0]
    BY DEF WorkerRejects, Forget, IInv, ControllerInv, TypeOK, QueueTypeOK
  <2>2. \A k \in Malformed : requeues'[k] = 0
    BY <2>1, MalformedAssumption DEF IInv, ControllerInv, MalformedDropped
  <2> QED
    BY <1>2, <2>2 DEF WorkerRejects, IInv, ControllerInv, MalformedDropped
<1>5. Between(w)
  BY <1>1, <1>2, <1>3, <1>4
     DEF Between, WorkerRejects, IInv, ControllerInv, TypeOK, QueueTypeOK
<1>6. worker[w].key \notin Targets
  BY DEF WorkerRejects, Targets
<1> QED
  BY <1>5, <1>6, BetweenKept

(* The pass: whatever it reads and however it ends. *)
LEMMA WorkerReconcileKept ==
    ASSUME IInv, NEW w \in Workers, WorkerReconcile(w)
    PROVE  IInv'
<1>1. worker \in [Workers -> [pc : WorkerSteps, key : Keys \cup {NoKey},
                              read : Nat \X Nat, err : BOOLEAN]]
      /\ worker[w].pc = "reconcile" /\ errors \in Nat
  BY DEF WorkerReconcile, IInv, ControllerInv, TypeOK
<1>2. worker[w].key \in Keys /\ live[worker[w].key] \in Nat \X Nat
  BY <1>1, HeldKeyTyped DEF IInv, ControllerInv, TypeOK
<1>3. \/ worker' = [worker EXCEPT ![w].pc = "finish",
                                  ![w].read = live[worker[w].key]]
      \/ worker' = [worker EXCEPT ![w].pc = "finish", ![w].err = TRUE]
  BY DEF WorkerReconcile
<1>4. worker' \in [Workers -> [pc : WorkerSteps, key : Keys \cup {NoKey},
                               read : Nat \X Nat, err : BOOLEAN]]
      /\ worker'[w].pc = "finish" /\ worker'[w].key = worker[w].key
      /\ \A v \in Workers \ {w} : worker'[v] = worker[v]
  BY <1>1, <1>2, <1>3 DEF WorkerSteps
<1>5. errors' \in Nat
  BY <1>1 DEF WorkerReconcile
<1>6. BackoffIsBounded'
  BY DEF WorkerReconcile, IInv, ControllerInv, BackoffIsBounded, queueVars
<1>7. MalformedDropped'
  BY <1>4 DEF WorkerReconcile, IInv, ControllerInv, MalformedDropped, queueVars
<1>8. Between(w)
  BY <1>1, <1>4, <1>5, <1>6, <1>7
     DEF Between, WorkerReconcile, IInv, ControllerInv, TypeOK, QueueTypeOK, queueVars
<1> QED
  BY <1>4, <1>8, BetweenKept

(* After the pass, the key of an intent is put aside for a minute, for 30  *)
(* seconds or for its backoff, and its failures stay within the bound.     *)
LEMMA WorkerFinishKept ==
    ASSUME IInv, NEW w \in Workers, WorkerFinish(w)
    PROVE  IInv'
<1> DEFINE k == worker[w].key
<1>1. worker \in [Workers -> [pc : WorkerSteps, key : Keys \cup {NoKey},
                              read : Nat \X Nat, err : BOOLEAN]]
      /\ worker' = [worker EXCEPT ![w] = [IdleWorker EXCEPT
            !.pc = IF run = "cancelled" THEN "leave" ELSE "done", !.key = k]]
      /\ worker[w].pc = "finish" /\ worker[w].key \notin Malformed
  BY DEF WorkerFinish, IInv, ControllerInv, TypeOK, MalformedDropped
<1>2. k \in Keys /\ requeues \in [Keys -> Nat] /\ worker[w].read \in Nat \X Nat
  BY <1>1, HeldKeyTyped DEF IInv, ControllerInv, TypeOK, QueueTypeOK
<1>3. worker' \in [Workers -> [pc : WorkerSteps, key : Keys \cup {NoKey},
                               read : Nat \X Nat, err : BOOLEAN]]
      /\ worker'[w].pc = (IF run = "cancelled" THEN "leave" ELSE "done")
      /\ worker'[w].key = worker[w].key
      /\ \A v \in Workers \ {w} : worker'[v] = worker[v]
  <2>1. None \in Nat \X Nat
    BY DEF None
  <2>2. [IdleWorker EXCEPT !.pc = IF run = "cancelled" THEN "leave" ELSE "done", !.key = k]
          \in [pc : WorkerSteps, key : Keys \cup {NoKey}, read : Nat \X Nat, err : BOOLEAN]
    BY <1>2, <2>1 DEF IdleWorker, WorkerSteps
  <2> QED
    BY <1>1, <2>2 DEF IdleWorker
<1>4. \/ requeues' = [requeues EXCEPT ![k] = 0]
      \/ requeues[k] < MaxRequeues /\ requeues' = [requeues EXCEPT ![k] = requeues[k] + 1]
  BY DEF WorkerFinish, Forget, AddRateLimited
<1>5. requeues' \in [Keys -> Nat]
  BY <1>2, <1>4
<1>6. BackoffIsBounded'
  BY <1>2, <1>4, MaxRequeuesAssumption DEF IInv, ControllerInv, BackoffIsBounded
<1>7. applied' \in [Keys -> Nat \X Nat]
  BY <1>2 DEF WorkerFinish, IInv, ControllerInv, TypeOK
<1>8. delayed' = delayed \/ delayed' = delayed \cup {k}
  BY DEF WorkerFinish, AddAfter, AddRateLimited
<1>9. Between(w)
  <2>1. delayed \subseteq delayed' /\ delayed' \subseteq Keys
    BY <1>2, <1>8 DEF IInv, ControllerInv, TypeOK, QueueTypeOK
  <2>2. worker'[w].pc \notin {"idle", "exited"}
        /\ (worker'[w].pc = "leave" => run \in {"cancelled", "returned"})
    BY <1>3
  <2>3. errors' \in Nat
    BY DEF WorkerFinish, IInv, ControllerInv, TypeOK
  <2>4. UNCHANGED <<queue, dirty, processing, shut, objectVars, informerVars, run>>
    BY DEF WorkerFinish
  <2>5. MalformedDropped'
    <3>1. \A j \in Keys \ {k} : requeues'[j] = requeues[j] /\ applied'[j] = applied[j]
      BY <1>2, <1>4 DEF WorkerFinish, IInv, ControllerInv, TypeOK
    <3>2. \A v \in Workers : worker'[v].key \in Malformed => worker'[v] = worker[v]
      BY <1>1, <1>3
    <3> QED
      BY <1>1, <1>8, <3>1, <3>2, MalformedAssumption
         DEF IInv, ControllerInv, MalformedDropped
  <2> QED
    BY <1>1, <1>3, <1>5, <1>6, <1>7, <2>1, <2>2, <2>3, <2>4, <2>5 DEF Between
<1>10. ASSUME run \in {"standby", "leading"}, cache[k] # None
       PROVE  k \in delayed'
  <2>1. ~shut
    BY <1>10 DEF IInv, ControllerInv, EndsInOrder
  <2> QED
    BY <1>10, <2>1 DEF WorkerFinish, AddAfter, AddRateLimited
<1> QED
  BY <1>9, <1>10, BetweenKept

(* Done gives up the key; what was arranged before stays. *)
LEMMA WorkerDoneKept ==
    ASSUME IInv, NEW w \in Workers, WorkerDone(w)
    PROVE  IInv'
<1> DEFINE k == worker[w].key
           pc == IF worker[w].pc = "leave" THEN "exited" ELSE "idle"
<1>1. worker \in [Workers -> [pc : WorkerSteps, key : Keys \cup {NoKey},
                              read : Nat \X Nat, err : BOOLEAN]]
      /\ worker' = [worker EXCEPT ![w] = [IdleWorker EXCEPT !.pc = pc]]
      /\ worker[w].pc \in {"done", "leave"}
  BY DEF WorkerDone, IInv, ControllerInv, TypeOK
<1>2. k \in Keys /\ k \in processing
  BY <1>1, HeldKeyTyped
<1>3. [IdleWorker EXCEPT !.pc = pc] \in
         [pc : WorkerSteps, key : Keys \cup {NoKey}, read : Nat \X Nat, err : BOOLEAN]
  BY DEF IdleWorker, WorkerSteps, None
<1>4. /\ worker'[w].pc = pc /\ worker'[w].key = NoKey
      /\ \A v \in Workers \ {w} : worker'[v] = worker[v]
  BY <1>1 DEF IdleWorker
<1>5. queue' \in Seq(Keys) /\ QueueIsDirty'
  BY <1>2, DoneKeepsQueue DEF WorkerDone, IInv, ControllerInv, TypeOK
<1>6. TypeOK'
  <2>1. worker' \in [Workers -> [pc : WorkerSteps, key : Keys \cup {NoKey},
                                 read : Nat \X Nat, err : BOOLEAN]]
    BY <1>1, <1>3
  <2> QED
    BY <1>5, <2>1 DEF WorkerDone, Done, IInv, ControllerInv, TypeOK,
          QueueTypeOK, objectVars, informerVars
<1>7. OnePassPerKey'
  BY <1>2, <1>4, NoKeyAssumption
     DEF WorkerDone, Done, IInv, ControllerInv, OnePassPerKey, Holds
<1>8. BusyWorkersHold'
  BY <1>4 DEF IInv, ControllerInv, BusyWorkersHold
<1>9. BackoffIsBounded' /\ MalformedDropped'
  <2>1. worker'[w].key \notin Malformed
    BY <1>4, NoKeyAssumption, MalformedAssumption
  <2> QED
    BY <1>4, <2>1 DEF WorkerDone, IInv, ControllerInv, BackoffIsBounded, MalformedDropped
<1>10. EndsInOrder' /\ ReturnIsArranged'
  BY <1>4 DEF WorkerDone, IInv, ControllerInv, EndsInOrder, ReturnIsArranged, informerVars
<1>11. NoKeyForgotten'
  <2> SUFFICES ASSUME NEW j \in Targets, run \in {"standby", "leading"}, cache[j] # None
               PROVE  j \in dirty \cup processing' \cup delayed \/ notices[j] > 0
    BY DEF WorkerDone, NoKeyForgotten, informerVars
  <2>1. CASE j = k
    <3>1. worker[w].pc = "done"
      BY <1>1 DEF IInv, ControllerInv, EndsInOrder
    <3> QED
      BY <2>1, <3>1 DEF IInv, ControllerInv, ReturnIsArranged
  <2>2. CASE j # k
    BY <2>2 DEF WorkerDone, Done, IInv, NoKeyForgotten
  <2> QED
    BY <2>1, <2>2
<1> QED
  BY <1>5, <1>6, <1>7, <1>8, <1>9, <1>10, <1>11 DEF IInv, ControllerInv

-----------------------------------------------------------------------------
(* Every step keeps the invariant. *)
LEMMA NextInv == IInv /\ [Next]_vars => IInv'
<1> SUFFICES ASSUME IInv, [Next]_vars PROVE IInv'
  OBVIOUS
<1>1. CASE InitialList
  BY <1>1, InitialListKept
<1>2. CASE Start \/ Cancel \/ ShutDown \/ AllDone
  BY <1>2, RunKept
<1>3. ASSUME NEW k \in Keys, WriteIntent(k) \/ Observe(k)
      PROVE  IInv'
  BY <1>3, WriteIntentKept, ObserveKept
<1>4. ASSUME NEW k \in Keys,
             \/ Notify(k) \/ DepEvent(k) \/ HPAEvent(k)
             \/ DelayElapsed(k) /\ UNCHANGED <<objectVars, informerVars, run, workerVars>>
      PROVE  IInv'
  BY <1>4, EventsKept
<1>5. ASSUME NEW w \in Workers, WorkerNext(w)
      PROVE  IInv'
  BY <1>5, WorkerGetKept, WorkerRejectsKept, WorkerReconcileKept,
     WorkerFinishKept, WorkerDoneKept DEF WorkerNext
<1>6. CASE UNCHANGED vars
  <2>1. TypeOK' /\ BackoffIsBounded' /\ QueueIsDirty' /\ MalformedDropped'
    BY <1>6 DEF vars, queueVars, objectVars, informerVars, workerVars, IInv,
          ControllerInv, TypeOK, QueueTypeOK, BackoffIsBounded, QueueIsDirty,
          MalformedDropped
  <2>2. OnePassPerKey' /\ BusyWorkersHold' /\ EndsInOrder'
    BY <1>6 DEF vars, queueVars, workerVars, IInv, ControllerInv,
          OnePassPerKey, Holds, BusyWorkersHold, EndsInOrder
  <2>3. ReturnIsArranged' /\ NoKeyForgotten'
    BY <1>6 DEF vars, queueVars, informerVars, workerVars, IInv, ControllerInv,
          ReturnIsArranged, NoKeyForgotten
  <2> QED
    BY <2>1, <2>2, <2>3 DEF IInv, ControllerInv
<1> QED
  BY <1>1, <1>2, <1>3, <1>4, <1>5, <1>6 DEF Next

(* The work queue hands a key to one worker at a time, every Get is        *)
(* balanced by a Done, a failing target is retried with backoff at most    *)
(* MaxRequeues times in a row, and a key that ParseKey rejects is dropped  *)
(* each time it comes: ControllerInv in every reachable state.             *)
THEOREM OnePass == Spec => []ControllerInv
<1>1. IInv => ControllerInv
  BY DEF IInv
<1> QED
  BY InitInv, NextInv, <1>1, PTL DEF Spec

(* Until the context of Controller.Run ends, a target (a key that ParseKey *)
(* accepts) whose intent the indexer knows is queued, being processed,     *)
(* waiting for its requeue or about to be announced: whatever event is     *)
(* missed, a pass follows.  Intents under other names are in the model too;*)
(* that they are dropped is part of OnePass.                               *)
THEOREM NothingForgotten == Spec => []NoKeyForgotten
<1>1. IInv => NoKeyForgotten
  BY DEF IInv
<1> QED
  BY InitInv, NextInv, <1>1, PTL DEF Spec
=============================================================================
