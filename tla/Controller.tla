----------------------------- MODULE Controller -----------------------------
(***************************************************************************)
(* internal/controller: informer handlers put target keys into the work    *)
(* queue, two workers take them out and run a reconciliation pass for each.*)
(*                                                                         *)
(* What a pass does is the business of module Reconcile; here it reads the *)
(* live intent once, takes a while, and returns nil or an error.  An       *)
(* intent is represented by the two things the handlers look at: which     *)
(* object it is (uid) and its generation; <<0, 0>> stands for none.        *)
(***************************************************************************)
EXTENDS WorkQueue

CONSTANTS
    Workers,        \* two in the code
    NoKey,          \* the key of an idle worker
    Malformed,      \* keys that ParseKey rejects
    MaxRequeues,    \* failures before a key waits a whole minute (8 in the code)
    MaxWrites,      \* BOUND: writes of intents, and of the other objects that
                    \* name a malformed key
    MaxErrors       \* BOUND: passes that fail

ASSUME NoKeyAssumption == NoKey \notin Keys
ASSUME MalformedAssumption == Malformed \subseteq Keys
ASSUME MaxRequeuesAssumption == MaxRequeues \in Nat
ASSUME MaxWritesAssumption == MaxWrites \in Nat
ASSUME MaxErrorsAssumption == MaxErrors \in Nat

(* The other keys.  The API server and the CRD bound the length of a name  *)
(* but not of its labels, and Target.Validate refuses a label of more than *)
(* 63 characters: an intent, a Deployment or an HPA may well have a name   *)
(* that is no target's.                                                    *)
Targets == Keys \ Malformed

None == <<0, 0>>

VARIABLES
    live,       \* live[k]: the intent in the API server
    cache,      \* cache[k]: the intent in the informer's indexer
    listed,     \* the informers have completed their initial list
    notices,    \* notices[k]: notifications of k that the handler will enqueue
    run,        \* "standby", "leading", "cancelled" or "returned": Controller.Run
    worker,     \* worker[w]: what the worker does, for which key
    applied,    \* applied[k]: the intent that the last successful pass read
    writes,     \* such writes so far
    errors      \* failed passes so far

objectVars == <<live, writes>>
informerVars == <<cache, listed, notices>>
workerVars == <<worker, applied, errors>>
vars == <<queueVars, objectVars, informerVars, run, workerVars>>

(* "leave": process is about to return false. *)
WorkerSteps == {"idle", "reconcile", "finish", "done", "leave", "exited"}

(* key is held from Get to Done; read is the intent the pass read and err  *)
(* tells whether Reconcile returned an error.                              *)
IdleWorker == [pc |-> "idle", key |-> NoKey, read |-> None, err |-> FALSE]

-----------------------------------------------------------------------------
(* The API server. *)

(* Somebody creates, deletes or changes the spec of an intent, of whatever *)
(* name.  A new object has a new uid and generation 1.                     *)
WriteIntent(k) ==
    /\ writes < MaxWrites
    /\ writes' = writes + 1
    /\ \/ live[k] = None /\ live' = [live EXCEPT ![k] = <<writes + 2, 1>>]
       \/ live[k] # None /\ live' = [live EXCEPT ![k] = None]
       \/ live[k] # None /\ live' = [live EXCEPT ![k] = <<@[1], @[2] + 1>>]
    /\ UNCHANGED <<queueVars, informerVars, run, workerVars>>

-----------------------------------------------------------------------------
(* Informers.  The indexer is updated first and the handler is told later. *)

(* Which change of the indexer the intent handler enqueues: an Add, a      *)
(* Delete, or an Update of the generation (setting deletionTimestamp also  *)
(* moves it, so this is the whole condition of UpdateFunc).  An object     *)
(* that was deleted and created again while the watch was down arrives as  *)
(* one Update between two objects of generation 1, and is not enqueued.    *)
Enqueues(old, new) ==
    IF old # None /\ new # None THEN old[2] # new[2] ELSE TRUE

(* The initial list fills the indexer and announces what it found. *)
InitialList ==
    /\ ~listed
    /\ listed' = TRUE
    /\ cache' = live
    /\ notices' = [k \in Keys |-> IF live[k] # None THEN 1 ELSE 0]
    /\ UNCHANGED <<queueVars, objectVars, run, workerVars>>

(* The watch, or a relist after it was lost, brings the indexer up to date.*)
Observe(k) ==
    /\ listed
    /\ cache[k] # live[k]
    /\ cache' = [cache EXCEPT ![k] = live[k]]
    /\ notices' = [notices EXCEPT
          ![k] = @ + (IF Enqueues(cache[k], live[k]) THEN 1 ELSE 0)]
    /\ UNCHANGED <<queueVars, objectVars, listed, run, workerVars>>

(* Mutant of Notify: the handler runs for an event that never came. *)
NotifyUnprompted(k) ==
    /\ notices' = [notices EXCEPT ![k] = @ - 1]
    /\ Add(k)
    /\ UNCHANGED <<processing, delayed, requeues, shut, cache, listed,
                   objectVars, run, workerVars>>

(* The intent handler runs: AddFunc, DeleteFunc or UpdateFunc. *)
Notify(k) ==
    /\ notices[k] > 0
    /\ notices' = [notices EXCEPT ![k] = @ - 1]
    /\ Add(k)
    /\ UNCHANGED <<processing, delayed, requeues, shut, cache, listed,
                   objectVars, run, workerVars>>

(* The bound on changes of Deployments and HPAs under malformed keys. *)
CountStray(k) ==
    /\ k \in Malformed => writes < MaxWrites
    /\ writes' = IF k \in Malformed THEN writes + 1 ELSE writes

(* A Deployment changed: depEvent looks the key up in the intent indexer.  *)
DepEvent(k) ==
    /\ cache[k] # None
    /\ CountStray(k)
    /\ Add(k)
    /\ UNCHANGED <<processing, delayed, requeues, shut, informerVars,
                   live, run, workerVars>>

(* An HPA changed: hpaEvent enqueues what it scales without looking. *)
HPAEvent(k) ==
    /\ CountStray(k)
    /\ Add(k)
    /\ UNCHANGED <<processing, delayed, requeues, shut, informerVars,
                   live, run, workerVars>>

-----------------------------------------------------------------------------
(* Controller.Run. *)

(* This process is elected; the workers start once the caches are synced.  *)
Start ==
    /\ run = "standby"
    /\ listed
    /\ run' = "leading"
    /\ UNCHANGED <<queueVars, objectVars, informerVars, workerVars>>

(* The context ends: leadership is lost or the server shuts down.  Before  *)
(* the caches are synced, Run returns without having started a worker.     *)
Cancel ==
    /\ run \in {"standby", "leading"}
    /\ run' = IF run = "leading" THEN "cancelled" ELSE "returned"
    /\ UNCHANGED <<queueVars, objectVars, informerVars, workerVars>>

(* Mutant of ShutDown: Run waits for its workers before it shuts the queue. *)
ShutDownLate ==
    /\ run = "cancelled"
    /\ ~shut
    /\ \A w \in Workers : worker[w].pc = "exited"
    /\ shut' = TRUE
    /\ UNCHANGED <<queue, dirty, processing, delayed, requeues, objectVars,
                   informerVars, run, workerVars>>

ShutDown ==
    /\ run = "cancelled"
    /\ ~shut
    /\ shut' = TRUE
    /\ UNCHANGED <<queue, dirty, processing, delayed, requeues, objectVars,
                   informerVars, run, workerVars>>

(* workers.Wait *)
AllDone ==
    /\ run = "cancelled"
    /\ shut
    /\ \A w \in Workers : worker[w].pc = "exited"
    /\ run' = "returned"
    /\ UNCHANGED <<queueVars, objectVars, informerVars, workerVars>>

-----------------------------------------------------------------------------
(* Controller.process, by worker w. *)

(* queue.Get blocks while there is nothing to do; once the queue is shut   *)
(* down and empty, the worker leaves.                                      *)
WorkerGet(w) ==
    /\ run \in {"leading", "cancelled"}
    /\ worker[w].pc = "idle"
    /\ \/ \E k \in Keys :
             /\ Get(k)
             /\ worker' = [worker EXCEPT ![w] = [IdleWorker EXCEPT !.pc = "reconcile",
                                                             !.key = k]]
             /\ UNCHANGED <<delayed, requeues, shut>>
       \/ /\ queue = <<>> /\ shut
          /\ worker' = [worker EXCEPT ![w].pc = "exited"]
          /\ UNCHANGED queueVars
    /\ UNCHANGED <<objectVars, informerVars, run, applied, errors>>

(* Mutant of WorkerRejects: the key is retried like one that failed. *)
WorkerRejectsRetries(w) ==
    /\ worker[w].pc = "reconcile" /\ worker[w].key \in Malformed
    /\ AddRateLimited(worker[w].key)
    /\ worker' = [worker EXCEPT ![w].pc = "done"]
    /\ UNCHANGED <<queue, dirty, processing, shut, objectVars,
                   informerVars, run, applied, errors>>

(* A key that is no target is dropped, even if an intent has that name;    *)
(* the worker goes on.                                                     *)
WorkerRejects(w) ==
    /\ worker[w].pc = "reconcile" /\ worker[w].key \in Malformed
    /\ Forget(worker[w].key)
    /\ worker' = [worker EXCEPT ![w].pc = "done"]
    /\ UNCHANGED <<queue, dirty, processing, delayed, shut, objectVars,
                   informerVars, run, applied, errors>>

(* Reconcile reads the intent and returns within its ten seconds, or fails;*)
(* a pass whose context has ended mostly fails.                            *)
WorkerReconcile(w) ==
    /\ worker[w].pc = "reconcile" /\ worker[w].key \notin Malformed
    /\ \/ /\ worker' = [worker EXCEPT ![w].pc = "finish",
                                      ![w].read = live[worker[w].key]]
          /\ UNCHANGED errors
       \/ /\ errors < MaxErrors \/ run = "cancelled"
          /\ worker' = [worker EXCEPT ![w].pc = "finish", ![w].err = TRUE]
          /\ errors' = IF run = "leading" THEN errors + 1 ELSE errors
    /\ UNCHANGED <<queueVars, objectVars, informerVars, run, applied>>

(* Mutants of WorkerFinish: the key of a successful pass is not requeued;  *)
(* one failure too many is retried with backoff.                           *)
WorkerFinishNoResync(w) ==
    LET k == worker[w].key IN
    /\ worker[w].pc = "finish"
    /\ IF run = "leading" /\ worker[w].err
       THEN AddRateLimited(k) /\ UNCHANGED applied
       ELSE /\ Forget(k)
            /\ applied' = IF run = "leading" THEN [applied EXCEPT ![k] = worker[w].read]
                                             ELSE applied
            /\ UNCHANGED delayed
    /\ worker' = [worker EXCEPT
          ![w].pc = IF run = "cancelled" THEN "leave" ELSE "done"]
    /\ UNCHANGED <<queue, dirty, processing, shut, objectVars, informerVars,
                   run, errors>>

WorkerFinishOneMore(w) ==
    LET k == worker[w].key IN
    /\ worker[w].pc = "finish"
    /\ IF run = "leading" /\ worker[w].err /\ requeues[k] <= MaxRequeues
       THEN AddRateLimited(k)
       ELSE Forget(k) /\ AddAfter(k)
    /\ worker' = [worker EXCEPT ![w].pc = "done"]
    /\ UNCHANGED <<queue, dirty, processing, shut, objectVars, informerVars,
                   run, errors, applied>>

(* What becomes of the key after the pass. *)
WorkerFinish(w) ==
    LET k == worker[w].key IN
    /\ worker[w].pc = "finish"
    /\ \/ /\ run = "cancelled"
          /\ Forget(k)
          /\ UNCHANGED <<delayed, applied>>
       \/ /\ run = "leading" /\ worker[w].err /\ requeues[k] < MaxRequeues
          /\ AddRateLimited(k)
          /\ UNCHANGED applied
       \/ /\ run = "leading" /\ worker[w].err /\ requeues[k] >= MaxRequeues
          /\ Forget(k)
          /\ AddAfter(k)
          /\ UNCHANGED applied
       \/ /\ run = "leading" /\ ~worker[w].err
          /\ Forget(k)
          /\ applied' = [applied EXCEPT ![k] = worker[w].read]
          /\ IF cache[k] # None THEN AddAfter(k) ELSE UNCHANGED delayed
    /\ worker' = [worker EXCEPT ![w] = [IdleWorker EXCEPT
          !.pc = IF run = "cancelled" THEN "leave" ELSE "done", !.key = k]]
    /\ UNCHANGED <<queue, dirty, processing, shut, objectVars, informerVars,
                   run, errors>>

(* Mutant of WorkerDone: a worker that leaves does not call Done. *)
WorkerDoneUnbalanced(w) ==
    /\ worker[w].pc \in {"done", "leave"}
    /\ IF worker[w].pc = "done" THEN Done(worker[w].key)
                                ELSE UNCHANGED <<processing, queue>>
    /\ worker' = [worker EXCEPT ![w] = [IdleWorker EXCEPT
          !.pc = IF worker[w].pc = "leave" THEN "exited" ELSE "idle"]]
    /\ UNCHANGED <<dirty, delayed, requeues, shut, objectVars, informerVars,
                   run, applied, errors>>

(* The deferred Done, then the next round or the end of the worker. *)
WorkerDone(w) ==
    /\ worker[w].pc \in {"done", "leave"}
    /\ Done(worker[w].key)
    /\ worker' = [worker EXCEPT ![w] = [IdleWorker EXCEPT
          !.pc = IF worker[w].pc = "leave" THEN "exited" ELSE "idle"]]
    /\ UNCHANGED <<dirty, delayed, requeues, shut, objectVars, informerVars,
                   run, applied, errors>>

WorkerNext(w) ==
    WorkerGet(w) \/ WorkerRejects(w) \/ WorkerReconcile(w) \/ WorkerFinish(w) \/ WorkerDone(w)

-----------------------------------------------------------------------------
(* When the process starts, every target has an intent of uid 1 and no     *)
(* malformed key has one; the first write can bring about the opposite.    *)
Init ==
    /\ QueueInit
    /\ live = [k \in Keys |-> IF k \in Targets THEN <<1, 1>> ELSE None]
    /\ cache = [k \in Keys |-> None]
    /\ listed = FALSE
    /\ notices = [k \in Keys |-> 0]
    /\ run = "standby"
    /\ worker = [w \in Workers |-> IdleWorker]
    /\ applied = [k \in Keys |-> None]
    /\ writes = 0
    /\ errors = 0

Next ==
    \/ InitialList \/ Start \/ Cancel \/ ShutDown \/ AllDone
    \/ \E k \in Keys :
          \/ WriteIntent(k) \/ Observe(k) \/ Notify(k)
          \/ DepEvent(k) \/ HPAEvent(k)
          \/ DelayElapsed(k) /\ UNCHANGED <<objectVars, informerVars, run, workerVars>>
    \/ \E w \in Workers : WorkerNext(w)

Spec == Init /\ [][Next]_vars

(* Informers and timers run, a started worker goes on (every pass has a    *)
(* deadline), and Run reacts to its context.  Nothing is assumed of        *)
(* elections, writers, or Deployment and HPA events.                       *)
Fairness ==
    /\ WF_vars(InitialList) /\ WF_vars(ShutDown) /\ WF_vars(AllDone)
    /\ \A k \in Targets :
          /\ WF_vars(Observe(k)) /\ WF_vars(Notify(k))
          /\ WF_vars(DelayElapsed(k) /\ UNCHANGED <<objectVars, informerVars, run, workerVars>>)
    /\ \A w \in Workers : WF_vars(WorkerNext(w))

FairSpec == Spec /\ Fairness

-----------------------------------------------------------------------------
TypeOK ==
    /\ QueueTypeOK
    /\ live \in [Keys -> Nat \X Nat]
    /\ cache \in [Keys -> Nat \X Nat]
    /\ listed \in BOOLEAN
    /\ notices \in [Keys -> Nat]
    /\ run \in {"standby", "leading", "cancelled", "returned"}
    /\ worker \in [Workers -> [pc : WorkerSteps, key : Keys \cup {NoKey},
                               read : Nat \X Nat, err : BOOLEAN]]
    /\ applied \in [Keys -> Nat \X Nat]
    /\ writes \in Nat
    /\ errors \in Nat

Holds(w, k) == worker[w].key = k

(* Passes on one target are serialized inside a process, and every Get is  *)
(* balanced by Done: the keys being processed are exactly the keys that    *)
(* workers hold, each held by one worker.                                  *)
OnePassPerKey ==
    \A k \in Keys :
       /\ k \in processing <=> \E w \in Workers : Holds(w, k)
       /\ \A v, w \in Workers : Holds(v, k) /\ Holds(w, k) => v = w

(* No target is forgotten: until the context ends, a target whose intent is *)
(* in the indexer is queued, being processed, waiting for its requeue, or  *)
(* about to be announced.  Whatever event is missed, another pass follows. *)
(* An intent whose key ParseKey rejects has no such promise.               *)
NoKeyForgotten ==
    run \in {"standby", "leading"} => \A k \in Targets :
       cache[k] # None =>
          \/ k \in dirty \cup processing \cup delayed
          \/ notices[k] > 0

(* A failing key is retried with backoff at most MaxRequeues times before  *)
(* it is put aside for a minute and its failure count starts again.        *)
BackoffIsBounded == \A k \in Keys : requeues[k] <= MaxRequeues

(* A key is in the queue exactly when it is dirty and nobody processes it, *)
(* and it is there once: Get never hands out a key that a worker holds.    *)
QueueIsDirty ==
    /\ \A i \in 1..Len(queue) : queue[i] \in dirty \ processing
    /\ \A k \in dirty \ processing : \E i \in 1..Len(queue) : queue[i] = k
    /\ \A i, j \in 1..Len(queue) : queue[i] = queue[j] => i = j

(* A worker holds a key from Get to Done, and only then. *)
BusyWorkersHold ==
    \A w \in Workers : worker[w].pc \in {"idle", "exited"} <=> worker[w].key = NoKey

(* A key that ParseKey rejects is dropped whenever a worker gets it: no    *)
(* pass is run for it, it is not requeued, and an intent of that name is   *)
(* never applied.                                                          *)
MalformedDropped ==
    /\ \A k \in Malformed : k \notin delayed /\ requeues[k] = 0 /\ applied[k] = None
    /\ \A w \in Workers :
          worker[w].key \in Malformed => worker[w].pc \in {"reconcile", "done"}

(* The queue is shut, and a worker leaves, only after the context ended.   *)
EndsInOrder ==
    /\ shut => run \in {"cancelled", "returned"}
    /\ \A w \in Workers :
          worker[w].pc = "leave" => run \in {"cancelled", "returned"}

(* A worker that is about to call Done of a target has already seen to it  *)
(* that it comes back, or the target has no intent any more.               *)
ReturnIsArranged ==
    run \in {"standby", "leading"} => \A w \in Workers :
       worker[w].pc = "done" /\ worker[w].key \in Targets /\ cache[worker[w].key] # None =>
          \/ worker[w].key \in dirty \cup delayed
          \/ notices[worker[w].key] > 0

(* What holds of the queue and its workers at any time.  With              *)
(* NoKeyForgotten it is inductive: TypeOK, OnePassPerKey and               *)
(* BackoffIsBounded are what the controller promises, the other conjuncts  *)
(* are why.                                                                *)
ControllerInv ==
    /\ TypeOK /\ OnePassPerKey /\ BackoffIsBounded
    /\ QueueIsDirty /\ BusyWorkersHold /\ MalformedDropped
    /\ EndsInOrder /\ ReturnIsArranged

(* While this process leads, the intent of every target is eventually      *)
(* reconciled in its latest form, even if the event that announced it was  *)
(* swallowed by a relist or its first passes failed, and whatever intents  *)
(* of other names and their events keep the workers busy.                  *)
EveryIntentApplied ==
    [](run # "cancelled" /\ run # "returned") /\ <>(run = "leading") =>
       \A k \in Targets : <>[](live[k] # None => applied[k] = live[k])

(* Once the context is cancelled, Run returns: no worker stays blocked in  *)
(* Get and none goes on to another pass.                                   *)
RunReturns == (run = "cancelled") ~> (run = "returned")
=============================================================================
