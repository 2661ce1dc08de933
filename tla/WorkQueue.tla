----------------------------- MODULE WorkQueue -----------------------------
(***************************************************************************)
(* The rate-limited, delaying work queue of client-go, as the controller   *)
(* uses it.  A key that is added while it is being processed is remembered *)
(* in dirty and queued again by Done; a key is in the queue at most once.  *)
(***************************************************************************)
EXTENDS Naturals, Sequences

CONSTANT Keys       \* "namespace/name"

VARIABLES
    queue,          \* keys in the order in which workers will get them
    dirty,          \* keys that need processing
    processing,     \* keys a worker has got and not yet Done
    delayed,        \* keys waiting for AddAfter or AddRateLimited to elapse
    requeues,       \* requeues[k]: NumRequeues, failures since Forget
    shut            \* ShutDown was called

queueVars == <<queue, dirty, processing, delayed, requeues, shut>>

(* The effect of Add(k) on dirty and queue. *)
Add(k) ==
    IF shut \/ k \in dirty
    THEN UNCHANGED <<queue, dirty>>
    ELSE /\ dirty' = dirty \cup {k}
         /\ queue' = IF k \in processing THEN queue ELSE Append(queue, k)

(* Get: the oldest key moves from dirty to processing. *)
Get(k) ==
    /\ queue # <<>>
    /\ k = Head(queue)
    /\ queue' = Tail(queue)
    /\ dirty' = dirty \ {k}
    /\ processing' = processing \cup {k}

(* Done: a key that became dirty meanwhile is queued again. *)
Done(k) ==
    /\ processing' = processing \ {k}
    /\ queue' = IF k \in dirty THEN Append(queue, k) ELSE queue

(* AddAfter: the key waits; a queue that is shutting down ignores it. *)
AddAfter(k) == delayed' = IF shut THEN delayed ELSE delayed \cup {k}

AddRateLimited(k) ==
    /\ AddAfter(k)
    /\ requeues' = [requeues EXCEPT ![k] = requeues[k] + 1]

Forget(k) == requeues' = [requeues EXCEPT ![k] = 0]

(* The delay is over. *)
DelayElapsed(k) ==
    /\ k \in delayed
    /\ ~shut
    /\ delayed' = delayed \ {k}
    /\ Add(k)
    /\ UNCHANGED <<processing, requeues, shut>>

QueueTypeOK ==
    /\ queue \in Seq(Keys)
    /\ dirty \subseteq Keys
    /\ processing \subseteq Keys
    /\ delayed \subseteq Keys
    /\ requeues \in [Keys -> Nat]
    /\ shut \in BOOLEAN

QueueInit ==
    /\ queue = <<>>
    /\ dirty = {}
    /\ processing = {}
    /\ delayed = {}
    /\ requeues = [k \in Keys |-> 0]
    /\ shut = FALSE
=============================================================================
