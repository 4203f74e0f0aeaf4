------------------------------ MODULE WorkQueue ------------------------------
(***************************************************************************)
(* The rate limiting work queue of k8s.io/client-go that                   *)
(* pkg/taskqueue/queue.go is built on (workqueue.NewTypedRateLimitingQueue *)
(* with the default controller rate limiter).  The library is not under    *)
(* src/: what is modelled is the contract queue.go relies on.              *)
(*                                                                         *)
(* A key waits in `queue' while it is dirty and nobody processes it.  A    *)
(* key added while it is being processed is only marked dirty and goes     *)
(* back to `queue' when its processing is Done.                            *)
(***************************************************************************)
EXTENDS Naturals, Sequences

CONSTANTS
    Key,           \* the task keys ("putCourse:<stuId>", "notice", ...)
    MaxFailures    \* the back-off level at which the retry delay is maximal

ASSUME MaxFailuresAssumption == MaxFailures \in Nat \ {0}

VARIABLES
    queue,         \* keys ready to be handed to a worker, oldest first
    dirty,         \* keys that need processing
    processing,    \* keys handed to a worker and not yet Done
    delayed,       \* keys that will be added when their delay has passed
    failures       \* failures[k]: retries of k counted since the last Forget

queueVars == <<queue, dirty, processing, delayed, failures>>

QInit ==
    /\ queue = <<>>
    /\ dirty = {}
    /\ processing = {}
    /\ delayed = {}
    /\ failures = [k \in Key |-> 0]

-----------------------------------------------------------------------------
(* Add marks the key; an already dirty key is not queued a second time. *)
AddKey(k) ==
    /\ dirty' = dirty \cup {k}
    /\ queue' = IF k \in dirty \cup processing THEN queue ELSE Append(queue, k)
    /\ UNCHANGED processing

(* Get hands the oldest key to the caller; it blocks while there is none. *)
TakeKey(k) ==
    /\ queue # <<>>
    /\ k = Head(queue)
    /\ queue' = Tail(queue)
    /\ processing' = processing \cup {k}
    /\ dirty' = dirty \ {k}
    /\ UNCHANGED <<delayed, failures>>

(* Done ends the processing of k; a key made dirty meanwhile is queued. *)
DoneKey(k) ==
    /\ processing' = processing \ {k}
    /\ queue' = IF k \in dirty THEN Append(queue, k) ELSE queue
    /\ UNCHANGED <<dirty, delayed, failures>>

(* AddAfter: the key waits for its delay; an earlier deadline is kept, so *)
(* a key waits at most once.                                              *)
AddKeyAfter(k) ==
    /\ delayed' = delayed \cup {k}
    /\ UNCHANGED <<queue, dirty, processing>>

(* AddRateLimited: the delay is the rate limiter's answer for k, which    *)
(* doubles with every failure counted for k until it is maximal.          *)
AddKeyRateLimited(k) ==
    /\ AddKeyAfter(k)
    /\ failures' = [failures EXCEPT ![k] = IF @ = MaxFailures THEN @ ELSE @ + 1]

(* Forget resets the back-off of k. *)
ForgetKey(k) ==
    /\ failures' = [failures EXCEPT ![k] = 0]
    /\ UNCHANGED <<queue, dirty, processing, delayed>>

(* The delay of k has passed: the waiting loop of the queue adds it. *)
DelayPasses(k) ==
    /\ k \in delayed
    /\ delayed' = delayed \ {k}
    /\ AddKey(k)
    /\ UNCHANGED failures

=============================================================================
