------------------------------ MODULE TaskQueue ------------------------------
(***************************************************************************)
(* pkg/taskqueue/queue.go: BaseTaskQueue, the background executor every    *)
(* service hands its cache refreshes and database writes to.  A task is    *)
(* stored in a map under its key and the key is put on a rate limiting     *)
(* work queue; constants.WorkerNumber goroutines take keys, look the task  *)
(* up, run it and remove it (one-shot) or schedule it again (periodic).    *)
(*                                                                         *)
(* Every access to the map and to the queue is a step of its own: the code *)
(* holds no lock from one to the next.                                     *)
(***************************************************************************)
EXTENDS WorkQueue

CONSTANTS
    Worker,        \* the worker goroutines
    Client,        \* goroutines that call Add or AddSchedule
    Task,          \* task values; each is submitted once
    Periodic,      \* those that are ScheduleQueueTask
    None,          \* no entry in the map; no key, no task
    KeyOf          \* KeyOf[t]: the key t is submitted under

ASSUME TaskAssumption ==
    /\ Periodic \subseteq Task
    /\ None \notin Task \cup Key
    /\ KeyOf \in [Task -> Key]

VARIABLES
    taskMap,       \* taskMap[k]: the task stored under k, or None
    wpc,           \* wpc[w]: the next statement of worker w
    wkey,          \* wkey[w]: the key worker w took last
    wtask,         \* wtask[w]: the task worker w loaded last
    adding,        \* adding[c]: the task c has stored and not yet queued
    submitted,     \* history: tasks handed to Add or AddSchedule
    begun,         \* history: tasks a worker began to run
    succeeded,     \* history: tasks whose Execute has returned nil
    failing,       \* history: tasks whose last Execute returned an error
    replaced,      \* history: tasks overwritten in the map by a later Add
    erased         \* history: tasks removed by the success of another task

workerVars == <<wpc, wkey, wtask>>
history == <<submitted, begun, succeeded, failing, replaced, erased>>
vars == <<queueVars, taskMap, workerVars, adding, history>>

Init ==
    /\ QInit
    /\ taskMap = [k \in Key |-> None]
    /\ wpc = [w \in Worker |-> "get"]
    /\ wkey = [w \in Worker |-> None]
    /\ wtask = [w \in Worker |-> None]
    /\ adding = [c \in Client |-> None]
    /\ submitted = {}
    /\ begun = {}
    /\ succeeded = {}
    /\ failing = {}
    /\ replaced = {}
    /\ erased = {}

-----------------------------------------------------------------------------
(* Add and AddSchedule: taskMap.Store(key, task), then workQueue.Add(key). *)

Store(c, t) ==
    /\ adding[c] = None
    /\ t \notin submitted
    /\ taskMap' = [taskMap EXCEPT ![KeyOf[t]] = t]
    /\ adding' = [adding EXCEPT ![c] = t]
    /\ submitted' = submitted \cup {t}
    /\ replaced' = replaced \cup ({taskMap[KeyOf[t]]} \ {None})
    /\ UNCHANGED <<queueVars, workerVars, begun, succeeded, failing, erased>>

Enqueue(c) ==
    /\ adding[c] # None
    /\ AddKey(KeyOf[adding[c]])
    /\ adding' = [adding EXCEPT ![c] = None]
    /\ UNCHANGED <<delayed, failures, taskMap, workerVars, history>>

-----------------------------------------------------------------------------
(* The loop of one worker. *)

GoTo(w, label) == wpc' = [wpc EXCEPT ![w] = label]

(* workQueue.Get *)
Get(w) ==
    /\ wpc[w] = "get"
    /\ \E k \in Key :
         /\ TakeKey(k)
         /\ wkey' = [wkey EXCEPT ![w] = k]
    /\ GoTo(w, "load")
    /\ UNCHANGED <<taskMap, wtask, adding, history>>

(* Mutant of Load: Done is called before the task runs, not after it. *)
Load_DoneEarly(w) ==
    LET t == taskMap[wkey[w]] IN
    /\ wpc[w] = "load"
    /\ wtask' = [wtask EXCEPT ![w] = t]
    /\ GoTo(w, IF t = None THEN "done" ELSE "run")
    /\ begun' = begun \cup ({t} \ {None})
    /\ DoneKey(wkey[w])
    /\ UNCHANGED <<taskMap, wkey, adding, submitted, succeeded, failing,
                   replaced, erased>>

(* taskMap.Load: the task begins to run, or the key has no task ("Task     *)
(* evaporated") and is Done.                                               *)
Load(w) ==
    LET t == taskMap[wkey[w]] IN
    /\ wpc[w] = "load"
    /\ wtask' = [wtask EXCEPT ![w] = t]
    /\ GoTo(w, IF t = None THEN "done" ELSE "run")
    /\ begun' = begun \cup ({t} \ {None})
    /\ UNCHANGED <<queueVars, taskMap, wkey, adding, submitted, succeeded,
                   failing, replaced, erased>>

(* Execute returns nil *)
ExecuteSucceeds(w) ==
    /\ wpc[w] = "run"
    /\ succeeded' = succeeded \cup {wtask[w]}
    /\ failing' = failing \ {wtask[w]}
    /\ GoTo(w, IF wtask[w] \in Periodic THEN "reschedule" ELSE "delete")
    /\ UNCHANGED <<queueVars, taskMap, wkey, wtask, adding, submitted, begun,
                   replaced, erased>>

(* Execute returns an error *)
ExecuteFails(w) ==
    /\ wpc[w] = "run"
    /\ failing' = failing \cup {wtask[w]}
    /\ GoTo(w, "retry")
    /\ UNCHANGED <<queueVars, taskMap, wkey, wtask, adding, submitted, begun,
                   succeeded, replaced, erased>>

(* Mutant of Retry: a failed task is logged and not queued again. *)
Retry_Dropped(w) ==
    /\ wpc[w] = "retry"
    /\ GoTo(w, "done")
    /\ UNCHANGED <<queueVars, taskMap, wkey, wtask, adding, history>>

(* Mutant of Retry: a failed task leaves the map as a finished one does. *)
Retry_Deletes(w) ==
    /\ wpc[w] = "retry"
    /\ AddKeyRateLimited(wkey[w])
    /\ taskMap' = [taskMap EXCEPT ![wkey[w]] = None]
    /\ GoTo(w, "done")
    /\ UNCHANGED <<wkey, wtask, adding, history>>

(* workQueue.AddRateLimited, for both kinds of task *)
Retry(w) ==
    /\ wpc[w] = "retry"
    /\ AddKeyRateLimited(wkey[w])
    /\ GoTo(w, "done")
    /\ UNCHANGED <<taskMap, wkey, wtask, adding, history>>

(* Mutant of Delete: a finished task stays in the map. *)
Delete_Skipped(w) ==
    /\ wpc[w] = "delete"
    /\ GoTo(w, "done")
    /\ UNCHANGED <<queueVars, taskMap, wkey, wtask, adding, history>>

(* taskMap.Delete: whatever is stored under the key by now is removed *)
Delete(w) ==
    LET t == taskMap[wkey[w]] IN
    /\ wpc[w] = "delete"
    /\ taskMap' = [taskMap EXCEPT ![wkey[w]] = None]
    /\ erased' = erased \cup ({t} \ {wtask[w], None})
    /\ GoTo(w, "done")
    /\ UNCHANGED <<queueVars, wkey, wtask, adding, submitted, begun, succeeded,
                   failing, replaced>>

(* Mutant of Reschedule: a periodic task that succeeded is not queued again. *)
Reschedule_Once(w) ==
    /\ wpc[w] = "reschedule"
    /\ GoTo(w, "forget")
    /\ UNCHANGED <<queueVars, taskMap, wkey, wtask, adding, history>>

(* workQueue.AddAfter(key, task.GetScheduleTime()) *)
Reschedule(w) ==
    /\ wpc[w] = "reschedule"
    /\ AddKeyAfter(wkey[w])
    /\ GoTo(w, "forget")
    /\ UNCHANGED <<failures, taskMap, wkey, wtask, adding, history>>

(* workQueue.Forget *)
Forget(w) ==
    /\ wpc[w] = "forget"
    /\ ForgetKey(wkey[w])
    /\ GoTo(w, "done")
    /\ UNCHANGED <<taskMap, wkey, wtask, adding, history>>

(* workQueue.Done *)
Done(w) ==
    /\ wpc[w] = "done"
    /\ DoneKey(wkey[w])
    /\ GoTo(w, "get")
    /\ wkey' = [wkey EXCEPT ![w] = None]
    /\ wtask' = [wtask EXCEPT ![w] = None]
    /\ UNCHANGED <<taskMap, adding, history>>

WorkerStep(w) ==
    \/ Get(w) \/ Load(w) \/ ExecuteSucceeds(w) \/ ExecuteFails(w)
    \/ Retry(w) \/ Delete(w) \/ Reschedule(w) \/ Forget(w) \/ Done(w)

DelayStep(k) ==
    /\ DelayPasses(k)
    /\ UNCHANGED <<taskMap, workerVars, adding, history>>

Next ==
    \/ \E c \in Client, t \in Task : Store(c, t)
    \/ \E c \in Client : Enqueue(c)
    \/ \E w \in Worker : WorkerStep(w)
    \/ \E k \in Key : DelayStep(k)

Spec == Init /\ [][Next]_vars

(* Workers and the queue's waiting loop are goroutines that are always      *)
(* scheduled and every Execute returns; a caller that has stored its task   *)
(* goes on to queue the key.  Nobody has to call Add.                       *)
Fairness ==
    /\ \A w \in Worker : WF_vars(WorkerStep(w))
    /\ \A k \in Key : WF_vars(DelayStep(k))
    /\ \A c \in Client : WF_vars(Enqueue(c))

FairSpec == Spec /\ Fairness

-----------------------------------------------------------------------------
(* Correctness *)

Label == {"get", "load", "run", "retry", "delete", "reschedule", "forget", "done"}

(* Every variable keeps its type. *)
TypeOK ==
    /\ queue \in Seq(Key)
    /\ dirty \subseteq Key
    /\ processing \subseteq Key
    /\ delayed \subseteq Key
    /\ failures \in [Key -> 0..MaxFailures]
    /\ taskMap \in [Key -> Task \cup {None}]
    /\ wpc \in [Worker -> Label]
    /\ wkey \in [Worker -> Key \cup {None}]
    /\ wtask \in [Worker -> Task \cup {None}]
    /\ adding \in [Client -> Task \cup {None}]
    /\ submitted \subseteq Task
    /\ begun \subseteq Task
    /\ succeeded \subseteq Task
    /\ failing \subseteq Task
    /\ replaced \subseteq Task
    /\ erased \subseteq Task

(* Tasks of one key never run side by side, whatever is added while one of *)
(* them runs: cache refreshes of a student do not race each other.         *)
SerialPerKey ==
    \A v, w \in Worker :
        v # w /\ wpc[v] = "run" /\ wpc[w] = "run" => wkey[v] # wkey[w]

Queued(k) == \E i \in 1..Len(queue) : queue[i] = k

(* Somebody will come back for k: it is queued or delayed, a caller is     *)
(* about to queue it, or the worker that has it has yet to load, has yet   *)
(* to end, or will find it dirty when it is Done.                          *)
WakeUp(k) ==
    \/ Queued(k)
    \/ k \in delayed
    \/ \E c \in Client : adding[c] # None /\ KeyOf[adding[c]] = k
    \/ \E w \in Worker :
         /\ wkey[w] = k
         /\ k \in dirty \/ wpc[w] \in {"load", "run", "retry", "delete", "reschedule"}

(* A task in the map is never stranded there with nobody to look it up.    *)
NoStrandedTask == \A k \in Key : taskMap[k] # None => WakeUp(k)

(* A one-shot task that has succeeded is never run again, neither by a     *)
(* second wake-up of its key nor by another worker.                        *)
SucceedsOnce ==
    \A w \in Worker : wpc[w] = "run" => wtask[w] \notin succeeded \ Periodic

(* The comment of NewBaseTaskQueue: the retries of a single task back off  *)
(* exponentially from an initial delay of 5 ms.  So where every failure of *)
(* a key's tasks has been made good by a success, the next task of the key *)
(* starts with no failures counted against it.                             *)
BackoffStartsAtBase ==
    \A w \in Worker :
        /\ wpc[w] = "run"
        /\ \A u \in failing : KeyOf[u] # wkey[w]
        => failures[wkey[w]] = 0

(* Every submitted task begins to run, unless a later Add of its key       *)
(* overwrites it or the success of an older task of its key removes it.    *)
EventuallyRuns ==
    \A t \in Task :
        t \in submitted ~> t \in begun \cup replaced \cup erased

(* A periodic task runs again and again for as long as the process lives,  *)
(* through its own failures and whatever one-shot tasks compete with it.   *)
RunsForever ==
    \A t \in Periodic :
        t \in submitted ~> (\/ t \in replaced \cup erased
                            \/ \E w \in Worker : wpc[w] = "run" /\ wtask[w] = t)

(* Two workers are enough for both: no task, of whatever kind, waits for   *)
(* ever because of the tasks before it, its key's or others', or of their  *)
(* failures.                                                               *)
TasksRun == EventuallyRuns /\ RunsForever

-----------------------------------------------------------------------------
(* Seen from its callers the queue is the executor of SerialExecutor: the  *)
(* map is what is pending, and a task runs from its Load until the worker  *)
(* has removed it or queued its key again.                                 *)

Holds(w, k) ==
    wkey[w] = k /\ wpc[w] \in {"run", "retry", "delete", "reschedule"}

Running(k) ==
    IF \E w \in Worker : Holds(w, k)
    THEN wtask[CHOOSE w \in Worker : Holds(w, k)]
    ELSE None

Executor == INSTANCE SerialExecutor
    WITH pending <- taskMap, running <- [k \in Key |-> Running(k)]

(* Every step of the queue is a step of the executor or none of its.       *)
ImplementsExecutor == Executor!Spec

=============================================================================
