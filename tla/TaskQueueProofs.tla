--------------------------- MODULE TaskQueueProofs ---------------------------
(***************************************************************************)
(* Safety of TaskQueue for any keys, tasks, workers and callers.           *)
(***************************************************************************)
EXTENDS TaskQueue, TLAPS

(* The keys in the queue are those that are dirty and not being processed, *)
(* each of them once.                                                      *)
QueueInv ==
    /\ \A i \in 1..Len(queue) : queue[i] \in dirty \ processing
    /\ \A i, j \in 1..Len(queue) : queue[i] = queue[j] => i = j
    /\ \A k \in dirty \ processing : Queued(k)

(* A key being processed is claimed by exactly one worker.                 *)
ClaimInv ==
    /\ \A w \in Worker : wpc[w] = "get" <=> wkey[w] = None
    /\ \A w \in Worker : wkey[w] # None => wkey[w] \in processing
    /\ \A k \in processing : \E w \in Worker : wkey[w] = k
    /\ \A v, w \in Worker : wkey[v] = wkey[w] /\ wkey[v] # None => v = w

(* Tasks are stored, and run, under the key they were submitted with.      *)
TaskInv ==
    /\ \A k \in Key : taskMap[k] # None =>
         taskMap[k] \in submitted /\ KeyOf[taskMap[k]] = k
    /\ \A w \in Worker : wtask[w] # None =>
         wtask[w] \in submitted /\ KeyOf[wtask[w]] = wkey[w]
    /\ \A w \in Worker : wpc[w] \in {"get", "load"} => wtask[w] = None
    /\ \A w \in Worker :
         wpc[w] \in {"run", "retry", "delete", "reschedule", "forget"} =>
             wtask[w] # None
    /\ \A w \in Worker : wpc[w] = "delete" => wtask[w] \notin Periodic
    /\ succeeded \subseteq submitted

(* A one-shot task that has succeeded is in the map only while its worker  *)
(* is about to delete it.                                                  *)
SuccessInv ==
    \A k \in Key : taskMap[k] \in succeeded \ Periodic =>
        \E w \in Worker : wpc[w] = "delete" /\ wkey[w] = k

IInv ==
    /\ TypeOK
    /\ QueueInv
    /\ ClaimInv
    /\ TaskInv
    /\ SuccessInv
    /\ SucceedsOnce
    /\ NoStrandedTask

-----------------------------------------------------------------------------
(* The queue's operations. *)

LEMMA AddKeyQueue ==
  ASSUME TypeOK, QueueInv, NEW k \in Key, AddKey(k)
  PROVE  QueueInv' /\ queue' \in Seq(Key) /\ dirty' \subseteq Key
<1> USE DEF TypeOK, QueueInv, Queued, AddKey
<1>1. CASE k \in dirty \cup processing
  BY <1>1
<1>2. CASE k \notin dirty \cup processing
  <2>1. queue' = Append(queue, k) /\ dirty' = dirty \cup {k} /\ processing' = processing
    BY <1>2
  <2>2. /\ Len(queue') = Len(queue) + 1
        /\ \A i \in 1..Len(queue) : queue'[i] = queue[i]
        /\ queue'[Len(queue) + 1] = k
    BY <2>1
  <2>3. QED
    BY <1>2, <2>1, <2>2
<1>3. QED
  BY <1>1, <1>2

LEMMA TakeKeyQueue ==
  ASSUME TypeOK, QueueInv, NEW k \in Key, TakeKey(k)
  PROVE  QueueInv' /\ queue' \in Seq(Key) /\ k \notin processing
<1> USE DEF TypeOK, QueueInv, Queued, TakeKey
<1>1. /\ Len(queue) \in Nat
      /\ Len(queue) > 0
      /\ queue[1] = k
      /\ queue' = Tail(queue)
  OBVIOUS
<1>2. /\ Len(queue') = Len(queue) - 1
      /\ \A i \in 1..Len(queue') : queue'[i] = queue[i + 1]
  BY <1>1
<1>3. k \in dirty \ processing
  BY <1>1
<1>4. \A i \in 1..Len(queue') : queue'[i] \in dirty' \ processing'
  <2> SUFFICES ASSUME NEW i \in 1..Len(queue') PROVE queue'[i] \in dirty' \ processing'
    OBVIOUS
  <2>1. i + 1 \in 1..Len(queue) /\ i + 1 # 1
    BY <1>1, <1>2
  <2>2. queue'[i] \in dirty \ processing /\ queue'[i] # k
    BY <2>1, <1>1, <1>2
  <2>3. QED
    BY <2>2
<1>5. \A i, j \in 1..Len(queue') : queue'[i] = queue'[j] => i = j
  <2> SUFFICES ASSUME NEW i \in 1..Len(queue'), NEW j \in 1..Len(queue'),
                      queue'[i] = queue'[j]
               PROVE  i = j
    OBVIOUS
  <2>1. i + 1 \in 1..Len(queue) /\ j + 1 \in 1..Len(queue)
    BY <1>1, <1>2
  <2>2. i + 1 = j + 1
    BY <2>1, <1>2
  <2>3. QED
    BY <2>2
<1>6. \A h \in dirty' \ processing' : Queued(h)'
  <2> SUFFICES ASSUME NEW h \in dirty' \ processing'
               PROVE  \E i \in 1..Len(queue') : queue'[i] = h
    OBVIOUS
  <2>1. h \in dirty \ processing /\ h # k
    OBVIOUS
  <2>2. PICK i \in 1..Len(queue) : queue[i] = h
    BY <2>1
  <2>3. i # 1
    BY <2>1, <2>2, <1>1
  <2>4. i - 1 \in 1..Len(queue') /\ (i - 1) + 1 = i
    BY <2>3, <1>1, <1>2
  <2>5. queue'[i - 1] = h
    BY <2>2, <2>4, <1>2
  <2>6. QED
    BY <2>4, <2>5
<1>7. queue' \in Seq(Key)
  BY <1>1
<1>8. QED
  BY <1>3, <1>4, <1>5, <1>6, <1>7

LEMMA DoneKeyQueue ==
  ASSUME TypeOK, QueueInv, NEW k \in Key, k \in processing, DoneKey(k)
  PROVE  QueueInv' /\ queue' \in Seq(Key)
<1> USE DEF TypeOK, QueueInv, Queued, DoneKey
<1>1. CASE k \notin dirty
  BY <1>1
<1>2. CASE k \in dirty
  <2>1. /\ queue' = Append(queue, k)
        /\ dirty' = dirty
        /\ processing' = processing \ {k}
    BY <1>2
  <2>2. /\ Len(queue') = Len(queue) + 1
        /\ \A i \in 1..Len(queue) : queue'[i] = queue[i]
        /\ queue'[Len(queue) + 1] = k
    BY <2>1
  <2>3. \A i \in 1..Len(queue) : queue[i] # k
    OBVIOUS
  <2>4. QED
    BY <1>2, <2>1, <2>2, <2>3
<1>3. QED
  BY <1>1, <1>2

-----------------------------------------------------------------------------
(* Type correctness.                                                       *)

LEMMA TypeInit == Init => TypeOK
BY MaxFailuresAssumption DEF Init, QInit, TypeOK, Label

LEMMA TypeStep ==
  TypeOK /\ QueueInv /\ ClaimInv /\ TaskInv /\ [Next]_vars => TypeOK'
<1> SUFFICES ASSUME TypeOK, QueueInv, ClaimInv, TaskInv, [Next]_vars PROVE TypeOK'
  OBVIOUS
<1> USE TaskAssumption, MaxFailuresAssumption DEF Label, GoTo, history, workerVars, queueVars
<1>1. ASSUME NEW c \in Client, NEW t \in Task, Store(c, t) PROVE TypeOK'
  BY <1>1 DEF Store, TypeOK
<1>2. ASSUME NEW c \in Client, Enqueue(c) PROVE TypeOK'
  <2>1. KeyOf[adding[c]] \in Key
    BY <1>2 DEF Enqueue, TypeOK
  <2>2. queue' \in Seq(Key) /\ dirty' \subseteq Key
    BY <1>2, <2>1, AddKeyQueue DEF Enqueue
  <2>3. QED
    BY <1>2, <2>2 DEF Enqueue, AddKey, TypeOK
<1>3. ASSUME NEW w \in Worker, Get(w) PROVE TypeOK'
  <2>1. PICK k \in Key : TakeKey(k) /\ wkey' = [wkey EXCEPT ![w] = k]
    BY <1>3 DEF Get
  <2>2. queue' \in Seq(Key)
    BY <2>1, TakeKeyQueue
  <2>3. QED
    BY <1>3, <2>1, <2>2 DEF Get, TakeKey, TypeOK
<1>4. ASSUME NEW w \in Worker, Load(w) PROVE TypeOK'
  <2>1. wkey[w] \in Key
    BY <1>4 DEF Load, TypeOK, ClaimInv
  <2>2. QED
    BY <1>4, <2>1 DEF Load, TypeOK
<1>5. ASSUME NEW w \in Worker, ExecuteSucceeds(w) PROVE TypeOK'
  BY <1>5 DEF ExecuteSucceeds, TypeOK, TaskInv
<1>6. ASSUME NEW w \in Worker, ExecuteFails(w) PROVE TypeOK'
  BY <1>6 DEF ExecuteFails, TypeOK, TaskInv
<1>7. ASSUME NEW w \in Worker, Retry(w) PROVE TypeOK'
  BY <1>7 DEF Retry, AddKeyRateLimited, AddKeyAfter, TypeOK, ClaimInv
<1>8. ASSUME NEW w \in Worker, Delete(w) PROVE TypeOK'
  <2>1. wkey[w] \in Key
    BY <1>8 DEF Delete, TypeOK, ClaimInv
  <2>2. QED
    BY <1>8, <2>1 DEF Delete, TypeOK
<1>9. ASSUME NEW w \in Worker, Reschedule(w) PROVE TypeOK'
  BY <1>9 DEF Reschedule, AddKeyAfter, TypeOK, ClaimInv
<1>10. ASSUME NEW w \in Worker, Forget(w) PROVE TypeOK'
  <2>1. failures' = [failures EXCEPT ![wkey[w]] = 0]
    BY <1>10 DEF Forget, ForgetKey
  <2>2. failures' \in [Key -> 0..MaxFailures]
    <3>1. failures \in [Key -> 0..MaxFailures] /\ 0 \in 0..MaxFailures
      BY DEF TypeOK
    <3>2. QED
      BY <2>1, <3>1
  <2>3. UNCHANGED <<queue, dirty, processing, delayed, taskMap, wkey, wtask, adding, history>>
        /\ wpc' = [wpc EXCEPT ![w] = "done"]
    BY <1>10 DEF Forget, ForgetKey
  <2>4. QED
    BY <2>2, <2>3 DEF TypeOK
<1>11. ASSUME NEW w \in Worker, Done(w) PROVE TypeOK'
  <2>1. wkey[w] \in Key /\ wkey[w] \in processing
    BY <1>11 DEF Done, TypeOK, ClaimInv
  <2>2. queue' \in Seq(Key)
    BY <1>11, <2>1, DoneKeyQueue DEF Done
  <2>3. QED
    BY <1>11, <2>2 DEF Done, DoneKey, TypeOK
<1>12. ASSUME NEW k \in Key, DelayStep(k) PROVE TypeOK'
  <2>1. queue' \in Seq(Key) /\ dirty' \subseteq Key
    BY <1>12, AddKeyQueue DEF DelayStep, DelayPasses
  <2>2. QED
    BY <1>12, <2>1 DEF DelayStep, DelayPasses, AddKey, TypeOK
<1>13. CASE UNCHANGED vars
  BY <1>13 DEF vars, TypeOK
<1>14. QED
  BY <1>1, <1>2, <1>3, <1>4, <1>5, <1>6, <1>7, <1>8, <1>9, <1>10, <1>11, <1>12, <1>13
  DEF Next, WorkerStep

-----------------------------------------------------------------------------
(* The queue and the claims of the workers.                                *)

LEMMA QueueStep == TypeOK /\ QueueInv /\ ClaimInv /\ [Next]_vars => QueueInv'
<1> SUFFICES ASSUME TypeOK, QueueInv, ClaimInv, [Next]_vars PROVE QueueInv'
  OBVIOUS
<1>1. ASSUME UNCHANGED <<queue, dirty, processing>> PROVE QueueInv'
  BY <1>1 DEF QueueInv, Queued
<1>2. ASSUME NEW k \in Key, AddKey(k) \/ TakeKey(k) PROVE QueueInv'
  BY <1>2, AddKeyQueue, TakeKeyQueue
<1>3. ASSUME NEW w \in Worker, Done(w) PROVE QueueInv'
  <2>1. wkey[w] \in Key /\ wkey[w] \in processing
    BY <1>3 DEF Done, TypeOK, ClaimInv
  <2>2. QED
    BY <1>3, <2>1, DoneKeyQueue DEF Done
<1>4. ASSUME NEW c \in Client, Enqueue(c) PROVE QueueInv'
  BY <1>2, <1>4, TaskAssumption DEF Enqueue, TypeOK
<1>5. ASSUME NEW w \in Worker, WorkerStep(w) PROVE QueueInv'
  BY <1>1, <1>2, <1>3, <1>5
  DEF WorkerStep, Get, Load, ExecuteSucceeds, ExecuteFails, Retry, Delete, Reschedule,
      Forget, AddKeyRateLimited, AddKeyAfter, ForgetKey, queueVars
<1>6. QED
  BY <1>1, <1>2, <1>4, <1>5
  DEF Next, Store, DelayStep, DelayPasses, vars, queueVars

LEMMA ClaimStep ==
  TypeOK /\ QueueInv /\ ClaimInv /\ [Next]_vars => ClaimInv'
<1> SUFFICES ASSUME TypeOK, QueueInv, ClaimInv, [Next]_vars PROVE ClaimInv'
  OBVIOUS
<1> USE TaskAssumption
<1>1. ASSUME UNCHANGED <<processing, wkey, wpc>> PROVE ClaimInv'
  BY <1>1 DEF ClaimInv
<1>2. ASSUME NEW w \in Worker, NEW label \in Label \ {"get"}, wpc[w] # "get",
             GoTo(w, label), UNCHANGED <<processing, wkey>>
      PROVE  ClaimInv'
  BY <1>2 DEF ClaimInv, GoTo, TypeOK
<1>3. ASSUME NEW w \in Worker, Get(w) PROVE ClaimInv'
  <2>1. PICK k \in Key : TakeKey(k) /\ wkey' = [wkey EXCEPT ![w] = k]
    BY <1>3 DEF Get
  <2>2. k \notin processing
    BY <2>1, TakeKeyQueue
  <2>3. \A v \in Worker : wkey[v] # k
    BY <2>2 DEF ClaimInv, TypeOK
  <2>4. wkey[w] = None /\ k # None
    BY <1>3 DEF Get, ClaimInv
  <2>5. QED
    BY <1>3, <2>1, <2>2, <2>3, <2>4 DEF Get, TakeKey, GoTo, ClaimInv, TypeOK
<1>4. ASSUME NEW w \in Worker, Done(w) PROVE ClaimInv'
  <2>1. wkey[w] # None /\ \A v \in Worker \ {w} : wkey[v] # wkey[w]
    BY <1>4 DEF Done, ClaimInv
  <2>2. QED
    BY <1>4, <2>1 DEF Done, DoneKey, GoTo, ClaimInv, TypeOK
<1>5. ASSUME NEW w \in Worker, WorkerStep(w) PROVE ClaimInv'
  BY <1>2, <1>3, <1>4, <1>5
  DEF WorkerStep, Load, ExecuteSucceeds, ExecuteFails, Retry, Delete, Reschedule,
      Forget, AddKeyRateLimited, AddKeyAfter, ForgetKey, queueVars, Label
<1>6. QED
  BY <1>1, <1>5
  DEF Next, Store, Enqueue, AddKey, DelayStep, DelayPasses, vars, queueVars, workerVars

-----------------------------------------------------------------------------
(* Tasks and their keys.                                                   *)

LEMMA TaskStep ==
  TypeOK /\ QueueInv /\ ClaimInv /\ TaskInv /\ [Next]_vars => TaskInv'
<1> SUFFICES ASSUME TypeOK, QueueInv, ClaimInv, TaskInv, [Next]_vars PROVE TaskInv'
  OBVIOUS
<1> USE TaskAssumption
<1>1. ASSUME UNCHANGED <<taskMap, wpc, wkey, wtask, submitted, succeeded>>
      PROVE  TaskInv'
  BY <1>1 DEF TaskInv
<1>2. ASSUME NEW c \in Client, NEW t \in Task, Store(c, t) PROVE TaskInv'
  BY <1>2 DEF Store, workerVars, TaskInv, TypeOK
<1>3. ASSUME NEW w \in Worker, Get(w) PROVE TaskInv'
  BY <1>3 DEF Get, GoTo, history, TaskInv, TypeOK
<1>4. ASSUME NEW w \in Worker, Load(w) PROVE TaskInv'
  <2>1. wkey[w] \in Key
    BY <1>4 DEF Load, TypeOK, ClaimInv
  <2>2. QED
    BY <1>4, <2>1 DEF Load, GoTo, TaskInv, TypeOK
<1>5. ASSUME NEW w \in Worker, ExecuteSucceeds(w) PROVE TaskInv'
  BY <1>5 DEF ExecuteSucceeds, GoTo, TaskInv, TypeOK
<1>6. ASSUME NEW w \in Worker, ExecuteFails(w) \/ Retry(w) \/ Reschedule(w) \/ Forget(w)
      PROVE  TaskInv'
  BY <1>6 DEF ExecuteFails, Retry, Reschedule, Forget, GoTo, history, TaskInv, TypeOK
<1>7. ASSUME NEW w \in Worker, Delete(w) PROVE TaskInv'
  BY <1>7 DEF Delete, GoTo, TaskInv, TypeOK
<1>8. ASSUME NEW w \in Worker, Done(w) PROVE TaskInv'
  BY <1>8 DEF Done, GoTo, history, TaskInv, TypeOK
<1>9. QED
  BY <1>1, <1>2, <1>3, <1>4, <1>5, <1>6, <1>7, <1>8
  DEF Next, WorkerStep, Enqueue, DelayStep, vars, workerVars, history

LEMMA SuccessStep ==
  TypeOK /\ QueueInv /\ ClaimInv /\ TaskInv /\ SuccessInv /\ SucceedsOnce /\ [Next]_vars
    => SuccessInv' /\ SucceedsOnce'
<1> SUFFICES ASSUME TypeOK, QueueInv, ClaimInv, TaskInv, SuccessInv, SucceedsOnce,
                    [Next]_vars
             PROVE  SuccessInv' /\ SucceedsOnce'
  OBVIOUS
<1> USE TaskAssumption DEF SuccessInv, SucceedsOnce
<1>1. ASSUME UNCHANGED <<taskMap, wpc, wkey, wtask, succeeded>>
      PROVE  SuccessInv' /\ SucceedsOnce'
  BY <1>1
<1>2. ASSUME NEW c \in Client, NEW t \in Task, Store(c, t)
      PROVE  SuccessInv' /\ SucceedsOnce'
  BY <1>2 DEF Store, workerVars, TaskInv, TypeOK
<1>3. ASSUME NEW w \in Worker, NEW label \in Label \ {"run", "delete"},
             wpc[w] # "delete", GoTo(w, label),
             UNCHANGED <<taskMap, succeeded>>,
             \A v \in Worker \ {w} : wkey'[v] = wkey[v] /\ wtask'[v] = wtask[v]
      PROVE  SuccessInv' /\ SucceedsOnce'
  BY <1>3 DEF GoTo, TypeOK
<1>4. ASSUME NEW w \in Worker, Load(w) PROVE SuccessInv' /\ SucceedsOnce'
  <2>1. wkey[w] \in Key /\ \A v \in Worker \ {w} : wkey[v] # wkey[w]
    BY <1>4 DEF Load, TypeOK, ClaimInv
  <2>2. taskMap[wkey[w]] \notin succeeded \ Periodic
    BY <1>4, <2>1 DEF Load
  <2>3. QED
    BY <1>4, <2>1, <2>2 DEF Load, GoTo, TypeOK
<1>5. ASSUME NEW w \in Worker, ExecuteSucceeds(w) PROVE SuccessInv' /\ SucceedsOnce'
  <2>1. wtask[w] # None /\ KeyOf[wtask[w]] = wkey[w] /\ wkey[w] # None
    BY <1>5 DEF ExecuteSucceeds, TaskInv, ClaimInv
  <2>2. \A v \in Worker : wpc[v] = "run" /\ wtask[v] = wtask[w] => v = w
    BY <1>5, <2>1 DEF ExecuteSucceeds, TaskInv, ClaimInv
  <2>3. SucceedsOnce'
    BY <1>5, <2>2 DEF ExecuteSucceeds, GoTo, TypeOK
  <2>4. ASSUME NEW k \in Key, taskMap'[k] \in succeeded' \ Periodic
        PROVE  \E v \in Worker : wpc'[v] = "delete" /\ wkey'[v] = k
    <3>1. CASE taskMap[k] = wtask[w]
      BY <1>5, <2>1, <2>4, <3>1 DEF ExecuteSucceeds, GoTo, TaskInv, TypeOK
    <3>2. CASE taskMap[k] # wtask[w]
      BY <1>5, <2>4, <3>2 DEF ExecuteSucceeds, GoTo, TypeOK
    <3>3. QED
      BY <3>1, <3>2
  <2>5. QED
    BY <2>3, <2>4
<1>6. ASSUME NEW w \in Worker, Delete(w) PROVE SuccessInv' /\ SucceedsOnce'
  <2>1. None \notin succeeded
    BY DEF TypeOK
  <2>2. wkey[w] \in Key
    BY <1>6 DEF Delete, TypeOK, ClaimInv
  <2>3. QED
    BY <1>6, <2>1, <2>2 DEF Delete, GoTo, TypeOK
<1>7. ASSUME NEW w \in Worker, Get(w) \/ Done(w) PROVE SuccessInv' /\ SucceedsOnce'
  BY <1>3, <1>7 DEF Get, Done, history, Label, TypeOK
<1>8. ASSUME NEW w \in Worker, ExecuteFails(w) \/ Retry(w) \/ Reschedule(w) \/ Forget(w)
      PROVE  SuccessInv' /\ SucceedsOnce'
  BY <1>3, <1>8 DEF ExecuteFails, Retry, Reschedule, Forget, history, Label
<1>9. QED
  BY <1>1, <1>2, <1>4, <1>5, <1>6, <1>7, <1>8
  DEF Next, WorkerStep, Enqueue, DelayStep, vars, workerVars, history

-----------------------------------------------------------------------------
(* No stored task is stranded.                                             *)

LEMMA StrandStep ==
  TypeOK /\ QueueInv /\ ClaimInv /\ TaskInv /\ NoStrandedTask /\ [Next]_vars
    => NoStrandedTask'
<1> SUFFICES ASSUME TypeOK, QueueInv, ClaimInv, TaskInv, NoStrandedTask, [Next]_vars,
                    NEW k \in Key, taskMap'[k] # None
             PROVE  WakeUp(k)'
  BY DEF NoStrandedTask
<1> USE TaskAssumption DEF WakeUp, Queued
<1>1. CASE taskMap[k] = None
  <2>1. ASSUME NEW w \in Worker, Delete(w) PROVE taskMap'[k] = None
    BY <1>1, <2>1 DEF Delete, TypeOK
  <2>2. PICK c \in Client, t \in Task : Store(c, t)
    BY <1>1, <2>1 DEF Next, Enqueue, WorkerStep, Get, Load, ExecuteSucceeds, ExecuteFails,
       Retry, Reschedule, Forget, Done, DelayStep, vars
  <2>3. KeyOf[t] = k /\ adding'[c] = t /\ t # None
    BY <1>1, <2>2 DEF Store, TypeOK
  <2>4. QED
    BY <2>3
<1>2. CASE taskMap[k] # None
  <2> USE <1>2
  <2>0. WakeUp(k)
    BY DEF NoStrandedTask
  <2>1. ASSUME NEW c \in Client, NEW t \in Task, Store(c, t) PROVE WakeUp(k)'
    BY <2>0, <2>1 DEF Store, queueVars, workerVars, TypeOK
  <2>2. ASSUME NEW h \in Key, AddKey(h), UNCHANGED workerVars,
               h = k \/ (delayed' = delayed /\ UNCHANGED adding)
                     \/ (delayed' = delayed \ {h} /\ UNCHANGED adding)
                     \/ (delayed' = delayed /\ \A c \in Client :
                           adding'[c] = adding[c] \/ KeyOf[adding[c]] = h)
        PROVE  WakeUp(k)'
    <3>1. \A i \in 1..Len(queue) : i \in 1..Len(queue') /\ queue'[i] = queue[i]
      BY <2>2 DEF AddKey, TypeOK
    <3>2. CASE h # k
      BY <2>0, <2>2, <3>1, <3>2 DEF AddKey, workerVars
    <3>3. CASE h = k /\ k \in processing
      BY <2>2, <3>3 DEF AddKey, workerVars, ClaimInv
    <3>4. CASE h = k /\ k \in dirty \ processing
      BY <2>2, <3>1, <3>4 DEF QueueInv
    <3>5. CASE h = k /\ k \notin dirty \cup processing
      <4>1. queue' = Append(queue, k)
        BY <2>2, <3>5 DEF AddKey
      <4>2. Len(queue) + 1 \in 1..Len(queue') /\ queue'[Len(queue) + 1] = k
        BY <4>1 DEF TypeOK
      <4>3. QED
        BY <4>2
    <3>6. QED
      BY <3>2, <3>3, <3>4, <3>5
  <2>3. ASSUME NEW c \in Client, Enqueue(c) PROVE WakeUp(k)'
    <3>1. KeyOf[adding[c]] \in Key
      BY <2>3 DEF Enqueue, TypeOK
    <3>2. QED
      BY <2>2, <2>3, <3>1 DEF Enqueue, TypeOK
  <2>4. ASSUME NEW h \in Key, DelayStep(h) PROVE WakeUp(k)'
    BY <2>2, <2>4 DEF DelayStep, DelayPasses, workerVars
  <2>5. ASSUME NEW w \in Worker, Get(w) PROVE WakeUp(k)'
    <3>1. PICK h \in Key : TakeKey(h) /\ wkey' = [wkey EXCEPT ![w] = h]
      BY <2>5 DEF Get
    <3>2. wkey[w] = None
      BY <2>5 DEF Get, ClaimInv
    <3>3. CASE h = k
      BY <2>5, <3>1, <3>3 DEF Get, GoTo, TypeOK
    <3>4. CASE h # k
      <4>1. ASSUME Queued(k) PROVE Queued(k)'
        <5>1. PICK i \in 1..Len(queue) : queue[i] = k
          BY <4>1
        <5>2. queue[1] = h /\ queue' = Tail(queue) /\ i # 1
          BY <3>1, <3>4, <5>1 DEF TakeKey, TypeOK
        <5>3. i - 1 \in 1..Len(queue') /\ queue'[i - 1] = k
          BY <5>1, <5>2 DEF TypeOK
        <5>4. QED
          BY <5>3
      <4>2. QED
        BY <2>0, <2>5, <3>1, <3>2, <3>4, <4>1 DEF Get, GoTo, TakeKey, TypeOK
    <3>5. QED
      BY <3>3, <3>4
  <2>6. ASSUME NEW w \in Worker, Load(w) PROVE WakeUp(k)'
    BY <2>0, <2>6 DEF Load, GoTo, queueVars, TypeOK
  <2>7. ASSUME NEW w \in Worker, ExecuteSucceeds(w) \/ ExecuteFails(w) PROVE WakeUp(k)'
    BY <2>0, <2>7 DEF ExecuteSucceeds, ExecuteFails, GoTo, queueVars, TypeOK
  <2>8. ASSUME NEW w \in Worker, Retry(w) \/ Reschedule(w) PROVE WakeUp(k)'
    BY <2>0, <2>8 DEF Retry, Reschedule, AddKeyRateLimited, AddKeyAfter, GoTo, TypeOK
  <2>9. ASSUME NEW w \in Worker, Delete(w) PROVE WakeUp(k)'
    <3>1. wkey[w] # k
      BY <2>9 DEF Delete, TypeOK
    <3>2. QED
      BY <2>0, <2>9, <3>1 DEF Delete, GoTo, queueVars, TypeOK
  <2>10. ASSUME NEW w \in Worker, Forget(w) PROVE WakeUp(k)'
    BY <2>0, <2>10 DEF Forget, ForgetKey, GoTo, TypeOK
  <2>11. ASSUME NEW w \in Worker, Done(w) PROVE WakeUp(k)'
    <3>1. \A i \in 1..Len(queue) : i \in 1..Len(queue') /\ queue'[i] = queue[i]
      BY <2>11 DEF Done, DoneKey, TypeOK
    <3>2. CASE wkey[w] = k /\ k \in dirty
      <4>1. queue' = Append(queue, k)
        BY <2>11, <3>2 DEF Done, DoneKey
      <4>2. Len(queue) + 1 \in 1..Len(queue') /\ queue'[Len(queue) + 1] = k
        BY <4>1 DEF TypeOK
      <4>3. QED
        BY <4>2
    <3>3. CASE ~(wkey[w] = k /\ k \in dirty)
      BY <2>0, <2>11, <3>1, <3>3 DEF Done, DoneKey, GoTo, TypeOK
    <3>4. QED
      BY <3>2, <3>3
  <2>12. CASE UNCHANGED vars
    BY <2>0, <2>12 DEF vars, queueVars, workerVars
  <2>13. QED
    BY <2>1, <2>3, <2>4, <2>5, <2>6, <2>7, <2>8, <2>9, <2>10, <2>11, <2>12
    DEF Next, WorkerStep
<1>3. QED
  BY <1>1, <1>2

-----------------------------------------------------------------------------
(* The inductive invariant.                                                *)

LEMMA InvInit == Init => IInv
<1> SUFFICES ASSUME Init PROVE IInv
  OBVIOUS
<1>1. TypeOK
  BY TypeInit
<1>2. QueueInv
  BY DEF Init, QInit, QueueInv
<1>3. ClaimInv
  BY DEF Init, QInit, ClaimInv
<1>4. TaskInv
  BY DEF Init, TaskInv
<1>5. SuccessInv /\ SucceedsOnce /\ NoStrandedTask
  BY DEF Init, SuccessInv, SucceedsOnce, NoStrandedTask
<1>6. QED
  BY <1>1, <1>2, <1>3, <1>4, <1>5 DEF IInv

LEMMA Invariant == Spec => []IInv
<1>1. IInv /\ [Next]_vars => IInv'
  BY TypeStep, QueueStep, ClaimStep, TaskStep, SuccessStep, StrandStep DEF IInv
<1>2. QED
  BY InvInit, <1>1, PTL DEF Spec

(* Every variable keeps its type. *)
THEOREM TypeCorrect == Spec => []TypeOK
<1>1. IInv => TypeOK
  BY DEF IInv
<1>2. QED
  BY Invariant, <1>1, PTL

(* The workers never run two tasks of one key side by side, for any number *)
(* of workers and however Add interleaves with them.                       *)
THEOREM Serial == Spec => []SerialPerKey
<1>1. IInv => SerialPerKey
  BY DEF IInv, ClaimInv, SerialPerKey
<1>2. QED
  BY Invariant, <1>1, PTL

(* A stored task always has a wake-up of its key ahead of it. *)
THEOREM NeverStranded == Spec => []NoStrandedTask
<1>1. IInv => NoStrandedTask
  BY DEF IInv
<1>2. QED
  BY Invariant, <1>1, PTL

(* No one-shot task runs again after it has succeeded. *)
THEOREM SuccessIsFinal == Spec => []SucceedsOnce
<1>1. IInv => SucceedsOnce
  BY DEF IInv
<1>2. QED
  BY Invariant, <1>1, PTL

-----------------------------------------------------------------------------
(* The queue implements the executor of SerialExecutor.                    *)

(* The worker that holds a key is the only one, so its task is Running.    *)
HoldersRun ==
    \A w \in Worker, k \in Key : Holds(w, k) => Running(k) = wtask[w]

LEMMA HolderRuns == ClaimInv => HoldersRun
<1> SUFFICES ASSUME ClaimInv, NEW w \in Worker, NEW k \in Key, Holds(w, k)
             PROVE  Running(k) = wtask[w]
  BY DEF HoldersRun
<1>1. \A v \in Worker : Holds(v, k) => v = w
  BY TaskAssumption DEF ClaimInv, Holds
<1>2. (CHOOSE v \in Worker : Holds(v, k)) = w
  BY <1>1
<1>3. QED
  BY <1>2 DEF Running

LEMMA HolderRunsNext == ClaimInv' => HoldersRun'
BY HolderRuns, PTL

(* What runs under k changes only with the worker that holds k.            *)
LEMMA SameHolders ==
  ASSUME ClaimInv, ClaimInv', NEW k \in Key,
         \A w \in Worker : Holds(w, k)' <=> Holds(w, k),
         \A w \in Worker : Holds(w, k) => wtask'[w] = wtask[w]
  PROVE  Running(k)' = Running(k)
<1>1. CASE \E w \in Worker : Holds(w, k)
  <2>1. PICK w \in Worker : Holds(w, k)
    BY <1>1
  <2>2. Running(k) = wtask[w] /\ Running(k)' = wtask'[w]
    BY <2>1, HolderRuns, HolderRunsNext DEF HoldersRun
  <2>3. QED
    BY <2>1, <2>2
<1>2. CASE ~\E w \in Worker : Holds(w, k)
  BY <1>2 DEF Running
<1>3. QED
  BY <1>1, <1>2

LEMMA ExecutorInit == Init => Executor!Init
BY DEF Init, Executor!Init, Running, Holds

LEMMA ExecutorStep ==
  IInv /\ IInv' /\ [Next]_vars => [Executor!Next]_(Executor!vars)
<1> SUFFICES ASSUME IInv, IInv', [Next]_vars
             PROVE  Executor!Next \/ UNCHANGED Executor!vars
  OBVIOUS
<1> DEFINE running == [k \in Key |-> Running(k)]
<1> USE TaskAssumption
<1>0. ClaimInv /\ ClaimInv' /\ TaskInv /\ TypeOK
  BY DEF IInv
<1>1. ASSUME UNCHANGED <<wkey, wpc, wtask>> PROVE running' = running
  <2>1. \A k \in Key : Running(k)' = Running(k)
    BY <1>0, <1>1, SameHolders DEF Holds
  <2>2. QED
    BY <2>1
<1>2. ASSUME NEW w \in Worker, NEW label \in Label, GoTo(w, label), wkey[w] = None \/
               (wpc[w] \in {"run", "retry", "delete", "reschedule"}
                  <=> label \in {"run", "retry", "delete", "reschedule"}),
             wkey'[w] = wkey[w] \/ (wpc[w] \in {"get", "done"} /\ label \in {"get", "load"}),
             wtask'[w] = wtask[w] \/ wpc[w] \in {"get", "load", "done"},
             \A v \in Worker \ {w} : wkey'[v] = wkey[v] /\ wtask'[v] = wtask[v]
      PROVE  running' = running
  <2>1. ASSUME NEW k \in Key, NEW v \in Worker PROVE Holds(v, k)' <=> Holds(v, k)
    BY <1>0, <1>2 DEF Holds, GoTo, TypeOK
  <2>2. ASSUME NEW k \in Key, NEW v \in Worker, Holds(v, k) PROVE wtask'[v] = wtask[v]
    BY <1>2, <2>2 DEF Holds
  <2>3. \A k \in Key : Running(k)' = Running(k)
    BY <1>0, <2>1, <2>2, SameHolders
  <2>4. QED
    BY <2>3
<1>3. ASSUME NEW w \in Worker, NEW label \in {"done", "forget"},
             wpc[w] \in {"retry", "delete", "reschedule"}, GoTo(w, label),
             UNCHANGED <<wkey, wtask>>
      PROVE  /\ wkey[w] \in Key
             /\ running[wkey[w]] = wtask[w]
             /\ running' = [running EXCEPT ![wkey[w]] = None]
  <2>1. wkey[w] \in Key /\ Holds(w, wkey[w])
    BY <1>0, <1>3 DEF ClaimInv, Holds, TypeOK
  <2>2. Running(wkey[w]) = wtask[w]
    BY <1>0, <2>1, HolderRuns DEF HoldersRun
  <2>3. Running(wkey[w])' = None
    <3>1. \A v \in Worker : ~Holds(v, wkey[w])'
      BY <1>0, <1>3, <2>1 DEF Holds, GoTo, ClaimInv, TypeOK
    <3>2. QED
      BY <1>3, <3>1 DEF Running, Holds
  <2>4. ASSUME NEW k \in Key, k # wkey[w] PROVE Running(k)' = Running(k)
    <3>1. \A v \in Worker : Holds(v, k)' <=> Holds(v, k)
      BY <1>0, <1>3, <2>4 DEF Holds, GoTo, TypeOK
    <3>2. QED
      BY <1>0, <1>3, <3>1, SameHolders
  <2>5. running' = [running EXCEPT ![wkey[w]] = None]
    BY <1>3, <2>1, <2>3, <2>4
  <2>6. QED
    BY <2>1, <2>2, <2>5
<1>4. ASSUME NEW c \in Client, NEW t \in Task, Store(c, t) PROVE Executor!Next
  <2>1. running' = running
    BY <1>1, <1>4 DEF Store, workerVars
  <2>2. Executor!Submit(t)
    BY <1>4, <2>1 DEF Store, Executor!Submit
  <2>3. QED
    BY <2>2 DEF Executor!Next
<1>5. ASSUME NEW w \in Worker, Load(w) PROVE Executor!Next \/ UNCHANGED Executor!vars
  <2>1. wkey[w] \in Key /\ \A v \in Worker \ {w} : wkey[v] # wkey[w]
    BY <1>0, <1>5 DEF Load, ClaimInv, TypeOK
  <2>2. CASE taskMap[wkey[w]] = None
    BY <1>2, <1>5, <2>2 DEF Load, Label, Executor!vars
  <2>3. CASE taskMap[wkey[w]] # None
    <3>1. Running(wkey[w]) = None
      BY <1>5, <2>1 DEF Load, Running, Holds
    <3>2. Holds(w, wkey[w])' /\ wtask'[w] = taskMap[wkey[w]] /\ wkey' = wkey
      BY <1>0, <1>5, <2>3 DEF Load, GoTo, Holds, TypeOK
    <3>3. Running(wkey[w])' = taskMap[wkey[w]]
      <4>1. \A v \in Worker : Holds(v, wkey[w])' => v = w
        BY <2>1, <3>2 DEF Holds
      <4>2. (CHOOSE v \in Worker : Holds(v, wkey[w])') = w
        BY <3>2, <4>1 DEF Holds
      <4>3. QED
        BY <3>2, <4>2 DEF Running, Holds
    <3>4. ASSUME NEW k \in Key, k # wkey[w] PROVE Running(k)' = Running(k)
      <4>1. \A v \in Worker : Holds(v, k)' <=> Holds(v, k)
        BY <1>0, <1>5, <3>4 DEF Load, Holds, GoTo, TypeOK
      <4>2. \A v \in Worker : Holds(v, k) => wtask'[v] = wtask[v]
        BY <1>0, <1>5, <3>4 DEF Load, Holds, TypeOK
      <4>3. QED
        BY <1>0, <4>1, <4>2, SameHolders
    <3>5. Executor!Begin(wkey[w])
      BY <1>5, <2>1, <2>3, <3>1, <3>3, <3>4 DEF Load, Executor!Begin
    <3>6. QED
      BY <2>1, <3>5 DEF Executor!Next
  <2>4. QED
    BY <2>2, <2>3
<1>6. ASSUME NEW w \in Worker, Retry(w) \/ Reschedule(w) PROVE Executor!Next
  <2>1. /\ wkey[w] \in Key
        /\ running[wkey[w]] = wtask[w]
        /\ running' = [running EXCEPT ![wkey[w]] = None]
    BY <1>3, <1>6 DEF Retry, Reschedule
  <2>2. wtask[w] \in Task
    BY <1>0, <1>6 DEF Retry, Reschedule, TaskInv, TypeOK
  <2>3. Executor!Release(wkey[w])
    BY <1>6, <2>1, <2>2 DEF Retry, Reschedule, Executor!Release
  <2>4. QED
    BY <2>1, <2>3 DEF Executor!Next
<1>7. ASSUME NEW w \in Worker, Delete(w) PROVE Executor!Next
  <2>1. /\ wkey[w] \in Key
        /\ running[wkey[w]] = wtask[w]
        /\ running' = [running EXCEPT ![wkey[w]] = None]
    BY <1>3, <1>7 DEF Delete
  <2>2. wtask[w] \in Task \ Periodic
    BY <1>0, <1>7 DEF Delete, TaskInv, TypeOK
  <2>3. Executor!Succeed(wkey[w])
    BY <1>7, <2>1, <2>2 DEF Delete, Executor!Succeed
  <2>4. QED
    BY <2>1, <2>3 DEF Executor!Next
<1>8. ASSUME NEW w \in Worker,
             \/ Get(w) \/ ExecuteSucceeds(w) \/ ExecuteFails(w) \/ Forget(w) \/ Done(w)
      PROVE  UNCHANGED Executor!vars
  <2>1. CASE Get(w)
    BY <1>0, <1>2, <2>1 DEF Get, ClaimInv, Label, TypeOK, Executor!vars
  <2>2. CASE ExecuteSucceeds(w) \/ ExecuteFails(w) \/ Forget(w)
    BY <1>2, <2>2 DEF ExecuteSucceeds, ExecuteFails, Forget, Label, Executor!vars
  <2>3. CASE Done(w)
    BY <1>0, <1>2, <2>3 DEF Done, Label, TypeOK, Executor!vars
  <2>4. QED
    BY <1>8, <2>1, <2>2, <2>3
<1>9. ASSUME UNCHANGED <<taskMap, workerVars>> PROVE UNCHANGED Executor!vars
  BY <1>1, <1>9 DEF workerVars, Executor!vars
<1>10. QED
  BY <1>4, <1>5, <1>6, <1>7, <1>8, <1>9
  DEF Next, WorkerStep, Enqueue, DelayStep, vars

(* Every behaviour of the queue is one of the executor: per key the tasks  *)
(* run one after the other, each of them the one pending when it began.    *)
THEOREM Refinement == Spec => ImplementsExecutor
BY ExecutorInit, ExecutorStep, Invariant, PTL DEF Spec, ImplementsExecutor, Executor!Spec

=============================================================================
