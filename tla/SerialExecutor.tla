--------------------------- MODULE SerialExecutor ---------------------------
(***************************************************************************)
(* What pkg/taskqueue promises its callers, without queues and workers:    *)
(* for every key the last submitted task is pending, at most one task of   *)
(* the key runs at a time, and it is the task that was pending when it     *)
(* began.  The success of a one-shot task clears whatever is pending under *)
(* its key, a failure leaves it there to be run again.                     *)
(***************************************************************************)
CONSTANTS Key, Task, Periodic, None, KeyOf

VARIABLES
    pending,    \* pending[k]: the task that runs next under k, or None
    running     \* running[k]: the task of k that runs now, or None

vars == <<pending, running>>

Init ==
    /\ pending = [k \in Key |-> None]
    /\ running = [k \in Key |-> None]

Submit(t) ==
    /\ pending' = [pending EXCEPT ![KeyOf[t]] = t]
    /\ UNCHANGED running

Begin(k) ==
    /\ running[k] = None
    /\ pending[k] # None
    /\ running' = [running EXCEPT ![k] = pending[k]]
    /\ UNCHANGED pending

Succeed(k) ==
    /\ running[k] \in Task \ Periodic
    /\ running' = [running EXCEPT ![k] = None]
    /\ pending' = [pending EXCEPT ![k] = None]

(* A one-shot task that failed, or a periodic task whichever way it ended. *)
Release(k) ==
    /\ running[k] \in Task
    /\ running' = [running EXCEPT ![k] = None]
    /\ UNCHANGED pending

Next ==
    \/ \E t \in Task : Submit(t)
    \/ \E k \in Key : Begin(k) \/ Succeed(k) \/ Release(k)

Spec == Init /\ [][Next]_vars

=============================================================================
