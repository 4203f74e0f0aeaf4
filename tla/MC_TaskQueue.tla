---------------------------- MODULE MC_TaskQueue ----------------------------
(* An instance of TaskQueue: two one-shot tasks under one key and a        *)
(* periodic task with a key of its own.                                     *)
EXTENDS TaskQueue

CONSTANTS refresh, sync, t1, t2, p1

MCTask == {t1, t2, p1}

MCKeyOf == [t \in MCTask |-> IF t = p1 THEN sync ELSE refresh]

=============================================================================
