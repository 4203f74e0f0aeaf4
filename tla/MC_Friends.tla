----------------------------- MODULE MC_Friends -----------------------------
(* An instance of Friends: three students of whom two may be friends, one  *)
(* with an invitation code in force.                                       *)
EXTENDS Friends

CONSTANTS ann, bob, cai, ca, cb, cc

MCStudent == {ann, bob, cai}

MCCodeBefore == [s \in MCStudent |-> IF s = ann THEN ca ELSE None]

MCReorderings == {<<bob>>}

Strangers == {}
Acquainted == {<<ann, bob>>, <<bob, ann>>}

(* Everything that is not given does not happen. *)
Only(before, events) ==
    [before |-> before,
     budget |-> [k \in Kind |-> IF k \in DOMAIN events THEN events[k] ELSE 0]]

MCScenarios == {
    Only(Acquainted, [bind |-> 1, delete |-> 2, list |-> 1]),
    Only(Strangers, [bind |-> 2, list |-> 1, fault |-> 1]),
    Only(Strangers, [bind |-> 1, invite |-> 1, cancel |-> 1, fault |-> 1]),
    Only(Strangers, [invite |-> 2, cancel |-> 1, expiry |-> 1]),
    Only(Acquainted, [delete |-> 1, list |-> 1, reorder |-> 1, fault |-> 1])}

=============================================================================
