------------------------------- MODULE Delivery -------------------------------
(***************************************************************************)
(* What a table with a unique key promises to those who push notifications *)
(* from it, without tasks, workers and pages: whoever makes the record of  *)
(* an item takes it on, nobody else ever does, and what was taken on is    *)
(* delivered once or is lost for good.  Exam changes (exam_offerings) and  *)
(* notices (the table of notices, for their pushes and for the days found  *)
(* in them) are delivered in this way.                                     *)
(***************************************************************************)
CONSTANT Item

VARIABLES
    recorded,    \* items that have a record
    held,        \* taken on, and neither delivered nor lost so far
    delivered,   \* items that were delivered
    lost         \* items that have a record and will never be delivered

vars == <<recorded, held, delivered, lost>>

Init ==
    /\ recorded = {}
    /\ held = {}
    /\ delivered = {}
    /\ lost = {}

TakeOn(x) ==
    /\ x \notin recorded
    /\ recorded' = recorded \cup {x}
    /\ held' = held \cup {x}
    /\ UNCHANGED <<delivered, lost>>

Deliver(x) ==
    /\ x \in held
    /\ held' = held \ {x}
    /\ delivered' = delivered \cup {x}
    /\ UNCHANGED <<recorded, lost>>

(* Whoever has taken items on gives up or dies. *)
Lose(items) ==
    /\ items \subseteq held
    /\ held' = held \ items
    /\ lost' = lost \cup items
    /\ UNCHANGED <<recorded, delivered>>

(* The record is made by someone who does not deliver. *)
Skip(x) ==
    /\ x \notin recorded
    /\ recorded' = recorded \cup {x}
    /\ lost' = lost \cup {x}
    /\ UNCHANGED <<held, delivered>>

Next ==
    \/ \E x \in Item : TakeOn(x) \/ Deliver(x) \/ Skip(x)
    \/ \E items \in SUBSET Item : Lose(items)

Spec == Init /\ [][Next]_vars

(* What follows from the steps: a record is in one of three places.        *)
Accounted ==
    /\ recorded = (held \cup delivered) \cup lost
    /\ held \cap delivered = {}
    /\ (held \cup delivered) \cap lost = {}

=============================================================================
