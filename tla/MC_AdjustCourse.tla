---------------------------- MODULE MC_AdjustCourse ----------------------------
(* An instance of AdjustCourse: two days of two terms and one that lies in *)
(* none; the scenarios differ in what happens beside one another.       *)
EXTENDS AdjustCourse

CONSTANTS i1, autumn, spring, oct1, mar1, jul1

MCTermOf ==
    [d \in Date |-> CASE d = oct1 -> autumn [] d = mar1 -> spring [] OTHER -> None]

MCRowBefore == [i \in Id |-> IF i = i1 THEN [date |-> oct1, enabled |-> FALSE] ELSE None]

Budget(list, update, create, expiry, fault, crash) ==
    [list |-> list, update |-> update, create |-> create, expiry |-> expiry,
     fault |-> fault, crash |-> crash]

(* Two updates; an update and a creation beside a reader; a late reader    *)
(* and an error; a creation that fails; a crash                            *)
MCBudgets == {
    Budget(0, 2, 0, 0, 0, 0),
    Budget(1, 1, 1, 0, 0, 0),
    Budget(1, 1, 0, 1, 1, 0),
    Budget(0, 0, 1, 0, 1, 0),
    Budget(1, 1, 0, 0, 0, 1)}

=============================================================================
