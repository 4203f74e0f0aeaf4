---------------------------- MODULE MC_ScoreNotify ----------------------------
(* An instance of ScoreNotify: two students share two courses.             *)
EXTENDS ScoreNotify

CONSTANTS s1, s2, c1, c2, c3

Entered(c) == [course |-> c, score |-> 0]

MCListBefore == [s \in {s1, s2} |-> <<Entered(c2), Entered(c1)>>]

MCBudgets == {
    [k \in Kind \cup {s1, s2} |-> CASE k \in {s1, s2} -> 1
                                  [] k = "change" -> 2
                                  [] k = "course" -> 0
                                  [] k = "fault" -> 0],
    [k \in Kind \cup {s1, s2} |-> CASE k = s1 -> 2
                                  [] k = s2 -> 0
                                  [] OTHER -> 1]}

=============================================================================
