---------------------------- MODULE MC_ExamNotify ----------------------------
(* An instance of ExamNotify: a term with two exams and one without any.    *)
EXTENDS ExamNotify

CONSTANTS autumn, spring, e1, e2

MCTermOf == [e \in {e1, e2} |-> autumn]

MCBudgets == {
    [k \in {autumn, spring, "publish", "fault"} |->
        CASE k = autumn -> 3 [] k = spring -> 0 [] k = "publish" -> 2 [] k = "fault" -> 1],
    [k \in {autumn, spring, "publish", "fault"} |->
        CASE k = autumn -> 2 [] k = spring -> 1 [] k = "publish" -> 1 [] k = "fault" -> 1]}

=============================================================================
