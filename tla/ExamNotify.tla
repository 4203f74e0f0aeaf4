------------------------------ MODULE ExamNotify ------------------------------
(***************************************************************************)
(* internal/course: how a student's refresh of the course list becomes a   *)
(* notification that an exam has changed.  A refresh fetches the exams of  *)
(* a term and adds a putCourse task; the task compares them with the       *)
(* snapshot in the student's row, claims each change in exam_offerings,    *)
(* whose unique exam_hash is shared by all students, hands what it claimed *)
(* to the push dispatcher, and stores the new snapshot.                    *)
(*                                                                         *)
(* An exam_hash stands for the course, its term and the old and new time;  *)
(* it is modelled as that change itself.  The changes of a task are sorted *)
(* by hash in the code; here they come in any order.                       *)
(***************************************************************************)
EXTENDS Naturals

CONSTANTS
    Student,
    Term,
    Exam,          \* course identities: name, teacher, credit
    TermOf,        \* TermOf[e]: the term of an exam
    Time,          \* exam times
    NoTime,        \* the exam has no time, and is not in the list
    NoRow,         \* the student has no user_course row for the term
    NoSnapshot,    \* the row has no exam_info_sha256
    None,
    Flight,        \* fetches in flight at a time
    Budgets        \* how often what may happen, bounds the model: changes of an
                   \* exam, fetches of each term, errors

Exams(term) == [{e \in Exam : TermOf[e] = term} -> Time \cup {NoTime}]

Task == UNION {[stu : Student, term : {term}, exams : Exams(term)] : term \in Term}

KeyOf == [t \in Task |-> t.stu]        \* "putCourse:<stuId>"

Change ==
    {x \in [exam : Exam, old : Time \cup {NoTime}, new : Time \cup {NoTime}] : x.old # x.new}

ASSUME ExamAssumption ==
    /\ TermOf \in [Exam -> Term]
    /\ NoTime \notin Time
    /\ None \notin Task
    /\ NoRow # NoSnapshot
    /\ \A term \in Term : {NoRow, NoSnapshot} \cap Exams(term) = {}
    /\ Term \cap {"publish", "fault"} = {}
    /\ Budgets \subseteq [Term \cup {"publish", "fault"} -> Nat]

VARIABLES
    published,     \* published[e]: the time the registry shows
    fetched,       \* fetched[f]: the task that fetch f is about to add
    row,           \* row[s][term]: the exam snapshot in user_course
    offerings,     \* exam_offerings: the changes claimed by anybody
    pending,       \* the task stored under a student's key
    running,       \* the task a worker runs for the student
    step,          \* step[s]: what that task does next
    todo,          \* todo[s]: changes it has yet to claim
    claimed,       \* claimed[s]: changes it has claimed and not handed over
    left,          \* what is left of the budget
    handed,        \* history: changes handed to the dispatcher
    lost           \* history: claims of a task that failed before handing over

task == <<step, todo, claimed>>
vars == <<published, fetched, row, offerings, pending, running, task, left, handed, lost>>

Executor == INSTANCE SerialExecutor WITH Key <- Student, Periodic <- {}

(* buildCourseExamInfo: the exams of a term as the registry shows them. *)
ListOf(term, times) == [e \in {x \in Exam : TermOf[x] = term} |-> times[e]]

(* Some students have refreshed before, and since exam snapshots exist. *)
Init ==
    /\ published = [e \in Exam |-> NoTime]
    /\ fetched = [f \in Flight |-> None]
    /\ row \in [Student -> {[term \in Term |-> v] : v \in {NoRow, NoSnapshot}}
                           \cup {[term \in Term |-> ListOf(term, published)]}]
    /\ offerings = {}
    /\ Executor!Init
    /\ step = [s \in Student |-> "none"]
    /\ todo = [s \in Student |-> {}]
    /\ claimed = [s \in Student |-> {}]
    /\ left \in Budgets
    /\ handed = {}
    /\ lost = {}

Spend(kind) == left[kind] > 0 /\ left' = [left EXCEPT ![kind] = @ - 1]

-----------------------------------------------------------------------------
(* The registry announces, moves or withdraws an exam. *)
Publish(e, t) ==
    /\ Spend("publish")
    /\ t # published[e]
    /\ published' = [published EXCEPT ![e] = t]
    /\ UNCHANGED <<fetched, row, offerings, pending, running, task, handed, lost>>

(* GetCourseList: the courses of a term are fetched ... *)
Fetch(f, s, term) ==
    /\ Spend(term)
    /\ fetched[f] = None
    /\ fetched' = [fetched EXCEPT ![f] =
                      [stu |-> s, term |-> term,
                       exams |-> ListOf(term, published)]]
    /\ UNCHANGED <<published, row, offerings, pending, running, task, handed, lost>>

(* ... and a task to store them replaces the one that waits, of any term.  *)
AddTask(f) ==
    /\ fetched[f] # None
    /\ Executor!Submit(fetched[f])
    /\ fetched' = [fetched EXCEPT ![f] = None]
    /\ UNCHANGED <<published, row, offerings, task, left, handed, lost>>

-----------------------------------------------------------------------------
(* The task of s *)

GoTo(s, label) == step' = [step EXCEPT ![s] = label]

Snapshot(s) == row[s][running[s].term]

SetSnapshot(s, v) == row' = [row EXCEPT ![s] = [@ EXCEPT ![running[s].term] = v]]

Begin(s) ==
    /\ Executor!Begin(s)
    /\ GoTo(s, "course")
    /\ UNCHANGED <<published, fetched, row, offerings, todo, claimed, left, handed, lost>>

(* putCourseToDatabase: the row is there afterwards. *)
PutCourse(s) ==
    /\ step[s] = "course"
    /\ IF Snapshot(s) = NoRow THEN SetSnapshot(s, NoSnapshot) ELSE UNCHANGED row
    /\ GoTo(s, "compare")
    /\ UNCHANGED <<published, fetched, offerings, pending, running, todo, claimed, left,
                   handed, lost>>

(* buildCourseExamChanges: announced, moved and withdrawn exams *)
Changes(old, new) ==
    {[exam |-> e, old |-> old[e], new |-> new[e]] : e \in {x \in DOMAIN new : old[x] # new[x]}}

(* putExamToDatabase: the same snapshot needs nothing, the first one only  *)
(* becomes the baseline.                                                   *)
Compare(s) ==
    LET old == Snapshot(s)
        new == running[s].exams
    IN
    /\ step[s] = "compare"
    /\ \/ /\ old = new
          /\ GoTo(s, "succeed")
          /\ UNCHANGED todo
       \/ /\ old = NoSnapshot
          /\ GoTo(s, "commit")
          /\ UNCHANGED todo
       \/ /\ old \notin {new, NoSnapshot}
          /\ todo' = [todo EXCEPT ![s] = Changes(old, new)]
          /\ GoTo(s, "claim")
    /\ UNCHANGED <<published, fetched, row, offerings, pending, running, claimed, left,
                   handed, lost>>

(* What follows a claim: the next one, or the hand-over of what is claimed. *)
AfterClaim(s) ==
    GoTo(s, IF todo'[s] # {} THEN "claim" ELSE IF claimed'[s] # {} THEN "enqueue" ELSE "commit")

(* Mutant of Claim: a duplicate key counts as claimed. *)
Claim_DuplicateClaimed(s, x) ==
    /\ step[s] = "claim"
    /\ x \in todo[s]
    /\ todo' = [todo EXCEPT ![s] = @ \ {x}]
    /\ claimed' = [claimed EXCEPT ![s] = @ \cup {x}]
    /\ offerings' = offerings \cup {x}
    /\ AfterClaim(s)
    /\ UNCHANGED <<published, fetched, row, pending, running, left, handed, lost>>

(* CreateExamOffering: the insert succeeds for one task of all. *)
Claim(s, x) ==
    /\ step[s] = "claim"
    /\ x \in todo[s]
    /\ todo' = [todo EXCEPT ![s] = @ \ {x}]
    /\ claimed' = [claimed EXCEPT ![s] = @ \cup ({x} \ offerings)]
    /\ offerings' = offerings \cup {x}
    /\ AfterClaim(s)
    /\ UNCHANGED <<published, fetched, row, pending, running, left, handed, lost>>

(* Mutant of Enqueue: only the first claimed change is handed over. *)
Enqueue_FirstOnly(s, x) ==
    /\ step[s] = "enqueue"
    /\ x \in claimed[s]
    /\ handed' = handed \cup {x}
    /\ claimed' = [claimed EXCEPT ![s] = {}]
    /\ GoTo(s, "commit")
    /\ UNCHANGED <<published, fetched, row, offerings, pending, running, todo, left, lost>>

(* umeng.EnqueueAsync, whose answer is ignored *)
Enqueue(s, x) ==
    /\ step[s] = "enqueue"
    /\ x \in claimed[s]
    /\ handed' = handed \cup {x}
    /\ claimed' = [claimed EXCEPT ![s] = @ \ {x}]
    /\ GoTo(s, IF claimed'[s] = {} THEN "commit" ELSE "enqueue")
    /\ UNCHANGED <<published, fetched, row, offerings, pending, running, todo, left, lost>>

(* updateExamSnapshot *)
Commit(s) ==
    /\ step[s] = "commit"
    /\ SetSnapshot(s, running[s].exams)
    /\ GoTo(s, "succeed")
    /\ UNCHANGED <<published, fetched, offerings, pending, running, todo, claimed, left,
                   handed, lost>>

Succeed(s) ==
    /\ step[s] = "succeed"
    /\ Executor!Succeed(s)
    /\ GoTo(s, "none")
    /\ UNCHANGED <<published, fetched, row, offerings, todo, claimed, left, handed, lost>>

(* Mutant of Fails: a failed claim is logged and the change skipped. *)
Fails_ClaimSkipped(s) ==
    /\ step[s] = "claim"
    /\ Spend("fault")
    /\ \E x \in todo[s] : todo' = [todo EXCEPT ![s] = @ \ {x}]
    /\ UNCHANGED <<published, fetched, row, offerings, pending, running, claimed, handed, lost>>
    /\ AfterClaim(s)

(* Any access to the database fails: the task is left to be run again, and *)
(* forgets what it has claimed so far.                                     *)
Fails(s) ==
    /\ step[s] \in {"course", "compare", "claim", "commit"}
    /\ Spend("fault")
    /\ Executor!Release(s)
    /\ todo' = [todo EXCEPT ![s] = {}]
    /\ claimed' = [claimed EXCEPT ![s] = {}]
    /\ lost' = lost \cup claimed[s]
    /\ GoTo(s, "none")
    /\ UNCHANGED <<published, fetched, row, offerings, handed>>

Work(s) ==
    \/ Begin(s) \/ PutCourse(s) \/ Compare(s) \/ Commit(s) \/ Succeed(s)
    \/ \E x \in Change : Claim(s, x) \/ Enqueue(s, x)

Next ==
    \/ \E e \in Exam, t \in Time \cup {NoTime} : Publish(e, t)
    \/ \E f \in Flight, s \in Student, term \in Term : Fetch(f, s, term)
    \/ \E f \in Flight : AddTask(f)
    \/ \E s \in Student : Work(s) \/ Fails(s)

Spec == Init /\ [][Next]_vars

(* Workers go on. *)
FairSpec == Spec /\ \A s \in Student : WF_vars(Work(s))

-----------------------------------------------------------------------------
(* Correctness *)

(* Every variable keeps its type; what is claimed is a change. *)
TypeOK ==
    /\ published \in [Exam -> Time \cup {NoTime}]
    /\ fetched \in [Flight -> Task \cup {None}]
    /\ DOMAIN row = Student
    /\ \A s \in Student : DOMAIN row[s] = Term
    /\ \A s \in Student, term \in Term : row[s][term] \in Exams(term) \cup {NoRow, NoSnapshot}
    /\ offerings \subseteq Change
    /\ pending \in [Student -> Task \cup {None}]
    /\ running \in [Student -> Task \cup {None}]
    /\ step \in [Student -> {"none", "course", "compare", "claim", "enqueue", "commit", "succeed"}]
    /\ todo \in [Student -> SUBSET Change]
    /\ claimed \in [Student -> SUBSET Change]
    /\ handed \subseteq offerings
    /\ lost \subseteq offerings

(* A change is handed to the dispatcher at most once, however many         *)
(* students see it and however often their tasks are retried.              *)
NotifiedOnce ==
    \A s \in Student :
        /\ claimed[s] \cap handed = {}
        /\ \A u \in Student \ {s} : claimed[s] \cap claimed[u] = {}

(* A claimed change has been handed over or is about to be; the only way   *)
(* to lose it is an error before the hand-over of the task that claimed it. *)
ClaimAccounted ==
    offerings = handed \cup lost \cup UNION {claimed[s] : s \in Student}

(* Held by some task: claimed, and not handed over so far.                 *)
Held == UNION {claimed[s] : s \in Student}

Outbox == INSTANCE Delivery WITH
    Item <- Change, recorded <- offerings, held <- Held, delivered <- handed

(* Of all tasks of all students one takes a change on, by inserting its    *)
(* exam_hash, and the change is handed to the dispatcher once or lost with *)
(* the failure of that task.                                               *)
DeliversOnce == Outbox!Spec

(* A snapshot moves on only when each of the changes it takes in has been  *)
(* claimed by somebody: no change is swallowed by a commit.                *)
CommitsClaimed ==
    [][\A s \in Student, term \in Term :
          /\ row[s][term] \notin {NoRow, NoSnapshot}
          /\ row'[s][term] # row[s][term]
          => Changes(row[s][term], row'[s][term]) \subseteq offerings]_vars

(* "返回 nil 表示其他用户已经处理过相同变化，本次不再重复推送": a change that a  *)
(* task finds claimed is in the hands of another student's task, or has    *)
(* been handed over.                                                       *)
DuplicateIsHandled ==
    \A s \in Student : \A x \in todo[s] \cap offerings :
        x \in handed \/ \E u \in Student \ {s} : x \in claimed[u]

=============================================================================
