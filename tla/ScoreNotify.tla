------------------------------ MODULE ScoreNotify ------------------------------
(***************************************************************************)
(* internal/academic/service/get_scores.go: a student's scores are fetched *)
(* when there is no copy of them in Redis.  Two tasks are added under two  *)
(* keys, one to store the copy, one to compare the scores with the row in  *)
(* the scores table, to announce what has changed and to store the new     *)
(* scores.  Both tasks hold the slice the fetch has returned, and the      *)
(* second reverses it in place.                                            *)
(*                                                                         *)
(* A list of marks is newest first.  Courses that students share have one  *)
(* record in course_offerings; the record's hash stands for the course.    *)
(***************************************************************************)
EXTENDS Naturals, Sequences, FiniteSetsExt, SequencesExt

CONSTANTS
    Student,
    Course,        \* what the fields in a course_hash identify
    Score,         \* values of a score, "not entered yet" among them
    Fetch,         \* the fetches of a behaviour
    None,
    ListBefore,    \* ListBefore[s]: the marks of s at the start
    Budgets        \* how often what may happen, bounds the model: fetches of a
                   \* student, changed scores, new courses, errors

Kind == {"change", "course", "fault"}

Mark == [course : Course, score : Score]

Task == [stu : Student, fetch : Fetch]
KeyOf == [t \in Task |-> t.stu]       \* the check task's key is "<stuId>"

ASSUME ScoreAssumption ==
    /\ None \notin Task \cup Seq(Mark) \cup Student
    /\ ListBefore \in [Student -> Seq(Mark)]
    /\ Student \cap Kind = {}
    /\ Budgets \subseteq [Student \cup Kind -> Nat]

VARIABLES
    marks,         \* marks[s]: what the registry shows s
    caller,        \* caller[f]: the student fetch f was for, or None
    adding,        \* fetches that have yet to add their check task
    storing,       \* fetches whose copy task has not stored a copy
    slice,         \* slice[f]: the slice fetch f returned
    copies,        \* students whose list has a copy in Redis
    row,           \* row[s]: the list in the scores table, or None
    offerings,     \* course_offerings: courses recorded as announced
    mailbox,       \* announcements the dispatcher has yet to send
    pending,       \* the check task stored under a student's key
    running,       \* the check task a worker runs for the student
    step,          \* step[s]: what that task does next
    local,         \* local[s]: the list it has encoded, the stored list
                   \* reversed, and the index it has got to
    left,          \* what is left of the budget
    changed,       \* history: whose score of which course has changed
    announced,     \* history: who announced which course
    dropped,       \* history: whose announcement of which course was dropped,
                   \* because the dispatcher's queue was full
    sent,          \* history: for which course what name was sent
    mishap         \* history: students whose check task failed after it had
                   \* reversed its slice

registry == <<marks, changed>>
flights == <<caller, adding, storing>>
tables == <<row, offerings>>
pushes == <<mailbox, announced, dropped, sent>>
executor == <<pending, running>>
vars == <<registry, flights, slice, copies, tables, pushes, executor, step, local, left, mishap>>

Executor == INSTANCE SerialExecutor WITH Key <- Student, Periodic <- {}

NoLocals == [json |-> <<>>, old |-> <<>>, at |-> 0]

(* Some students have never been checked. *)
Init ==
    /\ marks = ListBefore
    /\ caller = [f \in Fetch |-> None]
    /\ adding = {}
    /\ storing = {}
    /\ slice = [f \in Fetch |-> <<>>]
    /\ copies = {}
    /\ \E known \in SUBSET Student :
         row = [s \in Student |-> IF s \in known THEN ListBefore[s] ELSE None]
    /\ offerings = {}
    /\ mailbox = {}
    /\ Executor!Init
    /\ step = [s \in Student |-> "none"]
    /\ local = [s \in Student |-> NoLocals]
    /\ left \in Budgets
    /\ changed = {}
    /\ announced = {}
    /\ dropped = {}
    /\ sent = {}
    /\ mishap = {}

Spend(kind) == left[kind] > 0 /\ left' = [left EXCEPT ![kind] = @ - 1]

-----------------------------------------------------------------------------
(* The registry enters a score, or lists a new course first.  What no      *)
(* fetch is left to see is left out.                                       *)

SomeFetchToCome == \E f \in Fetch : caller[f] = None

ChangeScore(s, i, v) ==
    /\ SomeFetchToCome
    /\ Spend("change")
    /\ marks[s][i].score # v
    /\ marks' = [marks EXCEPT ![s] = [@ EXCEPT ![i].score = v]]
    /\ changed' = changed \cup {<<s, marks[s][i].course>>}
    /\ UNCHANGED <<flights, slice, copies, tables, pushes, executor, step, local, mishap>>

NewCourse(s, m) ==
    /\ SomeFetchToCome
    /\ Spend("course")
    /\ \A i \in 1..Len(marks[s]) : marks[s][i].course # m.course
    /\ marks' = [marks EXCEPT ![s] = <<m>> \o @]
    /\ UNCHANGED <<changed, flights, slice, copies, tables, pushes, executor, step, local,
                   mishap>>

(* The copy has expired, after AcademicScoresExpire. *)
ExpireCopy(s) ==
    /\ SomeFetchToCome
    /\ s \in copies
    /\ copies' = copies \ {s}
    /\ UNCHANGED <<registry, flights, slice, tables, pushes, executor, step, local, left, mishap>>

-----------------------------------------------------------------------------
(* GetScores, when there is no copy.  The calls of one student are merged. *)

GetMarks(s) ==
    LET f == CHOOSE g \in Fetch : caller[g] = None IN
    /\ SomeFetchToCome
    /\ Spend(s)
    /\ s \notin copies
    /\ \A g \in adding : caller[g] # s
    /\ caller' = [caller EXCEPT ![f] = s]
    /\ slice' = [slice EXCEPT ![f] = marks[s]]
    /\ adding' = adding \cup {f}
    /\ storing' = storing \cup {f}
    /\ UNCHANGED <<registry, copies, tables, pushes, executor, step, local, mishap>>

AddCheck(f) ==
    /\ f \in adding
    /\ Executor!Submit([stu |-> caller[f], fetch |-> f])
    /\ adding' = adding \ {f}
    /\ UNCHANGED <<registry, caller, storing, slice, copies, tables, pushes, step, local, left,
                   mishap>>

(* The copy task has a key of its own.  It stores the copy at some time,   *)
(* or is replaced and never does.                                          *)
SetCopy(f) ==
    /\ f \in storing
    /\ storing' = storing \ {f}
    /\ copies' = copies \cup {caller[f]}
    /\ UNCHANGED <<registry, caller, adding, slice, tables, pushes, executor, step, local, left,
                   mishap>>

-----------------------------------------------------------------------------
(* The check task of s: checkScoreChange and handleScoreChange             *)

GoTo(s, label) == step' = [step EXCEPT ![s] = label]

(* The slice of the running task *)
SliceOf(s) == slice[running[s].fetch]

Begin(s) ==
    /\ Executor!Begin(s)
    /\ GoTo(s, "hash")
    /\ UNCHANGED <<registry, flights, slice, copies, tables, pushes, local, left, mishap>>

Succeed(s) ==
    /\ step[s] = "succeed"
    /\ Executor!Succeed(s)
    /\ GoTo(s, "none")
    /\ local' = [local EXCEPT ![s] = NoLocals]
    /\ UNCHANGED <<registry, flights, slice, copies, tables, pushes, left, mishap>>

(* The task returns an error and will be run again. *)
Release(s) ==
    /\ Executor!Release(s)
    /\ GoTo(s, "none")
    /\ local' = [local EXCEPT ![s] = NoLocals]
    /\ mishap' = IF local[s].at > 0 THEN mishap \cup {s} ELSE mishap

(* The list is encoded; without a row there is nothing to compare with.    *)
CompareHash(s) ==
    /\ step[s] = "hash"
    /\ local' = [local EXCEPT ![s].json = SliceOf(s)]
    /\ GoTo(s, IF row[s] = None THEN "update"
               ELSE IF row[s] = SliceOf(s) THEN "succeed"
               ELSE "load")
    /\ UNCHANGED <<registry, flights, slice, copies, tables, pushes, executor, left, mishap>>

(* Mutant of LoadOld: only the new scores are reversed. *)
LoadOld_NewReversed(s) ==
    /\ step[s] = "load"
    /\ local' = [local EXCEPT ![s].old = row[s], ![s].at = 1]
    /\ slice' = [slice EXCEPT ![running[s].fetch] = Reverse(@)]
    /\ GoTo(s, "compare")
    /\ UNCHANGED <<registry, flights, copies, tables, pushes, executor, left, mishap>>

(* GetScoreByStuId; both lists are reversed, the new one in its slice.     *)
LoadOld(s) ==
    /\ step[s] = "load"
    /\ local' = [local EXCEPT ![s].old = Reverse(row[s]), ![s].at = 1]
    /\ slice' = [slice EXCEPT ![running[s].fetch] = Reverse(@)]
    /\ GoTo(s, "compare")
    /\ UNCHANGED <<registry, flights, copies, tables, pushes, executor, left, mishap>>

(* Indexes that both lists have and where the scores differ *)
Differences(new, former) ==
    {i \in DOMAIN new \cap DOMAIN former : new[i].score # former[i].score}

(* The next difference: GetCourseByHash, and without a record the course   *)
(* is announced.  The dispatcher takes the push or, when its queue is      *)
(* full, drops it; that is only logged, and the task goes on.              *)
Announce(s, i) ==
    LET c == SliceOf(s)[i].course
    IN
    /\ \/ /\ mailbox' = mailbox \cup {[fetch |-> running[s].fetch, index |-> i, course |-> c]}
          /\ announced' = announced \cup {<<s, c>>}
          /\ UNCHANGED dropped
       \/ /\ dropped' = dropped \cup {<<s, c>>}
          /\ UNCHANGED <<mailbox, announced>>
    /\ local' = [local EXCEPT ![s].at = i]
    /\ GoTo(s, "record")

(* Mutant of Compare: the course is recorded before it is announced. *)
Compare_RecordsFirst(s) ==
    LET todo == {i \in Differences(SliceOf(s), local[s].old) : i >= local[s].at}
    IN
    /\ step[s] = "compare"
    /\ \/ /\ todo = {}
          /\ GoTo(s, "update")
          /\ UNCHANGED <<offerings, local>>
       \/ /\ todo # {}
          /\ offerings' = offerings \cup {SliceOf(s)[Min(todo)].course}
          /\ local' = [local EXCEPT ![s].at = Min(todo)]
          /\ GoTo(s, "record")
    /\ UNCHANGED <<registry, flights, slice, copies, row, pushes, executor, left, mishap>>

Compare(s) ==
    LET todo == {i \in Differences(SliceOf(s), local[s].old) : i >= local[s].at}
    IN
    /\ step[s] = "compare"
    /\ \/ /\ todo = {}
          /\ GoTo(s, "update")
          /\ UNCHANGED <<mailbox, announced, dropped, local>>
       \/ /\ todo # {}
          /\ SliceOf(s)[Min(todo)].course \in offerings
          /\ local' = [local EXCEPT ![s].at = Min(todo) + 1]
          /\ UNCHANGED <<step, mailbox, announced, dropped>>
       \/ /\ todo # {}
          /\ SliceOf(s)[Min(todo)].course \notin offerings
          /\ Announce(s, Min(todo))
    /\ UNCHANGED <<registry, flights, slice, copies, tables, sent, executor, left, mishap>>

(* CreateCourseOffering: a record that has appeared meanwhile is an error. *)
Record(s) ==
    LET c == SliceOf(s)[local[s].at].course
    IN
    /\ step[s] = "record"
    /\ \/ /\ c \notin offerings
          /\ offerings' = offerings \cup {c}
          /\ local' = [local EXCEPT ![s].at = @ + 1]
          /\ GoTo(s, "compare")
          /\ UNCHANGED <<executor, mishap>>
       \/ /\ c \in offerings
          /\ Release(s)
          /\ UNCHANGED offerings
    /\ UNCHANGED <<registry, flights, slice, copies, row, pushes, left>>

(* CreateUserScore or UpdateUserScores *)
Store(s) ==
    /\ step[s] = "update"
    /\ row' = [row EXCEPT ![s] = local[s].json]
    /\ GoTo(s, "succeed")
    /\ UNCHANGED <<registry, flights, slice, copies, offerings, pushes, executor, local, left,
                   mishap>>

(* An access to the database fails. *)
Fails(s) ==
    /\ step[s] \in {"hash", "load", "compare", "record", "update"}
    /\ Spend("fault")
    /\ Release(s)
    /\ UNCHANGED <<registry, flights, slice, copies, tables, pushes>>

-----------------------------------------------------------------------------
(* The dispatcher runs the closure: the name is looked up in the slice now. *)
Send(p) ==
    /\ p \in mailbox
    /\ mailbox' = mailbox \ {p}
    /\ sent' = sent \cup {[course |-> p.course, name |-> slice[p.fetch][p.index].course]}
    /\ UNCHANGED <<registry, flights, slice, copies, tables, announced, dropped, executor, step,
                   local, left, mishap>>

Work(s) ==
    \/ Begin(s) \/ CompareHash(s) \/ LoadOld(s) \/ Compare(s) \/ Record(s) \/ Store(s)
    \/ Succeed(s)

Next ==
    \/ \E s \in Student : \E i \in 1..Len(marks[s]), v \in Score : ChangeScore(s, i, v)
    \/ \E s \in Student, m \in Mark : NewCourse(s, m)
    \/ \E s \in Student : ExpireCopy(s) \/ GetMarks(s)
    \/ \E f \in Fetch : AddCheck(f) \/ SetCopy(f)
    \/ \E s \in Student : Work(s) \/ Fails(s)
    \/ \E p \in mailbox : Send(p)

Spec == Init /\ [][Next]_vars

(* Workers go on. *)
FairSpec == Spec /\ \A s \in Student : WF_vars(Work(s))

-----------------------------------------------------------------------------
(* Correctness *)

Whole(l) == l \in Seq(Mark) /\ \A i, j \in DOMAIN l : l[i].course = l[j].course => i = j

Step == {"none", "hash", "load", "compare", "record", "update", "succeed"}

(* Every variable keeps its type.  A stored list and a slice have each     *)
(* course once: no reversal loses an element, however often it is retried. *)
TypeOK ==
    /\ \A s \in Student : Whole(marks[s]) /\ Whole(local[s].json) /\ Whole(local[s].old)
    /\ \A s \in Student : row[s] = None \/ Whole(row[s])
    /\ \A f \in Fetch : Whole(slice[f])
    /\ caller \in [Fetch -> Student \cup {None}]
    /\ adding \cup storing \subseteq {f \in Fetch : caller[f] # None}
    /\ copies \subseteq Student
    /\ offerings \subseteq Course
    /\ mailbox \subseteq [fetch : Fetch, index : Nat, course : Course]
    /\ pending \in [Student -> Task \cup {None}]
    /\ running \in [Student -> Task \cup {None}]
    /\ step \in [Student -> Step]
    /\ changed \cup announced \cup dropped \subseteq Student \X Course
    /\ sent \subseteq [course : Course, name : Course]
    /\ mishap \subseteq Student

(* A student's task announces a course only if the student's score of it   *)
(* has changed, new courses, late tasks and other students notwithstanding *)
(* -- until a task of the student has failed between reversing its slice   *)
(* and storing the list.  Until a task has, the name a notification shows, *)
(* read from the slice when it is sent, is that of the course whose        *)
(* subscribers receive it (get_scores.go:156, get_scores.go:181).          *)
AnnouncesOnlyChanges ==
    /\ \A s \in Student \ mishap : \A c \in Course :
           <<s, c>> \in announced => <<s, c>> \in changed
    /\ mishap = {} => \A p \in sent : p.name = p.course

(* The task of s has handed over the push for course c, or has had it      *)
(* dropped, and is to record the course next.                              *)
AboutToRecord(s, c) == step[s] = "record" /\ SliceOf(s)[local[s].at].course = c

(* A record in course_offerings silences a course for good.  None is made  *)
(* without a push for the course having been handed to the dispatcher, or  *)
(* dropped by its full queue, which the code only logs; and no push is     *)
(* handed over without the record being made: it is there, or next, unless *)
(* a task of the student has failed.                                       *)
RecordedIsAnnounced ==
    /\ \A c \in offerings : \E s \in Student : <<s, c>> \in announced \cup dropped
    /\ \A s \in Student \ mishap : \A c \in Course :
           <<s, c>> \in announced \cup dropped => c \in offerings \/ AboutToRecord(s, c)

(* "比较成绩是否更新": what is announced is a changed score.                *)
OnlyChangesAnnounced == announced \subseteq changed

=============================================================================
