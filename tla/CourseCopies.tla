----------------------------- MODULE CourseCopies -----------------------------
(***************************************************************************)
(* internal/course: a student's course list of a term is in the registry,  *)
(* in the user_course table and in Redis.  The student's own request       *)
(* fetches it from the registry and leaves it to tasks to store it in the  *)
(* other two; a calendar subscription reads Redis or the table, and has    *)
(* what it found in the table stored in Redis under the key the student's  *)
(* own requests use.                                                       *)
(*                                                                         *)
(* A list is its version.  Left out: the terms' own copy, so a request may *)
(* or may not find it; adjusted days (AdjustCourse) and exams (ExamNotify) *)
(* that the same request and task deal with.                               *)
(***************************************************************************)
EXTENDS Naturals, FiniteSets

CONSTANTS
    CourseTerm,      \* the two latest terms of the student
    Caller,          \* requests in progress at a time
    LastVersion,     \* bounds the model: versions of a list
    CourseBudgets    \* bounds the model: how often what may happen

CourseKinds == {"change", "own", "calendar", "expire", "fault", "crash"}

ASSUME CourseAssumption ==
    /\ LastVersion \in Nat \ {0}
    /\ "put" \notin CourseTerm
    /\ CourseBudgets \subseteq [CourseKinds -> Nat]

Version == 1 .. LastVersion
NoVersion == 0       \* no row, no copy, nothing answered yet

(* Tasks: "put" stores in the table, "cache" in Redis what a request has   *)
(* fetched ("own") or read from the table ("row").  One key of a student   *)
(* serves the puts of every term.                                          *)
CourseTask == [kind : {"put", "own", "row"}, term : CourseTerm, version : Version]
CourseKey == {"put"} \cup CourseTerm
CourseKeyOf == [t \in CourseTask |-> IF t.kind = "put" THEN "put" ELSE t.term]
NoTask == [kind |-> "none"]

VARIABLES
    registry,      \* registry[t]: the version the registry has
    courseRow,     \* courseRow[t]: the version in the table
    courseCopy,    \* courseCopy[t]: the version in Redis
    caller,        \* caller[c]: the next step of a request and its locals
    courseWaits,   \* the executor's tasks
    courseRuns,
    courseLeft,    \* what is left of the budget
    answered,      \* history: the newest version the student was answered
    handed,        \* history: the newest version handed to a put task
    copyCause,     \* history: why the copy is older than what was answered
    rowCause       \* history: why the row is older than what was handed over

courseVars == <<registry, courseRow, courseCopy, caller, courseWaits, courseRuns,
                courseLeft, answered, handed, copyCause, rowCause>>

CourseExecutor == INSTANCE SerialExecutor WITH
    Key <- CourseKey, Task <- CourseTask, Periodic <- {}, None <- NoTask,
    KeyOf <- CourseKeyOf, pending <- courseWaits, running <- courseRuns

Ended == [step |-> "ended"]

CourseInit ==
    /\ registry = [t \in CourseTerm |-> 1]
    /\ courseRow = [t \in CourseTerm |-> NoVersion]
    /\ courseCopy = [t \in CourseTerm |-> NoVersion]
    /\ caller = [c \in Caller |-> Ended]
    /\ CourseExecutor!Init
    /\ courseLeft \in CourseBudgets
    /\ answered = [t \in CourseTerm |-> NoVersion] /\ handed = [t \in CourseTerm |-> NoVersion]
    /\ copyCause = [t \in CourseTerm |-> {}] /\ rowCause = [t \in CourseTerm |-> {}]

Costs(kind) == courseLeft[kind] > 0 /\ courseLeft' = [courseLeft EXCEPT ![kind] = @ - 1]

Later(a, b) == IF a > b THEN a ELSE b

(* What a task that waits is worth: the version it will store for a term.  *)
Brings(task, kinds, t) ==
    IF task # NoTask /\ task.kind \in kinds /\ task.term = t THEN task.version ELSE NoVersion

(* GetCourseList from Redis: no refresh is asked for, and there is a copy. *)
AnswerCopy(c, t) ==
    /\ caller[c] = Ended
    /\ Costs("own")
    /\ courseCopy[t] # NoVersion
    /\ answered' = [answered EXCEPT ![t] = Later(@, courseCopy[t])]
    /\ UNCHANGED <<registry, courseRow, courseCopy, caller, courseWaits, courseRuns,
                   handed, copyCause, rowCause>>

(* GetCourseList from the registry: a refresh is asked for, or a copy or   *)
(* the terms' copy is missing.                                             *)
FetchCourses(c, t) ==
    /\ caller[c] = Ended
    /\ Costs("own")
    /\ caller' = [caller EXCEPT ![c] = [step |-> "put", term |-> t, version |-> registry[t]]]
    /\ UNCHANGED <<registry, courseRow, courseCopy, courseWaits, courseRuns,
                   answered, handed, copyCause, rowCause>>

(* Add of putCourse:<student>; it replaces the put of any term that waits. *)
AddPutCourse(c) ==
    LET r == caller[c]
        task == [kind |-> "put", term |-> r.term, version |-> r.version]
        old == courseWaits["put"]
    IN
    /\ r.step = "put"
    /\ CourseExecutor!Submit(task)
    /\ caller' = [caller EXCEPT ![c].step = "own"]
    /\ handed' = [handed EXCEPT ![r.term] = Later(@, r.version)]
    /\ rowCause' = [t \in CourseTerm |->
          rowCause[t] \cup (IF Brings(old, {"put"}, t) > Brings(task, {"put"}, t)
                            THEN {"replaced"} ELSE {})]
    /\ UNCHANGED <<registry, courseRow, courseCopy, courseRuns, courseLeft, answered, copyCause>>

(* Add of course:<student>:<term>, by either request, and the answer.      *)
AddCourseCache(c) ==
    LET r == caller[c]
        task == [kind |-> r.step, term |-> r.term, version |-> r.version]
        old == courseWaits[r.term]
    IN
    /\ r.step \in {"own", "row"}
    /\ CourseExecutor!Submit(task)
    /\ caller' = [caller EXCEPT ![c] = Ended]
    /\ answered' = IF r.step = "own" THEN [answered EXCEPT ![r.term] = Later(@, r.version)]
                   ELSE answered
    /\ copyCause' = [copyCause EXCEPT ![r.term] =
          @ \cup IF Brings(old, {"own", "row"}, r.term) > r.version \/ answered[r.term] > r.version
                 THEN {"replaced"} ELSE {}]
    /\ UNCHANGED <<registry, courseRow, courseCopy, courseRuns, courseLeft, handed, rowCause>>

(* getSemesterCourses for a calendar, without a copy but with a row.       *)
GetSemesterCourses(c, t) ==
    /\ caller[c] = Ended
    /\ Costs("calendar")
    /\ courseCopy[t] = NoVersion /\ courseRow[t] # NoVersion
    /\ caller' = [caller EXCEPT ![c] = [step |-> "row", term |-> t, version |-> courseRow[t]]]
    /\ UNCHANGED <<registry, courseRow, courseCopy, courseWaits, courseRuns,
                   answered, handed, copyCause, rowCause>>

(* The list of adjusted days cannot be read: an error is answered, though  *)
(* the put task of an own request has been added.                          *)
CallerFails(c) ==
    /\ caller[c].step \in {"own", "row"}
    /\ Costs("fault")
    /\ caller' = [caller EXCEPT ![c] = Ended]
    /\ UNCHANGED <<registry, courseRow, courseCopy, courseWaits, courseRuns,
                   answered, handed, copyCause, rowCause>>

BeginCourseTask(k) ==
    /\ CourseExecutor!Begin(k)
    /\ UNCHANGED <<registry, courseRow, courseCopy, caller, courseLeft, answered, handed,
                   copyCause, rowCause>>

(* putCourseToDatabase reads the row's digest and inserts or updates; the  *)
(* task is the row's only writer.                                          *)
PutCourse(task) == courseRow' = [courseRow EXCEPT ![task.term] = task.version]

(* The task stores and succeeds; what was added meanwhile is erased.       *)
PutSucceeds ==
    LET task == courseRuns["put"]
        late == courseWaits["put"]
    IN
    /\ task # NoTask
    /\ PutCourse(task)
    /\ CourseExecutor!Succeed("put")
    /\ rowCause' = [t \in CourseTerm |->
          IF late # task /\ Brings(late, {"put"}, t) > courseRow'[t] THEN rowCause[t] \cup {"erased"}
          ELSE IF t = task.term /\ task.version < handed[t] THEN rowCause[t] \cup {"late"}
          ELSE rowCause[t]]
    /\ UNCHANGED <<registry, courseCopy, caller, courseLeft, answered, handed, copyCause>>

(* Mutant of SetCoursesCache: SET NX.                                      *)
SetCoursesCache_KeepsOld(task) ==
    courseCopy' = [courseCopy EXCEPT ![task.term] = IF @ = NoVersion THEN task.version ELSE @]

SetCoursesCache(task) == courseCopy' = [courseCopy EXCEPT ![task.term] = task.version]

CacheSucceeds(t) ==
    LET task == courseRuns[t] IN
    /\ task # NoTask
    /\ SetCoursesCache(task)
    /\ CourseExecutor!Succeed(t)
    /\ copyCause' = [copyCause EXCEPT ![t] =
          IF task.version >= answered[t] THEN {}
          ELSE @ \cup {IF task.kind = "row" THEN "row" ELSE "late"}]
    /\ UNCHANGED <<registry, courseRow, caller, courseLeft, answered, handed, rowCause>>

(* A statement fails, or for a put the comparison of the exams that        *)
(* follows the statement: the task stays.                                  *)
CourseTaskFails(k) ==
    /\ courseRuns[k] # NoTask
    /\ Costs("fault")
    /\ CourseExecutor!Release(k)
    /\ \/ UNCHANGED courseRow
       \/ k = "put" /\ PutCourse(courseRuns[k])
    /\ rowCause' = IF k # "put" THEN rowCause
                   ELSE [rowCause EXCEPT ![courseRuns[k].term] =
                           IF courseRow'[courseRuns[k].term] < courseRow[courseRuns[k].term]
                           THEN @ \cup {"late"} ELSE @]
    /\ UNCHANGED <<registry, courseCopy, caller, answered, handed, copyCause>>

(* The registry changes a list; a copy expires after three days; the       *)
(* process ends and starts again.                                          *)
RegistryChanges(t) ==
    /\ Costs("change")
    /\ registry[t] < LastVersion
    /\ registry' = [registry EXCEPT ![t] = @ + 1]
    /\ UNCHANGED <<courseRow, courseCopy, caller, courseWaits, courseRuns, answered, handed,
                   copyCause, rowCause>>

CourseCopyExpires(t) ==
    /\ Costs("expire")
    /\ courseCopy[t] # NoVersion
    /\ courseCopy' = [courseCopy EXCEPT ![t] = NoVersion]
    /\ UNCHANGED <<registry, courseRow, caller, courseWaits, courseRuns, answered, handed,
                   copyCause, rowCause>>

CourseCrash ==
    /\ Costs("crash")
    /\ caller' = [c \in Caller |-> Ended]
    /\ courseWaits' = [k \in CourseKey |-> NoTask]
    /\ courseRuns' = [k \in CourseKey |-> NoTask]
    /\ copyCause' = [t \in CourseTerm |-> copyCause[t] \cup {"crash"}]
    /\ rowCause' = [t \in CourseTerm |-> rowCause[t] \cup {"crash"}]
    /\ UNCHANGED <<registry, courseRow, courseCopy, answered, handed>>

CourseNext ==
    \/ \E c \in Caller :
        \/ \E t \in CourseTerm : AnswerCopy(c, t) \/ FetchCourses(c, t) \/ GetSemesterCourses(c, t)
        \/ AddPutCourse(c) \/ AddCourseCache(c) \/ CallerFails(c)
    \/ \E k \in CourseKey : BeginCourseTask(k) \/ CourseTaskFails(k)
    \/ \E t \in CourseTerm : CacheSucceeds(t) \/ RegistryChanges(t) \/ CourseCopyExpires(t)
    \/ PutSucceeds
    \/ CourseCrash

CourseSpec == CourseInit /\ [][CourseNext]_courseVars

-----------------------------------------------------------------------------
(* Properties                                                              *)

CourseTypeOK ==
    /\ registry \in [CourseTerm -> Version]
    /\ {courseRow, courseCopy, answered, handed} \subseteq [CourseTerm -> Version \cup {NoVersion}]
    /\ \A c \in Caller : caller[c] # Ended =>
        caller[c] \in [step : {"put", "own", "row"}, term : CourseTerm, version : Version]
    /\ {courseWaits, courseRuns} \subseteq [CourseKey -> CourseTask \cup {NoTask}]
    /\ courseLeft \in [CourseKinds -> Nat]

(* Redis is behind what the student was answered only while a task that    *)
(* brings it waits, or because an older list was added or stored later, a  *)
(* calendar's from the table among them, or because of a crash             *)
(* (get_course_list.go:108, get_course_list.go:410).                       *)
CopyBehind(t) ==
    courseCopy[t] # NoVersion /\ courseCopy[t] < answered[t] =>
        \/ Brings(courseWaits[t], {"own", "row"}, t) >= answered[t]
        \/ copyCause[t] # {}

(* The table is behind what was handed to a put task only while that task  *)
(* waits or runs, or because the put of another term or of an older list   *)
(* took its place, it was erased by the success of one that ran, or by a   *)
(* crash (get_course_list.go:93).                                          *)
RowBehind(t) ==
    courseRow[t] < handed[t] =>
        \/ Brings(courseWaits["put"], {"put"}, t) >= handed[t]
        \/ rowCause[t] # {}

(* Neither copy of a list, in Redis or in the table, falls behind what the *)
(* student was shown without one of the causes above.                      *)
BehindExplained == \A t \in CourseTerm : CopyBehind(t) /\ RowBehind(t)

=============================================================================
