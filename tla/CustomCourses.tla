----------------------------- MODULE CustomCourses -----------------------------
(***************************************************************************)
(* internal/course/service/custom_course.go: courses a student has added   *)
(* to a term.  A Redis copy of the list is filled by a task that stores    *)
(* what a request has read, and after each change by a task that reads the *)
(* table; both tasks have the same key.                                    *)
(*                                                                         *)
(* One student and one term.  A course is its content, all that the unique *)
(* key of the table compares; colour and remark, which it does not, travel *)
(* with it.  Bad terms, ids and values are refused before anything is read.*)
(***************************************************************************)
EXTENDS Naturals, FiniteSets

CONSTANTS
    CourseId,        \* ids the generator hands out, enough of them
    Content,
    Client,          \* requests in progress at a time
    Absent,          \* no row, no copy
    CustomBudgets    \* bounds the model: how often what may happen

CustomKinds == {"view", "create", "update", "delete", "expire", "fault", "crash"}

ASSUME CustomAssumption ==
    /\ Absent \notin Content \cup CourseId
    /\ CustomBudgets \subseteq [CustomKinds -> Nat]

CustomList == SUBSET (CourseId \X Content)
CustomTask == [kind : {"fill"}, list : CustomList] \cup {[kind |-> "refresh"]}
Nothing == [kind |-> "nothing"]

VARIABLES
    custom,        \* custom[i]: the content of a live row, or Absent
    customCopy,    \* the list in Redis
    client,        \* client[c]: the next step of a request and its locals
    customWaits,   \* the task that waits under the key
    customRuns,    \* the task that runs
    customGot,     \* the list a running refresh has read, or Absent
    customLeft,    \* what is left of the budget
    customCause    \* history: why the copy may differ from the table

customVars == <<custom, customCopy, client, customWaits, customRuns, customGot,
                customLeft, customCause>>

CustomKey == {"custom"}
CustomExecutor == INSTANCE SerialExecutor WITH
    Key <- CustomKey, Task <- CustomTask, Periodic <- {}, None <- Nothing,
    KeyOf <- [t \in CustomTask |-> "custom"], pending <- customWaits, running <- customRuns

GetCustomCoursesRows == {<<i, custom[i]>> : i \in {j \in CourseId : custom[j] # Absent}}
Free == [step |-> "free"]
Refresh == [step |-> "refresh"]

CustomInit ==
    /\ custom = [i \in CourseId |-> Absent]
    /\ customCopy \in {Absent, {}}
    /\ client = [c \in Client |-> Free]
    /\ CustomExecutor!Init
    /\ customGot = Absent
    /\ customLeft \in CustomBudgets
    /\ customCause = {}

Pays(kind) == customLeft[kind] > 0 /\ customLeft' = [customLeft EXCEPT ![kind] = @ - 1]

Accept(c, request) == client[c] = Free /\ client' = [client EXCEPT ![c] = request]
Turn(c, state) == client' = [client EXCEPT ![c] = state]

(* GetCustomCourses without a copy: the rows are read, a task is added.    *)
GetCustomCourses(c) ==
    /\ Pays("view")
    /\ customCopy = Absent
    /\ Accept(c, [step |-> "fill", list |-> GetCustomCoursesRows])
    /\ UNCHANGED <<custom, customCopy, customWaits, customRuns, customGot, customCause>>

(* The task that waits under the key is replaced, a refresh by an older    *)
(* list too.                                                               *)
AddFill(c) ==
    /\ client[c].step = "fill"
    /\ CustomExecutor!Submit([kind |-> "fill", list |-> client[c].list])
    /\ Turn(c, Free)
    /\ customCause' = IF customWaits["custom"] = [kind |-> "refresh"]
                      THEN customCause \cup {"replaced"} ELSE customCause
    /\ UNCHANGED <<custom, customCopy, customRuns, customGot, customLeft>>

RefreshCustomCourseCache(c) ==
    /\ client[c].step = "refresh"
    /\ CustomExecutor!Submit([kind |-> "refresh"])
    /\ Turn(c, Free)
    /\ UNCHANGED <<custom, customCopy, customRuns, customGot, customLeft, customCause>>

Taken(x) == \E i \in CourseId : custom[i] = x

(* UpsertCustomCourse without an id: the insert, which the unique key of   *)
(* the table may refuse.                                                   *)
CreateCustomCourse(c, x) ==
    /\ Pays("create")
    /\ IF Taken(x)
       THEN client[c] = Free /\ UNCHANGED <<client, custom>>
       ELSE /\ Accept(c, Refresh)
            /\ \E i \in {j \in CourseId : custom[j] = Absent} : custom' = [custom EXCEPT ![i] = x]
    /\ UNCHANGED <<customCopy, customWaits, customRuns, customGot, customCause>>

(* updateCustomCourse and DeleteCustomCourse look the row up first.        *)
GetCustomCourseByID(c, i, kind, x) ==
    /\ Pays(kind)
    /\ custom[i] # Absent
    /\ Accept(c, [step |-> kind, id |-> i, content |-> x])
    /\ UNCHANGED <<custom, customCopy, customWaits, customRuns, customGot, customCause>>

(* The update of a row that is gone changes nothing and succeeds; the      *)
(* content of another row is refused.                                      *)
UpdateCustomCourse(c) ==
    LET u == client[c] IN
    /\ u.step = "update"
    /\ IF custom[u.id] = Absent THEN Turn(c, Refresh) /\ UNCHANGED custom
       ELSE IF u.content # custom[u.id] /\ Taken(u.content) THEN Turn(c, Free) /\ UNCHANGED custom
       ELSE Turn(c, Refresh) /\ custom' = [custom EXCEPT ![u.id] = u.content]
    /\ UNCHANGED <<customCopy, customWaits, customRuns, customGot, customLeft, customCause>>

(* Mutant of DeleteCustomCourse: the copy is not refreshed.                *)
DeleteCustomCourse_NoRefresh(c) ==
    /\ client[c].step = "delete"
    /\ Turn(c, Free)
    /\ custom' = [custom EXCEPT ![client[c].id] = Absent]
    /\ UNCHANGED <<customCopy, customWaits, customRuns, customGot, customLeft, customCause>>

(* A delete that affects no row is an error.                               *)
DeleteCustomCourse(c) ==
    LET u == client[c] IN
    /\ u.step = "delete"
    /\ Turn(c, IF custom[u.id] = Absent THEN Free ELSE Refresh)
    /\ custom' = [custom EXCEPT ![u.id] = Absent]
    /\ UNCHANGED <<customCopy, customWaits, customRuns, customGot, customLeft, customCause>>

ClientFails(c) ==
    /\ client[c].step \in {"update", "delete"}
    /\ Pays("fault")
    /\ Turn(c, Free)
    /\ UNCHANGED <<custom, customCopy, customWaits, customRuns, customGot, customCause>>

BeginCustomTask ==
    /\ CustomExecutor!Begin("custom")
    /\ UNCHANGED <<custom, customCopy, client, customGot, customLeft, customCause>>

RefreshReads ==
    /\ customRuns["custom"] = [kind |-> "refresh"] /\ customGot = Absent
    /\ customGot' = GetCustomCoursesRows
    /\ UNCHANGED <<custom, customCopy, client, customWaits, customRuns, customLeft, customCause>>

(* SetCustomCoursesCache and success, which erases what was added since.   *)
SetCustomCoursesCache ==
    LET task == customRuns["custom"]
        list == IF task.kind = "fill" THEN task.list ELSE customGot
    IN
    /\ task # Nothing /\ list # Absent
    /\ customCopy' = list /\ customGot' = Absent
    /\ CustomExecutor!Succeed("custom")
    /\ customCause' = IF list = GetCustomCoursesRows THEN {}
                      ELSE customCause \cup (IF task.kind = "fill" THEN {"late"} ELSE {})
                             \cup (IF task.kind = "refresh" /\ customWaits["custom"] # Nothing
                                   THEN {"erased"} ELSE {})
    /\ UNCHANGED <<custom, client, customLeft>>

CustomTaskFails ==
    /\ customRuns["custom"] # Nothing
    /\ Pays("fault")
    /\ CustomExecutor!Release("custom")
    /\ customGot' = Absent
    /\ UNCHANGED <<custom, customCopy, client, customCause>>

CustomCopyExpires ==
    /\ Pays("expire")
    /\ customCopy # Absent /\ customCopy' = Absent
    /\ UNCHANGED <<custom, client, customWaits, customRuns, customGot, customCause>>

CustomCrash ==
    /\ Pays("crash")
    /\ client' = [c \in Client |-> Free]
    /\ customWaits' = [k \in CustomKey |-> Nothing] /\ customRuns' = [k \in CustomKey |-> Nothing]
    /\ customGot' = Absent
    /\ customCause' = customCause \cup {"crash"}
    /\ UNCHANGED <<custom, customCopy>>

CustomNext ==
    \/ \E c \in Client :
        \/ GetCustomCourses(c) \/ AddFill(c) \/ RefreshCustomCourseCache(c)
        \/ \E x \in Content : CreateCustomCourse(c, x)
        \/ \E i \in CourseId, x \in Content : GetCustomCourseByID(c, i, "update", x)
        \/ \E i \in CourseId : GetCustomCourseByID(c, i, "delete", Absent)
        \/ UpdateCustomCourse(c) \/ DeleteCustomCourse(c) \/ ClientFails(c)
    \/ BeginCustomTask \/ RefreshReads \/ SetCustomCoursesCache \/ CustomTaskFails
    \/ CustomCopyExpires \/ CustomCrash

CustomSpec == CustomInit /\ [][CustomNext]_customVars

-----------------------------------------------------------------------------
(* Properties                                                              *)

CustomTypeOK ==
    /\ custom \in [CourseId -> Content \cup {Absent}]
    /\ customCopy = Absent \/ customCopy \in CustomList
    /\ customGot = Absent \/ customGot \in CustomList
    /\ \A c \in Client : client[c].step \in {"free", "fill", "refresh", "update", "delete"}
    /\ {customWaits, customRuns} \subseteq [CustomKey -> CustomTask \cup {Nothing}]
    /\ customLeft \in [CustomKinds -> Nat]

(* The copy differs from the table only while a refresh is to come, or     *)
(* because a fill with an older list was stored late or took the place of  *)
(* the refresh that waited, the refresh was erased by the success of the   *)
(* one that ran, or the process ended (custom_course.go:56, 63).           *)
CustomCopyExplained ==
    customCopy \notin {Absent, GetCustomCoursesRows} =>
        \/ customWaits["custom"] = [kind |-> "refresh"]
        \/ \E c \in Client : client[c].step = "refresh"
        \/ customCause # {}

=============================================================================
