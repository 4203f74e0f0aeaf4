---------------------------- MODULE TeacherScores ----------------------------
(***************************************************************************)
(* internal/academic and cmd/academic: the score table, one row of marks   *)
(* per student, is spread over a table of records by course, teacher, term *)
(* and student, in batches by student number.  A run is due every day at   *)
(* four, on the task queue; an operator may run one in a process of its    *)
(* own at any time (-run-task), so that two may overlap and the one that   *)
(* has read earlier may write later.                                       *)
(*                                                                         *)
(* A student's row only matters by its marks: it goes through the versions *)
(* Marks[1], Marks[2], ..., each a function from the key of a record to a  *)
(* score; scores are numbered from 1, as 0 is no record.  Version 0 is no  *)
(* row.  Names fit their columns.                                          *)
(***************************************************************************)
EXTENDS Naturals, FiniteSets

CONSTANTS
    Students,        \* student numbers are 1 .. Students
    BatchSize,       \* CourseTeacherScoresBatchReadSize
    Marks,           \* the versions of a row
    ScoreBudgets     \* bounds the model: changed rows, operator's runs, errors

ASSUME TeacherScoresAssumption ==
    /\ Students \in Nat
    /\ BatchSize \in Nat \ {0}
    /\ DOMAIN Marks \subseteq Nat \ {0}
    /\ \A v \in DOMAIN Marks : \A k \in DOMAIN Marks[v] : Marks[v][k] \in Nat \ {0}
    /\ ScoreBudgets \subseteq [{"change", "manual", "fault"} -> Nat]

VARIABLES
    scores,          \* scores[s]: the version of a student's row
    records,         \* records[s]: the scores in the record table, by key
    runner,          \* runner[r]: the step of a run, the last student read, the batch
    scoreLeft        \* what is left of the budget

scoresVars == <<scores, records, runner, scoreLeft>>

Student == 1 .. Students
Runner == {"scheduled", "manual"}
RunRests == [step |-> "rests"]
Key == UNION {DOMAIN Marks[v] : v \in DOMAIN Marks}
NoRecord == 0

TeacherScoresInit ==
    /\ scores = [s \in Student |-> 0]
    /\ records = [s \in Student |-> [k \in Key |-> NoRecord]]
    /\ runner = [r \in Runner |-> RunRests]
    /\ scoreLeft \in ScoreBudgets

UseUp(kind) ==
    /\ scoreLeft[kind] > 0
    /\ scoreLeft' = [scoreLeft EXCEPT ![kind] = @ - 1]

(* A student's scores are stored or change (handleScoreChange).            *)
ScoreRowChanges(s) ==
    /\ scores[s] + 1 \in DOMAIN Marks
    /\ UseUp("change")
    /\ scores' = [scores EXCEPT ![s] = @ + 1]
    /\ UNCHANGED <<records, runner>>

Reads(last) == [step |-> "read", last |-> last]

(* UpdateCourseTeacherScores begins before the first student.              *)
BeginUpdate(r) ==
    /\ runner[r] = RunRests
    /\ IF r = "manual" THEN UseUp("manual") ELSE UNCHANGED scoreLeft
    /\ runner' = [runner EXCEPT ![r] = Reads(0)]
    /\ UNCHANGED <<scores, records>>

Beyond(last) == {s \in Student : s > last /\ scores[s] # 0}

(* GetScoresBatchByStuId; without another row the run has succeeded.       *)
GetScoresBatchByStuId(r) ==
    LET rows == Beyond(runner[r].last)
        batch == {s \in rows : Cardinality({t \in rows : t < s}) < BatchSize} IN
    /\ runner[r].step = "read"
    /\ runner' = [runner EXCEPT ![r] =
          IF batch = {} THEN RunRests
          ELSE [step |-> "upsert", batch |-> {[student |-> s, version |-> scores[s]] : s \in batch}]]
    /\ UNCHANGED <<scores, records, scoreLeft>>

(* The next batch begins after the last student of this one.               *)
LastOf(batch) == CHOOSE s \in {b.student : b \in batch} : \A b \in batch : b.student <= s

(* Mutant of Upserted: a record that exists keeps its score.               *)
Upserted_KeepsScore(old, marks) ==
    [k \in Key |-> IF k \in DOMAIN marks /\ old[k] = NoRecord THEN marks[k] ELSE old[k]]

Upserted(old, marks) == [k \in Key |-> IF k \in DOMAIN marks THEN marks[k] ELSE old[k]]

(* UpsertCourseTeacherScores, one transaction however many records.        *)
UpsertCourseTeacherScores(r) ==
    LET batch == runner[r].batch IN
    /\ runner[r].step = "upsert"
    /\ records' = [s \in Student |->
          IF \E b \in batch : b.student = s
          THEN Upserted(records[s], Marks[(CHOOSE b \in batch : b.student = s).version])
          ELSE records[s]]
    /\ runner' = [runner EXCEPT ![r] = Reads(LastOf(batch))]
    /\ UNCHANGED <<scores, scoreLeft>>

(* A statement fails, or the process ends: a scheduled run begins anew.    *)
UpdateFails(r) ==
    /\ runner[r] # RunRests
    /\ UseUp("fault")
    /\ runner' = [runner EXCEPT ![r] = RunRests]
    /\ UNCHANGED <<scores, records>>

RunStep(r) == BeginUpdate(r) \/ GetScoresBatchByStuId(r) \/ UpsertCourseTeacherScores(r)

TeacherScoresNext ==
    \/ \E s \in Student : ScoreRowChanges(s)
    \/ \E r \in Runner : RunStep(r) \/ UpdateFails(r)

TeacherScoresSpec == TeacherScoresInit /\ [][TeacherScoresNext]_scoresVars

-----------------------------------------------------------------------------
(* Properties                                                              *)

TeacherScoresTypeOK ==
    /\ scores \in [Student -> {0} \cup DOMAIN Marks]
    /\ records \in [Student -> [Key -> Nat]]
    /\ \A r \in Runner : runner[r] # RunRests =>
        \/ runner[r] \in [step : {"read"}, last : {0} \cup Student]
        \/ runner[r].step = "upsert" /\ runner[r].batch # {}

Spread(s) ==
    scores[s] # 0 => \A k \in DOMAIN Marks[scores[s]] : records[s][k] = Marks[scores[s]][k]

AllSpread == \A s \in Student : Spread(s)

(* Every record is of a row that this student has had, however the batches *)
(* of two runs are cut and mixed (update_course_teacher_scores.go:86-129). *)
RecordsWereMarks ==
    \A s \in Student, k \in Key :
        \/ records[s][k] = NoRecord
        \/ \E v \in DOMAIN Marks :
              /\ v <= scores[s]
              /\ k \in DOMAIN Marks[v] /\ records[s][k] = Marks[v][k]

(* A run is about to write a row that has changed since it was read.       *)
LateFor(s) ==
    \E r \in Runner :
        /\ runner[r].step = "upsert"
        /\ \E b \in runner[r].batch : b.student = s /\ b.version < scores[s]

(* Records that have caught up with a student's marks fall behind again    *)
(* only with a change of the marks, or by a run that has read them before  *)
(* their last change: no error, no start and no other batch sets them      *)
(* back (update_course_teacher_scores.go:90, 119).                         *)
OnlyLateSetsBack ==
    [][\A s \in Student :
          Spread(s) /\ ~Spread(s)' => scores'[s] # scores[s] \/ LateFor(s)]_scoresVars

(* Whatever two runs that overlap overwrite with older scores, whatever    *)
(* fails, and wherever a row appears behind a run: the table of records    *)
(* gets to the marks of all students again and again                       *)
(* (update_course_teacher_scores.go:74-129, main.go:91-102).               *)
ScoresReachRecords == []<>AllSpread

=============================================================================
