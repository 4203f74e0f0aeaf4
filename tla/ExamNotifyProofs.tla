--------------------------- MODULE ExamNotifyProofs ---------------------------
(***************************************************************************)
(* What is proved of the notifications about exams for any students,       *)
(* terms, exams and times: a change is handed over at most once, a claimed *)
(* change is accounted for, and no snapshot moves past a change that       *)
(* nobody has claimed.                                                     *)
(*                                                                         *)
(* That a new claim is nobody else's rests on exam_offerings holding every *)
(* change that is handed over or about to be (ClaimAccounted).  That a     *)
(* commit swallows nothing rests on the comparison it ends: until then the *)
(* snapshot stays what it was compared with, and each difference is still  *)
(* to be claimed or is in exam_offerings (ComparedInv).                    *)
(***************************************************************************)
EXTENDS ExamNotify, TLAPS

(* A task is at work where the executor runs one, and has found or put     *)
(* down a row before it looks at the snapshot.                             *)
WorkInv ==
    \A s \in Student :
        /\ step[s] = "none" <=> running[s] = None
        /\ step[s] \in {"compare", "claim", "enqueue", "commit"} => Snapshot(s) # NoRow

Moves(s) == Changes(Snapshot(s), running[s].exams)

ComparedInv ==
    \A s \in Student :
        Snapshot(s) # NoSnapshot =>
            /\ step[s] = "claim" => Moves(s) \subseteq todo[s] \cup offerings
            /\ step[s] \in {"enqueue", "commit"} => Moves(s) \subseteq offerings

IInv == TypeOK /\ WorkInv /\ ComparedInv /\ NotifiedOnce /\ ClaimAccounted

-----------------------------------------------------------------------------
(* Lists of exams *)

(* What the registry shows of a term is a list of exams of this term.      *)
LEMMA ListIsExams ==
    ASSUME NEW term \in Term, NEW times \in [Exam -> Time \cup {NoTime}]
    PROVE  ListOf(term, times) \in Exams(term)
BY DEF ListOf, Exams

(* Two lists of a term differ by changes.                                  *)
LEMMA ChangesAreChange ==
    ASSUME NEW term \in Term, NEW old \in Exams(term), NEW new \in Exams(term)
    PROVE  Changes(old, new) \subseteq Change
<1>1. ASSUME NEW e \in DOMAIN new, old[e] # new[e]
      PROVE  [exam |-> e, old |-> old[e], new |-> new[e]] \in Change
  <2>1. /\ e \in Exam
        /\ old[e] \in Time \cup {NoTime}
        /\ new[e] \in Time \cup {NoTime}
    BY DEF Exams
  <2>2. QED
    BY <1>1, <2>1 DEF Change
<1>2. QED
  BY <1>1 DEF Changes

(* The parts of a task, and the key it is added under.                     *)
LEMMA TaskParts ==
    ASSUME NEW t \in Task
    PROVE  /\ t.stu \in Student
           /\ t.term \in Term
           /\ t.exams \in Exams(t.term)
           /\ KeyOf[t] \in Student
<1>1. PICK term \in Term : t \in [stu : Student, term : {term}, exams : Exams(term)]
  BY DEF Task
<1>2. QED
  BY <1>1 DEF KeyOf

LEMMA FetchedTask ==
    ASSUME NEW s \in Student, NEW term \in Term, NEW times \in [Exam -> Time \cup {NoTime}]
    PROVE  [stu |-> s, term |-> term, exams |-> ListOf(term, times)] \in Task
<1>1. ListOf(term, times) \in Exams(term)
  BY ListIsExams
<1>2. QED
  BY <1>1 DEF Task

(* What a task at work stands on: its row, its list and what differs.      *)
LEMMA AtWork ==
    ASSUME TypeOK, WorkInv, NEW s \in Student, step[s] # "none"
    PROVE  /\ running[s] \in Task
           /\ running[s] # None
           /\ running[s].term \in Term
           /\ running[s].exams \in Exams(running[s].term)
           /\ Snapshot(s) \in Exams(running[s].term) \cup {NoRow, NoSnapshot}
<1>1. running[s] \in Task /\ running[s] # None
  BY DEF TypeOK, WorkInv
<1>2. QED
  BY <1>1, TaskParts DEF TypeOK, Snapshot

(* SetSnapshot changes the row of the task's student and term only.        *)
LEMMA SetSnapshotStep ==
    ASSUME TypeOK, WorkInv, NEW s \in Student, step[s] # "none",
           NEW v \in Exams(running[s].term) \cup {NoRow, NoSnapshot},
           SetSnapshot(s, v)
    PROVE  /\ DOMAIN row' = Student
           /\ \A u \in Student : DOMAIN row'[u] = Term
           /\ \A u \in Student, term \in Term :
                 row'[u][term] = IF u = s /\ term = running[s].term THEN v ELSE row[u][term]
           /\ \A u \in Student, term \in Term :
                 row'[u][term] \in Exams(term) \cup {NoRow, NoSnapshot}
<1>1. running[s].term \in Term
  BY AtWork
<1>2. /\ DOMAIN row' = Student
      /\ \A u \in Student : DOMAIN row'[u] = Term
      /\ \A u \in Student, term \in Term :
            row'[u][term] = IF u = s /\ term = running[s].term THEN v ELSE row[u][term]
  BY <1>1 DEF SetSnapshot, TypeOK
<1>3. QED
  BY <1>2 DEF TypeOK

-----------------------------------------------------------------------------
(* Initially *)

LEMMA InitInv ==
    ASSUME Init
    PROVE  IInv
<1>1. published \in [Exam -> Time \cup {NoTime}]
  BY DEF Init
<1>2. /\ DOMAIN row = Student
      /\ \A s \in Student : DOMAIN row[s] = Term
      /\ \A s \in Student, term \in Term : row[s][term] \in Exams(term) \cup {NoRow, NoSnapshot}
  <2>1. ASSUME NEW s \in Student
        PROVE  /\ DOMAIN row[s] = Term
               /\ \A term \in Term : row[s][term] \in Exams(term) \cup {NoRow, NoSnapshot}
    <3>1. \/ row[s] \in {[term \in Term |-> v] : v \in {NoRow, NoSnapshot}}
          \/ row[s] = [term \in Term |-> ListOf(term, published)]
      BY DEF Init
    <3>2. QED
      BY <3>1, <1>1, ListIsExams
  <2>2. DOMAIN row = Student
    BY DEF Init
  <2>3. QED
    BY <2>1, <2>2
<1>3. TypeOK
  BY <1>1, <1>2 DEF Init, Executor!Init, TypeOK
<1>4. WorkInv /\ ComparedInv /\ NotifiedOnce /\ ClaimAccounted
  BY DEF Init, Executor!Init, WorkInv, ComparedInv, NotifiedOnce, ClaimAccounted
<1>5. QED
  BY <1>3, <1>4 DEF IInv

(* What a step of the executor does to the type of its tasks.              *)
LEMMA SubmitTyped ==
    ASSUME TypeOK, NEW t \in Task, Executor!Submit(t)
    PROVE  /\ pending' \in [Student -> Task \cup {None}]
           /\ running' = running
BY TaskParts DEF TypeOK, Executor!Submit

-----------------------------------------------------------------------------
(* The registry and the refreshes leave the tasks at work alone.           *)

LEMMA RefreshKeeps ==
    ASSUME IInv,
           \/ \E e \in Exam, t \in Time \cup {NoTime} : Publish(e, t)
           \/ \E f \in Flight, s \in Student, term \in Term : Fetch(f, s, term)
           \/ \E f \in Flight : AddTask(f)
    PROVE  IInv'
<1> USE DEF IInv
<1>1. UNCHANGED <<row, offerings, running, step, todo, claimed, handed, lost>>
  BY DEF Publish, Fetch, AddTask, task, Executor!Submit
<1>2. /\ published' \in [Exam -> Time \cup {NoTime}]
      /\ fetched' \in [Flight -> Task \cup {None}]
      /\ pending' \in [Student -> Task \cup {None}]
  <2>1. CASE \E e \in Exam, t \in Time \cup {NoTime} : Publish(e, t)
    BY <2>1 DEF Publish, TypeOK
  <2>2. ASSUME NEW f \in Flight, NEW s \in Student, NEW term \in Term, Fetch(f, s, term)
        PROVE  <1>2
    <3>1. [stu |-> s, term |-> term, exams |-> ListOf(term, published)] \in Task
      BY FetchedTask DEF TypeOK
    <3>2. QED
      BY <2>2, <3>1 DEF Fetch, TypeOK
  <2>3. ASSUME NEW f \in Flight, AddTask(f)
        PROVE  <1>2
    <3>1. fetched[f] \in Task /\ Executor!Submit(fetched[f])
      BY <2>3 DEF AddTask, TypeOK
    <3>2. pending' \in [Student -> Task \cup {None}]
      BY <3>1, SubmitTyped
    <3>3. QED
      BY <2>3, <3>2 DEF AddTask, TypeOK
  <2>4. QED
    BY <2>1, <2>2, <2>3
<1>3. TypeOK'
  BY <1>1, <1>2 DEF TypeOK
<1>4. WorkInv' /\ ComparedInv'
  BY <1>1 DEF WorkInv, ComparedInv, Snapshot, Moves
<1>5. NotifiedOnce' /\ ClaimAccounted'
  BY <1>1 DEF NotifiedOnce, ClaimAccounted
<1>6. QED
  BY <1>3, <1>4, <1>5

-----------------------------------------------------------------------------
(* The steps of a task *)

(* Steps that claim nothing and hand over nothing                          *)
LEMMA ClaimsUntouched ==
    ASSUME NotifiedOnce, ClaimAccounted, UNCHANGED <<offerings, claimed, handed, lost>>
    PROVE  NotifiedOnce' /\ ClaimAccounted'
BY DEF NotifiedOnce, ClaimAccounted

LEMMA BeginKeeps ==
    ASSUME IInv, NEW s \in Student, Begin(s)
    PROVE  IInv'
<1> USE DEF IInv
<1>1. /\ running[s] = None /\ pending[s] # None
      /\ running' = [running EXCEPT ![s] = pending[s]]
      /\ step' = [step EXCEPT ![s] = "course"]
      /\ UNCHANGED <<published, fetched, row, offerings, pending, todo, claimed, handed, lost>>
  BY DEF Begin, GoTo, Executor!Begin
<1>2. TypeOK'
  BY <1>1 DEF TypeOK
<1>3. WorkInv' /\ ComparedInv'
  BY <1>1 DEF WorkInv, ComparedInv, Snapshot, Moves, TypeOK
<1>4. QED
  BY <1>1, <1>2, <1>3, ClaimsUntouched

LEMMA PutCourseKeeps ==
    ASSUME IInv, NEW s \in Student, PutCourse(s)
    PROVE  IInv'
<1> USE DEF IInv
<1>1. /\ step[s] = "course"
      /\ step' = [step EXCEPT ![s] = "compare"]
      /\ UNCHANGED <<published, fetched, offerings, pending, running, todo, claimed, handed, lost>>
  BY DEF PutCourse, GoTo
<1>2. /\ DOMAIN row' = Student
      /\ \A u \in Student : DOMAIN row'[u] = Term
      /\ \A u \in Student \ {s} : row'[u] = row[u]
      /\ \A u \in Student, term \in Term : row'[u][term] \in Exams(term) \cup {NoRow, NoSnapshot}
      /\ row'[s][running[s].term] # NoRow
  <2>1. CASE Snapshot(s) = NoRow
    <3>1. SetSnapshot(s, NoSnapshot)
      BY <2>1 DEF PutCourse
    <3>2. \A u \in Student \ {s} : row'[u] = row[u]
      BY <3>1 DEF SetSnapshot, TypeOK
    <3>3. running[s].term \in Term
      BY <1>1, AtWork
    <3>4. QED
      BY <1>1, <3>1, <3>2, <3>3, SetSnapshotStep, ExamAssumption
  <2>2. CASE Snapshot(s) # NoRow
    BY <2>2 DEF PutCourse, TypeOK, Snapshot
  <2>3. QED
    BY <2>1, <2>2
<1>3. TypeOK'
  BY <1>1, <1>2 DEF TypeOK
<1>4. WorkInv'
  BY <1>1, <1>2 DEF WorkInv, Snapshot, TypeOK
<1>5. ComparedInv'
  BY <1>1, <1>2 DEF ComparedInv, Snapshot, Moves, TypeOK
<1>6. QED
  BY <1>1, <1>3, <1>4, <1>5, ClaimsUntouched

LEMMA CompareKeeps ==
    ASSUME IInv, NEW s \in Student, Compare(s)
    PROVE  IInv'
<1> USE DEF IInv
<1>1. /\ step[s] = "compare"
      /\ UNCHANGED <<published, fetched, row, offerings, pending, running, claimed, handed, lost>>
      /\ \/ /\ step' = [step EXCEPT ![s] = "succeed"]
            /\ UNCHANGED todo
         \/ /\ Snapshot(s) = NoSnapshot
            /\ step' = [step EXCEPT ![s] = "commit"]
            /\ UNCHANGED todo
         \/ /\ Snapshot(s) # NoSnapshot
            /\ todo' = [todo EXCEPT ![s] = Moves(s)]
            /\ step' = [step EXCEPT ![s] = "claim"]
  BY DEF Compare, GoTo, Moves
<1>2. Snapshot(s) # NoSnapshot => Moves(s) \subseteq Change
  <2>1. Snapshot(s) # NoSnapshot => Snapshot(s) \in Exams(running[s].term)
    BY <1>1, AtWork DEF WorkInv
  <2>2. running[s].term \in Term /\ running[s].exams \in Exams(running[s].term)
    BY <1>1, AtWork
  <2>3. QED
    BY <2>1, <2>2, ChangesAreChange DEF Moves
<1>3. TypeOK'
  BY <1>1, <1>2 DEF TypeOK
<1>4. WorkInv'
  BY <1>1 DEF WorkInv, Snapshot, TypeOK
<1>5. ComparedInv'
  <2> SUFFICES ASSUME NEW u \in Student, Snapshot(u)' # NoSnapshot
               PROVE  /\ step'[u] = "claim" => Moves(u)' \subseteq todo'[u] \cup offerings'
                      /\ step'[u] \in {"enqueue", "commit"} => Moves(u)' \subseteq offerings'
    BY DEF ComparedInv
  <2>1. Snapshot(u)' = Snapshot(u) /\ Moves(u)' = Moves(u)
    BY <1>1 DEF Snapshot, Moves
  <2>2. CASE u = s
    BY <1>1, <2>1, <2>2 DEF TypeOK
  <2>3. CASE u # s
    BY <1>1, <2>1, <2>3 DEF TypeOK, ComparedInv
  <2>4. QED
    BY <2>2, <2>3
<1>6. QED
  BY <1>1, <1>3, <1>4, <1>5, ClaimsUntouched

(* A change that is new to exam_offerings is in nobody's hands.            *)
LEMMA NewIsFree ==
    ASSUME TypeOK, ClaimAccounted, NEW x, x \notin offerings
    PROVE  x \notin handed /\ \A u \in Student : x \notin claimed[u]
BY DEF TypeOK, ClaimAccounted

LEMMA ClaimKeeps ==
    ASSUME IInv, NEW s \in Student, NEW x \in Change, Claim(s, x)
    PROVE  IInv'
<1> USE DEF IInv
<1>1. /\ step[s] = "claim"
      /\ todo' = [todo EXCEPT ![s] = @ \ {x}]
      /\ claimed' = [claimed EXCEPT ![s] = @ \cup ({x} \ offerings)]
      /\ offerings' = offerings \cup {x}
      /\ UNCHANGED <<published, fetched, row, pending, running, left, handed, lost>>
  BY DEF Claim
<1>2. \E label \in {"claim", "enqueue", "commit"} :
         /\ step' = [step EXCEPT ![s] = label]
         /\ label \in {"enqueue", "commit"} => todo'[s] = {}
  BY DEF Claim, AfterClaim, GoTo
<1>3. TypeOK'
  BY <1>1, <1>2 DEF TypeOK
<1>4. WorkInv'
  BY <1>1, <1>2 DEF WorkInv, Snapshot, TypeOK
<1>5. ComparedInv'
  <2> SUFFICES ASSUME NEW u \in Student, Snapshot(u)' # NoSnapshot
               PROVE  /\ step'[u] = "claim" => Moves(u)' \subseteq todo'[u] \cup offerings'
                      /\ step'[u] \in {"enqueue", "commit"} => Moves(u)' \subseteq offerings'
    BY DEF ComparedInv
  <2>1. Snapshot(u)' = Snapshot(u) /\ Moves(u)' = Moves(u)
    BY <1>1 DEF Snapshot, Moves
  <2>2. CASE u = s
    <3>1. Moves(s) \subseteq todo[s] \cup offerings
      BY <1>1, <2>1, <2>2 DEF ComparedInv
    <3>2. todo'[s] \cup offerings' = todo[s] \cup {x} \cup offerings
      BY <1>1 DEF TypeOK
    <3>3. QED
      BY <1>2, <2>1, <2>2, <3>1, <3>2 DEF TypeOK
  <2>3. CASE u # s
    BY <1>1, <1>2, <2>1, <2>3 DEF TypeOK, ComparedInv
  <2>4. QED
    BY <2>2, <2>3
<1>6. \A u \in Student : claimed'[u] = IF u = s THEN claimed[s] \cup ({x} \ offerings)
                                       ELSE claimed[u]
  BY <1>1 DEF TypeOK
<1>7. NotifiedOnce'
  BY <1>1, <1>6, NewIsFree DEF NotifiedOnce
<1>8. ClaimAccounted'
  <2>1. UNION {claimed'[u] : u \in Student}
            = (UNION {claimed[u] : u \in Student}) \cup ({x} \ offerings)
    BY <1>6
  <2>2. QED
    BY <1>1, <2>1 DEF ClaimAccounted
<1>9. QED
  BY <1>3, <1>4, <1>5, <1>7, <1>8

LEMMA EnqueueKeeps ==
    ASSUME IInv, NEW s \in Student, NEW x \in Change, Enqueue(s, x)
    PROVE  IInv'
<1> USE DEF IInv
<1>1. /\ step[s] = "enqueue"
      /\ x \in claimed[s]
      /\ handed' = handed \cup {x}
      /\ claimed' = [claimed EXCEPT ![s] = @ \ {x}]
      /\ UNCHANGED <<published, fetched, row, offerings, pending, running, todo, left, lost>>
  BY DEF Enqueue
<1>2. \E label \in {"enqueue", "commit"} : step' = [step EXCEPT ![s] = label]
  BY DEF Enqueue, GoTo
<1>3. x \in offerings
  BY <1>1 DEF ClaimAccounted
<1>4. TypeOK'
  BY <1>1, <1>2, <1>3 DEF TypeOK
<1>5. WorkInv'
  BY <1>1, <1>2 DEF WorkInv, Snapshot, TypeOK
<1>6. ComparedInv'
  <2> SUFFICES ASSUME NEW u \in Student, Snapshot(u)' # NoSnapshot
               PROVE  /\ step'[u] = "claim" => Moves(u)' \subseteq todo'[u] \cup offerings'
                      /\ step'[u] \in {"enqueue", "commit"} => Moves(u)' \subseteq offerings'
    BY DEF ComparedInv
  <2>1. Snapshot(u)' = Snapshot(u) /\ Moves(u)' = Moves(u)
    BY <1>1 DEF Snapshot, Moves
  <2>2. QED
    BY <1>1, <1>2, <2>1 DEF TypeOK, ComparedInv
<1>7. \A u \in Student : claimed'[u] = IF u = s THEN claimed[s] \ {x} ELSE claimed[u]
  BY <1>1 DEF TypeOK
<1>8. NotifiedOnce'
  BY <1>1, <1>7 DEF NotifiedOnce
<1>9. ClaimAccounted'
  BY <1>1, <1>7 DEF ClaimAccounted
<1>10. QED
  BY <1>4, <1>5, <1>6, <1>8, <1>9

LEMMA CommitKeeps ==
    ASSUME IInv, NEW s \in Student, Commit(s)
    PROVE  IInv'
<1> USE DEF IInv
<1>1. /\ step[s] = "commit"
      /\ SetSnapshot(s, running[s].exams)
      /\ step' = [step EXCEPT ![s] = "succeed"]
      /\ UNCHANGED <<published, fetched, offerings, pending, running, todo, claimed, handed, lost>>
  BY DEF Commit, GoTo
<1>2. /\ DOMAIN row' = Student
      /\ \A u \in Student : DOMAIN row'[u] = Term
      /\ \A u \in Student, term \in Term : row'[u][term] \in Exams(term) \cup {NoRow, NoSnapshot}
  BY <1>1, AtWork, SetSnapshotStep
<1>3. \A u \in Student \ {s} : row'[u] = row[u]
  BY <1>1 DEF SetSnapshot, TypeOK
<1>4. TypeOK'
  BY <1>1, <1>2 DEF TypeOK
<1>5. WorkInv'
  BY <1>1, <1>3 DEF WorkInv, Snapshot, TypeOK
<1>6. ComparedInv'
  BY <1>1, <1>3 DEF ComparedInv, Snapshot, Moves, TypeOK
<1>7. QED
  BY <1>1, <1>4, <1>5, <1>6, ClaimsUntouched

LEMMA SucceedKeeps ==
    ASSUME IInv, NEW s \in Student, Succeed(s)
    PROVE  IInv'
<1> USE DEF IInv
<1>1. /\ running' = [running EXCEPT ![s] = None]
      /\ pending' = [pending EXCEPT ![s] = None]
      /\ step' = [step EXCEPT ![s] = "none"]
      /\ UNCHANGED <<published, fetched, row, offerings, todo, claimed, handed, lost>>
  BY DEF Succeed, GoTo, Executor!Succeed
<1>2. TypeOK'
  BY <1>1 DEF TypeOK
<1>3. WorkInv' /\ ComparedInv'
  BY <1>1 DEF WorkInv, ComparedInv, Snapshot, Moves, TypeOK
<1>4. QED
  BY <1>1, <1>2, <1>3, ClaimsUntouched

(* What a task that fails had claimed is lost, and stays accounted for.    *)
LEMMA FailsKeeps ==
    ASSUME IInv, NEW s \in Student, Fails(s)
    PROVE  IInv'
<1> USE DEF IInv
<1>1. /\ running' = [running EXCEPT ![s] = None]
      /\ step' = [step EXCEPT ![s] = "none"]
      /\ todo' = [todo EXCEPT ![s] = {}]
      /\ claimed' = [claimed EXCEPT ![s] = {}]
      /\ lost' = lost \cup claimed[s]
      /\ UNCHANGED <<published, fetched, row, offerings, pending, handed>>
  BY DEF Fails, GoTo, Executor!Release
<1>2. claimed[s] \subseteq offerings
  BY DEF ClaimAccounted
<1>3. TypeOK'
  BY <1>1, <1>2 DEF TypeOK
<1>4. WorkInv' /\ ComparedInv'
  BY <1>1 DEF WorkInv, ComparedInv, Snapshot, Moves, TypeOK
<1>5. \A u \in Student : claimed'[u] = IF u = s THEN {} ELSE claimed[u]
  BY <1>1 DEF TypeOK
<1>6. NotifiedOnce' /\ ClaimAccounted'
  BY <1>1, <1>5 DEF NotifiedOnce, ClaimAccounted
<1>7. QED
  BY <1>3, <1>4, <1>6

-----------------------------------------------------------------------------
LEMMA NextKeeps ==
    ASSUME IInv, [Next]_vars
    PROVE  IInv'
<1>1. CASE \/ \E e \in Exam, t \in Time \cup {NoTime} : Publish(e, t)
           \/ \E f \in Flight, s \in Student, term \in Term : Fetch(f, s, term)
           \/ \E f \in Flight : AddTask(f)
  BY <1>1, RefreshKeeps
<1>2. ASSUME NEW s \in Student, Work(s) \/ Fails(s)
      PROVE  IInv'
  BY <1>2, BeginKeeps, PutCourseKeeps, CompareKeeps, ClaimKeeps, EnqueueKeeps, CommitKeeps,
     SucceedKeeps, FailsKeeps DEF Work
<1>3. CASE UNCHANGED vars
  BY <1>3 DEF vars, task, IInv, TypeOK, WorkInv, ComparedInv, Snapshot, Moves, NotifiedOnce,
              ClaimAccounted
<1>4. QED
  BY <1>1, <1>2, <1>3 DEF Next

LEMMA Inductive == Spec => []IInv
<1>1. Init => IInv
  BY InitInv
<1>2. IInv /\ [Next]_vars => IInv'
  BY NextKeeps
<1>3. QED
  BY <1>1, <1>2, PTL DEF Spec

(* Every reachable state is well typed.                                    *)
THEOREM TypeCorrect == Spec => []TypeOK
<1>1. IInv => TypeOK
  BY DEF IInv
<1>2. QED
  BY <1>1, Inductive, PTL

(* A change of an exam is handed to the push dispatcher at most once, for  *)
(* any number of students who see it and any failures and retries of their *)
(* tasks.                                                                  *)
THEOREM OnceNotified == Spec => []NotifiedOnce
<1>1. IInv => NotifiedOnce
  BY DEF IInv
<1>2. QED
  BY <1>1, Inductive, PTL

(* A change in exam_offerings has been handed over, is about to be, or was *)
(* claimed by a task that failed before it got there.                      *)
THEOREM ClaimsAccounted == Spec => []ClaimAccounted
<1>1. IInv => ClaimAccounted
  BY DEF IInv
<1>2. QED
  BY <1>1, Inductive, PTL

(* A commit is the only step that replaces a snapshot, and what it takes   *)
(* in has been claimed.                                                    *)
LEMMA StepCommitsClaimed ==
    ASSUME IInv, [Next]_vars, NEW s \in Student, NEW term \in Term,
           row[s][term] \notin {NoRow, NoSnapshot},
           row'[s][term] # row[s][term]
    PROVE  Changes(row[s][term], row'[s][term]) \subseteq offerings
<1> USE DEF IInv
<1>1. PICK u \in Student : PutCourse(u) \/ Commit(u)
  <2>1. row' # row
    OBVIOUS
  <2>2. QED
    BY <2>1 DEF Next, Publish, Fetch, AddTask, Work, Begin, Compare, Claim, Enqueue, Succeed,
                Fails, vars
<1>2. CASE PutCourse(u)
  <2>1. Snapshot(u) = NoRow /\ SetSnapshot(u, NoSnapshot) /\ step[u] # "none"
    BY <1>2 DEF PutCourse
  <2>2. u = s /\ term = running[u].term
    BY <2>1, SetSnapshotStep
  <2>3. QED
    BY <2>1, <2>2 DEF Snapshot
<1>3. CASE Commit(u)
  <2>1. step[u] = "commit" /\ SetSnapshot(u, running[u].exams)
    BY <1>3 DEF Commit
  <2>2. running[u].exams \in Exams(running[u].term) \cup {NoRow, NoSnapshot}
    BY <2>1, AtWork
  <2>3. /\ u = s /\ term = running[u].term
        /\ row'[s][term] = running[s].exams
    BY <2>1, <2>2, SetSnapshotStep
  <2>4. Moves(s) \subseteq offerings
    BY <2>1, <2>3 DEF ComparedInv, Snapshot
  <2>5. QED
    BY <2>3, <2>4 DEF Moves, Snapshot
<1>4. QED
  BY <1>1, <1>2, <1>3

(* A snapshot moves on only past changes that somebody has claimed.        *)
THEOREM NothingSwallowed == Spec => CommitsClaimed
<1>1. IInv /\ [Next]_vars =>
          [\A s \in Student, term \in Term :
              /\ row[s][term] \notin {NoRow, NoSnapshot}
              /\ row'[s][term] # row[s][term]
              => Changes(row[s][term], row'[s][term]) \subseteq offerings]_vars
  BY StepCommitsClaimed
<1>2. QED
  BY <1>1, Inductive, PTL DEF Spec, CommitsClaimed

-----------------------------------------------------------------------------
(* The tasks of all students together deliver as Delivery says.  A claim   *)
(* that finds its change claimed is no step of it, one that finds it free  *)
(* takes it on; the error of a task loses what the task had claimed.  That *)
(* a hand-over takes the change from everybody, and an error only what no  *)
(* other task holds, is NotifiedOnce.                                      *)

LEMMA HeldOf ==
    ASSUME NEW x
    PROVE  /\ x \in Held <=> \E u \in Student : x \in claimed[u]
           /\ x \in Held' <=> \E u \in Student : x \in claimed'[u]
  BY DEF Held

(* Steps that leave the records and the claims alone                       *)
LEMMA OutboxUntouched ==
    ASSUME UNCHANGED <<offerings, claimed, handed, lost>>
    PROVE  UNCHANGED Outbox!vars
  BY DEF Outbox!vars, Held

LEMMA ClaimTakesOn ==
    ASSUME IInv, NEW s \in Student, NEW x \in Change, Claim(s, x)
    PROVE  Outbox!TakeOn(x) \/ UNCHANGED Outbox!vars
<1>1. /\ claimed' = [claimed EXCEPT ![s] = @ \cup ({x} \ offerings)]
      /\ offerings' = offerings \cup {x}
      /\ UNCHANGED <<handed, lost>>
  BY DEF Claim
<1>2. \A u \in Student : claimed'[u] = IF u = s THEN claimed[s] \cup ({x} \ offerings)
                                       ELSE claimed[u]
  BY <1>1 DEF IInv, TypeOK
<1>3. Held' = Held \cup ({x} \ offerings)
  <2>1. \A y : y \in Held' <=> y \in Held \/ y \in {x} \ offerings
    BY <1>2, HeldOf
  <2>2. QED
    BY <2>1
<1>4. CASE x \in offerings
  BY <1>1, <1>3, <1>4 DEF Outbox!vars
<1>5. CASE x \notin offerings
  BY <1>1, <1>3, <1>5 DEF Outbox!TakeOn
<1>6. QED
  BY <1>4, <1>5

LEMMA EnqueueDelivers ==
    ASSUME IInv, NEW s \in Student, NEW x \in Change, Enqueue(s, x)
    PROVE  Outbox!Deliver(x)
<1>1. /\ x \in claimed[s]
      /\ handed' = handed \cup {x}
      /\ claimed' = [claimed EXCEPT ![s] = @ \ {x}]
      /\ UNCHANGED <<offerings, lost>>
  BY DEF Enqueue
<1>2. \A u \in Student : claimed'[u] = IF u = s THEN claimed[s] \ {x} ELSE claimed[u]
  BY <1>1 DEF IInv, TypeOK
<1>3. \A u \in Student \ {s} : x \notin claimed[u]
  BY <1>1 DEF IInv, NotifiedOnce
<1>4. Held' = Held \ {x}
  <2>1. \A y : y \in Held' <=> y \in Held /\ y # x
    BY <1>2, <1>3, HeldOf
  <2>2. QED
    BY <2>1
<1>5. x \in Held
  BY <1>1, HeldOf
<1>6. QED
  BY <1>1, <1>4, <1>5 DEF Outbox!Deliver

LEMMA FailureLoses ==
    ASSUME IInv, NEW s \in Student, Fails(s)
    PROVE  Outbox!Lose(claimed[s])
<1>1. /\ claimed' = [claimed EXCEPT ![s] = {}]
      /\ lost' = lost \cup claimed[s]
      /\ UNCHANGED <<offerings, handed>>
  BY DEF Fails
<1>2. \A u \in Student : claimed'[u] = IF u = s THEN {} ELSE claimed[u]
  BY <1>1 DEF IInv, TypeOK
<1>3. \A u \in Student \ {s} : claimed[s] \cap claimed[u] = {}
  BY DEF IInv, NotifiedOnce
<1>4. Held' = Held \ claimed[s]
  <2>1. \A y : y \in Held' <=> y \in Held /\ y \notin claimed[s]
    BY <1>2, <1>3, HeldOf
  <2>2. QED
    BY <2>1
<1>5. claimed[s] \subseteq Held
  BY HeldOf
<1>6. QED
  BY <1>1, <1>4, <1>5 DEF Outbox!Lose

LEMMA OutboxInit ==
    ASSUME Init
    PROVE  Outbox!Init
<1>1. Held = {}
  <2>1. \A u \in Student : claimed[u] = {}
    BY DEF Init
  <2>2. QED
    BY <2>1, HeldOf
<1>2. QED
  BY <1>1 DEF Init, Outbox!Init

LEMMA OutboxStep ==
    ASSUME IInv, [Next]_vars
    PROVE  [Outbox!Next]_(Outbox!vars)
<1>1. CASE \/ UNCHANGED vars
           \/ \E e \in Exam, t \in Time \cup {NoTime} : Publish(e, t)
           \/ \E f \in Flight, s \in Student, term \in Term : Fetch(f, s, term)
           \/ \E f \in Flight : AddTask(f)
           \/ \E s \in Student :
                  Begin(s) \/ PutCourse(s) \/ Compare(s) \/ Commit(s) \/ Succeed(s)
  <2>1. UNCHANGED <<offerings, claimed, handed, lost>>
    BY <1>1 DEF vars, task, Publish, Fetch, AddTask, Begin, PutCourse, Compare, Commit, Succeed
  <2>2. QED
    BY <2>1, OutboxUntouched
<1>2. ASSUME NEW s \in Student, NEW x \in Change, Claim(s, x) \/ Enqueue(s, x)
      PROVE  [Outbox!Next]_(Outbox!vars)
  BY <1>2, ClaimTakesOn, EnqueueDelivers DEF Outbox!Next
<1>3. ASSUME NEW s \in Student, Fails(s)
      PROVE  Outbox!Next
  <2>1. claimed[s] \in SUBSET Change
    BY DEF IInv, TypeOK
  <2>2. QED
    BY <1>3, <2>1, FailureLoses DEF Outbox!Next
<1>4. QED
  BY <1>1, <1>2, <1>3 DEF Next, Work

(* For any number of students, exams and failures the tasks implement the  *)
(* abstract delivery: a change is taken on by the one task that inserts    *)
(* its exam_hash, and is handed over once or lost with that task's error   *)
(* (putExamToDatabase).                                                    *)
THEOREM Refinement == Spec => DeliversOnce
BY OutboxInit, OutboxStep, Inductive, PTL DEF Spec, DeliversOnce, Outbox!Spec

(* What Delivery says of its sets, proved of its steps alone               *)
LEMMA OutboxAccounted == Outbox!Spec => []Outbox!Accounted
<1>1. Outbox!Init => Outbox!Accounted
  BY DEF Outbox!Init, Outbox!Accounted
<1>2. Outbox!Accounted /\ [Outbox!Next]_(Outbox!vars) => Outbox!Accounted'
  BY DEF Outbox!Accounted, Outbox!Next, Outbox!vars, Outbox!TakeOn, Outbox!Deliver, Outbox!Skip,
         Outbox!Lose
<1>3. QED
  BY <1>1, <1>2, PTL DEF Outbox!Spec

(* A change whose task failed after the insert and before the hand-over is *)
(* never handed over, by whichever retry of whichever student.             *)
THEOREM LostForGood == Spec => [](lost \cap (handed \cup Held) = {})
<1>1. Outbox!Accounted => lost \cap (handed \cup Held) = {}
  BY DEF Outbox!Accounted
<1>2. QED
  BY <1>1, Refinement, OutboxAccounted, PTL DEF DeliversOnce

=============================================================================
