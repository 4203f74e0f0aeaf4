--------------------------- MODULE ScoreNotifyProofs ---------------------------
(***************************************************************************)
(* What is proved of the notifications about scores for any students,      *)
(* courses, scores, fetches and errors: a course is announced only if its  *)
(* score has changed, under its own name, and a course is recorded if and  *)
(* only if a push for it was handed over, or dropped, as long as no task   *)
(* has failed.                                                             *)
(*                                                                         *)
(* The comparison goes by index from the oldest mark.  It is right because *)
(* every list it is ever given is the tail of what the registry shows, but *)
(* for changed scores, and because each slice is reversed once only as     *)
(* long as no task has failed in between.                                  *)
(***************************************************************************)
EXTENDS ScoreNotify, Integers, WellFoundedInduction, TLAPS

(* The lists of a student's account: whatever is stored or under way is a  *)
(* list that the registry has shown, so it is the tail of the present one, *)
(* scores that have changed since aside.                                   *)
Version(s, l) ==
    /\ Len(l) <= Len(marks[s])
    /\ \A i \in 1 .. Len(l) :
          LET m == marks[s][Len(marks[s]) - Len(l) + i] IN
          /\ l[i].course = m.course
          /\ l[i].score # m.score => <<s, m.course>> \in changed

Locals == [json : Seq(Mark), old : Seq(Mark), at : Nat]

TypeInv ==
    /\ marks \in [Student -> Seq(Mark)]
    /\ caller \in [Fetch -> Student \cup {None}]
    /\ adding \in SUBSET Fetch /\ \A f \in adding : caller[f] # None
    /\ slice \in [Fetch -> Seq(Mark)]
    /\ row \in [Student -> Seq(Mark) \cup {None}]
    /\ offerings \in SUBSET Course
    /\ mailbox \in SUBSET [fetch : Fetch, index : Nat, course : Course]
    /\ pending \in [Student -> Task \cup {None}]
    /\ running \in [Student -> Task \cup {None}]
    /\ step \in [Student -> Step]
    /\ local \in [Student -> Locals]

(* A task is its student's, and its index tells whether it has reversed    *)
(* its slice.                                                              *)
TaskOf(s) ==
    /\ pending[s] # None => caller[pending[s].fetch] = s /\ pending[s].fetch \notin adding
    /\ running[s] # None => caller[running[s].fetch] = s /\ running[s].fetch \notin adding
    /\ step[s] = "none" <=> running[s] = None
    /\ step[s] = "load" => row[s] # None

IndexOf(s) ==
    /\ step[s] \in {"none", "hash", "load"} => local[s].at = 0
    /\ step[s] \in {"compare", "record"} => local[s].at > 0

RecordOf(s) ==
    step[s] = "record" =>
        /\ local[s].at \in DOMAIN SliceOf(s)
        /\ <<s, SliceOf(s)[local[s].at].course>> \in announced \cup dropped

WorkOf(s) == TaskOf(s) /\ IndexOf(s) /\ RecordOf(s)

WorkInv == \A s \in Student : WorkOf(s)

(* A fetch whose slice may still be read as it came: its task is to be     *)
(* added, to be run, or has not got to the reversal.  What is pending      *)
(* beside a task that has reversed its slice is either cleared by its      *)
(* success or run after its failure.                                       *)
Straight(f) ==
    \/ f \in adding
    \/ \E s \in Student :
        /\ local[s].at = 0
        /\ \/ pending[s] # None /\ pending[s].fetch = f
           \/ running[s] # None /\ running[s].fetch = f

ListsOf(s) ==
    /\ row[s] # None => Version(s, row[s])
    /\ \A f \in Fetch : caller[f] = s /\ Straight(f) => Version(s, slice[f])
    /\ step[s] \in {"load", "compare", "record", "update"} => Version(s, local[s].json)
    /\ step[s] \in {"compare", "record"} =>
          Version(s, Reverse(SliceOf(s))) /\ Version(s, Reverse(local[s].old))

ListsAreVersions == \A s \in Student \ mishap : ListsOf(s)

(* An announcement points at its course in a slice that stays as it is.    *)
PointsAt(p) ==
    /\ ~Straight(p.fetch)
    /\ p.index \in DOMAIN slice[p.fetch]
    /\ slice[p.fetch][p.index].course = p.course

MailPoints ==
    \A p \in mailbox : caller[p.fetch] # None /\ (caller[p.fetch] \notin mishap => PointsAt(p))

IInv ==
    TypeInv /\ WorkInv /\ ListsAreVersions /\ MailPoints /\ AnnouncesOnlyChanges /\ RecordedIsAnnounced

-----------------------------------------------------------------------------
(* Lists *)

LEMMA ReverseFacts ==
    ASSUME NEW l \in Seq(Mark)
    PROVE  /\ Reverse(l) \in Seq(Mark) /\ Len(Reverse(l)) = Len(l)
           /\ \A i \in 1 .. Len(l) : Reverse(l)[i] = l[Len(l) - i + 1]
BY DEF Reverse

LEMMA ReverseTwice ==
    ASSUME NEW l \in Seq(Mark)
    PROVE  Reverse(Reverse(l)) = l
<1> DEFINE r == Reverse(l)
<1>1. r \in Seq(Mark) /\ Len(r) = Len(l) /\ \A i \in 1 .. Len(l) : r[i] = l[Len(l) - i + 1]
  BY ReverseFacts
<1>2. /\ Reverse(r) \in Seq(Mark) /\ Len(Reverse(r)) = Len(r)
      /\ \A i \in 1 .. Len(r) : Reverse(r)[i] = r[Len(r) - i + 1]
  BY <1>1, ReverseFacts
<1> HIDE DEF r
<1>3. \A i \in 1 .. Len(l) : Len(l) - i + 1 \in 1 .. Len(l) /\ Len(l) - (Len(l) - i + 1) + 1 = i
  OBVIOUS
<1>4. \A i \in 1 .. Len(l) : Reverse(r)[i] = l[i]
  BY <1>1, <1>2, <1>3
<1>5. QED
  BY <1>1, <1>2, <1>4 DEF r

(* The smallest of some numbers is one of them. *)
LEMMA MinFacts ==
    ASSUME NEW S \in SUBSET Nat, S # {}
    PROVE  Min(S) \in S
<1>1. PICK m \in S : \A n \in S : ~(<<n, m>> \in OpToRel(<, Nat))
  BY NatLessThanWellFounded, WFMin
<1>2. \A n \in S : ~(n < m)
  BY <1>1 DEF OpToRel
<1>3. \A n \in S : m <= n
  BY <1>2
<1>4. QED
  BY <1>3 DEF Min

-----------------------------------------------------------------------------
(* Versions *)

LEMMA ScoreChanges ==
    ASSUME TypeInv, NEW u \in Student, NEW n \in 1 .. Len(marks[u]), NEW v \in Score, ChangeScore(u, n, v),
           NEW s \in Student, NEW l \in Seq(Mark), Version(s, l)
    PROVE  Version(s, l)'
<1> DEFINE shown == marks[u]
           now == [shown EXCEPT ![n].score = v]
<1>1. /\ marks' = [marks EXCEPT ![u] = now] /\ changed' = changed \cup {<<u, marks[u][n].course>>}
      /\ shown \in Seq(Mark)
  BY DEF ChangeScore, TypeInv
<1>2. CASE s # u
  BY <1>1, <1>2 DEF Version, TypeInv
<1>3. CASE s = u
  <2>1. marks'[u] = now
    BY <1>1 DEF TypeInv
  <2>2. shown[n] \in Mark /\ Len(shown) \in Nat /\ DOMAIN shown = 1 .. Len(shown)
    BY <1>1
  <2>3. /\ Len(now) = Len(shown)
        /\ \A i \in 1 .. Len(shown) :
              /\ now[i].course = shown[i].course
              /\ i # n => now[i] = shown[i]
    <3>1. now = [shown EXCEPT ![n] = [shown[n] EXCEPT !.score = v]]
      OBVIOUS
    <3>2. [shown[n] EXCEPT !.score = v].course = shown[n].course
      BY <2>2 DEF Mark
    <3>3. [shown[n] EXCEPT !.score = v] \in Mark
      BY <2>2 DEF Mark
    <3>4. QED
      BY <1>1, <2>2, <3>1, <3>2, <3>3
  <2>4. /\ Len(l) \in Nat /\ Len(l) <= Len(shown)
        /\ \A i \in 1 .. Len(l) :
              LET m == shown[Len(shown) - Len(l) + i] IN
              /\ l[i].course = m.course
              /\ l[i].score # m.score => <<u, m.course>> \in changed
    BY <1>3 DEF Version
  <2> HIDE DEF now, shown
  <2>5. ASSUME NEW i \in 1 .. Len(l)
        PROVE  LET m == now[Len(now) - Len(l) + i] IN
               /\ l[i].course = m.course
               /\ l[i].score # m.score => <<u, m.course>> \in changed'
    <3> DEFINE k == Len(shown) - Len(l) + i
    <3>1. k \in 1 .. Len(shown) /\ Len(now) - Len(l) + i = k
      BY <2>2, <2>3, <2>4
    <3> HIDE DEF k
    <3>2. CASE k = n
      <4>1. now[k].course = shown[n].course /\ <<u, shown[n].course>> \in changed'
        BY <1>1, <2>3, <3>1, <3>2 DEF shown
      <4>2. l[i].course = shown[n].course
        BY <2>4, <3>2 DEF k
      <4>3. QED
        BY <3>1, <4>1, <4>2
    <3>3. CASE k # n
      <4>1. now[k] = shown[k]
        BY <2>3, <3>1, <3>3
      <4>2. /\ l[i].course = shown[k].course
            /\ l[i].score # shown[k].score => <<u, shown[k].course>> \in changed'
        BY <1>1, <2>4 DEF k
      <4>3. QED
        BY <3>1, <4>1, <4>2
    <3>4. QED
      BY <3>2, <3>3
  <2>6. Len(l) <= Len(now)
    BY <2>3, <2>4
  <2>7. QED
    BY <1>3, <2>1, <2>5, <2>6 DEF Version
<1>4. QED
  BY <1>2, <1>3

LEMMA CourseComes ==
    ASSUME TypeInv, NEW u \in Student, NEW m \in Mark, NewCourse(u, m),
           NEW s \in Student, NEW l \in Seq(Mark), Version(s, l)
    PROVE  Version(s, l)'
<1> DEFINE shown == marks[u]
           now == <<m>> \o shown
<1>1. marks' = [marks EXCEPT ![u] = now] /\ changed' = changed /\ shown \in Seq(Mark)
  BY DEF NewCourse, TypeInv
<1>2. CASE s # u
  BY <1>1, <1>2 DEF Version, TypeInv
<1>3. CASE s = u
  <2>1. marks'[u] = now
    BY <1>1 DEF TypeInv
  <2>2. Len(now) = Len(shown) + 1 /\ \A i \in 1 .. Len(shown) : now[i + 1] = shown[i]
    BY <1>1
  <2>3. /\ Len(l) \in Nat /\ Len(shown) \in Nat /\ Len(l) <= Len(shown)
        /\ \A i \in 1 .. Len(l) :
              LET k == shown[Len(shown) - Len(l) + i] IN
              /\ l[i].course = k.course
              /\ l[i].score # k.score => <<u, k.course>> \in changed
    BY <1>1, <1>3 DEF Version
  <2> HIDE DEF now, shown
  <2>4. \A i \in 1 .. Len(l) : now[Len(now) - Len(l) + i] = shown[Len(shown) - Len(l) + i]
    <3>1. \A i \in 1 .. Len(l) : /\ Len(shown) - Len(l) + i \in 1 .. Len(shown)
                                 /\ Len(now) - Len(l) + i = (Len(shown) - Len(l) + i) + 1
      BY <2>2, <2>3
    <3>2. QED
      BY <2>2, <3>1
  <2>5. Len(l) <= Len(now)
    BY <2>2, <2>3
  <2>6. QED
    BY <1>1, <1>3, <2>1, <2>3, <2>4, <2>5 DEF Version
<1>4. QED
  BY <1>2, <1>3

(* What the registry shows is a version.                                   *)
LEMMA ShownIsVersion ==
    ASSUME TypeInv, NEW s \in Student
    PROVE  Version(s, marks[s])
<1>1. Len(marks[s]) \in Nat
  BY DEF TypeInv
<1>2. QED
  BY <1>1 DEF Version

(* Where two versions differ, counted from the oldest mark, the score of   *)
(* that course has changed.                                                *)
LEMMA DifferencesChanged ==
    ASSUME TypeInv, NEW s \in Student, NEW new \in Seq(Mark), NEW former \in Seq(Mark),
           Version(s, Reverse(new)), Version(s, Reverse(former)),
           NEW i \in Differences(new, former)
    PROVE  <<s, new[i].course>> \in changed
<1>1. /\ i \in 1 .. Len(new) /\ i \in 1 .. Len(former) /\ new[i].score # former[i].score
      /\ Len(new) \in Nat /\ Len(former) \in Nat /\ Len(marks[s]) \in Nat
  BY DEF Differences, TypeInv
<1> DEFINE m == marks[s][Len(marks[s]) - i + 1]
<1>2. ASSUME NEW l \in Seq(Mark), Version(s, Reverse(l)), i \in 1 .. Len(l)
      PROVE  l[i].course = m.course /\ (l[i].score # m.score => <<s, m.course>> \in changed)
  <2> DEFINE k == Len(l) - i + 1
  <2>1. Len(l) \in Nat /\ k \in 1 .. Len(l) /\ Len(l) - k + 1 = i
    BY <1>2
  <2>2. Reverse(l)[k] = l[i] /\ Len(Reverse(l)) = Len(l)
    BY <2>1, ReverseFacts
  <2>3. Len(marks[s]) - Len(l) + k = Len(marks[s]) - i + 1
    <3>1. \A a, b \in Nat : \A c \in 1 .. b : a - b + (b - c + 1) = a - c + 1
      OBVIOUS
    <3>2. QED
      BY <1>1, <1>2, <2>1, <3>1
  <2> HIDE DEF k
  <2>4. LET n == marks[s][Len(marks[s]) - Len(l) + k] IN
        l[i].course = n.course /\ (l[i].score # n.score => <<s, n.course>> \in changed)
    BY <1>2, <2>1, <2>2 DEF Version
  <2>5. QED
    BY <2>3, <2>4
<1> HIDE DEF m
<1>3. QED
  BY <1>1, <1>2

-----------------------------------------------------------------------------
(* What a task keeps beside its list: each step changes one part of it.    *)

LEMMA LocalFacts ==
    ASSUME NEW loc \in Locals
    PROVE  /\ \A l \in Seq(Mark) :
                LET new == [loc EXCEPT !.json = l] IN
                new \in Locals /\ new.json = l /\ new.old = loc.old /\ new.at = loc.at
           /\ \A l \in Seq(Mark) :
                LET new == [loc EXCEPT !.old = l, !.at = 1] IN
                new \in Locals /\ new.json = loc.json /\ new.old = l /\ new.at = 1
           /\ \A n \in Nat :
                LET new == [loc EXCEPT !.at = n] IN
                new \in Locals /\ new.json = loc.json /\ new.old = loc.old /\ new.at = n
  BY DEF Locals

LEMMA NoLocalsFacts == NoLocals \in Locals /\ NoLocals.at = 0
<1>1. <<>> \in Seq(Mark)
  OBVIOUS
<1>2. QED
  BY <1>1 DEF NoLocals, Locals

LEMMA TaskFacts ==
    /\ \A t \in Task : t.stu \in Student /\ t.fetch \in Fetch /\ t # None /\ KeyOf[t] = t.stu
    /\ \A s \in Student, f \in Fetch :
          LET t == [stu |-> s, fetch |-> f] IN t \in Task /\ t.stu = s /\ t.fetch = f
    /\ \A s \in Student : s # None
    /\ \A l \in Seq(Mark) : l # None
  BY ScoreAssumption DEF Task, KeyOf

LEMMA InitTypes == Init => TypeInv /\ WorkInv
<1> SUFFICES ASSUME Init PROVE TypeInv /\ WorkInv
  OBVIOUS
<1>1. <<>> \in Seq(Mark)
  OBVIOUS
<1>2. row \in [Student -> Seq(Mark) \cup {None}]
  BY ScoreAssumption DEF Init
<1>3. marks \in [Student -> Seq(Mark)]
  BY ScoreAssumption DEF Init
<1>4. QED
  BY <1>1, <1>2, <1>3, NoLocalsFacts DEF Init, TypeInv, WorkInv, WorkOf, TaskOf, IndexOf, RecordOf, Executor!Init, Step

(* The registry and the copies in Redis do not concern the tasks.          *)
LEMMA RegistryTypes ==
    ASSUME TypeInv,
           \/ \E s \in Student : \E i \in 1..Len(marks[s]), v \in Score : ChangeScore(s, i, v)
           \/ \E s \in Student, m \in Mark : NewCourse(s, m)
    PROVE  marks' \in [Student -> Seq(Mark)]
<1>1. ASSUME NEW s \in Student, NEW i \in 1..Len(marks[s]), NEW v \in Score, ChangeScore(s, i, v)
      PROVE  marks' \in [Student -> Seq(Mark)]
  <2>1. marks[s] \in Seq(Mark) /\ marks[s][i] \in Mark
    BY DEF TypeInv
  <2>2. [marks[s][i] EXCEPT !.score = v] \in Mark
    BY <2>1 DEF Mark
  <2>3. [marks[s] EXCEPT ![i] = [marks[s][i] EXCEPT !.score = v]] \in Seq(Mark)
    BY <2>1, <2>2
  <2>4. marks' = [marks EXCEPT ![s] = [marks[s] EXCEPT ![i] = [marks[s][i] EXCEPT !.score = v]]]
    BY <1>1 DEF ChangeScore
  <2>5. QED
    BY <2>3, <2>4 DEF TypeInv
<1>2. ASSUME NEW s \in Student, NEW m \in Mark, NewCourse(s, m)
      PROVE  marks' \in [Student -> Seq(Mark)]
  <2>1. <<m>> \o marks[s] \in Seq(Mark)
    BY DEF TypeInv
  <2>2. QED
    BY <1>2, <2>1 DEF NewCourse, TypeInv
<1>3. QED
  BY <1>1, <1>2

(* Steps beside the tasks                                                  *)
LEMMA OutsideTypes ==
    ASSUME TypeInv, WorkInv,
           \/ \E s \in Student : \E i \in 1..Len(marks[s]), v \in Score : ChangeScore(s, i, v)
           \/ \E s \in Student, m \in Mark : NewCourse(s, m)
           \/ \E s \in Student : ExpireCopy(s)
           \/ \E f \in Fetch : SetCopy(f)
           \/ \E p \in mailbox : Send(p)
    PROVE  TypeInv' /\ WorkInv'
<1>1. marks' \in [Student -> Seq(Mark)]
  BY RegistryTypes DEF TypeInv, ExpireCopy, SetCopy, Send, registry
<1>2. /\ UNCHANGED <<caller, adding, slice, row, offerings, pending, running, step, local, announced, dropped, mishap>>
      /\ mailbox' \subseteq mailbox
  BY DEF ChangeScore, NewCourse, ExpireCopy, SetCopy, Send, flights, tables, pushes, executor
<1>3. TypeInv'
  BY <1>1, <1>2 DEF TypeInv
<1>4. WorkInv'
  BY <1>2 DEF WorkInv, WorkOf, TaskOf, IndexOf, RecordOf, SliceOf
<1>5. QED
  BY <1>3, <1>4

LEMMA GetMarksTypes ==
    ASSUME TypeInv, WorkInv, NEW u \in Student, GetMarks(u)
    PROVE  TypeInv' /\ WorkInv'
<1>1. PICK f \in Fetch :
        /\ caller[f] = None
        /\ caller' = [caller EXCEPT ![f] = u]
        /\ slice' = [slice EXCEPT ![f] = marks[u]]
        /\ adding' = adding \cup {f}
  BY DEF GetMarks, SomeFetchToCome
<1>2. UNCHANGED <<marks, row, offerings, mailbox, announced, dropped, pending, running, step, local>>
  BY DEF GetMarks, registry, tables, pushes, executor
<1>3. TypeInv'
  BY <1>1, <1>2, TaskFacts DEF TypeInv
<1>4. ASSUME NEW s \in Student
      PROVE  /\ pending[s] # None => pending[s].fetch # f /\ pending[s].fetch \in Fetch
             /\ running[s] # None => running[s].fetch # f /\ running[s].fetch \in Fetch
  <2>1. pending[s] \in Task \cup {None} /\ running[s] \in Task \cup {None} /\ s # None
    BY TaskFacts DEF TypeInv
  <2>2. /\ pending[s] # None => caller[pending[s].fetch] = s
        /\ running[s] # None => caller[running[s].fetch] = s
    BY DEF WorkInv, WorkOf, TaskOf, IndexOf, RecordOf
  <2>3. \A t \in Task : t.fetch \in Fetch
    BY TaskFacts
  <2>4. QED
    BY <1>1, <2>1, <2>2, <2>3
<1>5. \A s \in Student : running[s] # None => SliceOf(s)' = SliceOf(s)
  BY <1>1, <1>2, <1>4 DEF SliceOf, TypeInv
<1>6. \A s \in Student :
        /\ pending[s] # None => caller'[pending[s].fetch] = s /\ pending[s].fetch \notin adding'
        /\ running[s] # None => caller'[running[s].fetch] = s /\ running[s].fetch \notin adding'
  BY <1>1, <1>4 DEF WorkInv, WorkOf, TaskOf, IndexOf, RecordOf, TypeInv
<1>7. WorkInv'
  BY <1>2, <1>5, <1>6 DEF WorkInv, WorkOf, TaskOf, IndexOf, RecordOf
<1>8. QED
  BY <1>3, <1>7

LEMMA AddCheckTypes ==
    ASSUME TypeInv, WorkInv, NEW f \in Fetch, AddCheck(f)
    PROVE  TypeInv' /\ WorkInv'
<1> DEFINE u == caller[f]
           new == [stu |-> u, fetch |-> f]
<1>1. f \in adding /\ u \in Student /\ new \in Task /\ new.fetch = f /\ new # None /\ KeyOf[new] = u
  BY TaskFacts DEF AddCheck, TypeInv
<1> HIDE DEF new
<1>2. /\ pending' = [pending EXCEPT ![u] = new] /\ adding' = adding \ {f}
      /\ UNCHANGED <<marks, caller, slice, row, offerings, mailbox, announced, dropped, running, step, local>>
  BY <1>1 DEF AddCheck, Executor!Submit, registry, tables, pushes, new
<1>3. TypeInv'
  BY <1>1, <1>2 DEF TypeInv
<1>4. \A s \in Student : pending'[s] = IF s = u THEN new ELSE pending[s]
  BY <1>1, <1>2 DEF TypeInv
<1>5. WorkInv'
  BY <1>1, <1>2, <1>4 DEF WorkInv, WorkOf, TaskOf, IndexOf, RecordOf, SliceOf
<1>6. QED
  BY <1>3, <1>5

-----------------------------------------------------------------------------
(* The steps of the task of u *)

(* What a task touches: its own row, its own slice, its own locals.        *)
TaskTouches(u) ==
    /\ UNCHANGED <<marks, changed, caller, adding>>
    /\ \A s \in Student \ {u} : /\ step'[s] = step[s] /\ local'[s] = local[s] /\ row'[s] = row[s]
                                /\ running'[s] = running[s] /\ pending'[s] = pending[s]
    /\ \A f \in Fetch : caller[f] # u => slice'[f] = slice[f]
    /\ announced \subseteq announced' /\ dropped \subseteq dropped' /\ mishap \subseteq mishap'

LEMMA RunningFacts ==
    ASSUME TypeInv, WorkInv, NEW u \in Student, step[u] # "none"
    PROVE  /\ running[u] \in Task /\ running[u] # None /\ running[u].fetch \in Fetch
           /\ caller[running[u].fetch] = u /\ running[u].fetch \notin adding
           /\ SliceOf(u) \in Seq(Mark) /\ slice[running[u].fetch] = SliceOf(u) /\ local[u] \in Locals
<1>1. WorkOf(u)
  BY DEF WorkInv
<1>2. running[u] # None /\ caller[running[u].fetch] = u /\ running[u].fetch \notin adding
  BY <1>1 DEF WorkOf, TaskOf
<1>3. running[u] \in Task /\ local[u] \in Locals
  BY <1>2 DEF TypeInv
<1>4. running[u].fetch \in Fetch
  BY <1>3, TaskFacts
<1>5. QED
  BY <1>2, <1>3, <1>4 DEF SliceOf, TypeInv

LEMMA OthersWork ==
    ASSUME TypeInv, WorkInv, NEW u \in Student, TaskTouches(u), WorkOf(u)'
    PROVE  WorkInv'
<1>1. SUFFICES ASSUME NEW s \in Student, s # u PROVE WorkOf(s)'
  BY DEF WorkInv, WorkOf
<1>2. WorkOf(s)
  BY DEF WorkInv, WorkOf
<1>3. /\ step'[s] = step[s] /\ local'[s] = local[s] /\ row'[s] = row[s]
      /\ running'[s] = running[s] /\ pending'[s] = pending[s]
      /\ caller' = caller /\ adding' = adding
      /\ announced \subseteq announced' /\ dropped \subseteq dropped'
  BY <1>1 DEF TaskTouches
<1>4. running[s] # None => SliceOf(s)' = SliceOf(s)
  <2>1. SUFFICES ASSUME running[s] # None PROVE slice'[running[s].fetch] = slice[running[s].fetch]
    BY <1>3 DEF SliceOf
  <2>2. running[s].fetch \in Fetch /\ caller[running[s].fetch] = s
    BY <1>2, <2>1, TaskFacts DEF WorkOf, TaskOf, TypeInv
  <2>3. QED
    BY <1>1, <2>2 DEF TaskTouches
<1>5. QED
  BY <1>2, <1>3, <1>4 DEF WorkOf, TaskOf, IndexOf, RecordOf

LEMMA BeginTypes ==
    ASSUME TypeInv, WorkInv, NEW u \in Student, Begin(u)
    PROVE  TypeInv' /\ WorkInv' /\ TaskTouches(u)
<1>0. TaskOf(u) /\ IndexOf(u) /\ RecordOf(u)
  BY DEF WorkInv, WorkOf
<1>1. /\ running[u] = None /\ pending[u] # None
      /\ running' = [running EXCEPT ![u] = pending[u]]
      /\ step' = [step EXCEPT ![u] = "hash"]
      /\ UNCHANGED <<marks, changed, caller, adding, slice, row, offerings, mailbox, announced, dropped, pending,
                     local, mishap>>
  BY DEF Begin, Executor!Begin, GoTo, registry, flights, tables, pushes
<1>2. TypeInv'
  BY <1>1 DEF TypeInv, Step
<1>3. running'[u] = pending[u] /\ step'[u] = "hash"
  BY <1>1 DEF TypeInv
<1>4. local[u].at = 0
  BY <1>0, <1>1 DEF TaskOf, IndexOf
<1>5. WorkOf(u)'
  BY <1>0, <1>1, <1>3, <1>4 DEF WorkOf, TaskOf, IndexOf, RecordOf
<1>6. TaskTouches(u)
  BY <1>1 DEF TaskTouches, TypeInv
<1>7. QED
  BY <1>2, <1>5, <1>6, OthersWork

LEMMA CompareHashTypes ==
    ASSUME TypeInv, WorkInv, NEW u \in Student, CompareHash(u)
    PROVE  TypeInv' /\ WorkInv' /\ TaskTouches(u)
<1>0. TaskOf(u) /\ IndexOf(u) /\ RecordOf(u)
  BY DEF WorkInv, WorkOf
<1> DEFINE new == [local[u] EXCEPT !.json = SliceOf(u)]
           next == IF row[u] = None THEN "update"
                   ELSE IF row[u] = SliceOf(u) THEN "succeed" ELSE "load"
<1>1. /\ step[u] = "hash"
      /\ local' = [local EXCEPT ![u] = new]
      /\ step' = [step EXCEPT ![u] = next]
      /\ UNCHANGED <<marks, changed, caller, adding, slice, row, offerings, mailbox, announced, dropped, pending,
                     running, mishap>>
  BY DEF CompareHash, GoTo, registry, flights, tables, pushes, executor
<1>2. running[u] \in Task /\ SliceOf(u) \in Seq(Mark)
  BY <1>1, RunningFacts
<1>3. new \in Locals /\ new.at = local[u].at
  BY <1>2, LocalFacts DEF TypeInv
<1> HIDE DEF new
<1>4. TypeInv'
  BY <1>1, <1>3 DEF TypeInv, Step
<1>5. local'[u] = new /\ step'[u] = next /\ (next = "load" => row[u] # None)
  BY <1>1 DEF TypeInv
<1>6. WorkOf(u)'
  BY <1>0, <1>1, <1>3, <1>5 DEF WorkOf, TaskOf, IndexOf, RecordOf
<1>7. TaskTouches(u)
  BY <1>1 DEF TaskTouches, TypeInv
<1>8. QED
  BY <1>4, <1>6, <1>7, OthersWork

LEMMA LoadOldTypes ==
    ASSUME TypeInv, WorkInv, NEW u \in Student, LoadOld(u)
    PROVE  TypeInv' /\ WorkInv' /\ TaskTouches(u)
<1>0. TaskOf(u) /\ IndexOf(u) /\ RecordOf(u)
  BY DEF WorkInv, WorkOf
<1> DEFINE new == [local[u] EXCEPT !.old = Reverse(row[u]), !.at = 1]
           f == running[u].fetch
<1>1. /\ step[u] = "load"
      /\ local' = [local EXCEPT ![u] = new]
      /\ step' = [step EXCEPT ![u] = "compare"]
      /\ slice' = [slice EXCEPT ![f] = Reverse(slice[f])]
      /\ UNCHANGED <<marks, changed, caller, adding, row, offerings, mailbox, announced, dropped, pending,
                     running, mishap>>
  BY DEF LoadOld, GoTo, registry, flights, tables, pushes, executor
<1>2. /\ running[u] \in Task /\ f \in Fetch /\ caller[f] = u /\ Reverse(slice[f]) \in Seq(Mark)
      /\ Reverse(row[u]) \in Seq(Mark)
  <2>1. row[u] \in Seq(Mark)
    BY <1>1 DEF WorkInv, WorkOf, TaskOf, TypeInv
  <2>2. QED
    BY <1>1, <2>1, RunningFacts, ReverseFacts
<1>3. new \in Locals /\ new.at = 1
  <2>1. local[u] \in Locals
    BY <1>1, RunningFacts
  <2>2. QED
    BY <1>2, <2>1, LocalFacts
<1> HIDE DEF new
<1>4. TypeInv'
  BY <1>1, <1>2, <1>3 DEF TypeInv, Step
<1>5. local'[u] = new /\ step'[u] = "compare"
  BY <1>1 DEF TypeInv
<1>6. WorkOf(u)'
  BY <1>0, <1>1, <1>3, <1>5 DEF WorkOf, TaskOf, IndexOf, RecordOf
<1>7. TaskTouches(u)
  BY <1>1, <1>2 DEF TaskTouches, TypeInv
<1>8. QED
  BY <1>4, <1>6, <1>7, OthersWork

(* The next difference is one. *)
LEMMA NextDifference ==
    ASSUME TypeInv, WorkInv, NEW u \in Student, step[u] = "compare",
           {i \in Differences(SliceOf(u), local[u].old) : i >= local[u].at} # {}
    PROVE  LET n == Min({i \in Differences(SliceOf(u), local[u].old) : i >= local[u].at}) IN
           n \in Differences(SliceOf(u), local[u].old) /\ n \in DOMAIN SliceOf(u) /\ n \in Nat \ {0}
<1> DEFINE todo == {i \in Differences(SliceOf(u), local[u].old) : i >= local[u].at}
<1>1. running[u] \in Task /\ SliceOf(u) \in Seq(Mark)
  BY RunningFacts
<1>2. Differences(SliceOf(u), local[u].old) \subseteq DOMAIN SliceOf(u)
  BY DEF Differences
<1>3. DOMAIN SliceOf(u) \subseteq Nat \ {0}
  BY <1>1
<1>4. Min(todo) \in todo
  BY <1>2, <1>3, MinFacts
<1>5. QED
  BY <1>2, <1>3, <1>4

LEMMA CompareTypes ==
    ASSUME TypeInv, WorkInv, NEW u \in Student, Compare(u)
    PROVE  TypeInv' /\ WorkInv' /\ TaskTouches(u)
<1>0. TaskOf(u) /\ IndexOf(u) /\ RecordOf(u)
  BY DEF WorkInv, WorkOf
<1> DEFINE todo == {i \in Differences(SliceOf(u), local[u].old) : i >= local[u].at}
           n == Min(todo)
           c == SliceOf(u)[n].course
<1>1. /\ step[u] = "compare" /\ running[u] \in Task /\ running[u].fetch \in Fetch
      /\ SliceOf(u) \in Seq(Mark) /\ local[u] \in Locals
  <2>1. step[u] = "compare"
    BY DEF Compare
  <2>2. QED
    BY <2>1, RunningFacts
<1>2. UNCHANGED <<marks, changed, caller, adding, slice, row, offerings, pending, running, mishap>>
  BY DEF Compare, registry, flights, tables, executor
<1>3. todo # {} => n \in DOMAIN SliceOf(u) /\ n \in Nat \ {0} /\ c \in Course
  <2>1. SUFFICES ASSUME todo # {} PROVE n \in DOMAIN SliceOf(u) /\ n \in Nat \ {0} /\ c \in Course
    OBVIOUS
  <2>2. n \in DOMAIN SliceOf(u) /\ n \in Nat \ {0}
    BY <1>1, <2>1, NextDifference
  <2>3. SliceOf(u)[n] \in Mark
    BY <1>1, <2>2
  <2>4. QED
    BY <2>2, <2>3 DEF Mark
<1>4. CASE step' = [step EXCEPT ![u] = "update"] /\ UNCHANGED <<mailbox, announced, dropped, local>>
  <2>1. TypeInv'
    BY <1>2, <1>4 DEF TypeInv, Step
  <2>2. step'[u] = "update"
    BY <1>4 DEF TypeInv
  <2>3. WorkOf(u)'
    BY <1>0, <1>1, <1>2, <1>4, <2>2 DEF WorkOf, TaskOf, IndexOf, RecordOf
  <2>4. TaskTouches(u)
    BY <1>2, <1>4 DEF TaskTouches, TypeInv
  <2>5. QED
    BY <2>1, <2>3, <2>4, OthersWork
<1>5. CASE todo # {} /\ local' = [local EXCEPT ![u].at = n + 1] /\ UNCHANGED <<step, mailbox, announced, dropped>>
  <2> DEFINE new == [local[u] EXCEPT !.at = n + 1]
  <2>1. local' = [local EXCEPT ![u] = new] /\ new \in Locals /\ new.at = n + 1
    <3>1. n + 1 \in Nat
      BY <1>3, <1>5
    <3>2. QED
      BY <1>1, <1>5, <3>1, LocalFacts
  <2>0. UNCHANGED <<step, mailbox, announced, dropped>> /\ n + 1 > 0
    BY <1>3, <1>5
  <2> HIDE DEF new, n
  <2>2. TypeInv'
    BY <1>2, <2>0, <2>1 DEF TypeInv
  <2>3. local'[u] = new /\ local'[u].at > 0
    BY <2>0, <2>1 DEF TypeInv
  <2>4. WorkOf(u)'
    BY <1>0, <1>1, <1>2, <2>0, <2>3 DEF WorkOf, TaskOf, IndexOf, RecordOf
  <2>5. TaskTouches(u)
    BY <1>2, <2>0, <2>1 DEF TaskTouches, TypeInv
  <2>6. QED
    BY <2>2, <2>4, <2>5, OthersWork
<1>6. CASE todo # {} /\ Announce(u, n)
  <2> DEFINE new == [local[u] EXCEPT !.at = n]
             mail == [fetch |-> running[u].fetch, index |-> n, course |-> c]
  <2>1. local' = [local EXCEPT ![u] = new] /\ new \in Locals /\ new.at = n
    BY <1>1, <1>3, <1>6, LocalFacts DEF Announce
  <2>2. mail \in [fetch : Fetch, index : Nat, course : Course]
    BY <1>1, <1>3, <1>6
  <2>3. /\ mailbox' \subseteq mailbox \cup {mail}
        /\ announced \subseteq announced' /\ dropped \subseteq dropped'
        /\ <<u, c>> \in announced' \cup dropped'
        /\ step' = [step EXCEPT ![u] = "record"]
    BY <1>6 DEF Announce, GoTo
  <2> HIDE DEF new, mail, n
  <2>4. TypeInv'
    BY <1>2, <2>1, <2>2, <2>3 DEF TypeInv, Step
  <2>5. local'[u].at = n /\ step'[u] = "record"
    BY <2>1, <2>3 DEF TypeInv
  <2>6. SliceOf(u)' = SliceOf(u)
    BY <1>2 DEF SliceOf
  <2>7. WorkOf(u)'
    BY <1>0, <1>1, <1>2, <1>3, <1>6, <2>3, <2>5, <2>6 DEF WorkOf, TaskOf, IndexOf, RecordOf
  <2>8. TaskTouches(u)
    BY <1>2, <2>1, <2>3 DEF TaskTouches, TypeInv
  <2>9. QED
    BY <2>4, <2>7, <2>8, OthersWork
<1>7. QED
  BY <1>4, <1>5, <1>6 DEF Compare, GoTo

LEMMA StoreTypes ==
    ASSUME TypeInv, WorkInv, NEW u \in Student, Store(u)
    PROVE  TypeInv' /\ WorkInv' /\ TaskTouches(u)
<1>0. TaskOf(u) /\ IndexOf(u) /\ RecordOf(u)
  BY DEF WorkInv, WorkOf
<1> DEFINE list == local[u].json
<1>1. /\ step[u] = "update"
      /\ row' = [row EXCEPT ![u] = list]
      /\ step' = [step EXCEPT ![u] = "succeed"]
      /\ UNCHANGED <<marks, changed, caller, adding, slice, offerings, mailbox, announced, dropped, pending,
                     running, local, mishap>>
  BY DEF Store, GoTo, registry, flights, pushes, executor
<1>2. list \in Seq(Mark)
  BY DEF TypeInv, Locals
<1> HIDE DEF list
<1>3. TypeInv'
  BY <1>1, <1>2 DEF TypeInv, Step
<1>4. step'[u] = "succeed"
  BY <1>1 DEF TypeInv
<1>5. WorkOf(u)'
  BY <1>0, <1>1, <1>4 DEF WorkOf, TaskOf, IndexOf, RecordOf
<1>6. TaskTouches(u)
  BY <1>1 DEF TaskTouches, TypeInv
<1>7. QED
  BY <1>3, <1>5, <1>6, OthersWork

(* A task ends; what was pending stays or is cleared.                      *)
LEMMA EndTypes ==
    ASSUME TypeInv, WorkInv, NEW u \in Student,
           running' = [running EXCEPT ![u] = None],
           pending' = pending \/ pending' = [pending EXCEPT ![u] = None],
           step' = [step EXCEPT ![u] = "none"],
           local' = [local EXCEPT ![u] = NoLocals],
           UNCHANGED <<marks, changed, caller, adding, slice, row, offerings, mailbox, announced, dropped>>,
           mishap \subseteq mishap'
    PROVE  TypeInv' /\ WorkInv' /\ TaskTouches(u)
<1>0. TaskOf(u)
  BY DEF WorkInv, WorkOf
<1>1. TypeInv'
  BY NoLocalsFacts DEF TypeInv, Step
<1>2. /\ running'[u] = None /\ step'[u] = "none" /\ local'[u].at = 0
      /\ pending'[u] = pending[u] \/ pending'[u] = None
  BY NoLocalsFacts DEF TypeInv
<1>3. WorkOf(u)'
  BY <1>0, <1>2 DEF WorkOf, TaskOf, IndexOf, RecordOf
<1>4. TaskTouches(u)
  BY DEF TaskTouches, TypeInv
<1>5. QED
  BY <1>1, <1>3, <1>4, OthersWork

LEMMA SucceedTypes ==
    ASSUME TypeInv, WorkInv, NEW u \in Student, Succeed(u)
    PROVE  TypeInv' /\ WorkInv' /\ TaskTouches(u)
  BY EndTypes DEF Succeed, Executor!Succeed, GoTo, registry, flights, tables, pushes

LEMMA FailsTypes ==
    ASSUME TypeInv, WorkInv, NEW u \in Student, Fails(u)
    PROVE  TypeInv' /\ WorkInv' /\ TaskTouches(u)
<1>1. mishap \subseteq mishap'
  BY DEF Fails, Release
<1>2. QED
  BY <1>1, EndTypes DEF Fails, Release, Executor!Release, GoTo, registry, flights, tables, pushes

LEMMA RecordTypes ==
    ASSUME TypeInv, WorkInv, NEW u \in Student, Record(u)
    PROVE  TypeInv' /\ WorkInv' /\ TaskTouches(u)
<1>0. TaskOf(u) /\ IndexOf(u) /\ RecordOf(u)
  BY DEF WorkInv, WorkOf
<1> DEFINE c == SliceOf(u)[local[u].at].course
<1>1. /\ step[u] = "record"
      /\ UNCHANGED <<marks, changed, caller, adding, slice, row, mailbox, announced, dropped>>
  BY DEF Record, registry, flights, pushes
<1>2. CASE Release(u) /\ UNCHANGED offerings
  <2>1. mishap \subseteq mishap'
    BY <1>2 DEF Release
  <2>2. QED
    BY <1>1, <1>2, <2>1, EndTypes DEF Release, Executor!Release, GoTo
<1>3. CASE /\ offerings' = offerings \cup {c}
           /\ local' = [local EXCEPT ![u].at = @ + 1]
           /\ step' = [step EXCEPT ![u] = "compare"]
           /\ UNCHANGED <<executor, mishap>>
  <2> DEFINE n == local[u].at + 1
             new == [local[u] EXCEPT !.at = n]
  <2>1. local[u] \in Locals /\ local[u].at \in Nat /\ local[u].at \in DOMAIN SliceOf(u) /\ SliceOf(u) \in Seq(Mark)
    BY <1>0, <1>1, RunningFacts DEF RecordOf, Locals
  <2>2. c \in Course
    <3>1. SliceOf(u)[local[u].at] \in Mark
      BY <2>1
    <3>2. QED
      BY <3>1 DEF Mark
  <2>3. n \in Nat /\ n > 0
    BY <2>1
  <2>4. local' = [local EXCEPT ![u] = new]
    BY <1>3
  <2>5. offerings' = offerings \cup {c} /\ step' = [step EXCEPT ![u] = "compare"] /\ UNCHANGED <<executor, mishap>>
    BY <1>3
  <2> HIDE DEF n
  <2>6. new \in Locals /\ new.at = n
    BY <2>1, <2>3, LocalFacts
  <2> HIDE DEF new, c
  <2>7. TypeInv'
    BY <1>1, <2>2, <2>4, <2>5, <2>6 DEF TypeInv, Step, executor
  <2>8. local'[u] = new /\ step'[u] = "compare"
    BY <2>4, <2>5 DEF TypeInv
  <2>9. WorkOf(u)'
    BY <1>0, <1>1, <2>3, <2>5, <2>6, <2>8 DEF WorkOf, TaskOf, IndexOf, RecordOf, executor
  <2>10. TaskTouches(u)
    BY <1>1, <2>4, <2>5 DEF TaskTouches, TypeInv, executor
  <2>11. QED
    BY <2>7, <2>9, <2>10, OthersWork
<1>4. QED
  BY <1>2, <1>3 DEF Record, GoTo

LEMMA TypesStep == TypeInv /\ WorkInv /\ [Next]_vars => TypeInv' /\ WorkInv'
<1> SUFFICES ASSUME TypeInv, WorkInv, [Next]_vars PROVE TypeInv' /\ WorkInv'
  OBVIOUS
<1>1. CASE \/ \E s \in Student : \E i \in 1..Len(marks[s]), v \in Score : ChangeScore(s, i, v)
           \/ \E s \in Student, m \in Mark : NewCourse(s, m)
           \/ \E s \in Student : ExpireCopy(s)
           \/ \E f \in Fetch : SetCopy(f)
           \/ \E p \in mailbox : Send(p)
  BY <1>1, OutsideTypes
<1>2. CASE \E s \in Student : GetMarks(s)
  BY <1>2, GetMarksTypes
<1>3. CASE \E f \in Fetch : AddCheck(f)
  BY <1>3, AddCheckTypes
<1>4. CASE \E s \in Student : Work(s) \/ Fails(s)
  BY <1>4, BeginTypes, CompareHashTypes, LoadOldTypes, CompareTypes, RecordTypes, StoreTypes, SucceedTypes,
     FailsTypes DEF Work
<1>5. CASE UNCHANGED vars
  BY <1>5 DEF vars, TypeInv, WorkInv, WorkOf, TaskOf, IndexOf, RecordOf, SliceOf, registry, flights, tables,
              pushes, executor
<1>6. QED
  BY <1>1, <1>2, <1>3, <1>4, <1>5 DEF Next


-----------------------------------------------------------------------------
(* Lists and announcements *)

LEMMA OthersStraight ==
    ASSUME TypeInv', WorkInv', NEW u \in Student, TaskTouches(u), NEW f \in Fetch, caller[f] # u, Straight(f)'
    PROVE  Straight(f)
<1>1. CASE f \in adding
  BY <1>1 DEF Straight
<1>2. CASE f \notin adding
  <2>1. PICK s \in Student :
          /\ local'[s].at = 0
          /\ \/ pending'[s] # None /\ pending'[s].fetch = f
             \/ running'[s] # None /\ running'[s].fetch = f
    BY <1>2 DEF Straight, TaskTouches
  <2>2. caller'[f] = s
    BY <2>1 DEF WorkInv, WorkOf, TaskOf
  <2>3. s # u
    BY <2>2 DEF TaskTouches
  <2>4. QED
    BY <2>1, <2>3 DEF Straight, TaskTouches
<1>3. QED
  BY <1>1, <1>2

(* What the task of u has or will run has not been reversed unless it had  *)
(* not been before.                                                        *)
Quiet(u) ==
    \A x \in {running'[u], pending'[u]} :
        local'[u].at = 0 /\ x # None => local[u].at = 0 /\ x \in {running[u], pending[u]}

LEMMA OwnStraight ==
    ASSUME TypeInv', WorkInv', NEW u \in Student, TaskTouches(u), Quiet(u), NEW f \in Fetch,
           Straight(f)'
    PROVE  Straight(f)
<1>1. CASE caller[f] # u
  BY <1>1, OthersStraight
<1>2. CASE f \in adding
  BY <1>2 DEF Straight
<1>3. CASE caller[f] = u /\ f \notin adding
  <2>1. PICK s \in Student :
          /\ local'[s].at = 0
          /\ \/ pending'[s] # None /\ pending'[s].fetch = f
             \/ running'[s] # None /\ running'[s].fetch = f
    BY <1>3 DEF Straight, TaskTouches
  <2>2. caller'[f] = s
    BY <2>1 DEF WorkInv, WorkOf, TaskOf
  <2>3. s = u
    BY <1>3, <2>2 DEF TaskTouches
  <2>4. local[u].at = 0 /\ \E x \in {running[u], pending[u]} : x # None /\ x.fetch = f
    BY <2>1, <2>3 DEF Quiet
  <2>5. QED
    BY <2>4 DEF Straight
<1>4. QED
  BY <1>1, <1>2, <1>3

LEMMA OthersLists ==
    ASSUME TypeInv, WorkInv, TypeInv', WorkInv', ListsAreVersions, NEW u \in Student, TaskTouches(u),
           NEW s \in Student, s # u, s \notin mishap'
    PROVE  ListsOf(s)'
<1>1. ListsOf(s)
  BY DEF ListsAreVersions, TaskTouches
<1>2. /\ step'[s] = step[s] /\ local'[s] = local[s] /\ row'[s] = row[s]
      /\ running'[s] = running[s]
      /\ caller' = caller /\ UNCHANGED registry
  BY DEF TaskTouches, registry
<1>3. ASSUME NEW f \in Fetch, caller[f] = s PROVE slice'[f] = slice[f] /\ (Straight(f)' => Straight(f))
  BY <1>3, OthersStraight DEF TaskTouches
<1>4. step[s] # "none" => SliceOf(s)' = SliceOf(s)
  BY <1>2, <1>3, RunningFacts DEF SliceOf
<1>5. (row[s] # None => Version(s, row[s]))'
  BY <1>1, <1>2 DEF ListsOf, Version, registry
<1>6. (\A f \in Fetch : caller[f] = s /\ Straight(f) => Version(s, slice[f]))'
  <2>1. SUFFICES ASSUME NEW f \in Fetch, caller'[f] = s, Straight(f)' PROVE Version(s, slice[f])'
    OBVIOUS
  <2>2. Version(s, slice[f]) /\ slice'[f] = slice[f]
    BY <1>1, <1>2, <1>3, <2>1 DEF ListsOf
  <2>3. QED
    BY <1>2, <2>2 DEF Version, registry
<1>7. (step[s] \in {"load", "compare", "record", "update"} => Version(s, local[s].json))'
  BY <1>1, <1>2 DEF ListsOf, Version, registry
<1>8. (step[s] \in {"compare", "record"} =>
          Version(s, Reverse(SliceOf(s))) /\ Version(s, Reverse(local[s].old)))'
  BY <1>1, <1>2, <1>4 DEF ListsOf, Version, registry
<1>9. QED
  BY <1>5, <1>6, <1>7, <1>8 DEF ListsOf

(* A task that leaves its slice and its announcements alone, and its lists *)
(* as long as it does not fail late                                        *)
LEMMA OwnLists ==
    ASSUME TypeInv, WorkInv, TypeInv', WorkInv', ListsAreVersions, NEW u \in Student, TaskTouches(u),
           slice' = slice,
           u \notin mishap' =>
              /\ Quiet(u)
              /\ row'[u] = row[u] \/ Version(u, row'[u])
              /\ step'[u] \in {"load", "compare", "record", "update"} => Version(u, local'[u].json)
              /\ step'[u] \in {"compare", "record"} =>
                    /\ step[u] \in {"compare", "record"}
                    /\ running'[u] = running[u] /\ local'[u].old = local[u].old
    PROVE  ListsAreVersions'
<1>1. SUFFICES ASSUME u \notin mishap' PROVE ListsOf(u)'
  BY OthersLists DEF ListsAreVersions
<1>2. ListsOf(u)
  BY <1>1 DEF ListsAreVersions, TaskTouches
<1>3. UNCHANGED <<registry, caller, slice>>
  BY DEF TaskTouches, registry
<1>4. (row[u] # None => Version(u, row[u]))'
  BY <1>1, <1>2, <1>3 DEF ListsOf, Version, registry
<1>5. (\A f \in Fetch : caller[f] = u /\ Straight(f) => Version(u, slice[f]))'
  <2>1. SUFFICES ASSUME NEW f \in Fetch, caller'[f] = u, Straight(f)' PROVE Version(u, slice[f])'
    OBVIOUS
  <2>2. Straight(f)
    BY <1>1, <2>1, OwnStraight
  <2>3. Version(u, slice[f])
    BY <1>2, <1>3, <2>1, <2>2 DEF ListsOf
  <2>4. QED
    BY <1>3, <2>3 DEF Version, registry
<1>6. (step[u] \in {"load", "compare", "record", "update"} => Version(u, local[u].json))'
  BY <1>1, <1>3 DEF Version, registry
<1>7. (step[u] \in {"compare", "record"} =>
          Version(u, Reverse(SliceOf(u))) /\ Version(u, Reverse(local[u].old)))'
  <2>1. SUFFICES ASSUME step'[u] \in {"compare", "record"}
                 PROVE  (Version(u, Reverse(SliceOf(u))) /\ Version(u, Reverse(local[u].old)))'
    OBVIOUS
  <2>2. Version(u, Reverse(SliceOf(u))) /\ Version(u, Reverse(local[u].old))
    BY <1>1, <1>2, <2>1 DEF ListsOf
  <2>3. SliceOf(u)' = SliceOf(u) /\ local'[u].old = local[u].old
    BY <1>1, <1>3, <2>1 DEF SliceOf
  <2>4. QED
    BY <1>3, <2>2, <2>3 DEF Version, registry
<1>8. QED
  BY <1>4, <1>5, <1>6, <1>7 DEF ListsOf

(* Announcements stay right as long as the slices they point into do.      *)
LEMMA MailStays ==
    ASSUME TypeInv, WorkInv, TypeInv', WorkInv', MailPoints, NEW u \in Student, TaskTouches(u),
           NEW p \in mailbox, u \notin mishap' => Quiet(u),
           PointsAt(p) => slice'[p.fetch] = slice[p.fetch]
    PROVE  (caller[p.fetch] # None /\ (caller[p.fetch] \notin mishap => PointsAt(p)))'
<1>1. p.fetch \in Fetch
  BY DEF TypeInv
<1>2. caller' = caller /\ mishap \subseteq mishap'
  BY DEF TaskTouches
<1>3. ASSUME caller[p.fetch] \notin mishap' PROVE PointsAt(p)'
  <2>1. PointsAt(p)
    BY <1>2, <1>3 DEF MailPoints
  <2>2. slice'[p.fetch] = slice[p.fetch]
    BY <2>1
  <2>3. Straight(p.fetch)' => Straight(p.fetch)
    <3>1. CASE caller[p.fetch] # u
      BY <1>1, <3>1, OthersStraight
    <3>2. CASE caller[p.fetch] = u
      BY <1>1, <1>3, <3>2, OwnStraight
    <3>3. QED
      BY <3>1, <3>2
  <2>4. QED
    BY <2>1, <2>2, <2>3 DEF PointsAt
<1>4. QED
  BY <1>2, <1>3 DEF MailPoints

-----------------------------------------------------------------------------
(* The steps of a task, but for the reversal and the comparison            *)
LEMMA PlainSteps ==
    ASSUME TypeInv, WorkInv, TypeInv', WorkInv', ListsAreVersions, MailPoints, NEW u \in Student,
           Begin(u) \/ CompareHash(u) \/ Record(u) \/ Store(u) \/ Succeed(u) \/ Fails(u), TaskTouches(u)
    PROVE  ListsAreVersions' /\ MailPoints'
<1> DEFINE Own ==
              /\ Quiet(u)
              /\ row'[u] = row[u] \/ Version(u, row'[u])
              /\ step'[u] \in {"load", "compare", "record", "update"} => Version(u, local'[u].json)
              /\ step'[u] \in {"compare", "record"} =>
                    /\ step[u] \in {"compare", "record"}
                    /\ running'[u] = running[u] /\ local'[u].old = local[u].old
<1>1. slice' = slice /\ mailbox' = mailbox
  BY DEF Begin, CompareHash, Record, Store, Succeed, Fails, pushes
<1>2. u \notin mishap' => ListsOf(u)
  BY DEF TaskTouches, ListsAreVersions
<1>3. TaskOf(u) /\ IndexOf(u)
  BY DEF WorkInv, WorkOf
<1>4. ASSUME u \notin mishap', Begin(u) PROVE Own
  <2>1. /\ running[u] = None /\ running' = [running EXCEPT ![u] = pending[u]]
        /\ step' = [step EXCEPT ![u] = "hash"] /\ UNCHANGED <<pending, local, row>>
    BY <1>4 DEF Begin, Executor!Begin, GoTo, tables
  <2>2. running'[u] = pending[u] /\ step'[u] = "hash"
    BY <2>1 DEF TypeInv
  <2>3. QED
    BY <2>1, <2>2 DEF Quiet
<1>5. ASSUME u \notin mishap', CompareHash(u) PROVE Own
  <2> DEFINE new == [local[u] EXCEPT !.json = SliceOf(u)]
             next == IF row[u] = None THEN "update"
                     ELSE IF row[u] = SliceOf(u) THEN "succeed" ELSE "load"
  <2>1. /\ step[u] = "hash" /\ local' = [local EXCEPT ![u] = new]
        /\ step' = [step EXCEPT ![u] = next] /\ UNCHANGED <<pending, running, row>>
    BY <1>5 DEF CompareHash, GoTo, tables, executor
  <2>2. /\ local[u].at = 0 /\ running[u] # None /\ running[u].fetch \in Fetch /\ caller[running[u].fetch] = u
        /\ SliceOf(u) \in Seq(Mark) /\ local[u] \in Locals /\ SliceOf(u) = slice[running[u].fetch]
    BY <1>3, <2>1, RunningFacts DEF IndexOf
  <2>3. new.json = SliceOf(u) /\ new.at = 0
    BY <2>2, LocalFacts
  <2>4. Straight(running[u].fetch)
    BY <2>2 DEF Straight
  <2>5. Version(u, SliceOf(u))
    BY <1>2, <1>5, <2>2, <2>4 DEF ListsOf
  <2> HIDE DEF new
  <2>6. local'[u] = new /\ step'[u] = next
    BY <2>1 DEF TypeInv
  <2>7. step'[u] \in {"update", "succeed", "load"}
    BY <2>6
  <2>8. QED
    BY <2>1, <2>2, <2>3, <2>5, <2>6, <2>7 DEF Quiet
<1>6. ASSUME u \notin mishap', Store(u) PROVE Own
  <2>1. /\ step[u] = "update" /\ row' = [row EXCEPT ![u] = local[u].json]
        /\ step' = [step EXCEPT ![u] = "succeed"] /\ UNCHANGED <<pending, running, local>>
    BY <1>6 DEF Store, GoTo, executor
  <2>2. row'[u] = local[u].json /\ step'[u] = "succeed"
    BY <2>1 DEF TypeInv
  <2>3. Version(u, local[u].json)
    BY <1>2, <1>6, <2>1 DEF ListsOf
  <2>4. QED
    BY <2>1, <2>2, <2>3 DEF Quiet
<1>7. ASSUME u \notin mishap', Succeed(u) PROVE Own
  <2>1. /\ running' = [running EXCEPT ![u] = None] /\ pending' = [pending EXCEPT ![u] = None]
        /\ step' = [step EXCEPT ![u] = "none"] /\ row' = row
    BY <1>7 DEF Succeed, Executor!Succeed, GoTo, tables
  <2>2. running'[u] = None /\ pending'[u] = None /\ step'[u] = "none"
    BY <2>1 DEF TypeInv
  <2>3. QED
    BY <2>1, <2>2 DEF Quiet
<1>8. ASSUME u \notin mishap', Release(u), row' = row PROVE Own
  <2>1. /\ running' = [running EXCEPT ![u] = None] /\ pending' = pending
        /\ step' = [step EXCEPT ![u] = "none"]
        /\ mishap' = IF local[u].at > 0 THEN mishap \cup {u} ELSE mishap
    BY <1>8 DEF Release, Executor!Release, GoTo
  <2>2. ~(local[u].at > 0) /\ local[u].at \in Nat
    BY <1>8, <2>1 DEF TypeInv, Locals
  <2>3. local[u].at = 0
    BY <2>2
  <2>4. running'[u] = None /\ step'[u] = "none"
    BY <2>1 DEF TypeInv
  <2>5. QED
    BY <1>8, <2>1, <2>3, <2>4 DEF Quiet
<1>9. ASSUME u \notin mishap', Fails(u) PROVE Own
  <2>1. Release(u) /\ row' = row
    BY <1>9 DEF Fails, tables
  <2>2. QED
    BY <1>8, <1>9, <2>1
<1>10. ASSUME u \notin mishap', Record(u) PROVE Own
  <2>1. step[u] = "record" /\ row' = row
    BY <1>10 DEF Record
  <2>2. CASE Release(u)
    BY <1>8, <1>10, <2>1, <2>2
  <2>3. CASE /\ local' = [local EXCEPT ![u].at = @ + 1]
             /\ step' = [step EXCEPT ![u] = "compare"]
             /\ UNCHANGED executor
    <3> DEFINE n == local[u].at + 1
               new == [local[u] EXCEPT !.at = n]
    <3>1. local[u] \in Locals /\ n \in Nat /\ n > 0
      BY <2>1, RunningFacts DEF Locals
    <3>2. local' = [local EXCEPT ![u] = new]
      BY <2>3
    <3>3. step' = [step EXCEPT ![u] = "compare"] /\ UNCHANGED <<pending, running>>
      BY <2>3 DEF executor
    <3> HIDE DEF n
    <3>4. new.json = local[u].json /\ new.old = local[u].old /\ new.at = n
      BY <3>1, LocalFacts
    <3> HIDE DEF new
    <3>5. local'[u] = new /\ step'[u] = "compare"
      BY <3>2, <3>3 DEF TypeInv
    <3>6. Version(u, local[u].json)
      BY <1>2, <1>10, <2>1 DEF ListsOf
    <3>7. Quiet(u)
      BY <3>1, <3>4, <3>5 DEF Quiet
    <3>8. QED
      BY <2>1, <3>3, <3>4, <3>5, <3>6, <3>7
  <2>4. QED
    BY <1>10, <2>2, <2>3 DEF Record, GoTo
<1>11. u \notin mishap' => Own
  BY <1>4, <1>5, <1>6, <1>7, <1>9, <1>10
<1>12. ListsAreVersions'
  BY <1>1, <1>11, OwnLists
<1>13. MailPoints'
  BY <1>1, <1>11, MailStays DEF MailPoints
<1>14. QED
  BY <1>12, <1>13

(* Once a task has reversed its slice, no list of its student's is straight *)
(* but those of tasks that are to be added.                                *)
LEMMA NoneStraight ==
    ASSUME TypeInv', WorkInv', NEW u \in Student, TaskTouches(u), local'[u].at # 0, NEW f \in Fetch,
           caller[f] = u, Straight(f)'
    PROVE  f \in adding
<1>1. SUFFICES ASSUME f \notin adding PROVE FALSE
  OBVIOUS
<1>2. PICK s \in Student :
        /\ local'[s].at = 0
        /\ \/ pending'[s] # None /\ pending'[s].fetch = f
           \/ running'[s] # None /\ running'[s].fetch = f
  BY <1>1 DEF Straight, TaskTouches
<1>3. caller'[f] = s
  BY <1>2 DEF WorkInv, WorkOf, TaskOf
<1>4. QED
  BY <1>2, <1>3 DEF TaskTouches

(* Both lists are reversed: the slice was straight and is not any more.    *)
LEMMA LoadOldStep ==
    ASSUME TypeInv, WorkInv, TypeInv', WorkInv', ListsAreVersions, MailPoints, NEW u \in Student,
           LoadOld(u), TaskTouches(u)
    PROVE  ListsAreVersions' /\ MailPoints'
<1> DEFINE new == [local[u] EXCEPT !.old = Reverse(row[u]), !.at = 1]
           f == running[u].fetch
<1>1. /\ step[u] = "load"
      /\ local' = [local EXCEPT ![u] = new]
      /\ step' = [step EXCEPT ![u] = "compare"]
      /\ slice' = [slice EXCEPT ![f] = Reverse(slice[f])]
      /\ UNCHANGED <<marks, changed, caller, adding, row, mailbox, running, mishap>>
  BY DEF LoadOld, GoTo, registry, flights, tables, pushes, executor
<1>2. /\ running[u] # None /\ f \in Fetch /\ caller[f] = u /\ f \notin adding /\ slice[f] = SliceOf(u)
      /\ SliceOf(u) \in Seq(Mark) /\ local[u] \in Locals
  BY <1>1, RunningFacts
<1>3. row[u] \in Seq(Mark) /\ Reverse(row[u]) \in Seq(Mark) /\ local[u].at = 0 /\ row[u] # None
  <2>1. row[u] # None /\ row[u] \in Seq(Mark) /\ local[u].at = 0
    BY <1>1 DEF WorkInv, WorkOf, TaskOf, IndexOf, TypeInv
  <2>2. QED
    BY <2>1, ReverseFacts
<1>4. new.at = 1 /\ new.old = Reverse(row[u]) /\ new.json = local[u].json
  BY <1>2, <1>3, LocalFacts
<1> HIDE DEF new
<1>5. local'[u] = new /\ step'[u] = "compare" /\ slice'[f] = Reverse(slice[f])
      /\ \A g \in Fetch : g # f => slice'[g] = slice[g]
  BY <1>1, <1>2 DEF TypeInv
<1>6. marks' = marks /\ changed' = changed
  BY <1>1
<1>7. Quiet(u)
  BY <1>4, <1>5 DEF Quiet
<1>8. Straight(f)
  BY <1>2, <1>3 DEF Straight
<1>9. ASSUME u \notin mishap PROVE ListsOf(u)'
  <2>1. ListsOf(u)
    BY <1>9 DEF ListsAreVersions
  <2>2. Version(u, row[u]) /\ Version(u, SliceOf(u)) /\ Version(u, local[u].json)
    BY <1>1, <1>2, <1>3, <1>8, <2>1 DEF ListsOf
  <2>3. (row[u] # None => Version(u, row[u]))'
    BY <1>1, <2>2 DEF Version
  <2>4. (\A g \in Fetch : caller[g] = u /\ Straight(g) => Version(u, slice[g]))'
    <3>1. SUFFICES ASSUME NEW g \in Fetch, caller'[g] = u, Straight(g)' PROVE Version(u, slice[g])'
      OBVIOUS
    <3>2. g \in adding /\ caller[g] = u
      BY <1>1, <1>4, <1>5, <3>1, NoneStraight
    <3>3. slice'[g] = slice[g] /\ Version(u, slice[g])
      BY <1>2, <1>5, <2>1, <3>2 DEF ListsOf, Straight
    <3>4. QED
      BY <1>6, <3>3 DEF Version
  <2>5. (step[u] \in {"load", "compare", "record", "update"} => Version(u, local[u].json))'
    <3>1. local'[u].json = local[u].json
      BY <1>4, <1>5
    <3>2. QED
      BY <1>6, <2>2, <3>1 DEF Version
  <2>6. (Version(u, Reverse(SliceOf(u))) /\ Version(u, Reverse(local[u].old)))'
    <3>1. SliceOf(u)' = Reverse(SliceOf(u))
      BY <1>1, <1>2, <1>5 DEF SliceOf
    <3>2. Reverse(SliceOf(u))' = SliceOf(u) /\ Reverse(local'[u].old) = row[u]
      BY <1>2, <1>3, <1>4, <1>5, <3>1, ReverseTwice
    <3>3. QED
      BY <1>6, <2>2, <3>2 DEF Version
  <2>7. QED
    BY <2>3, <2>4, <2>5, <2>6 DEF ListsOf
<1>10. ListsAreVersions'
  BY <1>1, <1>9, OthersLists DEF ListsAreVersions
<1>11. MailPoints'
  <2>1. ASSUME NEW p \in mailbox, PointsAt(p) PROVE slice'[p.fetch] = slice[p.fetch]
    <3>1. p.fetch \in Fetch /\ p.fetch # f
      BY <1>8, <2>1 DEF PointsAt, TypeInv
    <3>2. QED
      BY <1>5, <3>1
  <2>2. QED
    BY <1>1, <1>7, <2>1, MailStays DEF MailPoints
<1>12. QED
  BY <1>10, <1>11

(* A difference is announced: the slice it points into is not straight any *)
(* more, and the score of its course has changed.                          *)
LEMMA CompareStep ==
    ASSUME TypeInv, WorkInv, TypeInv', WorkInv', ListsAreVersions, MailPoints, NEW u \in Student,
           Compare(u), TaskTouches(u)
    PROVE  /\ ListsAreVersions' /\ MailPoints'
           /\ \A s \in Student \ mishap' : \A c \in Course :
                 <<s, c>> \in announced' => <<s, c>> \in announced \/ <<s, c>> \in changed
<1> DEFINE todo == {i \in Differences(SliceOf(u), local[u].old) : i >= local[u].at}
           n == Min(todo)
           c == SliceOf(u)[n].course
<1>1. /\ step[u] = "compare"
      /\ UNCHANGED <<marks, changed, caller, adding, slice, row, pending, running, mishap>>
  BY DEF Compare, registry, flights, tables, executor
<1>2. /\ running[u] # None /\ running[u].fetch \in Fetch /\ caller[running[u].fetch] = u
      /\ running[u].fetch \notin adding /\ slice[running[u].fetch] = SliceOf(u)
      /\ SliceOf(u) \in Seq(Mark) /\ local[u] \in Locals
  BY <1>1, RunningFacts
<1>3. todo # {} => n \in Differences(SliceOf(u), local[u].old) /\ n \in DOMAIN SliceOf(u) /\ n \in Nat \ {0}
  BY <1>1, NextDifference
<1>4. u \notin mishap => ListsOf(u)
  BY DEF ListsAreVersions
<1>5. local[u].at > 0 /\ local[u].at \in Nat
  BY <1>1, <1>2 DEF WorkInv, WorkOf, IndexOf, Locals
<1>6. /\ local'[u].at > 0 /\ local'[u].old = local[u].old /\ local'[u].json = local[u].json
      /\ step'[u] \in {"compare", "record", "update"}
  <2>1. CASE step' = [step EXCEPT ![u] = "update"] /\ local' = local
    BY <1>5, <2>1 DEF TypeInv
  <2>2. CASE todo # {} /\ local' = [local EXCEPT ![u].at = n + 1] /\ step' = step
    <3> DEFINE k == n + 1
               new == [local[u] EXCEPT !.at = k]
    <3>1. k \in Nat /\ k > 0
      BY <1>3, <2>2
    <3>2. local' = [local EXCEPT ![u] = new] /\ step' = step
      BY <2>2
    <3> HIDE DEF k
    <3>3. new.at = k /\ new.old = local[u].old /\ new.json = local[u].json
      BY <1>2, <3>1, LocalFacts
    <3> HIDE DEF new
    <3>4. local'[u] = new
      BY <3>2 DEF TypeInv
    <3>5. QED
      BY <1>1, <3>1, <3>2, <3>3, <3>4
  <2>3. CASE todo # {} /\ Announce(u, n)
    <3> DEFINE new == [local[u] EXCEPT !.at = n]
    <3>1. n \in Nat /\ n > 0
      BY <1>3, <2>3
    <3>2. local' = [local EXCEPT ![u] = new] /\ step' = [step EXCEPT ![u] = "record"]
      BY <2>3 DEF Announce, GoTo
    <3> HIDE DEF n
    <3>3. new.at = n /\ new.old = local[u].old /\ new.json = local[u].json
      BY <1>2, <3>1, LocalFacts
    <3> HIDE DEF new
    <3>4. local'[u] = new /\ step'[u] = "record"
      BY <3>2 DEF TypeInv
    <3>5. QED
      BY <3>1, <3>3, <3>4
  <2>4. QED
    BY <2>1, <2>2, <2>3 DEF Compare, GoTo
<1>7. Quiet(u)
  BY <1>6 DEF Quiet
<1>8. u \notin mishap => Version(u, local[u].json)
  BY <1>1, <1>4 DEF ListsOf
<1>9. ListsAreVersions'
  BY <1>1, <1>6, <1>7, <1>8, OwnLists
<1>10. CASE UNCHANGED <<mailbox, announced, dropped>>
  <2>1. MailPoints'
    BY <1>1, <1>7, <1>10, MailStays DEF MailPoints
  <2>2. QED
    BY <1>9, <1>10, <2>1
<1>11. CASE todo # {} /\ Announce(u, n)
  <2> DEFINE mail == [fetch |-> running[u].fetch, index |-> n, course |-> c]
  <2>1. /\ mailbox' \subseteq mailbox \cup {mail}
        /\ announced' \subseteq announced \cup {<<u, c>>}
    BY <1>11 DEF Announce
  <2>2. n \in DOMAIN SliceOf(u) /\ n \in Differences(SliceOf(u), local[u].old)
    BY <1>3, <1>11
  <2>3. mail.fetch = running[u].fetch /\ mail.index = n /\ mail.course = c
    OBVIOUS
  <2>4. local'[u].at # 0
    BY <1>6
  <2>5. u \notin mishap => <<u, c>> \in changed
    <3>1. SUFFICES ASSUME u \notin mishap PROVE <<u, c>> \in changed
      OBVIOUS
    <3>2. Version(u, Reverse(SliceOf(u))) /\ Version(u, Reverse(local[u].old))
      BY <1>1, <1>4, <3>1 DEF ListsOf
    <3>3. local[u].old \in Seq(Mark)
      BY <1>2 DEF Locals
    <3>4. QED
      BY <1>2, <2>2, <3>2, <3>3, DifferencesChanged
  <2> HIDE DEF mail, n
  <2>6. ASSUME NEW p, p = mail
        PROVE  (caller[p.fetch] # None /\ (caller[p.fetch] \notin mishap => PointsAt(p)))'
    <3>1. p.fetch \in Fetch /\ caller[p.fetch] = u /\ p.fetch \notin adding
      BY <1>2, <2>3, <2>6
    <3>2. ~Straight(p.fetch)'
      BY <2>4, <3>1, NoneStraight
    <3>3. p.index \in DOMAIN slice[p.fetch] /\ slice[p.fetch][p.index].course = p.course
      BY <1>2, <2>2, <2>3, <2>6
    <3>4. PointsAt(p)'
      BY <1>1, <3>2, <3>3 DEF PointsAt
    <3>5. QED
      BY <1>1, <3>1, <3>4, TaskFacts
  <2>7. \A p \in mailbox : (caller[p.fetch] # None /\ (caller[p.fetch] \notin mishap => PointsAt(p)))'
    BY <1>1, <1>7, MailStays
  <2>8. MailPoints'
    BY <2>1, <2>6, <2>7 DEF MailPoints
  <2>9. QED
    BY <1>1, <1>9, <2>1, <2>5, <2>8
<1>12. QED
  BY <1>10, <1>11 DEF Compare

-----------------------------------------------------------------------------
(* Steps beside the tasks *)

(* The new slice is what the registry shows; no announcement points there. *)
LEMMA GetMarksStep ==
    ASSUME TypeInv, WorkInv, ListsAreVersions, MailPoints, NEW u \in Student, GetMarks(u)
    PROVE  ListsAreVersions' /\ MailPoints'
<1>1. PICK f \in Fetch :
        /\ caller[f] = None
        /\ caller' = [caller EXCEPT ![f] = u]
        /\ slice' = [slice EXCEPT ![f] = marks[u]]
        /\ adding' = adding \cup {f}
  BY DEF GetMarks, SomeFetchToCome
<1>2. UNCHANGED <<marks, changed, row, mailbox, pending, running, step, local, mishap>>
  BY DEF GetMarks, registry, tables, pushes, executor
<1>3. /\ slice'[f] = marks[u] /\ caller'[f] = u
      /\ \A g \in Fetch : g # f => slice'[g] = slice[g] /\ caller'[g] = caller[g]
  BY <1>1 DEF TypeInv
<1>4. \A g \in Fetch : g # f => (Straight(g)' <=> Straight(g))
  BY <1>1, <1>2 DEF Straight

<1>5. ASSUME NEW s \in Student, s \notin mishap PROVE ListsOf(s)'
  <2>1. ListsOf(s)
    BY <1>5 DEF ListsAreVersions
  <2>2. (row[s] # None => Version(s, row[s]))'
    BY <1>2, <2>1 DEF ListsOf, Version
  <2>3. (\A g \in Fetch : caller[g] = s /\ Straight(g) => Version(s, slice[g]))'
    <3>1. SUFFICES ASSUME NEW g \in Fetch, caller'[g] = s, Straight(g)' PROVE Version(s, slice[g])'
      OBVIOUS
    <3>2. CASE g = f
      <4>1. Version(s, marks[s]) /\ slice'[g] = marks[s]
        BY <1>3, <3>1, <3>2, ShownIsVersion
      <4>2. QED
        BY <1>2, <4>1 DEF Version
    <3>3. CASE g # f
      <4>1. Version(s, slice[g]) /\ slice'[g] = slice[g]
        BY <1>3, <1>4, <2>1, <3>1, <3>3 DEF ListsOf
      <4>2. QED
        BY <1>2, <4>1 DEF Version
    <3>4. QED
      BY <3>2, <3>3
  <2>4. (step[s] \in {"load", "compare", "record", "update"} => Version(s, local[s].json))'
    BY <1>2, <2>1 DEF ListsOf, Version
  <2>5. (step[s] \in {"compare", "record"} =>
          Version(s, Reverse(SliceOf(s))) /\ Version(s, Reverse(local[s].old)))'
    <3>1. SUFFICES ASSUME step[s] \in {"compare", "record"}
                   PROVE  (Version(s, Reverse(SliceOf(s))) /\ Version(s, Reverse(local[s].old)))'
      BY <1>2
    <3>2. running[s].fetch \in Fetch /\ caller[running[s].fetch] = s /\ s # None
      BY <3>1, RunningFacts, TaskFacts
    <3>3. running[s].fetch # f
      BY <1>1, <3>2
    <3>4. SliceOf(s)' = SliceOf(s)
      BY <1>2, <1>3, <3>2, <3>3 DEF SliceOf
    <3>5. Version(s, Reverse(SliceOf(s))) /\ Version(s, Reverse(local[s].old))
      BY <2>1, <3>1 DEF ListsOf
    <3>6. QED
      BY <1>2, <3>4, <3>5 DEF Version
  <2>6. QED
    BY <2>2, <2>3, <2>4, <2>5 DEF ListsOf
<1>6. ListsAreVersions'
  BY <1>2, <1>5 DEF ListsAreVersions
<1>7. ASSUME NEW p \in mailbox
      PROVE  (caller[p.fetch] # None /\ (caller[p.fetch] \notin mishap => PointsAt(p)))'
  <2>1. p.fetch \in Fetch /\ p.fetch # f /\ caller[p.fetch] # None
    BY <1>1 DEF MailPoints, TypeInv
  <2>2. caller'[p.fetch] = caller[p.fetch] /\ slice'[p.fetch] = slice[p.fetch] /\ (Straight(p.fetch)' <=> Straight(p.fetch))
    BY <1>3, <1>4, <2>1
  <2>3. caller[p.fetch] \notin mishap => PointsAt(p)
    BY DEF MailPoints
  <2>4. QED
    BY <1>2, <2>1, <2>2, <2>3 DEF PointsAt
<1>8. MailPoints'
  BY <1>2, <1>7 DEF MailPoints
<1>9. QED
  BY <1>6, <1>8

(* Nothing that the lists depend on changes, but for a task that is added. *)
LEMMA QuietSteps ==
    ASSUME TypeInv, WorkInv, ListsAreVersions, MailPoints,
           UNCHANGED <<marks, changed, caller, slice, row, running, step, local, mishap>>,
           mailbox' \subseteq mailbox,
           \A f \in Fetch : Straight(f)' => Straight(f)
    PROVE  ListsAreVersions' /\ MailPoints'
<1>1. ASSUME NEW s \in Student, s \notin mishap PROVE ListsOf(s)'
  <2>1. ListsOf(s)
    BY <1>1 DEF ListsAreVersions
  <2>2. (row[s] # None => Version(s, row[s]))'
    BY <2>1 DEF ListsOf, Version
  <2>3. (\A g \in Fetch : caller[g] = s /\ Straight(g) => Version(s, slice[g]))'
    BY <2>1 DEF ListsOf, Version
  <2>4. (step[s] \in {"load", "compare", "record", "update"} => Version(s, local[s].json))'
    BY <2>1 DEF ListsOf, Version
  <2>5. (step[s] \in {"compare", "record"} =>
          Version(s, Reverse(SliceOf(s))) /\ Version(s, Reverse(local[s].old)))'
    BY <2>1 DEF ListsOf, Version, SliceOf
  <2>6. QED
    BY <2>2, <2>3, <2>4, <2>5 DEF ListsOf
<1>2. ListsAreVersions'
  BY <1>1 DEF ListsAreVersions
<1>3. \A p \in mailbox : p.fetch \in Fetch
  BY DEF TypeInv
<1>4. MailPoints'
  BY <1>3 DEF MailPoints, PointsAt
<1>5. QED
  BY <1>2, <1>4

LEMMA AddCheckStep ==
    ASSUME TypeInv, WorkInv, ListsAreVersions, MailPoints, NEW f \in Fetch, AddCheck(f)
    PROVE  ListsAreVersions' /\ MailPoints'
<1> DEFINE u == caller[f]
           new == [stu |-> u, fetch |-> f]
<1>1. f \in adding /\ u \in Student /\ new \in Task /\ new.fetch = f /\ new # None /\ KeyOf[new] = u
  BY TaskFacts DEF AddCheck, TypeInv
<1> HIDE DEF new
<1>2. /\ pending' = [pending EXCEPT ![u] = new] /\ adding' = adding \ {f}
      /\ UNCHANGED <<marks, changed, caller, slice, row, mailbox, running, step, local, mishap>>
  BY <1>1 DEF AddCheck, Executor!Submit, registry, tables, pushes, new
<1>3. \A s \in Student : pending'[s] = IF s = u THEN new ELSE pending[s]
  BY <1>1, <1>2 DEF TypeInv
<1>4. ASSUME NEW g \in Fetch, Straight(g)' PROVE Straight(g)
  <2>1. CASE g = f
    BY <1>1, <2>1 DEF Straight
  <2>2. CASE g # f
    BY <1>1, <1>2, <1>3, <1>4, <2>2 DEF Straight
  <2>3. QED
    BY <2>1, <2>2
<1>5. QED
  BY <1>2, <1>4, QuietSteps

(* The registry shows something new: what was shown stays a version.       *)
LEMMA RegistryStep ==
    ASSUME TypeInv, WorkInv, ListsAreVersions, MailPoints,
           \/ \E s \in Student : \E i \in 1..Len(marks[s]), v \in Score : ChangeScore(s, i, v)
           \/ \E s \in Student, m \in Mark : NewCourse(s, m)
    PROVE  ListsAreVersions' /\ MailPoints'
<1>1. ASSUME NEW s \in Student, NEW l \in Seq(Mark), Version(s, l) PROVE Version(s, l)'
  BY <1>1, ScoreChanges, CourseComes
<1>2. UNCHANGED <<caller, adding, slice, row, mailbox, pending, running, step, local, mishap>>
  BY DEF ChangeScore, NewCourse, flights, tables, pushes, executor
<1>3. \A g \in Fetch : Straight(g)' <=> Straight(g)
  BY <1>2 DEF Straight
<1>4. ASSUME NEW s \in Student, s \notin mishap PROVE ListsOf(s)'
  <2>1. ListsOf(s)
    BY <1>4 DEF ListsAreVersions
  <2>2. (row[s] # None => Version(s, row[s]))'
    <3>1. SUFFICES ASSUME row[s] # None PROVE Version(s, row[s])'
      BY <1>2
    <3>2. row[s] \in Seq(Mark) /\ Version(s, row[s])
      BY <2>1, <3>1 DEF ListsOf, TypeInv
    <3>3. QED
      BY <1>1, <1>2, <3>2 DEF Version
  <2>3. (\A g \in Fetch : caller[g] = s /\ Straight(g) => Version(s, slice[g]))'
    <3>1. SUFFICES ASSUME NEW g \in Fetch, caller'[g] = s, Straight(g)' PROVE Version(s, slice[g])'
      OBVIOUS
    <3>2. slice[g] \in Seq(Mark) /\ Version(s, slice[g])
      BY <1>2, <1>3, <2>1, <3>1 DEF ListsOf, TypeInv
    <3>3. QED
      BY <1>1, <1>2, <3>2 DEF Version
  <2>4. (step[s] \in {"load", "compare", "record", "update"} => Version(s, local[s].json))'
    <3>1. local[s].json \in Seq(Mark)
      BY DEF TypeInv, Locals
    <3>2. QED
      BY <1>1, <1>2, <2>1, <3>1 DEF ListsOf, Version
  <2>5. (step[s] \in {"compare", "record"} =>
          Version(s, Reverse(SliceOf(s))) /\ Version(s, Reverse(local[s].old)))'
    <3>1. SUFFICES ASSUME step[s] \in {"compare", "record"}
                   PROVE  (Version(s, Reverse(SliceOf(s))) /\ Version(s, Reverse(local[s].old)))'
      BY <1>2
    <3>2. Reverse(SliceOf(s)) \in Seq(Mark) /\ Reverse(local[s].old) \in Seq(Mark)
      BY <3>1, RunningFacts, ReverseFacts DEF Locals
    <3>3. Version(s, Reverse(SliceOf(s))) /\ Version(s, Reverse(local[s].old))
      BY <2>1, <3>1 DEF ListsOf
    <3>4. SliceOf(s)' = SliceOf(s) /\ local'[s].old = local[s].old
      BY <1>2 DEF SliceOf
    <3>5. QED
      BY <1>1, <3>2, <3>3, <3>4 DEF Version
  <2>6. QED
    BY <2>2, <2>3, <2>4, <2>5 DEF ListsOf
<1>5. ListsAreVersions'
  BY <1>2, <1>4 DEF ListsAreVersions
<1>6. \A p \in mailbox : p.fetch \in Fetch
  BY DEF TypeInv
<1>7. MailPoints'
  BY <1>2, <1>3, <1>6 DEF MailPoints, PointsAt
<1>8. QED
  BY <1>5, <1>7

LEMMA OutsideSteps ==
    ASSUME TypeInv, WorkInv, ListsAreVersions, MailPoints,
           \/ \E s \in Student : ExpireCopy(s)
           \/ \E f \in Fetch : SetCopy(f)
           \/ \E p \in mailbox : Send(p)
           \/ UNCHANGED vars
    PROVE  ListsAreVersions' /\ MailPoints'
<1>1. /\ UNCHANGED <<marks, changed, caller, adding, slice, row, pending, running, step, local, mishap>>
      /\ mailbox' \subseteq mailbox
  BY DEF ExpireCopy, SetCopy, Send, vars, registry, flights, tables, pushes, executor
<1>2. \A g \in Fetch : Straight(g)' <=> Straight(g)
  BY <1>1 DEF Straight
<1>3. QED
  BY <1>1, <1>2, QuietSteps

-----------------------------------------------------------------------------
(* The inductive step *)

LEMMA ListsStep ==
    TypeInv /\ WorkInv /\ ListsAreVersions /\ MailPoints /\ [Next]_vars
        => ListsAreVersions' /\ MailPoints'
<1> SUFFICES ASSUME TypeInv, WorkInv, ListsAreVersions, MailPoints, [Next]_vars
             PROVE  ListsAreVersions' /\ MailPoints'
  OBVIOUS
<1>1. TypeInv' /\ WorkInv'
  BY TypesStep
<1>2. CASE \/ \E s \in Student : \E i \in 1..Len(marks[s]), v \in Score : ChangeScore(s, i, v)
           \/ \E s \in Student, m \in Mark : NewCourse(s, m)
  BY <1>2, RegistryStep
<1>3. CASE \/ \E s \in Student : ExpireCopy(s)
           \/ \E f \in Fetch : SetCopy(f)
           \/ \E p \in mailbox : Send(p)
           \/ UNCHANGED vars
  BY <1>3, OutsideSteps
<1>4. CASE \E s \in Student : GetMarks(s)
  BY <1>4, GetMarksStep
<1>5. CASE \E f \in Fetch : AddCheck(f)
  BY <1>5, AddCheckStep
<1>6. ASSUME NEW u \in Student, Work(u) \/ Fails(u) PROVE ListsAreVersions' /\ MailPoints'
  <2>1. TaskTouches(u)
    BY <1>6, BeginTypes, CompareHashTypes, LoadOldTypes, CompareTypes, RecordTypes, StoreTypes, SucceedTypes,
       FailsTypes DEF Work
  <2>2. CASE LoadOld(u)
    BY <1>1, <2>1, <2>2, LoadOldStep
  <2>3. CASE Compare(u)
    BY <1>1, <2>1, <2>3, CompareStep
  <2>4. CASE Begin(u) \/ CompareHash(u) \/ Record(u) \/ Store(u) \/ Succeed(u) \/ Fails(u)
    BY <1>1, <2>1, <2>4, PlainSteps
  <2>5. QED
    BY <1>6, <2>2, <2>3, <2>4 DEF Work
<1>7. QED
  BY <1>2, <1>3, <1>4, <1>5, <1>6 DEF Next

(* A change that is announced stays changed, and only a comparison adds    *)
(* announcements.                                                          *)
LEMMA AnnouncedStep ==
    TypeInv /\ WorkInv /\ ListsAreVersions /\ MailPoints /\ AnnouncesOnlyChanges /\ [Next]_vars
        => AnnouncesOnlyChanges'
<1> SUFFICES ASSUME TypeInv, WorkInv, ListsAreVersions, MailPoints, AnnouncesOnlyChanges, [Next]_vars
             PROVE  AnnouncesOnlyChanges'
  OBVIOUS
<1>1. changed \subseteq changed' /\ mishap \subseteq mishap'
  BY DEF Next, vars, ChangeScore, NewCourse, ExpireCopy, GetMarks, AddCheck, SetCopy, Work, Begin, CompareHash,
         LoadOld, Compare, Record, Store, Succeed, Fails, Release, Send, registry
<1>2. CASE \E u \in Student : Compare(u)
  <2>1. PICK u \in Student : Compare(u)
    BY <1>2
  <2>2. TypeInv' /\ WorkInv' /\ TaskTouches(u) /\ sent' = sent
    BY <2>1, CompareTypes DEF Compare
  <2>3. \A s \in Student \ mishap' : \A c \in Course :
          <<s, c>> \in announced' => <<s, c>> \in announced \/ <<s, c>> \in changed
    BY <2>1, <2>2, CompareStep
  <2>4. QED
    BY <1>1, <2>2, <2>3 DEF AnnouncesOnlyChanges
<1>3. CASE \E p \in mailbox : Send(p)
  <2>1. PICK p \in mailbox : Send(p)
    BY <1>3
  <2> DEFINE new == [course |-> p.course, name |-> slice[p.fetch][p.index].course]
  <2>2. sent' = sent \cup {new} /\ announced' = announced /\ mishap' = mishap
    BY <2>1 DEF Send
  <2>3. mishap = {} => new.name = new.course
    BY DEF MailPoints, PointsAt
  <2> HIDE DEF new
  <2>4. QED
    BY <1>1, <2>2, <2>3 DEF AnnouncesOnlyChanges
<1>4. CASE announced' = announced /\ sent' = sent
  BY <1>1, <1>4 DEF AnnouncesOnlyChanges
<1>5. QED
  BY <1>2, <1>3, <1>4 DEF Next, vars, ChangeScore, NewCourse, ExpireCopy, GetMarks, AddCheck, SetCopy, Work, Begin,
     CompareHash, LoadOld, Record, Store, Succeed, Fails, pushes

(* A record is made of a course that its task has announced, or had to.    *)
LEMMA RecordsStep ==
    ASSUME TypeInv, WorkInv, RecordedIsAnnounced, [Next]_vars
    PROVE  /\ announced \subseteq announced' /\ dropped \subseteq dropped'
           /\ offerings \subseteq offerings' /\ mishap \subseteq mishap'
           /\ \A c \in offerings' : \E s \in Student : <<s, c>> \in announced' \cup dropped'
<1>1. /\ announced \subseteq announced' /\ dropped \subseteq dropped'
      /\ offerings \subseteq offerings' /\ mishap \subseteq mishap'
  BY DEF Next, vars, ChangeScore, NewCourse, ExpireCopy, GetMarks, AddCheck, SetCopy, Work, Begin, CompareHash,
         LoadOld, Compare, Announce, Record, Release, Store, Succeed, Fails, Send, pushes, tables
<1>2. CASE \E u \in Student : Record(u)
  <2>1. PICK u \in Student : Record(u)
    BY <1>2
  <2> DEFINE c == SliceOf(u)[local[u].at].course
  <2>2. step[u] = "record" /\ (offerings' = offerings \/ offerings' = offerings \cup {c})
    BY <2>1 DEF Record
  <2>3. <<u, c>> \in announced \cup dropped
    BY <2>2 DEF WorkInv, WorkOf, RecordOf
  <2> HIDE DEF c
  <2>4. QED
    BY <1>1, <2>2, <2>3 DEF RecordedIsAnnounced
<1>3. CASE offerings' = offerings
  BY <1>1, <1>3 DEF RecordedIsAnnounced
<1>4. QED
  BY <1>1, <1>2, <1>3 DEF Next, vars, ChangeScore, NewCourse, ExpireCopy, GetMarks, AddCheck, SetCopy, Work,
     Begin, CompareHash, LoadOld, Compare, Store, Succeed, Fails, Send, tables

(* A push is new when its task is to record the course next.               *)
LEMMA NewPush ==
    ASSUME TypeInv, WorkInv, [Next]_vars, NEW s \in Student, NEW c \in Course,
           <<s, c>> \in announced' \cup dropped', <<s, c>> \notin announced \cup dropped
    PROVE  AboutToRecord(s, c)'
<1>1. PICK u \in Student : Compare(u)
  BY DEF Next, vars, ChangeScore, NewCourse, ExpireCopy, GetMarks, AddCheck, SetCopy, Work, Begin, CompareHash,
         LoadOld, Record, Store, Succeed, Fails, Send, pushes
<1> DEFINE todo == {i \in Differences(SliceOf(u), local[u].old) : i >= local[u].at}
           n == Min(todo)
           d == SliceOf(u)[n].course
           new == [local[u] EXCEPT !.at = n]
<1>2. step[u] = "compare" /\ UNCHANGED <<running, slice>>
  BY <1>1 DEF Compare, executor
<1>3. todo # {} /\ Announce(u, n)
  BY <1>1 DEF Compare
<1>4. local[u] \in Locals /\ n \in Nat
  BY <1>2, <1>3, RunningFacts, NextDifference
<1>5. /\ local' = [local EXCEPT ![u] = new]
      /\ step' = [step EXCEPT ![u] = "record"]
      /\ announced' \cup dropped' = announced \cup dropped \cup {<<u, d>>}
  BY <1>3 DEF Announce, GoTo
<1> HIDE DEF todo, n
<1>6. new.at = n
  BY <1>4, LocalFacts
<1> HIDE DEF new
<1>7. local'[u].at = n /\ step'[u] = "record"
  BY <1>5, <1>6 DEF TypeInv
<1>8. s = u /\ c = d
  BY <1>5
<1>9. SliceOf(u)' = SliceOf(u)
  BY <1>2 DEF SliceOf
<1>10. QED
  BY <1>7, <1>8, <1>9 DEF AboutToRecord

(* What a task is to record next stays so until the task goes on, which    *)
(* makes the record, finds it or fails.                                    *)
LEMMA RecordComes ==
    ASSUME TypeInv, WorkInv, [Next]_vars, NEW s \in Student, NEW c \in Course, AboutToRecord(s, c)
    PROVE  AboutToRecord(s, c)' \/ c \in offerings' \/ s \in mishap'
<1>1. /\ step[s] = "record" /\ SliceOf(s)[local[s].at].course = c
      /\ running[s] # None /\ running[s].fetch \in Fetch /\ caller[running[s].fetch] = s
  BY RunningFacts DEF AboutToRecord
<1>2. local[s].at > 0 /\ s # None
  BY <1>1, TaskFacts DEF WorkInv, WorkOf, IndexOf
<1>3. ASSUME step'[s] = step[s], running'[s] = running[s], local'[s] = local[s],
             slice'[running[s].fetch] = slice[running[s].fetch]
      PROVE  AboutToRecord(s, c)'
  BY <1>1, <1>3 DEF AboutToRecord, SliceOf
<1>4. CASE Record(s)
  BY <1>1, <1>2, <1>4 DEF Record, Release
<1>5. CASE Fails(s)
  BY <1>2, <1>5 DEF Fails, Release
<1>6. ASSUME NEW u \in Student, u # s, Work(u) \/ Fails(u)
      PROVE  AboutToRecord(s, c)'
  <2>1. TaskTouches(u)
    BY <1>6, BeginTypes, CompareHashTypes, LoadOldTypes, CompareTypes, RecordTypes, StoreTypes,
       SucceedTypes, FailsTypes DEF Work
  <2>2. QED
    BY <1>1, <1>3, <1>6, <2>1 DEF TaskTouches
<1>7. ASSUME Work(s) PROVE Record(s)
  BY <1>1, <1>7 DEF Work, Begin, CompareHash, LoadOld, Compare, Store, Succeed, Executor!Begin
<1>8. CASE \E u \in Student : GetMarks(u)
  <2>1. PICK u \in Student, f \in Fetch : caller[f] = None /\ slice' = [slice EXCEPT ![f] = marks[u]]
    BY <1>8 DEF GetMarks, SomeFetchToCome
  <2>2. UNCHANGED <<step, running, local>>
    BY <1>8 DEF GetMarks, executor
  <2>3. running[s].fetch # f
    BY <1>1, <1>2, <2>1
  <2>4. QED
    BY <1>1, <1>3, <2>1, <2>2, <2>3 DEF TypeInv
<1>9. CASE \/ \E u \in Student : \E i \in 1..Len(marks[u]), v \in Score : ChangeScore(u, i, v)
           \/ \E u \in Student, m \in Mark : NewCourse(u, m)
           \/ \E u \in Student : ExpireCopy(u)
           \/ \E f \in Fetch : AddCheck(f) \/ SetCopy(f)
           \/ \E p \in mailbox : Send(p)
           \/ UNCHANGED vars
  <2>1. UNCHANGED <<step, running, local, slice>>
    BY <1>9 DEF ChangeScore, NewCourse, ExpireCopy, AddCheck, SetCopy, Send, vars, executor, Executor!Submit
  <2>2. QED
    BY <1>3, <2>1
<1>10. QED
  BY <1>4, <1>5, <1>6, <1>7, <1>8, <1>9 DEF Next

LEMMA RecordedStep ==
    TypeInv /\ WorkInv /\ RecordedIsAnnounced /\ [Next]_vars => RecordedIsAnnounced'
<1> SUFFICES ASSUME TypeInv, WorkInv, RecordedIsAnnounced, [Next]_vars PROVE RecordedIsAnnounced'
  OBVIOUS
<1>1. /\ offerings \subseteq offerings' /\ mishap \subseteq mishap'
      /\ \A c \in offerings' : \E s \in Student : <<s, c>> \in announced' \cup dropped'
  BY RecordsStep
<1>2. ASSUME NEW s \in Student, s \notin mishap', NEW c \in Course,
             <<s, c>> \in announced' \cup dropped'
      PROVE  c \in offerings' \/ AboutToRecord(s, c)'
  <2>1. CASE <<s, c>> \notin announced \cup dropped
    BY <1>2, <2>1, NewPush
  <2>2. CASE <<s, c>> \in announced \cup dropped
    <3>1. c \in offerings \/ AboutToRecord(s, c)
      BY <1>1, <1>2, <2>2 DEF RecordedIsAnnounced
    <3>2. QED
      BY <1>1, <1>2, <3>1, RecordComes
  <2>3. QED
    BY <2>1, <2>2
<1>3. QED
  BY <1>1, <1>2 DEF RecordedIsAnnounced

LEMMA InitInv == Init => IInv
<1> SUFFICES ASSUME Init PROVE IInv
  OBVIOUS
<1>1. TypeInv /\ WorkInv
  BY InitTypes
<1>2. /\ adding = {} /\ mailbox = {} /\ offerings = {} /\ announced = {} /\ dropped = {} /\ sent = {}
      /\ \A s \in Student : step[s] = "none" /\ pending[s] = None /\ running[s] = None
      /\ \A s \in Student : row[s] \in {marks[s], None}
  BY DEF Init, Executor!Init
<1>3. \A f \in Fetch : ~Straight(f)
  BY <1>2 DEF Straight
<1>4. \A s \in Student : row[s] # None => Version(s, row[s])
  BY <1>1, <1>2, ShownIsVersion
<1>5. ListsAreVersions
  BY <1>2, <1>3, <1>4 DEF ListsAreVersions, ListsOf
<1>6. MailPoints /\ AnnouncesOnlyChanges /\ RecordedIsAnnounced
  BY <1>2 DEF MailPoints, AnnouncesOnlyChanges, RecordedIsAnnounced
<1>7. QED
  BY <1>1, <1>5, <1>6 DEF IInv

LEMMA InvStep == IInv /\ [Next]_vars => IInv'
  BY TypesStep, ListsStep, AnnouncedStep, RecordedStep DEF IInv

LEMMA Inductive == Spec => []IInv
  BY InitInv, InvStep, PTL DEF Spec

-----------------------------------------------------------------------------
(* Types: every list names each course once, whatever was reversed.        *)

ListsWhole ==
    /\ \A s \in Student : Whole(marks[s]) /\ Whole(local[s].json) /\ Whole(local[s].old)
    /\ \A s \in Student : row[s] = None \/ Whole(row[s])
    /\ \A f \in Fetch : Whole(slice[f])

RestTyped ==
    /\ storing \subseteq {f \in Fetch : caller[f] # None}
    /\ copies \subseteq Student
    /\ changed \cup announced \cup dropped \subseteq Student \X Course
    /\ sent \subseteq [course : Course, name : Course]
    /\ mishap \subseteq Student
    /\ \A p \in mailbox : caller[p.fetch] # None /\ p.index \in DOMAIN slice[p.fetch]

LEMMA ReverseWhole ==
    ASSUME NEW l, Whole(l)
    PROVE  Whole(Reverse(l))
<1> DEFINE r == Reverse(l)
<1>1. l \in Seq(Mark) /\ \A i, j \in DOMAIN l : l[i].course = l[j].course => i = j
  BY DEF Whole
<1>2. r \in Seq(Mark) /\ Len(r) = Len(l) /\ \A i \in 1 .. Len(l) : r[i] = l[Len(l) - i + 1]
  BY <1>1, ReverseFacts
<1> HIDE DEF r
<1>3. ASSUME NEW i \in 1 .. Len(l), NEW j \in 1 .. Len(l), r[i].course = r[j].course PROVE i = j
  <2>1. Len(l) - i + 1 \in DOMAIN l /\ Len(l) - j + 1 \in DOMAIN l
    BY <1>1
  <2>2. Len(l) - i + 1 = Len(l) - j + 1
    BY <1>1, <1>2, <1>3, <2>1
  <2>3. QED
    BY <1>1, <2>2
<1>4. DOMAIN r = 1 .. Len(l)
  BY <1>2
<1>5. QED
  BY <1>2, <1>3, <1>4 DEF Whole, r

LEMMA RegistryWhole ==
    ASSUME TypeInv, ListsWhole,
           \/ \E s \in Student : \E i \in 1..Len(marks[s]), v \in Score : ChangeScore(s, i, v)
           \/ \E s \in Student, m \in Mark : NewCourse(s, m)
    PROVE  \A s \in Student : Whole(marks'[s])
<1>0. marks' \in [Student -> Seq(Mark)]
  BY RegistryTypes
<1>1. ASSUME NEW u \in Student, NEW n \in 1..Len(marks[u]), NEW v \in Score, ChangeScore(u, n, v)
      PROVE  \A s \in Student : Whole(marks'[s])
  <2> DEFINE shown == marks[u]
             now == [shown EXCEPT ![n].score = v]
  <2>1. shown \in Seq(Mark) /\ Whole(shown) /\ marks' = [marks EXCEPT ![u] = now]
    BY <1>1 DEF ChangeScore, TypeInv, ListsWhole
  <2>2. marks'[u] = now /\ now \in Seq(Mark) /\ \A s \in Student : s # u => marks'[s] = marks[s]
    BY <1>0, <2>1 DEF TypeInv
  <2>3. DOMAIN now = DOMAIN shown /\ \A i \in DOMAIN shown : now[i].course = shown[i].course
    <3>1. now = [shown EXCEPT ![n] = [shown[n] EXCEPT !.score = v]]
      OBVIOUS
    <3>2. [shown[n] EXCEPT !.score = v].course = shown[n].course
      <4>1. shown[n] \in Mark
        BY <2>1
      <4>2. QED
        BY <4>1 DEF Mark
    <3>3. QED
      BY <2>1, <3>1, <3>2
  <2> HIDE DEF now, shown
  <2>4. Whole(now)
    BY <2>1, <2>2, <2>3 DEF Whole
  <2>5. QED
    BY <2>2, <2>4 DEF ListsWhole
<1>2. ASSUME NEW u \in Student, NEW m \in Mark, NewCourse(u, m)
      PROVE  \A s \in Student : Whole(marks'[s])
  <2> DEFINE shown == marks[u]
             now == <<m>> \o shown
  <2>1. /\ shown \in Seq(Mark) /\ Whole(shown) /\ marks' = [marks EXCEPT ![u] = now]
        /\ \A i \in 1..Len(shown) : shown[i].course # m.course
    BY <1>2 DEF NewCourse, TypeInv, ListsWhole
  <2>2. marks'[u] = now /\ now \in Seq(Mark) /\ \A s \in Student : s # u => marks'[s] = marks[s]
    BY <1>0, <2>1 DEF TypeInv
  <2>3. /\ Len(now) = Len(shown) + 1 /\ now[1] = m
        /\ \A i \in 2..Len(now) : i - 1 \in 1..Len(shown) /\ now[i] = shown[i - 1]
    BY <2>1
  <2> HIDE DEF now, shown
  <2>4. ASSUME NEW i \in 1..Len(now), NEW j \in 1..Len(now), now[i].course = now[j].course PROVE i = j
    <3>0. \A k \in 2..Len(now) : now[k].course # now[1].course
      BY <2>1, <2>3
    <3>1. CASE i = 1 \/ j = 1
      <4>1. (i = 1 \/ i \in 2..Len(now)) /\ (j = 1 \/ j \in 2..Len(now))
        BY <2>2
      <4>2. QED
        BY <2>4, <3>0, <3>1, <4>1
    <3>2. CASE i # 1 /\ j # 1
      <4>1. i \in 2..Len(now) /\ j \in 2..Len(now)
        BY <3>2
      <4>2. i - 1 = j - 1
        BY <2>1, <2>3, <2>4, <4>1 DEF Whole
      <4>3. QED
        BY <4>2
    <3>3. QED
      BY <3>1, <3>2
  <2>5. Whole(now)
    BY <2>2, <2>4 DEF Whole
  <2>6. QED
    BY <2>2, <2>5 DEF ListsWhole
<1>3. QED
  BY <1>1, <1>2

LEMMA WholeStep == TypeInv /\ WorkInv /\ ListsWhole /\ [Next]_vars => ListsWhole'
<1> SUFFICES ASSUME TypeInv, WorkInv, ListsWhole, [Next]_vars PROVE ListsWhole'
  OBVIOUS
<1>1. TypeInv'
  BY TypesStep
<1>2. CASE \/ \E s \in Student : \E i \in 1..Len(marks[s]), v \in Score : ChangeScore(s, i, v)
           \/ \E s \in Student, m \in Mark : NewCourse(s, m)
  <2>1. UNCHANGED <<local, row, slice>>
    BY <1>2 DEF ChangeScore, NewCourse, tables
  <2>2. QED
    BY <1>2, <2>1, RegistryWhole DEF ListsWhole
<1>3. CASE \E u \in Student : GetMarks(u)
  <2>1. PICK u \in Student, f \in Fetch : slice' = [slice EXCEPT ![f] = marks[u]]
    BY <1>3 DEF GetMarks, SomeFetchToCome
  <2>2. UNCHANGED <<marks, local, row>>
    BY <1>3 DEF GetMarks, registry, tables
  <2>3. QED
    BY <2>1, <2>2 DEF ListsWhole, TypeInv
<1>4. ASSUME NEW u \in Student, LoadOld(u) PROVE ListsWhole'
  <2> DEFINE new == [local[u] EXCEPT !.old = Reverse(row[u]), !.at = 1]
             f == running[u].fetch
  <2>1. /\ step[u] = "load" /\ local' = [local EXCEPT ![u] = new]
        /\ slice' = [slice EXCEPT ![f] = Reverse(slice[f])] /\ marks' = marks /\ row' = row
    BY <1>4 DEF LoadOld, registry, tables
  <2>2. row[u] \in Seq(Mark) /\ row[u] # None /\ f \in Fetch /\ local[u] \in Locals
    BY <2>1, RunningFacts DEF WorkInv, WorkOf, TaskOf, TypeInv
  <2>3. Whole(Reverse(row[u])) /\ Whole(Reverse(slice[f]))
    BY <2>2, ReverseWhole DEF ListsWhole
  <2>4. new.old = Reverse(row[u]) /\ new.json = local[u].json
    BY <2>2, LocalFacts, ReverseFacts
  <2> HIDE DEF new, f
  <2>5. QED
    BY <2>1, <2>3, <2>4 DEF ListsWhole, TypeInv
<1>5. ASSUME NEW u \in Student, CompareHash(u) PROVE ListsWhole'
  <2> DEFINE new == [local[u] EXCEPT !.json = SliceOf(u)]
  <2>1. step[u] = "hash" /\ local' = [local EXCEPT ![u] = new] /\ UNCHANGED <<marks, slice, row>>
    BY <1>5 DEF CompareHash, registry, tables
  <2>2. SliceOf(u) \in Seq(Mark) /\ local[u] \in Locals /\ Whole(SliceOf(u))
    BY <2>1, RunningFacts DEF ListsWhole
  <2>3. new.old = local[u].old /\ new.json = SliceOf(u)
    BY <2>2, LocalFacts
  <2> HIDE DEF new
  <2>4. QED
    BY <2>1, <2>2, <2>3 DEF ListsWhole, TypeInv
<1>6. ASSUME NEW u \in Student, NEW n, local' = [local EXCEPT ![u].at = n], UNCHANGED <<marks, slice, row>>
      PROVE  ListsWhole'
  <2> DEFINE new == [local[u] EXCEPT !.at = n]
  <2>1. local[u] \in [json : Seq(Mark), old : Seq(Mark), at : Nat] /\ local' = [local EXCEPT ![u] = new]
    BY <1>6 DEF TypeInv, Locals
  <2>2. new.old = local[u].old /\ new.json = local[u].json
    BY <2>1
  <2> HIDE DEF new
  <2>3. QED
    BY <1>6, <2>1, <2>2 DEF ListsWhole, TypeInv
<1>7. ASSUME NEW u \in Student, local' = [local EXCEPT ![u] = NoLocals], UNCHANGED <<marks, slice, row>>
      PROVE  ListsWhole'
  <2>1. <<>> \in Seq(Mark) /\ DOMAIN <<>> = {}
    OBVIOUS
  <2>2. NoLocals.json = <<>> /\ NoLocals.old = <<>>
    BY DEF NoLocals
  <2>3. Whole(NoLocals.json) /\ Whole(NoLocals.old)
    BY <2>1, <2>2 DEF Whole
  <2>4. QED
    BY <1>7, <2>3 DEF ListsWhole, TypeInv
<1>8. ASSUME NEW u \in Student, Store(u) PROVE ListsWhole'
  <2>1. row' = [row EXCEPT ![u] = local[u].json] /\ UNCHANGED <<marks, slice, local>>
    BY <1>8 DEF Store, registry
  <2>2. QED
    BY <2>1 DEF ListsWhole, TypeInv
<1>9. CASE UNCHANGED <<marks, slice, row, local>>
  BY <1>9 DEF ListsWhole
<1>10. ASSUME NEW u \in Student, Compare(u) PROVE ListsWhole'
  <2>1. UNCHANGED <<marks, slice, row>>
    BY <1>10 DEF Compare, registry, tables
  <2>2. local' = local \/ \E n : local' = [local EXCEPT ![u].at = n]
    BY <1>10 DEF Compare, Announce
  <2>3. QED
    BY <1>6, <1>9, <2>1, <2>2
<1>11. ASSUME NEW u \in Student, Record(u) \/ Succeed(u) \/ Fails(u) PROVE ListsWhole'
  <2>1. UNCHANGED <<marks, slice, row>>
    BY <1>11 DEF Record, Succeed, Fails, registry, tables
  <2>2. local' = [local EXCEPT ![u] = NoLocals] \/ \E n : local' = [local EXCEPT ![u].at = n]
    BY <1>11 DEF Record, Succeed, Fails, Release
  <2>3. QED
    BY <1>6, <1>7, <2>1, <2>2
<1>12. CASE \/ \E s \in Student : ExpireCopy(s)
            \/ \E f \in Fetch : AddCheck(f) \/ SetCopy(f)
            \/ \E s \in Student : Begin(s)
            \/ \E p \in mailbox : Send(p)
            \/ UNCHANGED vars
  <2>1. UNCHANGED <<marks, slice, row, local>>
    BY <1>12 DEF ExpireCopy, AddCheck, SetCopy, Begin, Send, vars, registry, tables
  <2>2. QED
    BY <1>9, <2>1
<1>13. QED
  BY <1>2, <1>3, <1>4, <1>5, <1>8, <1>10, <1>11, <1>12 DEF Next, Work

LEMMA RestStep == TypeInv /\ WorkInv /\ RestTyped /\ [Next]_vars => RestTyped'
<1> SUFFICES ASSUME TypeInv, WorkInv, RestTyped, [Next]_vars PROVE RestTyped'
  OBVIOUS
<1>1. TypeInv'
  BY TypesStep
<1>2. CASE \E s \in Student : \E i \in 1..Len(marks[s]), v \in Score : ChangeScore(s, i, v)
  <2>0. PICK s \in Student : \E i \in 1..Len(marks[s]) : changed' = changed \cup {<<s, marks[s][i].course>>}
    BY <1>2 DEF ChangeScore
  <2>1. PICK i \in 1..Len(marks[s]) : changed' = changed \cup {<<s, marks[s][i].course>>}
    BY <2>0
  <2>2. marks[s][i] \in Mark
    BY DEF TypeInv
  <2>3. marks[s][i].course \in Course
    BY <2>2 DEF Mark
  <2>4. UNCHANGED <<storing, caller, copies, announced, dropped, sent, mishap, mailbox, slice>>
    BY <1>2 DEF ChangeScore, flights, pushes
  <2>5. QED
    BY <2>1, <2>3, <2>4 DEF RestTyped
<1>3. CASE \E s \in Student : GetMarks(s)
  <2>1. PICK u \in Student, f \in Fetch :
          /\ caller[f] = None
          /\ caller' = [caller EXCEPT ![f] = u]
          /\ slice' = [slice EXCEPT ![f] = marks[u]]
          /\ storing' = storing \cup {f}
    BY <1>3 DEF GetMarks, SomeFetchToCome
  <2>2. UNCHANGED <<changed, copies, announced, dropped, sent, mishap, mailbox>>
    BY <1>3 DEF GetMarks, registry, pushes
  <2>3. \A p \in mailbox : p.fetch \in Fetch /\ p.fetch # f
    BY <2>1 DEF RestTyped, TypeInv
  <2>4. \A p \in mailbox : caller'[p.fetch] # None /\ p.index \in DOMAIN slice'[p.fetch]
    BY <2>1, <2>3 DEF RestTyped, TypeInv
  <2>5. storing' \subseteq {g \in Fetch : caller'[g] # None}
    BY <2>1, TaskFacts DEF RestTyped, TypeInv
  <2>6. QED
    BY <2>2, <2>4, <2>5 DEF RestTyped
<1>4. CASE \E f \in Fetch : SetCopy(f)
  <2>1. PICK f \in Fetch : /\ f \in storing
                           /\ storing' = storing \ {f}
                           /\ copies' = copies \cup {caller[f]}
    BY <1>4 DEF SetCopy
  <2>2. UNCHANGED <<caller, changed, announced, dropped, sent, mishap, mailbox, slice>>
    BY <1>4 DEF SetCopy, registry, pushes
  <2>3. caller[f] \in Student
    BY <2>1 DEF RestTyped, TypeInv
  <2>4. QED
    BY <2>1, <2>2, <2>3 DEF RestTyped
<1>5. ASSUME NEW u \in Student, LoadOld(u) PROVE RestTyped'
  <2> DEFINE f == running[u].fetch
  <2>1. /\ step[u] = "load" /\ slice' = [slice EXCEPT ![f] = Reverse(slice[f])]
        /\ UNCHANGED <<storing, caller, changed, copies, announced, dropped, sent, mishap, mailbox>>
    BY <1>5 DEF LoadOld, registry, flights, pushes
  <2>2. f \in Fetch /\ slice[f] \in Seq(Mark)
    BY <2>1, RunningFacts DEF TypeInv
  <2>3. DOMAIN Reverse(slice[f]) = DOMAIN slice[f]
    BY <2>2, ReverseFacts
  <2> HIDE DEF f
  <2>4. \A p \in mailbox : p.fetch \in Fetch
    BY DEF TypeInv
  <2>5. \A g \in Fetch : DOMAIN slice'[g] = DOMAIN slice[g]
    BY <2>1, <2>2, <2>3 DEF TypeInv
  <2>6. QED
    BY <2>1, <2>4, <2>5 DEF RestTyped
<1>6. ASSUME NEW u \in Student, Compare(u) PROVE RestTyped'
  <2> DEFINE todo == {i \in Differences(SliceOf(u), local[u].old) : i >= local[u].at}
             n == Min(todo)
             c == SliceOf(u)[n].course
             mail == [fetch |-> running[u].fetch, index |-> n, course |-> c]
  <2>1. step[u] = "compare" /\ UNCHANGED <<storing, caller, changed, copies, sent, mishap, slice>>
    BY <1>6 DEF Compare, registry, flights
  <2>2. CASE UNCHANGED <<mailbox, announced, dropped>>
    BY <2>1, <2>2 DEF RestTyped
  <2>3. CASE todo # {} /\ Announce(u, n)
    <3>1. /\ mailbox' \subseteq mailbox \cup {mail}
          /\ announced' \cup dropped' = announced \cup dropped \cup {<<u, c>>}
      BY <2>3 DEF Announce
    <3>2. /\ caller[running[u].fetch] = u /\ SliceOf(u) \in Seq(Mark) /\ slice[running[u].fetch] = SliceOf(u)
          /\ n \in DOMAIN SliceOf(u) /\ u # None
      BY <2>1, <2>3, RunningFacts, NextDifference, TaskFacts
    <3>3. c \in Course
      <4>1. SliceOf(u)[n] \in Mark
        BY <3>2
      <4>2. QED
        BY <4>1 DEF Mark
    <3>4. mail.fetch = running[u].fetch /\ mail.index = n
      OBVIOUS
    <3> HIDE DEF mail, n, c
    <3>5. \A p \in mailbox' : caller'[p.fetch] # None /\ p.index \in DOMAIN slice'[p.fetch]
      BY <2>1, <3>1, <3>2, <3>4 DEF RestTyped
    <3>6. changed' \cup announced' \cup dropped' \subseteq Student \X Course
      BY <2>1, <3>1, <3>3 DEF RestTyped
    <3>7. QED
      BY <2>1, <3>5, <3>6 DEF RestTyped
  <2>4. QED
    BY <1>6, <2>2, <2>3 DEF Compare
<1>7. CASE \E p \in mailbox : Send(p)
  <2>1. PICK p \in mailbox : Send(p)
    BY <1>7
  <2> DEFINE name == slice[p.fetch][p.index].course
  <2>2. /\ mailbox' \subseteq mailbox /\ sent' = sent \cup {[course |-> p.course, name |-> name]}
        /\ UNCHANGED <<storing, caller, changed, copies, announced, dropped, mishap, slice>>
    BY <2>1 DEF Send, registry, flights
  <2>3. p.course \in Course /\ name \in Course
    <3>1. p.fetch \in Fetch /\ p.course \in Course /\ p.index \in DOMAIN slice[p.fetch]
      BY DEF RestTyped, TypeInv
    <3>2. slice[p.fetch][p.index] \in Mark
      BY <3>1 DEF TypeInv
    <3>3. QED
      BY <3>1, <3>2 DEF Mark
  <2> HIDE DEF name
  <2>4. QED
    BY <2>2, <2>3 DEF RestTyped
<1>8. CASE \E s \in Student : Record(s) \/ Fails(s)
  <2>1. UNCHANGED <<storing, caller, changed, copies, announced, dropped, sent, mailbox, slice>>
    BY <1>8 DEF Record, Fails, registry, flights, pushes
  <2>2. mishap' \subseteq mishap \cup Student
    BY <1>8 DEF Record, Fails, Release
  <2>3. QED
    BY <2>1, <2>2 DEF RestTyped
<1>9. CASE \/ \E s \in Student, m \in Mark : NewCourse(s, m)
           \/ \E s \in Student : ExpireCopy(s)
           \/ \E f \in Fetch : AddCheck(f)
           \/ \E s \in Student : Begin(s) \/ CompareHash(s) \/ Store(s) \/ Succeed(s)
           \/ UNCHANGED vars
  <2>1. /\ UNCHANGED <<storing, caller, changed, announced, dropped, sent, mishap, mailbox, slice>>
        /\ copies' \subseteq copies
    BY <1>9 DEF NewCourse, ExpireCopy, AddCheck, Begin, CompareHash, Store, Succeed, vars, registry, flights, pushes
  <2>2. QED
    BY <2>1 DEF RestTyped
<1>10. QED
  BY <1>2, <1>3, <1>4, <1>5, <1>6, <1>7, <1>8, <1>9 DEF Next, Work

(* Every variable keeps its type, and if no list names a course twice at   *)
(* the start, no list that is shown, held, stored or reversed ever does:   *)
(* a task that is run again reverses a slice without losing a mark.        *)
THEOREM TypeCorrect ==
    ASSUME \A s \in Student : Whole(ListBefore[s])
    PROVE  Spec => []TypeOK
<1> DEFINE Inv == TypeInv /\ WorkInv /\ ListsWhole /\ RestTyped
<1>1. Init => Inv
  <2> SUFFICES ASSUME Init PROVE Inv
    OBVIOUS
  <2>1. TypeInv /\ WorkInv
    BY InitTypes
  <2>2. /\ marks = ListBefore /\ \A s \in Student : row[s] \in {ListBefore[s], None}
        /\ \A f \in Fetch : slice[f] = <<>>
        /\ \A s \in Student : local[s] = NoLocals
        /\ storing = {} /\ copies = {} /\ changed = {} /\ announced = {} /\ dropped = {}
        /\ sent = {} /\ mishap = {} /\ mailbox = {}
    BY DEF Init
  <2>3. <<>> \in Seq(Mark) /\ DOMAIN <<>> = {}
    OBVIOUS
  <2>4. NoLocals.json = <<>> /\ NoLocals.old = <<>>
    BY DEF NoLocals
  <2> DEFINE empty == <<>>
  <2>5. Whole(empty)
    BY <2>3 DEF Whole
  <2>6. empty = <<>>
    OBVIOUS
  <2> HIDE DEF empty
  <2>7. ListsWhole
    BY <2>2, <2>4, <2>5, <2>6 DEF ListsWhole
  <2>8. RestTyped
    BY <2>2 DEF RestTyped
  <2>9. QED
    BY <2>1, <2>7, <2>8
<1>2. Inv /\ [Next]_vars => Inv'
  BY TypesStep, WholeStep, RestStep
<1>3. Inv => TypeOK
  BY DEF TypeInv, ListsWhole, RestTyped, TypeOK
<1> HIDE DEF Inv
<1>4. QED
  BY <1>1, <1>2, <1>3, PTL DEF Spec

(* Until a check task of the student has failed after the reversal of its  *)
(* slice, only courses whose score has changed are announced for the       *)
(* student, and while no task has, every notification carries the name of  *)
(* its own course: new courses, late tasks, the shared slice and the       *)
(* closures that read it later notwithstanding (checkScoreChange and       *)
(* handleScoreChange of get_scores.go).                                    *)
THEOREM OnlyChangesTold == Spec => []AnnouncesOnlyChanges
<1>1. IInv => AnnouncesOnlyChanges
  BY DEF IInv
<1>2. QED
  BY <1>1, Inductive, PTL

(* No course is recorded in course_offerings, which silences it for good,  *)
(* without a push for it having been handed to the dispatcher or dropped   *)
(* by its full queue; and as long as no task of the student has failed,    *)
(* every such push has its record, or gets it next (get_scores.go:180).    *)
THEOREM RecordedAreTold == Spec => []RecordedIsAnnounced
<1>1. IInv => RecordedIsAnnounced
  BY DEF IInv
<1>2. QED
  BY <1>1, Inductive, PTL

=============================================================================
