-------------------------- MODULE AdjustCourseProofs --------------------------
(***************************************************************************)
(* What is proved of the adjusted days for every table, calendar and       *)
(* number of requests: the types, with which no copy holds another term's  *)
(* record and no two records one date, and that nothing is shown as        *)
(* enabled that no administrator enabled.                                  *)
(*                                                                         *)
(* Lists travel: from the table into a request, its task, the copy; or     *)
(* into a refresh and the copy.  The invariant says of a list that it is   *)
(* good wherever it is on its way.                                         *)
(***************************************************************************)
EXTENDS AdjustCourse, TLAPS

(* A request will add a refresh of t.                                      *)
Coming(t) == \E r \in Request : req[r].pc \in {"refresh", "create"} /\ t \in req[r].terms

Vouched(t) == Coming(t) \/ t \in again \/ cause[t] # {}

(* A task that runs is still in the map.  What a refresh is about to store *)
(* or has stored is the list of the table, unless the change since will    *)
(* see to its own refresh: that one is added under the same key, so it     *)
(* counts only as long as the success of the older one has not erased it.  *)
RefreshInv ==
    \A t \in Term :
        LET k == <<"refresh", t>> IN
        /\ running[k] # None => pending[k] # None
        /\ pending[k] = None /\ Stale(t) => Coming(t) \/ cause[t] # {}
        /\ step[k] = "store" /\ got[t] # ListOf(t) => Vouched(t)
        /\ step[k] = "succeed" /\ Stale(t) => Vouched(t)

(* The records of one term, of which the enabled ones are approved *)
Good(t, list) ==
    /\ list \in List
    /\ \A a \in list : TermOf[a[2].date] = t
    /\ \A a \in list : a[2].enabled => a[1] \in approved

RowsApproved == \A i \in Id : row[i] # None /\ row[i].enabled => i \in approved

GoodTask(t) == t \in Task /\ (t.kind = "cache" => Good(t.term, t.list))

CopyInv ==
    /\ \A t \in Term : copies[t] # None => Good(t, copies[t])
    /\ \A t \in Term : Good(t, got[t])

RequestInv ==
    \A r \in Request :
        /\ req[r].pc = "cache" => GoodTask(req[r].task)
        /\ req[r].pc = "update" => row[req[r].id] # None

(* A task is stored under its own key and runs under it. *)
TaskInv ==
    \A k \in Key :
        /\ pending[k] # None => GoodTask(pending[k]) /\ KeyOf[pending[k]] = k
        /\ running[k] # None => GoodTask(running[k]) /\ KeyOf[running[k]] = k
        /\ step[k] # "none" => running[k] # None

IInv == TypeOK /\ RowsApproved /\ CopyInv /\ RequestInv /\ TaskInv

-----------------------------------------------------------------------------
(* What a query for a term returns is good. *)
LEMMA QueryGood ==
    ASSUME TypeOK, RowsApproved, NEW t \in Term
    PROVE  Good(t, ListOf(t))
<1>1. ASSUME NEW a \in ListOf(t)
      PROVE  /\ a \in Id \X Row
             /\ TermOf[a[2].date] = t
             /\ a[2].enabled => a[1] \in approved
  <2>1. PICK i \in Id : row[i] # None /\ TermOf[row[i].date] = t /\ a = <<i, row[i]>>
    BY <1>1 DEF ListOf
  <2>2. row[i] \in Row
    BY <2>1 DEF TypeOK
  <2>3. a[1] = i /\ a[2] = row[i]
    BY <2>1
  <2>4. QED
    BY <2>1, <2>2, <2>3 DEF RowsApproved
<1>2. QED
  BY <1>1 DEF Good, List

(* What is good stays good when more is approved. *)
LEMMA GoodStays ==
    ASSUME approved \subseteq approved'
    PROVE  /\ \A t, list : Good(t, list) => Good(t, list)'
           /\ \A t : GoodTask(t) => GoodTask(t)'
  BY DEF Good, GoodTask

LEMMA KeyOfTask ==
    ASSUME NEW t \in Task
    PROVE  /\ KeyOf[t] = <<t.kind, t.term>>
           /\ t.kind \in {"cache", "refresh"} /\ t.term \in Term
           /\ KeyOf[t] \in Key
<1>1. KeyOf[t] = <<t.kind, t.term>>
  BY DEF KeyOf
<1>2. t.kind \in {"cache", "refresh"} /\ t.term \in Term
  BY DEF Task
<1>3. QED
  BY <1>1, <1>2 DEF Key

-----------------------------------------------------------------------------
LEMMA Initially == Init => IInv
<1> SUFFICES ASSUME Init PROVE IInv
  OBVIOUS
<1> USE AdjustAssumption
<1>1. RowsApproved
  BY DEF Init, RowsApproved
<1>2. /\ row \in [Id -> Row \cup {None}]
      /\ \A i, j \in Id : row[i] # None /\ row[j] # None /\ row[i].date = row[j].date => i = j
  BY DEF Init
<1>3. ASSUME NEW t \in Term PROVE Good(t, ListOf(t))
  <2>1. ASSUME NEW a \in ListOf(t)
        PROVE  /\ a \in Id \X Row
               /\ TermOf[a[2].date] = t
               /\ a[2].enabled => a[1] \in approved
    <3>1. PICK i \in Id : row[i] # None /\ TermOf[row[i].date] = t /\ a = <<i, row[i]>>
      BY <2>1 DEF ListOf
    <3>2. row[i] \in Row /\ a[1] = i /\ a[2] = row[i]
      BY <1>2, <3>1
    <3>3. QED
      BY <1>1, <3>1, <3>2 DEF RowsApproved
  <2>2. QED
    BY <2>1 DEF Good, List
<1>4. /\ DOMAIN copies = Term
      /\ \A t \in Term : copies[t] # None => Good(t, copies[t])
  BY <1>3 DEF Init
<1>5. CopyInv /\ RequestInv /\ TaskInv
  BY <1>4 DEF Init, CopyInv, RequestInv, TaskInv, Idle, Good, List, Executor!Init
<1>6. TypeOK
  BY <1>2, <1>4 DEF Init, TypeOK, RequestState, Idle, List, Good, Executor!Init
<1>7. QED
  BY <1>1, <1>5, <1>6 DEF IInv

-----------------------------------------------------------------------------
(* Steps that leave the copies and the tasks alone, whatever is approved   *)
LEMMA ListsKept ==
    ASSUME IInv, approved \subseteq approved', UNCHANGED <<copies, tasks>>
    PROVE  CopyInv' /\ TaskInv'
<1> USE DEF IInv
<1>1. CopyInv'
  BY GoodStays DEF CopyInv, tasks, Good
<1>2. TaskInv'
  BY DEF TaskInv, GoodTask, Good, tasks
<1>3. QED
  BY <1>1, <1>2

(* A step of request r that leaves it without a list *)
LEMMA RequestsKept ==
    ASSUME IInv, approved \subseteq approved', NEW r \in Request, NEW state,
           Become(r, state), state.pc \notin {"cache", "update"},
           \A i \in Id : row[i] # None => row'[i] # None
    PROVE  RequestInv'
<1> USE DEF IInv
<1>1. ASSUME NEW q \in Request, req'[q].pc = "cache" PROVE GoodTask(req[q].task)'
  <2>1. q # r /\ req'[q] = req[q]
    BY <1>1 DEF Become, TypeOK
  <2>2. GoodTask(req[q].task)
    BY <1>1, <2>1 DEF RequestInv
  <2>3. QED
    BY <2>1, <2>2 DEF GoodTask, Good
<1>2. ASSUME NEW q \in Request, req'[q].pc = "update" PROVE (row[req[q].id] # None)'
  <2>1. q # r /\ req'[q] = req[q]
    BY <1>2 DEF Become, TypeOK
  <2>2. req[q].id \in Id
    BY <1>2, <2>1 DEF TypeOK, RequestState, Idle
  <2>3. QED
    BY <1>2, <2>1, <2>2 DEF RequestInv
<1>3. QED
  BY <1>1, <1>2 DEF RequestInv

-----------------------------------------------------------------------------
(* The steps of requests *)

LEMMA ReadListStep ==
    ASSUME IInv, NEW r \in Request, NEW t \in Term, ReadList(r, t)
    PROVE  IInv'
<1> USE DEF IInv
<1> DEFINE new == [kind |-> "cache", term |-> t, list |-> ListOf(t)]
           state == [pc |-> "cache", task |-> new]
<1>1. GoodTask(new)
  BY QueryGood DEF GoodTask, Task, Good
<1>2. UNCHANGED <<row, copies, tasks, approved, again, cause>> /\ Become(r, state)
  BY DEF ReadList
<1>3. CopyInv' /\ TaskInv'
  BY <1>2, ListsKept
<1>4. RequestInv' /\ RowsApproved'
  <2>1. \A t1 : GoodTask(t1) => GoodTask(t1)'
    BY <1>2, GoodStays
  <2>2. \A q \in Request : req'[q] = IF q = r THEN state ELSE req[q]
    BY <1>2 DEF Become, TypeOK
  <2>3. RequestInv'
    BY <1>1, <1>2, <2>1, <2>2 DEF RequestInv
  <2>4. QED
    BY <1>2, <2>3 DEF RowsApproved
<1>5. TypeOK'
  <2>1. state \in RequestState
    BY <1>1 DEF GoodTask, RequestState
  <2>2. req' \in [Request -> RequestState]
    BY <1>2, <2>1 DEF TypeOK, Become
  <2>3. QED
    BY <1>2, <2>2 DEF TypeOK, tasks
<1>6. QED
  BY <1>3, <1>4, <1>5

LEMMA AddCacheStep ==
    ASSUME IInv, NEW r \in Request, AddCache(r)
    PROVE  IInv'
<1> USE DEF IInv
<1> DEFINE new == req[r].task
<1>1. GoodTask(new) /\ new \in Task /\ KeyOf[new] \in Key
  BY KeyOfTask DEF AddCache, RequestInv, GoodTask
<1>2. /\ UNCHANGED <<row, copies, step, got, approved, again, cause>>
      /\ running' = running
      /\ pending' = [pending EXCEPT ![KeyOf[new]] = new]
      /\ Become(r, Idle)
  BY DEF AddCache, Executor!Submit
<1>3. CopyInv' /\ RowsApproved'
  BY <1>2 DEF CopyInv, RowsApproved, Good
<1>4. RequestInv'
  BY <1>2, RequestsKept DEF Idle
<1>5. TaskInv'
  BY <1>1, <1>2 DEF TaskInv, GoodTask, Good, TypeOK
<1>6. TypeOK'
  BY <1>1, <1>2 DEF TypeOK, Become, RequestState
<1>7. QED
  BY <1>3, <1>4, <1>5, <1>6

(* The steps of requests that write nothing *)
LEMMA QuietSteps ==
    ASSUME IInv, NEW r \in Request, NEW state \in RequestState,
           state.pc \notin {"cache", "update"},
           Become(r, state),
           UNCHANGED <<row, copies, tasks, approved, again, cause>>
    PROVE  IInv'
<1> USE DEF IInv
<1>1. CopyInv' /\ TaskInv'
  BY ListsKept
<1>2. RequestInv' /\ RowsApproved'
  BY RequestsKept DEF RowsApproved
<1>3. TypeOK'
  BY DEF TypeOK, Become, tasks
<1>4. QED
  BY <1>1, <1>2, <1>3

LEMMA RefreshingType ==
    ASSUME NEW terms \in SUBSET Term
    PROVE  Refreshing(terms) \in RequestState /\ Refreshing(terms).pc \notin {"cache", "update"}
<1>1. CASE terms = {}
  BY <1>1 DEF Refreshing, RequestState, Idle
<1>2. CASE terms # {}
  <2>1. Refreshing(terms) = [pc |-> "refresh", terms |-> terms]
    BY <1>2 DEF Refreshing
  <2>2. Refreshing(terms) \in [pc : {"refresh"}, terms : (SUBSET Term) \ {{}}]
    BY <1>2, <2>1
  <2>3. QED
    BY <2>1, <2>2 DEF RequestState
<1>3. QED
  BY <1>1, <1>2

LEMMA ReadOriginalStep ==
    ASSUME IInv, NEW r \in Request, NEW i \in Id, NEW e \in BOOLEAN \cup {None},
           NEW d \in Date \cup {None}, ReadOriginal(r, i, e, d)
    PROVE  IInv'
<1> USE DEF IInv
<1> DEFINE state == [pc |-> "update", id |-> i, term |-> TermOf[row[i].date],
                     enabled |-> e, date |-> d]
<1>1. /\ row[i] # None /\ d \in TermDate \cup {None}
      /\ Become(r, state)
      /\ UNCHANGED <<row, copies, tasks, approved, again, cause>>
  BY DEF ReadOriginal
<1>2. state \in RequestState
  <2>1. row[i] \in Row /\ row[i].date \in TermDate
    BY <1>1 DEF TypeOK, Row
  <2>2. TermOf[row[i].date] \in Term
    BY <2>1, AdjustAssumption DEF TermDate
  <2>3. QED
    BY <1>1, <2>2 DEF RequestState
<1>3. CopyInv' /\ TaskInv'
  BY <1>1, ListsKept
<1>4. RequestInv' /\ RowsApproved'
  <2>1. \A q \in Request : req'[q] = IF q = r THEN state ELSE req[q]
    BY <1>1 DEF Become, TypeOK
  <2>2. RequestInv'
    BY <1>1, <2>1 DEF RequestInv, GoodTask, Good
  <2>3. QED
    BY <1>1, <2>2 DEF RowsApproved
<1>5. TypeOK'
  BY <1>1, <1>2 DEF TypeOK, Become, tasks
<1>6. QED
  BY <1>3, <1>4, <1>5

LEMMA WriteUpdateStep ==
    ASSUME IInv, NEW r \in Request, WriteUpdate(r)
    PROVE  IInv'
<1> USE DEF IInv
<1> DEFINE u == req[r]
           new == Updated(u.id, u.enabled, u.date)
           from == TermOf[row[u.id].date]
<1>1. /\ u.pc = "update" /\ u.id \in Id /\ u.term \in Term
      /\ u.enabled \in BOOLEAN \cup {None}
      /\ u.date \in TermDate \cup {None}
  BY DEF WriteUpdate, TypeOK, RequestState, Idle
<1>2. row[u.id] \in Row /\ row[u.id].date \in TermDate /\ row[u.id].enabled \in BOOLEAN
  BY <1>1 DEF RequestInv, TypeOK, Row
<1>3. /\ new.date \in TermDate /\ new.enabled \in BOOLEAN /\ new \in Row
      /\ new.date = IF u.date = None THEN row[u.id].date ELSE u.date
      /\ new.enabled => u.enabled = TRUE \/ row[u.id].enabled
  <2>1. CASE u.enabled = None
    BY <1>1, <1>2, <2>1 DEF Updated, Row
  <2>2. CASE u.enabled # None
    BY <1>1, <1>2, <2>2 DEF Updated, Row
  <2>3. QED
    BY <2>1, <2>2
<1>4. /\ from \in Term
      /\ u.date # None => TermOf[u.date] \in Term
      /\ TermsOf(u) \in SUBSET Term
  BY <1>1, <1>2, AdjustAssumption DEF TermDate, TermsOf
<1>5. UNCHANGED <<copies, tasks, again>>
  BY DEF WriteUpdate
<1>6. CASE /\ ~DateTaken(u.id, new.date)
           /\ row' = [row EXCEPT ![u.id] = new]
           /\ approved' = IF u.enabled = TRUE THEN approved \cup {u.id} ELSE approved
           /\ cause' = IF from \in TermsOf(u) THEN cause
                       ELSE [cause EXCEPT ![from] = @ \cup {"moved"}]
           /\ Become(r, Refreshing(TermsOf(u)))
  <2>1. approved \subseteq approved' /\ approved' \subseteq Id
    BY <1>1, <1>6 DEF TypeOK
  <2>2. CopyInv' /\ TaskInv'
    BY <1>5, <2>1, ListsKept
  <2>3. /\ \A i \in Id : row'[i] = IF i = u.id THEN new ELSE row[i]
        /\ new # None
    BY <1>1, <1>3, <1>6, AdjustAssumption DEF TypeOK
  <2>4. RequestInv'
    BY <1>4, <1>6, <2>1, <2>3, RefreshingType, RequestsKept
  <2>5. RowsApproved'
    <3>1. ASSUME NEW i \in Id, row'[i] # None, row'[i].enabled PROVE i \in approved'
      <4>1. CASE i # u.id
        BY <2>1, <2>3, <3>1, <4>1 DEF RowsApproved
      <4>2. CASE i = u.id /\ u.enabled = TRUE
        BY <1>6, <4>2
      <4>3. CASE i = u.id /\ row[u.id].enabled
        <5>1. row[u.id] # None
          BY <1>1 DEF RequestInv
        <5>2. QED
          BY <1>1, <2>1, <4>3, <5>1 DEF RowsApproved
      <4>4. QED
        BY <1>3, <2>3, <3>1, <4>1, <4>2, <4>3
    <3>2. QED
      BY <3>1 DEF RowsApproved
  <2>6. TypeOK'
    <3>1. row' \in [Id -> Row \cup {None}]
      BY <1>3, <1>6 DEF TypeOK
    <3>2. ASSUME NEW i \in Id, NEW j \in Id, row'[i] # None, row'[j] # None,
                 row'[i].date = row'[j].date
          PROVE  i = j
      BY <1>6, <2>3, <3>2 DEF DateTaken, TypeOK
    <3>3. req' \in [Request -> RequestState]
      BY <1>4, <1>6, RefreshingType DEF TypeOK, Become
    <3>4. cause' \in [Term -> SUBSET {"late", "erased", "moved", "crash"}]
      BY <1>4, <1>6 DEF TypeOK
    <3>5. QED
      BY <1>5, <2>1, <3>1, <3>2, <3>3, <3>4 DEF TypeOK, tasks
  <2>7. QED
    BY <2>2, <2>4, <2>5, <2>6
<1>7. CASE Become(r, Idle) /\ UNCHANGED <<row, approved, cause>>
  BY <1>5, <1>7, QuietSteps DEF Idle, RequestState
<1>8. QED
  BY <1>6, <1>7 DEF WriteUpdate

LEMMA BeginCreateStep ==
    ASSUME IInv, NEW r \in Request, NEW dates \in SUBSET Date, BeginCreate(r, dates)
    PROVE  IInv'
<1> DEFINE state == [pc |-> "create", items |-> dates, terms |-> {}]
<1>1. state \in RequestState /\ state.pc \notin {"cache", "update"}
  BY DEF RequestState
<1>2. QED
  BY <1>1, QuietSteps DEF BeginCreate

LEMMA CreateState ==
    ASSUME TypeOK, NEW r \in Request, req[r].pc = "create"
    PROVE  req[r] \in [pc : {"create"}, items : SUBSET Date, terms : SUBSET Term]
  BY DEF TypeOK, RequestState, Idle

LEMMA CreateItemStep ==
    ASSUME IInv, NEW r \in Request, NEW d \in Date, CreateItem(r, d)
    PROVE  IInv'
<1> USE DEF IInv
<1> DEFINE c == req[r]
           skipped == [c EXCEPT !.items = @ \ {d}]
           created == [c EXCEPT !.items = @ \ {d}, !.terms = @ \cup {TermOf[d]}]
<1>1. c \in [pc : {"create"}, items : SUBSET Date, terms : SUBSET Term]
  BY CreateState DEF CreateItem
<1>2. UNCHANGED <<copies, tasks, approved, again, cause>>
  BY DEF CreateItem
<1>3. CASE Become(r, skipped) /\ UNCHANGED row
  <2>1. skipped \in RequestState /\ skipped.pc \notin {"cache", "update"}
    BY <1>1 DEF RequestState
  <2>2. QED
    BY <1>2, <1>3, <2>1, QuietSteps
<1>4. ASSUME TermOf[d] # None, ~DateTaken(None, d), Become(r, created),
             NEW i \in Id, row[i] = None, Insert(i, d)
      PROVE  IInv'
  <2> DEFINE new == [date |-> d, enabled |-> FALSE]
  <2>1. created \in RequestState /\ created.pc \notin {"cache", "update"}
    <3>1. TermOf[d] \in Term
      BY <1>4, AdjustAssumption
    <3>2. created \in [pc : {"create"}, items : SUBSET Date, terms : SUBSET Term]
      BY <1>1, <3>1
    <3>3. QED
      BY <3>2 DEF RequestState
  <2>2. new \in Row /\ new # None
    <3>1. d \in TermDate
      BY <1>4 DEF TermDate
    <3>2. new \in Row
      BY <3>1 DEF Row
    <3>3. QED
      BY <3>2, AdjustAssumption
  <2>3. \A j \in Id : row'[j] = IF j = i THEN new ELSE row[j]
    BY <1>4 DEF Insert, TypeOK
  <2>4. CopyInv' /\ TaskInv'
    BY <1>2, ListsKept
  <2>5. RequestInv'
    BY <1>2, <1>4, <2>1, <2>2, <2>3, RequestsKept
  <2>6. RowsApproved'
    BY <1>2, <2>3 DEF RowsApproved
  <2>7. TypeOK'
    <3>1. row' \in [Id -> Row \cup {None}]
      BY <1>4, <2>2 DEF TypeOK, Insert
    <3>2. ASSUME NEW j \in Id, row[j] # None PROVE row[j].date # d
      BY <1>4, <3>2, AdjustAssumption DEF DateTaken
    <3>3. ASSUME NEW j \in Id, NEW k \in Id, row'[j] # None, row'[k] # None,
                 row'[j].date = row'[k].date
          PROVE  j = k
      BY <2>3, <3>2, <3>3 DEF TypeOK
    <3>4. req' \in [Request -> RequestState]
      BY <1>4, <2>1 DEF TypeOK, Become
    <3>5. QED
      BY <1>2, <3>1, <3>3, <3>4 DEF TypeOK, tasks
  <2>8. QED
    BY <2>4, <2>5, <2>6, <2>7
<1>5. QED
  BY <1>3, <1>4 DEF CreateItem

LEMMA EndCreateStep ==
    ASSUME IInv, NEW r \in Request, EndCreate(r)
    PROVE  IInv'
<1>1. req[r].terms \in SUBSET Term
  BY CreateState DEF EndCreate, IInv
<1>2. QED
  BY <1>1, RefreshingType, QuietSteps DEF EndCreate

LEMMA RequestFailsStep ==
    ASSUME IInv, NEW r \in Request, RequestFails(r)
    PROVE  IInv'
<1>1. Idle \in RequestState /\ Idle.pc \notin {"cache", "update"}
  BY DEF Idle, RequestState
<1>2. CASE req[r].pc = "create"
  <2>1. req[r].terms \in SUBSET Term
    BY <1>2, CreateState DEF IInv
  <2>2. QED
    BY <1>2, <2>1, RefreshingType, QuietSteps DEF RequestFails
<1>3. CASE req[r].pc # "create"
  BY <1>1, <1>3, QuietSteps DEF RequestFails
<1>4. QED
  BY <1>2, <1>3

LEMMA AddRefreshStep ==
    ASSUME IInv, NEW r \in Request, NEW t \in Term, AddRefresh(r, t)
    PROVE  IInv'
<1> USE DEF IInv
<1> DEFINE new == [kind |-> "refresh", term |-> t]
           state == Refreshing(req[r].terms \ {t})
<1>1. GoodTask(new) /\ new \in Task /\ KeyOf[new] \in Key
  <2>1. new \in Task
    BY DEF Task
  <2>2. QED
    BY <2>1, KeyOfTask DEF GoodTask
<1>2. state \in RequestState /\ state.pc \notin {"cache", "update"}
  <2>1. req[r].terms \in SUBSET Term
    BY DEF AddRefresh, TypeOK, RequestState, Idle
  <2>2. QED
    BY <2>1, RefreshingType
<1>3. /\ UNCHANGED <<row, copies, step, got, approved, cause>>
      /\ running' = running
      /\ pending' = [pending EXCEPT ![KeyOf[new]] = new]
      /\ Become(r, state)
      /\ again' = again \/ again' = again \cup {t}
  BY DEF AddRefresh, Executor!Submit
<1>4. CopyInv' /\ RowsApproved'
  BY <1>3 DEF CopyInv, RowsApproved, Good
<1>5. RequestInv'
  BY <1>2, <1>3, RequestsKept
<1>6. TaskInv'
  BY <1>1, <1>3 DEF TaskInv, GoodTask, Good, TypeOK
<1>7. TypeOK'
  BY <1>1, <1>2, <1>3 DEF TypeOK, Become
<1>8. QED
  BY <1>4, <1>5, <1>6, <1>7

-----------------------------------------------------------------------------
(* The steps of tasks, of Redis and of the process *)

(* A step that neither reads nor approves a record and lets no request go on *)
LEMMA TableKept ==
    ASSUME IInv, UNCHANGED <<row, req, approved>>
    PROVE  RequestInv' /\ RowsApproved'
  BY DEF IInv, RequestInv, RowsApproved, GoodTask, Good

LEMMA BeginTaskStep ==
    ASSUME IInv, NEW k \in Key, BeginTask(k)
    PROVE  IInv'
<1> USE DEF IInv
<1>1. /\ running[k] = None /\ pending[k] # None
      /\ running' = [running EXCEPT ![k] = pending[k]]
      /\ pending' = pending
      /\ step' = [step EXCEPT ![k] = IF k[1] = "cache" THEN "store" ELSE "read"]
      /\ again' = again \/ again' = again \ {k[2]}
      /\ UNCHANGED <<row, copies, req, got, approved, cause>>
  BY DEF BeginTask, Executor!Begin, GoTo
<1>2. RequestInv' /\ RowsApproved'
  BY <1>1, TableKept
<1>3. CopyInv'
  BY <1>1 DEF CopyInv, Good
<1>4. TaskInv'
  BY <1>1 DEF TaskInv, GoodTask, Good, TypeOK
<1>5. TypeOK'
  BY <1>1 DEF TypeOK
<1>6. QED
  BY <1>2, <1>3, <1>4, <1>5

LEMMA RefreshReadStep ==
    ASSUME IInv, NEW t \in Term, RefreshRead(t)
    PROVE  IInv'
<1> USE DEF IInv
<1> DEFINE k == <<"refresh", t>>
<1>1. /\ k \in Key /\ step[k] = "read"
      /\ got' = [got EXCEPT ![t] = ListOf(t)]
      /\ step' = [step EXCEPT ![k] = "store"]
      /\ UNCHANGED <<row, copies, req, pending, running, approved, again, cause>>
  BY DEF RefreshRead, GoTo, executor, Key
<1>2. Good(t, ListOf(t))
  BY QueryGood
<1>3. RequestInv' /\ RowsApproved'
  BY <1>1, TableKept
<1>4. CopyInv'
  BY <1>1, <1>2 DEF CopyInv, Good, TypeOK
<1>5. TaskInv'
  BY <1>1 DEF TaskInv, GoodTask, Good, TypeOK
<1>6. TypeOK'
  BY <1>1, <1>2 DEF TypeOK, Good
<1>7. QED
  BY <1>3, <1>4, <1>5, <1>6

LEMMA StoreCopyStep ==
    ASSUME IInv, NEW k \in Key, StoreCopy(k)
    PROVE  IInv'
<1> USE DEF IInv
<1> DEFINE t == k[2]
           list == IF k[1] = "cache" THEN running[k].list ELSE got[t]
<1>1. /\ step[k] = "store" /\ t \in Term
      /\ copies' = [copies EXCEPT ![t] = list]
      /\ step' = [step EXCEPT ![k] = "succeed"]
      /\ UNCHANGED <<row, req, pending, running, got, approved, again>>
  BY DEF StoreCopy, GoTo, executor, Key
<1>2. Good(t, list)
  <2>1. CASE k[1] = "cache"
    <3>1. GoodTask(running[k]) /\ KeyOf[running[k]] = k
      BY <1>1 DEF TaskInv
    <3>2. <<running[k].kind, running[k].term>> = k
      BY <3>1, KeyOfTask DEF GoodTask
    <3>3. running[k].kind = "cache" /\ running[k].term = t
      BY <2>1, <3>2
    <3>4. QED
      BY <2>1, <3>1, <3>3 DEF GoodTask
  <2>2. CASE k[1] # "cache"
    BY <1>1, <2>2 DEF CopyInv
  <2>3. QED
    BY <2>1, <2>2
<1>3. RequestInv' /\ RowsApproved'
  BY <1>1, TableKept
<1>4. CopyInv'
  BY <1>1, <1>2 DEF CopyInv, Good, TypeOK
<1>5. TaskInv'
  BY <1>1 DEF TaskInv, GoodTask, Good, TypeOK
<1>6. TypeOK'
  <2>1. DOMAIN copies' = Term
    BY <1>1 DEF TypeOK
  <2>2. ASSUME NEW u \in Term, copies'[u] # None
        PROVE  copies'[u] \in List /\ \A a \in copies'[u] : TermOf[a[2].date] = u
    BY <1>4, <2>2 DEF CopyInv, Good
  <2>3. cause' \in [Term -> SUBSET {"late", "erased", "moved", "crash"}]
    <3> DEFINE new == IF list # ListOf(t) /\ k[1] = "cache" THEN cause[t] \cup {"late"}
                      ELSE IF list = ListOf(t) THEN Explained(t) ELSE cause[t]
    <3>1. cause' = [cause EXCEPT ![t] = new]
      BY <1>1 DEF StoreCopy, TypeOK
    <3>2. new \in SUBSET {"late", "erased", "moved", "crash"}
      BY <1>1 DEF TypeOK, Explained
    <3>3. QED
      BY <3>1, <3>2 DEF TypeOK
  <2>4. QED
    BY <1>1, <2>1, <2>2, <2>3 DEF TypeOK
<1>7. QED
  BY <1>3, <1>4, <1>5, <1>6

(* A task ends: nobody runs under its key, which keeps its task or none.   *)
LEMMA TaskEnds ==
    ASSUME IInv, NEW k \in Key,
           running' = [running EXCEPT ![k] = None],
           pending' = pending \/ pending' = [pending EXCEPT ![k] = None],
           step' = [step EXCEPT ![k] = "none"],
           got' = got \/ got' = [got EXCEPT ![k[2]] = {}],
           cause' \in [Term -> SUBSET {"late", "erased", "moved", "crash"}],
           UNCHANGED <<row, copies, req, approved, again>>
    PROVE  IInv'
<1> USE DEF IInv
<1>1. k[2] \in Term
  BY DEF Key
<1>2. RequestInv' /\ RowsApproved'
  BY TableKept
<1>3. CopyInv'
  <2>1. \A t \in Term : (copies[t] # None => Good(t, copies[t]))'
    BY DEF CopyInv, Good
  <2>2. \A t \in Term : Good(t, got[t])'
    BY <1>1 DEF CopyInv, Good, List, TypeOK
  <2>3. QED
    BY <2>1, <2>2 DEF CopyInv
<1>4. TaskInv'
  BY DEF TaskInv, GoodTask, Good, TypeOK
<1>5. TypeOK'
  BY <1>1 DEF TypeOK, List
<1>6. QED
  BY <1>2, <1>3, <1>4, <1>5

LEMMA SucceedTaskStep ==
    ASSUME IInv, NEW k \in Key, SucceedTask(k)
    PROVE  IInv'
<1>1. cause' \in [Term -> SUBSET {"late", "erased", "moved", "crash"}]
  BY DEF SucceedTask, IInv, TypeOK
<1>2. QED
  BY <1>1, TaskEnds DEF SucceedTask, Executor!Succeed, GoTo

LEMMA TaskFailsStep ==
    ASSUME IInv, NEW k \in Key, TaskFails(k)
    PROVE  IInv'
<1>1. cause' \in [Term -> SUBSET {"late", "erased", "moved", "crash"}]
  BY DEF TaskFails, IInv, TypeOK
<1>2. QED
  BY <1>1, TaskEnds DEF TaskFails, Executor!Release, GoTo

LEMMA ExpireCopyStep ==
    ASSUME IInv, NEW t \in Term, ExpireCopy(t)
    PROVE  IInv'
<1> USE DEF IInv
<1>1. /\ copies' = [copies EXCEPT ![t] = None]
      /\ cause' = [cause EXCEPT ![t] = Explained(t)]
      /\ UNCHANGED <<row, req, pending, running, step, got, approved, again>>
  BY DEF ExpireCopy, tasks
<1>2. RequestInv' /\ RowsApproved'
  BY <1>1, TableKept
<1>3. CopyInv'
  BY <1>1 DEF CopyInv, Good, TypeOK
<1>4. TaskInv'
  BY <1>1 DEF TaskInv, GoodTask, Good
<1>5. Explained(t) \in SUBSET {"late", "erased", "moved", "crash"}
  BY DEF TypeOK, Explained
<1>6. TypeOK'
  BY <1>1, <1>5 DEF TypeOK
<1>7. QED
  BY <1>2, <1>3, <1>4, <1>6

LEMMA CrashStep ==
    ASSUME IInv, Crash
    PROVE  IInv'
<1> USE DEF IInv
<1>1. /\ req' = [r \in Request |-> Idle]
      /\ pending' = [k \in Key |-> None]
      /\ running' = [k \in Key |-> None]
      /\ step' = [k \in Key |-> "none"]
      /\ got' = [t \in Term |-> {}]
      /\ again' = {}
      /\ UNCHANGED <<row, copies, approved>>
  BY DEF Crash
<1>2. RowsApproved' /\ RequestInv'
  BY <1>1 DEF RowsApproved, RequestInv, Idle
<1>3. CopyInv'
  BY <1>1 DEF CopyInv, Good, List
<1>4. TaskInv'
  BY <1>1 DEF TaskInv
<1>5. cause' \in [Term -> SUBSET {"late", "erased", "moved", "crash"}]
  BY DEF Crash, TypeOK
<1>6. TypeOK'
  BY <1>1, <1>5 DEF TypeOK, RequestState, List
<1>7. QED
  BY <1>2, <1>3, <1>4, <1>6

-----------------------------------------------------------------------------
LEMMA StepKeeps == IInv /\ [Next]_vars => IInv'
<1> SUFFICES ASSUME IInv, [Next]_vars PROVE IInv'
  OBVIOUS
<1>1. CASE \E r \in Request, t \in Term : ReadList(r, t)
  BY <1>1, ReadListStep
<1>2. CASE \E r \in Request, i \in Id, e \in BOOLEAN \cup {None}, d \in Date \cup {None} :
             ReadOriginal(r, i, e, d)
  BY <1>2, ReadOriginalStep
<1>3. CASE \E r \in Request, dates \in SUBSET Date : BeginCreate(r, dates)
  BY <1>3, BeginCreateStep
<1>4. CASE \E r \in Request : RequestStep(r) \/ RequestFails(r)
  BY <1>4, AddCacheStep, WriteUpdateStep, EndCreateStep, CreateItemStep,
     AddRefreshStep, RequestFailsStep DEF RequestStep
<1>5. CASE \E k \in Key : TaskStep(k) \/ TaskFails(k)
  BY <1>5, BeginTaskStep, StoreCopyStep, SucceedTaskStep, TaskFailsStep DEF TaskStep
<1>6. CASE \E t \in Term : RefreshRead(t) \/ ExpireCopy(t)
  BY <1>6, RefreshReadStep, ExpireCopyStep
<1>7. CASE Crash
  BY <1>7, CrashStep
<1>8. CASE UNCHANGED vars
  BY <1>8 DEF vars, tasks, IInv, TypeOK, RowsApproved, CopyInv, RequestInv, TaskInv,
              GoodTask, Good
<1>9. QED
  BY <1>1, <1>2, <1>3, <1>4, <1>5, <1>6, <1>7, <1>8 DEF Next

LEMMA Invariant == Spec => []IInv
  BY Initially, StepKeeps, PTL DEF Spec

(* Whatever is read, stored late or lost, no copy ever holds a record of   *)
(* another term and no two records have one date.                          *)
THEOREM TypeCorrect == Spec => []TypeOK
<1>1. IInv => TypeOK
  BY DEF IInv
<1>2. QED
  BY Invariant, <1>1, PTL

(* No interleaving of creations, updates, late stores, refreshes, failures *)
(* and crashes shows a student a record as enabled that no administrator   *)
(* has enabled.                                                            *)
THEOREM ApprovedShown == Spec => []ShownIsApproved
<1>1. IInv => ShownIsApproved
  BY DEF IInv, CopyInv, Good, ShownIsApproved
<1>2. QED
  BY Invariant, <1>1, PTL

-----------------------------------------------------------------------------
(* Stale copies *)

LEMMA KeyFacts ==
    /\ \A t \in Term : <<"refresh", t>> \in Key
    /\ \A k \in Key : k[2] \in Term /\ (k[1] = "cache" \/ k = <<"refresh", k[2]>>)
    /\ \A k \in Key, t \in Term : k[1] = "cache" => k # <<"refresh", t>>
    /\ \A k \in Key, t \in Term : k = <<"refresh", t>> => k[1] = "refresh" /\ k[2] = t
  BY DEF Key

(* What a request has promised it still will do. *)
LEMMA ComingKept ==
    ASSUME TypeOK, NEW r \in Request, NEW state, Become(r, state), NEW t,
           req[r].pc \in {"refresh", "create"} /\ t \in req[r].terms =>
               state.pc \in {"refresh", "create"} /\ t \in state.terms,
           Coming(t)
    PROVE  Coming(t)'
<1>1. PICK q \in Request : req[q].pc \in {"refresh", "create"} /\ t \in req[q].terms
  BY DEF Coming
<1>2. req'[q] = IF q = r THEN state ELSE req[q]
  BY DEF Become, TypeOK
<1>3. QED
  BY <1>1, <1>2 DEF Coming

LEMMA RefreshComes ==
    ASSUME TypeOK, NEW r \in Request, NEW state, Become(r, state), NEW t,
           state.pc \in {"refresh", "create"}, t \in state.terms
    PROVE  Coming(t)'
<1>1. req'[r] = state
  BY DEF Become, TypeOK
<1>2. QED
  BY <1>1 DEF Coming

(* A step of a request: a list that it changes is vouched for at once.     *)
LEMMA TableChanges ==
    ASSUME RefreshInv, UNCHANGED <<copies, tasks, again>>,
           \A t \in Term : Coming(t) => Coming(t)',
           \A t \in Term : cause[t] \subseteq cause'[t],
           \A t \in Term : ListOf(t)' = ListOf(t) \/ Coming(t)' \/ cause'[t] # {}
    PROVE  RefreshInv'
<1> SUFFICES ASSUME NEW t \in Term
             PROVE  LET k == <<"refresh", t>> IN
                    /\ running'[k] # None => pending'[k] # None
                    /\ pending'[k] = None /\ Stale(t)' => Coming(t)' \/ cause'[t] # {}
                    /\ step'[k] = "store" /\ got'[t] # ListOf(t)' => Vouched(t)'
                    /\ step'[k] = "succeed" /\ Stale(t)' => Vouched(t)'
  BY DEF RefreshInv
<1>1. CASE Coming(t)' \/ cause'[t] # {}
  BY <1>1 DEF Vouched, RefreshInv, tasks
<1>2. CASE ListOf(t)' = ListOf(t)
  <2>1. Stale(t)' => Stale(t)
    BY <1>2 DEF Stale
  <2>2. Vouched(t) => Vouched(t)'
    BY DEF Vouched
  <2>3. QED
    BY <1>2, <2>1, <2>2 DEF RefreshInv, tasks
<1>3. QED
  BY <1>1, <1>2

(* Steps of requests that change no list *)
LEMMA ListsAgree ==
    ASSUME RefreshInv, TypeOK, UNCHANGED <<row, copies, tasks, again, cause>>,
           NEW r \in Request, NEW state, Become(r, state),
           \A t \in Term : req[r].pc \in {"refresh", "create"} /\ t \in req[r].terms =>
               state.pc \in {"refresh", "create"} /\ t \in state.terms
    PROVE  RefreshInv'
<1>1. \A t \in Term : Coming(t) => Coming(t)'
  BY ComingKept
<1>2. \A t \in Term : ListOf(t)' = ListOf(t)
  BY DEF ListOf
<1>3. QED
  BY <1>1, <1>2, TableChanges

LEMMA RefreshingTerms ==
    ASSUME NEW terms, NEW t \in terms
    PROVE  Refreshing(terms).pc \in {"refresh", "create"} /\ t \in Refreshing(terms).terms
  BY DEF Refreshing

LEMMA RequestsVouch ==
    ASSUME IInv, RefreshInv, NEW r \in Request,
           \/ \E t \in Term : ReadList(r, t)
           \/ \E i \in Id, e \in BOOLEAN \cup {None}, d \in Date \cup {None} : ReadOriginal(r, i, e, d)
           \/ \E dates \in SUBSET Date : BeginCreate(r, dates)
           \/ EndCreate(r) \/ RequestFails(r)
    PROVE  RefreshInv'
<1> USE DEF IInv
<1>1. CASE \E t \in Term : ReadList(r, t)
  BY <1>1, ListsAgree DEF ReadList, Arrives, Idle
<1>2. CASE \E i \in Id, e \in BOOLEAN \cup {None}, d \in Date \cup {None} : ReadOriginal(r, i, e, d)
  BY <1>2, ListsAgree DEF ReadOriginal, Arrives, Idle
<1>3. CASE \E dates \in SUBSET Date : BeginCreate(r, dates)
  BY <1>3, ListsAgree DEF BeginCreate, Arrives, Idle
<1>4. CASE EndCreate(r)
  BY <1>4, ListsAgree, RefreshingTerms DEF EndCreate
<1>5. CASE RequestFails(r)
  <2>1. CASE req[r].pc = "create"
    BY <1>5, <2>1, ListsAgree, RefreshingTerms DEF RequestFails
  <2>2. CASE req[r].pc = "update"
    BY <1>5, <2>2, ListsAgree DEF RequestFails
  <2>3. QED
    BY <1>5, <2>1, <2>2 DEF RequestFails
<1>6. QED
  BY <1>1, <1>2, <1>3, <1>4, <1>5

(* A statement on one record changes the lists of its old term and its new *)
(* term only.                                                              *)
LEMMA OneRecord ==
    ASSUME NEW i \in Id, NEW t, \A j \in Id \ {i} : row'[j] = row[j],
           row[i] # None => TermOf[row[i].date] # t,
           row'[i] # None => TermOf[row'[i].date] # t
    PROVE  ListOf(t)' = ListOf(t)
<1>1. \A j \in Id : (row[j] # None /\ TermOf[row[j].date] = t)
                      <=> (row'[j] # None /\ TermOf[row'[j].date] = t)
  OBVIOUS
<1>2. \A j \in Id : row[j] # None /\ TermOf[row[j].date] = t => row'[j] = row[j]
  OBVIOUS
<1>3. QED
  BY <1>1, <1>2 DEF ListOf

LEMMA WriteUpdateVouches ==
    ASSUME IInv, RefreshInv, NEW r \in Request, WriteUpdate(r)
    PROVE  RefreshInv'
<1> USE DEF IInv
<1> DEFINE u == req[r]
           new == Updated(u.id, u.enabled, u.date)
           from == TermOf[row[u.id].date]
<1>1. u.pc = "update" /\ u.id \in Id /\ row[u.id] # None
  BY DEF WriteUpdate, RequestInv, TypeOK, RequestState, Idle
<1>2. UNCHANGED <<copies, tasks, again>>
  BY DEF WriteUpdate
<1>3. CASE /\ row' = [row EXCEPT ![u.id] = new]
           /\ cause' = IF from \in TermsOf(u) THEN cause
                       ELSE [cause EXCEPT ![from] = @ \cup {"moved"}]
           /\ Become(r, Refreshing(TermsOf(u)))
  <2>1. \A t \in Term : Coming(t) => Coming(t)'
    BY <1>1, <1>3, ComingKept
  <2>2. \A t \in TermsOf(u) : Coming(t)'
    BY <1>3, RefreshComes, RefreshingTerms
  <2>3. \A t \in Term : cause[t] \subseteq cause'[t]
    BY <1>3 DEF TypeOK
  <2>4. row[u.id].date \in TermDate /\ from \in Term
    BY <1>1, AdjustAssumption DEF TypeOK, Row, TermDate
  <2>5. from \in TermsOf(u) \/ cause'[from] # {}
    BY <1>3, <2>4 DEF TypeOK
  <2>6. new.date = IF u.date = None THEN row[u.id].date ELSE u.date
    BY DEF Updated
  <2>7. TermOf[new.date] = from \/ TermOf[new.date] \in TermsOf(u)
    BY <2>6 DEF TermsOf
  <2>8. ASSUME NEW t \in Term PROVE ListOf(t)' = ListOf(t) \/ Coming(t)' \/ cause'[t] # {}
    <3>1. CASE t = from \/ t = TermOf[new.date]
      BY <2>2, <2>5, <2>7, <3>1
    <3>2. CASE t # from /\ t # TermOf[new.date]
      <4>1. row'[u.id] = new /\ \A j \in Id \ {u.id} : row'[j] = row[j]
        BY <1>1, <1>3 DEF TypeOK
      <4>2. QED
        BY <1>1, <3>2, <4>1, OneRecord
    <3>3. QED
      BY <3>1, <3>2
  <2>9. QED
    BY <1>2, <2>1, <2>3, <2>8, TableChanges
<1>4. CASE Become(r, Idle) /\ UNCHANGED <<row, approved, cause>>
  BY <1>1, <1>2, <1>4, ListsAgree
<1>5. QED
  BY <1>3, <1>4 DEF WriteUpdate

LEMMA CreateItemVouches ==
    ASSUME IInv, RefreshInv, NEW r \in Request, NEW d \in Date, CreateItem(r, d)
    PROVE  RefreshInv'
<1> USE DEF IInv
<1> DEFINE c == req[r]
           skipped == [c EXCEPT !.items = @ \ {d}]
           created == [c EXCEPT !.items = @ \ {d}, !.terms = @ \cup {TermOf[d]}]
<1>1. c \in [pc : {"create"}, items : SUBSET Date, terms : SUBSET Term]
  BY CreateState DEF CreateItem
<1>2. UNCHANGED <<copies, tasks, approved, again, cause>>
  BY DEF CreateItem
<1>3. CASE Become(r, skipped) /\ UNCHANGED row
  <2>1. skipped.pc = "create" /\ skipped.terms = c.terms
    BY <1>1
  <2>2. QED
    BY <1>2, <1>3, <2>1, ListsAgree
<1>4. ASSUME Become(r, created), NEW i \in Id, row[i] = None, Insert(i, d)
      PROVE  RefreshInv'
  <2>1. created.pc = "create" /\ created.terms = c.terms \cup {TermOf[d]}
    BY <1>1
  <2>2. \A t \in Term : Coming(t) => Coming(t)'
    <3> HIDE DEF created
    <3> QED
      BY <1>4, <2>1, ComingKept
  <2>3. Coming(TermOf[d])'
    <3> HIDE DEF created
    <3> QED
      BY <1>4, <2>1, RefreshComes
  <2>4. row'[i].date = d /\ \A j \in Id \ {i} : row'[j] = row[j]
    BY <1>4 DEF Insert, TypeOK
  <2>5. \A t \in Term : ListOf(t)' = ListOf(t) \/ Coming(t)'
    BY <1>4, <2>3, <2>4, OneRecord
  <2>6. QED
    BY <1>2, <2>2, <2>5, TableChanges
<1>5. QED
  BY <1>3, <1>4 DEF CreateItem

LEMMA AddCacheVouches ==
    ASSUME IInv, RefreshInv, NEW r \in Request, AddCache(r)
    PROVE  RefreshInv'
<1> USE DEF IInv
<1> DEFINE new == req[r].task
<1>1. new \in Task /\ KeyOf[new] \in Key
  BY KeyOfTask DEF AddCache, RequestInv, GoodTask
<1>2. /\ UNCHANGED <<row, copies, step, got, again, cause>>
      /\ running' = running
      /\ pending' = [pending EXCEPT ![KeyOf[new]] = new]
      /\ Become(r, Idle) /\ req[r].pc = "cache"
  BY DEF AddCache, Executor!Submit
<1>3. new # None
  BY <1>1, AdjustAssumption
<1>4. \A k \in Key : pending'[k] = None => pending[k] = None
  BY <1>1, <1>2, <1>3 DEF TypeOK
<1>5. \A t \in Term : Coming(t) => Coming(t)'
  BY <1>2, ComingKept
<1>6. \A t \in Term : ListOf(t)' = ListOf(t) /\ (Stale(t)' <=> Stale(t))
  BY <1>2 DEF ListOf, Stale
<1>7. \A t \in Term : Vouched(t) => Vouched(t)'
  BY <1>2, <1>5 DEF Vouched
<1>8. QED
  BY <1>2, <1>4, <1>5, <1>6, <1>7, KeyFacts DEF RefreshInv

LEMMA AddRefreshVouches ==
    ASSUME IInv, RefreshInv, NEW r \in Request, NEW u \in Term, AddRefresh(r, u)
    PROVE  RefreshInv'
<1> USE DEF IInv
<1> DEFINE new == [kind |-> "refresh", term |-> u]
           key == <<"refresh", u>>
           state == Refreshing(req[r].terms \ {u})
<1>1. new \in Task /\ KeyOf[new] = key /\ new # None
  <2>1. new \in Task
    BY DEF Task
  <2>2. QED
    BY <2>1, KeyOfTask, AdjustAssumption
<1>2. /\ UNCHANGED <<row, copies, step, got, cause>>
      /\ running' = running
      /\ pending' = [pending EXCEPT ![key] = new]
      /\ Become(r, state)
      /\ again' = IF running[key] = None THEN again ELSE again \cup {u}
  BY <1>1 DEF AddRefresh, Executor!Submit
<1>3. \A t \in Term \ {u} : Coming(t) => Coming(t)'
  <2>1. \A t \in req[r].terms \ {u} : state.pc \in {"refresh", "create"} /\ t \in state.terms
    BY RefreshingTerms
  <2> HIDE DEF state
  <2>2. QED
    BY <1>2, <2>1, ComingKept
<1>4. \A t \in Term : ListOf(t)' = ListOf(t) /\ (Stale(t)' <=> Stale(t))
  BY <1>2 DEF ListOf, Stale
<1>5. \A t \in Term \ {u} : Vouched(t) => Vouched(t)'
  BY <1>2, <1>3 DEF Vouched
<1>6. pending'[key] # None /\ \A k \in Key \ {key} : pending'[k] = pending[k]
  BY <1>1, <1>2, KeyFacts DEF TypeOK
<1>7. step[key] # "none" => u \in again'
  BY <1>2, KeyFacts DEF TaskInv
<1>8. ASSUME NEW t \in Term
      PROVE  LET k == <<"refresh", t>> IN
             /\ running'[k] # None => pending'[k] # None
             /\ pending'[k] = None /\ Stale(t)' => Coming(t)' \/ cause'[t] # {}
             /\ step'[k] = "store" /\ got'[t] # ListOf(t)' => Vouched(t)'
             /\ step'[k] = "succeed" /\ Stale(t)' => Vouched(t)'
  <2>1. CASE t = u
    BY <1>2, <1>6, <1>7, <2>1 DEF Vouched
  <2>2. CASE t # u
    <3>1. <<"refresh", t>> \in Key \ {key}
      BY <2>2, KeyFacts
    <3>2. QED
      BY <1>2, <1>3, <1>4, <1>5, <1>6, <2>2, <3>1 DEF RefreshInv
  <2>3. QED
    BY <2>1, <2>2
<1>9. QED
  BY <1>8 DEF RefreshInv

(* The steps of tasks that write no copy *)
LEMMA BeginTaskVouches ==
    ASSUME IInv, RefreshInv, NEW k \in Key, BeginTask(k)
    PROVE  RefreshInv'
<1> USE DEF IInv
<1>1. /\ running[k] = None /\ pending[k] # None
      /\ running' = [running EXCEPT ![k] = pending[k]]
      /\ pending' = pending
      /\ step' = [step EXCEPT ![k] = IF k[1] = "cache" THEN "store" ELSE "read"]
      /\ again' = IF k[1] = "refresh" THEN again \ {k[2]} ELSE again
      /\ UNCHANGED <<row, copies, req, got, cause>>
  BY DEF BeginTask, Executor!Begin, GoTo
<1>2. \A t \in Term : ListOf(t)' = ListOf(t) /\ (Stale(t)' <=> Stale(t)) /\ (Coming(t)' <=> Coming(t))
  BY <1>1 DEF ListOf, Stale, Coming
<1>3. ASSUME NEW t \in Term
      PROVE  LET l == <<"refresh", t>> IN
             /\ running'[l] # None => pending'[l] # None
             /\ pending'[l] = None /\ Stale(t)' => Coming(t)' \/ cause'[t] # {}
             /\ step'[l] = "store" /\ got'[t] # ListOf(t)' => Vouched(t)'
             /\ step'[l] = "succeed" /\ Stale(t)' => Vouched(t)'
  <2>1. CASE k = <<"refresh", t>>
    <3>1. k[1] = "refresh" /\ step'[k] = "read"
      BY <1>1, <2>1 DEF TypeOK
    <3>2. QED
      BY <1>1, <1>2, <2>1, <3>1 DEF RefreshInv
  <2>2. CASE k # <<"refresh", t>>
    <3>1. Vouched(t) => Vouched(t)'
      BY <1>1, <1>2, <2>2, KeyFacts DEF Vouched
    <3>2. <<"refresh", t>> \in Key
      BY KeyFacts
    <3>3. QED
      BY <1>1, <1>2, <2>2, <3>1, <3>2 DEF RefreshInv, TypeOK
  <2>3. QED
    BY <2>1, <2>2
<1>4. QED
  BY <1>3 DEF RefreshInv

LEMMA RefreshReadVouches ==
    ASSUME IInv, RefreshInv, NEW u \in Term, RefreshRead(u)
    PROVE  RefreshInv'
<1> USE DEF IInv
<1> DEFINE key == <<"refresh", u>>
<1>1. /\ got' = [got EXCEPT ![u] = ListOf(u)]
      /\ step' = [step EXCEPT ![key] = "store"]
      /\ UNCHANGED <<row, copies, req, pending, running, again, cause>>
  BY DEF RefreshRead, GoTo, executor
<1>2. \A t \in Term : ListOf(t)' = ListOf(t) /\ (Stale(t)' <=> Stale(t)) /\ (Vouched(t)' <=> Vouched(t))
  BY <1>1 DEF ListOf, Stale, Coming, Vouched
<1>3. \A t \in Term : Coming(t)' <=> Coming(t)
  BY <1>1 DEF Coming
<1>4. got'[u] = ListOf(u) /\ step'[key] = "store"
  BY <1>1, KeyFacts DEF TypeOK
<1>5. \A t \in Term \ {u} : got'[t] = got[t] /\ step'[<<"refresh", t>>] = step[<<"refresh", t>>]
  BY <1>1, KeyFacts DEF TypeOK
<1>6. QED
  BY <1>1, <1>2, <1>3, <1>4, <1>5 DEF RefreshInv

LEMMA StoreCopyVouches ==
    ASSUME IInv, RefreshInv, NEW k \in Key, StoreCopy(k)
    PROVE  RefreshInv'
<1> USE DEF IInv
<1> DEFINE u == k[2]
           list == IF k[1] = "cache" THEN running[k].list ELSE got[u]
           key == <<"refresh", u>>
<1>1. /\ step[k] = "store" /\ u \in Term
      /\ copies' = [copies EXCEPT ![u] = list]
      /\ cause' = [cause EXCEPT ![u] = IF list # ListOf(u) /\ k[1] = "cache" THEN @ \cup {"late"}
                                       ELSE IF list = ListOf(u) THEN Explained(u) ELSE @]
      /\ step' = [step EXCEPT ![k] = "succeed"]
      /\ UNCHANGED <<row, req, pending, running, got, again>>
  BY DEF StoreCopy, GoTo, executor, Key
<1>2. \A t \in Term : ListOf(t)' = ListOf(t) /\ (Coming(t)' <=> Coming(t))
  BY <1>1 DEF ListOf, Coming
<1>3. ASSUME NEW t \in Term \ {u}
      PROVE  /\ cause'[t] = cause[t] /\ step'[<<"refresh", t>>] = step[<<"refresh", t>>]
             /\ Stale(t)' <=> Stale(t)
             /\ Vouched(t)' <=> Vouched(t)
  <2>1. cause'[t] = cause[t] /\ copies'[t] = copies[t]
    BY <1>1 DEF TypeOK
  <2>2. <<"refresh", t>> \in Key /\ <<"refresh", t>> # k
    BY KeyFacts
  <2>3. QED
    BY <1>1, <1>2, <2>1, <2>2 DEF TypeOK, Stale, Vouched
<1>4. /\ copies'[u] = list
      /\ cause'[u] = IF list # ListOf(u) /\ k[1] = "cache" THEN cause[u] \cup {"late"}
                     ELSE IF list = ListOf(u) THEN Explained(u) ELSE cause[u]
  BY <1>1 DEF TypeOK
<1>5. list = ListOf(u) => ~Stale(u)'
  BY <1>2, <1>1, <1>4 DEF Stale
<1>6. k[1] = "cache" \/ k = key
  BY KeyFacts
<1>7. key \in Key
  BY <1>1, KeyFacts
<1> HIDE DEF list, key
<1>8. CASE list = ListOf(u)
  <2>1. cause'[u] = Explained(u)
    BY <1>4, <1>8
  <2>2. k = key => step[key] = "store" /\ step'[key] = "succeed"
    BY <1>1 DEF TypeOK
  <2>3. k # key => step'[key] = step[key]
    BY <1>1, <1>7 DEF TypeOK
  <2>4. step'[key] = "store" /\ got[u] # ListOf(u) => cause'[u] = cause[u] /\ step[key] = "store"
    BY <2>1, <2>2, <2>3 DEF Explained, key
  <2>5. step'[key] = "store" /\ got'[u] # ListOf(u)' => Vouched(u)'
    <3>1. SUFFICES ASSUME step'[key] = "store", got[u] # ListOf(u) PROVE Vouched(u)'
      BY <1>1, <1>2
    <3>2. Vouched(u)
      BY <1>1, <2>4, <3>1 DEF RefreshInv, key
    <3>3. QED
      BY <1>1, <1>2, <2>4, <3>1, <3>2 DEF Vouched
  <2>6. running'[key] # None => pending'[key] # None
    BY <1>1 DEF RefreshInv, key
  <2>7. QED
    BY <1>1, <1>2, <1>3, <1>5, <1>8, <2>5, <2>6 DEF RefreshInv, key
<1>9. CASE list # ListOf(u) /\ k[1] = "cache"
  <2>1. cause'[u] # {}
    BY <1>4, <1>9
  <2>2. QED
    BY <1>1, <1>2, <1>3, <2>1 DEF RefreshInv, Vouched
<1>10. CASE list # ListOf(u) /\ k[1] # "cache"
  <2>1. k = key /\ list = got[u] /\ cause'[u] = cause[u]
    BY <1>4, <1>6, <1>10 DEF list
  <2>2. Vouched(u)
    BY <1>1, <1>10, <2>1 DEF RefreshInv, key
  <2>3. Vouched(u)'
    BY <1>1, <1>2, <2>1, <2>2 DEF Vouched
  <2>4. running[key] # None /\ pending[key] # None
    BY <1>1, <2>1 DEF TaskInv, RefreshInv, key
  <2>5. QED
    BY <1>1, <1>2, <1>3, <2>3, <2>4 DEF RefreshInv, key
<1>11. QED
  BY <1>8, <1>9, <1>10

(* A task ends.  If it is a refresh that succeeds, what it has left stale  *)
(* is with a request or a cause, or becomes one.                           *)
LEMMA SucceedTaskVouches ==
    ASSUME IInv, RefreshInv, NEW k \in Key, SucceedTask(k)
    PROVE  RefreshInv'
<1> USE DEF IInv
<1> DEFINE u == k[2]
<1>1. /\ step[k] = "succeed" /\ u \in Term
      /\ running' = [running EXCEPT ![k] = None]
      /\ pending' = [pending EXCEPT ![k] = None]
      /\ step' = [step EXCEPT ![k] = "none"]
      /\ cause' = IF k[1] = "refresh" /\ u \in again /\ Stale(u)
                  THEN [cause EXCEPT ![u] = @ \cup {"erased"}] ELSE cause
      /\ got' = IF k[1] = "refresh" THEN [got EXCEPT ![u] = {}] ELSE got
      /\ UNCHANGED <<row, copies, req, again>>
  BY DEF SucceedTask, Executor!Succeed, GoTo, Key
<1>2. \A t \in Term : ListOf(t)' = ListOf(t) /\ (Stale(t)' <=> Stale(t)) /\ (Coming(t)' <=> Coming(t))
  BY <1>1 DEF ListOf, Stale, Coming
<1>3. \A t \in Term : cause[t] \subseteq cause'[t]
  BY <1>1 DEF TypeOK
<1>4. \A t \in Term : Vouched(t) => Vouched(t)'
  BY <1>1, <1>2, <1>3 DEF Vouched
<1>5. ASSUME NEW t \in Term
      PROVE  LET l == <<"refresh", t>> IN
             /\ running'[l] # None => pending'[l] # None
             /\ pending'[l] = None /\ Stale(t)' => Coming(t)' \/ cause'[t] # {}
             /\ step'[l] = "store" /\ got'[t] # ListOf(t)' => Vouched(t)'
             /\ step'[l] = "succeed" /\ Stale(t)' => Vouched(t)'
  <2>1. CASE k = <<"refresh", t>>
    <3>1. u = t /\ k[1] = "refresh" /\ running'[k] = None /\ step'[k] = "none"
      BY <1>1, <2>1 DEF TypeOK
    <3>2. Stale(t) => Coming(t) \/ cause'[t] # {}
      <4>1. SUFFICES ASSUME Stale(t) PROVE Coming(t) \/ cause'[t] # {}
        OBVIOUS
      <4>2. Coming(t) \/ t \in again \/ cause[t] # {}
        BY <1>1, <2>1, <4>1 DEF RefreshInv, Vouched
      <4>3. t \in again => cause'[t] # {}
        BY <1>1, <3>1, <4>1 DEF TypeOK
      <4>4. QED
        BY <1>3, <4>2, <4>3
    <3>3. QED
      BY <1>2, <2>1, <3>1, <3>2
  <2>2. CASE k # <<"refresh", t>>
    <3>1. <<"refresh", t>> \in Key /\ (k[1] = "refresh" => u # t)
      BY <2>2, KeyFacts
    <3>2. got'[t] = got[t]
      BY <1>1, <3>1 DEF TypeOK
    <3>3. QED
      BY <1>1, <1>2, <1>3, <1>4, <2>2, <3>1, <3>2 DEF RefreshInv, TypeOK
  <2>3. QED
    BY <2>1, <2>2
<1>6. QED
  BY <1>5 DEF RefreshInv

LEMMA TaskFailsVouches ==
    ASSUME IInv, RefreshInv, NEW k \in Key, TaskFails(k)
    PROVE  RefreshInv'
<1> USE DEF IInv
<1>1. /\ running' = [running EXCEPT ![k] = None]
      /\ step' = [step EXCEPT ![k] = "none"]
      /\ UNCHANGED <<row, copies, req, pending, got, again, cause>>
  BY DEF TaskFails, Executor!Release, GoTo
<1>2. \A t \in Term : ListOf(t)' = ListOf(t) /\ (Stale(t)' <=> Stale(t)) /\ (Coming(t)' <=> Coming(t))
  BY <1>1 DEF ListOf, Stale, Coming
<1>3. \A t \in Term : Vouched(t) => Vouched(t)'
  BY <1>1, <1>2 DEF Vouched
<1>4. \A l \in Key : /\ step'[l] = "none" \/ step'[l] = step[l]
                     /\ running'[l] = None \/ running'[l] = running[l]
  BY <1>1 DEF TypeOK
<1>5. QED
  BY <1>1, <1>2, <1>3, <1>4, KeyFacts DEF RefreshInv

LEMMA ExpireCopyVouches ==
    ASSUME IInv, RefreshInv, NEW u \in Term, ExpireCopy(u)
    PROVE  RefreshInv'
<1> USE DEF IInv
<1>1. /\ copies' = [copies EXCEPT ![u] = None]
      /\ cause' = [cause EXCEPT ![u] = Explained(u)]
      /\ UNCHANGED <<row, req, pending, running, step, got, again>>
  BY DEF ExpireCopy, tasks
<1>2. \A t \in Term : ListOf(t)' = ListOf(t) /\ (Coming(t)' <=> Coming(t))
  BY <1>1 DEF ListOf, Coming
<1>3. ~Stale(u)' /\ cause'[u] = Explained(u)
  BY <1>1 DEF Stale, TypeOK
<1>4. \A t \in Term \ {u} : cause'[t] = cause[t] /\ (Stale(t)' <=> Stale(t))
  BY <1>1, <1>2 DEF Stale, TypeOK
<1>5. \A t \in Term \ {u} : Vouched(t)' <=> Vouched(t)
  BY <1>1, <1>2, <1>4 DEF Vouched
<1>6. step[<<"refresh", u>>] = "store" /\ got[u] # ListOf(u) => Vouched(u)'
  <2>1. SUFFICES ASSUME step[<<"refresh", u>>] = "store", got[u] # ListOf(u) PROVE Vouched(u)'
    OBVIOUS
  <2>2. cause'[u] = cause[u] /\ Vouched(u)
    BY <1>3, <2>1 DEF Explained, RefreshInv
  <2>3. QED
    BY <1>1, <1>2, <2>2 DEF Vouched
<1>7. QED
  BY <1>1, <1>2, <1>3, <1>4, <1>5, <1>6 DEF RefreshInv

LEMMA CrashVouches ==
    ASSUME IInv, RefreshInv, Crash
    PROVE  RefreshInv'
<1>1. /\ pending' = [k \in Key |-> None] /\ running' = [k \in Key |-> None]
      /\ step' = [k \in Key |-> "none"]
      /\ cause' = [t \in Term |-> IF Stale(t) THEN cause[t] \cup {"crash"} ELSE cause[t]]
      /\ UNCHANGED <<row, copies>>
  BY DEF Crash
<1>2. \A t \in Term : Stale(t)' => cause'[t] # {}
  <2>1. \A t \in Term : Stale(t)' <=> Stale(t)
    BY <1>1 DEF Stale, ListOf
  <2>2. QED
    BY <1>1, <2>1
<1>3. QED
  BY <1>1, <1>2, KeyFacts DEF RefreshInv

LEMMA VouchedInit == Init => RefreshInv
<1> SUFFICES ASSUME Init PROVE RefreshInv
  OBVIOUS
<1>1. \A t \in Term : ~Stale(t)
  BY DEF Init, Stale
<1>2. \A k \in Key : running[k] = None /\ step[k] = "none"
  BY DEF Init, Executor!Init
<1>3. QED
  BY <1>1, <1>2, KeyFacts DEF RefreshInv

LEMMA VouchedStep == IInv /\ RefreshInv /\ [Next]_vars => RefreshInv'
<1> SUFFICES ASSUME IInv, RefreshInv, [Next]_vars PROVE RefreshInv'
  OBVIOUS
<1>1. CASE \E r \in Request, t \in Term : ReadList(r, t)
  BY <1>1, RequestsVouch
<1>2. CASE \E r \in Request, i \in Id, e \in BOOLEAN \cup {None}, d \in Date \cup {None} :
             ReadOriginal(r, i, e, d)
  BY <1>2, RequestsVouch
<1>3. CASE \E r \in Request, dates \in SUBSET Date : BeginCreate(r, dates)
  BY <1>3, RequestsVouch
<1>4. CASE \E r \in Request : RequestStep(r) \/ RequestFails(r)
  BY <1>4, RequestsVouch, AddCacheVouches, WriteUpdateVouches, CreateItemVouches,
     AddRefreshVouches DEF RequestStep
<1>5. CASE \E k \in Key : TaskStep(k) \/ TaskFails(k)
  BY <1>5, BeginTaskVouches, StoreCopyVouches, SucceedTaskVouches, TaskFailsVouches DEF TaskStep
<1>6. CASE \E t \in Term : RefreshRead(t) \/ ExpireCopy(t)
  BY <1>6, RefreshReadVouches, ExpireCopyVouches
<1>7. CASE Crash
  BY <1>7, CrashVouches
<1>8. CASE UNCHANGED vars
  BY <1>8 DEF vars, tasks, executor, RefreshInv, Stale, ListOf, Vouched, Coming
<1>9. QED
  BY <1>1, <1>2, <1>3, <1>4, <1>5, <1>6, <1>7, <1>8 DEF Next

(* A copy is stale only while a refresh is to come, or by one of the four  *)
(* races the design accepts, whatever else fails or is late.               *)
THEOREM StaleAccounted == Spec => []StaleExplained
<1>1. RefreshInv => StaleExplained
  BY DEF RefreshInv, StaleExplained, RefreshToCome, Coming
<1>2. Spec => []RefreshInv
  BY Invariant, VouchedInit, VouchedStep, PTL DEF Spec
<1>3. QED
  BY <1>1, <1>2, PTL

=============================================================================
