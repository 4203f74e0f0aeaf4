----------------------------- MODULE AdjustCourse -----------------------------
(***************************************************************************)
(* internal/course/service/auto_adjust_course.go: days whose courses move  *)
(* to another day.  The records are extracted from notices and approved by *)
(* an administrator; a Redis copy of each term's list is filled by a task  *)
(* that stores what a request has read, and refreshed, under another task  *)
(* key, by a task that reads the table itself.                             *)
(*                                                                         *)
(* A record's day decides its term; weeks, weekdays and the day it moves   *)
(* to are left out.  Requests of several callers interleave at every       *)
(* access to the table, to Redis and to the task queue.                    *)
(***************************************************************************)
EXTENDS Naturals, FiniteSets

CONSTANTS
    Id,            \* primary keys the table can hand out, enough of them
    Date,
    Term,
    TermOf,        \* TermOf[d]: the term that d lies in, or None
    Request,
    MaxItems,      \* bound on the items of one creation
    None,
    RowBefore,     \* the table at the start
    Budgets        \* bounds: how often each thing happens in a behaviour

Kind == {"list", "update", "create", "expiry", "fault", "crash"}

TermDate == {d \in Date : TermOf[d] # None}

Row == [date : TermDate, enabled : BOOLEAN]

List == SUBSET (Id \X Row)

Key == {"cache", "refresh"} \X Term

(* A task that stores a list it was given, one that reads the list itself  *)
Task == [kind : {"cache"}, term : Term, list : List]
        \cup [kind : {"refresh"}, term : Term]

KeyOf == [t \in Task |-> <<t.kind, t.term>>]

ASSUME AdjustAssumption ==
    /\ None \notin Id \cup Date \cup Term \cup Row \cup Task \cup BOOLEAN
    /\ MaxItems \in Nat
    /\ TermOf \in [Date -> Term \cup {None}]
    /\ RowBefore \in [Id -> Row \cup {None}]
    /\ \A i, j \in Id : RowBefore[i] # None /\ RowBefore[j] # None
                           /\ RowBefore[i].date = RowBefore[j].date => i = j
    /\ Budgets \subseteq [Kind -> Nat]

VARIABLES
    row,           \* the table auto_adjust_course
    copies,        \* copies[t]: the list in Redis, or None
    req,           \* req[r]: the program counter and the locals of a request
    pending,       \* the executor's tasks
    running,
    step,          \* step[k]: what the running task of k does next
    got,           \* got[t]: what the running refresh of t has read
    left,          \* what is left of the budget
    approved,      \* history: records an administrator has enabled
    again,         \* history: terms whose refresh was added while one ran
    cause          \* cause[t]: history, the accepted races by which the copy
                   \* of t may be stale with no refresh to come

executor == <<pending, running>>
tasks == <<pending, running, step, got>>
vars == <<row, copies, req, tasks, left, approved, again, cause>>

Executor == INSTANCE SerialExecutor WITH Periodic <- {}

Idle == [pc |-> "idle"]

(* GetAutoAdjustCourseListByTerm *)
ListOf(t) == {<<i, row[i]>> : i \in {j \in Id : row[j] # None /\ TermOf[row[j].date] = t}}

(* Some terms have a copy. *)
Init ==
    /\ row = RowBefore
    /\ \E cached \in SUBSET Term :
         copies = [t \in Term |-> IF t \in cached THEN ListOf(t) ELSE None]
    /\ req = [r \in Request |-> Idle]
    /\ Executor!Init
    /\ step = [k \in Key |-> "none"]
    /\ got = [t \in Term |-> {}]
    /\ left \in Budgets
    /\ approved = {i \in Id : row[i] # None /\ row[i].enabled}
    /\ again = {}
    /\ cause = [t \in Term |-> {}]

Spend(kind) == left[kind] > 0 /\ left' = [left EXCEPT ![kind] = @ - 1]

Stale(t) == copies[t] \notin {None, ListOf(t)}

(* Callers are alike: a new request is the first that is idle. *)
Arrives(r) == req[r] = Idle /\ r = CHOOSE q \in Request : req[q] = Idle

Become(r, state) == req' = [req EXCEPT ![r] = state]

(* A request that has done its part of the table adds a refresh per term.  *)
Refreshing(terms) == IF terms = {} THEN Idle ELSE [pc |-> "refresh", terms |-> terms]

-----------------------------------------------------------------------------
(* GetAutoAdjustCourseList, when there is no copy: what is read is         *)
(* answered, and a task will store it.                                     *)

ReadList(r, t) ==
    /\ Arrives(r)
    /\ Spend("list")
    /\ copies[t] = None
    /\ Become(r, [pc |-> "cache", task |-> [kind |-> "cache", term |-> t, list |-> ListOf(t)]])
    /\ UNCHANGED <<row, copies, tasks, approved, again, cause>>

AddCache(r) ==
    /\ req[r].pc = "cache"
    /\ Executor!Submit(req[r].task)
    /\ Become(r, Idle)
    /\ UNCHANGED <<row, copies, step, got, left, approved, again, cause>>

-----------------------------------------------------------------------------
(* UpdateAutoAdjustCourse: what is to change, and the term read before.    *)
(* The dates of an update lie in a term, else it ends before it reads.     *)

ReadOriginal(r, i, enabled, date) ==
    /\ Arrives(r)
    /\ Spend("update")
    /\ row[i] # None
    /\ date \in TermDate \cup {None}
    /\ Become(r, [pc |-> "update", id |-> i, term |-> TermOf[row[i].date],
                  enabled |-> enabled, date |-> date])
    /\ UNCHANGED <<row, copies, tasks, approved, again, cause>>

Updated(i, enabled, date) ==
    [date |-> IF date = None THEN row[i].date ELSE date,
     enabled |-> IF enabled = None THEN row[i].enabled ELSE enabled]

DateTaken(i, d) == \E j \in Id \ {i} : row[j] # None /\ row[j].date = d

(* The terms an update refreshes *)
TermsOf(u) == {u.term} \cup IF u.date = None THEN {} ELSE {TermOf[u.date]}

(* The statement fails when the date is another record's, and an update    *)
(* that changes nothing affects no row, which is an error as well.  When   *)
(* another update has moved the record meanwhile, a third term's list      *)
(* changes unnoticed.                                                      *)
WriteUpdate(r) ==
    LET u == req[r]
        new == Updated(u.id, u.enabled, u.date)
        from == TermOf[row[u.id].date]
    IN
    /\ u.pc = "update"
    /\ \/ /\ ~DateTaken(u.id, new.date)
          /\ new # row[u.id]
          /\ row' = [row EXCEPT ![u.id] = new]
          /\ approved' = IF u.enabled = TRUE THEN approved \cup {u.id} ELSE approved
          /\ cause' = IF from \in TermsOf(u) THEN cause
                      ELSE [cause EXCEPT ![from] = @ \cup {"moved"}]
          /\ Become(r, Refreshing(TermsOf(u)))
       \/ /\ DateTaken(u.id, new.date) \/ new = row[u.id]
          /\ Become(r, Idle)
          /\ UNCHANGED <<row, approved, cause>>
    /\ UNCHANGED <<copies, tasks, left, again>>

-----------------------------------------------------------------------------
(* CreateAutoAdjustCourse: the items are inserted one by one; those        *)
(* without a term and those whose date has a record are skipped.  The      *)
(* refresh is deferred, so that an error does not prevent it.              *)

BeginCreate(r, dates) ==
    /\ Arrives(r)
    /\ Spend("create")
    /\ Cardinality(dates) \in 1..MaxItems
    /\ Become(r, [pc |-> "create", items |-> dates, terms |-> {}])
    /\ UNCHANGED <<row, copies, tasks, approved, again, cause>>

(* Mutant of Insert: a new record is enabled at once. *)
Insert_Enabled(i, d) == row' = [row EXCEPT ![i] = [date |-> d, enabled |-> TRUE]]

Insert(i, d) == row' = [row EXCEPT ![i] = [date |-> d, enabled |-> FALSE]]

(* The order of the items is left open. *)
CreateItem(r, d) ==
    LET c == req[r] IN
    /\ c.pc = "create"
    /\ d \in c.items
    /\ \/ /\ TermOf[d] = None \/ DateTaken(None, d)
          /\ Become(r, [c EXCEPT !.items = @ \ {d}])
          /\ UNCHANGED row
       \/ /\ TermOf[d] # None /\ ~DateTaken(None, d)
          /\ \E i \in Id : row[i] = None /\ Insert(i, d)
          /\ Become(r, [c EXCEPT !.items = @ \ {d}, !.terms = @ \cup {TermOf[d]}])
    /\ UNCHANGED <<copies, tasks, left, approved, again, cause>>

EndCreate(r) ==
    /\ req[r].pc = "create"
    /\ req[r].items = {}
    /\ Become(r, Refreshing(req[r].terms))
    /\ UNCHANGED <<row, copies, tasks, left, approved, again, cause>>

(* Mutant of RequestFails: a failed creation refreshes nothing. *)
RequestFails_NotDeferred(r) ==
    /\ req[r].pc \in {"update", "create"}
    /\ Spend("fault")
    /\ Become(r, Idle)
    /\ UNCHANGED <<row, copies, tasks, approved, again, cause>>

(* A statement of a request fails and ends it. *)
RequestFails(r) ==
    /\ req[r].pc \in {"update", "create"}
    /\ Spend("fault")
    /\ Become(r, IF req[r].pc = "create" THEN Refreshing(req[r].terms) ELSE Idle)
    /\ UNCHANGED <<row, copies, tasks, approved, again, cause>>

(* refreshAutoAdjustCourseCache, a term at a time *)
AddRefresh(r, t) ==
    /\ req[r].pc = "refresh"
    /\ t \in req[r].terms
    /\ Executor!Submit([kind |-> "refresh", term |-> t])
    /\ Become(r, Refreshing(req[r].terms \ {t}))
    /\ again' = IF running[<<"refresh", t>>] = None THEN again ELSE again \cup {t}
    /\ UNCHANGED <<row, copies, step, got, left, approved, cause>>

-----------------------------------------------------------------------------
(* The tasks *)

GoTo(k, label) == step' = [step EXCEPT ![k] = label]

BeginTask(k) ==
    /\ Executor!Begin(k)
    /\ GoTo(k, IF k[1] = "cache" THEN "store" ELSE "read")
    /\ again' = IF k[1] = "refresh" THEN again \ {k[2]} ELSE again
    /\ UNCHANGED <<row, copies, req, got, left, approved, cause>>

(* A copy that is fresh or gone needs no explanation, unless a refresh is  *)
(* about to store what it read before the last change.                     *)
Explained(t) ==
    IF step[<<"refresh", t>>] = "store" /\ got[t] # ListOf(t) THEN cause[t] ELSE {}

RefreshRead(t) ==
    /\ step[<<"refresh", t>>] = "read"
    /\ got' = [got EXCEPT ![t] = ListOf(t)]
    /\ GoTo(<<"refresh", t>>, "store")
    /\ UNCHANGED <<row, copies, req, executor, left, approved, again, cause>>

(* SetAutoAdjustCourseListCache.  A cache task may be late: what it was    *)
(* given is stored over what is newer.                                     *)
StoreCopy(k) ==
    LET t == k[2]
        list == IF k[1] = "cache" THEN running[k].list ELSE got[t]
    IN
    /\ step[k] = "store"
    /\ copies' = [copies EXCEPT ![t] = list]
    /\ cause' = [cause EXCEPT ![t] = IF list # ListOf(t) /\ k[1] = "cache"
                                     THEN @ \cup {"late"}
                                     ELSE IF list = ListOf(t) THEN Explained(t)
                                     ELSE @]
    /\ GoTo(k, "succeed")
    /\ UNCHANGED <<row, req, executor, got, left, approved, again>>

(* The task leaves the map, and with it what was added while it ran.       *)
SucceedTask(k) ==
    LET t == k[2] IN
    /\ step[k] = "succeed"
    /\ Executor!Succeed(k)
    /\ GoTo(k, "none")
    /\ cause' = IF k[1] = "refresh" /\ t \in again /\ Stale(t)
                THEN [cause EXCEPT ![t] = @ \cup {"erased"}] ELSE cause
    /\ got' = IF k[1] = "refresh" THEN [got EXCEPT ![t] = {}] ELSE got
    /\ UNCHANGED <<row, copies, req, left, approved, again>>

(* Mutant of TaskFails: an error ends the worker's loop, the key is held.  *)
TaskFails_EndsWorker(k) ==
    /\ step[k] \in {"read", "store"}
    /\ Spend("fault")
    /\ GoTo(k, "none")
    /\ UNCHANGED <<row, copies, req, executor, got, approved, again, cause>>

(* The database or Redis fails; the task stays and is run again. *)
TaskFails(k) ==
    /\ step[k] \in {"read", "store"}
    /\ Spend("fault")
    /\ Executor!Release(k)
    /\ GoTo(k, "none")
    /\ UNCHANGED <<row, copies, req, got, approved, again, cause>>

-----------------------------------------------------------------------------
(* A copy lives AutoAdjustCourseKeyExpire. *)
ExpireCopy(t) ==
    /\ copies[t] # None
    /\ Spend("expiry")
    /\ copies' = [copies EXCEPT ![t] = None]
    /\ cause' = [cause EXCEPT ![t] = Explained(t)]
    /\ UNCHANGED <<row, req, tasks, approved, again>>

(* The process ends and starts again: requests and tasks are gone. *)
Crash ==
    /\ Spend("crash")
    /\ req' = [r \in Request |-> Idle]
    /\ pending' = [k \in Key |-> None]
    /\ running' = [k \in Key |-> None]
    /\ step' = [k \in Key |-> "none"]
    /\ got' = [t \in Term |-> {}]
    /\ again' = {}
    /\ cause' = [t \in Term |-> IF Stale(t) THEN cause[t] \cup {"crash"} ELSE cause[t]]
    /\ UNCHANGED <<row, copies, approved>>

RequestStep(r) ==
    \/ AddCache(r) \/ WriteUpdate(r) \/ EndCreate(r)
    \/ \E d \in Date : CreateItem(r, d)
    \/ \E t \in Term : AddRefresh(r, t)

TaskStep(k) == BeginTask(k) \/ StoreCopy(k) \/ SucceedTask(k)

Next ==
    \/ \E r \in Request, t \in Term : ReadList(r, t)
    \/ \E r \in Request, i \in Id, e \in BOOLEAN \cup {None}, d \in Date \cup {None} :
         ReadOriginal(r, i, e, d)
    \/ \E r \in Request, dates \in SUBSET Date : BeginCreate(r, dates)
    \/ \E r \in Request : RequestStep(r) \/ RequestFails(r)
    \/ \E k \in Key : TaskStep(k) \/ TaskFails(k)
    \/ \E t \in Term : RefreshRead(t) \/ ExpireCopy(t)
    \/ Crash

Spec == Init /\ [][Next]_vars

(* Requests in progress and workers go on; nobody has to ask for anything, *)
(* and no copy needs to expire.                                            *)
FairSpec ==
    /\ Spec
    /\ \A r \in Request : WF_vars(RequestStep(r))
    /\ \A k \in Key : WF_vars(TaskStep(k))
    /\ \A t \in Term : WF_vars(RefreshRead(t))

-----------------------------------------------------------------------------
(* Correctness *)

RequestState ==
    {Idle}
    \cup [pc : {"cache"}, task : Task]
    \cup [pc : {"update"}, id : Id, term : Term, enabled : BOOLEAN \cup {None},
          date : TermDate \cup {None}]
    \cup [pc : {"create"}, items : SUBSET Date, terms : SUBSET Term]
    \cup [pc : {"refresh"}, terms : (SUBSET Term) \ {{}}]

(* Every variable keeps its type; no two records have one date, and a copy *)
(* holds records of its own term only, whichever task has stored it.       *)
TypeOK ==
    /\ row \in [Id -> Row \cup {None}]
    /\ \A i, j \in Id : row[i] # None /\ row[j] # None /\ row[i].date = row[j].date => i = j
    /\ DOMAIN copies = Term
    /\ \A t \in Term : copies[t] # None =>
         copies[t] \in List /\ \A a \in copies[t] : TermOf[a[2].date] = t
    /\ req \in [Request -> RequestState]
    /\ pending \in [Key -> Task \cup {None}]
    /\ running \in [Key -> Task \cup {None}]
    /\ step \in [Key -> {"none", "read", "store", "succeed"}]
    /\ got \in [Term -> List]
    /\ approved \subseteq Id
    /\ again \subseteq Term
    /\ cause \in [Term -> SUBSET {"late", "erased", "moved", "crash"}]

(* Somebody will still read the list of t and store it. *)
RefreshToCome(t) ==
    \/ pending[<<"refresh", t>>] # None
    \/ \E r \in Request : req[r].pc = "refresh" /\ t \in req[r].terms
    \/ \E r \in Request : req[r].pc = "create" /\ t \in req[r].terms

(* A copy is stale only while a refresh is to come, or by one of four      *)
(* accepted races: a late cache task, a refresh erased by the success of   *)
(* an older one, a record moved between two reads, a crash.  Errors in     *)
(* requests or tasks and changes of a record's term are no such races.     *)
StaleExplained == \A t \in Term : Stale(t) => RefreshToCome(t) \/ cause[t] # {}

(* What students are shown as adjusted, copies included, an administrator  *)
(* has enabled: "新增的记录默认不启用，需人工审核后才会应用到课表".         *)
ShownIsApproved ==
    \A t \in Term :
        copies[t] # None => \A a \in copies[t] : a[2].enabled => a[1] \in approved

(* Apart from those races, a stale copy is repaired without its expiring.  *)
CopyHeals == \A t \in Term : Stale(t) ~> ~Stale(t) \/ cause[t] # {}

=============================================================================
