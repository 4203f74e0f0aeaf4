------------------------------- MODULE Lookups -------------------------------
(***************************************************************************)
(* The handlers that answer from a copy in Redis, or else fetch from the   *)
(* outside (the registry, the job fair, the store of papers) and have the  *)
(* answer stored for some time: in internal/user, course, classroom,       *)
(* common and paper.  They differ in who stores, in what a failed command  *)
(* means, and in that a student's information is kept in a table as well,  *)
(* whose row counts for as long as a copy in Redis.  Two copies are        *)
(* published by a periodic task instead.                                   *)
(*                                                                         *)
(* A behaviour is about one key of one of the lookups.  What is fetched is *)
(* the tick at which it was, and whether there is nothing.  A request, and *)
(* a run of the periodic task, ends in the tick in which it begins or in   *)
(* the next one; a task may wait and be retried for any time.  Left out:   *)
(* the terms' row of a student, and the terms that a course list's request *)
(* stores under the same key by a task of another one.                     *)
(*                                                                         *)
(* A command of Redis that fails may have had its effect or not; a         *)
(* statement of MySQL that fails has had none.                             *)
(***************************************************************************)
EXTENDS Naturals, FiniteSets

CONSTANTS
    Asker,           \* requests in progress at a time
    Life,            \* of a copy and of a row; the periodic task runs twice in it
    LastMoment,      \* bounds the model
    LookupBudgets    \* bounds the model: how often what may happen

LookupKinds == {"ask", "fault", "restart"}

ASSUME LookupAssumption ==
    /\ {Life, LastMoment} \subseteq Nat
    /\ Life > 1
    /\ LookupBudgets \subseteq [LookupKinds -> Nat]

(* Who stores what a request has fetched: the request, which then answers  *)
(* without it if that fails; the request, which only logs it; a goroutine; *)
(* a task.                                                                 *)
AnsweredStores == {"GetTerm"}
IgnoredStores == {"GetJobFair", "GetDir"}
DetachedStores == {"GetTermList", "GetExamRoom", "GetExamRoomYjsy"}
QueuedStores == {"GetTermsList", "GetUserInfo"}
Published == {"GetLocateDate", "GetContributorInfo"}
Lookup == AnsweredStores \cup IgnoredStores \cup DetachedStores \cup QueuedStores \cup Published

VARIABLES
    lookup,       \* the handler this behaviour is about
    nothing,      \* whether there is nothing to be fetched
    moment,       \* the clock
    copy,         \* the copy in Redis: asOf, until, and how long its task waited
    row,          \* the row of the student: asOf and updatedAt
    asker,        \* the next step of each request and its locals
    detached,     \* the goroutines that will store, each by what it stores
    lookupWaits,  \* the executor's task
    lookupRuns,
    publisher,    \* the periodic task: when it is due or has begun, what it has fetched
    lookupLeft    \* what is left of the budget

lookupVars == <<lookup, nothing, moment, copy, row, asker, detached, lookupWaits, lookupRuns,
                publisher, lookupLeft>>

NoCopy == [asOf |-> "no copy"]
NoRow == [asOf |-> "no row"]
NoStore == [asOf |-> "no task"]
NotYet == LastMoment + 1           \* nothing has been fetched

Moment == 0 .. LastMoment
StoreTask == [asOf : Moment, added : Moment]
TheKey == "copy"

LookupExecutor == INSTANCE SerialExecutor WITH
    Key <- {TheKey}, Task <- StoreTask, Periodic <- {}, None <- NoStore,
    KeyOf <- [t \in StoreTask |-> TheKey], pending <- lookupWaits, running <- lookupRuns

(* How old an answer may be: as old as a copy may get, which for a student *)
(* is filled from a row that may be as old as a row may get; the requests  *)
(* and the goroutine in between, and the time the copy's task has waited.  *)
OldestAnswer(waited) == waited + IF lookup = "GetUserInfo" THEN 2 * Life + 2 ELSE Life + 1

(* A request that has ended: history, whether what it was told was true as *)
(* recently as that, or what had befallen it when it was told an error or  *)
(* a success without what it asked for.                                    *)
Told(recent) == [step |-> "told", recent |-> recent]
Failed(cause) == [step |-> "failed", cause |-> cause]
Empty(cause) == [step |-> "empty", cause |-> cause]
Over == {"told", "failed", "empty"}
Begun(step) == [step |-> step, since |-> moment, asOf |-> NotYet, update |-> FALSE]

LookupsInit ==
    /\ lookup \in Lookup
    /\ nothing \in BOOLEAN
    /\ nothing => lookup \in {"GetTermList", "GetExamRoom"}
    /\ moment = 0
    /\ copy = NoCopy /\ row = NoRow
    /\ asker = [a \in Asker |-> Told(TRUE)]
    /\ detached = {}
    /\ LookupExecutor!Init
    /\ publisher = [at |-> IF lookup \in Published THEN 0 ELSE NotYet, asOf |-> NotYet]
    /\ lookupLeft \in LookupBudgets

Takes(kind) == lookupLeft[kind] > 0 /\ lookupLeft' = [lookupLeft EXCEPT ![kind] = @ - 1]
GoesTo(a, step) == asker' = [asker EXCEPT ![a].step = step]
Fails(a, cause) == asker' = [asker EXCEPT ![a] = Failed(cause)]
Tells(a, asOf, waited) ==
    asker' = [asker EXCEPT ![a] = Told(moment - asOf <= OldestAnswer(waited))]

(* A copy is stored for its life, and a mutant: for two.                   *)
SetCopy_Twice(asOf, waited) ==
    copy' = [asOf |-> asOf, until |-> moment + 2 * Life, waited |-> waited]
SetCopy(asOf, waited) == copy' = [asOf |-> asOf, until |-> moment + Life, waited |-> waited]

Unmoved == UNCHANGED <<lookup, nothing, moment, publisher>>
OnlyAsker == Unmoved /\ UNCHANGED <<copy, row, detached, lookupWaits, lookupRuns>>

Ask(a) ==
    /\ asker[a].step \in Over
    /\ Takes("ask")
    /\ asker' = [asker EXCEPT ![a] = Begun("exists")]
    /\ OnlyAsker

(* Without a copy: a student's row is next, or the outside; contributors   *)
(* are not fetched.                                                        *)
Misses(a, cause) ==
    IF lookup = "GetContributorInfo" THEN Fails(a, cause)
    ELSE GoesTo(a, IF lookup = "GetUserInfo" THEN "row" ELSE "fetch")

(* IsKeyExist: a failed command counts as no.                              *)
IsKeyExist(a) ==
    /\ asker[a].step = "exists"
    /\ \/ /\ IF copy = NoCopy THEN Misses(a, "no copy") ELSE GoesTo(a, "get")
          /\ UNCHANGED lookupLeft
       \/ Takes("fault") /\ Misses(a, "redis")
    /\ OnlyAsker

(* The copy, which was there, cannot be had: only the date is fetched.     *)
NotGot(a, cause) == IF lookup = "GetLocateDate" THEN GoesTo(a, "fetch") ELSE Fails(a, cause)

(* The copy is read by a command of its own.  An empty list of terms is no *)
(* copy.                                                                   *)
GetCopy(a) ==
    /\ asker[a].step = "get"
    /\ \/ /\ copy # NoCopy
          /\ IF lookup = "GetTermList" /\ nothing THEN GoesTo(a, "fetch")
             ELSE Tells(a, copy.asOf, copy.waited)
          /\ UNCHANGED lookupLeft
       \/ copy = NoCopy /\ NotGot(a, "expired") /\ UNCHANGED lookupLeft
       \/ Takes("fault") /\ NotGot(a, "redis")
    /\ OnlyAsker

(* Whether a row still counts: in the tick in which its life ends it may   *)
(* or may not.                                                             *)
RowCounts == {valid \in BOOLEAN : IF valid THEN moment <= row.updatedAt + Life
                                  ELSE moment >= row.updatedAt + Life}

(* GetUserInfo: a row that counts is the answer, and is to be copied; one  *)
(* that does not is to be updated.                                         *)
GetStudentById(a) ==
    /\ asker[a].step = "row"
    /\ IF row = NoRow THEN GoesTo(a, "fetch")
       ELSE \E valid \in RowCounts :
                asker' = [asker EXCEPT ![a] = IF valid THEN [@ EXCEPT !.step = "add", !.asOf = row.asOf]
                                              ELSE [@ EXCEPT !.step = "fetch", !.update = TRUE]]
    /\ UNCHANGED lookupLeft
    /\ OnlyAsker

(* The answer of the outside.  A goroutine is started at once, but for an  *)
(* undergraduate's empty list of exam rooms.                               *)
FetchSource(a) ==
    /\ asker[a].step = "fetch"
    /\ IF lookup \in DetachedStores \cup Published THEN Tells(a, moment, 0)
       ELSE asker' = [asker EXCEPT ![a].asOf = moment, ![a].step =
                         CASE lookup = "GetUserInfo" -> "write"
                           [] lookup = "GetTermsList" -> "add"
                           [] OTHER -> "set"]
    /\ detached' = IF lookup \in DetachedStores /\ ~(lookup = "GetExamRoom" /\ nothing)
                   THEN detached \cup {moment} ELSE detached
    /\ Unmoved /\ UNCHANGED <<copy, row, lookupWaits, lookupRuns, lookupLeft>>

(* The student is created or, by a Save, updated.  Two requests may both   *)
(* have found no row.                                                      *)
WriteStudent(a) ==
    /\ asker[a].step = "write"
    /\ IF row # NoRow /\ ~asker[a].update THEN Fails(a, "duplicate") /\ UNCHANGED row
       ELSE /\ row' = [asOf |-> asker[a].asOf, updatedAt |-> moment]
            /\ GoesTo(a, "add")
    /\ Unmoved /\ UNCHANGED <<copy, detached, lookupWaits, lookupRuns, lookupLeft>>

(* The task that will store is added, and the request answered.            *)
AddStore(a) ==
    /\ asker[a].step = "add"
    /\ LookupExecutor!Submit([asOf |-> asker[a].asOf, added |-> moment])
    /\ Tells(a, asker[a].asOf, 0)
    /\ Unmoved /\ UNCHANGED <<copy, row, detached, lookupRuns, lookupLeft>>

(* A store that fails, with its effect or without.                         *)
StoreFails(asOf, waited) == Takes("fault") /\ (UNCHANGED copy \/ SetCopy(asOf, waited))

(* The handlers answer a success with what they are given, which is        *)
(* nothing from the one that returns true, nil and an error.               *)
SetAndAnswer(a) ==
    /\ asker[a].step = "set"
    /\ \/ SetCopy(asker[a].asOf, 0) /\ Tells(a, asker[a].asOf, 0) /\ UNCHANGED lookupLeft
       \/ /\ StoreFails(asker[a].asOf, 0)
          /\ IF lookup \in IgnoredStores THEN Tells(a, asker[a].asOf, 0)
             ELSE asker' = [asker EXCEPT ![a] = Empty("store")]
    /\ Unmoved /\ UNCHANGED <<row, detached, lookupWaits, lookupRuns>>

(* A statement of the request or the fetch fails.                          *)
StatementFails(a) ==
    /\ asker[a].step \in {"row", "write", "fetch"}
    /\ Takes("fault")
    /\ Fails(a, IF asker[a].step = "fetch" THEN "source" ELSE "database")
    /\ OnlyAsker

(* A goroutine stores or fails, which is logged.                           *)
DetachedRuns(asOf) ==
    /\ asOf \in detached
    /\ detached' = detached \ {asOf}
    /\ \/ SetCopy(asOf, 0) /\ UNCHANGED lookupLeft
       \/ StoreFails(asOf, 0)
    /\ Unmoved /\ UNCHANGED <<row, asker, lookupWaits, lookupRuns>>

BeginStore ==
    /\ LookupExecutor!Begin(TheKey)
    /\ Unmoved /\ UNCHANGED <<copy, row, asker, detached, lookupLeft>>

StoreSucceeds ==
    LET task == lookupRuns[TheKey] IN
    /\ LookupExecutor!Succeed(TheKey)
    /\ SetCopy(task.asOf, moment - task.added)
    /\ Unmoved /\ UNCHANGED <<row, asker, detached, lookupLeft>>

StoreFailed ==
    LET task == lookupRuns[TheKey] IN
    /\ LookupExecutor!Release(TheKey)
    /\ StoreFails(task.asOf, moment - task.added)
    /\ Unmoved /\ UNCHANGED <<row, asker, detached>>

(* The periodic task fetches, and stores; with an error it is done over.   *)
Publishes ==
    /\ publisher.asOf = NotYet /\ publisher.at <= moment
    /\ publisher' = [at |-> moment, asOf |-> moment]
    /\ UNCHANGED <<lookup, nothing, moment, copy, row, asker, detached, lookupWaits, lookupRuns,
                   lookupLeft>>

PublisherEnds ==
    /\ publisher.asOf # NotYet
    /\ \/ /\ SetCopy(publisher.asOf, 0)
          /\ publisher' = [at |-> moment + Life \div 2, asOf |-> NotYet]
          /\ UNCHANGED lookupLeft
       \/ /\ StoreFails(publisher.asOf, 0)
          /\ publisher' = [at |-> moment, asOf |-> NotYet]
    /\ UNCHANGED <<lookup, nothing, moment, row, asker, detached, lookupWaits, lookupRuns>>

(* The copy expires in its last tick; contributors do not expire.          *)
CopyExpires ==
    /\ copy # NoCopy /\ copy.until = moment /\ lookup # "GetContributorInfo"
    /\ copy' = NoCopy
    /\ UNCHANGED <<lookup, nothing, moment, row, asker, detached, lookupWaits, lookupRuns,
                   publisher, lookupLeft>>

(* Requests, goroutines and the periodic task that began a tick ago have   *)
(* ended, and the periodic task begins when it is due.                     *)
MomentPasses ==
    /\ moment < LastMoment
    /\ \A a \in Asker : asker[a].step \notin Over => asker[a].since = moment
    /\ detached \subseteq {moment}
    /\ publisher.at > moment \/ publisher.asOf = moment
    /\ copy # NoCopy /\ lookup # "GetContributorInfo" => copy.until > moment
    /\ moment' = moment + 1
    /\ UNCHANGED <<lookup, nothing, copy, row, asker, detached, lookupWaits, lookupRuns,
                   publisher, lookupLeft>>

LookupRestart ==
    /\ Takes("restart")
    /\ asker' = [a \in Asker |-> Told(TRUE)]
    /\ detached' = {}
    /\ lookupWaits' = [lookupWaits EXCEPT ![TheKey] = NoStore]
    /\ lookupRuns' = [lookupRuns EXCEPT ![TheKey] = NoStore]
    /\ publisher' = [at |-> IF lookup \in Published THEN moment ELSE NotYet, asOf |-> NotYet]
    /\ UNCHANGED <<lookup, nothing, moment, copy, row>>

LookupsNext ==
    \/ \E a \in Asker :
        \/ Ask(a) \/ IsKeyExist(a) \/ GetCopy(a) \/ GetStudentById(a) \/ FetchSource(a)
        \/ WriteStudent(a) \/ AddStore(a) \/ SetAndAnswer(a) \/ StatementFails(a)
    \/ \E asOf \in detached : DetachedRuns(asOf)
    \/ BeginStore \/ StoreSucceeds \/ StoreFailed
    \/ Publishes \/ PublisherEnds
    \/ CopyExpires \/ MomentPasses \/ LookupRestart

LookupsSpec == LookupsInit /\ [][LookupsNext]_lookupVars

-----------------------------------------------------------------------------
(* Properties                                                              *)

LookupsTypeOK ==
    /\ lookup \in Lookup /\ nothing \in BOOLEAN /\ moment \in Moment
    /\ copy \in {NoCopy} \cup [asOf : Moment, until : Nat, waited : Moment]
    /\ row \in {NoRow} \cup [asOf : Moment, updatedAt : Moment]
    /\ \A a \in Asker :
        \/ asker[a] \in [step : {"told"}, recent : BOOLEAN]
        \/ asker[a].step \in {"failed", "empty"}
        \/ asker[a] \in [step : {"exists", "get", "row", "fetch", "write", "add", "set"},
                         since : Moment, asOf : Moment \cup {NotYet}, update : BOOLEAN]
    /\ detached \subseteq Moment
    /\ {lookupWaits[TheKey], lookupRuns[TheKey]} \subseteq StoreTask \cup {NoStore}
    /\ publisher \in [at : Nat, asOf : Moment \cup {NotYet}]
    /\ lookupLeft \in [LookupKinds -> Nat]

(* What may be answered with an error.                                     *)
Excuses ==
    CASE lookup = "GetLocateDate" -> {"source"}
      [] lookup = "GetJobFair" -> {"source", "redis", "expired"}
      [] lookup = "GetContributorInfo" -> {"no copy", "redis"}
      [] lookup = "GetUserInfo" -> {"source", "redis", "expired", "database", "duplicate"}
      [] OTHER -> {"source", "redis", "expired"}

(* An answer is no older than OldestAnswer, though a row's and a copy's    *)
(* lives add up and requests read, fetch and store past each other; an     *)
(* error has a cause that the lookup does not make up for: a copy that     *)
(* expires between two commands, a row that another first request has      *)
(* created (get_info.go:34-50, get_date.go:38-44, get_job_fair.go:138).    *)
(* A store that fails costs no lookup its answer but GetTerm, which then   *)
(* answers a success without the term it has fetched (term.go:74-76,       *)
(* internal/common/handler.go:127-148).                                    *)
AnswersExplained ==
    \A a \in Asker :
        /\ asker[a].step = "told" /\ lookup # "GetContributorInfo" => asker[a].recent
        /\ asker[a].step = "failed" => asker[a].cause \in Excuses
        /\ asker[a].step = "empty" => lookup = "GetTerm" /\ asker[a].cause = "store"

=============================================================================
