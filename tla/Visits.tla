-------------------------------- MODULE Visits --------------------------------
(***************************************************************************)
(* internal/version and cmd/version: a request for the app's settings      *)
(* counts a visit in a Redis counter of the day, which lives for 24 hours  *)
(* from the first visit; a periodic task moves the count of yesterday to   *)
(* the visit table, at ten past midnight and whenever the process starts.  *)
(*                                                                         *)
(* A day is DayLength ticks; the task is due in tick FlushAt of a day.     *)
(* What happens in one tick happens in any order.  The task runs on the    *)
(* task queue: alone, again after an error, later when it succeeds.        *)
(***************************************************************************)
EXTENDS Naturals

CONSTANTS
    Reader,          \* requests in progress at a time
    DayLength,       \* ticks of a day, and of the life of a counter (VisitExpire)
    FlushAt,         \* VersionVisitRefreshHour, VersionVisitRefreshMinute
    LastDay,         \* bounds the model, which begins on day 1
    VisitBudgets     \* bounds the model: visits, errors, restarts

ASSUME VisitAssumption ==
    /\ {DayLength, FlushAt, LastDay} \subseteq Nat
    /\ FlushAt < DayLength /\ LastDay > 0
    /\ VisitBudgets \subseteq [{"visit", "error", "restart"} -> Nat]

Date == 0 .. LastDay
None == 0          \* no visit is recorded, no counter exists
Never == 0         \* a counter that has no expiry yet

VARIABLES
    now,           \* the clock
    counter,       \* counter[d]: [visits, until] of the Redis key of a date
    recorded,      \* recorded[d]: the row of a date in the visit table
    visitor,       \* visitor[r]: the date and the next command of a request
    sync,          \* the step, the date and the count of the periodic task
    due,           \* when it is to run
    visitLeft,     \* what is left of the budget
    visited,       \* history: visits counted, by date
    flushed,       \* history: dates for which the task has succeeded
    renewed        \* history: dates whose counter began again or was made up

visitVars == <<now, counter, recorded, visitor, sync, due, visitLeft, visited, flushed, renewed>>

Today == now \div DayLength
Away == [step |-> "away"]
Waits == [step |-> "waits"]
NoKey == [visits |-> None, until |-> Never]
Exists(d) == counter[d] # NoKey

VisitsInit ==
    /\ now = DayLength
    /\ counter = [d \in Date |-> NoKey] /\ recorded = [d \in Date |-> None]
    /\ visitor = [r \in Reader |-> Away]
    /\ sync = Waits /\ due = now
    /\ visitLeft \in VisitBudgets
    /\ visited = [d \in Date |-> 0]
    /\ flushed = {} /\ renewed = {}

Charge(kind) ==
    /\ visitLeft[kind] > 0
    /\ visitLeft' = [visitLeft EXCEPT ![kind] = @ - 1]

(* GetCloudSetting takes today's date first.                               *)
GetCloudSetting(r) ==
    /\ visitor[r] = Away
    /\ Charge("visit")
    /\ visitor' = [visitor EXCEPT ![r] = [step |-> "incr", date |-> Today, since |-> now]]
    /\ UNCHANGED <<now, counter, recorded, sync, due, visited, flushed, renewed>>

IsFirst(visits) == visits = 1

(* AddVisit: INCR, and EXPIRE in a command of its own after the first one. *)
Incr(r) ==
    LET d == visitor[r].date IN
    /\ visitor[r].step = "incr"
    /\ counter' = [counter EXCEPT ![d].visits = @ + 1]
    /\ visited' = [visited EXCEPT ![d] = @ + 1]
    /\ visitor' = [visitor EXCEPT ![r] =
                      IF IsFirst(counter'[d].visits) THEN [@ EXCEPT !.step = "expire"] ELSE Away]
    /\ renewed' = IF ~Exists(d) /\ visited[d] > 0 THEN renewed \cup {d} ELSE renewed
    /\ UNCHANGED <<now, recorded, sync, due, visitLeft, flushed>>

SetExpiry(r) ==
    LET d == visitor[r].date IN
    /\ visitor[r].step = "expire"
    /\ counter' = IF Exists(d) THEN [counter EXCEPT ![d].until = now + DayLength] ELSE counter
    /\ visitor' = [visitor EXCEPT ![r] = Away]
    /\ UNCHANGED <<now, recorded, sync, due, visitLeft, visited, flushed, renewed>>

(* A command fails and the request with it.                                *)
VisitFails(r) ==
    /\ visitor[r] # Away
    /\ Charge("error")
    /\ visitor' = [visitor EXCEPT ![r] = Away]
    /\ UNCHANGED <<now, counter, recorded, sync, due, visited, flushed, renewed>>

(* syncVersionVisitDailyTask, for the date of yesterday: without a counter *)
(* one is made up and the task is done.                                    *)
SyncBegins ==
    LET d == Today - 1 IN
    /\ sync = Waits /\ due <= now
    /\ sync' = [step |-> IF Exists(d) THEN "get" ELSE "create key", date |-> d, visits |-> None]
    /\ UNCHANGED <<now, counter, recorded, visitor, due, visitLeft, visited, flushed, renewed>>

(* The task has succeeded: GetScheduleTime is the next FlushAt.            *)
NextRun == IF now % DayLength < FlushAt THEN Today * DayLength + FlushAt
           ELSE (Today + 1) * DayLength + FlushAt

Done(d) == sync' = Waits /\ due' = NextRun /\ flushed' = flushed \cup {d}

(* CreateVisitKey: SET NX, with its expiry; a key that exists is an error. *)
CreateVisitKey ==
    LET d == sync.date IN
    /\ sync.step = "create key"
    /\ IF Exists(d)
       THEN sync' = Waits /\ UNCHANGED <<counter, renewed, due, flushed>>
       ELSE /\ counter' = [counter EXCEPT ![d] = [visits |-> 1, until |-> now + DayLength]]
            /\ renewed' = renewed \cup {d}
            /\ Done(d)
    /\ UNCHANGED <<now, recorded, visitor, visitLeft, visited>>

(* GetVisit; a counter that has gone since the lookup is an error.         *)
GetVisit ==
    /\ sync.step = "get"
    /\ sync' = IF Exists(sync.date)
               THEN [sync EXCEPT !.step = "record", !.visits = counter[sync.date].visits]
               ELSE Waits
    /\ UNCHANGED <<now, counter, recorded, visitor, due, visitLeft, visited, flushed, renewed>>

(* Mutant of Record: the count is added to what is recorded.               *)
Record_Adds ==
    /\ sync.step = "record"
    /\ recorded' = [recorded EXCEPT ![sync.date] = @ + sync.visits]
    /\ Done(sync.date)
    /\ UNCHANGED <<now, counter, visitor, visitLeft, visited, renewed>>

(* GetVersion, then CreateVersion or UpdateVersion: nobody else writes the *)
(* table, so the lookup and the write are one step.                        *)
Record ==
    /\ sync.step = "record"
    /\ recorded' = [recorded EXCEPT ![sync.date] = sync.visits]
    /\ Done(sync.date)
    /\ UNCHANGED <<now, counter, visitor, visitLeft, visited, renewed>>

SyncFails ==
    /\ sync # Waits
    /\ Charge("error")
    /\ sync' = Waits
    /\ UNCHANGED <<now, counter, recorded, visitor, due, visited, flushed, renewed>>

(* The process ends; the next one adds the task anew, which runs at once.  *)
Restart ==
    /\ Charge("restart")
    /\ visitor' = [r \in Reader |-> Away]
    /\ sync' = Waits /\ due' = now
    /\ UNCHANGED <<now, counter, recorded, visited, flushed, renewed>>

VisitKeyExpires(d) ==
    /\ Exists(d) /\ counter[d].until = now
    /\ counter' = [counter EXCEPT ![d] = NoKey]
    /\ UNCHANGED <<now, recorded, visitor, sync, due, visitLeft, visited, flushed, renewed>>

(* Time goes on when what is due in this tick has happened; a request ends *)
(* by the tick after the one it came in (the timeout of an RPC).           *)
Tick ==
    /\ due > now /\ sync = Waits
    /\ \A d \in Date : Exists(d) => counter[d].until # now
    /\ \A r \in Reader : visitor[r] # Away => visitor[r].since = now
    /\ now + 1 < (LastDay + 1) * DayLength
    /\ now' = now + 1
    /\ UNCHANGED <<counter, recorded, visitor, sync, due, visitLeft, visited, flushed, renewed>>

VisitsNext ==
    \/ \E r \in Reader : GetCloudSetting(r) \/ Incr(r) \/ SetExpiry(r) \/ VisitFails(r)
    \/ SyncBegins \/ CreateVisitKey \/ GetVisit \/ Record \/ SyncFails
    \/ \E d \in Date : VisitKeyExpires(d)
    \/ Restart \/ Tick

VisitsSpec == VisitsInit /\ [][VisitsNext]_visitVars

-----------------------------------------------------------------------------
(* Properties                                                              *)

VisitTypeOK ==
    /\ now \in 0 .. (LastDay + 1) * DayLength
    /\ counter \in [Date -> [visits : Nat, until : Nat]]
    /\ recorded \in [Date -> Nat] /\ visited \in [Date -> Nat]
    /\ \A r \in Reader : visitor[r] # Away =>
        visitor[r] \in [step : {"incr", "expire"}, date : Date, since : Nat]
    /\ sync # Waits => sync \in [step : {"create key", "get", "record"}, date : Date, visits : Nat]
    /\ due \in Nat
    /\ flushed \cup renewed \subseteq Date

(* What the table says of a date is a number of visits it has had, and     *)
(* falls only when the counter has expired and begun again, by a late      *)
(* visit or because the task itself has made one up                        *)
(* (cmd/version/main.go:105-137).                                          *)
RecordFallsOnlyRenewed ==
    [][\A d \in Date : /\ recorded'[d] < recorded[d] => d \in renewed
                       /\ recorded'[d] # recorded[d] /\ d \notin renewed => recorded'[d] <= visited[d]]_visitVars

(* constants.go:33 calls ten past midnight the time at which the visit     *)
(* statistics are flushed: when the task has succeeded for a date that had *)
(* visits, the table has them.                                             *)
FlushRecords ==
    \A d \in flushed : visited[d] > 0 => recorded[d] # None

=============================================================================
