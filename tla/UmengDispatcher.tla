--------------------------- MODULE UmengDispatcher ---------------------------
(***************************************************************************)
(* pkg/umeng/dispatcher.go: the one goroutine of a process that sends push *)
(* notifications.  Producers put send functions into a bounded channel     *)
(* without blocking; the dispatcher takes them out one by one and, before  *)
(* it calls one, waits for the daily quota and for the minimal interval.   *)
(*                                                                         *)
(* Time is counted in ticks.  The code's two time stamps are kept relative *)
(* to the clock: lastResetDate as whether it is today's date, and          *)
(* lastRequestTime as the ticks since then, which the code only ever       *)
(* compares with the interval, so the count stops there.                   *)
(***************************************************************************)
EXTENDS Naturals, Sequences, Functions

CONSTANTS
    Task,          \* send functions, each handed to EnqueueAsync once
    None,          \* no task in hand
    QueueSize,     \* UmengAsyncQueueSize
    DailyLimit,    \* UmengDailyLimit
    Interval,      \* UmengRateLimitDelay in ticks
    DayLength      \* ticks of a day

ASSUME DispatcherAssumption ==
    /\ None \notin Task
    /\ QueueSize \in Nat \ {0}
    /\ DailyLimit \in Nat \ {0}
    /\ Interval \in Nat
    /\ DayLength \in Nat \ {0}

VARIABLES
    timeOfDay,     \* ticks since midnight
    ch,            \* the channel
    dailyCount,    \* sends counted against the quota
    resetToday,    \* lastResetDate is today's date
    sinceRequest,  \* ticks since lastRequestTime, at most Interval
    pc,            \* the dispatcher's next statement
    current,       \* the task it has taken
    offered,       \* history: tasks handed to EnqueueAsync
    accepted,      \* history: those it returned true for, in this order
    sent,          \* history: tasks that passed wait(), in this order
    sentToday,     \* history: how many of them since midnight
    sinceSend      \* history: ticks since the last of them, at most Interval

clocks == <<timeOfDay, sentToday, sinceSend>>
vars == <<clocks, ch, dailyCount, resetToday, sinceRequest, pc, current,
          offered, accepted, sent>>

(* newAsyncDispatcher: the first task need not wait. *)
Init ==
    /\ timeOfDay \in 0..DayLength - 1
    /\ ch = <<>>
    /\ dailyCount = 0
    /\ resetToday = TRUE
    /\ sinceRequest = Interval
    /\ pc = "idle"
    /\ current = None
    /\ offered = {}
    /\ accepted = <<>>
    /\ sent = <<>>
    /\ sentToday = 0
    /\ sinceSend = Interval

-----------------------------------------------------------------------------
(* Mutant of EnqueueAsync: a dropped task is reported as accepted. *)
EnqueueAsync_AlwaysTrue(t) ==
    /\ t \notin offered
    /\ offered' = offered \cup {t}
    /\ ch' = IF Len(ch) < QueueSize THEN Append(ch, t) ELSE ch
    /\ accepted' = Append(accepted, t)
    /\ UNCHANGED <<clocks, dailyCount, resetToday, sinceRequest, pc, current, sent>>

(* EnqueueAsync: a select that drops the task when the channel is full. *)
EnqueueAsync(t) ==
    /\ t \notin offered
    /\ offered' = offered \cup {t}
    /\ \/ /\ Len(ch) < QueueSize
          /\ ch' = Append(ch, t)
          /\ accepted' = Append(accepted, t)
       \/ /\ Len(ch) = QueueSize
          /\ UNCHANGED <<ch, accepted>>
    /\ UNCHANGED <<clocks, dailyCount, resetToday, sinceRequest, pc, current, sent>>

(* run: for task := range d.ch *)
Take ==
    /\ pc = "idle"
    /\ ch # <<>>
    /\ current' = Head(ch)
    /\ ch' = Tail(ch)
    /\ pc' = "wait"
    /\ UNCHANGED <<clocks, dailyCount, resetToday, sinceRequest, offered, accepted, sent>>

(* Mutant of CheckQuota: the quota is compared with > instead of >=. *)
CheckQuota_OffByOne ==
    LET count == IF resetToday THEN dailyCount ELSE 0 IN
    /\ pc = "wait"
    /\ dailyCount' = count
    /\ resetToday' = TRUE
    /\ pc' = IF count > DailyLimit THEN "quota" ELSE "gap"
    /\ UNCHANGED <<clocks, ch, sinceRequest, current, offered, accepted, sent>>

(* wait: a new day resets the count; a spent quota waits for midnight. *)
CheckQuota ==
    LET count == IF resetToday THEN dailyCount ELSE 0 IN
    /\ pc = "wait"
    /\ dailyCount' = count
    /\ resetToday' = TRUE
    /\ pc' = IF count >= DailyLimit THEN "quota" ELSE "gap"
    /\ UNCHANGED <<clocks, ch, sinceRequest, current, offered, accepted, sent>>

(* wait: the sleep until the next midnight is over.  The count restarts,   *)
(* and lastRequestTime is moved back so that the interval is over as well. *)
WakeAtMidnight ==
    /\ pc = "quota"
    /\ ~resetToday
    /\ dailyCount' = 0
    /\ resetToday' = TRUE
    /\ sinceRequest' = Interval
    /\ pc' = "gap"
    /\ UNCHANGED <<clocks, ch, current, offered, accepted, sent>>

(* Mutant of Dispatch: the interval is not waited for. *)
Dispatch_NoInterval ==
    /\ pc = "gap"
    /\ sinceRequest' = 0
    /\ dailyCount' = dailyCount + 1
    /\ pc' = "task"
    /\ sent' = Append(sent, current)
    /\ sentToday' = sentToday + 1
    /\ sinceSend' = 0
    /\ UNCHANGED <<timeOfDay, ch, resetToday, current, offered, accepted>>

(* wait: the rest of the interval is slept off, the send is counted and    *)
(* the task is called.                                                     *)
Dispatch ==
    /\ pc = "gap"
    /\ sinceRequest = Interval
    /\ sinceRequest' = 0
    /\ dailyCount' = dailyCount + 1
    /\ pc' = "task"
    /\ sent' = Append(sent, current)
    /\ sentToday' = sentToday + 1
    /\ sinceSend' = 0
    /\ UNCHANGED <<timeOfDay, ch, resetToday, current, offered, accepted>>

(* Mutant of TaskReturns: an error ends the loop instead of being logged. *)
TaskReturns_StopsOnError ==
    /\ pc = "task"
    /\ pc' \in {"idle", "stopped"}
    /\ current' = None
    /\ UNCHANGED <<clocks, ch, dailyCount, resetToday, sinceRequest, offered,
                   accepted, sent>>

(* The task has returned; an error is only logged. *)
TaskReturns ==
    /\ pc = "task"
    /\ pc' = "idle"
    /\ current' = None
    /\ UNCHANGED <<clocks, ch, dailyCount, resetToday, sinceRequest, offered,
                   accepted, sent>>

Tick ==
    LET later(n) == IF n < Interval THEN n + 1 ELSE n
        midnight == timeOfDay + 1 = DayLength
    IN
    /\ timeOfDay' = IF midnight THEN 0 ELSE timeOfDay + 1
    /\ sinceRequest' = later(sinceRequest)
    /\ sinceSend' = later(sinceSend)
    /\ resetToday' = (resetToday /\ ~midnight)
    /\ sentToday' = IF midnight THEN 0 ELSE sentToday
    /\ UNCHANGED <<ch, dailyCount, pc, current, offered, accepted, sent>>

Run == Take \/ CheckQuota \/ WakeAtMidnight \/ Dispatch \/ TaskReturns

Next == (\E t \in Task : EnqueueAsync(t)) \/ Run \/ Tick

Spec == Init /\ [][Next]_vars

(* The dispatcher goroutine is scheduled, time passes and tasks return.    *)
FairSpec == Spec /\ WF_vars(Run) /\ WF_vars(Tick)

-----------------------------------------------------------------------------
(* Correctness *)

(* Every variable keeps its type; the channel keeps its bound. *)
TypeOK ==
    /\ timeOfDay \in 0..DayLength - 1
    /\ ch \in Seq(Task) /\ Len(ch) <= QueueSize
    /\ dailyCount \in Nat
    /\ resetToday \in BOOLEAN
    /\ sinceRequest \in 0..Interval
    /\ pc \in {"idle", "wait", "quota", "gap", "task"}
    /\ current \in IF pc = "idle" THEN {None} ELSE Task
    /\ offered \subseteq Task
    /\ accepted \in Seq(Task)
    /\ sent \in Seq(Task)
    /\ sentToday \in Nat
    /\ sinceSend \in 0..Interval

(* What EnqueueAsync accepted is sent in the order of acceptance, nothing  *)
(* of it is lost and nothing is sent twice.                                *)
InHand == IF pc \in {"wait", "quota", "gap"} THEN <<current>> ELSE <<>>

AcceptedInOrder == accepted = (sent \o InHand) \o ch

(* As a delivery of tasks: one is taken on by entering the channel and     *)
(* delivered by its send; one that finds the channel full is never sent.   *)
PushQueue == INSTANCE Delivery WITH
    Item <- Task,
    recorded <- offered,
    held <- Range(InHand) \cup Range(ch),
    delivered <- Range(sent),
    lost <- offered \ Range(accepted)

(* A day sees one send more than the quota at most: the one whose wait()   *)
(* began before midnight and is counted for the day it began on.           *)
QuotaAndOne == sentToday <= DailyLimit + 1

(* Two sends are an interval apart, unless the later one is the first that *)
(* is counted after a reset of the quota.                                  *)
SpacedWithinQuota ==
    [][sent' # sent /\ dailyCount > 0 => sinceSend = Interval]_vars

(* Every accepted task is sent, however often the quota is spent.          *)
EventuallySent ==
    \A t \in Task :
        (\E i \in 1..Len(accepted) : accepted[i] = t)
            ~> (\E i \in 1..Len(sent) : sent[i] = t)

=============================================================================
