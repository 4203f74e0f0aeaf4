----------------------------- MODULE EmptyRooms -----------------------------
(***************************************************************************)
(* cmd/classroom: two periodic tasks ask the registry for the empty rooms  *)
(* of each campus and keep the lists in Redis, one of today every six      *)
(* hours, one of the days ahead once a day; internal/classroom answers     *)
(* from these lists only.  A list lives for two days.                      *)
(*                                                                         *)
(* A tick is some part of the time between two runs for today.  A run      *)
(* lasts minutes: it ends in the tick in which it begins or in the next    *)
(* one.  The goroutine of a date is one step: the dates of a run are       *)
(* different keys.  At most one command of it fails.  The pairs of hours   *)
(* of a campus are one query.  A process that ends starts at once.         *)
(***************************************************************************)
EXTENDS Naturals, Sequences, SequencesExt

CONSTANTS
    TicksOfDay,      \* ClassroomScheduledTime, in ticks
    TicksOfUpdate,   \* ClassroomUpdatedTime, in ticks
    DaysAhead,       \* the days that "schedule" looks ahead
    LastTick,        \* bounds the model
    RoomBudgets      \* bounds the model: faults, restarts

ASSUME RoomAssumption ==
    /\ {TicksOfDay, TicksOfUpdate, DaysAhead, LastTick} \subseteq Nat \ {0}
    /\ TicksOfDay <= LastTick
    /\ RoomBudgets \subseteq [{"fault", "restart"} -> Nat]
    /\ \A left \in RoomBudgets :     \* each restart may undo a run that has not ended
          TicksOfUpdate + 2 + left["restart"] < TicksOfDay

Job == {"update", "schedule"}
Every == [update |-> TicksOfUpdate, schedule |-> TicksOfDay]

(* ClassroomKeyExpire, and a mutant of it.                                 *)
RoomsLife_Day == TicksOfDay
RoomsLife == 2 * TicksOfDay

(* The keys of a date in the order they are stored, and the keys stored    *)
(* with the answer to a query: the rooms of the Xiamen campus are those of *)
(* its two sites.                                                          *)
RoomKeys == <<"qishan", "gulangyu", "jimei">>
Queries == {{"qishan"}, {"gulangyu", "jimei"}}
ListKey == UNION Queries

RoomDate == 0 .. (LastTick \div TicksOfDay) + DaysAhead
NoRooms == LastTick + 1

VARIABLES
    roomClock,    \* the clock
    rooms,        \* rooms[d][k]: the tick in which the list in Redis was asked for
    run,          \* run[j]: when the task is due or has begun, the dates to do,
                  \* whether one has failed
    roomsLeft,    \* what is left of the budget
    missed        \* history: missed[d]: keys not stored by the run that last came to them

roomVars == <<roomClock, rooms, run, roomsLeft, missed>>

ThisDay == roomClock \div TicksOfDay
Due(at) == [at |-> at, dates |-> {}, failed |-> FALSE]

EmptyRoomsInit ==
    /\ roomClock \in 0 .. TicksOfDay - 1
    /\ rooms = [d \in RoomDate |-> [k \in ListKey |-> NoRooms]]
    /\ run = [j \in Job |-> Due(roomClock)]
    /\ roomsLeft \in RoomBudgets
    /\ missed = [d \in RoomDate |-> ListKey]

Pays(kind) == roomsLeft[kind] > 0 /\ roomsLeft' = [roomsLeft EXCEPT ![kind] = @ - 1]

(* The dates of a run are those of the moment it begins.                   *)
Dates(j) == IF j = "update" THEN {ThisDay} ELSE ThisDay + 1 .. ThisDay + DaysAhead

BeginRun(j) ==
    /\ run[j].dates = {} /\ run[j].at <= roomClock
    /\ run' = [run EXCEPT ![j] = [Due(roomClock) EXCEPT !.dates = Dates(j)]]
    /\ UNCHANGED <<roomClock, rooms, roomsLeft, missed>>

(* A date is through, its lists of some keys stored for two days.  The run *)
(* ends with its last date; one with an error is done over by the task     *)
(* queue, with the dates of then.                                          *)
Through(j, d, keys, failed) ==
    LET left == run[j].dates \ {d}
        error == run[j].failed \/ failed
    IN
    /\ d \in run[j].dates
    /\ rooms' = [rooms EXCEPT ![d] = [k \in ListKey |-> IF k \in keys THEN roomClock ELSE @[k]]]
    /\ missed' = [missed EXCEPT ![d] = ListKey \ keys]
    /\ run' = [run EXCEPT ![j] =
          IF left # {} THEN [@ EXCEPT !.dates = left, !.failed = error]
          ELSE Due(IF error THEN roomClock ELSE roomClock + Every[j])]
    /\ UNCHANGED roomClock

UpdateEmptyRooms(j, d) == Through(j, d, ListKey, FALSE) /\ UNCHANGED roomsLeft

LoginFails(j, d) == Pays("fault") /\ Through(j, d, {}, TRUE)

(* A query that fails is logged, and the date goes on.                     *)
QueryFails(j, d) == Pays("fault") /\ \E q \in Queries : Through(j, d, ListKey \ q, FALSE)

(* Redis fails, at the second of two keys perhaps: the date is given up.   *)
StoreFails(j, d) ==
    /\ Pays("fault")
    /\ \E n \in DOMAIN RoomKeys : Through(j, d, ToSet(SubSeq(RoomKeys, 1, n - 1)), TRUE)

(* The process ends and starts; both tasks are added again.                *)
RoomsRestart ==
    /\ Pays("restart")
    /\ run' = [j \in Job |-> Due(roomClock)]
    /\ UNCHANGED <<roomClock, rooms, missed>>

(* A task that is due begins in this tick, since there is a worker for     *)
(* each, and a run that began in the last one ends.  A list is gone from   *)
(* the beginning of the tick in which it expires.                          *)
RoomTick ==
    /\ roomClock < LastTick
    /\ \A j \in Job : run[j].at > roomClock \/ (run[j].dates # {} /\ run[j].at = roomClock)
    /\ roomClock' = roomClock + 1
    /\ rooms' = [d \in RoomDate |-> [k \in ListKey |->
          IF rooms[d][k] + RoomsLife > roomClock' THEN rooms[d][k] ELSE NoRooms]]
    /\ UNCHANGED <<run, roomsLeft, missed>>

EmptyRoomsNext ==
    \/ \E j \in Job :
        \/ BeginRun(j)
        \/ \E d \in RoomDate : \/ UpdateEmptyRooms(j, d) \/ LoginFails(j, d)
                               \/ QueryFails(j, d) \/ StoreFails(j, d)
    \/ RoomsRestart
    \/ RoomTick

EmptyRoomsSpec == EmptyRoomsInit /\ [][EmptyRoomsNext]_roomVars

-----------------------------------------------------------------------------
(* Properties                                                              *)

EmptyRoomsTypeOK ==
    /\ roomClock \in 0 .. LastTick
    /\ rooms \in [RoomDate -> [ListKey -> 0 .. NoRooms]]
    /\ run \in [Job -> [at : Nat, dates : SUBSET RoomDate, failed : BOOLEAN]]
    /\ missed \in [RoomDate -> SUBSET ListKey]

(* GetEmptyRoom answers the list in Redis, or an error when there is none. *)
Answered(d, k) == rooms[d][k] # NoRooms

(* A list that the last run that came to it has stored is there until its  *)
(* day is over, through restarts, runs that are done over and midnight: a  *)
(* list's life covers the time from a run to the end of the next one, and  *)
(* whoever takes over a date at midnight comes in time                     *)
(* (redis.go:32, main.go:107-124).                                         *)
RoomsKept == \A d \in RoomDate : d >= ThisDay => \A k \in ListKey \ missed[d] : Answered(d, k)

=============================================================================
