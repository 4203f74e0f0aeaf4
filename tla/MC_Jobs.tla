------------------------------- MODULE MC_Jobs -------------------------------
(***************************************************************************)
(* What runs by the clock rather than by request - the loading and the     *)
(* synchronisation of notices, the flush of visits, the spreading of       *)
(* scores, the lists of empty rooms, the check of the gateway's monitor -  *)
(* and the generator of ids, on small instances.  They share no state, so  *)
(* a behaviour is one of one of them, the others stand still.              *)
(***************************************************************************)
EXTENDS NoticeSync, Visits, TeacherScores, EmptyRooms, Monitor, Snowflake, TLC

VARIABLE job

jobsVars == <<noticeVars, visitVars, scoresVars, roomVars, monitorVars, snowflakeVars, job>>

(* Scenarios: how many of each kind of event.                              *)
NoticeScenario(old, publish, fault, full, restart) ==
    [old |-> old, publish |-> publish, fault |-> fault, full |-> full, restart |-> restart]

MCNoticeBudgets ==
    {NoticeScenario(3, 1, 2, 0, 0), NoticeScenario(2, 2, 1, 1, 0), NoticeScenario(1, 2, 1, 0, 1)}

MCVisitBudgets ==
    {[visit |-> 3, error |-> 1, restart |-> 0],
     [visit |-> 3, error |-> 0, restart |-> 2],
     [visit |-> 2, error |-> 1, restart |-> 1]}

MCMarks == <<"k1" :> 1, "k1" :> 2, "k2" :> 2>>

MCScoreBudgets == {[change |-> 3, manual |-> 1, fault |-> 1]}

MCRoomBudgets == {[fault |-> 1, restart |-> 0], [fault |-> 0, restart |-> 1]}

MCThreshold == <<1, 2>>

Idles(left, budgets) == left = CHOOSE b \in budgets : TRUE

JobsInit ==
    /\ NoticeInit /\ VisitsInit /\ TeacherScoresInit /\ EmptyRoomsInit
    /\ MonitorInit /\ SnowflakeInit
    /\ job \in {"notices", "visits", "scores", "rooms", "monitor", "ids"}
    /\ job # "notices" => Idles(noticeLeft, NoticeBudgets)
    /\ job # "visits" => Idles(visitLeft, VisitBudgets)
    /\ job # "rooms" => Idles(roomsLeft, RoomBudgets) /\ roomClock = 0
    /\ job # "ids" => clock = 0

NoticesRun(step) ==
    /\ job = "notices" /\ step
    /\ UNCHANGED <<visitVars, scoresVars, roomVars, monitorVars, snowflakeVars, job>>
VisitsRun(step) ==
    /\ job = "visits" /\ step
    /\ UNCHANGED <<noticeVars, scoresVars, roomVars, monitorVars, snowflakeVars, job>>
ScoresRun(step) ==
    /\ job = "scores" /\ step
    /\ UNCHANGED <<noticeVars, visitVars, roomVars, monitorVars, snowflakeVars, job>>
RoomsRun(step) ==
    /\ job = "rooms" /\ step
    /\ UNCHANGED <<noticeVars, visitVars, scoresVars, monitorVars, snowflakeVars, job>>
MonitorRuns(step) ==
    /\ job = "monitor" /\ step
    /\ UNCHANGED <<noticeVars, visitVars, scoresVars, roomVars, snowflakeVars, job>>
IdsRun(step) ==
    /\ job = "ids" /\ step
    /\ UNCHANGED <<noticeVars, visitVars, scoresVars, roomVars, monitorVars, job>>

JobsNext ==
    \/ NoticesRun(NoticeNext)
    \/ VisitsRun(VisitsNext)
    \/ ScoresRun(TeacherScoresNext)
    \/ RoomsRun(EmptyRoomsNext)
    \/ MonitorRuns(MonitorNext)
    \/ IdsRun(SnowflakeNext)

(* The fairness of each service, while it is the one that runs.            *)
JobsFairness ==
    /\ WF_jobsVars(NoticesRun(LoaderStep))
    /\ WF_jobsVars(NoticesRun(SyncStep))
    /\ WF_jobsVars(ScoresRun(RunStep("scheduled")))
    /\ WF_jobsVars(MonitorRuns(Check))
    /\ WF_jobsVars(MonitorRuns(MonitorTick))

JobsSpec == JobsInit /\ [][JobsNext]_jobsVars /\ JobsFairness

(* However the loader of notices ends, the periodic task is added in the   *)
(* end, and what stays on the first page is stored in the end              *)
(* (main.go:71-76, 150-161).                                               *)
PagesStored == job = "notices" => FirstPageStored

(* The table of records by teacher gets to everybody's marks again and     *)
(* again, whatever runs overlap and fail (update_course_teacher_scores.go).*)
RecordsCatchUp == job = "scores" => ScoresReachRecords

=============================================================================
