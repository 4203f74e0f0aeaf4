-------------------------------- MODULE Monitor --------------------------------
(***************************************************************************)
(* api/mw/monitor: the gateway notes of every answer whether it was an     *)
(* error; a periodic check counts those of the last minutes for each route *)
(* and logs an anomaly when too many are errors, again after a cooldown,   *)
(* and a recovery when they are few enough.                                *)
(*                                                                         *)
(* One route: routes share only the lock.  Time is in ticks, so that what  *)
(* counts is how many ticks ago something was; codes that are ignored are  *)
(* left out, as nothing is done for them.                                  *)
(***************************************************************************)
EXTENDS Naturals, Functions

CONSTANTS
    Window, Cooldown,    \* in ticks
    MinRequests,
    Threshold,           \* least share of errors, as the pair <<errors, requests>>
    MaxNoted             \* bounds the model: answers of one kind noted in a tick

ASSUME MonitorAssumption ==
    /\ {Window, Cooldown, MinRequests, MaxNoted} \subseteq Nat
    /\ Threshold \in Nat \X (Nat \ {0})

VARIABLES
    noted,         \* noted[age]: the answers of a tick, good ones and errors
    firing,        \* the alert of the route exists
    alertAge,      \* ticks since the last alert, at most Cooldown
    checked        \* the check of this tick has been made

monitorVars == <<noted, firing, alertAge, checked>>

Ages == 0 .. Window
NoAnswers == [good |-> 0, errors |-> 0]

MonitorInit ==
    /\ noted = [a \in Ages |-> NoAnswers]
    /\ firing = FALSE /\ alertAge = Cooldown
    /\ checked = FALSE

RecordAnswer(kind) ==
    /\ noted[0][kind] < MaxNoted
    /\ noted' = [noted EXCEPT ![0][kind] = @ + 1]
    /\ UNCHANGED <<firing, alertAge, checked>>

(* aggregateRouteStats over what compactWindow keeps: events that are not  *)
(* older than the window.                                                  *)
CountOf(kind) ==
    FoldFunction(+, 0, [a \in Ages |-> noted[a][kind]])

Requests == CountOf("good") + CountOf("errors")
TooManyErrors == CountOf("errors") * Threshold[2] >= Threshold[1] * Requests

LogAlert ==
    /\ firing' = TRUE /\ alertAge' = 0

(* The alert is deleted, and with it the time of the last one.             *)
LogRecovered ==
    /\ firing' = FALSE /\ alertAge' = Cooldown

(* checkRoute is for routes with requests in the window.                   *)
EnoughRequests == Requests > 0 /\ Requests >= MinRequests

Alerts == EnoughRequests /\ TooManyErrors /\ (~firing \/ alertAge >= Cooldown)

(* Mutant of Recovers: only routes with requests are gone through.         *)
Recovers_SeenOnly == firing /\ EnoughRequests /\ ~TooManyErrors

(* checkRoute, or the second loop of check for a route without requests.   *)
Recovers == firing /\ (Requests = 0 \/ (EnoughRequests /\ ~TooManyErrors))

CheckRoute ==
    IF Alerts THEN LogAlert
    ELSE IF Recovers THEN LogRecovered
    ELSE UNCHANGED <<firing, alertAge>>

Check ==
    /\ ~checked /\ checked' = TRUE
    /\ CheckRoute
    /\ UNCHANGED noted

OlderBy1(age) == IF age < Cooldown THEN age + 1 ELSE Cooldown

MonitorTick ==
    /\ noted' = [a \in Ages |-> IF a = 0 THEN NoAnswers ELSE noted[a - 1]]
    /\ checked' = FALSE
    /\ alertAge' = OlderBy1(alertAge)
    /\ UNCHANGED firing

MonitorNext ==
    \/ \E kind \in {"good", "errors"} : RecordAnswer(kind)
    \/ Check \/ MonitorTick

(* The goroutine of the ticker is scheduled; time goes on.                 *)
MonitorFairness == WF_monitorVars(Check) /\ WF_monitorVars(MonitorTick)

MonitorSpec == MonitorInit /\ [][MonitorNext]_monitorVars /\ MonitorFairness

-----------------------------------------------------------------------------
(* Properties                                                              *)

MonitorTypeOK ==
    /\ noted \in [Ages -> [{"good", "errors"} -> 0 .. MaxNoted]]
    /\ firing \in BOOLEAN /\ checked \in BOOLEAN
    /\ alertAge \in 0 .. Cooldown

Sound == Requests = 0 \/ (Requests >= MinRequests /\ ~TooManyErrors)

(* When from some time on every window has either no request at all or     *)
(* enough of them with few errors, the alert ends for good.  A window with *)
(* some requests but fewer than MinRequests keeps it, whatever they were   *)
(* (state.go:112-146).                                                     *)
AlertRecovers ==
    <>[]Sound => <>[]~firing

=============================================================================
