----------------------------- MODULE MC_Services -----------------------------
(***************************************************************************)
(* Five services whose requests meet in a table, a copy in Redis or an     *)
(* object store, the handlers that answer from a copy, the calls of every  *)
(* endpoint, the fields they carry and the edits of records, on small      *)
(* instances.  They share no state, so a behaviour is one of one of them,  *)
(* the others stand still.                                                 *)
(***************************************************************************)
EXTENDS LaunchScreen, CourseCopies, CustomCourses, Toolbox, Feedback, Lookups, Calls, Edits, TLC

VARIABLE service

servicesVars == <<launchVars, courseVars, customVars, toolboxVars, feedbackVars, lookupVars,
                  callVars, fieldVars, editVars, service>>

(* Scenarios: how many of each kind of event.  What is not named does not  *)
(* happen.                                                                 *)
Scenario(kinds, counts) == counts @@ [k \in kinds |-> 0]

MCLaunchBudgets ==
    {Scenario(LaunchKinds, s) : s \in {
        [create |-> 1, path |-> 2, click |-> 1, fault |-> 1],
        [create |-> 1, path |-> 1, property |-> 1, delete |-> 1, fault |-> 1],
        [create |-> 1, path |-> 1, delete |-> 1, click |-> 1, view |-> 1],
        [create |-> 2, view |-> 3, expire |-> 1],
        [create |-> 1, delete |-> 1, view |-> 3, air |-> 1],
        [create |-> 2, view |-> 2, fault |-> 1]}}

MCAudiences == {Viewer}

MCCourseBudgets ==
    {Scenario(CourseKinds, s) : s \in {
        [change |-> 1, own |-> 3, fault |-> 1],
        [change |-> 1, own |-> 2, calendar |-> 1, expire |-> 1],
        [change |-> 1, own |-> 2, expire |-> 1, crash |-> 1]}}

MCCustomBudgets ==
    {Scenario(CustomKinds, s) : s \in {
        [view |-> 1, create |-> 2, update |-> 1, expire |-> 1],
        [view |-> 1, create |-> 1, update |-> 1, delete |-> 1, fault |-> 1],
        [view |-> 1, create |-> 1, delete |-> 1, crash |-> 1]}}

MCLookupBudgets ==
    {Scenario(LookupKinds, s) : s \in {
        [ask |-> 3], [ask |-> 2, fault |-> 1], [ask |-> 2, restart |-> 1]}}

Rests(left, budgets) == left = CHOOSE b \in budgets : TRUE

SomeParcel == CHOOSE p \in Answered : p.was = "given"
SomeRow    == CHOOSE r \in ToolRows : TRUE

ServicesInit ==
    /\ service \in {"launch", "course", "custom", "toolbox", "feedback", "lookups", "calls",
                   "fields", "edits"}
    /\ LaunchInit /\ (service # "launch" => Rests(launchLeft, LaunchBudgets))
    /\ CourseInit /\ (service # "course" => Rests(courseLeft, CourseBudgets))
    /\ CustomInit
    /\ service # "custom" => Rests(customLeft, CustomBudgets) /\ customCopy = Absent
    /\ ToolboxInit
    /\ FeedbackInit
    /\ LookupsInit
    /\ service # "lookups" =>
          lookup = "GetTerm" /\ ~nothing /\ Rests(lookupLeft, LookupBudgets)
    /\ CallsInit
    /\ service # "calls" =>
          method.name = "GetPlan" /\ session = [d \in Device |-> CHOOSE s \in Session : TRUE]
    /\ IF service = "fields" THEN parcel \in Parcels ELSE parcel = SomeParcel
    /\ Departs
    /\ EditsInit
    /\ service # "edits" => entry = SomeRow /\ kept = "given"

ServicesNext ==
    \/ /\ service = "launch" /\ LaunchNext
       /\ UNCHANGED <<courseVars, customVars, toolboxVars, feedbackVars, lookupVars,
                      callVars, fieldVars, editVars, service>>
    \/ /\ service = "course" /\ CourseNext
       /\ UNCHANGED <<launchVars, customVars, toolboxVars, feedbackVars, lookupVars,
                      callVars, fieldVars, editVars, service>>
    \/ /\ service = "custom" /\ CustomNext
       /\ UNCHANGED <<launchVars, courseVars, toolboxVars, feedbackVars, lookupVars,
                      callVars, fieldVars, editVars, service>>
    \/ /\ service = "toolbox" /\ ToolboxNext
       /\ UNCHANGED <<launchVars, courseVars, customVars, feedbackVars, lookupVars,
                      callVars, fieldVars, editVars, service>>
    \/ /\ service = "feedback" /\ FeedbackNext
       /\ UNCHANGED <<launchVars, courseVars, customVars, toolboxVars, lookupVars,
                      callVars, fieldVars, editVars, service>>
    \/ /\ service = "lookups" /\ LookupsNext
       /\ UNCHANGED <<launchVars, courseVars, customVars, toolboxVars, feedbackVars,
                      callVars, fieldVars, editVars, service>>
    \/ /\ service = "calls" /\ CallsNext
       /\ UNCHANGED <<launchVars, courseVars, customVars, toolboxVars, feedbackVars,
                      lookupVars, fieldVars, editVars, service>>
    \/ /\ service = "fields" /\ FieldsNext
       /\ UNCHANGED <<launchVars, courseVars, customVars, toolboxVars, feedbackVars,
                      lookupVars, callVars, editVars, service>>
    \/ /\ service = "edits" /\ EditsNext
       /\ UNCHANGED <<launchVars, courseVars, customVars, toolboxVars, feedbackVars,
                      lookupVars, callVars, fieldVars, service>>

ServicesSpec == ServicesInit /\ [][ServicesNext]_servicesVars

=============================================================================
