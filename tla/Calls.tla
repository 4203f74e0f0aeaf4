-------------------------------- MODULE Calls --------------------------------
(***************************************************************************)
(* A call from the gateway to a service and back, for every endpoint.      *)
(*                                                                         *)
(* A route of the gateway (api/handler) binds the request and calls a      *)
(* method of a service (api/rpc); the service's handler                    *)
(* (internal/<service>/handler.go) executes it, many for several callers   *)
(* at a time (pkg/singleflight), and turns an error into a code; the       *)
(* gateway turns the code into what the app is told.  The tables below say *)
(* for each route and method which of these rules apply; the actions are   *)
(* the steps of the calls of one method.                                   *)
(*                                                                         *)
(* All callers are devices of one student, each with the registry session  *)
(* its header carries: calls are merged by student, not by session.        *)
(* Kitex answers a call whose handler panics, or that is lost, with an     *)
(* error; Hertz answers one whose handler panics with an internal error.   *)
(***************************************************************************)
CONSTANTS
    Device,    \* the student's devices, each with one call
    Session    \* sessions of the student at the registry

VARIABLES
    method,    \* the method called, one of Service
    route,     \* route[c]: the route c uses, one of API that calls it
    session,   \* session[c]: the session in the header of c's request
    alive,     \* the sessions the registry still knows
    stage,     \* stage[c]: where c's call is
    lead,      \* lead[c]: the caller whose execution serves c
    running,   \* callers whose execution of the method is in progress
    outcome,   \* outcome[c]: how the execution that served c ended
    told,      \* told[c]: what the app of c is told
    public     \* public[c]: the answer may be kept by public caches

callVars == <<method, route, session, alive, stage, lead, running, outcome, told, public>>

-----------------------------------------------------------------------------
(* Methods: how an execution can end and what its error becomes.           *)
(*   session   uses the caller's session, registry errors are recognised   *)
(*   plan      uses it, every registry error is called an expired session  *)
(*   info      uses it, every error is an internal one                     *)
(*   notices   asks the registry without a session, calls its errors an    *)
(*             expired session                                             *)
(*   stored    does not use a session                                      *)
(*   partial   like stored, may succeed without what it was asked for      *)
(*   pictures  like stored, may find no picture that is on                 *)
(*   masked    replaces every error by one of its own                      *)
(*   dropped   answers nothing when it fails                               *)
(*   panics    dereferences the missing result when it fails               *)
(*   never     cannot fail                                                 *)

Alone(kind, names)  == [name : names, kind : {kind}, merged : {FALSE}]
Merged(kind, names) == [name : names, kind : {kind}, merged : {TRUE}]

AcademicService ==
    Alone("session", {"GetGPA", "GetCredit", "GetUnifiedExam", "GetCreditV2"})
        \cup Merged("session", {"GetScores"}) \cup Alone("plan", {"GetPlan"})

TimetableService ==
    Merged("session", {"GetCourseList", "GetTermList"}) \cup Alone("session", {"UpsertCustomCourse"})
        \cup Alone("stored", {"DeleteCustomCourse", "GetCalendar"})

AdjustService ==
    Alone("stored", {"GetLocateDate", "GetFriendCourse", "GetAutoAdjustCourseList",
                     "UpdateAdjustCourse"})

AccountService ==
    Alone("stored", {"GetLoginData", "GetGetLoginDataForYJSY", "GetInvitationCode",
                     "BindInvitation"})
        \cup Merged("info", {"GetUserInfo"})

FriendService ==
    Alone("stored", {"DeleteFriend", "CancelInvite", "ReorderFriendList"})
        \cup Merged("stored", {"GetFriendList"}) \cup Alone("never", {"GetFriendMaxNum"})

ClassroomService == Alone("stored", {"GetEmptyRoom"}) \cup Merged("session", {"GetExamRoomInfo"})

PaperService == Merged("masked", {"ListDirFiles"}) \cup Alone("stored", {"GetDownloadUrl"})

CaptchaService == Alone("stored", {"ValidateCode", "ValidateCodeForAndroid"})

OAService == Alone("stored", {"CreateFeedback", "GetFeedbackById", "GetFeedbackList"})

ReleaseService ==
    Merged("stored", {"DownloadReleaseApk", "DownloadBetaApk", "GetReleaseVersion",
                      "GetBetaVersion"})
        \cup Alone("stored", {"Login", "UploadVersion", "UploadParams"})

SettingService ==
    Merged("stored", {"GetCloud", "AndroidGetVersion"}) \cup Alone("stored", {"SetCloud", "GetDump"})
        \cup Alone("panics", {"GetSetting", "GetTest"})

PageService == Alone("dropped", {"GetCSS", "GetHtml", "GetUserAgreement"})

InfoService ==
    Merged("stored", {"GetTermsList", "GetJobFair"}) \cup Merged("partial", {"GetTerm"})
        \cup Merged("notices", {"GetNotices"}) \cup Alone("stored", {"GetContributorInfo"})

ToolboxService ==
    Alone("stored", {"GetToolboxConfig", "CreateToolboxConfig", "ListToolboxConfigs",
                     "GetToolboxConfigByID", "UpdateToolboxConfig", "DeleteToolboxConfig",
                     "GetSignedLocationApiUrl"})
        \cup Alone("never", {"TracePing"})

PictureService ==
    Alone("stored", {"CreateImage", "GetImage", "ChangeImageProperty", "ChangeImage",
                     "DeleteImage", "AddImagePointTime", "ListImage"})
        \cup Alone("pictures", {"MobileGetImage"})

Service ==
    UNION {AcademicService, TimetableService, AdjustService, AccountService, FriendService,
           ClassroomService, PaperService, CaptchaService, OAService, ReleaseService,
           SettingService, PageService, InfoService, ToolboxService, PictureService}

-----------------------------------------------------------------------------
(* The gateway's side of a method: what becomes of the code it answers.    *)
(*   cookie   session and evaluation codes kept, every other failure "biz" *)
(*   biz      every failure "biz"                                          *)
(*   code     kept                                                         *)
(*   unread   not looked at                                                *)
(*   content  not looked at, an answer without content is internal         *)

Reads(rule, names) == [name : names, rule : {rule}]

AcademicRPC ==
    Reads("cookie", {"GetScores", "GetGPA", "GetCredit", "GetUnifiedExam", "GetPlan",
                     "GetCreditV2"})

CourseRPC ==
    Reads("cookie", {"GetCourseList", "GetTermList", "GetCalendar"})
        \cup Reads("biz", {"GetFriendCourse", "GetAutoAdjustCourseList", "UpdateAdjustCourse",
                           "UpsertCustomCourse", "DeleteCustomCourse"})
        \cup Reads("code", {"GetLocateDate"})

UserRPC ==
    Reads("biz", {"GetLoginData", "GetGetLoginDataForYJSY", "GetInvitationCode",
                  "BindInvitation", "GetFriendList", "DeleteFriend", "CancelInvite",
                  "GetFriendMaxNum", "ReorderFriendList"})
        \cup Reads("cookie", {"GetUserInfo"})

ClassroomRPC == Reads("biz", {"GetEmptyRoom"}) \cup Reads("cookie", {"GetExamRoomInfo"})

PaperRPC == Reads("biz", {"GetDownloadUrl", "ListDirFiles"})

CaptchaRPC == Reads("biz", {"ValidateCode", "ValidateCodeForAndroid"})

OARPC == Reads("biz", {"CreateFeedback", "GetFeedbackById", "GetFeedbackList"})

(* Mutant: no version method's code is looked at.                          *)
VersionRPC_NoneRead ==
    Reads("unread", {"Login", "DownloadReleaseApk", "DownloadBetaApk", "GetReleaseVersion",
                     "GetBetaVersion", "UploadVersion", "UploadParams", "GetSetting",
                     "GetTest", "GetCloud", "SetCloud", "GetDump", "AndroidGetVersion"})

VersionRPC ==
    Reads("code", {"Login", "UploadVersion", "UploadParams", "GetTest", "SetCloud"})
        \cup Reads("unread", {"DownloadReleaseApk", "DownloadBetaApk", "GetReleaseVersion",
                              "GetBetaVersion", "GetSetting", "GetCloud", "GetDump",
                              "AndroidGetVersion"})

InfoRPC ==
    Reads("content", {"GetCSS", "GetHtml", "GetUserAgreement"})
        \cup Reads("cookie", {"GetTermsList", "GetTerm", "GetNotices", "GetContributorInfo"})
        \cup Reads("code", {"GetJobFair"})

ToolboxRPC ==
    Reads("cookie", {"GetToolboxConfig", "CreateToolboxConfig", "ListToolboxConfigs",
                     "GetToolboxConfigByID", "UpdateToolboxConfig", "DeleteToolboxConfig",
                     "TracePing", "GetSignedLocationApiUrl"})

PictureRPC ==
    Reads("code", {"GetImage", "ChangeImageProperty", "DeleteImage", "MobileGetImage",
                   "AddImagePointTime", "ListImage"})
        \cup Reads("unread", {"CreateImage", "ChangeImage"})

RPC == UNION {AcademicRPC, CourseRPC, UserRPC, ClassroomRPC, PaperRPC, CaptchaRPC, OARPC,
              VersionRPC, InfoRPC, ToolboxRPC, PictureRPC}

Rule(name) == (CHOOSE r \in RPC : r.name = name).rule

-----------------------------------------------------------------------------
(* Routes of the gateway, named by their handlers: the method called, what *)
(* a request that does not bind is told ("none": nothing to bind), whether *)
(* a success may be kept by public caches, and whether the handler         *)
(* dereferences a part of the answer that the method may leave out.        *)

Route(name, calls, refusal) ==
    {[name |-> name, calls |-> calls, refusal |-> refusal, public |-> FALSE, needs |-> FALSE]}
Routes(names, refusal) ==
    {[name |-> n, calls |-> n, refusal |-> refusal, public |-> FALSE, needs |-> FALSE] : n \in names}
Public(routes) == {[r EXCEPT !.public = TRUE] : r \in routes}
Needs(routes)  == {[r EXCEPT !.needs = TRUE] : r \in routes}

AcademicAPI ==
    Routes({"GetScores", "GetGPA", "GetCredit", "GetUnifiedExam", "GetPlan", "GetCreditV2"},
           "none")

TimetableAPI ==
    Routes({"GetLocateDate", "GetTermList"}, "none") \cup Routes({"GetCourseList"}, "param")
        \cup Route("SubscribeCalendar", "GetCalendar", "param")

CustomCourseAPI ==
    Routes({"GetFriendCourse", "GetAutoAdjustCourseList", "UpdateAdjustCourse",
            "UpsertCustomCourse", "DeleteCustomCourse"}, "param")
        \cup Route("GetCourseListV2", "GetCourseList", "param")

LoginAPI == Routes({"GetLoginData"}, "param")

AccountAPI ==
    Routes({"GetInvitationCode", "GetGetLoginDataForYJSY"}, "internal")
        \cup Routes({"GetUserInfo"}, "none")

FriendAPI ==
    Routes({"BindInvitation", "DeleteFriend"}, "internal") \cup Routes({"ReorderFriendList"}, "param")
        \cup Routes({"GetFriendList", "CancelInvite", "GetFriendMaxNum"}, "none")

ClassroomAPI ==
    Route("GetEmptyClassrooms", "GetEmptyRoom", "param") \cup Routes({"GetExamRoomInfo"}, "param")

PaperAPI ==
    Public(Routes({"ListDirFiles", "GetDownloadUrl"}, "param")
               \cup Route("ListDirFilesForAndroid", "ListDirFiles", "param")
               \cup Route("GetDownloadUrlForAndroid", "GetDownloadUrl", "param"))

CaptchaAPI == Routes({"ValidateCode", "ValidateCodeForAndroid"}, "param")

FeedbackAPI ==
    Routes({"CreateFeedback"}, "param") \cup Route("GetFeedbackByID", "GetFeedbackById", "text")
        \cup Route("ListFeedback", "GetFeedbackList", "text")

ReleaseAPI ==
    Routes({"Login", "UploadVersion", "UploadParams"}, "param")
        \cup Routes({"DownloadReleaseApk", "DownloadBetaApk", "GetReleaseVersion",
                     "GetBetaVersion"}, "none")

SettingAPI ==
    Routes({"GetSetting", "GetTest", "SetCloud"}, "param") \cup Routes({"GetCloud", "GetDump"}, "none")
        \cup Public(Needs(Routes({"AndroidGetVersion"}, "none")))

OldVersionAPI ==
    UNION {Route("APILogin", "Login", "param"),
           Route("UploadVersionInfo", "UploadVersion", "param"),
           Route("GetUploadParams", "UploadParams", "param"),
           Route("GetReleaseVersionModify", "GetReleaseVersion", "none"),
           Route("GetBetaVersionModify", "GetBetaVersion", "none")}

InfoAPI ==
    Public(Routes({"GetCSS", "GetHtml", "GetUserAgreement", "GetTermsList"}, "none")
               \cup Needs(Routes({"GetTerm"}, "param")))
        \cup Route("GetNotice", "GetNotices", "param") \cup Routes({"GetContributorInfo"}, "none")

ToolboxAPI ==
    Routes({"CreateToolboxConfig", "GetSignedLocationApiUrl"}, "param")
        \cup Public(Routes({"GetToolboxConfig"}, "param"))

ToolboxAdminAPI ==
    Routes({"ListToolboxConfigs", "GetToolboxConfigByID", "UpdateToolboxConfig",
            "DeleteToolboxConfig", "GetJobFair"}, "param")

PictureAPI ==
    Routes({"GetImage", "ChangeImageProperty"}, "param")
        \cup Needs(Routes({"CreateImage"}, "param"))

ScreenAPI ==
    Routes({"DeleteImage", "AddImagePointTime", "ListImage"}, "param")
        \cup Needs(Routes({"ChangeImage"}, "param"))
        \cup Public(Routes({"MobileGetImage"}, "param"))

OldScreenAPI ==
    Route("custom.MobileGetImage", "MobileGetImage", "param")
        \cup Route("custom.AddImagePointTime", "AddImagePointTime", "param")

TraceAPI == Routes({"TracePing"}, "none")

API ==
    UNION {AcademicAPI, TimetableAPI, CustomCourseAPI, LoginAPI, AccountAPI, FriendAPI,
           ClassroomAPI, PaperAPI, CaptchaAPI, FeedbackAPI, ReleaseAPI, SettingAPI,
           OldVersionAPI, InfoAPI, ToolboxAPI, ToolboxAdminAPI, PictureAPI, ScreenAPI,
           OldScreenAPI, TraceAPI}

-----------------------------------------------------------------------------
(* How an execution of a kind of method can end.  "registry": the registry *)
(* fails; "coded": an error with a code of its own; "broken": another one; *)
(* "bare": a success, but what was fetched could not be stored and is not  *)
(* answered.                                                               *)
Ends(kind) ==
    CASE kind = "session"          -> {"ok", "expired", "unrated", "coded", "broken"}
      [] kind \in {"plan", "info"} -> {"ok", "expired", "registry", "broken"}
      [] kind = "notices"          -> {"ok", "registry", "broken"}
      [] kind = "pictures"         -> {"ok", "nothing", "coded", "broken"}
      [] kind = "partial"          -> {"ok", "bare", "coded", "broken"}
      [] kind = "never"            -> {"ok"}
      [] OTHER                     -> {"ok", "coded", "broken"}

(* What the application's error is to the registry's client library.       *)
HandleJwchError(end) ==
    IF end = "expired" THEN "session" ELSE IF end = "unrated" THEN "unrated" ELSE end

(* ConvertErr: an error that carries a code keeps it.                      *)
ConvertErr(err) ==
    IF err \in {"ok", "bare", "session", "unrated", "coded"} THEN err
    ELSE IF err = "nothing" THEN "coded" ELSE "internal"

(* The code in the answer; "none": no code, "lost": no answer; "bare": the *)
(* code of a success and nothing else.                                     *)
BaseResp(kind, end) ==
    IF end = "ok" THEN "ok"
    ELSE IF kind \in {"plan", "notices"} /\ end \in {"expired", "registry"} THEN "session"
    ELSE IF kind \in {"info", "masked"} THEN "internal"
    ELSE IF kind = "dropped" THEN "none"
    ELSE IF kind = "panics" THEN "lost"
    ELSE ConvertErr(HandleJwchError(end))

(* Mutant: the cookie rule keeps no code.                                  *)
HandleBaseRespWithCookie_Plain(base) == IF base = "ok" THEN "ok" ELSE "biz"

(* What survives of the code with the cookie rule.                         *)
HandleBaseRespWithCookie(base) == IF base \in {"ok", "session", "unrated"} THEN base ELSE "biz"

(* What the app is told.  A code that is looked at but missing is a nil    *)
(* dereference, as is what the handler needs.                              *)
Answer(rule, needs, base) ==
    IF base = "lost" THEN "internal"
    ELSE IF base = "bare" THEN IF needs THEN "internal" ELSE "ok"
    ELSE IF rule = "unread" THEN IF base = "ok" THEN "ok" ELSE IF needs THEN "internal" ELSE "empty"
    ELSE IF base = "none" THEN "internal"
    ELSE IF rule = "cookie" THEN HandleBaseRespWithCookie(base)
    ELSE IF rule = "biz" /\ base # "ok" THEN "biz"
    ELSE base

-----------------------------------------------------------------------------
CallsInit ==
    /\ method \in Service
    /\ route \in [Device -> {r \in API : r.calls = method.name}]
    /\ session \in [Device -> Session]
    /\ alive = Session
    /\ stage = [c \in Device |-> "idle"]
    /\ lead = [c \in Device |-> c]
    /\ running = {}
    /\ outcome = [c \in Device |-> "none"]
    /\ told = [c \in Device |-> "none"]
    /\ public = [c \in Device |-> FALSE]

(* The registry ends a session: it is old, or the student logged in again. *)
Expire(s) ==
    /\ s \in alive
    /\ \E c \in Device : stage[c] # "answered"
    /\ alive' = alive \ {s}
    /\ UNCHANGED <<method, route, session, stage, lead, running, outcome, told, public>>

(* The request binds and goes to the service.                              *)
Send(c) ==
    /\ stage[c] = "idle"
    /\ stage' = [stage EXCEPT ![c] = "sent"]
    /\ UNCHANGED <<method, route, session, alive, lead, running, outcome, told, public>>

(* The request does not bind.                                              *)
Reject(c) ==
    /\ stage[c] = "idle" /\ route[c].refusal # "none"
    /\ stage' = [stage EXCEPT ![c] = "answered"]
    /\ told' = [told EXCEPT ![c] = route[c].refusal]
    /\ UNCHANGED <<method, route, session, alive, lead, running, outcome, public>>

(* The service's handler: joins the execution of the key that is in        *)
(* progress, or executes itself.                                           *)
DoShared(c) ==
    /\ stage[c] = "sent"
    /\ stage' = [stage EXCEPT ![c] = "inside"]
    /\ IF method.merged /\ running # {}
       THEN lead' \in {[lead EXCEPT ![c] = l] : l \in running} /\ UNCHANGED running
       ELSE running' = running \cup {c} /\ UNCHANGED lead
    /\ UNCHANGED <<method, route, session, alive, outcome, told, public>>

(* An execution ends, for its leader and all who joined it and still wait. *)
(* The registry may refuse the leader's session once it has expired, but   *)
(* a copy may have answered without asking it.                             *)
ExecutionEnds(l, end) ==
    LET served == {c \in Device : stage[c] = "inside" /\ lead[c] = l} IN
    /\ l \in running
    /\ end \in Ends(method.kind)
    /\ end = "expired" => session[l] \notin alive
    /\ running' = running \ {l}
    /\ stage' = [c \in Device |-> IF c \in served THEN "replied" ELSE stage[c]]
    /\ outcome' = [c \in Device |-> IF c \in served THEN end ELSE outcome[c]]
    /\ UNCHANGED <<method, route, session, alive, lead, told, public>>

(* The call is lost or takes too long.  The execution goes on.             *)
RPCFails(c) ==
    /\ stage[c] \in {"sent", "inside", "replied"}
    /\ stage' = [stage EXCEPT ![c] = "answered"]
    /\ outcome' = [outcome EXCEPT ![c] = "lost"]
    /\ told' = [told EXCEPT ![c] = "internal"]
    /\ UNCHANGED <<method, route, session, alive, lead, running, public>>

(* The reply reaches the gateway, which answers the app.                   *)
Respond(c) ==
    LET answer == Answer(Rule(method.name), route[c].needs, BaseResp(method.kind, outcome[c]))
    IN  /\ stage[c] = "replied"
        /\ stage' = [stage EXCEPT ![c] = "answered"]
        /\ told' = [told EXCEPT ![c] = answer]
        /\ public' = [public EXCEPT ![c] =
                          route[c].public /\ (answer \in {"ok", "empty"} \/ outcome[c] = "nothing")]
        /\ UNCHANGED <<method, route, session, alive, lead, running, outcome>>

CallsNext ==
    \/ \E s \in Session : Expire(s)
    \/ \E c \in Device : Send(c) \/ Reject(c) \/ DoShared(c) \/ RPCFails(c) \/ Respond(c)
    \/ \E l \in Device : \E end \in Ends(method.kind) : ExecutionEnds(l, end)

CallsSpec == CallsInit /\ [][CallsNext]_callVars

-----------------------------------------------------------------------------
(* Methods whose failure the gateway answers as an empty success.          *)
TellsNothing ==
    {"DownloadReleaseApk", "DownloadBetaApk", "GetReleaseVersion", "GetBetaVersion", "GetCloud",
     "GetDump"}

(* A failure on the way is told: the app is told a success only if the     *)
(* execution that served it succeeded, and with what was asked for, except *)
(* for the six version methods whose code the gateway does not read, and   *)
(* whose failure is an empty success.  A term that could not be stored is  *)
(* one: the service answers a success without it, and what the app is told *)
(* comes of the handler's panic (internal/common/handler.go:146-148,       *)
(* api/pack/common.go:46).  What public caches may keep is a success or    *)
(* the news that no picture is on.                                         *)
FailureTold ==
    \A c \in Device :
        /\ told[c] = "ok" => outcome[c] = "ok"
        /\ told[c] = "empty" => method.name \in TellsNothing
        /\ public[c] => outcome[c] \in {"ok", "nothing"}

(* The app logs in again when it is told its session has expired, so it    *)
(* must be told exactly then.  It is told so without need only by GetPlan  *)
(* and GetNotices, or when its call joined one of another device, whose    *)
(* session has expired while its own may live.  An expired session is told *)
(* as something else only by GetUserInfo and UpsertCustomCourse.           *)
SessionTold ==
    \A c \in Device :
        /\ told[c] = "session" /\ method.name \notin {"GetPlan", "GetNotices"} =>
              /\ outcome[c] = "expired"
              /\ session[lead[c]] \notin alive
              /\ session[c] \in alive => lead[c] # c /\ method.merged
        /\ outcome[c] = "expired" /\ stage[c] = "answered" =>
              told[c] = "session" \/ method.name \in {"GetUserInfo", "UpsertCustomCourse"}

(* The types of the variables.                                             *)
CallsTypeOK ==
    /\ method \in Service
    /\ route \in [Device -> API]
    /\ session \in [Device -> Session]
    /\ alive \subseteq Session
    /\ stage \in [Device -> {"idle", "sent", "inside", "replied", "answered"}]
    /\ lead \in [Device -> Device]
    /\ running \subseteq Device
    /\ outcome \in [Device -> {"none", "lost"} \cup Ends(method.kind)]
    /\ told \in [Device -> {"none", "ok", "empty", "session", "unrated", "coded", "biz",
                            "internal", "param", "text"}]
    /\ public \in [Device -> BOOLEAN]

=============================================================================
