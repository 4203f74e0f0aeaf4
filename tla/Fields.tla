-------------------------------- MODULE Fields --------------------------------
(***************************************************************************)
(* One field of a request on its way from the app to the service that      *)
(* reads it, or one field of an answer on its way back.  On the way it is  *)
(* copied by hand from struct to struct: the compiler accepts a copy that  *)
(* forgets a field, and where a struct cannot say that a field is absent   *)
(* it becomes zero.                                                        *)
(*                                                                         *)
(* "base", which the gateway turns into errors, the bytes of pictures,     *)
(* which are streamed, and answers that are passed on without a struct of  *)
(* the gateway's, as pages and files, are left out.                        *)
(***************************************************************************)
EXTENDS GatewayForms, Sequences

VARIABLES parcel,    \* what travels: which way, by which copy, the field, what it was
          place,     \* where it is
          held       \* what it is there

fieldVars == <<parcel, place, held>>

(* A copy of a struct: from what, to what, the fields under another name   *)
(* and the fields that it leaves.                                          *)
Copy(by, from, to) ==
    [by |-> by, from |-> from, to |-> to, names |-> [f \in {} |-> f], left |-> {}]
Renaming(copy, f, g) == [copy EXCEPT !.names = [x \in {f} |-> g]]
Leaving(copy, fs)    == [copy EXCEPT !.left = fs]

NameIn(copy, f) == IF f \in DOMAIN copy.names THEN copy.names[f] ELSE f

(* Most structs have the same name on both sides.                          *)
Sends(routes)   == {Copy(r, r \o "Request", r \o "Request") : r \in routes}
Returns(routes) == {Copy(r, r \o "Response", r \o "Response") : r \in routes}
Alike(names)    == {Copy(n, n, n) : n \in names}

Named(structs, name) == CHOOSE s \in structs : s.name = name
GatewayStruct(name)  == Named(Forms \cup Views, name)
ServiceStruct(name)  == Named(Messages \cup ModelStructs, name)

-----------------------------------------------------------------------------
(* The requests of the handlers, by their routes. *)
CaptchaSends == Sends({"ValidateCode", "ValidateCodeForAndroid"})

RoomSends ==
    {Copy("GetEmptyClassrooms", "EmptyClassroomRequest", "EmptyRoomRequest")}
        \cup Sends({"ExamRoomInfo"})

CommonSends ==
    {Copy("GetTerm", "TermRequest", "TermRequest"),
     Copy("GetNotice", "GetNoticeRequst", "NoticeRequest")}
        \cup Sends({"GetToolboxConfig"})

ToolSends ==
    {Copy("GetJobFair", "GetJobFairRequest", "JobFairRequest")}
        \cup Sends({"GetSignedLocationApiUrl", "CreateToolboxConfig", "ListToolboxConfigs",
                    "GetToolboxConfigByID", "UpdateToolboxConfig", "DeleteToolboxConfig"})

CourseSends ==
    {Renaming(Copy("GetCourseList", "CourseListRequest", "CourseListRequest"),
              "is_refresh", "isRefresh"),
     Renaming(Copy("GetFriendCourse", "GetFriendCourseRequest", "GetFriendCourseRequest"),
              "student_id", "id")}
        \cup Sends({"GetAutoAdjustCourseList"})

CourseChangeSends ==
    {Renaming(Copy("DeleteCustomCourse", "DeleteCustomCourseRequest",
                   "DeleteCustomCourseRequest"), "course_id", "courseId"),
     Renaming(Copy("GetCourseListV2", "CourseListV2Request", "CourseListRequest"),
              "is_refresh", "isRefresh")}
        \cup Sends({"UpdateAdjustCourse", "UpsertCustomCourse"})

ReportSends ==
    {Copy("ListFeedback", "GetListFeedbackRequest", "GetListFeedbackRequest")}
        \cup Sends({"CreateFeedback", "GetFeedbackByID"})

PictureSends == Sends({"CreateImage", "GetImage", "ChangeImageProperty"})

PictureChangeSends ==
    {Renaming(Copy("MobileGetImage", "MobileGetImageRequest", "MobileGetImageRequest"),
              "type", "s_type")}
        \cup Sends({"ChangeImage", "DeleteImage", "AddImagePointTime", "ListImage"})

PaperSends ==
    {Copy("ListDirFilesForAndroid", "ListDirFilesForAndroidRequest", "ListDirFilesRequest"),
     Copy("GetDownloadUrlForAndroid", "GetDownloadUrlForAndroidRequest",
          "GetDownloadUrlRequest")}
        \cup Sends({"ListDirFiles", "GetDownloadUrl"})

LoginSends ==
    Sends({"GetLoginData", "GetLoginDataForYJSY", "GetInvitationCode", "BindInvitation"})

FriendSends ==
    {Renaming(Copy("DeleteFriend", "DeleteFriendRequest", "DeleteFriendRequest"),
              "student_id", "id")}
        \cup Sends({"ReorderFriendList"})

VersionSends == Sends({"Login", "Upload", "UploadParams", "GetSetting", "GetTest"})
CloudSends   == Sends({"SetCloud"})

(* The routes of older apps.                                               *)
OldPictureSends ==
    {Renaming(Copy("OldMobileGetImage", "MobileGetImageRequest", "MobileGetImageRequest"),
              "type", "s_type"),
     Copy("OldAddImagePointTime", "AddImagePointTimeRequest", "AddImagePointTimeRequest")}

OldVersionSends ==
    {Copy("APILogin", "LoginRequest", "LoginRequest"),
     Leaving(Copy("UploadVersionInfo", "UploadRequest", "UploadRequest"), {"force"}),
     Copy("GetUploadParams", "UploadParamsRequest", "UploadParamsRequest")}

(* The course inside UpsertCustomCourse has a struct of its own.           *)
CustomCourseSends == Alike({"CustomCourse"})

Requests ==
    UNION {CaptchaSends, RoomSends, CommonSends, ToolSends, CourseSends, CourseChangeSends,
           ReportSends, PictureSends, PictureChangeSends, PaperSends, LoginSends,
           FriendSends, VersionSends, CloudSends, OldPictureSends, OldVersionSends,
           CustomCourseSends}

(* What a service never looks at, and what it dereferences unasked.        *)
Unread == {<<"MobileGetImageRequest", "college">>, <<"GetTestRequest", "setting">>}
Dereferenced ==
    {<<"CreateImageRequest", "duration">>, <<"ChangeImagePropertyRequest", "duration">>}

-----------------------------------------------------------------------------
(* What the services make answers of, by the structs.  A builder leaves    *)
(* fields, or it puts zero for NULL, or leaves out an empty text.          *)
ScoreBuilt       == Alike({"Score"})
GPABuilt         == Alike({"GPABean", "GPAData"})
CreditBuilt      == Alike({"Credit", "CreditDetail", "CreditCategory"})
UnifiedExamBuilt == Alike({"UnifiedExam"})
ClassroomBuilt   == Alike({"Classroom"})
ExamRoomBuilt    == Alike({"ExamRoomInfo"})
TermBuilt        == Alike({"Term", "TermEvent", "TermList", "TermInfo"})
NoticeBuilt      == Alike({"NoticeInfo"})
JobFairBuilt     == Alike({"JobFairEvent"})
ContributorBuilt == Alike({"Contributor"})

ToolBuilt ==
    {Leaving(Copy("BuildToolboxConfig", "ToolboxConfig", "ToolboxConfig"),
             {"config_id", "student_id"})}
        \cup Alike({"ToolboxConfigDetail"})

CourseBuilt == Alike({"CourseScheduleRule", "CourseAdjustRule", "Course"})

GraduateCourseBuilt ==
    {Leaving(Copy("BuildCourseYjsy", "Course", "Course"),
             {"adjustRules", "remark", "examType"})}

AdjustCourseBuilt == Alike({"AdjustCourse"})
CustomCourseBuilt == Alike({"CustomCourse"})
DateBuilt         == Alike({"LocateDate"})
PictureBuilt      == Alike({"Picture"})
ReportBuilt       == Alike({"Feedback", "FeedbackListItem"})
UserBuilt         == Alike({"UserInfo"})
FriendBuilt       == Alike({"UserFriendInfo"})
FriendMaxBuilt    == Alike({"FriendMaxNumInfo"})
VersionBuilt      == Alike({"Version"})
DirectoryBuilt    == Alike({"UpYunFileDir"})

Built ==
    UNION {ScoreBuilt, GPABuilt, CreditBuilt, UnifiedExamBuilt, ClassroomBuilt,
           ExamRoomBuilt, TermBuilt, NoticeBuilt, JobFairBuilt, ContributorBuilt,
           ToolBuilt, CourseBuilt, GraduateCourseBuilt, AdjustCourseBuilt,
           CustomCourseBuilt, DateBuilt, PictureBuilt, ReportBuilt, UserBuilt,
           FriendBuilt, FriendMaxBuilt, VersionBuilt, DirectoryBuilt}

Nullable  == {<<"AdjustCourse", f>> : f \in {"to_date", "to_week", "to_weekday"}}
EmptyLeft == {<<"CustomCourse", f>> : f \in {"teacher", "color", "remark"}}

(* The gateway copies a struct whole into its own of the same name, or     *)
(* passes it on as it is; for older apps a directory has another struct.   *)
PassedOn == {"CreditDetail", "CreditCategory", "UserInfo", "UserFriendInfo",
             "FriendMaxNumInfo"}

OldDirectory == Renaming(Copy("PaperData", "UpYunFileDir", "PaperData"),
                         "basePath", "base_path")

-----------------------------------------------------------------------------
(* The answers of the handlers, by their routes.                           *)
AcademicReturns == Returns({"GetScores", "GetGPA", "GetCredit", "GetUnifiedExam"})

RoomReturns ==
    {Renaming(Copy("GetEmptyClassrooms", "EmptyRoomResponse", "EmptyClassroomResponse"),
              "rooms", "classrooms"),
     Renaming(Copy("GetExamRoomInfo", "ExamRoomInfoResponse", "ExamRoomInfoResponse"),
              "rooms", "examRoomInfos")}

CommonReturns ==
    {Copy("GetNotice", "NoticeResponse", "GetNoticeResponse")}
        \cup Returns({"TermList", "Term", "GetContributorInfo", "GetToolboxConfig"})

ToolReturns ==
    {Copy("GetJobFair", "JobFairResponse", "GetJobFairResponse")}
        \cup Returns({"GetSignedLocationApiUrl", "CreateToolboxConfig",
                      "ListToolboxConfigs", "GetToolboxConfigByID", "UpdateToolboxConfig"})

CourseReturns ==
    {Leaving(Copy("GetCourseList", "CourseListResponse", "CourseListResponse"),
             {"customCourses"})}
        \cup Returns({"CourseTermList", "GetLocateDate", "GetFriendCourse",
                      "GetAutoAdjustCourseList"})

CourseV2Returns ==
    {[Copy("GetCourseListV2", "CourseListResponse", "CourseListV2") EXCEPT
         !.names = [f \in {"data", "customCourses"} |->
                       IF f = "data" THEN "courses" ELSE "custom_courses"]]}

ReportReturns ==
    {Copy("ListFeedback", "GetListFeedbackResponse", "GetListFeedbackResponse"),
     Copy("GetFeedbackByID", "FeedbackDetailResponse", "FeedbackDetailResponse")}
        \cup Returns({"CreateFeedback"})

PictureReturns == Returns({"CreateImage", "GetImage", "ChangeImageProperty"})

PictureChangeReturns ==
    {Leaving(Copy("MobileGetImage", "MobileGetImageResponse", "MobileGetImageResponse"),
             {"count"}),
     Renaming(Copy("ListImage", "ListImageResponse", "ListImageResponse"),
              "picture_list", "images")}
        \cup Returns({"ChangeImage"})

PaperReturns ==
    {Copy("GetDownloadUrlForAndroid", "GetDownloadUrlResponse", "PaperUrlData")}
        \cup Returns({"ListDirFiles", "GetDownloadUrl"})

LoginReturns == Returns({"GetLoginData", "GetLoginDataForYJSY", "GetInvitationCode"})

VersionReturns ==
    Returns({"UploadParams", "GetReleaseVersion", "GetBetaVersion", "GetSetting", "GetTest"})
CloudReturns == Returns({"GetCloud", "GetDump", "AndroidGetVersion"})

OldVersionReturns ==
    {Copy("GetUploadParams", "UploadParamsResponse", "UploadParamsResponse"),
     Leaving(Copy("GetReleaseVersionModify", "GetReleaseVersionResponse",
                  "GetReleaseVersionResponse"), {"force"}),
     Leaving(Copy("GetBetaVersionModify", "GetBetaVersionResponse",
                  "GetBetaVersionResponse"), {"force"})}

Replies ==
    UNION {AcademicReturns, RoomReturns, CommonReturns, ToolReturns, CourseReturns,
           CourseV2Returns, ReportReturns, PictureReturns, PictureChangeReturns,
           PaperReturns, LoginReturns, VersionReturns, CloudReturns, OldVersionReturns}

-----------------------------------------------------------------------------
Streamed == {<<"CreateImageRequest", "image">>, <<"ChangeImageRequest", "image">>}

Asked ==
    UNION {[way : {"ask"}, by : {c}, was : {"absent", "given"},
            field : {f \in FieldsOf(GatewayStruct(c.from)) : <<c.from, f>> \notin Streamed}]
             : c \in Requests}

Answered ==
    UNION {[way : {"answer"}, by : {c}, was : {"zero", "given"},
            field : FieldsOf(ServiceStruct(c.from)) \ {"base"}] : c \in Replies}

(* A row of a table, or an answer of the school.                           *)
Found ==
    UNION {UNION {[way : {"find"}, by : {c}, field : {f},
                   was : {"zero", "given"} \cup
                            IF <<c.from, f>> \in Nullable THEN {"absent"} ELSE {}]
                    : f \in FieldsOf(ServiceStruct(c.from))} : c \in Built \cup {OldDirectory}}

Parcels == Asked \cup Answered \cup Found

Departs ==
    /\ place = IF parcel.way = "ask" THEN "app" ELSE "service"
    /\ held = parcel.was

FieldsInit == parcel \in Parcels /\ Departs

(* BindAndValidate, or the query parameter of ListDirFiles, which may not  *)
(* be empty: a request without a required field is refused.                *)
Bound(copy, f, v) ==
    LET form == GatewayStruct(copy.from) IN
    IF v = "absent" /\ f \in form.must THEN "refused" ELSE Held(form, f, v)

(* The handler fills the message.  The link of a picture is cut out of the *)
(* query instead, which gives an empty text when there is none.            *)
Filled(copy, f, v) ==
    LET put == IF f \in copy.left THEN "absent"
               ELSE IF copy.by = "ChangeImageProperty" /\ f = "href" /\ v = "absent" THEN "zero"
               ELSE v IN
    Held(ServiceStruct(copy.to), NameIn(copy, f), put)

Looked(copy, f, v) ==
    IF <<copy.to, f>> \in Unread THEN "unread"
    ELSE IF <<copy.to, f>> \in Dereferenced /\ v = "absent" THEN "broken" ELSE v

(* A builder fills the struct of an answer, or a handler its response.     *)
Put(way, copy, f, v) ==
    Held(ServiceStruct(copy.from), f,
         IF way = "find" /\ (f \in copy.left \/ (<<copy.from, f>> \in EmptyLeft /\ v = "zero"))
         THEN "absent" ELSE v)

(* The gateway copies what it shows.                                       *)
Displayed(way, copy, f, v) ==
    LET struct == IF way = "find" /\ copy.to \in PassedOn
                  THEN ServiceStruct(copy.to) ELSE GatewayStruct(copy.to) IN
    IF way = "answer" /\ f \in copy.left THEN "dropped" ELSE Held(struct, NameIn(copy, f), v)

BindField ==
    LET bound == Bound(parcel.by, parcel.field, held) IN
    /\ place = "app"
    /\ IF bound = "refused" THEN place' = "refused" /\ UNCHANGED held
       ELSE place' = "gateway" /\ held' = bound
    /\ UNCHANGED parcel

SendField ==
    /\ place = "gateway"
    /\ place' = "message"
    /\ held' = Filled(parcel.by, parcel.field, held)
    /\ UNCHANGED parcel

ReadField ==
    /\ place = "message"
    /\ place' = "read"
    /\ held' = Looked(parcel.by, parcel.field, held)
    /\ UNCHANGED parcel

BuildField ==
    /\ place = "service"
    /\ place' = "reply"
    /\ held' = Put(parcel.way, parcel.by, parcel.field, held)
    /\ UNCHANGED parcel

ShowField ==
    /\ place = "reply"
    /\ place' = "shown"
    /\ held' = Displayed(parcel.way, parcel.by, parcel.field, held)
    /\ UNCHANGED parcel

FieldsNext == BindField \/ SendField \/ ReadField \/ BuildField \/ ShowField
FieldsSpec == FieldsInit /\ [][FieldsNext]_fieldVars

-----------------------------------------------------------------------------
(* The structs of both sides that a field passes.                          *)
Passed ==
    CASE parcel.way = "ask" -> {GatewayStruct(parcel.by.from), ServiceStruct(parcel.by.to)}
      [] parcel.way = "answer" -> {ServiceStruct(parcel.by.from), GatewayStruct(parcel.by.to)}
      [] parcel.by.to \in PassedOn -> {ServiceStruct(parcel.by.from)}
      [] OTHER -> {ServiceStruct(parcel.by.from), GatewayStruct(parcel.by.to)}

(* Nothing arrives that was not sent: a value is one that was given, and a *)
(* zero was one, or was nothing and passed a struct that cannot be without *)
(* the field.  But the link of a picture becomes an empty text when it is  *)
(* not named, the old upload makes zero of what it was given, and so do    *)
(* the courses of graduates of what only the others tell.                  *)
ArrivesAsSent ==
    place \in {"read", "shown"} =>
       /\ held = "given" => parcel.was = "given"
       /\ held = "zero" =>
             \/ parcel.was = "zero"
             \/ /\ parcel.was = "absent"
                /\ \E struct \in Passed :
                      {parcel.field, NameIn(parcel.by, parcel.field)}
                         \cap (struct.plain \cup struct.must) # {}
             \/ parcel.by.by = "ChangeImageProperty" /\ parcel.field = "href"
             \/ /\ parcel.by.by \in {"UploadVersionInfo", "BuildCourseYjsy"}
                /\ parcel.field \in parcel.by.left

=============================================================================
