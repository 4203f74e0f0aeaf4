--------------------------- MODULE ServiceMessages ---------------------------
(***************************************************************************)
(* What the gateway and the services say to each other: the structs of     *)
(* kitex_gen, generated from the IDL.                                      *)
(*                                                                         *)
(* A struct is its fields, by their names on the wire.  A required one is  *)
(* always there; an optional one may be absent, is a pointer or a slice in *)
(* the code and has an IsSet of its own; one of neither kind is a value    *)
(* that cannot be told from its zero.  Types of fields, how they are       *)
(* written and String are left out.                                        *)
(***************************************************************************)

(* Required and optional fields; Mixed: fields of neither kind first.      *)
Struct(name, must, may) == [name |-> name, plain |-> {}, must |-> must, may |-> may]
Mixed(name, plain, must, may) == [name |-> name, plain |-> plain, must |-> must, may |-> may]

Bare(names)    == {Struct(n, {}, {}) : n \in names}
Based(names)   == {Struct(n, {"base"}, {}) : n \in names}
Plainly(names) == {Mixed(n, {"base"}, {}, {}) : n \in names}

FieldsOf(struct) == struct.plain \cup struct.must \cup struct.may

(* What a field is when v was put in it: only an optional one may be       *)
(* absent, and its getter calls that zero.                                 *)
Held(struct, f, v) == IF v = "absent" /\ f \notin struct.may THEN "zero" ELSE v

(* Fields that several structs share.                                      *)
ToolFields == {"name", "icon", "type", "message", "extra", "student_id", "platform",
               "version"}

PictureFields ==
    {"pic_type", "start_at", "end_at", "s_type", "frequency", "start_time", "end_time",
     "text", "regex", "secret"}

ReportFields ==
    {"stu_id", "name", "college", "contact_phone", "contact_qq", "contact_email",
     "network_env", "is_on_campus", "os_name", "os_version", "manufacturer",
     "device_model", "problem_desc", "screenshots", "app_version", "version_history",
     "network_traces", "events", "user_settings"}

-----------------------------------------------------------------------------
(* kitex_gen/academic. *)
ScoreMessages ==
    {Struct("GetScoresResponse", {"base"}, {"scores"}),
     Struct("GetGPAResponse", {"base"}, {"gpa"})}
        \cup Bare({"GetScoresRequest", "GetGPARequest"})

CreditMessages ==
    {Struct("GetCreditResponse", {"base"}, {"major"}),
     Struct("GetUnifiedExamResponse", {"base"}, {"unifiedExam"})}
        \cup Bare({"GetCreditRequest", "GetUnifiedExamRequest"})

PlanMessages ==
    {Mixed("GetPlanResponse", {"url"}, {"base"}, {}),
     Struct("GetCreditV2Response", {"base"}, {"credit"})}
        \cup Bare({"GetPlanRequest", "GetCreditV2Request"})

(* kitex_gen/captcha. *)
CaptchaMessages ==
    {Struct("ValidateCodeRequest", {"image"}, {}),
     Struct("ValidateCodeResponse", {"base", "data"}, {}),
     Struct("ValidateCodeForAndroidRequest", {"validateCode"}, {}),
     Struct("ValidateCodeForAndroidResponse", {"code", "message"}, {})}

(* kitex_gen/classroom. *)
RoomMessages ==
    {Struct("EmptyRoomRequest", {"date", "campus", "startTime", "endTime"}, {}),
     Struct("EmptyRoomResponse", {"base"}, {"rooms"}),
     Struct("ExamRoomInfoRequest", {"term"}, {})}

ExamRoomMessages ==
    {Struct("ExamRoomInfoResponse", {"base"}, {"rooms"})}

(* kitex_gen/common. *)
PageMessages ==
    {Mixed("GetCSSResponse", {"css"}, {}, {}),
     Mixed("GetHtmlResponse", {"html"}, {}, {}),
     Mixed("GetUserAgreementResponse", {"user_agreement"}, {}, {}),
     Struct("TermRequest", {"term"}, {})}
        \cup Bare({"GetCSSRequest", "GetHtmlRequest", "GetUserAgreementRequest"})

TermMessages ==
    {Struct("TermResponse", {"base", "term_info"}, {}),
     Struct("TermListResponse", {"base", "term_lists"}, {}),
     Struct("NoticeRequest", {"pageNum"}, {})}
        \cup Bare({"TermListRequest"})

NoticeMessages ==
    {Struct("NoticeResponse", {"base", "total"}, {"notices"}),
     Struct("JobFairRequest", {"month"}, {}),
     Struct("JobFairResponse", {"base", "events"}, {})}
        \cup Bare({"GetContributorInfoRequest"})

ContributorMessages ==
    {Struct("GetContributorInfoResponse",
            {"base", "fzuhelper_app", "fzuhelper_server", "jwch", "yjsy"}, {}),
     Struct("GetToolboxConfigRequest", {}, {"version", "student_id", "platform"})}

ToolboxMessages ==
    {Struct("GetToolboxConfigResponse", {"base", "config"}, {})}

CreateToolMessages ==
    {Struct("CreateToolboxConfigRequest", {"secret", "tool_id", "visible"}, ToolFields)}

CreatedToolMessages ==
    {Struct("CreateToolboxConfigResponse", {"base"}, {"config"})}

ListToolMessages ==
    {Struct("ListToolboxConfigsRequest", {"secret"},
            {"page_num", "page_size", "tool_id", "student_id", "platform", "version"})}

ToolByIdMessages ==
    {Struct("ListToolboxConfigsResponse", {"base", "config", "total"}, {}),
     Struct("GetToolboxConfigByIDRequest", {"secret", "config_id"}, {}),
     Struct("GetToolboxConfigByIDResponse", {"base"}, {"config"})}

UpdateToolMessages ==
    {Struct("UpdateToolboxConfigRequest", {"secret", "config_id", "tool_id", "visible"},
            ToolFields)}

DeleteToolMessages ==
    {Struct("UpdateToolboxConfigResponse", {"base"}, {"config"}),
     Struct("DeleteToolboxConfigRequest", {"secret", "config_id"}, {})}
        \cup Bare({"TracePingRequest"})
        \cup Based({"DeleteToolboxConfigResponse"})

LocationMessages ==
    {Struct("TracePingResponse", {"base", "message"}, {}),
     Struct("GetSignedLocationApiUrlRequest", {"location"}, {}),
     Struct("GetSignedLocationApiUrlResponse", {"base", "signed_url", "headers"}, {})}

(* kitex_gen/course; CourseTermListRequest and -Response are its            *)
(* TermListRequest and -Response, which common has too.                    *)
CourseListMessages ==
    {Struct("CourseTermListResponse", {"base", "data"}, {}),
     Struct("CourseListRequest", {"term"}, {"isRefresh"})}
        \cup Bare({"CourseTermListRequest"})

CalendarMessages ==
    {Struct("CourseListResponse", {"base", "data"}, {"customCourses"}),
     Struct("GetCalendarRequest", {"stu_id"}, {}),
     Mixed("GetCalendarResponse", {"ics"}, {"base"}, {})}
        \cup Bare({"GetLocateDateRequest"})

FriendCourseMessages ==
    {Struct("GetLocateDateResponse", {"base"}, {"locateDate"}),
     Struct("GetFriendCourseRequest", {"term", "id"}, {}),
     Struct("GetFriendCourseResponse", {"base", "data"}, {}),
     Struct("GetAutoAdjustCourseListRequest", {"term"}, {})}

AdjustListMessages ==
    {Struct("GetAutoAdjustCourseListResponse", {"base", "data"}, {}),
     Struct("UpdateAdjustCourseRequest", {"id", "secret"},
            {"enabled", "from_date", "to_date"})}

CreateAdjustMessages ==
    {Struct("CreateAdjustCourseItem", {"from_date"}, {"to_date"}),
     Struct("CreateAdjustCourseRequest", {"items"}, {})}
        \cup Based({"UpdateAdjustCourseResponse"})

CustomCourseMessages ==
    {Struct("CreateAdjustCourseResponse", {"base"}, {"created"}),
     Struct("UpsertCustomCourseRequest", {"term", "course"}, {}),
     Struct("UpsertCustomCourseResponse", {"base"}, {"courseId"})}

DeleteCustomMessages ==
    {Struct("DeleteCustomCourseRequest", {"courseId"}, {})}
        \cup Based({"DeleteCustomCourseResponse"})

(* kitex_gen/launch_screen. *)
CreateImageMessages ==
    {Mixed("CreateImageRequest", {"href", "buffer_count"}, {"image"} \cup PictureFields,
           {"duration"})}

ImageMessages ==
    {Mixed("CreateImageResponse", {"base"}, {}, {"picture"}),
     Struct("GetImageRequest", {"picture_id"}, {}),
     Mixed("GetImageResponse", {"base"}, {}, {"picture"})}

ImagePropertyMessages ==
    {Struct("ChangeImagePropertyRequest", {"picture_id"} \cup PictureFields,
            {"duration", "href"})}

ChangeImageMessages ==
    {Mixed("ChangeImagePropertyResponse", {"base"}, {}, {"picture"}),
     Mixed("ChangeImageRequest", {"buffer_count"}, {"picture_id", "secret", "image"},
           {}),
     Mixed("ChangeImageResponse", {"base"}, {}, {"picture"})}

MobileImageMessages ==
    {Struct("DeleteImageRequest", {"picture_id", "secret"}, {}),
     Struct("MobileGetImageRequest", {"s_type", "student_id", "device"}, {"college"})}
        \cup Plainly({"DeleteImageResponse"})

PointTimeMessages ==
    {Mixed("MobileGetImageResponse", {"base"}, {}, {"count", "picture_list"}),
     Struct("AddImagePointTimeRequest", {"picture_id"}, {}),
     Mixed("AddImagePointTimeResponse", {"base"}, {}, {"picture"})}

ListImageMessages ==
    {Struct("ListImageRequest", {"secret"}, {"page_num", "page_size"}),
     Mixed("ListImageResponse", {"base"}, {}, {"picture_list", "total"})}

(* kitex_gen/oa. *)
ReportMessages ==
    {Struct("CreateFeedbackRequest", ReportFields, {})}

ReportedMessages ==
    {Struct("CreateFeedbackResponse", {"base", "report_id"}, {}),
     Struct("GetFeedbackByIDRequest", {"report_id"}, {}),
     Struct("FeedbackDetailResponse", {"base"}, {"data"})}

ReportListMessages ==
    {Struct("GetListFeedbackRequest", {},
            {"stu_id", "name", "network_env", "is_on_campus", "os_name",
             "problem_desc", "app_version", "begin_time_ms", "end_time_ms", "limit",
             "page_token", "order_desc"})}

ReportsListedMessages ==
    {Struct("GetListFeedbackResponse", {"base"}, {"data", "page_token"})}

(* kitex_gen/paper. *)
PaperMessages ==
    {Struct("ListDirFilesRequest", {"path"}, {}),
     Struct("ListDirFilesResponse", {"base"}, {"dir"}),
     Struct("GetDownloadUrlRequest", {"filepath"}, {}),
     Struct("GetDownloadUrlResponse", {"base", "url"}, {})}

(* kitex_gen/user. *)
LoginMessages ==
    {Struct("GetLoginDataRequest", {"id", "password"}, {}),
     Struct("GetLoginDataResponse", {"base", "id", "cookies"}, {}),
     Struct("GetUserInfoResponse", {"base"}, {"data"})}
        \cup Bare({"GetUserInfoRequest"})

GraduateMessages ==
    {Struct("GetLoginDataForYJSYRequest", {"id", "password"}, {}),
     Struct("GetLoginDataForYJSYResponse", {"base", "id", "cookies"}, {}),
     Struct("GetInvitationCodeRequest", {}, {"isRefresh"})}

InvitationMessages ==
    {Struct("GetInvitationCodeResponse", {"base", "invitation_code", "expire_at"}, {}),
     Struct("BindInvitationRequest", {"invitation_code"}, {})}
        \cup Bare({"GetFriendListRequest"})
        \cup Based({"BindInvitationResponse"})

FriendMessages ==
    {Struct("GetFriendListResponse", {"base"}, {"data"}),
     Struct("DeleteFriendRequest", {"id"}, {}),
     Struct("VerifyFriendRequest", {"id", "friend_id"}, {})}
        \cup Based({"DeleteFriendResponse"})

FriendLimitMessages ==
    {Struct("VerifyFriendResponse", {"base", "friend_exist"}, {})}
        \cup Bare({"CancelInviteRequest", "GetFriendMaxNumRequest"})
        \cup Based({"CancelInviteResponse"})

FriendOrderMessages ==
    {Struct("GetFriendMaxNumResponse", {"base", "data"}, {}),
     Struct("ReorderFriendListRequest", {"friend_ids"}, {})}
        \cup Based({"ReorderFriendListResponse"})

(* kitex_gen/version. *)
UploadMessages ==
    {Struct("LoginRequest", {"password"}, {}),
     Struct("UploadRequest",
            {"version", "code", "url", "feature", "type", "password", "force"}, {})}
        \cup Plainly({"LoginResponse"})

UploadParamsMessages ==
    {Struct("UploadParamsRequest", {"password"}, {}),
     Mixed("UploadParamsResponse", {"base"}, {}, {"policy", "authorization"})}
        \cup Bare({"DownloadReleaseApkRequest"})
        \cup Plainly({"UploadResponse"})

DownloadMessages ==
    {Mixed("DownloadReleaseApkResponse", {"base", "redirect_url"}, {}, {}),
     Mixed("DownloadBetaApkResponse", {"base", "redirect_url"}, {}, {})}
        \cup Bare({"DownloadBetaApkRequest", "GetReleaseVersionRequest"})

ReleaseMessages ==
    {Mixed("GetReleaseVersionResponse", {"base"}, {},
           {"code", "feature", "url", "version", "force"})}
        \cup Bare({"GetBetaVersionRequest"})

BetaMessages ==
    {Mixed("GetBetaVersionResponse", {"base"}, {},
           {"code", "feature", "url", "version", "force"})}

SettingMessages ==
    {Struct("GetSettingRequest", {},
            {"account", "version", "beta", "phone", "isLogin", "loginType"})}

SettingsMessages ==
    {Mixed("GetSettingResponse", {"cloud_setting"}, {}, {"base"})}

TestMessages ==
    {Struct("GetTestRequest", {},
            {"account", "version", "beta", "phone", "isLogin", "loginType",
             "setting"})}

CloudMessages ==
    {Mixed("GetTestResponse", {"base", "cloud_setting"}, {}, {}),
     Mixed("GetCloudResponse", {"base", "cloud_setting"}, {}, {}),
     Struct("SetCloudRequest", {"password", "setting"}, {})}
        \cup Bare({"GetCloudRequest"})

DumpMessages ==
    {Mixed("GetDumpResponse", {"base", "data"}, {}, {})}
        \cup Bare({"GetDumpRequest", "AndroidGetVersioneRequest"})
        \cup Plainly({"SetCloudResponse"})

AndroidMessages ==
    {Mixed("AndroidGetVersionResponse", {"base"}, {}, {"release", "beta"})}

Messages ==
    UNION {ScoreMessages, CreditMessages, PlanMessages, CaptchaMessages, RoomMessages,
           ExamRoomMessages, PageMessages, TermMessages, NoticeMessages,
           ContributorMessages, ToolboxMessages, CreateToolMessages, CreatedToolMessages,
           ListToolMessages, ToolByIdMessages, UpdateToolMessages, DeleteToolMessages,
           LocationMessages, CourseListMessages, CalendarMessages, FriendCourseMessages,
           AdjustListMessages, CreateAdjustMessages, CustomCourseMessages,
           DeleteCustomMessages, CreateImageMessages, ImageMessages,
           ImagePropertyMessages, ChangeImageMessages, MobileImageMessages,
           PointTimeMessages, ListImageMessages, ReportMessages, ReportedMessages,
           ReportListMessages, ReportsListedMessages, PaperMessages, LoginMessages,
           GraduateMessages, InvitationMessages, FriendMessages, FriendLimitMessages,
           FriendOrderMessages, UploadMessages, UploadParamsMessages, DownloadMessages,
           ReleaseMessages, BetaMessages, SettingMessages, SettingsMessages,
           TestMessages, CloudMessages, DumpMessages, AndroidMessages}

-----------------------------------------------------------------------------
(* kitex_gen/model: what the answers are made of. *)
AccountStructs ==
    {Mixed("BaseResp", {"code", "msg"}, {}, {}),
     Struct("LoginData", {"id", "cookies"}, {}),
     Struct("UserInfo",
            {"stu_id", "name", "birthday", "sex", "college", "grade", "major"}, {})}

FriendStructs ==
    {Struct("UserFriendInfo",
            {"stu_id", "name", "college", "grade", "major", "created_at",
             "order_seq"}, {}),
     Struct("FriendMaxNumInfo", {"max_num"}, {}),
     Struct("Classroom", {"build", "location", "capacity", "type"}, {})}

ExamRoomStructs ==
    {Struct("ExamRoomInfo", {"name", "credit", "teacher", "location", "time", "date"},
            {})}

ScheduleStructs ==
    {Struct("CourseScheduleRule",
            {"location", "startClass", "endClass", "startWeek", "endWeek", "weekday",
             "single", "double", "adjust"}, {})}

AdjustRuleStructs ==
    {Struct("CourseAdjustRule",
            {"oldWeek", "oldDay", "oldStartClass", "oldEndClass", "canceled",
             "newWeek", "newDay", "newStartClass", "newEndClass", "newLocation"}, {})}

CourseStructs ==
    {Struct("Course",
            {"name", "teacher", "scheduleRules", "adjustRules", "remark",
             "lessonplan", "syllabus", "rawScheduleRules", "rawAdjust", "examType",
             "electiveType"}, {})}

CustomCourseStructs ==
    {Struct("CustomCourse",
            {"name", "location", "startClass", "endClass", "startWeek", "endWeek",
             "weekday", "single", "double"}, {"id", "teacher", "color", "remark"})}

TimetableStructs ==
    {Struct("CourseListV2", {"courses", "custom_courses"}, {}),
     Struct("LocateDate", {"week", "year", "term", "date"}, {})}

AdjustCourseStructs ==
    {Struct("AdjustCourse",
            {"id", "enabled", "year", "term", "from_date", "from_week",
             "from_weekday", "to_date", "to_week", "to_weekday"}, {})}

PictureStructs ==
    {Mixed("Picture",
           {"id", "url", "href", "text", "type", "duration", "frequency", "start_at",
            "end_at", "start_time", "end_time", "regex"}, {},
           {"show_times", "point_times", "s_type"})}

ScoreStructs ==
    {Struct("UpYunFileDir", {"files", "folders"}, {"basePath"}),
     Struct("Score",
            {"credit", "gpa", "name", "score", "teacher", "term", "exam_type",
             "elective_type", "classroom"}, {})}

CreditStructs ==
    {Struct("GPABean", {"time", "data"}, {}),
     Struct("GPAData", {"type", "value"}, {}),
     Struct("Credit", {"type", "gain", "total"}, {}),
     Struct("UnifiedExam", {"name", "score", "term"}, {})}

PaperStructs ==
    {Struct("CreditDetail", {"key", "value"}, {}),
     Struct("CreditCategory", {"type", "data"}, {}),
     Struct("PaperData", {"files", "folders"}, {"base_path"}),
     Struct("PaperUrlData", {"url"}, {})}

TermStructs ==
    {Struct("Term", {}, {"term_id", "school_year", "term", "start_date", "end_date"})}

TermListStructs ==
    {Struct("TermEvent", {}, {"name", "start_date", "end_date"}),
     Struct("TermList", {}, {"current_term", "terms"})}

TermInfoStructs ==
    {Struct("TermInfo", {}, {"term_id", "term", "school_year", "events"})}

NoticeStructs ==
    {Struct("NoticeInfo", {}, {"title", "url", "date"}),
     Struct("JobFairEvent", {"id", "title", "place", "starts_at", "detail_url"}, {})}

ContributorStructs ==
    {Mixed("Contributor", {"name", "avatar_url", "url", "contributions"}, {}, {})}

ToolboxStructs ==
    {Struct("ToolboxConfig", {"tool_id"}, {"visible", "config_id"} \cup ToolFields)}

ToolDetailStructs ==
    {Struct("ToolboxConfigDetail", {"config_id", "tool_id", "visible"}, ToolFields)}

VersionStructs ==
    {Struct("Version", {},
            {"version_code", "version_name", "force", "changelog", "url"})}

ReportStructs ==
    {Struct("Feedback", {"report_id"} \cup ReportFields, {})}

ReportItemStructs ==
    {Struct("FeedbackListItem",
            {"report_id", "name", "network_env", "problem_desc", "app_version"}, {})}

ModelStructs ==
    UNION {AccountStructs, FriendStructs, ExamRoomStructs, ScheduleStructs,
           AdjustRuleStructs, CourseStructs, CustomCourseStructs, TimetableStructs,
           AdjustCourseStructs, PictureStructs, ScoreStructs, CreditStructs,
           PaperStructs, TermStructs, TermListStructs, TermInfoStructs, NoticeStructs,
           ContributorStructs, ToolboxStructs, ToolDetailStructs, VersionStructs,
           ReportStructs, ReportItemStructs}

=============================================================================
