---------------------------- MODULE GatewayForms ----------------------------
(***************************************************************************)
(* What the app and the gateway say to each other: the structs of          *)
(* api/model, generated from the IDL.  Hertz refuses a request without a   *)
(* required field; encoding/json leaves out optional fields that are       *)
(* absent.                                                                 *)
(***************************************************************************)
EXTENDS ServiceMessages

(* api/model/api: requests and answers, one of each for a route.           *)
ClassroomForms ==
    {Struct("EmptyClassroomRequest", {"date", "campus", "startTime", "endTime"}, {}),
     Struct("EmptyClassroomResponse", {}, {"classrooms"}),
     Struct("ExamRoomInfoRequest", {"term"}, {}),
     Struct("ExamRoomInfoResponse", {}, {"examRoomInfos"}),
     Struct("GetLoginDataRequest", {"id", "password"}, {})}

TokenForms ==
    {Struct("GetLoginDataResponse", {"id", "cookies"}, {}),
     Mixed("GetAccessTokenResponse", {"code", "message"}, {}, {}),
     Mixed("RefreshTokenResponse", {"code", "message"}, {}, {})}
        \cup Bare({"GetAccessTokenRequest", "RefreshTokenRequest", "TestAuthRequest"})

AccountForms ==
    {Mixed("TestAuthResponse", {"message"}, {}, {}),
     Struct("GetUserInfoResponse", {"base"}, {"data"}),
     Struct("GetLoginDataForYJSYRequest", {"id", "password"}, {}),
     Struct("GetLoginDataForYJSYResponse", {"id", "cookies"}, {})}
        \cup Bare({"GetUserInfoRequest"})

InvitationForms ==
    {Struct("GetInvitationCodeRequest", {}, {"isRefresh"}),
     Struct("GetInvitationCodeResponse", {"invitation_code", "expire_at"}, {}),
     Struct("BindInvitationRequest", {"invitation_code"}, {})}
        \cup Bare({"GetFriendListRequest"})
        \cup Based({"BindInvitationResponse"})

FriendForms ==
    {Struct("GetFriendListResponse", {"base", "data"}, {}),
     Struct("DeleteFriendRequest", {"student_id"}, {})}
        \cup Bare({"CancelInviteRequest"})
        \cup Based({"DeleteFriendResponse", "CancelInviteResponse"})

FriendLimitForms ==
    {Struct("GetFriendMaxNumResponse", {"base", "data"}, {}),
     Struct("ReorderFriendListRequest", {"friend_ids"}, {})}
        \cup Bare({"GetFriendMaxNumRequest"})
        \cup Based({"ReorderFriendListResponse"})

CourseListForms ==
    {Struct("CourseListRequest", {"term"}, {"is_refresh"}),
     Struct("CourseListResponse", {"base", "data"}, {}),
     Struct("CourseListV2Request", {"term"}, {"is_refresh"})}

TermListForms ==
    {Struct("CourseListV2Response", {"base", "data"}, {}),
     Struct("CourseTermListResponse", {"base", "data"}, {}),
     Struct("GetCalendarTokenResponse", {"token"}, {})}
        \cup Bare({"CourseTermListRequest", "GetCalendarTokenRequest"})

CalendarForms ==
    {Struct("SubscribeCalendarRequest", {"token"}, {}),
     Mixed("SubscribeCalendarResponse", {"ics"}, {}, {}),
     Struct("GetLocateDateResponse", {}, {"locateDate"}),
     Struct("GetFriendCourseRequest", {"term", "student_id"}, {})}
        \cup Bare({"GetLocateDateRequest"})

FriendCourseForms ==
    {Struct("GetFriendCourseResponse", {"base", "data"}, {}),
     Struct("GetAutoAdjustCourseListRequest", {"term"}, {}),
     Struct("GetAutoAdjustCourseListResponse", {"base", "data"}, {})}

AdjustForms ==
    {Struct("UpdateAdjustCourseRequest", {"id", "secret"},
            {"enabled", "from_date", "to_date"}),
     Struct("UpsertCustomCourseRequest", {"term", "course"}, {})}
        \cup Based({"UpdateAdjustCourseResponse"})

CustomCourseForms ==
    {Struct("UpsertCustomCourseResponse", {"base"}, {"course_id"}),
     Struct("DeleteCustomCourseRequest", {"course_id"}, {})}
        \cup Based({"DeleteCustomCourseResponse"})

CreateImageForms ==
    {Mixed("CreateImageRequest", {"href", "image"}, PictureFields, {"duration"}),
     Mixed("CreateImageResponse", {"base"}, {}, {"picture"})}

ImageForms ==
    {Struct("GetImageRequest", {"picture_id"}, {}),
     Mixed("GetImageResponse", {"base"}, {}, {"picture"})}

ImagePropertyForms ==
    {Struct("ChangeImagePropertyRequest", {"picture_id"} \cup PictureFields,
            {"duration", "href"}),
     Mixed("ChangeImagePropertyResponse", {"base"}, {}, {"picture"})}

ChangeImageForms ==
    {Mixed("ChangeImageRequest", {"image"}, {"picture_id", "secret"}, {}),
     Mixed("ChangeImageResponse", {"base"}, {}, {"picture"}),
     Struct("DeleteImageRequest", {"picture_id", "secret"}, {})}
        \cup Plainly({"DeleteImageResponse"})

MobileImageForms ==
    {Struct("MobileGetImageRequest", {"type", "student_id", "device"}, {"college"}),
     Mixed("MobileGetImageResponse", {"base"}, {}, {"count", "picture_list"}),
     Struct("AddImagePointTimeRequest", {"picture_id"}, {})}

PointTimeForms ==
    {Mixed("AddImagePointTimeResponse", {"base"}, {}, {"picture"}),
     Struct("ListImageRequest", {"secret"}, {"page_num", "page_size"}),
     Struct("ListImageResponse", {"images", "total"}, {}),
     Struct("ListDirFilesRequest", {"path"}, {})}

PaperForms ==
    {Struct("ListDirFilesResponse", {"dir"}, {}),
     Struct("GetDownloadUrlRequest", {"filepath"}, {}),
     Struct("GetDownloadUrlResponse", {"url"}, {}),
     Struct("ListDirFilesForAndroidRequest", {"path"}, {}),
     Struct("GetDownloadUrlForAndroidRequest", {"filepath"}, {})}
        \cup Bare({"ListDirFilesForAndroidResponse"})

ScoreForms ==
    {Struct("GetScoresResponse", {"scores"}, {}),
     Struct("GetGPAResponse", {"gpa"}, {}),
     Struct("GetCreditResponse", {"major"}, {})}
        \cup Bare({"GetDownloadUrlForAndroidResponse", "GetScoresRequest",
                   "GetGPARequest", "GetCreditRequest"})

ExamForms ==
    {Struct("GetUnifiedExamResponse", {"unifiedExam"}, {}),
     Struct("GetCreditV2Response", {"base"}, {"credit"}),
     Struct("GetPlanRequest", {"id", "cookies"}, {})}
        \cup Bare({"GetUnifiedExamRequest", "GetCreditV2Request"})

UploadForms ==
    {Struct("LoginRequest", {"password"}, {}),
     Struct("UploadRequest",
            {"version", "code", "url", "feature", "type", "password", "force"}, {})}
        \cup Plainly({"GetPlanResponse", "LoginResponse"})

UploadParamsForms ==
    {Struct("UploadParamsRequest", {"password"}, {}),
     Struct("UploadParamsResponse", {}, {"base", "policy", "authorization"})}
        \cup Bare({"DownloadReleaseApkRequest"})
        \cup Plainly({"UploadResponse"})

DownloadForms ==
    {Struct("DownloadReleaseApkResponse", {}, {"file"}),
     Struct("DownloadBetaApkResponse", {}, {"file"})}
        \cup Bare({"DownloadBetaApkRequest", "GetReleaseVersionRequest"})

ReleaseForms ==
    {Struct("GetReleaseVersionResponse", {},
            {"base", "code", "feature", "url", "version", "force"})}
        \cup Bare({"GetBetaVersionRequest"})

BetaForms ==
    {Struct("GetBetaVersionResponse", {},
            {"base", "code", "feature", "url", "version", "force"})}

SettingForms ==
    {Struct("GetSettingRequest", {},
            {"account", "version", "beta", "phone", "isLogin", "loginType"}),
     Mixed("GetSettingResponse", {"cloud_setting"}, {}, {"base"})}

TestForms ==
    {Struct("GetTestRequest", {},
            {"account", "version", "beta", "phone", "isLogin", "loginType",
             "setting"}),
     Mixed("GetTestResponse", {"base", "cloud_setting"}, {}, {})}

CloudForms ==
    {Mixed("GetCloudResponse", {"cloud_setting"}, {}, {"base"}),
     Struct("SetCloudRequest", {"password", "setting"}, {})}
        \cup Bare({"GetCloudRequest", "GetDumpRequest"})
        \cup Plainly({"SetCloudResponse"})

DumpForms ==
    {Mixed("GetDumpResponse", {"data"}, {}, {"base"}),
     Struct("AndroidGetVersionResponse", {}, {"base", "release", "beta"})}
        \cup Bare({"AndroidGetVersioneRequest", "GetCSSRequest"})

PageForms ==
    {Mixed("GetCSSResponse", {"css"}, {}, {}),
     Mixed("GetHtmlResponse", {"html"}, {}, {}),
     Mixed("GetUserAgreementResponse", {"user_agreement"}, {}, {})}
        \cup Bare({"GetHtmlRequest", "GetUserAgreementRequest", "TermListRequest"})

TermForms ==
    {Struct("TermListResponse", {"base", "term_lists"}, {}),
     Struct("TermRequest", {"term"}, {}),
     Struct("TermResponse", {"base", "term_info"}, {}),
     Struct("GetNoticeRequst", {"pageNum"}, {})}

InfoForms ==
    {Struct("GetNoticeResponse", {"notices", "total"}, {}),
     Struct("GetJobFairRequest", {"month"}, {}),
     Struct("GetJobFairResponse", {"events"}, {}),
     Struct("GetContributorInfoResponse",
            {"fzuhelper_app", "fzuhelper_server", "jwch", "yjsy"}, {})}
        \cup Bare({"GetContributorInfoRequest"})

ToolboxForms ==
    {Struct("GetToolboxConfigRequest", {}, {"version", "student_id", "platform"}),
     Struct("GetToolboxConfigResponse", {"config"}, {})}

CreateToolForms ==
    {Struct("CreateToolboxConfigRequest", {"secret", "tool_id", "visible"}, ToolFields)}

ListToolForms ==
    {Struct("CreateToolboxConfigResponse", {"config"}, {}),
     Struct("ListToolboxConfigsRequest", {"secret"},
            {"page_num", "page_size", "tool_id", "student_id", "platform", "version"})}

ToolByIdForms ==
    {Struct("ListToolboxConfigsResponse", {"config", "total"}, {}),
     Struct("GetToolboxConfigByIDRequest", {"secret", "config_id"}, {}),
     Struct("GetToolboxConfigByIDResponse", {"config"}, {})}

UpdateToolForms ==
    {Struct("UpdateToolboxConfigRequest", {"secret", "config_id", "tool_id", "visible"},
            ToolFields)}

DeleteToolForms ==
    {Struct("UpdateToolboxConfigResponse", {"config"}, {}),
     Struct("DeleteToolboxConfigRequest", {"secret", "config_id"}, {}),
     Struct("GetSignedLocationApiUrlRequest", {"location"}, {}),
     Struct("GetSignedLocationApiUrlResponse", {"signed_url", "headers"}, {})}
        \cup Bare({"DeleteToolboxConfigResponse"})

ReportForms ==
    {Struct("CreateFeedbackRequest", ReportFields, {})}

ReportedForms ==
    {Struct("CreateFeedbackResponse", {"base", "report_id"}, {}),
     Struct("GetFeedbackByIDRequest", {"report_id"}, {}),
     Struct("FeedbackDetailResponse", {"base"}, {"data"})}

ReportListForms ==
    {Struct("GetListFeedbackRequest", {},
            {"stu_id", "name", "network_env", "is_on_campus", "os_name",
             "problem_desc", "app_version", "begin_time_ms", "end_time_ms", "limit",
             "page_token", "order_desc"})}

CaptchaForms ==
    {Struct("GetListFeedbackResponse", {"base"}, {"data", "page_token"}),
     Struct("ValidateCodeRequest", {"image"}, {}),
     Struct("ValidateCodeResponse", {"base", "data"}, {}),
     Struct("ValidateCodeForAndroidRequest", {"validateCode"}, {})}

AndroidCaptchaForms ==
    {Struct("ValidateCodeForAndroidResponse", {"code", "message"}, {})}

Forms ==
    UNION {ClassroomForms, TokenForms, AccountForms, InvitationForms, FriendForms,
           FriendLimitForms, CourseListForms, TermListForms, CalendarForms,
           FriendCourseForms, AdjustForms, CustomCourseForms, CreateImageForms,
           ImageForms, ImagePropertyForms, ChangeImageForms, MobileImageForms,
           PointTimeForms, PaperForms, ScoreForms, ExamForms, UploadForms,
           UploadParamsForms, DownloadForms, ReleaseForms, BetaForms, SettingForms,
           TestForms, CloudForms, DumpForms, PageForms, TermForms, InfoForms,
           ToolboxForms, CreateToolForms, ListToolForms, ToolByIdForms, UpdateToolForms,
           DeleteToolForms, ReportForms, ReportedForms, ReportListForms, CaptchaForms,
           AndroidCaptchaForms}

-----------------------------------------------------------------------------
(* api/model/model: what the answers are made of.                          *)
AccountViews ==
    {Mixed("BaseResp", {"code", "msg"}, {}, {}),
     Struct("LoginData", {"id", "cookies"}, {}),
     Struct("UserInfo",
            {"stu_id", "name", "birthday", "sex", "college", "grade", "major"}, {})}

FriendViews ==
    {Struct("UserFriendInfo",
            {"stu_id", "name", "college", "grade", "major", "created_at",
             "order_seq"}, {}),
     Struct("FriendMaxNumInfo", {"max_num"}, {}),
     Struct("Classroom", {"build", "location", "capacity", "type"}, {})}

ScheduleViews ==
    {Struct("ExamRoomInfo", {"name", "credit", "teacher", "location", "time", "date"},
            {}),
     Struct("CourseScheduleRule",
            {"location", "startClass", "endClass", "startWeek", "endWeek", "weekday",
             "single", "double", "adjust"}, {})}

AdjustRuleViews ==
    {Struct("CourseAdjustRule",
            {"oldWeek", "oldDay", "oldStartClass", "oldEndClass", "canceled",
             "newWeek", "newDay", "newStartClass", "newEndClass", "newLocation"}, {})}

CourseViews ==
    {Struct("Course",
            {"name", "teacher", "scheduleRules", "adjustRules", "remark",
             "lessonplan", "syllabus", "rawScheduleRules", "rawAdjust", "examType",
             "electiveType"}, {})}

CustomCourseViews ==
    {Struct("CustomCourse",
            {"name", "location", "startClass", "endClass", "startWeek", "endWeek",
             "weekday", "single", "double"}, {"id", "teacher", "color", "remark"}),
     Struct("CourseListV2", {"courses", "custom_courses"}, {})}

AdjustCourseViews ==
    {Struct("LocateDate", {"week", "year", "term", "date"}, {}),
     Struct("AdjustCourse",
            {"id", "enabled", "year", "term", "from_date", "from_week",
             "from_weekday", "to_date", "to_week", "to_weekday"}, {})}

PictureViews ==
    {Mixed("Picture",
           {"id", "url", "href", "text", "type", "duration", "frequency", "start_at",
            "end_at", "start_time", "end_time", "regex"}, {},
           {"show_times", "point_times", "s_type"})}

ScoreViews ==
    {Struct("UpYunFileDir", {"files", "folders"}, {"basePath"}),
     Struct("Score",
            {"credit", "gpa", "name", "score", "teacher", "term", "exam_type",
             "elective_type", "classroom"}, {}),
     Struct("GPABean", {"time", "data"}, {})}

CreditViews ==
    {Struct("GPAData", {"type", "value"}, {}),
     Struct("Credit", {"type", "gain", "total"}, {}),
     Struct("UnifiedExam", {"name", "score", "term"}, {}),
     Struct("CreditDetail", {"key", "value"}, {}),
     Struct("CreditCategory", {"type", "data"}, {})}

PaperViews ==
    {Struct("PaperData", {"files", "folders"}, {"base_path"}),
     Struct("PaperUrlData", {"url"}, {})}

TermViews ==
    {Struct("Term", {}, {"term_id", "school_year", "term", "start_date", "end_date"}),
     Struct("TermEvent", {}, {"name", "start_date", "end_date"})}

TermListViews ==
    {Struct("TermList", {}, {"current_term", "terms"}),
     Struct("TermInfo", {}, {"term_id", "term", "school_year", "events"})}

NoticeViews ==
    {Struct("NoticeInfo", {}, {"title", "url", "date"}),
     Struct("JobFairEvent", {"id", "title", "place", "starts_at", "detail_url"}, {}),
     Mixed("Contributor", {"name", "avatar_url", "url", "contributions"}, {}, {})}

ToolboxViews ==
    {Struct("ToolboxConfig", {"tool_id"}, {"visible", "config_id"} \cup ToolFields)}

ToolDetailViews ==
    {Struct("ToolboxConfigDetail", {"config_id", "tool_id", "visible"}, ToolFields)}

VersionViews ==
    {Struct("Version", {},
            {"version_code", "version_name", "force", "changelog", "url"})}

ReportViews ==
    {Struct("Feedback", {"report_id"} \cup ReportFields, {})}

ReportItemViews ==
    {Struct("FeedbackListItem",
            {"report_id", "name", "network_env", "problem_desc", "app_version"}, {})}

Views ==
    UNION {AccountViews, FriendViews, ScheduleViews, AdjustRuleViews, CourseViews,
           CustomCourseViews, AdjustCourseViews, PictureViews, ScoreViews, CreditViews,
           PaperViews, TermViews, TermListViews, NoticeViews, ToolboxViews,
           ToolDetailViews, VersionViews, ReportViews, ReportItemViews}

=============================================================================
