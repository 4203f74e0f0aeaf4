# fzuhelper-server in TLA+

fzuhelper-server is the backend of a campus app: a stateless HTTP gateway (`api/`) in
front of ten RPC services (`cmd/`, `internal/`), which read and write MySQL
(`pkg/db`), keep copies in Redis (`pkg/cache`), fetch from the university's
registries, and do everything that need not delay a request in a background task
queue (`pkg/taskqueue`). Almost all that can go wrong and that a unit test hardly
reaches lies where those meet: requests and background tasks interleave without locks,
tasks replace each other, are retried and fail half-way, copies lag behind tables, a
process ends between two steps, midnight comes, and notifications must go out once.
That is what is modelled here.

## Inventory

| component | state | operations | what makes it correct | modules |
|---|---|---|---|---|
| task queue, `pkg/taskqueue/queue.go` | a map key -> task, a rate limiting work queue of keys (client-go), 2 workers | `Add`, `AddSchedule`, worker loop: get, load, execute, retry / delete / reschedule, done | tasks of a key are serial; a stored task is looked up again; a finished one-shot task never runs again; every task runs, periodic ones for ever | WorkQueue, TaskQueue, SerialExecutor, TaskQueueProofs |
| push dispatcher, `pkg/umeng/dispatcher.go` | a channel of 500, a daily count, two time stamps, one goroutine | `EnqueueAsync`, `run`, `wait` | accepted = sent, in order, once; daily quota; minimal interval; nothing waits for ever | UmengDispatcher, Delivery, JobsProofs |
| user, `internal/user` | friend relations (MySQL, two rows a pair), copies of friend lists, invitation codes and their owners (Redis), students' own rows and copies | bind, delete, list, verify, reorder, new code, cancel code, own data | mutual friendship; limits; stale copies heal; a used code is dead but after a named failure; own data has a bounded age | Friends, FriendsProofs, Lookups, ServicesProofs |
| course, `internal/course` | course and exam snapshot per student and term, claimed exam changes, adjusted days, custom courses (MySQL); copies of all of them and of terms and date (Redis) | refresh, exam comparison and push, adjusted days, custom courses, calendar, friend's courses | a change is pushed once; no change is swallowed; copies agree with tables but for named races | ExamNotify, Delivery, ExamNotifyProofs, AdjustCourse, AdjustCourseProofs, CourseCopies, CustomCourses, Lookups, ServicesProofs |
| academic, `internal/academic`, `cmd/academic` | scores per student, courses announced, records by teacher (MySQL); copies of scores (Redis) | scores, comparison and announcement, daily spreading of scores | only changes are announced, each is recorded; records catch up | ScoreNotify, ScoreNotifyProofs, TeacherScores, JobsProofs |
| common, `internal/common`, `cmd/common` | notices, tool configurations (MySQL); copies of terms, job fair, contributors | notice loader, periodic synchronisation, adjusted days in notices, choice of a configuration, lookups | a notice is pushed as news once, old ones never; exactly one configuration per tool answers | NoticeSync, Delivery, JobsProofs, Toolbox, Lookups, ServicesProofs |
| version, `internal/version`, `cmd/version` | visits of the day (Redis), of past days (MySQL), version files (cloud storage) | count a visit, daily flush | visits of a day get into the table | Visits, ServicesProofs |
| launch screen, `internal/launch_screen` | pictures (MySQL and cloud storage), the ids a student is shown (Redis) | create, change, delete, show, click | row and object agree, counters count, a new picture is shown | LaunchScreen, LaunchScreenProofs |
| classroom, `internal/classroom`, `cmd/classroom` | lists of empty rooms, copies of exam rooms (Redis) | two periodic tasks, two lookups | a day always has its lists | EmptyRooms, JobsProofs, Lookups, ServicesProofs |
| paper, `internal/paper` | copies of directory listings (Redis) | lookup, download address | bounded age | Lookups, ServicesProofs |
| oa, `internal/oa` | reports (MySQL) | create, read page by page | a walk through the pages misses and repeats nothing | Feedback, ServicesProofs |
| gateway, `api/`, and request merging, `pkg/singleflight` | calls in progress, merged by key | 81 routes, 71 methods: bind, call, convert the error, answer | a failure is not told as a success, nor an expired session as anything else | Calls, ServicesProofs, Fields, Edits |
| gateway monitor, `api/mw/monitor` | a window of recent answers, alerts by route | record, check | an alert is raised and ends | Monitor |
| id generator, `pkg/utils/snowflake.go` | last time stamp, sequence | `NextVal` | ids are unique | Snowflake, JobsProofs |
| messages: `kitex_gen`, `api/model`, and the code that copies between them, `api/handler`, `api/pack`, the services' builders | the structs of both sides | bind, send, read; build, show | a field arrives as it was sent; an edit changes what its editor has changed | ServiceMessages, GatewayForms, Fields, Edits |
| captcha, MCP server, clients of external systems, logging | none of their own | translation, pure functions, I/O | see *Not modelled* | - |

How they interact: a request handler reads Redis, then MySQL or a registry, answers, and
adds tasks under string keys (`putCourse:<id>`, `setFriendListCache:<id>`, ...); the task
queue runs them later, in another order than they were added, perhaps more than once,
and a task with the same key replaces one that waits. Tasks write MySQL and Redis and put
push functions into the dispatcher's channel. Several services are separate processes
and share the databases only. The hard behaviours are therefore: interleavings of
requests with requests and with tasks; check-then-act across two systems; replaced,
erased, retried and partially failed tasks; copies filled with what was read earlier; a
consumer that sleeps for hours; restarts; midnight and set-back clocks.

`PROJECT.json` lists every hazard at its line with the properties that watch it.

## Modules

```
SerialExecutor     what the queue promises: per key, the pending and the running task
   ^ implemented by                 ^ used by (INSTANCE ... WITH)
TaskQueue  EXTENDS WorkQueue      Friends  ExamNotify  ScoreNotify  AdjustCourse
   ^ TaskQueueProofs                CourseCopies  CustomCourses  Lookups
Delivery           what a table with a unique key promises: delivered once or lost for good
   ^ implemented by
ExamNotify, NoticeSync (twice: pushes, and the days found in notices), UmengDispatcher

MC_Services = LaunchScreen, CourseCopies, CustomCourses, Toolbox, Feedback, Lookups,
              Calls, Fields, Edits
MC_Jobs     = NoticeSync, Visits, TeacherScores, EmptyRooms, Monitor, Snowflake
MC_TaskQueue, MC_Friends, MC_ExamNotify, MC_ScoreNotify, MC_AdjustCourse: one module each
Edits       EXTENDS Fields EXTENDS GatewayForms EXTENDS ServiceMessages
JobsProofs = theorems about UmengDispatcher, NoticeSync, TeacherScores, EmptyRooms, Snowflake
ServicesProofs = theorems about Toolbox, Feedback, CustomCourses, CourseCopies, Lookups,
                 Visits, Calls
FriendsProofs, ExamNotifyProofs, ScoreNotifyProofs, AdjustCourseProofs, LaunchScreenProofs:
one module each
```

The services are not composed with the detailed queue but with the abstract executor that
the queue is proved to implement. That keeps their state spaces small and is the point
of the refinement: replaced, erased, retried and serial tasks are in `SerialExecutor`
exactly as callers see them. `MC_Services` and `MC_Jobs` put modules that share no state
into one run: a behaviour is one of one of them.

Many invariants have the form "the copy differs from the table only while ... or because
of ...". The causes are history variables that name the races and errors the code
accepts; any other way to a difference is an error. That is what makes such a property
say something, and the causes are at the same time the list of what may happen.

### WorkQueue, TaskQueue, SerialExecutor

`WorkQueue` is the contract of client-go's rate limiting queue as `queue.go` uses it
(external): `queue`, `dirty`, `processing`, keys `delayed` by `AddAfter` or
`AddRateLimited`, and `failures` (what `Forget` resets). Durations are abstracted: a delay
passes at some time; the back-off level is a counter that stops at `MaxFailures`, where
the delay is maximal. The overall token bucket only delays and is left out.

`TaskQueue` has `taskMap` and, for each worker, a program counter over the statements of
`worker()`; every access to the map or the queue is one action because no lock is held
between them. `Store` and `Enqueue` are the two statements of `Add`/`AddSchedule`. The
history variables (`submitted`, `begun`, `succeeded`, `failing`, `replaced`, `erased`)
exist for the properties only.

`SerialExecutor` is the abstract specification: `Submit` overwrites what is pending,
`Begin` runs it, `Succeed` clears what is pending *by then*, `Release` leaves it.

### Delivery

The second abstract specification, of what those who push promise: the record of an item - an
`exam_hash`, the row of a notice - is made once, whoever makes it takes the item on, and the item
is delivered once or lost for good. `TakeOn`, `Deliver` and `Lose` are those three; `Skip`
is a record made by somebody who does not deliver, as the loader of notices is for the pushes.
`ExamNotify` implements it (`DeliversOnce`: held is what tasks have claimed and not handed
over, lost is what the claims of failed tasks were) and so does `NoticeSync`, twice
(`NoticesDeliverOnce`: once for pushes, held being the row the periodic task is about to push,
once for the days in notices, held being what goroutines look through). The channel and the
dispatcher they push through implement it as well (`PushQueue`: held is what is in hand or in the
channel, lost is what found the channel full), so an item passes two deliveries, each of which
may drop it and neither repeats it. `ScoreNotify` does
not: its task announces first and records afterwards, so an announcement may be repeated, and
is not lost; its own properties say what holds there.

### UmengDispatcher

One action per statement group of `run` and `wait`. Time is a clock in ticks that runs on
between any two statements. `lastResetDate` is represented by whether it is today's
date, `lastRequestTime` by the ticks since, which the code only compares with the
interval. `QueueSize`, `DailyLimit`, `Interval`, `DayLength` are parameters.

Seen on the way: the quota of a day is checked before a sleep that may cross midnight, so
a day may see one send over its limit (`dispatcher.go:38` promises the limit;
`QuotaAndOne` states what holds); after a quota sleep the interval is not kept
(`dispatcher.go:139`; `SpacedWithinQuota`); one dispatched function sends up to three
HTTP requests (`groupcast.go`), so `UmengDailyLimit`, "每日最大请求数"
(`pkg/constants/umeng.go:26`), counts functions, not requests.

### Friends

`rows` is `follow_relation` restricted to active rows; `cached`, `volatile`, `codes`,
`mapping` are the Redis keys; `req[r]` is the program counter and the locals of request
`r`, so two requests and the background tasks interleave at every access to Redis or
MySQL. A transaction is one action. Abstractions: a list is a function from friends to
`order_seq`; a random code is new; the limit is one number (`MaxNum`)
rather than the row of `friend_config` that matches; requests that only read
(`VerifyUserFriend`, a list that its copy answers) are left out.

A Redis command whose error comes back may have been executed all the same, and the client
may resend it (`Command`); pipelines and transactions take effect whole or not at all. A
statement of MySQL that fails has not been done. The existence check and the count of the
limit are two commands and two steps (`BindLimit`, `BindCount`, and `BindTargetLimit`,
`BindTargetCount` for the other student): a copy that expires in between is read as an empty
list. Elsewhere the check and the read behind it are one step, because all that can come
between them is an error of a request that has done nothing yet.

`cause` records, for each student, which accepted race made the copy stale. One of them is
that an older list is stored between a bind and the next read, which the comment at
`bind_friend.go:72` rules out. `spent` are the codes that a bind has used, whatever became of
their removal, or that a cancel removed; `unremoved` those whose removal a bind failed to do; and
`unsure` those whose mapping was stored by a command that the client or the task's retry sends again.
`SpentCodeExplained` says that such a code whose removal is over works only if it is in one of
the last two, and `LimitHeldUnlessRaced` that a student
gets more friends than the limit only by a second bind at the same time, by a copy that was stale
already, or by one that expired under the check.

Seen on the way: `bind_friend.go:87` logs a failed removal and answers success, so the code of a
friendship can be used by others until it expires; `get_invitation.go:46` stores the code and
its mapping in one task, whose retry may store the mapping of a code that somebody has used since.

### ExamNotify

`published` is the registry, `fetched` a refresh between its fetch and its `taskQueue.Add`,
`row` the snapshot column of `user_course`, `offerings` the table with the unique
`exam_hash`; `step`, `todo`, `claimed` are the locals of the task a worker runs. An
exam hash is the change it is computed from. All processes share `offerings`; the model has
one process, so the tasks of one student are serial (with several replicas of the course
service they would not be). Graduate students' tasks under the same key store no exams
and are left out.

### ScoreNotify

`slice[f]` is the slice that fetch `f` returned; the check task of the student holds it and
reverses it in place, and a closure that waits in the dispatcher's channel (`mailbox`) still
reads it. `marks` is the registry, `row` the list in the `scores` table, `offerings` the
table `course_offerings`; `step` and `local` are the locals of the task a worker runs. A
list that equals the stored one stands for equal hashes. The check tasks of a student go
through `SerialExecutor`; the copy task, under its own key, is one step at any later time,
and the content of the copy is left out. What the other services do
to the dispatcher's queue is not seen here: it takes every push or drops it. The code only
logs a push that was dropped (`get_scores.go:180-185`) and records the course all the same, although the
comment at `get_scores.go:186` says that the record stands for a notification sent. So
`announced` and `dropped` are two sets, and `RecordedIsAnnounced` says that a
recorded course was announced or its push dropped, and that a course of either kind is recorded unless its
task is still to do it or has failed there.

`mishap` are the students whose task failed after it had reversed its slice. A retry then
compares opposite ends; the properties say what holds until that has happened, the run
`ScoreRetry` shows what happens then.

### AdjustCourse

`row` is the table `auto_adjust_course`, `copies` the Redis copies of the terms' lists.
A request is a record with its program counter and locals; an update reads the record's
term and writes in two statements, a creation inserts item by item. The list a cache task
stores travels inside the task; a refresh reads the table itself (`got`). The two kinds of
task have different keys (`KeyOf`), so the executor neither orders nor replaces one by the
other: a late cache task undoes a refresh (`auto_adjust_course.go:118` expects the copies
to be in step after a creation). A day decides its term, everything else about a record
is its `enabled`; deletions do not exist in the code. `Crash` drops requests and tasks and
keeps the table and Redis.

### LaunchScreen

A picture is a row and an object of the cloud storage that the row's url names; no
transaction spans the two. A request is the set of steps it has left (`call[c].todo`):
the two goroutines of an errgroup are two steps in any order, and a step that fails ends
the request. Rows are read, changed and saved whole, which is how a click undoes an
administrator's change, and how a deleted picture comes back (gorm's `Save` inserts when it
has updated nothing). `idList` and `lastId` are the Redis keys of `MobileGetImage`. Time
windows open and close (`WindowTurns`), keys expire (`KeyExpires`).

Seen on the way: the count of pictures is a query without a model and counts deleted rows
too, so a student who has no picture may be answered an error of a save of no rows
instead of "no picture"; the comment at `mobile_get.go:87` says that an equal newest id
means that nothing is new, but the id is kept per device and the lists per student
(`OldListExplained` names who vouches for whom).

### CourseCopies, CustomCourses

`CourseCopies`: a student's list of a term is in the registry, in `user_course` and in
Redis; a list is its version. Requests answer the copy, or fetch, answer, and add one task
for each of the two other places; a calendar subscription reads the copy or the table and
has what it found stored in Redis too. The key `putCourse:<student>` names no term, so the
put of one term replaces that of another. Exams and adjusted days, dealt with by the same
request, are `ExamNotify` and `AdjustCourse`.

`CustomCourses`: one student and one term; rows, the copy, and tasks of one key of two
kinds: a fill stores the list a request has read, a refresh reads the table. A change of a
row and the adding of its refresh are two steps.

### Toolbox

Each operation on the table is one statement and one action. `GetToolboxConfig` is the
choice: of the rows that match, the one with the highest score, where student, version and
platform share one number. The module keeps the widths of the code's score as constants
(`StudentIDMatch`, `MaxVersionNumber`) with the inequality that holds of them. The order
that the comment at `get_toolbox_config.go:39` promises is `MoreSpecific`; that the score
realises it is the property. The answer to an update is read by a statement of its own, so
it may already show another administrator's change.

### Feedback

Reports get their id before they are inserted, so they become visible in another order. A
reader goes from page to page by the last id it has seen. A report that was drawn earlier
but becomes visible behind a reader's token is not in that walk; a report that was there
when the walk began is, exactly once (`WalkComplete`).

### Lookups

The handlers that answer from a copy or else fetch and store it: `GetUserInfo` (both
registries), `GetTermsList`, `GetLocateDate`, `GetTermList`, `GetTerm`, `GetJobFair`,
`GetContributorInfo`, `GetExamRoomInfo` (both registries), `GetDir`. They share one set of
actions and differ by the sets they are in: who stores (the request, a goroutine, a task, a
periodic task), what a failed store is to the request that does it itself (its error, a line in the log, or, for
`GetTerm`, a success without the answer), whether a failed read
falls back to fetching. A behaviour is about one key of one of them. What is fetched is
the tick in which it was, so the age of an answer can be stated; `Told(recent)` keeps only
whether an answer was younger than `OldestAnswer`, `Failed(cause)` why there was none, and
`Empty(cause)` why a success was without one.

Seen on the way: when the copy of a term cannot be stored, `GetTerm` answers success without the
term it has just fetched (`internal/common/handler.go:146-148`), which the gateway dereferences
(`api/pack/common.go:46`); the same failure of `GetDir` is logged and the
listing answered. A student's data may be two weeks old, as a row that counts for a week is
copied for a week; `EXISTS` and `GET` are two commands and a copy that expires between them is
answered as an error, except by `GetLocateDate`; of two first requests of a student the
second is answered an error, as both create the row; an empty list of exam rooms is stored
for graduates only; an empty list of terms is stored and not believed.

### NoticeSync

The loader goroutine and the periodic task with their pages and rows (`worker`), the
handshake over an unbuffered channel before the periodic task is added, the goroutine
that looks for adjusted days in each stored notice, errors, a full push queue and
restarts. A panic of the loader, at any point of its walk, is recovered and reported as its end
(`LoaderPanics`). A look through a notice that yields no days is a success which creates nothing: the language model
finds none (`process_auto_adjust_course_notice.go:59-62`), or each item it finds is skipped
(`auto_adjust_course.go:122-134`). Such notices are `futile`; like the days of a look that failed they
are lost in `Delivery`, because the row keeps the notice from ever being looked through again.
Seen on the way: notices published while the process is down are loaded without
a push; when more than a page of notices appears within an hour, the rest is stored at the
next start only; a notice whose push or look-through was lost is never tried again, because
its row exists.

### Visits

`INCR` and `EXPIRE` are two commands, so a counter may lack an expiry. A counter lives 24
hours from its first visit; the flush of a day is due 24 hours and ten minutes after its
midnight. The run `VisitFlush` is what follows. The periodic task computes its delay with
`ChinaTZ` and `time.Local`; the model has one time zone.

### TeacherScores

Rows are versions of a student's marks; a run reads batches by student number and upserts
their records. A run started by hand (`-run-task`) may overlap the daily one and write what
it read earlier: the property is that the records catch up. Not in it: records of marks
that were withdrawn or renamed are never removed; a name longer than its column would fail
its batch in every run (the model's names fit).

### EmptyRooms

The two periodic tasks of `cmd/classroom`; the length of a day and the time between two runs
for today are parameters in ticks. A run has a set of dates to do, each date being one step
that may fail in four ways, and is not slower than a tick after the one it began in; lists
expire after two days. `missed` are the keys that the last run which came to a date
did not store: errors of the registry are logged and skipped, and nothing repeats them
before the next run, so two in a row can leave a gap. The property is about all others.

`RoomAssumption` says `TicksOfUpdate + 2 + left["restart"] < TicksOfDay`: a restart undoes the
dates of a run that has not ended, and the next run takes its own tick, so each restart can
put off the lists of a day by one tick. The bound is exact: with equality TLC finds a
list that expires on the morning of its day before a run has come to it. In the code it
is 24 hours against 6 and a run of minutes, so a service would have to be restarted
again and again for most of a day.

### Snowflake

`NextVal` holds a mutex, so it is one step unless the sequence wraps and it spins while
the clock goes on. The clock may be set back, and a process may start anew with it. The
device number comes from the configuration (`pkg/base/options.go:71`), which the processes
of a deployment share, so uniqueness across processes is not promised and not claimed.

### Monitor

One route; answers by age in ticks, the alert, the age of the last alert, one check per
tick. An alert with some requests in the window but fewer than `MinRequests` neither
ends nor repeats.

### Calls

The three tables of the module are the handlers' files, row by row: which method uses a
session and what becomes of its errors (`internal/*/handler.go`), what the gateway's
client does with the code (`api/rpc/*.go`), what each route answers to a request that does not
bind and what it needs of the answer (`api/handler`). The actions are the life of a call: the
gateway binds and sends, the service joins an execution of the same key or begins one
(`DoShared`), the execution ends in one of the ways its kind has, the reply is turned into
what the app is told; a session may expire and a call be lost at any point.

What `FailureTold` and `SessionTold` except is what the code does: six version methods
answer a failure as an empty success (the gateway does not read the code; an apk redirect
is then one without a target); `GetUserInfo` (`get_info.go:63`) and `UpsertCustomCourse`
lose an expired session; `GetPlan` and `GetNotices` call every registry error an expired
session (`get_plan.go:36`, `get_notice.go:35`); a merged call is answered by another device's
session. Also visible in the tables: `GetSetting` and `GetTest` dereference a missing result
(`internal/version/handler.go:159`, `:171`), Kitex turns the panic into an error;
`AndroidGetVersion`, `CreateImage`, `ChangeImage` and `GetTerm` (`api/pack/common.go:46`, after a
failed store of the term) dereference a missing part at the gateway, Hertz recovers with an HTTP 500; requests that do not bind are answered as
internal errors by four user routes and as plain text by two routes for reports. Refusals by the gateway's middleware
(no header, no login data) come before a call and are not in it.

### ServiceMessages, GatewayForms, Fields, Edits

The first two are the structs generated from the IDL, on the services' side and on the
gateway's. A struct is its fields by kind: required ones are always there, optional ones may
be absent, the others are values that cannot be told from their zero. `Held` is the one rule
of the generated code that matters here: absent put into a field that cannot be absent is zero.
The two sides are generated from different IDL files, so a field may have another kind or
name on the other side.

`Fields` has the copies between them that are written by hand: for each route the struct
the handler reads and the one it fills (`Copy`), the fields it knows under another name
(`Renaming`) and those it forgets (`Leaving`), and the same for what the services build of
rows and answers of the school. A behaviour is the way of one field through one copy:
`BindField`, `SendField`, `ReadField` for a request, `BuildField` and `ShowField` for an answer.
`Edits` puts these copies together. Tool configurations, properties of pictures, custom courses,
adjusted days and versions are records that somebody is shown, changes in one field and sends
back; all but the adjusted days are stored whole. Two editors do so at the same time, with any
field of any of these records and any route that sets it; what one of them is shown, of the record or of
an older copy in Redis, has gone through a builder and the gateway, what he sends
through the binding, the gateway's copy and the service's, and `Stored` is what the
column then has: SQL NULL, the default colour, an empty text, or what it had when a
partial update names nothing.

`FieldsExplained` is the two parts of what the compiler does not check and the tests hardly
look at. `ArrivesAsSent`: what is at the end of a copy is the field that was put in at its start.
`EditsExplained`: a record holds what the last editor who changed a field has put there, although others have
stored the record whole since, unless one of those had read it before and has put the older
value back; what is emptied is empty, what is set to false is false, and an editor is shown
what the record holds. The upload of older apps is the exception, because it knows no `force`.

The tables show besides, without any claim of a property that it should be otherwise:

- the old upload route loses `force` (`api/handler/custom/url_service.go:80`), the old
  version routes do not tell it;
- `ChangeImageProperty` sends a link in any case and so clears one that is not named;
- an absent `duration` is dereferenced by the picture service (`create_image.go:60`,
  `update_image_property.go:38`);
- `setting` of `GetTest` and `college` of `MobileGetImage` are read by nobody;
- a graduate's course has no adjustments, remark or kind of examination; lists of tools
  do not tell ids; a column that is NULL is shown as a zero day.

Two structs of the course service that share their names with structs
of the common service are called `CourseTermListRequest` and `CourseTermListResponse`. Left
out are `base` (it is in `Calls`), the bytes of pictures, which are streamed, answers that
are passed on without a struct of the gateway's, and the cloud setting, one text whose comments are
cut out when it is read.

Seen on the way: `BuildScoresYjsy` assigns the placeholder for a score that is recorded
once to its input, not to what it returns, so it is not shown
(`internal/academic/pack/score.go`).

## Runs

| run | module | checks | distinct states |
|---|---|---|---|
| TaskQueue | MC_TaskQueue | `SerialPerKey`, `NoStrandedTask`, `SucceedsOnce`, `TasksRun`, `ImplementsExecutor` | 34 150 |
| TaskQueueBackoff | MC_TaskQueue | `BackoffStartsAtBase`: does a one-shot task start its back-off at 5 ms? No: `queue.go:112` does not `Forget` | violation |
| UmengDispatcher | UmengDispatcher | `AcceptedInOrder`, `QuotaAndOne`, `SpacedWithinQuota`, `EventuallySent` | 84 822 |
| Friends | MC_Friends | `MutualFriends`, `StaleExplained`, `SpentCodeExplained`, `LimitHeldUnlessRaced`, `CopyHeals` | 321 141 |
| ExamNotify | MC_ExamNotify | `DeliversOnce`, `CommitsClaimed` | 466 004 |
| ExamDuplicate | MC_ExamNotify | `DuplicateIsHandled`: does a duplicate hash mean somebody else handles the change? Not after the task's own failure | violation |
| ScoreNotify | MC_ScoreNotify | `AnnouncesOnlyChanges`, `RecordedIsAnnounced` | 321 154 |
| ScoreRetry | MC_ScoreNotify | `OnlyChangesAnnounced`: are only changed scores announced? Not by the retry of a task that has reversed its slice | violation |
| AdjustCourse | MC_AdjustCourse | `StaleExplained`, `ShownIsApproved`, `CopyHeals` | 166 505 |
| Services | MC_Services | `PicturesKept`, `OldListExplained` (LaunchScreen), `BehindExplained` (CourseCopies), `CustomCopyExplained` (CustomCourses), `AnswerMostSpecific` (Toolbox), `WalkComplete` (Feedback), `AnswersExplained` (Lookups), `FailureTold`, `SessionTold` (Calls), `FieldsExplained` (Fields, Edits) | 1 308 730 |
| Jobs | MC_Jobs | `PushedIsNews`, `StoredAccounted`, `NoticesDeliverOnce`, `PagesStored` (NoticeSync), `RecordFallsOnlyRenewed` (Visits), `RecordsCatchUp` (TeacherScores), `RoomsKept` (EmptyRooms), `AlertRecovers` (Monitor), `RepeatsExplained` (Snowflake) | 708 197 |
| VisitFlush | MC_Jobs | `FlushRecords`: has the table a day's visits when the flush has succeeded? Not when the first visit came before ten past midnight | violation |

Each module states one type invariant. Those of the modules with proofs are theorems; the
others hold on the instances of these runs and are not repeated in the configurations.

Bounds. `TaskQueue`: two workers as in the code, two clients, two tasks of one key (so
that one replaces, erases or follows the other) and a periodic one; failures are not
bounded, only their counter is capped. `UmengDispatcher`: four tasks, more than channel
(2) or quota (2) hold; a day longer than three intervals, so that more sends fit into
it than the quota and one. `Friends`: three students and one who holds a code; the scenarios of
`MC_Friends` bound how many requests, failures and expiries happen so that each pair of
operations that touches the same state meets with two in flight. `ExamNotify`: two
students who see the same changes, two exams of one term (so that a task has a second
claim to fail at), a second term without exams (so that a refresh of another term
replaces the task), one error. `ScoreNotify`: either two students with the same two courses and a
fetch each while two scores change, or one student with two fetches, a changed score, a
new course and an error. `AdjustCourse`: two terms with a day each and a day in no term,
two requests at a time, five scenarios that pair readers, updates, creations, errors, an
expiry and a crash.

`Services` and `Jobs` take scenarios in the same way (`MCLaunchBudgets` and its like: how many
of each kind of event; what is not named does not happen). LaunchScreen: two requests at a
time, two pictures at most, every pair of operations that saves or deletes one row.
CourseCopies: two terms of one student, two versions, three requests of which two are in
progress. CustomCourses: two ids and two contents, so that a create can collide. Toolbox:
three rows, two tools, a version above the largest one. Feedback: four ids, pages of one
report, two writers, one reader who walks twice, in either order. Lookups: a life of two ticks and a clock of
seven, which is longer than the oldest answer of every lookup (six, besides the time of the request itself), three requests, one
error or one restart. Calls: two devices with two sessions, every route and method. Fields: every copy,
every field, absent, zero and given. Edits: two editors, every field of the five kinds of records, every
value the other could have put or read.
NoticeSync: pages of two, four notices, two of them about adjusted days. Visits: days of
three ticks, the flush in the second, four days. TeacherScores: three students in batches of
two, a student whose mark changes and one who gets a course. EmptyRooms: days of eight ticks with
a run for today every two, which is the code's 24 hours and six, so that one restart
satisfies the assumption; two days ahead instead of six (the runs of the days further ahead are
repeated before they matter); 23 ticks, three days, which is longer than a list lives. Monitor: a window
of two ticks, two answers of a kind a tick. Snowflake: a sequence of two, four times, any
jump. The budgets are named constants of the modules; nothing else stops.

Runs set `CHECK_DEADLOCK FALSE` because the systems may be idle when nobody calls them
or the budget is spent.

Fairness. Workers and the queue's delay loop are goroutines that are always scheduled,
and every `Execute` returns (database and Redis clients have timeouts): weak fairness
for each worker's step and each delay. The dispatcher goroutine and time go on. A request
in progress goes on. In `Jobs` (`JobsFairness`): the steps of the notice loader and of the
synchronisation, the daily run of the scores, the monitor's check and its clock; that is
what `TaskQueue`'s `TasksRun` gives a periodic task and what the runtime gives a
goroutine. No fairness is assumed for calls, errors, expiry of codes or anything
the environment may simply not do; a list's time to live does end. Failures are not bounded by
fairness: in `TaskQueue` a task may fail for ever, and the liveness properties hold
nevertheless.

## Proofs

The modules named `...Proofs` hold for every value of the constants that satisfies the
assumptions of the module they extend.

- `TaskQueueProofs`: `TypeCorrect`, `Serial`, `NeverStranded`, `SuccessIsFinal`, `Refinement`.
  None of the three invariants is inductive: that no two workers hold a key rests on
  `processing` being exactly the keys the workers hold (`ClaimInv`), on the queue having no
  duplicates and being exactly the dirty keys nobody processes (`QueueInv`); that a finished
  task is not run again rests on the map containing a finished one-shot task only while the
  worker that ran it is about to delete it (`TaskInv`, `SuccessInv`). The conjunction `IInv`
  is inductive. `Refinement` is `Spec => Executor!Spec` under the mapping
  `pending <- taskMap`, `running <-` the task of the worker that holds the key. It needs
  `IInv`, because `Executor!Begin` requires that nothing of the key runs.
- `AdjustCourseProofs`: `TypeCorrect`; `ApprovedShown`: what copies show as enabled has been
  enabled. A list travels from the table into a request, its cache task, the running task
  and the copy, or into a refresh and the copy, so the invariant says of each of these places
  that the list is `Good`: of one term and with approved enabled records. Two more facts are
  needed: the record that an update is about to write still exists (`RequestInv`), else
  `TypeOK` would not survive `WriteUpdate`; and a task runs under its own key (`TaskInv`),
  else `StoreCopy` would put a list into another term's copy. `StaleAccounted` says where a
  difference between a copy and the table comes from: whoever has changed the table will
  refresh (`RefreshInv`), a list that is on its way to the copy is either what the table holds
  or has a cause of its own (`Vouched`), and while a refresh is `Coming` the copy may be anything.
- `FriendsProofs`: `TypeCorrect`; `FriendshipMutual`; `SpentCodeAccounted`; `LimitHeld`;
  `StaleAccounted`. The types alone are inductive only with the form of a request at each of its
  statements (`Form`) and of the tasks under each kind of key (`QueueOK`): a request of two
  students who are the same, or an entry of oneself, would break `MutualFriends`. That a used
  code comes back only in the ways named needs that a code which is on its way to the table of codes is on
  one way only (`UsedOnce`): one task stores it, and until that task has got to its last command no request
  holds the code, unless the command had its effect and is sent again (`unsure`). A bind that has
  used a code goes on until it removes it or is in `unremoved` (`RemovalGoesOn`). `LimitHeld` is an action property and uses the state invariant that what a
  bind has checked still holds while nobody else has written (`ChecksHold`); adding one
  friend to fewer than `MaxNum` is cardinality, for which students must be finitely many.
  `StaleExplained` is not inductive because it looks at a copy as a whole: a copy may be wrong
  about two friends and the task under way put only one right. `EntriesExplained` says it of each
  entry of a list: a request will drop the copy, or a delete of just this pair is still to
  run (`Remedy`), or there is a cause.
- `ExamNotifyProofs`: `TypeCorrect`; `OnceNotified`; `ClaimsAccounted`; `NothingSwallowed`; `Refinement`; `LostForGood`. That a
  change is handed over once rests on the unique `exam_hash` having all that are handed over or
  about to be, so `NotifiedOnce` and `ClaimAccounted` are proved together. That a commit skips no change is about
  the comparison, which was made some statements before: `ComparedInv` says that until the
  commit the snapshot is what was compared, and each difference is still to be
  claimed or is in the table. `Refinement` is `Spec => Outbox!Spec`. Its mapping makes one set of
  what all students' tasks hold (`Held`), so each step needs that the sets are disjoint and that
  nobody holds what is handed over, the two halves of `NotifiedOnce`: without them a hand-over by one
  task would leave the change held by another. `ClaimAccounted` makes a claim of what is not in the
  table an item nobody holds. `LostForGood` is what the refinement gives back: the
  steps of `Delivery` keep its three places apart, and by the mapping a lost claim is never handed
  over, which the detailed module does not say anywhere.
- `ScoreNotifyProofs`: `TypeCorrect`; `OnlyChangesTold`; `RecordedAreTold`. The comparison pairs positions of
  two lists, so the proof is about lists: a list only ever gets longer at its front and changes in place,
  so of two versions of a student's list the older one is, name by name, a tail of the
  newer one, and equal positions counted from the end are equal courses. That holds of what the
  registry has, what requests and tasks hold, and what is stored, as long as no task of the
  student has failed with its slice reversed (`mishap`). `RecordedAreTold` has both directions: nothing
  is recorded without its push, and no push is without its record but at the step between the two. Notifications name their course because
  the slices they read are then the right way round (`Straight`) whenever one can be sent. `TypeCorrect` alone
  assumes that the lists the model begins with name each course once (`Whole`).
- `JobsProofs`, the dispatcher: `DispatcherTypeCorrect`; `SentInOrder`: accepted = sent, in hand, in the
  channel (the step of `Take` needs that a sequence is its head followed by its tail);
  `QueueDelivers`: `Spec => PushQueue!Spec`, where `OncePlaced` says that a task is in one of the
  three places and once (the run checks the order, this theorem that nothing is sent twice); `DayBounded`:
  the count the code keeps bounds the sends of today up to the one whose `wait()` began
  yesterday (`QuotaInv`); `SendsSpaced`: the code's time stamp is never younger than the
  last send (`SpacingInv`).
- `JobsProofs`, notices: `NoticesTypeCorrect`; `NoStoredNoticeForgotten`; `OnlyNewsPushed`; `NoticesDelivered`. The
  argument is that of the walk through pages which move while one walks: `LoaderComes` says
  of each notice of before the start that it is stored, was missed, is on the page at hand or
  lies beyond it (`FurtherOn`), and at the end beyond the first page, the only one the periodic
  task reads. Besides, only one of the two workers stores at a time (`OneWorks`), so what it finds missing
  is missing when it inserts (`CreatesNew`). The assumption `left["old"] <= Notices` says
  that there are as many notices as the scenario begins with. `NoticesDelivered` is the refinement of
  `Delivery` under both mappings, action by action (`InsertTakesDaysOn`, `CreateDelivers`,
  `PushDelivers`, `RestartLoses` and so on). It needs that what is counted as lost while it
  was looked through was stored and is not being looked through any more (`FutileInv`), which `NoticeInv` does not say:
  else a notice that somebody still looks through could be lost a second time.
- `JobsProofs`, scores by teacher: `ScoresTypeCorrect`; `RecordsAreOfRows`; `SetBackExplained`. The run
  checks that the records catch up, which is liveness; what is proved is the safety below it. A
  batch is never ahead of the rows it was read from (`BatchesRead`), so what is
  written are marks the student has had (`RecordsWereMarks`), and writing a row that is still the
  current one sets nothing back: records fall behind by a change or by a late run only
  (`OnlyLateSetsBack`). `TeacherScoresAssumption` numbers versions and scores from 1.
- `JobsProofs`, empty rooms: `RoomsTypeCorrect`; `ListsLast`. `KeptAhead` and `KeptToday` bound the age of
  a list by where the two runs are and by how often they may have been put off (`PutOff`); the worst
  case is a run for the days ahead that has not come to a day when it begins (`Late`).
  The proof uses `RoomAssumption` and nothing else about the lengths.
- `JobsProofs`, ids: `IdsFit`, and `IdsUnique`: an id is handed out twice only in a millisecond
  lived through twice. The code remembers the last time and sequence only, so the
  invariant `IssuedBehind` says of every id ever handed out where it lies relative to these:
  of times lived through once no id is ahead of the clock, and one of the current
  millisecond implies that the generator remembers this millisecond and, unless it spins,
  a sequence that is not smaller.
- `ServicesProofs`, configurations: `AnswersMostSpecific`. Inductive is only that no two stored rows are equal
  in the columns of the unique key (`KeysDiffer`). The rest is arithmetic: with
  `StudentIDMatch > 2 * MaxVersionNumber + 1` equal scores mean equal keys and a higher score
  means the more specific row; that there is a highest score is by the well-foundedness of
  the natural numbers.
- `ServicesProofs`, pages of reports: `FeedbackTypeCorrect`; `NothingMissed`. `WalkOf` says of a reader that
  what has been returned lies up to the token, and what was there at the start and is
  still to be returned behind it; that a page is the beginning of what lies behind its token
  (`FirstOfFacts`, `PageFacts`) is by finite cardinality and well-foundedness.
- `ServicesProofs`, custom courses: `CustomTypeCorrect`; `CustomCopyAccounted`. The property is
  inductive together with the types and with a task running only while one waits: the success of a
  refresh can then erase only what its cause names.
- `ServicesProofs`, course lists: `CourseTypeCorrect`; `CourseCopiesAccounted`. Needed besides is that a task is under
  its own key (`OwnKeys`): the store under a term's key is of that term, so what it
  writes can be compared with what the student was answered of it.
- `ServicesProofs`, answers from a copy: `LookupsTypeCorrect`; `AnswersAccounted`. `LookupsInv` bounds, at every place a
  fetched answer passes through, how long ago it was fetched: in a request, which lasts no longer
  than two ticks (`OnItsWay`), in the row, in a task when it was added, in a goroutine, in
  the periodic task and in the copy until it expires. The bounds add up to
  `OldestAnswer`. That contributors are never answered with an expired copy is that no
  step takes theirs away.
- `ServicesProofs`, calls: `CallsTypeCorrect`; `FailuresTold`; `SessionsTold`. First the tables are reduced to what the
  rules need of a row (`ServiceRow`, `RPCRow` and the like), then `Underway` follows a call: until
  an execution has served it nothing is known of it, it keeps the leader whose session
  decided, and an expired session stays so. `CallInv` is the types, `Underway` of every call,
  and the two properties.
- `LaunchScreenProofs`: `LaunchTypeCorrect`; `PicturesAccounted`; `OldListsAccounted`. `PicturesKept`
  speaks of a quiet system and `OldListExplained` of Redis alone, so neither is inductive. `LaunchInv` says of a request what it will still do
  about a name: put it into a row, store its object, take the object away, take it out of
  the rows (`Adds`, `Uploads`, `Removes`, `Drops`). A stored object is named by a row or someone is to
  add or to remove it (`StoredIsNamed`), the object of a named row is stored or someone is to
  store it or to drop the name (`NamedIsStored`). The steps of one request come in any order,
  so this needs what one step may leave to the other: who is to remove an object is to drop its
  name as well, or the name is in no row (`RemovesLast`); what a change of path has removed
  while the row is still to be saved is not stored again (`RemovedIsGone`). That a step about one name disturbs no other rests on a name having at most one
  picture, be it in a row or in a copy that a request holds (`OneOwner`), and on a new name being
  nobody else's (`NamesApart`, `NamesNew`). Of the rows `CopiesFollow` says that a copy which
  will be saved is as new as its row and differs from it by what the request changes, or the row
  has been saved since; the counts follow (`Counted`). `OldListed` and `OldListAhead` compare each list with
  the newest id, in Redis and in requests that have yet to store it.

Only model-checked: every liveness property (fairness and ENABLED are beyond the prover), and
`FieldsExplained`: of the tables and of two editors, whose fields share nothing, TLC goes through every
case, and more editors would only repeat what two do. Every other invariant and action property
of the passing runs is a theorem.

## Not modelled

- Of the generated code (`kitex_gen`, `api/model`): types, bytes, `String`, and the clients and
  servers, which only pass on. The structs and the kinds of their fields are modelled.
- Clients of external systems (`pkg/ai`, `pkg/cos`, `pkg/oss`, `pkg/kafka`, `pkg/github`): one
  call each. Where an operation depends on their outcome it is a nondeterministic choice in the
  module of that operation.
- The MCP server translates tool calls to RPC; the captcha service is a pure function of an
  image. Their calls are in `Calls` where they are the gateway's.
- Tokens (signatures checked without state), routing, configuration, logging, tracing, the
  set-up of connections.
- What a text says: calendars, static pages, the wording of notifications, the values of
  answers (that their fields are told is `Fields`). The files and settings of the version service are read and replaced whole, by
  administrators, in cloud storage; the terms' row of a student is written whole by one task.
- Several replicas of one service. The models have one process per service; where replicas
  would differ it is said above (`ExamNotify`, `Snowflake`).

The map therefore covers the hand-written services, the gateway and the structs between
them, and few of the counted lines outside those.

## Plan

Done: everything above. What would come next:

1. Replicas: two processes of the course service that share `exam_hash`, whose tasks of one
   student are then not serial.
2. The dispatcher composed with its producers, so that a dropped push is a full channel and
   not a choice.
3. The version service's files and settings, if they ever become more than one object each.
