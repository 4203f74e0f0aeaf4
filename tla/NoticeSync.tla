------------------------------ MODULE NoticeSync ------------------------------
(***************************************************************************)
(* cmd/common: the notices of the teaching office are kept in a table.  A  *)
(* loader started with the process reads every page of the site and stores *)
(* what is missing; when it ends, however it ends, it signals on an        *)
(* unbuffered channel, and only then is the periodic task added that reads *)
(* the first page, stores what is new and pushes it.  A stored notice is   *)
(* given to a goroutine that looks for adjusted days in it; nobody waits   *)
(* for that one, and nobody repeats it.                                    *)
(*                                                                         *)
(* A notice is its number in the order of publication; its title and url   *)
(* are the key of its row.  The task queue runs the periodic task alone,   *)
(* again after an error and again in an hour.                              *)
(***************************************************************************)
EXTENDS Naturals, Sequences, SequencesExt, FiniteSets

CONSTANTS
    Notices,         \* how many notices there may be
    PageLength,      \* notices on a page of the site
    AboutDays,       \* notices whose title says that courses are adjusted
    NoticeBudgets    \* bounds the model: notices, errors, full queues, restarts

ASSUME NoticeAssumption ==
    /\ Notices \in Nat
    /\ PageLength \in Nat \ {0}
    /\ AboutDays \subseteq 1 .. Notices
    /\ NoticeBudgets \subseteq [{"old", "publish", "fault", "full", "restart"} -> Nat]
    /\ \A left \in NoticeBudgets : left["old"] <= Notices

Notice == 1 .. Notices
Worker == {"loader", "sync"}

VARIABLES
    published,     \* notices on the site: 1 .. published, the newest first
    stored,        \* the rows of the notice table
    worker,        \* worker[w]: step, page and rows still to do of loadNotice and syncNoticeTask
    looking,       \* goroutines of ProcessAutoAdjustCourseNotice
    adjusted,      \* adjusted[n]: how often adjusted days were created from a notice
    pushes,        \* pushes[n]: how often a notice was handed to the push dispatcher
    noticeLeft,    \* what is left of the budget
    noticeLog      \* history: why a notice was not pushed, not stored in time, had no days made of it

noticeVars == <<published, stored, worker, looking, adjusted, pushes, noticeLeft, noticeLog>>

Resting == [step |-> "resting", page |-> 1, pages |-> 1, rows |-> <<>>]
At(step) == [Resting EXCEPT !.step = step]

(* GetNoticeInfo: a page of the site, and how many there are.              *)
Page(i) ==
    LET newest == [k \in 1 .. published |-> published + 1 - k]
    IN  SubSeq(newest, (i - 1) * PageLength + 1,
               IF i * PageLength < published THEN i * PageLength ELSE published)
Pages == (published + PageLength - 1) \div PageLength

(* Mutant of FirstStep: the task is added without waiting for the loader.  *)
FirstStep_NoWait(w) == IF w = "loader" THEN "begin" ELSE "resting"

(* The process starts: init starts the loader, main waits for its end.     *)
FirstStep(w) == IF w = "loader" THEN "begin" ELSE "not added"

NoticeInit ==
    /\ noticeLeft \in NoticeBudgets
    /\ published = noticeLeft["old"]
    /\ stored = {}
    /\ worker = [w \in Worker |-> At(FirstStep(w))]
    /\ looking = {} /\ adjusted = [n \in Notice |-> 0] /\ pushes = [n \in Notice |-> 0]
    /\ noticeLog = [before |-> published, loaded |-> {}, lost |-> {}, missed |-> {}, futile |-> {}]

Use(kind) ==
    /\ noticeLeft[kind] > 0
    /\ noticeLeft' = [noticeLeft EXCEPT ![kind] = @ - 1]

Row(w) == Head(worker[w].rows)
Becomes(w, state) == worker' = [worker EXCEPT ![w] = state]
NextRow(w) == [worker[w] EXCEPT !.step = "look", !.rows = Tail(@)]

(* loadNotice asks for the number of pages first.                          *)
LoadBegins ==
    /\ worker["loader"].step = "begin"
    /\ Becomes("loader", [At("page") EXCEPT !.pages = Pages])
    /\ UNCHANGED <<published, stored, looking, adjusted, pushes, noticeLeft, noticeLog>>

LoadPage ==
    LET at == worker["loader"] IN
    /\ at.step = "page"
    /\ Becomes("loader", IF at.page > at.pages THEN At("ready")
                         ELSE [at EXCEPT !.step = "look", !.page = @ + 1, !.rows = Page(at.page)])
    /\ UNCHANGED <<published, stored, looking, adjusted, pushes, noticeLeft, noticeLog>>

(* syncNoticeTask reads the first page only.                               *)
SyncNoticeTask ==
    /\ worker["sync"].step = "resting"
    /\ Becomes("sync", [At("look") EXCEPT !.rows = Page(1)])
    /\ UNCHANGED <<published, stored, looking, adjusted, pushes, noticeLeft, noticeLog>>

(* The rows of a page are through.                                         *)
EndOfPage(w) ==
    /\ worker[w].step = "look" /\ worker[w].rows = <<>>
    /\ Becomes(w, IF w = "loader" THEN [worker[w] EXCEPT !.step = "page"] ELSE Resting)
    /\ UNCHANGED <<published, stored, looking, adjusted, pushes, noticeLeft, noticeLog>>

IsNoticeExists(w) ==
    /\ worker[w].step = "look" /\ worker[w].rows # <<>>
    /\ Becomes(w, IF Row(w) \in stored THEN NextRow(w) ELSE [worker[w] EXCEPT !.step = "create"])
    /\ UNCHANGED <<published, stored, looking, adjusted, pushes, noticeLeft, noticeLog>>

(* Mutant of AfterCreate: the new notice is not pushed.                    *)
AfterCreate_NextRow(w) == NextRow(w)

AfterCreate(w) == IF w = "loader" THEN NextRow(w) ELSE [worker[w] EXCEPT !.step = "push"]

LookThrough(w) == looking' = looking \cup {Row(w)}

(* CreateNotice inserts, or updates the row of the same title and url; the *)
(* goroutine is started, and only the periodic task goes on to push.       *)
CreateNotice(w) ==
    /\ worker[w].step = "create"
    /\ stored' = stored \cup {Row(w)}
    /\ LookThrough(w)
    /\ Becomes(w, AfterCreate(w))
    /\ noticeLog' = IF w = "loader" THEN [noticeLog EXCEPT !.loaded = @ \cup {Row(w)}] ELSE noticeLog
    /\ UNCHANGED <<published, adjusted, pushes, noticeLeft>>

(* EnqueueAsync takes the push, or drops it when its queue is full.        *)
PushNotice ==
    /\ worker["sync"].step = "push"
    /\ Becomes("sync", NextRow("sync"))
    /\ \/ pushes' = [pushes EXCEPT ![Row("sync")] = @ + 1] /\ UNCHANGED <<noticeLeft, noticeLog>>
       \/ /\ Use("full")
          /\ noticeLog' = [noticeLog EXCEPT !.lost = @ \cup {Row("sync")}]
          /\ UNCHANGED pushes
    /\ UNCHANGED <<published, stored, looking, adjusted>>

(* Mutant of LoaderEnds: an early return sends nothing on the channel.     *)
LoaderEnds_Silent == At("done")

(* The deferred send, after an error too, waits for the receive of main.   *)
LoaderEnds == At("ready")

(* An error: the loader goes on with the next row or page, or is done when *)
(* it cannot even begin; the periodic task fails and is run again.  A      *)
(* failed insert may have been made all the same.                          *)
WorkerFails(w) ==
    LET at == worker[w]
        skipped == CASE w = "sync" -> {}
                     [] at.step = "begin" -> 1 .. published
                     [] at.step = "page" -> Range(Page(at.page))
                     [] OTHER -> {Row(w)}
    IN
    /\ at.step \in {"begin", "page", "look", "create"}
    /\ at.step = "page" => at.page <= at.pages
    /\ at.step = "look" => at.rows # <<>>
    /\ Use("fault")
    /\ Becomes(w, CASE w = "sync" -> Resting
                    [] at.step = "begin" -> LoaderEnds
                    [] at.step = "page" -> [at EXCEPT !.page = @ + 1]
                    [] OTHER -> NextRow(w))
    /\ \/ /\ noticeLog' = [noticeLog EXCEPT !.missed = @ \cup skipped]
          /\ UNCHANGED stored
       \/ /\ at.step = "create"
          /\ stored' = stored \cup {Row(w)}
          /\ noticeLog' = [noticeLog EXCEPT !.lost = @ \cup {Row(w)}, !.futile = @ \cup {Row(w)}]
    /\ UNCHANGED <<published, looking, adjusted, pushes>>

(* A panic in the middle of the loader's walk is recovered, and ends it.   *)
LoaderPanics ==
    /\ worker["loader"].step \in {"page", "look", "create"}
    /\ Use("fault")
    /\ Becomes("loader", LoaderEnds)
    /\ noticeLog' = [noticeLog EXCEPT !.missed = @ \cup (1 .. published)]
    /\ UNCHANGED <<published, stored, looking, adjusted, pushes>>

(* The deferred send meets the receive of main: the task is added, and     *)
(* runs at once.                                                           *)
NoticeReady ==
    /\ worker["loader"].step = "ready" /\ worker["sync"].step = "not added"
    /\ worker' = [w \in Worker |-> At(IF w = "loader" THEN "done" ELSE "resting")]
    /\ UNCHANGED <<published, stored, looking, adjusted, pushes, noticeLeft, noticeLog>>

(* Adjusted days are created of a notice, or it has none: the language     *)
(* model finds none, or the course service skips what it finds, as no date *)
(* of a term or as known.                                                  *)
DaysCreated(n) ==
    \/ /\ adjusted' = [adjusted EXCEPT ![n] = @ + (IF n \in AboutDays THEN 1 ELSE 0)]
       /\ UNCHANGED noticeLog
    \/ /\ n \in AboutDays
       /\ noticeLog' = [noticeLog EXCEPT !.futile = @ \cup {n}]
       /\ UNCHANGED adjusted

(* Mutant of ProcessAutoAdjustCourseNotice: what failed is tried again.    *)
ProcessAutoAdjustCourseNotice_Retried(n) ==
    /\ n \in looking
    /\ \/ looking' = looking \ {n} /\ DaysCreated(n) /\ UNCHANGED noticeLeft
       \/ /\ n \in AboutDays
          /\ Use("fault")
          /\ adjusted' \in {adjusted, [adjusted EXCEPT ![n] = @ + 1]}
          /\ UNCHANGED <<looking, noticeLog>>
    /\ UNCHANGED <<published, stored, worker, pushes>>

(* ProcessAutoAdjustCourseNotice: a notice about something else is passed  *)
(* over; the rest is three calls of other systems.                         *)
ProcessAutoAdjustCourseNotice(n) ==
    /\ n \in looking
    /\ looking' = looking \ {n}
    /\ \/ DaysCreated(n) /\ UNCHANGED noticeLeft
       \/ /\ n \in AboutDays
          /\ Use("fault")
          /\ noticeLog' = [noticeLog EXCEPT !.futile = @ \cup {n}]
          /\ adjusted' \in {adjusted, [adjusted EXCEPT ![n] = @ + 1]}
    /\ UNCHANGED <<published, stored, worker, pushes>>

(* The site has a new notice; the process ends and is started again.       *)
Publish ==
    /\ Use("publish")
    /\ published < Notices /\ published' = published + 1
    /\ UNCHANGED <<stored, worker, looking, adjusted, pushes, noticeLog>>

CommonRestarts ==
    /\ Use("restart")
    /\ worker' = [w \in Worker |-> At(FirstStep(w))]
    /\ looking' = {}
    /\ noticeLog' = [noticeLog EXCEPT !.before = published, !.missed = {},
          !.futile = @ \cup looking,
          !.lost = @ \cup (IF worker["sync"].step = "push" THEN {Row("sync")} ELSE {})]
    /\ UNCHANGED <<published, stored, adjusted, pushes>>

NoticeStep ==
    \/ LoadBegins \/ LoadPage \/ SyncNoticeTask \/ PushNotice \/ NoticeReady
    \/ \E w \in Worker : EndOfPage(w) \/ IsNoticeExists(w) \/ CreateNotice(w)
    \/ \E n \in Notice : ProcessAutoAdjustCourseNotice(n)

NoticeNext ==
    \/ NoticeStep
    \/ \E w \in Worker : WorkerFails(w)
    \/ LoaderPanics
    \/ Publish \/ CommonRestarts

(* Goroutines are scheduled and calls return; the task queue runs the      *)
(* periodic task again and again.                                          *)
LoaderStep ==
    \/ LoadBegins \/ LoadPage \/ NoticeReady
    \/ EndOfPage("loader") \/ IsNoticeExists("loader") \/ CreateNotice("loader")
SyncStep ==
    \/ SyncNoticeTask \/ PushNotice
    \/ EndOfPage("sync") \/ IsNoticeExists("sync") \/ CreateNotice("sync")
NoticeFairness == WF_noticeVars(LoaderStep) /\ WF_noticeVars(SyncStep)

NoticeSpec == NoticeInit /\ [][NoticeNext]_noticeVars /\ NoticeFairness

-----------------------------------------------------------------------------
(* Properties                                                              *)

NoticeTypeOK ==
    /\ published \in 0 .. Notices
    /\ stored \subseteq Notice /\ looking \subseteq stored
    /\ \A w \in Worker :
        /\ worker[w].step \in {"begin", "page", "look", "create", "push", "ready", "done",
                               "not added", "resting"}
        /\ Range(worker[w].rows) \subseteq 1 .. published
        /\ worker[w].page <= worker[w].pages + 1
    /\ adjusted \in [Notice -> Nat] /\ pushes \in [Notice -> Nat]

(* A notice that was on the site when the process started is not pushed as *)
(* news unless the loader has missed it through an error; and no notice is *)
(* pushed twice, over restarts and retries too (main.go:86-113, 188-236).  *)
PushedIsNews ==
    [][\A n \in Notice :
          pushes'[n] # pushes[n] =>
             /\ pushes[n] = 0 /\ pushes'[n] = 1
             /\ n > noticeLog.before \/ n \in noticeLog.missed]_noticeVars

(* A stored notice that was never pushed and is not about to be was stored *)
(* by the loader, or its push was lost: the queue was full, the insert     *)
(* reported an error, or the process ended between the insert and the push *)
(* (main.go:208-232).  One about adjusted days has had them created once,  *)
(* or is being looked through, or has none that the language model or the  *)
(* course service knows of, or that failed or died with the process: it is *)
(* never tried again (main.go:112, 212; the table has the notice by then). *)
StoredAccounted ==
    \A n \in stored :
        /\ pushes[n] = 0 =>
              \/ n \in noticeLog.loaded \cup noticeLog.lost
              \/ worker["sync"].step = "push" /\ Row("sync") = n
        /\ n \in AboutDays =>
              \/ adjusted[n] = 1
              \/ adjusted[n] = 0 /\ n \in looking \cup noticeLog.futile

(* A notice and the days in it are delivered as Delivery says, and each    *)
(* loss has one of the reasons that StoredAccounted names: one insert of a *)
(* row pushes the notice once or never, and has it looked through for      *)
(* adjusted days once or never, whoever else reads, restarts or retries    *)
(* (main.go:104-119, 195-233).  A notice without days counts as a loss.    *)
AboutToPush == {n \in Notice : worker["sync"].step = "push" /\ Row("sync") = n}

PushOutbox == INSTANCE Delivery WITH
    Item <- Notice,
    recorded <- stored,
    held <- AboutToPush,
    delivered <- {n \in Notice : pushes[n] = 1},
    lost <- noticeLog.loaded \cup noticeLog.lost

DaysOutbox == INSTANCE Delivery WITH
    Item <- AboutDays,
    recorded <- stored \cap AboutDays,
    held <- looking \cap AboutDays,
    delivered <- {n \in AboutDays : adjusted[n] = 1},
    lost <- {n \in AboutDays \cap noticeLog.futile : adjusted[n] = 0}

NoticesDeliverOnce == PushOutbox!Spec /\ DaysOutbox!Spec

(* However the loader ends, the periodic task is added in the end, and     *)
(* what stays on the first page is stored in the end                       *)
(* (main.go:71-76, 150-161).                                               *)
FirstPageStored ==
    <>[](/\ worker["loader"].step = "done"
         /\ Range(Page(1)) \subseteq stored)

=============================================================================
