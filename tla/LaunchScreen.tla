----------------------------- MODULE LaunchScreen -----------------------------
(***************************************************************************)
(* internal/launch_screen: pictures shown when the app starts.  A picture  *)
(* is a row of launch_screen and an object of the cloud storage that the   *)
(* row's url names; no transaction spans the two.  Rows are read, changed  *)
(* and saved whole, also to count one show or one click.  The ids a        *)
(* student has been shown are kept in Redis, with the newest id of all as  *)
(* a sign that they are still complete.                                    *)
(*                                                                         *)
(* One type of picture and one device.  A row's regex is the set of        *)
(* students it matches; all other attributes are left out, as they travel  *)
(* with it.  The admin's password is checked before anything is read.      *)
(***************************************************************************)
EXTENDS Naturals, Sequences, FiniteSets

CONSTANTS
    Viewer,          \* students
    Call,            \* requests in progress at a time
    NoList,          \* a student has no list in Redis
    Audiences,       \* the audiences a picture may be given
    LaunchBudgets    \* how often what may happen, bounds the model

LaunchKinds == {"create", "path", "property", "delete", "click", "view", "fault", "air", "expire"}

ASSUME LaunchAssumption ==
    /\ Audiences \subseteq SUBSET Viewer
    /\ LaunchBudgets \subseteq [LaunchKinds -> Nat]

VARIABLES
    picture,       \* the table: row i has the automatic id i
    object,        \* the objects stored, by name
    names,         \* how many names GenerateImgName has given out
    onAir,         \* ids whose time window contains now
    idList,        \* idList[v]: the ids cached for a student
    lastId,        \* the newest id cached for the device
    call,          \* call[c]: the steps a request has yet to do and its locals
    launchLeft,    \* what is left of the budget
    excused,       \* history: names that an error or a race left behind
    overwritten,   \* history: ids that an older copy of the row was saved over
    clicks, shows, \* history: clicks and shows answered, by id
    lists          \* history: made[v]: newest id when idList[v] was read; late: students whose
                   \* list is older than the id their own request has stored; by: who has set lastId

launchVars == <<picture, object, names, onAir, idList, lastId, call, launchLeft,
                excused, overwritten, clicks, shows, lists>>

Ids == DOMAIN picture
Live == {p \in Ids : picture[p].live}
Idle == [op |-> "none", todo |-> {}]
NoId == 0       \* no row, or no key: automatic ids start at 1
Quiet == \A c \in Call : call[c] = Idle

(* GetLastImageId: Last() skips deleted rows.                              *)
GetLastImageId == IF Live = {} THEN NoId ELSE CHOOSE p \in Live : \A q \in Live : q <= p

LaunchInit ==
    /\ picture = <<>> /\ object = {} /\ names = 0 /\ onAir = {}
    /\ idList = [v \in Viewer |-> NoList] /\ lastId = NoId
    /\ call = [c \in Call |-> Idle]
    /\ launchLeft \in LaunchBudgets
    /\ excused = {} /\ overwritten = {} /\ clicks = <<>> /\ shows = <<>>
    /\ lists = [made |-> [v \in Viewer |-> 0], late |-> {}, by |-> {}]

Spend(kind) ==
    /\ launchLeft[kind] > 0
    /\ launchLeft' = [launchLeft EXCEPT ![kind] = @ - 1]

Start(c, request) == call[c] = Idle /\ call' = [call EXCEPT ![c] = request]

(* A request does one of the steps it has left; more may follow from it.   *)
(* The two goroutines of an errgroup are two steps in todo, and the        *)
(* request ends when none is left.                                         *)
Goes(c, step, request) ==
    LET left == (call[c].todo \ {step}) \cup request.todo IN
    /\ step \in call[c].todo
    /\ call' = [call EXCEPT ![c] = IF left = {} THEN Idle ELSE [request EXCEPT !.todo = left]]

Then(c, steps) == [call[c] EXCEPT !.todo = steps]

(* AddImageListShowTime: the rows a student is shown, each counted once.   *)
Shown(ps) == [p \in ps |-> [picture[p] EXCEPT !.shows = @ + 1]]

(* Save of rows read before: they replace what is there, and a row that    *)
(* was deleted meanwhile is inserted again under its id (gorm's Save:      *)
(* nothing updated, so INSERT ... ON DUPLICATE KEY UPDATE, all columns).   *)
Saved(copies) ==
    [p \in Ids |-> IF p \in DOMAIN copies
                   THEN [copies[p] EXCEPT !.live = TRUE, !.writes = picture[p].writes + 1]
                   ELSE picture[p]]

Older(copies) == {p \in DOMAIN copies : copies[p].writes # picture[p].writes}

Save(copies) ==
    /\ picture' = Saved(copies)
    /\ overwritten' = overwritten \cup Older(copies)
    /\ excused' = excused \cup UNION {{picture[p].url, copies[p].url} : p \in Older(copies)}

(* CreateImage: insert the row and upload the object side by side.         *)
CreateImage(c, audience) ==
    /\ Spend("create") /\ names' = names + 1
    /\ Start(c, [op |-> "create", todo |-> {"insert", "upload"},
                 url |-> names + 1, audience |-> audience])
    /\ UNCHANGED <<picture, object, onAir, idList, lastId, excused, overwritten, clicks, shows, lists>>

Insert(c) ==
    /\ Goes(c, "insert", Then(c, {}))
    /\ picture' = Append(picture, [live |-> TRUE, url |-> call[c].url, clicks |-> 0, shows |-> 0,
                                   audience |-> call[c].audience, writes |-> 0])
    /\ onAir' = onAir \cup {Len(picture) + 1}
    /\ clicks' = Append(clicks, 0) /\ shows' = Append(shows, 0)
    /\ UNCHANGED <<object, names, idList, lastId, launchLeft, excused, overwritten, lists>>

UploadImg(c) ==
    /\ Goes(c, "upload", Then(c, {}))
    /\ object' = object \cup {call[c].url}
    /\ UNCHANGED <<picture, names, onAir, idList, lastId, launchLeft, excused, overwritten,
                   clicks, shows, lists>>

(* UpdateImagePath reads the row; then the old object is removed and the   *)
(* new one uploaded beside the save of the row with the new name.          *)
UpdateImagePath(c, p) ==
    /\ Spend("path") /\ names' = names + 1
    /\ Start(c, [op |-> "path", todo |-> {"remove", "save"}, old |-> picture[p].url,
                 url |-> names + 1, copies |-> [q \in {p} |-> [picture[p] EXCEPT !.url = names + 1]]])
    /\ UNCHANGED <<picture, object, onAir, idList, lastId, excused, overwritten, clicks, shows, lists>>

DeleteImg(c) ==
    /\ Goes(c, "remove", Then(c, IF call[c].op = "path" THEN {"upload"} ELSE {}))
    /\ object' = object \ {call[c].old}
    /\ excused' = IF call[c].old \in object THEN excused ELSE excused \cup {call[c].old}
    /\ UNCHANGED <<picture, names, onAir, idList, lastId, launchLeft, overwritten, clicks, shows, lists>>

(* UpdateImageProperty: reads the row, replaces its properties, saves it.  *)
UpdateImageProperty(c, p, audience) ==
    /\ Spend("property")
    /\ Start(c, [op |-> "property", todo |-> {"save"}, url |-> picture[p].url,
                 copies |-> [q \in {p} |-> [picture[p] EXCEPT !.audience = audience]]])
    /\ UNCHANGED <<picture, object, names, onAir, idList, lastId, excused, overwritten,
                   clicks, shows, lists>>

(* AddPointTime: reads the row, adds one, saves it.                        *)
AddPointTime(c, p) ==
    /\ Spend("click")
    /\ Start(c, [op |-> "click", todo |-> {"save"}, url |-> picture[p].url,
                 copies |-> [q \in {p} |-> [picture[p] EXCEPT !.clicks = @ + 1]]])
    /\ UNCHANGED <<picture, object, names, onAir, idList, lastId, excused, overwritten,
                   clicks, shows, lists>>

(* The save of a row or of the rows a student is shown, and the answer.    *)
SaveRows(c) ==
    LET seen == DOMAIN call[c].copies IN
    /\ Goes(c, "save", Then(c, {}))
    /\ Save(call[c].copies)
    /\ clicks' = [p \in Ids |-> clicks[p] + IF call[c].op = "click" /\ p \in seen THEN 1 ELSE 0]
    /\ shows' = [p \in Ids |-> shows[p] + IF call[c].op = "view" /\ p \in seen THEN 1 ELSE 0]
    /\ UNCHANGED <<object, names, onAir, idList, lastId, launchLeft, lists>>

(* DeleteImage: Take, then the soft delete, then the object of the row     *)
(* that was taken.                                                         *)
DeleteImage(c, p) ==
    /\ Spend("delete")
    /\ Start(c, [op |-> "delete", todo |-> {"delete"}, url |-> picture[p].url,
                 old |-> picture[p].url, pic |-> p])
    /\ UNCHANGED <<picture, object, names, onAir, idList, lastId, excused, overwritten,
                   clicks, shows, lists>>

(* Mutant of DeleteRow: the object is not removed.                         *)
DeleteRow_KeepsObject(c) ==
    LET p == call[c].pic IN
    /\ Goes(c, "delete", Then(c, {}))
    /\ picture' = [picture EXCEPT ![p].live = FALSE]
    /\ UNCHANGED <<object, names, onAir, idList, lastId, launchLeft, excused, overwritten,
                   clicks, shows, lists>>

DeleteRow(c) ==
    LET p == call[c].pic IN
    /\ Goes(c, "delete", Then(c, {"remove"}))
    /\ picture' = IF p \in Live
                  THEN [picture EXCEPT ![p].live = FALSE, ![p].writes = @ + 1] ELSE picture
    /\ excused' = IF picture[p].url = call[c].old THEN excused ELSE excused \cup {picture[p].url}
    /\ UNCHANGED <<object, names, onAir, idList, lastId, launchLeft, overwritten, clicks, shows, lists>>

(* Mutant of ShouldGetFromMySQL: the newest ids are not compared.          *)
ShouldGetFromMySQL_KeysOnly(v) == idList[v] = NoList \/ lastId = NoId

(* shouldGetFromMySQL: no list of this student, no newest id of the        *)
(* device, or another newest id than the table has.  Without any row the   *)
(* last question is an error.                                              *)
ShouldGetFromMySQL(v) ==
    \/ idList[v] = NoList
    \/ lastId = NoId
    \/ lastId # GetLastImageId

(* MobileGetImage from the list.  The count comes from a query without     *)
(* the model, so it includes deleted rows; when it counts only such, the   *)
(* save of an empty slice is an error, otherwise an empty list is one.     *)
(* Neither changes anything.                                               *)
MobileGetCached(c, v) ==
    LET running == {p \in Live : p \in idList[v] \cap onAir} IN
    /\ ~ShouldGetFromMySQL(v)
    /\ Spend("view")
    /\ IF running # {}
       THEN Start(c, [op |-> "view", todo |-> {"save"}, url |-> 0, cached |-> TRUE, by |-> v,
                      copies |-> Shown(running)])
       ELSE call[c] = Idle /\ UNCHANGED call
    /\ UNCHANGED <<picture, object, names, onAir, idList, lastId, excused, overwritten,
                   clicks, shows, lists>>

(* getImagesFromMySQL: those that run now and whose regex matches; then    *)
(* shows, the student's list and the device's newest id side by side.      *)
MobileGetFetched(c, v) ==
    LET mine == {p \in Live \cap onAir : v \in picture[p].audience} IN
    /\ ShouldGetFromMySQL(v)
    /\ Spend("view")
    /\ IF mine # {} /\ ~(idList[v] # NoList /\ lastId # NoId /\ Live = {})
       THEN Start(c, [op |-> "view", todo |-> {"save", "list", "last"}, url |-> 0, cached |-> FALSE,
                      by |-> v, newest |-> GetLastImageId,
                      copies |-> Shown(mine)])
       ELSE call[c] = Idle /\ UNCHANGED call
    /\ UNCHANGED <<picture, object, names, onAir, idList, lastId, excused, overwritten,
                   clicks, shows, lists>>

(* The newest id has changed since the request read the table.             *)
Late(c) == IF call[c].newest = GetLastImageId THEN {} ELSE {call[c].by}

SetLaunchScreenCache(c) ==
    /\ Goes(c, "list", Then(c, {}))
    /\ idList' = [idList EXCEPT ![call[c].by] = DOMAIN call[c].copies]
    /\ lists' = [lists EXCEPT !.made[call[c].by] = call[c].newest,
                              !.late = (@ \ {call[c].by}) \cup Late(c)]
    /\ UNCHANGED <<picture, object, names, onAir, lastId, launchLeft, excused, overwritten,
                   clicks, shows>>

(* The newest id is asked for again here, after the list has been read.    *)
SetLastLaunchScreenIdCache(c) ==
    /\ Goes(c, "last", Then(c, {}))
    /\ Live # {}
    /\ lastId' = GetLastImageId
    /\ lists' = [lists EXCEPT !.by = (IF lastId' = lastId THEN @ ELSE {}) \cup {call[c].by},
                              !.late = @ \cup Late(c)
                                         \cup (IF "list" \in call[c].todo THEN {call[c].by} ELSE {})]
    /\ UNCHANGED <<picture, object, names, onAir, idList, launchLeft, excused, overwritten,
                   clicks, shows>>

(* A step fails: what would follow it is not done, its sibling still is.   *)
StepFails(c, step) ==
    /\ step # "last" \/ Live # {} => launchLeft["fault"] > 0
    /\ launchLeft' = [launchLeft EXCEPT !["fault"] = IF @ > 0 THEN @ - 1 ELSE 0]
    /\ Goes(c, step, Then(c, {}))
    /\ excused' = excused \cup {call[c].url}
                    \cup (IF "old" \in DOMAIN call[c] THEN {call[c].old} ELSE {})
    /\ lists' = [lists EXCEPT !.late = @ \cup (IF step = "list" THEN {call[c].by} ELSE {})]
    /\ UNCHANGED <<picture, object, names, onAir, idList, lastId, overwritten, clicks, shows>>

(* A time window begins or ends; a key of Redis expires after two days.    *)
WindowTurns(p) ==
    /\ Spend("air")
    /\ onAir' = IF p \in onAir THEN onAir \ {p} ELSE onAir \cup {p}
    /\ UNCHANGED <<picture, object, names, idList, lastId, call, excused, overwritten,
                   clicks, shows, lists>>

KeyExpires ==
    /\ Spend("expire")
    /\ \/ lastId' = NoId /\ UNCHANGED idList
       \/ \E v \in Viewer : idList' = [idList EXCEPT ![v] = NoList] /\ UNCHANGED lastId
    /\ UNCHANGED <<picture, object, names, onAir, call, excused, overwritten, clicks, shows, lists>>

LaunchNext ==
    \/ \E c \in Call :
        \/ \E a \in Audiences : CreateImage(c, a)
        \/ \E p \in Live : \/ UpdateImagePath(c, p)
                           \/ AddPointTime(c, p)
                           \/ DeleteImage(c, p)
                           \/ \E a \in Audiences : UpdateImageProperty(c, p, a)
        \/ \E v \in Viewer : MobileGetCached(c, v) \/ MobileGetFetched(c, v)
        \/ Insert(c) \/ UploadImg(c) \/ DeleteImg(c) \/ SaveRows(c) \/ DeleteRow(c)
        \/ SetLaunchScreenCache(c) \/ SetLastLaunchScreenIdCache(c)
        \/ \E step \in call[c].todo : StepFails(c, step)
    \/ \E p \in Live : WindowTurns(p)
    \/ KeyExpires

LaunchSpec == LaunchInit /\ [][LaunchNext]_launchVars

-----------------------------------------------------------------------------
(* Properties                                                              *)

LaunchTypeOK ==
    /\ picture \in Seq([live : BOOLEAN, url : 1 .. names, clicks : Nat, shows : Nat,
                       audience : Audiences, writes : Nat])
    /\ object \subseteq 1 .. names
    /\ onAir \subseteq Ids
    /\ \A v \in Viewer : idList[v] = NoList \/ idList[v] \subseteq Ids
    /\ lastId \in {NoId} \cup Ids
    /\ \A c \in Call :
        call[c].todo \subseteq {"insert", "upload", "remove", "save", "delete", "list", "last"}
    /\ launchLeft \in [LaunchKinds -> Nat]
    /\ excused \subseteq 0 .. names /\ overwritten \subseteq Ids
    /\ DOMAIN clicks = Ids /\ DOMAIN shows = Ids

(* When no request is at work, the objects stored and the urls of the live *)
(* rows are the same, but for names that a failed step, a save of an older *)
(* copy of a row, or two requests about one picture have left behind       *)
(* (create_image.go:51, update_image.go:50, delete_image.go:29).           *)
StoresAgree ==
    Quiet => LET urls == {picture[p].url : p \in Live}
             IN  (urls \ object) \cup (object \ urls) \subseteq excused

(* ... and a row has counted every show and every click that was answered, *)
(* unless an older copy was saved over it, be it by a click, a student     *)
(* being shown it or an admin                                              *)
(* (add_point_time.go:29, add_image_list_showtime.go:28).                  *)
CountsKept ==
    Quiet => \A p \in Ids \ overwritten :
                picture[p].clicks = clicks[p] /\ picture[p].shows = shows[p]

(* Whatever requests have met, once they are through, the rows, the        *)
(* objects and the counters agree but for what is excused by an error or   *)
(* by a save of a row read before another's change.                        *)
PicturesKept == StoresAgree /\ CountsKept

(* A list that is older than the newest picture counts as fresh only       *)
(* because another student's request has stored the newest id of the       *)
(* device, or the student's own request has without storing the list, or   *)
(* the picture came while it read the table, or a deleted picture has come *)
(* back (mobile_get.go:78-90).                                             *)
OldListExplained ==
    \A v \in Viewer :
        ~ShouldGetFromMySQL(v) /\ lists.made[v] < GetLastImageId
            => \/ v \in lists.late \/ lists.by \ {v} # {}
               \/ GetLastImageId \in overwritten

=============================================================================
