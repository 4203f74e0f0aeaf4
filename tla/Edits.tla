-------------------------------- MODULE Edits ---------------------------------
(***************************************************************************)
(* What administrators and students edit: they read a record, change one   *)
(* field of it and send it back.  Most routes store the record whole, with *)
(* what its editor has read in every other field; UpdateAdjustCourse       *)
(* stores the fields that its request names, and its editor names those    *)
(* that he changes.                                                        *)
(*                                                                         *)
(* One field of one record is followed through the structs of Fields,      *)
(* while two editors read it, change it or change another one.  A request  *)
(* without the right password, and one that fails, stores nothing.  The    *)
(* cloud setting, one text whose comments are cut out when it is read, is  *)
(* left out.  An editor puts a link into the query as it was shown.        *)
(***************************************************************************)
EXTENDS Fields, FiniteSets

CONSTANT Editor

VARIABLES entry,     \* the field: how it is told and asked for
          kept,      \* what the record holds
          earlier,   \* what it has held, which a copy of it may still show
          meant,     \* what the last of its editors that changed it has put
          undone,    \* another one has put back what he had read before
          at,        \* where each editor is
          seen,      \* what he was shown
          put,       \* what he has put: "untouched" when he edits another field
          behind     \* the record has changed since what he was shown was kept

editVars == <<entry, kept, earlier, meant, undone, at, seen, put, behind>>

(* A field that is told by one copy, under its name there, and asked for   *)
(* by another; copied: the record is shown from a copy in Redis.           *)
Rows(way, tell, asks, names, copied) ==
    {[way |-> way, tell |-> tell, field |-> f, ask |-> ask, as |-> names[f],
      copied |-> copied] : f \in DOMAIN names, ask \in asks}

CopyBy(copies, by) == CHOOSE c \in copies : c.by = by
Unrenamed(fields) == [f \in fields |-> f]

ToolRows ==
    Rows("find", CopyBy(ToolBuilt, "ToolboxConfigDetail"),
         {CopyBy(ToolSends, "UpdateToolboxConfig")},
         Unrenamed({"tool_id", "visible"} \cup ToolFields), FALSE)

PictureRows ==
    Rows("find", CopyBy(PictureBuilt, "Picture"), {CopyBy(PictureSends, "ChangeImageProperty")},
         [f \in {"href", "text", "type", "duration", "frequency", "start_at", "end_at",
                 "start_time", "end_time", "regex", "s_type"} |->
             IF f = "type" THEN "pic_type" ELSE f], FALSE)

CourseRows ==
    Rows("find", CopyBy(CustomCourseBuilt, "CustomCourse"), CustomCourseSends,
         Unrenamed({"name", "teacher", "location", "startClass", "endClass", "startWeek",
                    "endWeek", "weekday", "single", "double", "color", "remark"}), TRUE)

AdjustRows ==
    Rows("find", CopyBy(AdjustCourseBuilt, "AdjustCourse"),
         {CopyBy(CourseChangeSends, "UpdateAdjustCourse")},
         Unrenamed({"enabled", "from_date", "to_date"}), TRUE)

VersionRows ==
    UNION {Rows("answer", tell,
                {CopyBy(VersionSends, "Upload"), CopyBy(OldVersionSends, "UploadVersionInfo")},
                Unrenamed({"version", "code", "url", "feature", "force"}), FALSE)
             : tell \in {CopyBy(VersionReturns, "GetReleaseVersion"),
                         CopyBy(VersionReturns, "GetBetaVersion"),
                         CopyBy(OldVersionReturns, "GetReleaseVersionModify"),
                         CopyBy(OldVersionReturns, "GetBetaVersionModify")}}

EditRows == UNION {ToolRows, PictureRows, CourseRows, AdjustRows, VersionRows}

-----------------------------------------------------------------------------
Partial(r) == r.ask.by = "UpdateAdjustCourse"
Blank      == {"absent", "zero"}

(* What the handler or the service refuses: no tool, no day or class.      *)
Refused(r, v) ==
    \/ v \in {"refused", "broken"}
    \/ /\ v \in Blank
       /\ r.as \in {"tool_id", "startClass", "endClass", "startWeek", "endWeek", "weekday"}
    \/ v = "zero" /\ r.as = "from_date"

(* A mutant of Stored: gorm's update by a struct, which skips false.       *)
Stored_SkipsZero(r, v, old) ==
    IF Partial(r) /\ v \in Blank THEN old ELSE v

(* The field's column when v is stored: nothing named is nothing changed,  *)
(* an empty day is NULL, a course without a colour gets one, and without a *)
(* teacher or a remark it has an empty text.                               *)
Stored(r, v, old) ==
    IF Partial(r) /\ v = "absent" THEN old
    ELSE IF r.as = "to_date" /\ v = "zero" THEN "absent"
    ELSE IF r.as = "color" /\ v \in Blank THEN "default"
    ELSE IF r.as \in {"teacher", "remark"} /\ v = "absent" THEN "zero" ELSE v

(* What a record can hold when nobody has edited it yet.                   *)
AtFirst(r) ==
    {"given"}
        \cup (IF r.as \in {"to_date", "color"} \/ Refused(r, "zero")
              THEN {} ELSE {"zero"})
        \cup (IF (r \in ToolRows /\ r.as \in ToolFields) \/ r.as = "to_date"
              THEN {"absent"} ELSE {})
        \cup (IF r.as = "color" THEN {"default"} ELSE {})

ToldAs(r, v) == Displayed(r.way, r.tell, r.field, Put(r.way, r.tell, r.field, v))

(* What the service finds in a request.                                    *)
Arrived(r, v) ==
    LET bound == Bound(r.ask, r.as, v) IN
    IF bound = "refused" THEN "refused"
    ELSE Looked(r.ask, r.as, Filled(r.ask, r.as, bound))

-----------------------------------------------------------------------------
EditsInit ==
    /\ entry \in EditRows
    /\ kept \in AtFirst(entry)
    /\ earlier = {}
    /\ meant = kept
    /\ undone = FALSE
    /\ at = [e \in Editor |-> "away"]
    /\ seen = [e \in Editor |-> "nothing"]
    /\ put = [e \in Editor |-> "untouched"]
    /\ behind = [e \in Editor |-> FALSE]

(* GetToolboxConfigByID, GetImage, GetCourseListV2, GetAutoAdjustCourseList*)
(* or a version: what is shown, of the record or of an older copy of it.   *)
ReadRecord(e) ==
    /\ at[e] = "away"
    /\ at' = [at EXCEPT ![e] = "reading"]
    /\ \E v \in {kept} \cup (IF entry.copied THEN earlier ELSE {}) :
          /\ seen' = [seen EXCEPT ![e] = ToldAs(entry, v)]
          /\ behind' = [behind EXCEPT ![e] = v # kept]
    /\ UNCHANGED <<entry, kept, earlier, meant, undone, put>>

(* An editor sends the record with another field changed, or with this one *)
(* emptied (null, for a tool: to leave a field out is refused) or changed  *)
(* to what is his.  One that was not shown the field has to put something. *)
SendRecord(e) ==
    /\ at[e] = "reading"
    /\ at' = [at EXCEPT ![e] = "sent"]
    /\ \E v \in {"untouched", "zero", e} \cup (IF Partial(entry) THEN {} ELSE {"absent"}) :
          /\ v # seen[e]
          /\ v = "untouched" => seen[e] # "dropped"
          /\ put' = [put EXCEPT ![e] = v]
    /\ UNCHANGED <<entry, kept, earlier, meant, undone, seen, behind>>

(* What an editor's request holds in the field. *)
Asking(e) ==
    IF put[e] # "untouched" THEN put[e] ELSE IF Partial(entry) THEN "absent" ELSE seen[e]

(* UpdateToolboxConfig, ChangeImageProperty, UpsertCustomCourse,           *)
(* UpdateAdjustCourse, Upload: the service stores the request.             *)
StoreRecord(e) ==
    LET found == Arrived(entry, Asking(e))
        now == Stored(entry, found, kept) IN
    /\ at[e] = "sent"
    /\ ~Refused(entry, found)
    /\ at' = [at EXCEPT ![e] = "gone"]
    /\ kept' = now
    /\ earlier' = earlier \cup {kept}
    /\ IF put[e] # "untouched"
       THEN meant' = put[e] /\ undone' = FALSE
       ELSE undone' = (undone \/ (behind[e] /\ now # kept)) /\ UNCHANGED meant
    /\ behind' = [o \in Editor |-> behind[o] \/ now # kept]
    /\ UNCHANGED <<entry, seen, put>>

(* It refuses the request, or fails. *)
RefuseRecord(e) ==
    /\ at[e] = "sent"
    /\ at' = [at EXCEPT ![e] = "gone"]
    /\ UNCHANGED <<entry, kept, earlier, meant, undone, seen, put, behind>>

EditsNext ==
    \E e \in Editor : ReadRecord(e) \/ SendRecord(e) \/ StoreRecord(e) \/ RefuseRecord(e)

EditsSpec == EditsInit /\ [][EditsNext]_editVars

-----------------------------------------------------------------------------
(* A text that is left out, an empty one and the colour of a course that   *)
(* names none are the same to an editor.                                   *)
Same(v, w) == v = w \/ {v, w} \subseteq Blank \cup {"default"}

(* An editor is shown what the record holds, and an edit changes what its  *)
(* editor has changed: the record holds what the last one who changed this *)
(* field has put, be it nothing, although others have stored it whole      *)
(* since, through four structs.  Otherwise one of them had read it before  *)
(* that change and has put the older value back, which UpdateAdjustCourse  *)
(* never does; or the upload of older apps, which knows no force, was      *)
(* used, and no app is forced to update.                                   *)
EditsExplained ==
    /\ \/ Same(kept, meant)
       \/ undone /\ ~Partial(entry)
       \/ entry.ask.by = "UploadVersionInfo" /\ entry.field = "force" /\ kept = "zero"
    /\ \A e \in Editor :
          at[e] # "away" /\ ~behind[e] => Same(seen[e], kept) \/ seen[e] = "dropped"

(* Nothing arrives that was not sent, in any of the copies of Fields, and  *)
(* an edit loses nothing but to an editor who had read before.             *)
FieldsExplained == ArrivesAsSent /\ EditsExplained

=============================================================================
