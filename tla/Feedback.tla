------------------------------- MODULE Feedback -------------------------------
(***************************************************************************)
(* internal/oa and pkg/db/oa: reports of users, and the list of those that *)
(* match a filter, which is read page by page: a page begins after the id  *)
(* that the one before it returned as its token.                           *)
(*                                                                         *)
(* The id of a report is drawn before it is inserted, by any process of    *)
(* the service, so reports do not become visible in the order of their     *)
(* ids.  Reports are never changed or removed.                             *)
(***************************************************************************)
EXTENDS Integers, FiniteSets

CONSTANTS
    Author,          \* users that send a report at the same time
    Lister,          \* readers of the list
    MaxReportId,     \* bounds the model
    PageLimit,       \* the limit a reader asks for, in its range or set to 20
    MaxWalks         \* bounds the model: walks through the list

ASSUME FeedbackAssumption ==
    /\ MaxReportId \in Nat
    /\ PageLimit \in Nat \ {0}
    /\ MaxWalks \in Nat

VARIABLES
    drawn,           \* ids the generator has handed out
    author,          \* author[a]: the id of the report being inserted, or 0
    reports,         \* ids in the feedback table
    fitting,         \* those that match the readers' filter
    lister,          \* lister[l]: order and token of the next page, or NotListing
    walks,           \* walks begun
    listed,          \* history: listed[l]: ids returned in this walk
    twice,           \* history: twice[l]: ids returned again
    atStart          \* history: atStart[l]: ids that matched when the walk began

feedbackVars == <<drawn, author, reports, fitting, lister, walks, listed, twice, atStart>>

ReportId == 1 .. MaxReportId
NoToken == 0         \* asks for the first page, answers that there is no other
NotListing == [step |-> "idle"]
ListEnded == [step |-> "ended"]

FeedbackInit ==
    /\ drawn = {} /\ author = [a \in Author |-> NoToken]
    /\ reports = {} /\ fitting = {}
    /\ lister = [l \in Lister |-> NotListing] /\ walks = 0
    /\ listed = [l \in Lister |-> {}] /\ twice = [l \in Lister |-> {}]
    /\ atStart = [l \in Lister |-> {}]

(* CreateFeedback draws the id first ...                                   *)
CreateFeedback(a) ==
    /\ author[a] = NoToken
    /\ \E id \in ReportId \ drawn :
        /\ drawn' = drawn \cup {id}
        /\ author' = [author EXCEPT ![a] = id]
    /\ UNCHANGED <<reports, fitting, lister, walks, listed, twice, atStart>>

(* ... and inserts the report, which matches the filter or not, or fails.  *)
InsertFeedback(a) ==
    /\ author[a] # NoToken
    /\ reports' = reports \cup {author[a]}
    /\ \/ fitting' = fitting \cup {author[a]}
       \/ UNCHANGED fitting
    /\ author' = [author EXCEPT ![a] = NoToken]
    /\ UNCHANGED <<drawn, lister, walks, listed, twice, atStart>>

InsertFails(a) ==
    /\ author[a] # NoToken
    /\ author' = [author EXCEPT ![a] = NoToken]
    /\ UNCHANGED <<drawn, reports, fitting, lister, walks, listed, twice, atStart>>

(* A reader begins at the first page, in either order.                     *)
BeginList(l) ==
    /\ lister[l] \in {NotListing, ListEnded}
    /\ walks < MaxWalks
    /\ walks' = walks + 1
    /\ \E desc \in BOOLEAN : lister' = [lister EXCEPT ![l] = [step |-> "page", desc |-> desc, token |-> NoToken]]
    /\ listed' = [listed EXCEPT ![l] = {}] /\ twice' = [twice EXCEPT ![l] = {}]
    /\ atStart' = [atStart EXCEPT ![l] = fitting]
    /\ UNCHANGED <<drawn, author, reports, fitting>>

Before(desc, i, j) == IF desc THEN i > j ELSE i < j

(* The first `limit` of some ids in the order of the list.                 *)
FirstOf(ids, desc, limit) ==
    {i \in ids : Cardinality({j \in ids : Before(desc, j, i)}) < limit}

(* Where the next page begins: the query asks for one row more than the    *)
(* page has, whose presence says that there is another.                    *)
(* Mutant of NextPageToken: the extra row is taken for the last.           *)
NextPageToken_ExtraRow(rows, desc) ==
    IF Cardinality(rows) > PageLimit THEN CHOOSE i \in rows : \A j \in rows : ~Before(desc, i, j) ELSE NoToken

NextPageToken(rows, desc) ==
    LET page == FirstOf(rows, desc, PageLimit) IN
    IF Cardinality(rows) > PageLimit THEN CHOOSE i \in page : \A j \in page : ~Before(desc, i, j) ELSE NoToken

(* ListFeedback, one statement; the reader goes on with the token.         *)
ListFeedback(l) ==
    LET desc == lister[l].desc
        token == lister[l].token
        rows == FirstOf({i \in fitting : token # NoToken => Before(desc, token, i)}, desc, PageLimit + 1)
        page == FirstOf(rows, desc, PageLimit)
        next == NextPageToken(rows, desc) IN
    /\ lister[l].step = "page"
    /\ listed' = [listed EXCEPT ![l] = @ \cup page]
    /\ twice' = [twice EXCEPT ![l] = @ \cup (listed[l] \cap page)]
    /\ lister' = [lister EXCEPT ![l] = IF next = NoToken THEN ListEnded ELSE [@ EXCEPT !.token = next]]
    /\ UNCHANGED <<drawn, author, reports, fitting, walks, atStart>>

FeedbackNext ==
    \/ \E a \in Author : CreateFeedback(a) \/ InsertFeedback(a) \/ InsertFails(a)
    \/ \E l \in Lister : BeginList(l) \/ ListFeedback(l)

FeedbackSpec == FeedbackInit /\ [][FeedbackNext]_feedbackVars

-----------------------------------------------------------------------------
(* Properties                                                              *)

FeedbackTypeOK ==
    /\ drawn \subseteq ReportId
    /\ author \in [Author -> drawn \cup {NoToken}]
    /\ fitting \subseteq reports /\ reports \subseteq drawn
    /\ \A l \in Lister : lister[l] \notin {NotListing, ListEnded} =>
        lister[l] \in [step : {"page"}, desc : BOOLEAN, token : ReportId \cup {NoToken}]
    /\ walks \in 0 .. MaxWalks
    /\ \A f \in {listed, twice, atStart} : f \in [Lister -> SUBSET reports]

(* Whatever is inserted while a reader goes from page to page, ahead of    *)
(* its token or behind it: no report is returned twice, and at the end     *)
(* each that matched when the reader began has been returned               *)
(* (get_feedback.go:92-121).                                               *)
WalkComplete ==
    \A l \in Lister :
        /\ twice[l] = {}
        /\ lister[l] = ListEnded => atStart[l] \subseteq listed[l]

=============================================================================
