---------------------------- MODULE ServicesProofs ----------------------------
(***************************************************************************)
(* What is proved of the services whose requests meet in a table, in a     *)
(* copy or in the gateway: the choice of a tool's configuration, walks     *)
(* through the pages of reports, the copies of custom courses and of       *)
(* course lists, how old an answer from a copy may be, what is recorded of *)
(* the visits of a day, and what the app is told of its call.              *)
(*                                                                         *)
(* Configurations.  The choice is unambiguous and goes by the documented   *)
(* order.  The inductive part is small: the unique key keeps the stored    *)
(* rows apart.  The rest is arithmetic on the score: of two rows that      *)
(* match the same request, the higher score belongs to the more specific   *)
(* one, and an equal score means an equal key.                             *)
(*                                                                         *)
(* Pages of reports.  What has been returned lies up to the token, and     *)
(* what the reader has yet to be given lies behind it.  Ids that are       *)
(* inserted late fall on either side.                                      *)
(*                                                                         *)
(* Custom courses and course lists.  Whoever changes the table will        *)
(* refresh the copy, and a task stores under the key of its own term; what *)
(* a step replaces or erases is compared with what it brings.              *)
(*                                                                         *)
(* Answers from a copy.  Every place a list passes through on its way into *)
(* the copy bounds how long ago it was fetched.  A request lasts no longer *)
(* than two ticks, so the bounds add up to the one of the answer.          *)
(*                                                                         *)
(* Visits.  A counter that did not begin anew has counted all visits of    *)
(* its date, and what the task is about to record is no less than what is  *)
(* recorded.                                                               *)
(*                                                                         *)
(* Calls.  What an answer says is decided by three tables.  The first part *)
(* of the proof gathers from their rows what the rules need: which methods *)
(* can fail in which way, which of them the gateway looks at how, and      *)
(* which routes lead to those it does not look at.  The second is an       *)
(* invariant that follows a call: until an execution has served it nothing *)
(* is known of it, it keeps the leader whose session decided, and a        *)
(* session that has expired stays so.                                      *)
(***************************************************************************)
EXTENDS Toolbox, Feedback, CustomCourses, CourseCopies, Lookups, Visits, Calls,
        FiniteSetTheorems, WellFoundedInduction, TLAPS

(* CONFIGURATIONS OF A TOOL *)

(* Stored rows differ in the columns of the unique key.                    *)
KeysDiffer == \A i, j \in Active : i # j => configs[i] # configs[j]

TableInv == ToolboxTypeOK /\ KeysDiffer

-----------------------------------------------------------------------------
(* The score                                                               *)

LEMMA ScoreBounds ==
  ASSUME NEW c \in Config
  PROVE  /\ c.version \in 0 .. MaxVersionNumber
         /\ MatchScore(c) = StudentScore(c) + 2 * c.version + PlatformScore(c)
         /\ MatchScore(c) \in 0 .. StudentIDMatch + 2 * MaxVersionNumber + 1
<1> USE ToolboxAssumption DEF ToolboxAssumption
<1>1. c.version \in 0 .. MaxVersionNumber
  BY DEF Config, Valid
<1>2. Least(c.version, MaxVersionNumber) = c.version
  BY <1>1 DEF Least
<1>3. StudentScore(c) \in {0, StudentIDMatch} /\ PlatformScore(c) \in {0, 1}
  BY DEF StudentScore, PlatformScore
<1> QED
  BY <1>1, <1>2, <1>3 DEF MatchScore

LEMMA ScoreParts ==
  ASSUME NEW c \in Config, NEW d \in Config
  PROVE  /\ MatchScore(c) = MatchScore(d) =>
              /\ StudentScore(c) = StudentScore(d)
              /\ c.version = d.version
              /\ PlatformScore(c) = PlatformScore(d)
         /\ MatchScore(c) > MatchScore(d) =>
              \/ StudentScore(c) > StudentScore(d)
              \/ /\ StudentScore(c) = StudentScore(d)
                 /\ \/ c.version > d.version
                    \/ c.version = d.version /\ PlatformScore(c) > PlatformScore(d)
<1>1. /\ StudentScore(c) \in {0, StudentIDMatch} /\ StudentScore(d) \in {0, StudentIDMatch}
      /\ PlatformScore(c) \in {0, 1} /\ PlatformScore(d) \in {0, 1}
  BY DEF StudentScore, PlatformScore
<1>2. /\ MatchScore(c) = StudentScore(c) + 2 * c.version + PlatformScore(c)
      /\ MatchScore(d) = StudentScore(d) + 2 * d.version + PlatformScore(d)
      /\ c.version \in 0 .. MaxVersionNumber /\ d.version \in 0 .. MaxVersionNumber
  BY ScoreBounds
<1>3. /\ MaxVersionNumber \in Nat /\ StudentIDMatch \in Nat
      /\ StudentIDMatch > 2 * MaxVersionNumber + 1
  BY ToolboxAssumption DEF ToolboxAssumption
<1> DEFINE s == StudentScore(c)  p == PlatformScore(c)  x == MatchScore(c)
           t == StudentScore(d)  q == PlatformScore(d)  y == MatchScore(d)
           v == c.version        w == d.version
           bit == StudentIDMatch most == MaxVersionNumber
<1>4. /\ s \in {0, bit} /\ t \in {0, bit} /\ p \in {0, 1} /\ q \in {0, 1}
      /\ v \in 0 .. most /\ w \in 0 .. most
      /\ most \in Nat /\ bit \in Nat /\ bit > 2 * most + 1
      /\ x = s + 2 * v + p /\ y = t + 2 * w + q
  BY <1>1, <1>2, <1>3
<1> HIDE DEF s, t, p, q, x, y, v, w, bit, most
<1>5. /\ x = y => s = t /\ v = w /\ p = q
      /\ x > y => s > t \/ (s = t /\ (v > w \/ (v = w /\ p > q)))
  BY <1>4
<1> QED
  BY <1>5 DEF s, t, p, q, x, y, v, w

(* What the parts say of the columns.                                      *)
LEMMA PartsTell ==
  ASSUME NEW c, NEW d
  PROVE  /\ StudentScore(c) > StudentScore(d) => c.student # Anyone /\ d.student = Anyone
         /\ StudentScore(c) = StudentScore(d) => (c.student = Anyone <=> d.student = Anyone)
         /\ PlatformScore(c) > PlatformScore(d) => c.platform # Anyone /\ d.platform = Anyone
         /\ PlatformScore(c) = PlatformScore(d) => (c.platform = Anyone <=> d.platform = Anyone)
<1>1. StudentIDMatch \in Nat /\ StudentIDMatch > 0
  BY ToolboxAssumption DEF ToolboxAssumption
<1> QED
  BY <1>1 DEF StudentScore, PlatformScore

(* The bits do what the comment says: a student outweighs every version, a *)
(* version every platform.                                                 *)
LEMMA ScoreOrder ==
  ASSUME NEW c \in Config, NEW d \in Config, NEW request \in Request,
         Matches(c, request), Matches(d, request),
         MatchScore(c) > MatchScore(d)
  PROVE  MoreSpecific(c, d)
<1>1. CASE StudentScore(c) > StudentScore(d)
  BY <1>1, PartsTell DEF MoreSpecific
<1>2. CASE ~(StudentScore(c) > StudentScore(d))
  <2>1. /\ StudentScore(c) = StudentScore(d)
        /\ \/ c.version > d.version
           \/ c.version = d.version /\ PlatformScore(c) > PlatformScore(d)
    BY <1>2, ScoreParts
  <2>2. c.student = d.student
    BY <2>1, PartsTell DEF Matches
  <2> QED
    BY <2>1, <2>2, PartsTell DEF MoreSpecific
<1> QED
  BY <1>1, <1>2

(* Rows of a tool that match and have one score have one key.              *)
LEMMA ScoreTells ==
  ASSUME NEW c \in Config, NEW d \in Config, NEW request \in Request,
         Matches(c, request), Matches(d, request),
         c.tool = d.tool, MatchScore(c) = MatchScore(d)
  PROVE  c = d
<1>1. /\ StudentScore(c) = StudentScore(d)
      /\ c.version = d.version
      /\ PlatformScore(c) = PlatformScore(d)
  BY ScoreParts
<1>2. c.student = d.student /\ c.platform = d.platform
  BY <1>1, PartsTell DEF Matches
<1> QED
  BY <1>1, <1>2 DEF Config, Sent

(* Of some rows one has the highest score.                                 *)
LEMMA HighestExists ==
  ASSUME ToolboxTypeOK, NEW S \in SUBSET Active, S # {}
  PROVE  \E i \in S : \A j \in S : MatchScore(configs[i]) >= MatchScore(configs[j])
<1> USE ToolboxAssumption DEF ToolboxAssumption
<1> DEFINE top == StudentIDMatch + 2 * MaxVersionNumber + 1
           below == {top - MatchScore(configs[i]) : i \in S}
<1>1. \A i \in S : MatchScore(configs[i]) \in 0 .. top
  BY ScoreBounds DEF ToolboxTypeOK, Active
<1>2. below \subseteq Nat /\ below # {}
  BY <1>1
<1>3. \E x \in below : \A y \in below : ~ (<<y, x>> \in OpToRel(<, Nat))
  BY <1>2, NatLessThanWellFounded, WFMin
<1>4. PICK x \in below : \A y \in below : ~ (y < x)
  BY <1>2, <1>3 DEF OpToRel
<1>5. PICK i \in S : x = top - MatchScore(configs[i])
  BY <1>4
<1>6. \A j \in S : MatchScore(configs[i]) >= MatchScore(configs[j])
  BY <1>1, <1>4, <1>5
<1> QED
  BY <1>6

(* A table whose rows differ in their keys answers every request well.     *)
LEMMA KeysDecide ==
  ASSUME TableInv PROVE AnswerMostSpecific
<1> USE ToolboxAssumption DEF ToolboxAssumption
<1> SUFFICES ASSUME NEW tool \in Tool, NEW request \in Request, Candidates(tool, request) # {}
             PROVE  \E i \in GetToolboxConfig(tool, request) :
                      /\ GetToolboxConfig(tool, request) = {i}
                      /\ \A j \in Candidates(tool, request) \ {i} : MoreSpecific(configs[i], configs[j])
  BY DEF AnswerMostSpecific
<1> DEFINE S == Candidates(tool, request)
<1>1. S \in SUBSET Active /\ S \subseteq Int
  BY DEF Candidates, Active, ConfigId
<1>2. \A i \in S : /\ configs[i] \in Config /\ configs[i].tool = tool
                   /\ Matches(configs[i], request)
                   /\ MatchScore(configs[i]) \in Int
  BY ScoreBounds DEF TableInv, ToolboxTypeOK, Candidates, Active
<1>3. PICK i \in S : \A j \in S : MatchScore(configs[i]) >= MatchScore(configs[j])
  BY <1>1, HighestExists DEF TableInv
<1>4. \A j \in S \ {i} : MatchScore(configs[i]) > MatchScore(configs[j])
  <2> SUFFICES ASSUME NEW j \in S \ {i} PROVE MatchScore(configs[i]) # MatchScore(configs[j])
    BY <1>2, <1>3
  <2>1. configs[i] # configs[j]
    BY <1>1 DEF TableInv, KeysDiffer
  <2> QED
    BY <1>2, <2>1, ScoreTells
<1>5. i \in GetToolboxConfig(tool, request)
  BY <1>4 DEF GetToolboxConfig, Beats
<1>6. \A j \in S \ {i} : ~Beats(j, i)
  BY <1>2, <1>4 DEF Beats
<1>7. GetToolboxConfig(tool, request) = {i}
  BY <1>5, <1>6 DEF GetToolboxConfig
<1>8. \A j \in S \ {i} : MoreSpecific(configs[i], configs[j])
  BY <1>2, <1>4, ScoreOrder
<1> QED
  BY <1>5, <1>7, <1>8

-----------------------------------------------------------------------------
(* The table                                                               *)

LEMMA TableInit == ToolboxInit => TableInv
  BY ToolboxAssumption DEF ToolboxAssumption, ToolboxInit, TableInv, ToolboxTypeOK, KeysDiffer, Active

LEMMA TableStep ==
  ASSUME TableInv, [ToolboxNext]_toolboxVars
  PROVE  TableInv'
<1> USE ToolboxAssumption DEF ToolboxAssumption
<1>1. ASSUME NEW config \in Sent, CreateToolboxConfig(config)
      PROVE  TableInv'
  <2>1. config \in Config /\ lastConfig' \in ConfigId
    BY <1>1 DEF CreateToolboxConfig, Config, TableInv, ToolboxTypeOK, ConfigId
  <2>2. ToolboxTypeOK'
    BY <1>1, <2>1 DEF CreateToolboxConfig, TableInv, ToolboxTypeOK, ConfigId
  <2>3. CASE KeyTaken(config, Active)
    BY <1>1, <2>2, <2>3 DEF CreateToolboxConfig, TableInv, KeysDiffer, Active
  <2>4. CASE ~KeyTaken(config, Active)
    <3>1. configs' = [configs EXCEPT ![lastConfig'] = config]
      BY <1>1, <2>4 DEF CreateToolboxConfig
    <3>2. \A i \in Active' \ {lastConfig'} : i \in Active /\ configs'[i] = configs[i] /\ configs[i] # config
      BY <2>1, <2>4, <3>1 DEF Active, KeyTaken, TableInv, ToolboxTypeOK
    <3>3. configs'[lastConfig'] = config
      BY <2>1, <3>1 DEF TableInv, ToolboxTypeOK
    <3>4. KeysDiffer'
      BY <3>2, <3>3 DEF TableInv, KeysDiffer
    <3> QED
      BY <2>2, <3>4 DEF TableInv
  <2> QED
    BY <2>3, <2>4
<1>2. ASSUME NEW i \in ConfigId, NEW config \in Sent, UpdateToolboxConfig(i, config)
      PROVE  TableInv'
  <2>1. config \in Config /\ configs' = [configs EXCEPT ![i] = config]
    BY <1>2 DEF UpdateToolboxConfig, Config
  <2>2. ToolboxTypeOK'
    BY <1>2, <2>1 DEF UpdateToolboxConfig, TableInv, ToolboxTypeOK
  <2>3. \A j \in Active' \ {i} : j \in Active /\ configs'[j] = configs[j] /\ configs[j] # config
    BY <1>2, <2>1 DEF UpdateToolboxConfig, Active, KeyTaken, TableInv, ToolboxTypeOK
  <2>4. configs'[i] = config
    BY <2>1 DEF TableInv, ToolboxTypeOK
  <2>5. KeysDiffer'
    BY <2>3, <2>4 DEF TableInv, KeysDiffer
  <2> QED
    BY <2>2, <2>5 DEF TableInv
<1>3. ASSUME NEW i \in ConfigId, DeleteToolboxConfig(i)
      PROVE  TableInv'
  <2>1. ToolboxTypeOK'
    BY <1>3 DEF DeleteToolboxConfig, TableInv, ToolboxTypeOK
  <2>2. \A j \in Active' : j \in Active /\ configs'[j] = configs[j]
    BY <1>3 DEF DeleteToolboxConfig, Active, TableInv, ToolboxTypeOK
  <2> QED
    BY <2>1, <2>2 DEF TableInv, KeysDiffer
<1>4. CASE UNCHANGED toolboxVars
  BY <1>4 DEF toolboxVars, TableInv, ToolboxTypeOK, KeysDiffer, Active
<1> QED
  BY <1>1, <1>2, <1>3, <1>4 DEF ToolboxNext

(* For any tools, students, platforms and versions, and however many rows  *)
(* the administrators create, change and delete: the app is answered with  *)
(* the one most specific configuration of each tool.                       *)
THEOREM AnswersMostSpecific == ToolboxSpec => []AnswerMostSpecific
<1>1. ToolboxInit => TableInv
  BY TableInit
<1>2. TableInv /\ [ToolboxNext]_toolboxVars => TableInv'
  BY TableStep
<1>3. TableInv => AnswerMostSpecific
  BY KeysDecide
<1> QED
  BY <1>1, <1>2, <1>3, PTL DEF ToolboxSpec

-----------------------------------------------------------------------------
(* PAGES OF REPORTS *)

(* The order of the list                                                   *)

LEMMA ListOrder ==
    ASSUME NEW desc
    PROVE  /\ \A i \in Int : ~Before(desc, i, i)
           /\ \A i, j \in Int : i = j \/ Before(desc, i, j) \/ Before(desc, j, i)
           /\ \A i, j, k \in Int : Before(desc, i, j) /\ Before(desc, j, k) => Before(desc, i, k)
<1>1. CASE desc
  BY <1>1 DEF Before
<1>2. CASE ~desc
  BY <1>2 DEF Before
<1>3. QED
  BY <1>1, <1>2

LEMMA IdsFinite ==
    ASSUME NEW S \in SUBSET ReportId
    PROVE  IsFiniteSet(S) /\ Cardinality(S) \in Nat /\ S \subseteq Int
<1>1. IsFiniteSet(ReportId)
  BY FeedbackAssumption, FS_Interval DEF ReportId
<1>2. IsFiniteSet(S)
  BY <1>1, FS_Subset
<1>3. QED
  BY <1>2, FS_CardinalityType DEF ReportId

(* Of some ids one is the first ...                                        *)
LEMMA FirstExists ==
    ASSUME NEW S \in SUBSET ReportId, S # {}, NEW desc
    PROVE  \E i \in S : \A j \in S : ~Before(desc, j, i)
<1>1. S \subseteq 0 .. MaxReportId /\ MaxReportId \in Nat
  BY FeedbackAssumption DEF ReportId
<1>2. CASE ~desc
  <2>1. S \in SUBSET Nat
    BY <1>1
  <2>2. \E i \in S : \A j \in S : ~(<<j, i>> \in OpToRel(<, Nat))
    BY <2>1, NatLessThanWellFounded, WFMin
  <2>3. \E i \in S : \A j \in S : ~(j < i)
    BY <2>1, <2>2 DEF OpToRel
  <2>4. QED
    BY <1>2, <2>3 DEF Before
<1>3. CASE desc
  <2> DEFINE below == {MaxReportId - i : i \in S}
  <2>0. \A i \in S : MaxReportId - i \in Nat
    BY <1>1
  <2>1. below \subseteq Nat /\ below # {}
    BY <2>0
  <2>2. \E x \in below : \A y \in below : ~(<<y, x>> \in OpToRel(<, Nat))
    BY <2>1, NatLessThanWellFounded, WFMin
  <2>3. PICK x \in below : \A y \in below : ~(y < x)
    BY <2>1, <2>2 DEF OpToRel
  <2>4. PICK i \in S : x = MaxReportId - i
    BY <2>3
  <2>5. ASSUME NEW j \in S PROVE ~(j > i)
    <3>1. ~(MaxReportId - j < MaxReportId - i)
      BY <2>3, <2>4
    <3>2. j \in Int /\ i \in Int /\ MaxReportId \in Int
      BY <1>1
    <3>3. QED
      BY <3>1, <3>2
  <2>6. QED
    BY <1>3, <2>5 DEF Before
<1>4. QED
  BY <1>2, <1>3

(* ... and one the last, which is the first of the list turned round.      *)
LEMMA LastExists ==
    ASSUME NEW S \in SUBSET ReportId, S # {}, NEW desc
    PROVE  \E i \in S : \A j \in S : ~Before(desc, i, j)
<1>1. S \subseteq Int
  BY IdsFinite
<1>2. PICK i \in S : \A j \in S : ~Before(~desc, j, i)
  BY FirstExists
<1>3. \A j \in S : Before(~desc, j, i) <=> Before(desc, i, j)
  BY <1>1 DEF Before
<1>4. QED
  BY <1>2, <1>3

(* The first ids of a list: with one of them come those before it, there   *)
(* are some if there are any, and if they are fewer than asked for they    *)
(* are all.                                                                *)
LEMMA FirstOfFacts ==
    ASSUME NEW S \in SUBSET ReportId, NEW desc, NEW limit \in Nat
    PROVE  /\ FirstOf(S, desc, limit) \in SUBSET S
           /\ \A n \in FirstOf(S, desc, limit), i \in S :
                Before(desc, i, n) => i \in FirstOf(S, desc, limit)
           /\ limit > 0 /\ S # {} => FirstOf(S, desc, limit) # {}
           /\ Cardinality(S) <= limit => FirstOf(S, desc, limit) = S
           /\ Cardinality(FirstOf(S, desc, limit)) < limit => FirstOf(S, desc, limit) = S
<1> DEFINE Preds(i) == {j \in S : Before(desc, j, i)}
           first == FirstOf(S, desc, limit)
<1>1. \A T \in SUBSET S : IsFiniteSet(T) /\ Cardinality(T) \in Nat /\ T \subseteq Int
  BY IdsFinite
<1>2. first = {i \in S : Cardinality(Preds(i)) < limit}
  BY DEF FirstOf
<1>3. first \in SUBSET S
  BY <1>2
<1>4. ASSUME NEW n \in first, NEW i \in S, Before(desc, i, n) PROVE i \in first
  <2>1. Preds(i) \in SUBSET Preds(n)
    BY <1>1, <1>3, <1>4, ListOrder
  <2>2. Cardinality(Preds(i)) <= Cardinality(Preds(n))
    BY <1>1, <2>1, FS_Subset
  <2>3. Cardinality(Preds(n)) < limit
    BY <1>2
  <2>4. Cardinality(Preds(i)) \in Nat /\ Cardinality(Preds(n)) \in Nat
    BY <1>1
  <2>5. QED
    BY <1>2, <2>2, <2>3, <2>4
<1>5. ASSUME limit > 0, S # {} PROVE first # {}
  <2>1. PICK i \in S : \A j \in S : ~Before(desc, j, i)
    BY <1>5, FirstExists
  <2>2. Preds(i) = {}
    BY <2>1
  <2>3. Cardinality(Preds(i)) = 0
    BY <2>2, FS_EmptySet
  <2>4. QED
    BY <1>2, <1>5, <2>3
<1>6. ASSUME Cardinality(S) <= limit PROVE first = S
  <2>1. ASSUME NEW i \in S PROVE Cardinality(Preds(i)) < limit
    <3>1. Preds(i) \in SUBSET S /\ i \notin Preds(i)
      BY <1>1, ListOrder
    <3>2. Cardinality(Preds(i)) <= Cardinality(S) /\ Cardinality(Preds(i)) # Cardinality(S)
      BY <1>1, <3>1, FS_Subset
    <3>3. Cardinality(Preds(i)) \in Nat /\ Cardinality(S) \in Nat
      BY <1>1
    <3>4. QED
      BY <1>6, <3>2, <3>3
  <2>2. QED
    BY <1>2, <2>1
<1>7. ASSUME Cardinality(first) < limit PROVE first = S
  <2>1. SUFFICES ASSUME S \ first # {} PROVE FALSE
    BY <1>3
  <2>2. PICK i \in S \ first : \A j \in S \ first : ~Before(desc, j, i)
    BY <2>1, FirstExists
  <2>3. Preds(i) \in SUBSET first
    BY <1>3, <2>2
  <2>4. Cardinality(Preds(i)) <= Cardinality(first)
    BY <1>1, <1>3, <2>3, FS_Subset
  <2>5. Cardinality(Preds(i)) \in Nat /\ Cardinality(first) \in Nat
    BY <1>1, <1>3
  <2>6. Cardinality(Preds(i)) < limit
    BY <1>7, <2>4, <2>5
  <2>7. QED
    BY <1>2, <2>2, <2>6
<1>8. QED
  BY <1>3, <1>4, <1>5, <1>6, <1>7

(* A page: it is taken from the ids asked for, and what is not on it lies  *)
(* behind its last id, the token, without which there is nothing more.     *)
LEMMA PageFacts ==
    ASSUME NEW ids \in SUBSET ReportId, NEW desc
    PROVE  LET rows == FirstOf(ids, desc, PageLimit + 1)
               page == FirstOf(rows, desc, PageLimit)
               next == NextPageToken(rows, desc)
           IN  /\ page \subseteq ids
               /\ next = NoToken => page = ids
               /\ next # NoToken => /\ next \in ReportId /\ next \in page
                                    /\ \A i \in page : i = next \/ Before(desc, i, next)
                                    /\ \A i \in ids \ page : Before(desc, next, i)
<1> DEFINE rows == FirstOf(ids, desc, PageLimit + 1)
           page == FirstOf(rows, desc, PageLimit)
           next == NextPageToken(rows, desc)
<1>1. PageLimit \in Nat /\ PageLimit > 0 /\ PageLimit + 1 \in Nat
  BY FeedbackAssumption
<1>2. /\ rows \in SUBSET ids
      /\ \A n \in rows, i \in ids : Before(desc, i, n) => i \in rows
      /\ Cardinality(rows) < PageLimit + 1 => rows = ids
  BY <1>1, FirstOfFacts
<1>3. rows \in SUBSET ReportId /\ Cardinality(rows) \in Nat /\ ids \subseteq Int
  BY <1>2, IdsFinite
<1> HIDE DEF rows
<1>4. /\ page \in SUBSET rows
      /\ \A n \in page, i \in rows : Before(desc, i, n) => i \in page
      /\ rows # {} => page # {}
      /\ Cardinality(rows) <= PageLimit => page = rows
  BY <1>1, <1>3, FirstOfFacts
<1>5. next = IF Cardinality(rows) > PageLimit
             THEN CHOOSE i \in page : \A j \in page : ~Before(desc, i, j) ELSE NoToken
  BY DEF NextPageToken
<1> HIDE DEF page, next
<1>6. CASE Cardinality(rows) > PageLimit
  <2>1. rows # {}
    BY <1>1, <1>6, FS_EmptySet
  <2>2. page # {} /\ page \in SUBSET ReportId
    BY <1>3, <1>4, <2>1
  <2>3. \E i \in page : \A j \in page : ~Before(desc, i, j)
    BY <2>2, LastExists
  <2>4. next \in page /\ \A j \in page : ~Before(desc, next, j)
    BY <1>5, <1>6, <2>3
  <2>5. next \in ReportId /\ next \in rows
    BY <1>4, <2>2, <2>4
  <2>6. next # NoToken
    BY <2>5 DEF ReportId, NoToken
  <2>7. \A i \in page : i = next \/ Before(desc, i, next)
    BY <1>2, <1>3, <1>4, <2>4, ListOrder
  <2>8. ASSUME NEW i \in ids, i \notin page PROVE Before(desc, next, i)
    <3>1. ~Before(desc, i, next)
      BY <1>2, <1>4, <2>4, <2>5, <2>8
    <3>2. i # next
      BY <2>4, <2>8
    <3>3. i \in Int /\ next \in Int
      BY <1>2, <1>3, <2>5
    <3>4. QED
      BY <3>1, <3>2, <3>3, ListOrder
  <2>9. QED
    BY <1>2, <1>4, <2>4, <2>5, <2>6, <2>7, <2>8 DEF rows, page, next
<1>7. CASE ~(Cardinality(rows) > PageLimit)
  <2>1. Cardinality(rows) <= PageLimit /\ Cardinality(rows) < PageLimit + 1
    BY <1>1, <1>3, <1>7
  <2>2. next = NoToken
    BY <1>5, <1>7
  <2>3. page = ids
    BY <1>2, <1>4, <2>1
  <2>4. QED
    BY <2>2, <2>3 DEF rows, page, next
<1>8. QED
  BY <1>6, <1>7

(* What has been returned lies up to the token, and what a reader should   *)
(* see and has not yet lies behind it.                                     *)
ListPage == [step : {"page"}, desc : BOOLEAN, token : ReportId \cup {NoToken}]

FeedbackTyped ==
    /\ drawn \in SUBSET ReportId
    /\ author \in [Author -> drawn \cup {NoToken}]
    /\ reports \in SUBSET drawn /\ fitting \in SUBSET reports
    /\ lister \in [Lister -> {NotListing, ListEnded} \cup ListPage]
    /\ walks \in 0 .. MaxWalks
    /\ listed \in [Lister -> SUBSET reports] /\ twice \in [Lister -> SUBSET reports]
    /\ atStart \in [Lister -> SUBSET reports]

Behind(desc, token, i) == token # NoToken => Before(desc, token, i)

WalkOf(l) ==
    /\ twice[l] = {}
    /\ atStart[l] \subseteq fitting
    /\ lister[l] = ListEnded => atStart[l] \subseteq listed[l]
    /\ lister[l].step = "page" =>
        /\ \A i \in listed[l] : ~Behind(lister[l].desc, lister[l].token, i)
        /\ \A i \in atStart[l] \ listed[l] : Behind(lister[l].desc, lister[l].token, i)

FeedbackInv == FeedbackTyped /\ \A l \in Lister : WalkOf(l)

LEMMA ListForms ==
    /\ NotListing.step = "idle" /\ ListEnded.step = "ended" /\ NotListing # ListEnded
    /\ \A p \in ListPage : p.step = "page" /\ p # NotListing /\ p # ListEnded
    /\ \A p \in ListPage, next \in ReportId \cup {NoToken} :
        LET new == [p EXCEPT !.token = next] IN
        new \in ListPage /\ new.step = "page" /\ new.desc = p.desc /\ new.token = next
    /\ \A desc \in BOOLEAN :
        LET new == [step |-> "page", desc |-> desc, token |-> NoToken] IN
        new \in ListPage /\ new.step = "page" /\ new.token = NoToken
  BY DEF NotListing, ListEnded, ListPage

LEMMA FeedbackInitInv == FeedbackInit => FeedbackInv
  BY FeedbackAssumption, ListForms DEF FeedbackInit, FeedbackInv, FeedbackTyped, WalkOf

LEMMA ReportsInv ==
    ASSUME FeedbackInv, NEW a \in Author, CreateFeedback(a) \/ InsertFeedback(a) \/ InsertFails(a)
    PROVE  FeedbackInv'
<1>1. CASE CreateFeedback(a)
  BY <1>1 DEF CreateFeedback, FeedbackInv, FeedbackTyped, WalkOf
<1>2. CASE InsertFeedback(a)
  <2>1. author[a] \in drawn
    BY <1>2 DEF InsertFeedback, FeedbackInv, FeedbackTyped
  <2>2. FeedbackTyped'
    BY <1>2, <2>1 DEF InsertFeedback, FeedbackInv, FeedbackTyped
  <2>3. fitting \subseteq fitting' /\ UNCHANGED <<lister, listed, twice, atStart>>
    BY <1>2 DEF InsertFeedback
  <2>4. \A l \in Lister : WalkOf(l)'
    BY <2>3 DEF FeedbackInv, WalkOf
  <2>5. QED
    BY <2>2, <2>4 DEF FeedbackInv
<1>3. CASE InsertFails(a)
  BY <1>3 DEF InsertFails, FeedbackInv, FeedbackTyped, WalkOf
<1>4. QED
  BY <1>1, <1>2, <1>3

LEMMA BeginListInv ==
    ASSUME FeedbackInv, NEW l \in Lister, BeginList(l)
    PROVE  FeedbackInv'
<1>1. PICK desc \in BOOLEAN : lister' = [lister EXCEPT ![l] = [step |-> "page", desc |-> desc, token |-> NoToken]]
  BY DEF BeginList
<1> DEFINE new == [step |-> "page", desc |-> desc, token |-> NoToken]
<1>2. new \in ListPage /\ new.step = "page" /\ new.token = NoToken /\ new # ListEnded
  BY ListForms
<1>3. /\ lister' = [lister EXCEPT ![l] = new] /\ walks' = walks + 1 /\ walks < MaxWalks
      /\ listed' = [listed EXCEPT ![l] = {}] /\ twice' = [twice EXCEPT ![l] = {}]
      /\ atStart' = [atStart EXCEPT ![l] = fitting]
      /\ UNCHANGED <<drawn, author, reports, fitting>>
  BY <1>1 DEF BeginList
<1> HIDE DEF new
<1>4. FeedbackTyped'
  <2>1. walks' \in 0 .. MaxWalks
    BY <1>3, FeedbackAssumption DEF FeedbackInv, FeedbackTyped
  <2>2. QED
    BY <1>2, <1>3, <2>1 DEF FeedbackInv, FeedbackTyped
<1>5. WalkOf(l)'
  <2>1. lister'[l] = new /\ listed'[l] = {} /\ twice'[l] = {} /\ atStart'[l] = fitting
    BY <1>3 DEF FeedbackInv, FeedbackTyped
  <2>2. QED
    BY <1>2, <1>3, <2>1 DEF WalkOf, Behind
<1>6. \A k \in Lister \ {l} : WalkOf(k)'
  BY <1>3 DEF FeedbackInv, FeedbackTyped, WalkOf
<1>7. QED
  BY <1>4, <1>5, <1>6 DEF FeedbackInv

LEMMA ListFeedbackInv ==
    ASSUME FeedbackInv, NEW l \in Lister, ListFeedback(l)
    PROVE  FeedbackInv'
<1> DEFINE desc == lister[l].desc
           token == lister[l].token
           ids == {i \in fitting : Behind(desc, token, i)}
           rows == FirstOf(ids, desc, PageLimit + 1)
           page == FirstOf(rows, desc, PageLimit)
           next == NextPageToken(rows, desc)
           new == IF next = NoToken THEN ListEnded ELSE [lister[l] EXCEPT !.token = next]
<1>1. /\ lister[l].step = "page"
      /\ listed' = [listed EXCEPT ![l] = listed[l] \cup page]
      /\ twice' = [twice EXCEPT ![l] = twice[l] \cup (listed[l] \cap page)]
      /\ lister' = [lister EXCEPT ![l] = new]
      /\ UNCHANGED <<drawn, author, reports, fitting, walks, atStart>>
  BY DEF ListFeedback, Behind
<1>2. lister[l] \in ListPage /\ desc \in BOOLEAN /\ token \in ReportId \cup {NoToken}
  BY <1>1, ListForms DEF FeedbackInv, FeedbackTyped, ListPage
<1>3. fitting \in SUBSET ReportId /\ ids \in SUBSET ReportId
  BY DEF FeedbackInv, FeedbackTyped
<1>4. /\ page \subseteq ids
      /\ next = NoToken => page = ids
      /\ next # NoToken => /\ next \in ReportId /\ next \in page
                           /\ \A i \in page : i = next \/ Before(desc, i, next)
                           /\ \A i \in ids \ page : Before(desc, next, i)
  BY <1>3, PageFacts
<1>5. /\ twice[l] = {} /\ atStart[l] \subseteq fitting
      /\ \A i \in listed[l] : ~Behind(desc, token, i)
      /\ \A i \in atStart[l] \ listed[l] : Behind(desc, token, i)
  BY <1>1 DEF FeedbackInv, FeedbackTyped, WalkOf
<1>6. \A i \in ids : i \in fitting /\ Behind(desc, token, i)
  OBVIOUS
<1>7. \A i \in fitting : Behind(desc, token, i) => i \in ids
  OBVIOUS
<1>8. /\ next # NoToken => new \in ListPage /\ new.step = "page" /\ new.desc = desc /\ new.token = next
      /\ next = NoToken => new = ListEnded
  BY <1>2, <1>4, ListForms
<1>9. listed[l] \in SUBSET ReportId /\ token \in Int /\ ReportId \subseteq Int
  <2>1. listed[l] \in SUBSET reports /\ reports \in SUBSET ReportId
    BY DEF FeedbackInv, FeedbackTyped
  <2>2. ReportId \subseteq Int /\ NoToken \in Int
    BY DEF ReportId, NoToken
  <2>3. QED
    BY <1>2, <2>1, <2>2
<1> HIDE DEF ids, page, rows, next, new, desc, token
<1>10. page \in SUBSET reports /\ listed[l] \cap page = {}
  BY <1>4, <1>5, <1>6 DEF FeedbackInv, FeedbackTyped
<1>11. FeedbackTyped'
  <2>1. new \in {NotListing, ListEnded} \cup ListPage
    BY <1>8
  <2>2. QED
    BY <1>1, <1>10, <2>1 DEF FeedbackInv, FeedbackTyped
<1>12. lister'[l] = new /\ listed'[l] = listed[l] \cup page /\ twice'[l] = {} /\ atStart'[l] = atStart[l]
  BY <1>1, <1>5, <1>10 DEF FeedbackInv, FeedbackTyped
<1>13. WalkOf(l)'
  <2>1. CASE next = NoToken
    <3>1. new = ListEnded /\ new.step # "page"
      BY <1>8, <2>1, ListForms
    <3>2. atStart[l] \subseteq listed[l] \cup page
      BY <1>4, <1>5, <1>7, <2>1
    <3>3. QED
      BY <1>1, <1>5, <1>12, <3>1, <3>2 DEF WalkOf
  <2>2. CASE next # NoToken
    <3>1. new.desc = desc /\ new.token = next /\ new # ListEnded /\ next \in Int
      BY <1>4, <1>8, <1>9, <2>2, ListForms
    <3>2. ASSUME NEW i \in listed[l] \cup page PROVE ~Behind(desc, next, i)
      <4>1. CASE i \in page
        <5>1. i \in Int /\ (i = next \/ Before(desc, i, next))
          BY <1>3, <1>4, <1>9, <2>2, <4>1
        <5>2. ~Before(desc, next, i)
          BY <3>1, <5>1, ListOrder
        <5>3. QED
          BY <2>2, <5>2 DEF Behind
      <4>2. CASE i \in listed[l]
        <5>1. token # NoToken /\ ~Before(desc, token, i) /\ i \in Int
          BY <1>5, <1>9, <4>2 DEF Behind
        <5>2. Before(desc, token, next) /\ token \in Int /\ next \in Int
          BY <1>4, <1>6, <1>9, <2>2, <3>1, <5>1 DEF Behind
        <5>3. ~Before(desc, next, i)
          BY <5>1, <5>2, ListOrder
        <5>4. QED
          BY <2>2, <5>3 DEF Behind
      <4>3. QED
        BY <4>1, <4>2
    <3>3. \A i \in atStart[l] \ (listed[l] \cup page) : Behind(desc, next, i)
      BY <1>4, <1>5, <1>7, <2>2 DEF Behind
    <3>4. QED
      BY <1>1, <1>5, <1>12, <3>1, <3>2, <3>3 DEF WalkOf
  <2>3. QED
    BY <2>1, <2>2
<1>14. \A k \in Lister \ {l} : WalkOf(k)'
  BY <1>1 DEF FeedbackInv, FeedbackTyped, WalkOf
<1>15. QED
  BY <1>11, <1>13, <1>14 DEF FeedbackInv

LEMMA FeedbackInductive == FeedbackSpec => []FeedbackInv
<1>1. FeedbackInv /\ UNCHANGED feedbackVars => FeedbackInv'
  BY DEF feedbackVars, FeedbackInv, FeedbackTyped, WalkOf
<1>2. FeedbackInv /\ [FeedbackNext]_feedbackVars => FeedbackInv'
  BY <1>1, ReportsInv, BeginListInv, ListFeedbackInv DEF FeedbackNext
<1>3. QED
  BY <1>2, FeedbackInitInv, PTL DEF FeedbackSpec

(* Every variable keeps its type; a token is an id that was drawn.         *)
THEOREM FeedbackTypeCorrect == FeedbackSpec => []FeedbackTypeOK
<1>1. FeedbackInv => FeedbackTypeOK
  BY ListForms DEF FeedbackInv, FeedbackTyped, FeedbackTypeOK, ListPage
<1>2. QED
  BY <1>1, FeedbackInductive, PTL

(* For any size of a page, either order, and reports that are inserted     *)
(* meanwhile on either side of the token: a reader is given no report      *)
(* twice, and at the end all that matched when the reader began.           *)
THEOREM NothingMissed == FeedbackSpec => []WalkComplete
<1>1. FeedbackInv => WalkComplete
  BY DEF FeedbackInv, WalkOf, WalkComplete
<1>2. QED
  BY <1>1, FeedbackInductive, PTL

-----------------------------------------------------------------------------
(* CUSTOM COURSES *)

(* The forms of a request, and a task runs only while one waits.           *)
CustomRequest ==
    {Free, Refresh} \cup [step : {"fill"}, list : CustomList]
        \cup [step : {"update"}, id : CourseId, content : Content]
        \cup [step : {"delete"}, id : CourseId, content : {Absent}]

CustomTyped ==
    /\ custom \in [CourseId -> Content \cup {Absent}]
    /\ customCopy \in CustomList \cup {Absent}
    /\ customGot \in CustomList \cup {Absent}
    /\ client \in [Client -> CustomRequest]
    /\ customWaits \in [CustomKey -> CustomTask \cup {Nothing}]
    /\ customRuns \in [CustomKey -> CustomTask \cup {Nothing}]
    /\ customLeft \in [CustomKinds -> Nat]

CustomInv ==
    /\ CustomTyped
    /\ customRuns["custom"] # Nothing => customWaits["custom"] # Nothing
    /\ CustomCopyExplained

LEMMA RowsListed ==
    ASSUME custom \in [CourseId -> Content \cup {Absent}]
    PROVE  GetCustomCoursesRows \in CustomList
BY DEF GetCustomCoursesRows, CustomList

LEMMA CustomForms ==
    /\ Free.step = "free" /\ Refresh.step = "refresh" /\ Free # Refresh
    /\ \A r \in CustomRequest :
        /\ r.step \in {"free", "fill", "refresh", "update", "delete"}
        /\ r.step = "fill" => r.list \in CustomList
        /\ r.step \in {"update", "delete"} => r.id \in CourseId
        /\ r.step = "update" => r.content \in Content
    /\ [kind |-> "refresh"] \in CustomTask
    /\ \A l \in CustomList :
        LET t == [kind |-> "fill", list |-> l] IN
        t \in CustomTask /\ t.kind = "fill" /\ t # [kind |-> "refresh"] /\ t # Nothing
    /\ \A t \in CustomTask : t # Nothing /\ (t.kind = "fill" => t.list \in CustomList)
    /\ \A t \in CustomTask : t.kind \in {"fill", "refresh"}
  BY DEF CustomRequest, Free, Refresh, CustomTask, Nothing

LEMMA CustomInitInv == CustomInit => CustomInv
<1> SUFFICES ASSUME CustomInit PROVE CustomInv
  OBVIOUS
<1>1. /\ custom = [i \in CourseId |-> Absent] /\ customGot = Absent /\ customCopy \in {Absent, {}}
      /\ client = [c \in Client |-> Free] /\ customLeft \in [CustomKinds -> Nat]
      /\ customWaits = [k \in CustomKey |-> Nothing] /\ customRuns = [k \in CustomKey |-> Nothing]
  BY CustomAssumption DEF CustomInit, CustomExecutor!Init
<1>2. GetCustomCoursesRows = {}
  BY <1>1 DEF GetCustomCoursesRows
<1>3. {} \in CustomList
  BY DEF CustomList
<1>4. Free \in CustomRequest
  BY DEF CustomRequest
<1>5. CustomTyped
  BY <1>1, <1>3, <1>4 DEF CustomTyped
<1>6. QED
  BY <1>1, <1>2, <1>5 DEF CustomInv, CustomCopyExplained, CustomKey

(* A request goes on; the table and the copy are left alone.               *)
LEMMA CustomAsks ==
    ASSUME CustomInv, NEW c \in Client, NEW request \in CustomRequest,
           client' = [client EXCEPT ![c] = request],
           client[c].step # "refresh",
           UNCHANGED <<custom, customCopy, customWaits, customRuns, customGot, customCause>>,
           customLeft' \in [CustomKinds -> Nat]
    PROVE  CustomInv'
<1>1. CustomTyped'
  BY DEF CustomInv, CustomTyped
<1>2. CustomCopyExplained'
  BY DEF CustomInv, CustomTyped, CustomCopyExplained, GetCustomCoursesRows
<1>3. QED
  BY <1>1, <1>2 DEF CustomInv

(* Whoever changes the table will refresh the copy.                        *)
LEMMA CustomChanges ==
    ASSUME CustomInv, NEW c \in Client,
           client' = [client EXCEPT ![c] = Refresh],
           custom' \in [CourseId -> Content \cup {Absent}],
           UNCHANGED <<customCopy, customWaits, customRuns, customGot, customCause>>,
           customLeft' \in [CustomKinds -> Nat]
    PROVE  CustomInv'
<1>1. Refresh \in CustomRequest
  BY DEF CustomRequest
<1>2. CustomTyped'
  BY <1>1 DEF CustomInv, CustomTyped
<1>3. client'[c].step = "refresh"
  BY CustomForms DEF CustomInv, CustomTyped
<1>4. CustomCopyExplained'
  BY <1>3 DEF CustomCopyExplained
<1>5. QED
  BY <1>2, <1>4 DEF CustomInv

LEMMA CustomPays == ASSUME CustomInv, NEW kind \in CustomKinds, Pays(kind) PROVE customLeft' \in [CustomKinds -> Nat]
  BY DEF CustomInv, CustomTyped, Pays

LEMMA CustomRequestsInv ==
    ASSUME CustomInv, NEW c \in Client,
           \/ GetCustomCourses(c) \/ ClientFails(c)
           \/ \E x \in Content : CreateCustomCourse(c, x)
           \/ \E i \in CourseId, x \in Content : GetCustomCourseByID(c, i, "update", x)
           \/ \E i \in CourseId : GetCustomCourseByID(c, i, "delete", Absent)
           \/ UpdateCustomCourse(c) \/ DeleteCustomCourse(c)
    PROVE  CustomInv'
<1>0. /\ custom \in [CourseId -> Content \cup {Absent}] /\ client[c] \in CustomRequest
      /\ customLeft \in [CustomKinds -> Nat]
      /\ Free \in CustomRequest /\ Free.step # "refresh"
  BY CustomForms DEF CustomInv, CustomTyped, CustomRequest
<1>1. CASE GetCustomCourses(c)
  <2> DEFINE request == [step |-> "fill", list |-> GetCustomCoursesRows]
  <2>1. request \in CustomRequest
    BY <1>0, RowsListed DEF CustomRequest
  <2> HIDE DEF request
  <2>2. QED
    BY <1>0, <1>1, <2>1, CustomAsks, CustomPays DEF GetCustomCourses, Accept, CustomKinds, request
<1>2. CASE ClientFails(c)
  BY <1>0, <1>2, CustomAsks, CustomPays DEF ClientFails, Turn, CustomKinds
<1>3. CASE \E x \in Content : CreateCustomCourse(c, x)
  <2>1. PICK x \in Content : CreateCustomCourse(c, x)
    BY <1>3
  <2>2. customLeft' \in [CustomKinds -> Nat]
    BY <2>1, CustomPays DEF CreateCustomCourse, CustomKinds
  <2>3. UNCHANGED <<customCopy, customWaits, customRuns, customGot, customCause>>
    BY <2>1 DEF CreateCustomCourse
  <2>4. CASE Taken(x)
    BY <2>1, <2>2, <2>3, <2>4 DEF CreateCustomCourse, CustomInv, CustomTyped, CustomCopyExplained, GetCustomCoursesRows
  <2>5. CASE ~Taken(x)
    <3>1. client' = [client EXCEPT ![c] = Refresh]
      BY <2>1, <2>5 DEF CreateCustomCourse, Accept
    <3>2. custom' \in [CourseId -> Content \cup {Absent}]
      BY <1>0, <2>1, <2>5 DEF CreateCustomCourse
    <3>3. QED
      BY <2>2, <2>3, <3>1, <3>2, CustomChanges
  <2>6. QED
    BY <2>4, <2>5
<1>4. ASSUME NEW request \in CustomRequest, Accept(c, request),
             UNCHANGED <<custom, customCopy, customWaits, customRuns, customGot, customCause>>,
             customLeft' \in [CustomKinds -> Nat]
      PROVE  CustomInv'
  BY <1>0, <1>4, CustomAsks DEF Accept
<1>5. CASE UpdateCustomCourse(c)
  <2> DEFINE u == client[c]
  <2>1. /\ u.step = "update" /\ u.id \in CourseId /\ u.content \in Content
        /\ UNCHANGED <<customCopy, customWaits, customRuns, customGot, customLeft, customCause>>
    BY <1>0, <1>5, CustomForms DEF UpdateCustomCourse
  <2>2. CASE client' = [client EXCEPT ![c] = Free] /\ UNCHANGED custom
    BY <1>0, <2>1, <2>2, CustomAsks
  <2>3. CASE client' = [client EXCEPT ![c] = Refresh] /\ (UNCHANGED custom \/ custom' = [custom EXCEPT ![u.id] = u.content])
    <3>1. custom' \in [CourseId -> Content \cup {Absent}]
      BY <1>0, <2>1, <2>3
    <3>2. QED
      BY <1>0, <2>1, <2>3, <3>1, CustomChanges
  <2>4. QED
    BY <1>5, <2>2, <2>3 DEF UpdateCustomCourse, Turn
<1>6. CASE DeleteCustomCourse(c)
  <2> DEFINE u == client[c]
  <2>1. /\ u.step = "delete" /\ u.id \in CourseId
        /\ custom' = [custom EXCEPT ![u.id] = Absent]
        /\ UNCHANGED <<customCopy, customWaits, customRuns, customGot, customLeft, customCause>>
    BY <1>0, <1>6, CustomForms DEF DeleteCustomCourse
  <2>2. CASE custom[u.id] = Absent
    <3>1. custom' = custom /\ client' = [client EXCEPT ![c] = Free]
      BY <1>0, <1>6, <2>1, <2>2 DEF DeleteCustomCourse, Turn
    <3>2. QED
      BY <1>0, <2>1, <3>1, CustomAsks
  <2>3. CASE custom[u.id] # Absent
    <3>1. custom' \in [CourseId -> Content \cup {Absent}] /\ client' = [client EXCEPT ![c] = Refresh]
      BY <1>0, <1>6, <2>1, <2>3 DEF DeleteCustomCourse, Turn
    <3>2. QED
      BY <1>0, <2>1, <3>1, CustomChanges
  <2>4. QED
    BY <2>2, <2>3
<1>7. CASE \E i \in CourseId, x \in Content : GetCustomCourseByID(c, i, "update", x)
  <2>1. PICK i \in CourseId, x \in Content : GetCustomCourseByID(c, i, "update", x)
    BY <1>7
  <2> DEFINE request == [step |-> "update", id |-> i, content |-> x]
  <2>2. request \in CustomRequest
    BY DEF CustomRequest
  <2>3. /\ Accept(c, request) /\ customLeft' \in [CustomKinds -> Nat]
        /\ UNCHANGED <<custom, customCopy, customWaits, customRuns, customGot, customCause>>
    BY <2>1, CustomPays DEF GetCustomCourseByID, CustomKinds
  <2> HIDE DEF request
  <2>4. QED
    BY <1>4, <2>2, <2>3
<1>8. CASE \E i \in CourseId : GetCustomCourseByID(c, i, "delete", Absent)
  <2>1. PICK i \in CourseId : GetCustomCourseByID(c, i, "delete", Absent)
    BY <1>8
  <2> DEFINE request == [step |-> "delete", id |-> i, content |-> Absent]
  <2>2. request \in CustomRequest
    BY DEF CustomRequest
  <2>3. /\ Accept(c, request) /\ customLeft' \in [CustomKinds -> Nat]
        /\ UNCHANGED <<custom, customCopy, customWaits, customRuns, customGot, customCause>>
    BY <2>1, CustomPays DEF GetCustomCourseByID, CustomKinds
  <2> HIDE DEF request
  <2>4. QED
    BY <1>4, <2>2, <2>3
<1>9. QED
  BY <1>1, <1>2, <1>3, <1>5, <1>6, <1>7, <1>8

LEMMA CustomSubmitsInv ==
    ASSUME CustomInv, NEW c \in Client, AddFill(c) \/ RefreshCustomCourseCache(c)
    PROVE  CustomInv'
<1>0. /\ client[c] \in CustomRequest /\ Free \in CustomRequest
      /\ customWaits \in [CustomKey -> CustomTask \cup {Nothing}] /\ "custom" \in CustomKey
  BY DEF CustomInv, CustomTyped, CustomRequest, CustomKey
<1>1. CASE AddFill(c)
  <2> DEFINE task == [kind |-> "fill", list |-> client[c].list]
  <2>1. /\ client[c].step = "fill" /\ client' = [client EXCEPT ![c] = Free]
        /\ UNCHANGED <<custom, customCopy, customRuns, customGot, customLeft>>
    BY <1>1 DEF AddFill, Turn, CustomExecutor!Submit
  <2>2. task \in CustomTask /\ task # Nothing
    BY <1>0, <2>1, CustomForms
  <2>3. customWaits' = [customWaits EXCEPT !["custom"] = task]
    BY <1>1, <2>2 DEF AddFill, CustomExecutor!Submit
  <2>4. customCause' = IF customWaits["custom"] = [kind |-> "refresh"]
                       THEN customCause \cup {"replaced"} ELSE customCause
    BY <1>1 DEF AddFill
  <2> HIDE DEF task
  <2>5. CustomTyped'
    BY <1>0, <2>1, <2>2, <2>3 DEF CustomInv, CustomTyped
  <2>6. customWaits'["custom"] # Nothing
    BY <1>0, <2>2, <2>3
  <2>7. \A d \in Client : client[d].step = "refresh" => client'[d] = client[d]
    BY <2>1 DEF CustomInv, CustomTyped
  <2>8. CustomCopyExplained'
    BY <2>1, <2>4, <2>7 DEF CustomInv, CustomCopyExplained, GetCustomCoursesRows
  <2>9. QED
    BY <2>5, <2>6, <2>8 DEF CustomInv
<1>2. CASE RefreshCustomCourseCache(c)
  <2> DEFINE task == [kind |-> "refresh"]
  <2>1. /\ client' = [client EXCEPT ![c] = Free]
        /\ UNCHANGED <<custom, customCopy, customRuns, customGot, customLeft, customCause>>
    BY <1>2 DEF RefreshCustomCourseCache, Turn, CustomExecutor!Submit
  <2>2. task \in CustomTask /\ task # Nothing
    BY CustomForms
  <2>3. customWaits' = [customWaits EXCEPT !["custom"] = task]
    BY <1>2, <2>2 DEF RefreshCustomCourseCache, CustomExecutor!Submit
  <2>4. customWaits'["custom"] = task
    BY <1>0, <2>3
  <2>5. CustomCopyExplained'
    BY <2>4 DEF CustomCopyExplained
  <2> HIDE DEF task
  <2>6. CustomTyped'
    BY <1>0, <2>1, <2>2, <2>3 DEF CustomInv, CustomTyped
  <2>7. QED
    BY <2>2, <2>4, <2>5, <2>6 DEF CustomInv
<1>3. QED
  BY <1>1, <1>2

(* A task stores what it holds: the table as it is, or for a named reason  *)
(* something else.                                                         *)
LEMMA CustomStoresInv ==
    ASSUME CustomInv, SetCustomCoursesCache
    PROVE  CustomInv'
<1> DEFINE task == customRuns["custom"]
           list == IF task.kind = "fill" THEN task.list ELSE customGot
<1>1. /\ customRuns \in [CustomKey -> CustomTask \cup {Nothing}]
      /\ customWaits \in [CustomKey -> CustomTask \cup {Nothing}] /\ "custom" \in CustomKey
  BY DEF CustomInv, CustomTyped, CustomKey
<1>2. /\ task # Nothing /\ list # Absent /\ customCopy' = list /\ customGot' = Absent
      /\ customRuns' = [customRuns EXCEPT !["custom"] = Nothing]
      /\ customWaits' = [customWaits EXCEPT !["custom"] = Nothing]
      /\ UNCHANGED <<custom, client, customLeft>>
  BY DEF SetCustomCoursesCache, CustomExecutor!Succeed
<1>3. task \in CustomTask /\ customWaits["custom"] # Nothing
  BY <1>1, <1>2 DEF CustomInv
<1>4. list \in CustomList
  BY <1>2, <1>3, CustomForms DEF CustomInv, CustomTyped
<1>5. list # GetCustomCoursesRows => customCause' # {}
  BY <1>3, CustomForms DEF SetCustomCoursesCache
<1>6. CustomTyped'
  BY <1>1, <1>2, <1>4 DEF CustomInv, CustomTyped
<1>7. customRuns'["custom"] = Nothing
  BY <1>1, <1>2
<1>8. CustomCopyExplained'
  BY <1>2, <1>5 DEF CustomCopyExplained, GetCustomCoursesRows
<1>9. QED
  BY <1>6, <1>7, <1>8 DEF CustomInv

LEMMA CustomTasksInv ==
    ASSUME CustomInv,
           \/ BeginCustomTask \/ RefreshReads \/ CustomTaskFails
           \/ CustomCopyExpires \/ CustomCrash \/ UNCHANGED customVars
    PROVE  CustomInv'
<1>1. "custom" \in CustomKey /\ CustomTyped
  BY DEF CustomInv, CustomKey
<1>2. CASE BeginCustomTask
  <2>1. /\ customWaits["custom"] # Nothing
        /\ customRuns' = [customRuns EXCEPT !["custom"] = customWaits["custom"]]
        /\ UNCHANGED <<custom, customCopy, client, customWaits, customGot, customLeft, customCause>>
    BY <1>2 DEF BeginCustomTask, CustomExecutor!Begin
  <2>2. QED
    BY <1>1, <2>1 DEF CustomInv, CustomTyped, CustomCopyExplained, GetCustomCoursesRows
<1>3. CASE RefreshReads
  <2>1. GetCustomCoursesRows \in CustomList
    BY <1>1, RowsListed DEF CustomTyped
  <2>2. QED
    BY <1>3, <2>1 DEF RefreshReads, CustomInv, CustomTyped, CustomCopyExplained, GetCustomCoursesRows
<1>4. CASE CustomTaskFails
  <2>1. /\ customRuns' = [customRuns EXCEPT !["custom"] = Nothing] /\ customGot' = Absent
        /\ UNCHANGED <<custom, customCopy, client, customWaits, customCause>>
    BY <1>4 DEF CustomTaskFails, CustomExecutor!Release
  <2>2. customLeft' \in [CustomKinds -> Nat]
    BY <1>4, CustomPays DEF CustomTaskFails, CustomKinds
  <2>3. QED
    BY <1>1, <2>1, <2>2 DEF CustomInv, CustomTyped, CustomCopyExplained, GetCustomCoursesRows
<1>5. CASE CustomCopyExpires
  <2>1. customLeft' \in [CustomKinds -> Nat]
    BY <1>5, CustomPays DEF CustomCopyExpires, CustomKinds
  <2>2. QED
    BY <1>1, <1>5, <2>1 DEF CustomCopyExpires, CustomInv, CustomTyped, CustomCopyExplained
<1>6. CASE CustomCrash
  <2>1. customLeft' \in [CustomKinds -> Nat]
    BY <1>6, CustomPays DEF CustomCrash, CustomKinds
  <2>2. Free \in CustomRequest
    BY DEF CustomRequest
  <2>3. QED
    BY <1>1, <1>6, <2>1, <2>2 DEF CustomCrash, CustomInv, CustomTyped, CustomCopyExplained
<1>7. CASE UNCHANGED customVars
  BY <1>7 DEF customVars, CustomInv, CustomTyped, CustomCopyExplained, GetCustomCoursesRows
<1>8. QED
  BY <1>2, <1>3, <1>4, <1>5, <1>6, <1>7

LEMMA CustomInductive == CustomSpec => []CustomInv
<1>1. CustomInv /\ [CustomNext]_customVars => CustomInv'
  BY CustomRequestsInv, CustomSubmitsInv, CustomStoresInv, CustomTasksInv DEF CustomNext
<1>2. QED
  BY <1>1, CustomInitInv, PTL DEF CustomSpec

(* Every variable keeps its type: no request of a student's, nor any task, *)
(* ever holds a list or a row of another form than it reads.               *)
THEOREM CustomTypeCorrect == CustomSpec => []CustomTypeOK
<1>1. CustomInv => CustomTypeOK
  BY CustomForms DEF CustomInv, CustomTyped, CustomTypeOK
<1>2. QED
  BY <1>1, CustomInductive, PTL

(* For any courses, requests and errors: the copy of a student's own       *)
(* courses differs from the table only while its refresh is to come, or    *)
(* for one of the causes that the model names.                             *)
THEOREM CustomCopyAccounted == CustomSpec => []CustomCopyExplained
<1>1. CustomInv => CustomCopyExplained
  BY DEF CustomInv
<1>2. QED
  BY <1>1, CustomInductive, PTL

-----------------------------------------------------------------------------
(* COPIES OF COURSE LISTS *)

CourseRequest == [step : {"put", "own", "row"}, term : CourseTerm, version : Version]
Versions == [CourseTerm -> Version \cup {NoVersion}]

CourseTyped ==
    /\ registry \in [CourseTerm -> Version]
    /\ courseRow \in Versions /\ courseCopy \in Versions /\ answered \in Versions /\ handed \in Versions
    /\ caller \in [Caller -> {Ended} \cup CourseRequest]
    /\ courseWaits \in [CourseKey -> CourseTask \cup {NoTask}]
    /\ courseRuns \in [CourseKey -> CourseTask \cup {NoTask}]
    /\ courseLeft \in [CourseKinds -> Nat]
    /\ copyCause = [t \in CourseTerm |-> copyCause[t]] /\ rowCause = [t \in CourseTerm |-> rowCause[t]]

(* A task is under its own key: it stores where its key says.              *)
OwnKeys ==
    \A k \in CourseKey :
        /\ courseWaits[k] # NoTask => CourseKeyOf[courseWaits[k]] = k
        /\ courseRuns[k] # NoTask => CourseKeyOf[courseRuns[k]] = k

CourseInv == CourseTyped /\ OwnKeys /\ BehindExplained

LEMMA CourseForms ==
    /\ Version \subseteq Nat \ {0} /\ Version \cup {NoVersion} \subseteq Nat /\ NoVersion = 0
    /\ "put" \in CourseKey /\ CourseTerm \subseteq CourseKey /\ "put" \notin CourseTerm
    /\ Ended.step = "ended"
    /\ \A r \in CourseRequest :
        /\ r.step \in {"put", "own", "row"} /\ r.term \in CourseTerm /\ r.version \in Version
        /\ [r EXCEPT !.step = "own"] \in CourseRequest
    /\ \A s \in {"put", "own", "row"}, t \in CourseTerm, v \in Version :
        LET r == [step |-> s, term |-> t, version |-> v]
            task == [kind |-> s, term |-> t, version |-> v] IN
        /\ r \in CourseRequest
        /\ task \in CourseTask /\ task.kind = s /\ task.term = t /\ task.version = v
    /\ \A task \in CourseTask :
        /\ task # NoTask /\ task.kind \in {"put", "own", "row"}
        /\ task.term \in CourseTerm /\ task.version \in Version
        /\ CourseKeyOf[task] = IF task.kind = "put" THEN "put" ELSE task.term
  BY CourseAssumption DEF Version, NoVersion, CourseKey, Ended, CourseRequest, CourseTask, NoTask, CourseKeyOf

LEMMA CourseInitInv == CourseInit => CourseInv
<1> SUFFICES ASSUME CourseInit PROVE CourseInv
  OBVIOUS
<1>1. 1 \in Version
  BY CourseAssumption DEF Version
<1>2. CourseTyped
  BY <1>1, CourseAssumption DEF CourseInit, CourseExecutor!Init, CourseTyped, Versions
<1>3. OwnKeys
  BY DEF CourseInit, CourseExecutor!Init, OwnKeys
<1>4. BehindExplained
  BY DEF CourseInit, BehindExplained, CopyBehind, RowBehind, NoVersion
<1>5. QED
  BY <1>2, <1>3, <1>4 DEF CourseInv

LEMMA CourseCosts ==
    ASSUME CourseInv, NEW kind \in CourseKinds, Costs(kind)
    PROVE  courseLeft' \in [CourseKinds -> Nat]
  BY DEF CourseInv, CourseTyped, Costs

(* What a request reads and remembers does not concern the copies.         *)
LEMMA CourseRequestsInv ==
    ASSUME CourseInv, NEW c \in Caller,
           \/ \E t \in CourseTerm : FetchCourses(c, t) \/ GetSemesterCourses(c, t)
           \/ CallerFails(c)
    PROVE  CourseInv'
<1>1. courseLeft' \in [CourseKinds -> Nat]
  BY CourseCosts DEF FetchCourses, GetSemesterCourses, CallerFails, CourseKinds
<1>2. UNCHANGED <<registry, courseRow, courseCopy, courseWaits, courseRuns, answered, handed, copyCause, rowCause>>
  BY DEF FetchCourses, GetSemesterCourses, CallerFails
<1>3. caller' \in [Caller -> {Ended} \cup CourseRequest]
  <2>1. CASE CallerFails(c)
    BY <2>1 DEF CallerFails, CourseInv, CourseTyped
  <2>2. ASSUME NEW t \in CourseTerm, FetchCourses(c, t) PROVE caller' \in [Caller -> {Ended} \cup CourseRequest]
    <3>1. registry[t] \in Version
      BY DEF CourseInv, CourseTyped
    <3>2. [step |-> "put", term |-> t, version |-> registry[t]] \in CourseRequest
      BY <3>1 DEF CourseRequest
    <3>3. QED
      BY <2>2, <3>2 DEF FetchCourses, CourseInv, CourseTyped
  <2>3. ASSUME NEW t \in CourseTerm, GetSemesterCourses(c, t) PROVE caller' \in [Caller -> {Ended} \cup CourseRequest]
    <3>1. courseRow[t] \in Version
      BY <2>3 DEF GetSemesterCourses, CourseInv, CourseTyped, Versions
    <3>2. [step |-> "row", term |-> t, version |-> courseRow[t]] \in CourseRequest
      BY <3>1 DEF CourseRequest
    <3>3. QED
      BY <2>3, <3>2 DEF GetSemesterCourses, CourseInv, CourseTyped
  <2>4. QED
    BY <2>1, <2>2, <2>3
<1>4. CourseTyped'
  BY <1>1, <1>2, <1>3 DEF CourseInv, CourseTyped
<1>5. OwnKeys' /\ BehindExplained'
  BY <1>2 DEF CourseInv, OwnKeys, BehindExplained, CopyBehind, RowBehind
<1>6. QED
  BY <1>4, <1>5 DEF CourseInv

LEMMA AnswerCopyInv ==
    ASSUME CourseInv, NEW c \in Caller, NEW t \in CourseTerm, AnswerCopy(c, t)
    PROVE  CourseInv'
<1> DEFINE newest == Later(answered[t], courseCopy[t])
<1>1. /\ answered' = [answered EXCEPT ![t] = newest]
      /\ UNCHANGED <<registry, courseRow, courseCopy, caller, courseWaits, courseRuns, handed, copyCause, rowCause>>
      /\ courseLeft' \in [CourseKinds -> Nat]
  BY CourseCosts DEF AnswerCopy, CourseKinds
<1>2. answered[t] \in Version \cup {NoVersion} /\ courseCopy[t] \in Version \cup {NoVersion}
  BY DEF CourseInv, CourseTyped, Versions
<1>3. newest \in Version \cup {NoVersion} /\ (newest = answered[t] \/ newest = courseCopy[t])
  BY <1>2 DEF Later
<1> HIDE DEF newest
<1>4. CourseTyped'
  BY <1>1, <1>3 DEF CourseInv, CourseTyped, Versions
<1>5. \A u \in CourseTerm : answered'[u] = IF u = t THEN newest ELSE answered[u]
  BY <1>1 DEF CourseInv, CourseTyped, Versions
<1>6. ASSUME NEW u \in CourseTerm PROVE CopyBehind(u)'
  <2>1. CopyBehind(u)
    BY DEF CourseInv, BehindExplained
  <2>2. CASE answered'[u] = answered[u]
    BY <1>1, <2>1, <2>2 DEF CopyBehind
  <2>3. CASE answered'[u] = courseCopy[u]
    BY <1>1, <1>2, <2>3, CourseForms DEF CopyBehind, CourseInv, CourseTyped, Versions
  <2>4. QED
    BY <1>3, <1>5, <2>2, <2>3
<1>7. OwnKeys' /\ \A u \in CourseTerm : RowBehind(u)'
  BY <1>1 DEF CourseInv, OwnKeys, BehindExplained, RowBehind
<1>8. QED
  BY <1>4, <1>6, <1>7 DEF CourseInv, BehindExplained

(* A put that is added brings what is handed over, or takes the place of   *)
(* one that would have brought more.                                       *)
LEMMA AddPutCourseInv ==
    ASSUME CourseInv, NEW c \in Caller, AddPutCourse(c)
    PROVE  CourseInv'
<1> DEFINE r == caller[c]
           task == [kind |-> "put", term |-> r.term, version |-> r.version]
           old == courseWaits["put"]
           newest == Later(handed[r.term], r.version)
<1>1. r \in CourseRequest /\ r.term \in CourseTerm /\ r.version \in Version
  BY CourseForms DEF AddPutCourse, CourseInv, CourseTyped
<1>2. task \in CourseTask /\ task.kind = "put" /\ task.term = r.term /\ task.version = r.version /\ task # NoTask
      /\ CourseKeyOf[task] = "put"
  BY <1>1, CourseForms DEF CourseTask, NoTask, CourseKeyOf
<1>3. /\ courseWaits' = [courseWaits EXCEPT !["put"] = task]
      /\ caller' = [caller EXCEPT ![c] = [r EXCEPT !.step = "own"]]
      /\ handed' = [handed EXCEPT ![r.term] = newest]
      /\ UNCHANGED <<registry, courseRow, courseCopy, courseRuns, courseLeft, answered, copyCause>>
  BY <1>2 DEF AddPutCourse, CourseExecutor!Submit
<1>4. rowCause' = [t \in CourseTerm |->
          rowCause[t] \cup (IF Brings(old, {"put"}, t) > Brings(task, {"put"}, t) THEN {"replaced"} ELSE {})]
  BY DEF AddPutCourse
<1>5. handed[r.term] \in Version \cup {NoVersion}
  BY <1>1 DEF CourseInv, CourseTyped, Versions
<1>6. newest \in Version \cup {NoVersion} /\ newest \in {handed[r.term], r.version}
      /\ (newest = r.version \/ r.version < newest)
  BY <1>1, <1>5, CourseForms DEF Later
<1>7. \A t \in CourseTerm : Brings(task, {"put"}, t) = IF t = r.term THEN r.version ELSE 0
  BY <1>2 DEF Brings, NoVersion
<1>8. /\ [r EXCEPT !.step = "own"] \in CourseRequest
      /\ "put" \in CourseKey /\ \A t \in CourseTerm : t # "put" /\ t \in CourseKey
  BY <1>1, CourseForms
<1> HIDE DEF task, newest
<1>9. CourseTyped'
  <2>1. rowCause' = [t \in CourseTerm |-> rowCause'[t]]
    BY <1>4
  <2>2. QED
    BY <1>1, <1>2, <1>3, <1>6, <1>8, <2>1 DEF CourseInv, CourseTyped, Versions
<1>10. courseWaits'["put"] = task /\ \A k \in CourseKey : k # "put" => courseWaits'[k] = courseWaits[k]
  BY <1>3, <1>8 DEF CourseInv, CourseTyped
<1>11. OwnKeys'
  BY <1>2, <1>3, <1>8, <1>10 DEF CourseInv, OwnKeys
<1>12. \A t \in CourseTerm : CopyBehind(t)'
  BY <1>3, <1>8, <1>10 DEF CourseInv, BehindExplained, CopyBehind
<1>13. ASSUME NEW t \in CourseTerm PROVE RowBehind(t)'
  <2>1. RowBehind(t) /\ courseRow[t] \in Nat /\ handed[t] \in Nat
    BY CourseForms DEF CourseInv, BehindExplained, CourseTyped, Versions
  <2>2. handed'[t] = IF t = r.term THEN newest ELSE handed[t]
    BY <1>1, <1>3 DEF CourseInv, CourseTyped, Versions
  <2>3. rowCause'[t] = rowCause[t] \cup (IF Brings(old, {"put"}, t) > Brings(task, {"put"}, t) THEN {"replaced"} ELSE {})
    BY <1>4
  <2>4. CASE t = r.term /\ newest = r.version
    <3>1. Brings(task, {"put"}, t) >= handed'[t]
      BY <1>1, <1>7, <2>2, <2>4, CourseForms
    <3>2. QED
      BY <1>10, <3>1 DEF RowBehind
  <2>5. CASE handed'[t] = handed[t] /\ Brings(task, {"put"}, t) < handed[t]
    <3>1. Brings(old, {"put"}, t) \in Nat /\ Brings(task, {"put"}, t) \in Nat
      BY <1>1, <1>7, <1>8, CourseForms DEF CourseInv, CourseTyped, Brings
    <3>2. CASE ~(courseRow[t] < handed[t])
      BY <1>3, <2>5, <3>2 DEF RowBehind
    <3>3. CASE rowCause[t] # {}
      BY <2>3, <3>3 DEF RowBehind
    <3>4. CASE Brings(old, {"put"}, t) >= handed[t]
      <4>1. Brings(old, {"put"}, t) > Brings(task, {"put"}, t)
        BY <2>1, <2>5, <3>1, <3>4
      <4>2. QED
        BY <2>3, <4>1 DEF RowBehind
    <3>5. QED
      BY <2>1, <3>2, <3>3, <3>4 DEF RowBehind
  <2>6. CASE t # r.term /\ handed[t] = 0
    BY <1>3, <2>1, <2>2, <2>6 DEF RowBehind
  <2>7. CASE t # r.term /\ handed[t] # 0
    <3>1. Brings(task, {"put"}, t) < handed[t]
      BY <1>7, <2>1, <2>7
    <3>2. QED
      BY <2>2, <2>5, <2>7, <3>1
  <2>8. CASE t = r.term /\ r.version < newest
    <3>1. newest = handed[t]
      BY <1>1, <1>6, <2>8, CourseForms
    <3>2. QED
      BY <1>7, <2>2, <2>5, <2>8, <3>1
  <2>9. QED
    BY <1>6, <2>4, <2>6, <2>7, <2>8
<1>14. QED
  BY <1>9, <1>11, <1>12, <1>13 DEF CourseInv, BehindExplained

(* A store that is added brings at least what is answered, or takes the    *)
(* place of more.                                                          *)
LEMMA AddCourseCacheInv ==
    ASSUME CourseInv, NEW c \in Caller, AddCourseCache(c)
    PROVE  CourseInv'
<1> DEFINE r == caller[c]
           u == r.term
           task == [kind |-> r.step, term |-> r.term, version |-> r.version]
           old == courseWaits[u]
           newest == IF r.step = "own" THEN Later(answered[u], r.version) ELSE answered[u]
           replaced == Brings(old, {"own", "row"}, u) > r.version \/ answered[u] > r.version
<1>1. r \in CourseRequest /\ u \in CourseTerm /\ r.version \in Version /\ r.step \in {"own", "row"}
  BY CourseForms DEF AddCourseCache, CourseInv, CourseTyped
<1>2. task \in CourseTask /\ task.kind = r.step /\ task.term = u /\ task.version = r.version /\ task # NoTask
      /\ CourseKeyOf[task] = u
  BY <1>1, CourseForms DEF CourseTask, NoTask, CourseKeyOf
<1>3. /\ courseWaits' = [courseWaits EXCEPT ![u] = task]
      /\ caller' = [caller EXCEPT ![c] = Ended]
      /\ UNCHANGED <<registry, courseRow, courseCopy, courseRuns, courseLeft, handed, rowCause>>
  BY <1>2 DEF AddCourseCache, CourseExecutor!Submit
<1>4. answered[u] \in Version \cup {NoVersion}
  BY <1>1 DEF CourseInv, CourseTyped, Versions
<1>5. answered' = [answered EXCEPT ![u] = newest]
  BY <1>1 DEF AddCourseCache, CourseInv, CourseTyped, Versions
<1>6. copyCause' = [copyCause EXCEPT ![u] = @ \cup IF replaced THEN {"replaced"} ELSE {}]
  BY DEF AddCourseCache
<1>7. newest \in Version \cup {NoVersion} /\ (newest = r.version \/ newest = answered[u])
  BY <1>1, <1>4 DEF Later
<1>8. Brings(task, {"own", "row"}, u) = r.version
  BY <1>1, <1>2 DEF Brings
<1>9. u \in CourseKey /\ "put" \in CourseKey /\ u # "put"
  BY <1>1, CourseForms
<1> HIDE DEF task, newest
<1>10. CourseTyped'
  <2>1. copyCause' = [t \in CourseTerm |-> copyCause'[t]]
    BY <1>6 DEF CourseInv, CourseTyped
  <2>2. QED
    BY <1>1, <1>2, <1>3, <1>5, <1>7, <1>9, <2>1 DEF CourseInv, CourseTyped, Versions
<1>11. courseWaits'[u] = task /\ \A k \in CourseKey : k # u => courseWaits'[k] = courseWaits[k]
  BY <1>3, <1>9 DEF CourseInv, CourseTyped
<1>12. OwnKeys'
  BY <1>2, <1>3, <1>11 DEF CourseInv, OwnKeys
<1>13. \A t \in CourseTerm : RowBehind(t)'
  BY <1>3, <1>9, <1>11 DEF CourseInv, BehindExplained, RowBehind
<1>14. ASSUME NEW t \in CourseTerm, t # u PROVE CopyBehind(t)'
  <2>1. CopyBehind(t) /\ courseWaits'[t] = courseWaits[t]
    BY <1>11, <1>14, CourseForms DEF CourseInv, BehindExplained
  <2>2. answered'[t] = answered[t] /\ copyCause'[t] = copyCause[t]
    BY <1>5, <1>6, <1>14 DEF CourseInv, CourseTyped, Versions
  <2>3. QED
    BY <1>3, <2>1, <2>2 DEF CopyBehind
<1>15. ASSUME NEW t \in CourseTerm, t = u PROVE CopyBehind(t)'
  <2>1. answered'[t] = newest
    BY <1>5, <1>15 DEF CourseInv, CourseTyped, Versions
  <2>2. CASE newest = r.version \/ answered[u] <= r.version
    <3>1. Brings(courseWaits'[t], {"own", "row"}, t) >= answered'[t]
      BY <1>1, <1>4, <1>7, <1>8, <1>11, <1>15, <2>1, <2>2, CourseForms
    <3>2. QED
      BY <3>1 DEF CopyBehind
  <2>3. CASE answered[u] > r.version
    <3>1. copyCause'[t] = copyCause[t] \cup {"replaced"}
      BY <1>6, <1>15, <2>3 DEF CourseInv, CourseTyped
    <3>2. QED
      BY <3>1 DEF CopyBehind
  <2>4. QED
    BY <1>1, <1>4, <2>2, <2>3, CourseForms
<1>16. QED
  BY <1>10, <1>12, <1>13, <1>14, <1>15 DEF CourseInv, BehindExplained

LEMMA BeginCourseTaskInv ==
    ASSUME CourseInv, NEW k \in CourseKey, BeginCourseTask(k)
    PROVE  CourseInv'
<1>1. /\ courseRuns' = [courseRuns EXCEPT ![k] = courseWaits[k]] /\ courseWaits[k] # NoTask
      /\ UNCHANGED <<registry, courseRow, courseCopy, caller, courseWaits, courseLeft, answered, handed,
                     copyCause, rowCause>>
  BY DEF BeginCourseTask, CourseExecutor!Begin
<1>2. CourseTyped' /\ OwnKeys'
  BY <1>1 DEF CourseInv, CourseTyped, OwnKeys
<1>3. BehindExplained'
  BY <1>1 DEF CourseInv, BehindExplained, CopyBehind, RowBehind
<1>4. QED
  BY <1>2, <1>3 DEF CourseInv

(* A put that fails after its statement may set the row back, which is a   *)
(* cause; otherwise the row is where it was or further.                    *)
LEMMA CourseTaskFailsInv ==
    ASSUME CourseInv, NEW k \in CourseKey, CourseTaskFails(k)
    PROVE  CourseInv'
<1> DEFINE task == courseRuns[k]
<1>1. task \in CourseTask /\ CourseKeyOf[task] = k /\ task.term \in CourseTerm /\ task.version \in Version
      /\ (k = "put" <=> task.kind = "put")
  BY CourseForms DEF CourseTaskFails, CourseInv, CourseTyped, OwnKeys
<1>2. /\ courseRuns' = [courseRuns EXCEPT ![k] = NoTask]
      /\ UNCHANGED <<registry, courseCopy, caller, courseWaits, answered, handed, copyCause>>
      /\ \/ courseRow' = courseRow
         \/ k = "put" /\ courseRow' = [courseRow EXCEPT ![task.term] = task.version]
  BY DEF CourseTaskFails, CourseExecutor!Release, PutCourse
<1>3. rowCause' = IF k # "put" THEN rowCause
                  ELSE [rowCause EXCEPT ![task.term] =
                          IF courseRow'[task.term] < courseRow[task.term] THEN @ \cup {"late"} ELSE @]
  BY DEF CourseTaskFails
<1>4. courseLeft' \in [CourseKinds -> Nat]
  BY CourseCosts DEF CourseTaskFails, CourseKinds
<1>5. courseRow' \in Versions /\ \A t \in CourseTerm : t # task.term => courseRow'[t] = courseRow[t]
  BY <1>1, <1>2 DEF CourseInv, CourseTyped, Versions
<1>6. rowCause' = [t \in CourseTerm |-> rowCause'[t]]
  BY <1>3 DEF CourseInv, CourseTyped
<1>7. CourseTyped'
  BY <1>2, <1>4, <1>5, <1>6 DEF CourseInv, CourseTyped
<1>8. OwnKeys' /\ \A t \in CourseTerm : CopyBehind(t)'
  BY <1>2 DEF CourseInv, CourseTyped, OwnKeys, BehindExplained, CopyBehind
<1>9. ASSUME NEW t \in CourseTerm PROVE RowBehind(t)'
  <2>1. RowBehind(t) /\ courseRow[t] \in Nat /\ courseRow'[t] \in Nat /\ handed[t] \in Nat
    BY <1>5, CourseForms DEF CourseInv, BehindExplained, CourseTyped, Versions
  <2>2. rowCause'[t] = IF k = "put" /\ t = task.term /\ courseRow'[t] < courseRow[t]
                       THEN rowCause[t] \cup {"late"} ELSE rowCause[t]
    BY <1>1, <1>3 DEF CourseInv, CourseTyped
  <2>3. CASE courseRow'[t] < courseRow[t]
    <3>1. k = "put" /\ t = task.term
      BY <1>2, <1>5, <2>1, <2>3
    <3>2. QED
      BY <2>2, <2>3, <3>1 DEF RowBehind
  <2>4. CASE courseRow[t] <= courseRow'[t]
    BY <1>2, <2>1, <2>2, <2>4 DEF RowBehind
  <2>5. QED
    BY <2>1, <2>3, <2>4
<1>10. QED
  BY <1>7, <1>8, <1>9 DEF CourseInv, BehindExplained

(* The put's success erases the put that waits, whichever term it is of.   *)
LEMMA PutSucceedsInv ==
    ASSUME CourseInv, PutSucceeds
    PROVE  CourseInv'
<1> DEFINE task == courseRuns["put"]
           late == courseWaits["put"]
<1>1. "put" \in CourseKey /\ \A t \in CourseTerm : t \in CourseKey /\ t # "put"
  BY CourseForms
<1>2. task \in CourseTask /\ task.term \in CourseTerm /\ task.version \in Version /\ task # NoTask
  BY <1>1, CourseForms DEF PutSucceeds, CourseInv, CourseTyped
<1>3. /\ courseRow' = [courseRow EXCEPT ![task.term] = task.version]
      /\ courseRuns' = [courseRuns EXCEPT !["put"] = NoTask]
      /\ courseWaits' = [courseWaits EXCEPT !["put"] = NoTask]
      /\ UNCHANGED <<registry, courseCopy, caller, courseLeft, answered, handed, copyCause>>
  BY DEF PutSucceeds, PutCourse, CourseExecutor!Succeed
<1>4. rowCause' = [t \in CourseTerm |->
          IF late # task /\ Brings(late, {"put"}, t) > courseRow'[t] THEN rowCause[t] \cup {"erased"}
          ELSE IF t = task.term /\ task.version < handed[t] THEN rowCause[t] \cup {"late"}
          ELSE rowCause[t]]
  BY DEF PutSucceeds
<1>5. rowCause' = [t \in CourseTerm |-> rowCause'[t]]
  BY <1>4
<1>6. CourseTyped'
  BY <1>1, <1>2, <1>3, <1>5 DEF CourseInv, CourseTyped, Versions
<1>7. courseWaits'["put"] = NoTask /\ courseRuns'["put"] = NoTask
      /\ \A k \in CourseKey : k # "put" => courseWaits'[k] = courseWaits[k] /\ courseRuns'[k] = courseRuns[k]
  BY <1>1, <1>3 DEF CourseInv, CourseTyped
<1>8. OwnKeys'
  BY <1>7 DEF CourseInv, OwnKeys
<1>9. \A t \in CourseTerm : CopyBehind(t)'
  BY <1>1, <1>3, <1>7 DEF CourseInv, BehindExplained, CopyBehind
<1>10. ASSUME NEW t \in CourseTerm PROVE RowBehind(t)'
  <2>1. RowBehind(t) /\ courseRow[t] \in Nat /\ handed[t] \in Nat
    BY CourseForms DEF CourseInv, BehindExplained, CourseTyped, Versions
  <2>2. courseRow'[t] = IF t = task.term THEN task.version ELSE courseRow[t]
    BY <1>2, <1>3 DEF CourseInv, CourseTyped, Versions
  <2>3. rowCause'[t] =
          IF late # task /\ Brings(late, {"put"}, t) > courseRow'[t] THEN rowCause[t] \cup {"erased"}
          ELSE IF t = task.term /\ task.version < handed[t] THEN rowCause[t] \cup {"late"}
          ELSE rowCause[t]
    BY <1>4
  <2>4. CASE t = task.term
    BY <1>3, <2>2, <2>3, <2>4 DEF RowBehind
  <2>5. CASE t # task.term
    <3>1. late = task => Brings(late, {"put"}, t) = 0
      BY <2>5 DEF Brings, NoVersion
    <3>2. Brings(late, {"put"}, t) \in Nat
      BY <1>1, CourseForms DEF CourseInv, CourseTyped, Brings
    <3>3. QED
      BY <1>3, <2>1, <2>2, <2>3, <2>5, <3>1, <3>2 DEF RowBehind
  <2>6. QED
    BY <2>4, <2>5
<1>11. QED
  BY <1>6, <1>8, <1>9, <1>10 DEF CourseInv, BehindExplained

(* Of a term's key only stores of the term are the tasks, so the copy has  *)
(* what was answered, or a cause is noted.                                 *)
LEMMA CacheSucceedsInv ==
    ASSUME CourseInv, NEW u \in CourseTerm, CacheSucceeds(u)
    PROVE  CourseInv'
<1> DEFINE task == courseRuns[u]
           cause == IF task.kind = "row" THEN "row" ELSE "late"
<1>1. "put" \in CourseKey /\ u \in CourseKey /\ u # "put"
  BY CourseForms
<1>2. task \in CourseTask /\ task.version \in Version /\ task # NoTask
  BY <1>1, CourseForms DEF CacheSucceeds, CourseInv, CourseTyped
<1>3. task.term = u
  BY <1>1, <1>2, CourseForms DEF CourseInv, OwnKeys
<1>4. /\ courseCopy' = [courseCopy EXCEPT ![u] = task.version]
      /\ courseRuns' = [courseRuns EXCEPT ![u] = NoTask]
      /\ courseWaits' = [courseWaits EXCEPT ![u] = NoTask]
      /\ copyCause' = [copyCause EXCEPT ![u] = IF task.version >= answered[u] THEN {} ELSE @ \cup {cause}]
      /\ UNCHANGED <<registry, courseRow, caller, courseLeft, answered, handed, rowCause>>
  BY <1>3 DEF CacheSucceeds, SetCoursesCache, CourseExecutor!Succeed
<1> HIDE DEF cause
<1>5. copyCause' = [t \in CourseTerm |-> copyCause'[t]]
  BY <1>4 DEF CourseInv, CourseTyped
<1>6. CourseTyped'
  BY <1>1, <1>2, <1>4, <1>5 DEF CourseInv, CourseTyped, Versions
<1>7. courseWaits'[u] = NoTask /\ courseRuns'[u] = NoTask
      /\ \A k \in CourseKey : k # u => courseWaits'[k] = courseWaits[k] /\ courseRuns'[k] = courseRuns[k]
  BY <1>1, <1>4 DEF CourseInv, CourseTyped
<1>8. OwnKeys'
  BY <1>7 DEF CourseInv, OwnKeys
<1>9. \A t \in CourseTerm : RowBehind(t)'
  BY <1>1, <1>4, <1>7 DEF CourseInv, BehindExplained, RowBehind
<1>10. ASSUME NEW t \in CourseTerm PROVE CopyBehind(t)'
  <2>1. CASE t # u
    <3>1. CopyBehind(t) /\ courseWaits'[t] = courseWaits[t]
      BY <1>7, <2>1, CourseForms DEF CourseInv, BehindExplained
    <3>2. courseCopy'[t] = courseCopy[t] /\ copyCause'[t] = copyCause[t]
      BY <1>4, <2>1 DEF CourseInv, CourseTyped, Versions
    <3>3. QED
      BY <1>4, <3>1, <3>2 DEF CopyBehind
  <2>2. CASE t = u
    <3>1. courseCopy'[t] = task.version /\ answered'[t] = answered[t]
          /\ copyCause'[t] = IF task.version >= answered[t] THEN {} ELSE copyCause[t] \cup {cause}
      BY <1>4, <2>2 DEF CourseInv, CourseTyped, Versions
    <3>2. answered[t] \in Nat /\ task.version \in Nat
      BY <1>2, CourseForms DEF CourseInv, CourseTyped, Versions
    <3>3. QED
      BY <3>1, <3>2 DEF CopyBehind
  <2>3. QED
    BY <2>1, <2>2
<1>11. QED
  BY <1>6, <1>8, <1>9, <1>10 DEF CourseInv, BehindExplained

LEMMA CourseTimeInv ==
    ASSUME CourseInv, NEW t \in CourseTerm, RegistryChanges(t) \/ CourseCopyExpires(t)
    PROVE  CourseInv'
<1>1. courseLeft' \in [CourseKinds -> Nat]
  BY CourseCosts DEF RegistryChanges, CourseCopyExpires, CourseKinds
<1>2. UNCHANGED <<courseRow, caller, courseWaits, courseRuns, answered, handed, copyCause, rowCause>>
      /\ \A u \in CourseTerm : courseCopy'[u] \in {courseCopy[u], NoVersion}
  BY DEF RegistryChanges, CourseCopyExpires, CourseInv, CourseTyped, Versions
<1>3. registry' \in [CourseTerm -> Version] /\ courseCopy' \in Versions
  <2>1. CASE RegistryChanges(t)
    <3>1. registry[t] \in Version /\ registry[t] < LastVersion
      BY <2>1 DEF RegistryChanges, CourseInv, CourseTyped
    <3>2. registry[t] + 1 \in Version
      BY <3>1, CourseAssumption DEF Version
    <3>3. QED
      BY <2>1, <3>2 DEF RegistryChanges, CourseInv, CourseTyped
  <2>2. CASE CourseCopyExpires(t)
    BY <2>2 DEF CourseCopyExpires, CourseInv, CourseTyped, Versions
  <2>3. QED
    BY <2>1, <2>2
<1>4. CourseTyped' /\ OwnKeys'
  BY <1>1, <1>2, <1>3 DEF CourseInv, CourseTyped, OwnKeys
<1>5. \A u \in CourseTerm : CopyBehind(u)' /\ RowBehind(u)'
  BY <1>2 DEF CourseInv, BehindExplained, CopyBehind, RowBehind
<1>6. QED
  BY <1>4, <1>5 DEF CourseInv, BehindExplained

LEMMA CourseCrashInv == ASSUME CourseInv, CourseCrash PROVE CourseInv'
<1>1. courseLeft' \in [CourseKinds -> Nat]
  BY CourseCosts DEF CourseCrash, CourseKinds
<1>2. CourseTyped' /\ OwnKeys'
  BY <1>1 DEF CourseCrash, CourseInv, CourseTyped, OwnKeys
<1>3. \A t \in CourseTerm : copyCause'[t] # {} /\ rowCause'[t] # {}
  BY DEF CourseCrash
<1>4. BehindExplained'
  BY <1>3 DEF BehindExplained, CopyBehind, RowBehind
<1>5. QED
  BY <1>2, <1>4 DEF CourseInv

LEMMA CourseNextInv == CourseInv /\ [CourseNext]_courseVars => CourseInv'
<1> SUFFICES ASSUME CourseInv, [CourseNext]_courseVars PROVE CourseInv'
  OBVIOUS
<1>1. ASSUME NEW c \in Caller, \E t \in CourseTerm : AnswerCopy(c, t) PROVE CourseInv'
  BY <1>1, AnswerCopyInv
<1>2. ASSUME NEW c \in Caller, (\E t \in CourseTerm : FetchCourses(c, t) \/ GetSemesterCourses(c, t)) \/ CallerFails(c)
      PROVE  CourseInv'
  BY <1>2, CourseRequestsInv
<1>3. ASSUME NEW c \in Caller, AddPutCourse(c) \/ AddCourseCache(c) PROVE CourseInv'
  BY <1>3, AddPutCourseInv, AddCourseCacheInv
<1>4. ASSUME NEW k \in CourseKey, BeginCourseTask(k) \/ CourseTaskFails(k) PROVE CourseInv'
  BY <1>4, BeginCourseTaskInv, CourseTaskFailsInv
<1>5. ASSUME NEW t \in CourseTerm, CacheSucceeds(t) \/ RegistryChanges(t) \/ CourseCopyExpires(t) PROVE CourseInv'
  BY <1>5, CacheSucceedsInv, CourseTimeInv
<1>6. CASE PutSucceeds \/ CourseCrash
  BY <1>6, PutSucceedsInv, CourseCrashInv
<1>7. CASE UNCHANGED courseVars
  BY <1>7 DEF courseVars, CourseInv, CourseTyped, OwnKeys, BehindExplained, CopyBehind, RowBehind
<1>8. QED
  BY <1>1, <1>2, <1>3, <1>4, <1>5, <1>6, <1>7 DEF CourseNext

(* Whatever requests, tasks and crashes do, the two copies hold versions,  *)
(* and the tasks are of the kinds the executor is given.                   *)
THEOREM CourseTypeCorrect == CourseSpec => []CourseTypeOK
<1>1. CourseInv => CourseTypeOK
  BY DEF CourseInv, CourseTyped, CourseTypeOK, CourseRequest, Versions
<1>2. QED
  BY CourseInitInv, CourseNextInv, <1>1, PTL DEF CourseSpec

(* Neither Redis nor the table falls behind what the student was answered  *)
(* or what was handed over to be stored without one of the causes named.   *)
THEOREM CourseCopiesAccounted == CourseSpec => []BehindExplained
<1>1. CourseInv => BehindExplained
  BY DEF CourseInv
<1>2. QED
  BY CourseInitInv, CourseNextInv, <1>1, PTL DEF CourseSpec

-----------------------------------------------------------------------------
(* ANSWERS FROM A COPY *)

(* How old what is stored may be when the store is asked for.              *)
Slack == IF lookup = "GetUserInfo" THEN Life + 2 ELSE 1

CopyForm == [asOf : Moment, until : Nat, waited : Moment]
RowForm == [asOf : Moment, updatedAt : Moment]
ToldForm == [step : {"told"}, recent : BOOLEAN]
AskForm == [step : {"exists", "get", "row", "fetch", "write", "add", "set"},
            since : Moment, asOf : Moment \cup {NotYet}, update : BOOLEAN]

LookupsTyped ==
    /\ lookup \in Lookup /\ nothing \in BOOLEAN /\ moment \in Moment
    /\ lookupLeft \in [LookupKinds -> Nat]

(* What a copy holds is older than the copy by no more than the slack and  *)
(* the time its task waited.                                               *)
CopyFresh ==
    /\ copy \in {NoCopy} \cup CopyForm
    /\ copy # NoCopy /\ lookup # "GetContributorInfo" =>
          moment <= copy.until /\ copy.until <= copy.asOf + copy.waited + Life + Slack

RowFresh ==
    /\ row \in {NoRow} \cup RowForm
    /\ row # NoRow => row.updatedAt <= row.asOf + 1

TaskFresh(task) ==
    /\ task \in StoreTask \cup {NoStore}
    /\ task # NoStore => task.added <= moment /\ task.added <= task.asOf + Slack

TasksFresh ==
    /\ lookupWaits = [k \in {TheKey} |-> lookupWaits[k]] /\ lookupRuns = [k \in {TheKey} |-> lookupRuns[k]]
    /\ TaskFresh(lookupWaits[TheKey]) /\ TaskFresh(lookupRuns[TheKey])

DetachedFresh == detached \subseteq Moment /\ \A d \in detached : moment <= d + 1

PublisherFresh ==
    /\ publisher \in [at : Nat, asOf : Moment \cup {NotYet}]
    /\ publisher.asOf # NotYet =>
          publisher.at = publisher.asOf /\ publisher.asOf <= moment /\ moment <= publisher.asOf + 1

(* A request takes no longer than two ticks; contributors, whose copy does *)
(* not expire, find it where they found its key.                           *)
OnItsWay(r) ==
    /\ r \in AskForm /\ r.since <= moment /\ moment <= r.since + 1
    /\ r.step = "get" /\ lookup = "GetContributorInfo" => copy # NoCopy
    /\ r.step = "row" => lookup = "GetUserInfo"
    /\ r.step = "fetch" => lookup # "GetContributorInfo"
    /\ r.step = "write" => lookup = "GetUserInfo"
    /\ r.step = "set" => lookup \in {"GetTerm", "GetDir", "GetJobFair"}
    /\ r.step \in {"write", "set"} => r.asOf \in Moment /\ r.since <= r.asOf
    /\ r.step = "add" => lookup \in QueuedStores /\ r.asOf \in Moment /\ r.since + 1 <= r.asOf + Slack

AskerOf(r) ==
    \/ r \in ToldForm /\ (lookup # "GetContributorInfo" => r.recent)
    \/ \E cause \in Excuses : r = Failed(cause)
    \/ r = Empty("store") /\ lookup = "GetTerm"
    \/ OnItsWay(r)

AskersOk ==
    /\ asker = [a \in Asker |-> asker[a]]
    /\ \A a \in Asker : AskerOf(asker[a])

LookupsInv ==
    LookupsTyped /\ CopyFresh /\ RowFresh /\ TasksFresh /\ DetachedFresh /\ PublisherFresh /\ AskersOk

LEMMA LookupForms ==
    /\ Life \in Nat /\ Life > 1 /\ LastMoment \in Nat
    /\ Moment \subseteq Nat /\ NotYet \notin Moment /\ \A m \in Moment : m <= LastMoment
    /\ LookupBudgets \subseteq [LookupKinds -> Nat]
    /\ NoCopy \notin CopyForm /\ NoRow \notin RowForm /\ NoStore \notin StoreTask
<1>1. Life \in Nat /\ Life > 1 /\ LastMoment \in Nat /\ LookupBudgets \subseteq [LookupKinds -> Nat]
  BY LookupAssumption
<1>2. Moment \subseteq Nat /\ NotYet \notin Moment /\ \A m \in Moment : m <= LastMoment
  BY <1>1 DEF Moment, NotYet
<1>3. NoCopy \notin CopyForm /\ NoRow \notin RowForm /\ NoStore \notin StoreTask
  <2>1. DOMAIN NoCopy = {"asOf"} /\ DOMAIN NoRow = {"asOf"} /\ DOMAIN NoStore = {"asOf"}
    BY DEF NoCopy, NoRow, NoStore
  <2>2. \A c \in CopyForm : "until" \in DOMAIN c
    BY DEF CopyForm
  <2>3. \A c \in RowForm : "updatedAt" \in DOMAIN c
    BY DEF RowForm
  <2>4. \A c \in StoreTask : "added" \in DOMAIN c
    BY DEF StoreTask
  <2>5. QED
    BY <2>1, <2>2, <2>3, <2>4
<1>4. QED
  BY <1>1, <1>2, <1>3

(* A request on its way is not one that has ended.                         *)
LEMMA OnItsWayNow ==
    ASSUME LookupsInv, NEW a \in Asker, asker[a].step \notin Over
    PROVE  OnItsWay(asker[a])
  BY DEF LookupsInv, AskersOk, AskerOf, ToldForm, Failed, Empty, Over

LEMMA ExcusesAre ==
    ASSUME LookupsTyped
    PROVE  /\ lookup # "GetContributorInfo" => "source" \in Excuses
           /\ lookup \notin {"GetLocateDate"} => "redis" \in Excuses
           /\ lookup \notin {"GetLocateDate", "GetContributorInfo"} => "expired" \in Excuses
           /\ lookup = "GetContributorInfo" => "no copy" \in Excuses
           /\ lookup = "GetUserInfo" => {"database", "duplicate"} \subseteq Excuses
  BY DEF LookupsTyped, Excuses

LEMMA LookupsInitInv == LookupsInit => LookupsInv
<1> SUFFICES ASSUME LookupsInit PROVE LookupsInv
  OBVIOUS
<1>1. 0 \in Moment
  BY LookupForms DEF Moment
<1>2. LookupsTyped /\ CopyFresh /\ RowFresh /\ DetachedFresh
  BY <1>1, LookupForms DEF LookupsInit, LookupsTyped, CopyFresh, RowFresh, DetachedFresh
<1>3. TasksFresh
  BY DEF LookupsInit, LookupExecutor!Init, TasksFresh, TaskFresh
<1>4. PublisherFresh
  BY LookupForms DEF LookupsInit, PublisherFresh, NotYet
<1>5. Told(TRUE) \in ToldForm /\ Told(TRUE).recent
  BY DEF Told, ToldForm
<1>6. AskersOk
  BY <1>5 DEF LookupsInit, AskersOk, AskerOf
<1>7. QED
  BY <1>2, <1>3, <1>4, <1>6 DEF LookupsInv

LEMMA TakesLeft ==
    ASSUME LookupsInv, NEW kind \in LookupKinds, Takes(kind)
    PROVE  lookupLeft' \in [LookupKinds -> Nat]
  BY DEF LookupsInv, LookupsTyped, Takes

(* One request goes on; the others wait for no copy that is gone.          *)
LEMMA AskerMoves ==
    ASSUME LookupsInv, NEW a \in Asker, NEW r, asker' = [asker EXCEPT ![a] = r], AskerOf(r),
           UNCHANGED <<lookup, moment>>, copy # NoCopy => copy' # NoCopy
    PROVE  AskersOk'
<1>1. asker' = [b \in Asker |-> asker'[b]] /\ asker'[a] = r /\ \A b \in Asker : b # a => asker'[b] = asker[b]
  BY DEF LookupsInv, AskersOk
<1>2. \A b \in Asker : AskerOf(asker'[b])
  BY <1>1 DEF LookupsInv, AskersOk
<1>3. ASSUME NEW b \in Asker PROVE AskerOf(asker[b])'
  <2>1. CASE OnItsWay(asker'[b])
    <3>1. OnItsWay(asker[b])'
      BY <2>1 DEF OnItsWay, Slack
    <3>2. QED
      BY <3>1 DEF AskerOf
  <2>2. CASE ~OnItsWay(asker'[b])
    BY <1>2, <2>2 DEF AskerOf, Excuses
  <2>3. QED
    BY <2>1, <2>2
<1>4. QED
  BY <1>1, <1>3 DEF AskersOk

LEMMA OnlyAskerInv ==
    ASSUME LookupsInv, NEW a \in Asker, NEW r, asker' = [asker EXCEPT ![a] = r], AskerOf(r),
           OnlyAsker, lookupLeft' \in [LookupKinds -> Nat]
    PROVE  LookupsInv'
<1>1. UNCHANGED <<lookup, nothing, moment, publisher, copy, row, detached, lookupWaits, lookupRuns>>
  BY DEF OnlyAsker, Unmoved
<1>2. AskersOk'
  BY <1>1, AskerMoves
<1>3. LookupsTyped' /\ CopyFresh' /\ RowFresh'
  BY <1>1 DEF LookupsInv, LookupsTyped, CopyFresh, RowFresh, Slack
<1>4. TasksFresh' /\ DetachedFresh' /\ PublisherFresh'
  BY <1>1 DEF LookupsInv, TasksFresh, TaskFresh, DetachedFresh, PublisherFresh, Slack
<1>5. QED
  BY <1>2, <1>3, <1>4 DEF LookupsInv

(* What a request is told: a failure with its excuse, or that what it was  *)
(* answered is recent.                                                     *)
LEMMA FailedOk == ASSUME NEW cause \in Excuses PROVE AskerOf(Failed(cause))
  BY DEF AskerOf

LEMMA ToldOk ==
    ASSUME NEW recent \in BOOLEAN, lookup # "GetContributorInfo" => recent
    PROVE  AskerOf(Told(recent))
<1>1. Told(recent) \in ToldForm /\ Told(recent).recent = recent
  BY DEF Told, ToldForm
<1>2. QED
  BY <1>1 DEF AskerOf

(* The request's next step, when it keeps what it has fetched.             *)
LEMMA GoesToForm ==
    ASSUME LookupsInv, NEW a \in Asker, NEW step, GoesTo(a, step)
    PROVE  asker' = [asker EXCEPT ![a] = [asker[a] EXCEPT !.step = step]]
  BY DEF GoesTo, LookupsInv, AskersOk

(* Without a copy, a student's row or the outside is next.                 *)
LEMMA MissesOk ==
    ASSUME LookupsInv, NEW a \in Asker, asker[a].step = "exists", NEW cause \in {"no copy", "redis"},
           Misses(a, cause), OnlyAsker, lookupLeft' \in [LookupKinds -> Nat]
    PROVE  LookupsInv'
<1>1. OnItsWay(asker[a])
  BY OnItsWayNow DEF Over
<1>2. CASE lookup = "GetContributorInfo"
  <2>1. asker' = [asker EXCEPT ![a] = Failed(cause)]
    BY <1>2 DEF Misses, Fails
  <2>2. cause \in Excuses
    BY <1>2, ExcusesAre DEF LookupsInv
  <2>3. PICK r : r = Failed(cause)
    OBVIOUS
  <2>4. AskerOf(r)
    BY <2>2, <2>3, FailedOk
  <2>5. QED
    BY <2>1, <2>3, <2>4, OnlyAskerInv
<1>3. CASE lookup # "GetContributorInfo"
  <2>1. PICK step \in {"row", "fetch"} : GoesTo(a, step) /\ (step = "row" => lookup = "GetUserInfo")
    BY <1>3 DEF Misses
  <2>2. PICK r : r = [asker[a] EXCEPT !.step = step]
    OBVIOUS
  <2>3. asker' = [asker EXCEPT ![a] = r]
    BY <2>1, <2>2, GoesToForm
  <2>4. OnItsWay(r)
    BY <1>1, <1>3, <2>1, <2>2 DEF OnItsWay, AskForm
  <2>5. QED
    BY <2>3, <2>4, OnlyAskerInv DEF AskerOf
<1>4. QED
  BY <1>2, <1>3

LEMMA AskInv == ASSUME LookupsInv, NEW a \in Asker, Ask(a) PROVE LookupsInv'
<1>1. PICK r : r = Begun("exists")
  OBVIOUS
<1>2. asker' = [asker EXCEPT ![a] = r] /\ lookupLeft' \in [LookupKinds -> Nat] /\ OnlyAsker
  BY <1>1, TakesLeft DEF Ask, LookupKinds
<1>3. OnItsWay(r)
  BY <1>1, LookupForms DEF Begun, OnItsWay, AskForm, LookupsInv, LookupsTyped
<1>4. QED
  BY <1>2, <1>3, OnlyAskerInv DEF AskerOf

LEMMA IsKeyExistInv == ASSUME LookupsInv, NEW a \in Asker, IsKeyExist(a) PROVE LookupsInv'
<1>1. OnItsWay(asker[a]) /\ asker[a].step = "exists" /\ OnlyAsker
  BY OnItsWayNow DEF IsKeyExist, Over
<1>2. lookupLeft' \in [LookupKinds -> Nat]
  BY TakesLeft DEF IsKeyExist, LookupKinds, LookupsInv, LookupsTyped
<1>3. CASE Misses(a, "redis") \/ Misses(a, "no copy")
  BY <1>1, <1>2, <1>3, MissesOk
<1>4. CASE copy # NoCopy /\ GoesTo(a, "get")
  <2>1. PICK r : r = [asker[a] EXCEPT !.step = "get"]
    OBVIOUS
  <2>2. asker' = [asker EXCEPT ![a] = r]
    BY <1>4, <2>1, GoesToForm
  <2>3. OnItsWay(r)
    BY <1>1, <1>4, <2>1 DEF OnItsWay, AskForm
  <2>4. QED
    BY <1>1, <1>2, <2>2, <2>3, OnlyAskerInv DEF AskerOf
<1>5. QED
  BY <1>3, <1>4 DEF IsKeyExist

LEMMA NotGotOk ==
    ASSUME LookupsInv, NEW a \in Asker, asker[a].step = "get", NEW cause \in {"expired", "redis"},
           lookup = "GetContributorInfo" => cause = "redis",
           NotGot(a, cause), OnlyAsker, lookupLeft' \in [LookupKinds -> Nat]
    PROVE  LookupsInv'
<1>1. OnItsWay(asker[a])
  BY OnItsWayNow DEF Over
<1>2. CASE lookup = "GetLocateDate"
  <2>1. PICK r : r = [asker[a] EXCEPT !.step = "fetch"]
    OBVIOUS
  <2>2. asker' = [asker EXCEPT ![a] = r]
    BY <1>2, <2>1, GoesToForm DEF NotGot
  <2>3. OnItsWay(r)
    BY <1>1, <1>2, <2>1 DEF OnItsWay, AskForm
  <2>4. QED
    BY <2>2, <2>3, OnlyAskerInv DEF AskerOf
<1>3. CASE lookup # "GetLocateDate"
  <2>1. asker' = [asker EXCEPT ![a] = Failed(cause)]
    BY <1>3 DEF NotGot, Fails
  <2>2. cause \in Excuses
    BY <1>3, ExcusesAre DEF LookupsInv
  <2>3. PICK r : r = Failed(cause)
    OBVIOUS
  <2>4. AskerOf(r)
    BY <2>2, <2>3, FailedOk
  <2>5. QED
    BY <2>1, <2>3, <2>4, OnlyAskerInv
<1>4. QED
  BY <1>2, <1>3

(* A copy that has not expired is no older than its life, what its task    *)
(* waited, and what was stored.                                            *)
LEMMA GetCopyInv == ASSUME LookupsInv, NEW a \in Asker, GetCopy(a) PROVE LookupsInv'
<1>1. OnItsWay(asker[a]) /\ asker[a].step = "get" /\ OnlyAsker
  BY OnItsWayNow DEF GetCopy, Over
<1>2. lookupLeft' \in [LookupKinds -> Nat]
  BY TakesLeft DEF GetCopy, LookupKinds, LookupsInv, LookupsTyped
<1>3. CASE copy # NoCopy /\ Tells(a, copy.asOf, copy.waited)
  <2>1. copy \in CopyForm /\ copy.asOf \in Nat /\ copy.waited \in Nat /\ copy.until \in Nat
    BY <1>3, LookupForms DEF LookupsInv, CopyFresh, CopyForm
  <2>2. PICK recent : recent = (moment - copy.asOf <= OldestAnswer(copy.waited))
    OBVIOUS
  <2>3. lookup # "GetContributorInfo" => moment - copy.asOf <= OldestAnswer(copy.waited)
    BY <1>3, <2>1, LookupForms DEF LookupsInv, LookupsTyped, CopyFresh, OldestAnswer, Slack
  <2>4. PICK r : r = Told(recent)
    OBVIOUS
  <2>5. asker' = [asker EXCEPT ![a] = r]
    BY <1>3, <2>2, <2>4 DEF Tells
  <2>6. recent \in BOOLEAN
    BY <2>2
  <2>7. AskerOf(r)
    BY <2>2, <2>3, <2>4, <2>6, ToldOk
  <2>8. QED
    BY <1>1, <1>2, <2>5, <2>7, OnlyAskerInv
<1>4. CASE lookup = "GetTermList" /\ GoesTo(a, "fetch")
  <2>1. PICK r : r = [asker[a] EXCEPT !.step = "fetch"]
    OBVIOUS
  <2>2. asker' = [asker EXCEPT ![a] = r]
    BY <1>4, <2>1, GoesToForm
  <2>3. OnItsWay(r)
    BY <1>1, <1>4, <2>1 DEF OnItsWay, AskForm
  <2>4. QED
    BY <1>1, <1>2, <2>2, <2>3, OnlyAskerInv DEF AskerOf
<1>5. CASE copy = NoCopy /\ NotGot(a, "expired")
  <2>1. lookup # "GetContributorInfo"
    BY <1>1, <1>5 DEF OnItsWay
  <2>2. QED
    BY <1>1, <1>2, <1>5, <2>1, NotGotOk
<1>6. CASE NotGot(a, "redis")
  BY <1>1, <1>2, <1>6, NotGotOk
<1>7. QED
  BY <1>3, <1>4, <1>5, <1>6 DEF GetCopy

(* A row that counts is as old as its life, and was fetched a tick before  *)
(* it was written.                                                         *)
LEMMA GetStudentByIdInv == ASSUME LookupsInv, NEW a \in Asker, GetStudentById(a) PROVE LookupsInv'
<1>1. /\ OnItsWay(asker[a]) /\ asker[a].step = "row" /\ OnlyAsker /\ lookup = "GetUserInfo"
      /\ lookupLeft' \in [LookupKinds -> Nat]
  BY OnItsWayNow DEF GetStudentById, Over, OnItsWay, LookupsInv, LookupsTyped
<1>2. CASE row = NoRow
  <2>1. PICK r : r = [asker[a] EXCEPT !.step = "fetch"]
    OBVIOUS
  <2>2. asker' = [asker EXCEPT ![a] = r]
    BY <1>2, <2>1, GoesToForm DEF GetStudentById
  <2>3. OnItsWay(r)
    BY <1>1, <2>1 DEF OnItsWay, AskForm
  <2>4. QED
    BY <1>1, <2>2, <2>3, OnlyAskerInv DEF AskerOf
<1>3. CASE row # NoRow
  <2>1. row \in RowForm /\ row.updatedAt <= row.asOf + 1 /\ row.asOf \in Moment /\ row.updatedAt \in Nat
    BY <1>3, LookupForms DEF LookupsInv, RowFresh, RowForm
  <2>2. PICK valid \in RowCounts :
            asker' = [asker EXCEPT ![a] = IF valid THEN [@ EXCEPT !.step = "add", !.asOf = row.asOf]
                                          ELSE [@ EXCEPT !.step = "fetch", !.update = TRUE]]
    BY <1>3 DEF GetStudentById
  <2>3. CASE valid
    <3>1. moment <= row.updatedAt + Life
      BY <2>2, <2>3 DEF RowCounts
    <3>2. PICK r : r = [asker[a] EXCEPT !.step = "add", !.asOf = row.asOf]
      OBVIOUS
    <3>3. asker' = [asker EXCEPT ![a] = r]
      BY <2>2, <2>3, <3>2 DEF LookupsInv, AskersOk
    <3>4. r \in AskForm /\ r.step = "add" /\ r.asOf = row.asOf /\ r.since = asker[a].since
      BY <1>1, <2>1, <3>2 DEF OnItsWay, AskForm
    <3>5. r.since \in Nat /\ r.since <= moment /\ moment <= r.since + 1 /\ row.asOf \in Nat /\ moment \in Nat
      BY <1>1, <2>1, <3>4, LookupForms DEF OnItsWay, AskForm, LookupsInv, LookupsTyped
    <3>6. r.since + 1 <= r.asOf + Slack
      BY <1>1, <2>1, <3>1, <3>4, <3>5, LookupForms DEF Slack
    <3>7. OnItsWay(r)
      BY <1>1, <2>1, <3>4, <3>5, <3>6 DEF OnItsWay, QueuedStores
    <3>8. QED
      BY <1>1, <3>3, <3>7, OnlyAskerInv DEF AskerOf
  <2>4. CASE ~valid
    <3>1. PICK r : r = [asker[a] EXCEPT !.step = "fetch", !.update = TRUE]
      OBVIOUS
    <3>2. asker' = [asker EXCEPT ![a] = r]
      BY <2>2, <2>4, <3>1 DEF LookupsInv, AskersOk
    <3>3. OnItsWay(r)
      BY <1>1, <3>1 DEF OnItsWay, AskForm
    <3>4. QED
      BY <1>1, <3>2, <3>3, OnlyAskerInv DEF AskerOf
  <2>5. QED
    BY <2>3, <2>4
<1>4. QED
  BY <1>2, <1>3

LEMMA StatementFailsInv == ASSUME LookupsInv, NEW a \in Asker, StatementFails(a) PROVE LookupsInv'
<1>1. OnItsWay(asker[a]) /\ asker[a].step \in {"row", "write", "fetch"} /\ OnlyAsker
  BY OnItsWayNow DEF StatementFails, Over
<1>2. lookupLeft' \in [LookupKinds -> Nat]
  BY TakesLeft DEF StatementFails, LookupKinds
<1>3. PICK cause \in {"source", "database"} :
          asker' = [asker EXCEPT ![a] = Failed(cause)] /\ (cause = "source" <=> asker[a].step = "fetch")
  BY DEF StatementFails, Fails
<1>4. cause \in Excuses
  BY <1>1, <1>3, ExcusesAre DEF OnItsWay, LookupsInv
<1>5. PICK r : r = Failed(cause)
  OBVIOUS
<1>6. AskerOf(r)
  BY <1>4, <1>5, FailedOk
<1>7. QED
  BY <1>1, <1>2, <1>3, <1>5, <1>6, OnlyAskerInv

LEMMA AskersStay ==
    ASSUME LookupsInv, UNCHANGED <<lookup, moment, asker>>,
           copy # NoCopy /\ lookup = "GetContributorInfo" => copy' # NoCopy
    PROVE  AskersOk'
<1>1. ASSUME NEW a \in Asker PROVE AskerOf(asker[a])'
  <2>1. AskerOf(asker[a])
    BY DEF LookupsInv, AskersOk
  <2>2. CASE OnItsWay(asker[a])
    <3>1. OnItsWay(asker[a])'
      BY <2>2 DEF OnItsWay, Slack
    <3>2. QED
      BY <3>1 DEF AskerOf
  <2>3. CASE ~OnItsWay(asker[a])
    BY <2>1, <2>3 DEF AskerOf, Excuses
  <2>4. QED
    BY <2>2, <2>3
<1>2. QED
  BY <1>1 DEF LookupsInv, AskersOk

(* A copy of what was fetched within the slack and the time it waited.     *)
LEMMA SetCopyFresh ==
    ASSUME LookupsInv, NEW asOf \in Moment, NEW waited \in Moment, SetCopy(asOf, waited),
           UNCHANGED <<lookup, moment>>, moment <= asOf + waited + Slack
    PROVE  CopyFresh' /\ copy' # NoCopy
<1>1. copy' = [asOf |-> asOf, until |-> moment + Life, waited |-> waited] /\ moment + Life \in Nat
  BY LookupForms DEF SetCopy, LookupsInv, LookupsTyped
<1>2. copy' \in CopyForm /\ copy'.until = moment + Life /\ copy'.asOf = asOf /\ copy'.waited = waited
  BY <1>1 DEF CopyForm
<1>3. Slack' = Slack /\ Slack \in Nat
  BY LookupForms DEF Slack
<1>4. moment' <= copy'.until /\ copy'.until <= copy'.asOf + copy'.waited + Life + Slack'
  BY <1>2, <1>3, LookupForms DEF LookupsInv, LookupsTyped
<1>5. QED
  BY <1>2, <1>4, LookupForms DEF CopyFresh

LEMMA FetchSourceInv == ASSUME LookupsInv, NEW a \in Asker, FetchSource(a) PROVE LookupsInv'
<1>1. OnItsWay(asker[a]) /\ asker[a].step = "fetch" /\ lookup # "GetContributorInfo"
  BY OnItsWayNow DEF FetchSource, Over, OnItsWay
<1>2. UNCHANGED <<lookup, nothing, moment, publisher, copy, row, lookupWaits, lookupRuns, lookupLeft>>
  BY DEF FetchSource, Unmoved
<1>3. detached' \subseteq detached \cup {moment} /\ moment \in Moment
  BY DEF FetchSource, LookupsInv, LookupsTyped
<1>4. LookupsTyped' /\ CopyFresh' /\ RowFresh'
  BY <1>2 DEF LookupsInv, LookupsTyped, CopyFresh, RowFresh, Slack
<1>5. TasksFresh' /\ PublisherFresh'
  BY <1>2 DEF LookupsInv, TasksFresh, TaskFresh, PublisherFresh, Slack
<1>6. DetachedFresh'
  <2>1. detached \subseteq Moment /\ \A d \in detached : moment <= d + 1
    BY DEF LookupsInv, DetachedFresh
  <2>2. moment <= moment + 1
    BY <1>3, LookupForms
  <2>3. QED
    BY <1>2, <1>3, <2>1, <2>2 DEF DetachedFresh
<1>7. CASE lookup \in DetachedStores \cup Published
  <2>1. PICK recent : recent = (moment - moment <= OldestAnswer(0))
    OBVIOUS
  <2>2. moment - moment <= OldestAnswer(0)
    BY <1>3, LookupForms DEF OldestAnswer
  <2>3. PICK r : r = Told(recent)
    OBVIOUS
  <2>4. asker' = [asker EXCEPT ![a] = r]
    BY <1>7, <2>1, <2>3 DEF FetchSource, Tells
  <2>5. AskerOf(r)
    BY <2>1, <2>2, <2>3, ToldOk
  <2>6. AskersOk'
    BY <1>2, <2>4, <2>5, AskerMoves
  <2>7. QED
    BY <1>4, <1>5, <1>6, <2>6 DEF LookupsInv
<1>8. CASE lookup \notin DetachedStores \cup Published
  <2>1. PICK step \in {"write", "add", "set"} :
            /\ asker' = [asker EXCEPT ![a].asOf = moment, ![a].step = step]
            /\ step = "write" <=> lookup = "GetUserInfo"
            /\ step = "add" <=> lookup = "GetTermsList"
    BY <1>8 DEF FetchSource
  <2>2. PICK r : r = [asker[a] EXCEPT !.asOf = moment, !.step = step]
    OBVIOUS
  <2>3. asker' = [asker EXCEPT ![a] = r]
    BY <2>1, <2>2 DEF LookupsInv, AskersOk
  <2>4. /\ r \in AskForm /\ r.step = step /\ r.asOf = moment /\ r.since = asker[a].since
        /\ r.since \in Nat /\ r.since <= moment /\ moment <= r.since + 1 /\ moment \in Nat
    BY <1>1, <1>3, <2>2, LookupForms DEF OnItsWay, AskForm
  <2>5. step = "set" => lookup \in {"GetTerm", "GetDir", "GetJobFair"}
    BY <1>8, <2>1 DEF LookupsInv, LookupsTyped, Lookup, AnsweredStores, IgnoredStores, DetachedStores, QueuedStores
  <2>6. step = "add" => lookup \in QueuedStores /\ r.since + 1 <= r.asOf + Slack
    BY <2>1, <2>4, LookupForms DEF QueuedStores, Slack
  <2>7. OnItsWay(r)
    BY <1>3, <2>1, <2>4, <2>5, <2>6 DEF OnItsWay
  <2>8. AskersOk'
    BY <1>2, <2>3, <2>7, AskerMoves DEF AskerOf
  <2>9. QED
    BY <1>4, <1>5, <1>6, <2>8 DEF LookupsInv
<1>9. QED
  BY <1>7, <1>8

LEMMA WriteStudentInv == ASSUME LookupsInv, NEW a \in Asker, WriteStudent(a) PROVE LookupsInv'
<1>1. /\ OnItsWay(asker[a]) /\ asker[a].step = "write" /\ lookup = "GetUserInfo"
      /\ asker[a].asOf \in Moment /\ asker[a].since <= asker[a].asOf
  BY OnItsWayNow DEF WriteStudent, Over, OnItsWay
<1>2. UNCHANGED <<lookup, nothing, moment, publisher, copy, detached, lookupWaits, lookupRuns, lookupLeft>>
  BY DEF WriteStudent, Unmoved
<1>3. LookupsTyped' /\ CopyFresh'
  BY <1>2 DEF LookupsInv, LookupsTyped, CopyFresh, Slack
<1>4. TasksFresh' /\ PublisherFresh' /\ DetachedFresh'
  BY <1>2 DEF LookupsInv, TasksFresh, TaskFresh, PublisherFresh, DetachedFresh, Slack
<1>5. CASE Fails(a, "duplicate") /\ UNCHANGED row
  <2>1. PICK r : r = Failed("duplicate")
    OBVIOUS
  <2>2. AskerOf(r)
    BY <1>1, <2>1, ExcusesAre, FailedOk DEF LookupsInv
  <2>3. AskersOk'
    BY <1>2, <1>5, <2>1, <2>2, AskerMoves DEF Fails
  <2>4. QED
    BY <1>3, <1>4, <1>5, <2>3 DEF LookupsInv, RowFresh
<1>6. CASE row' = [asOf |-> asker[a].asOf, updatedAt |-> moment] /\ GoesTo(a, "add")
  <2>1. PICK r : r = [asker[a] EXCEPT !.step = "add"]
    OBVIOUS
  <2>2. asker' = [asker EXCEPT ![a] = r]
    BY <1>6, <2>1, GoesToForm
  <2>3. /\ r \in AskForm /\ r.step = "add" /\ r.asOf = asker[a].asOf /\ r.since = asker[a].since
        /\ r.since \in Nat /\ r.since <= moment /\ moment <= r.since + 1 /\ moment \in Moment /\ r.asOf \in Nat
    BY <1>1, <2>1, LookupForms DEF OnItsWay, AskForm, LookupsInv, LookupsTyped
  <2>4. r.since + 1 <= r.asOf + Slack
    BY <1>1, <2>3, LookupForms DEF Slack
  <2>5. OnItsWay(r)
    BY <1>1, <2>3, <2>4 DEF OnItsWay, QueuedStores
  <2>6. AskersOk'
    BY <1>2, <2>2, <2>5, AskerMoves DEF AskerOf
  <2>7. row' \in RowForm /\ row'.updatedAt = moment /\ row'.asOf = asker[a].asOf
    BY <1>1, <1>6, <2>3 DEF RowForm
  <2>8. RowFresh'
    BY <1>1, <2>3, <2>7, LookupForms DEF RowFresh
  <2>9. QED
    BY <1>3, <1>4, <2>6, <2>8 DEF LookupsInv
<1>7. QED
  BY <1>5, <1>6 DEF WriteStudent

LEMMA AddStoreInv == ASSUME LookupsInv, NEW a \in Asker, AddStore(a) PROVE LookupsInv'
<1>1. /\ OnItsWay(asker[a]) /\ asker[a].step = "add" /\ asker[a].asOf \in Moment
      /\ asker[a].since + 1 <= asker[a].asOf + Slack
  BY OnItsWayNow DEF AddStore, Over, OnItsWay
<1>2. PICK task : task = [asOf |-> asker[a].asOf, added |-> moment]
  OBVIOUS
<1>3. task \in StoreTask /\ task.asOf = asker[a].asOf /\ task.added = moment
  BY <1>1, <1>2 DEF StoreTask, LookupsInv, LookupsTyped
<1>4. /\ UNCHANGED <<lookup, nothing, moment, publisher, copy, row, detached, lookupRuns, lookupLeft>>
      /\ lookupWaits' = [lookupWaits EXCEPT ![TheKey] = task]
  BY <1>2, <1>3 DEF AddStore, Unmoved, LookupExecutor!Submit
<1>5. /\ asker[a].since \in Nat /\ asker[a].asOf \in Nat /\ moment \in Nat /\ moment <= asker[a].since + 1
      /\ Slack \in Nat
  <2>1. asker[a].since \in Nat /\ asker[a].asOf \in Nat /\ moment \in Nat /\ moment <= asker[a].since + 1
    BY <1>1, LookupForms DEF OnItsWay, AskForm, LookupsInv, LookupsTyped
  <2>2. Slack \in Nat
    BY LookupForms DEF Slack
  <2>3. QED
    BY <2>1, <2>2
<1>6. LookupsTyped' /\ CopyFresh' /\ RowFresh'
  BY <1>4 DEF LookupsInv, LookupsTyped, CopyFresh, RowFresh, Slack
<1>7. PublisherFresh' /\ DetachedFresh'
  BY <1>4 DEF LookupsInv, PublisherFresh, DetachedFresh
<1>8. TasksFresh'
  <2>1. lookupWaits'[TheKey] = task /\ lookupWaits' = [k \in {TheKey} |-> lookupWaits'[k]]
    BY <1>4 DEF LookupsInv, TasksFresh
  <2>2. task.added <= task.asOf + Slack
    BY <1>1, <1>3, <1>5
  <2>3. (TaskFresh(task))'
    BY <1>3, <1>4, <1>5, <2>2 DEF TaskFresh, Slack
  <2>4. TaskFresh(lookupRuns[TheKey])'
    BY <1>4 DEF LookupsInv, TasksFresh, TaskFresh, Slack
  <2>5. TaskFresh(lookupWaits[TheKey])'
    BY <2>1, <2>3 DEF TaskFresh, Slack
  <2>6. QED
    BY <1>4, <2>1, <2>4, <2>5 DEF LookupsInv, TasksFresh
<1>9. AskersOk'
  <2>1. PICK recent : recent = (moment - asker[a].asOf <= OldestAnswer(0))
    OBVIOUS
  <2>2. moment - asker[a].asOf <= OldestAnswer(0)
    BY <1>1, <1>5, LookupForms DEF OldestAnswer, Slack
  <2>3. PICK r : r = Told(recent)
    OBVIOUS
  <2>4. asker' = [asker EXCEPT ![a] = r]
    BY <2>1, <2>3 DEF AddStore, Tells
  <2>5. AskerOf(r)
    BY <2>1, <2>2, <2>3, ToldOk
  <2>6. QED
    BY <1>4, <2>4, <2>5, AskerMoves
<1>10. QED
  BY <1>6, <1>7, <1>8, <1>9 DEF LookupsInv

LEMMA SetAndAnswerInv == ASSUME LookupsInv, NEW a \in Asker, SetAndAnswer(a) PROVE LookupsInv'
<1>1. /\ OnItsWay(asker[a]) /\ asker[a].step = "set" /\ asker[a].asOf \in Moment
      /\ asker[a].since <= asker[a].asOf /\ lookup \in {"GetTerm", "GetDir", "GetJobFair"}
  BY OnItsWayNow DEF SetAndAnswer, Over, OnItsWay
<1>2. UNCHANGED <<lookup, nothing, moment, publisher, row, detached, lookupWaits, lookupRuns>>
      /\ lookupLeft' \in [LookupKinds -> Nat]
  BY TakesLeft DEF SetAndAnswer, StoreFails, Unmoved, LookupKinds, LookupsInv, LookupsTyped
<1>3. asker[a].since \in Nat /\ asker[a].asOf \in Nat /\ moment \in Nat /\ moment <= asker[a].since + 1
  BY <1>1, LookupForms DEF OnItsWay, AskForm, LookupsInv, LookupsTyped
<1>4. LookupsTyped' /\ RowFresh' /\ PublisherFresh' /\ DetachedFresh'
  BY <1>2 DEF LookupsInv, LookupsTyped, RowFresh, PublisherFresh, DetachedFresh
<1>5. TasksFresh'
  BY <1>2 DEF LookupsInv, TasksFresh, TaskFresh, Slack
<1>6. CopyFresh' /\ (copy # NoCopy => copy' # NoCopy)
  <2>1. CASE UNCHANGED copy
    BY <1>2, <2>1 DEF LookupsInv, CopyFresh, Slack
  <2>2. CASE SetCopy(asker[a].asOf, 0)
    <3>1. PICK asOf \in Moment : asOf = asker[a].asOf
      BY <1>1
    <3>2. 0 \in Moment /\ moment <= asOf + 0 + Slack
      BY <1>1, <1>3, <3>1, LookupForms DEF Moment, Slack
    <3>3. QED
      BY <1>2, <2>2, <3>1, <3>2, SetCopyFresh
  <2>3. QED
    BY <2>1, <2>2 DEF SetAndAnswer, StoreFails
<1>7. AskersOk'
  <2>1. CASE Tells(a, asker[a].asOf, 0)
    <3>1. PICK recent : recent = (moment - asker[a].asOf <= OldestAnswer(0))
      OBVIOUS
    <3>2. moment - asker[a].asOf <= OldestAnswer(0)
      BY <1>1, <1>3, LookupForms DEF OldestAnswer
    <3>3. PICK r : r = Told(recent)
      OBVIOUS
    <3>4. asker' = [asker EXCEPT ![a] = r]
      BY <2>1, <3>1, <3>3 DEF Tells
    <3>5. AskerOf(r)
      BY <3>1, <3>2, <3>3, ToldOk
    <3>6. QED
      BY <1>2, <1>6, <3>4, <3>5, AskerMoves
  <2>2. CASE asker' = [asker EXCEPT ![a] = Empty("store")] /\ lookup \notin IgnoredStores
    <3>1. PICK r : r = Empty("store")
      OBVIOUS
    <3>2. AskerOf(r)
      BY <1>1, <2>2, <3>1 DEF AskerOf, IgnoredStores
    <3>3. QED
      BY <1>2, <1>6, <2>2, <3>1, <3>2, AskerMoves
  <2>3. QED
    BY <2>1, <2>2 DEF SetAndAnswer
<1>8. QED
  BY <1>4, <1>5, <1>6, <1>7 DEF LookupsInv

LEMMA DetachedRunsInv == ASSUME LookupsInv, NEW asOf \in detached, DetachedRuns(asOf) PROVE LookupsInv'
<1>1. UNCHANGED <<lookup, nothing, moment, publisher, row, asker, lookupWaits, lookupRuns>>
      /\ lookupLeft' \in [LookupKinds -> Nat] /\ detached' \subseteq detached
  BY TakesLeft DEF DetachedRuns, StoreFails, Unmoved, LookupKinds, LookupsInv, LookupsTyped
<1>2. asOf \in Moment /\ moment <= asOf + 1 /\ moment \in Nat
  BY LookupForms DEF LookupsInv, DetachedFresh, LookupsTyped
<1>3. CopyFresh' /\ (copy # NoCopy => copy' # NoCopy)
  <2>1. CASE UNCHANGED copy
    BY <1>1, <2>1 DEF LookupsInv, CopyFresh, Slack
  <2>2. CASE SetCopy(asOf, 0)
    <3>1. 0 \in Moment /\ moment <= asOf + 0 + Slack
      BY <1>2, LookupForms DEF Moment, Slack
    <3>2. QED
      BY <1>1, <1>2, <2>2, <3>1, SetCopyFresh
  <2>3. QED
    BY <2>1, <2>2 DEF DetachedRuns, StoreFails
<1>4. LookupsTyped' /\ RowFresh' /\ PublisherFresh' /\ DetachedFresh'
  BY <1>1 DEF LookupsInv, LookupsTyped, RowFresh, PublisherFresh, DetachedFresh
<1>5. TasksFresh'
  BY <1>1 DEF LookupsInv, TasksFresh, TaskFresh, Slack
<1>6. AskersOk'
  BY <1>1, <1>3, AskersStay
<1>7. QED
  BY <1>3, <1>4, <1>5, <1>6 DEF LookupsInv

LEMMA BeginStoreInv == ASSUME LookupsInv, BeginStore PROVE LookupsInv'
<1>1. UNCHANGED <<lookup, nothing, moment, publisher, copy, row, asker, detached, lookupWaits, lookupLeft>>
  BY DEF BeginStore, Unmoved, LookupExecutor!Begin
<1>2. LookupsTyped' /\ CopyFresh' /\ RowFresh' /\ PublisherFresh' /\ DetachedFresh'
  BY <1>1 DEF LookupsInv, LookupsTyped, CopyFresh, RowFresh, PublisherFresh, DetachedFresh, Slack
<1>3. /\ lookupRuns' = [k \in {TheKey} |-> lookupRuns'[k]]
      /\ lookupRuns'[TheKey] = lookupWaits[TheKey]
  BY DEF BeginStore, LookupExecutor!Begin, LookupsInv, TasksFresh
<1>4. TaskFresh(lookupWaits[TheKey])' /\ TaskFresh(lookupRuns[TheKey])'
  BY <1>1, <1>3 DEF LookupsInv, TasksFresh, TaskFresh, Slack
<1>5. TasksFresh'
  BY <1>1, <1>3, <1>4 DEF LookupsInv, TasksFresh
<1>6. AskersOk'
  BY <1>1, AskersStay
<1>7. QED
  BY <1>2, <1>5, <1>6 DEF LookupsInv

(* What the task stores was fresh when it was added.                       *)
LEMMA TaskStores ==
    ASSUME LookupsInv, NEW task, task = lookupRuns[TheKey], task \in StoreTask,
           SetCopy(task.asOf, moment - task.added), UNCHANGED <<lookup, moment>>
    PROVE  CopyFresh' /\ copy' # NoCopy
<1>1. task \in StoreTask /\ task.added <= moment /\ task.added <= task.asOf + Slack
  BY LookupForms DEF LookupsInv, TasksFresh, TaskFresh
<1>2. task.added \in Nat /\ task.asOf \in Moment /\ task.asOf \in Nat /\ moment \in Nat /\ moment <= LastMoment
  BY <1>1, LookupForms DEF StoreTask, LookupsInv, LookupsTyped
<1>3. PICK waited : waited = moment - task.added
  OBVIOUS
<1>4. waited \in Moment
  BY <1>1, <1>2, <1>3, LookupForms DEF Moment
<1>5. moment <= task.asOf + waited + Slack
  <2>1. Slack \in Nat
    BY LookupForms DEF Slack
  <2>2. QED
    BY <1>1, <1>2, <1>3, <2>1
<1>6. PICK asOf \in Moment : asOf = task.asOf
  BY <1>2
<1>7. QED
  BY <1>3, <1>4, <1>5, <1>6, SetCopyFresh

LEMMA StoreEndsInv == ASSUME LookupsInv, StoreSucceeds \/ StoreFailed PROVE LookupsInv'
<1>1. PICK task : task = lookupRuns[TheKey]
  OBVIOUS
<1>2. /\ UNCHANGED <<lookup, nothing, moment, publisher, row, asker, detached>>
      /\ UNCHANGED copy \/ SetCopy(task.asOf, moment - task.added)
      /\ task \in StoreTask
      /\ lookupRuns' = [lookupRuns EXCEPT ![TheKey] = NoStore]
      /\ lookupWaits' = lookupWaits \/ lookupWaits' = [lookupWaits EXCEPT ![TheKey] = NoStore]
  BY <1>1 DEF StoreSucceeds, StoreFailed, StoreFails, Unmoved, LookupExecutor!Succeed, LookupExecutor!Release
<1>3. lookupLeft' \in [LookupKinds -> Nat]
  BY TakesLeft DEF StoreSucceeds, StoreFailed, StoreFails, LookupKinds, LookupsInv, LookupsTyped
<1>4. CopyFresh' /\ (copy # NoCopy => copy' # NoCopy)
  <2>1. CASE UNCHANGED copy
    BY <1>2, <2>1 DEF LookupsInv, CopyFresh, Slack
  <2>2. CASE SetCopy(task.asOf, moment - task.added)
    BY <1>1, <1>2, <2>2, TaskStores
  <2>3. QED
    BY <1>2, <2>1, <2>2
<1>5. LookupsTyped' /\ RowFresh' /\ PublisherFresh' /\ DetachedFresh'
  BY <1>2, <1>3 DEF LookupsInv, LookupsTyped, RowFresh, PublisherFresh, DetachedFresh
<1>6. TasksFresh'
  BY <1>2 DEF LookupsInv, TasksFresh, TaskFresh, Slack
<1>7. AskersOk'
  BY <1>2, <1>4, AskersStay
<1>8. QED
  BY <1>4, <1>5, <1>6, <1>7 DEF LookupsInv

LEMMA PublisherInv == ASSUME LookupsInv, Publishes \/ PublisherEnds PROVE LookupsInv'
<1>1. UNCHANGED <<lookup, nothing, moment, row, asker, detached, lookupWaits, lookupRuns>>
      /\ lookupLeft' \in [LookupKinds -> Nat]
  BY TakesLeft DEF Publishes, PublisherEnds, StoreFails, LookupKinds, LookupsInv, LookupsTyped
<1>2. moment \in Moment /\ moment \in Nat /\ Life \div 2 \in Nat
  BY LookupForms DEF LookupsInv, LookupsTyped
<1>3. PublisherFresh'
  <2>1. CASE Publishes
    BY <1>1, <1>2, <2>1, LookupForms DEF Publishes, PublisherFresh
  <2>2. CASE PublisherEnds
    <3>1. PICK at \in Nat : publisher' = [at |-> at, asOf |-> NotYet]
      <4>1. moment + Life \div 2 \in Nat
        BY <1>2
      <4>2. QED
        BY <1>2, <2>2, <4>1 DEF PublisherEnds
    <3>2. QED
      BY <3>1 DEF PublisherFresh
  <2>3. QED
    BY <2>1, <2>2
<1>4. CopyFresh' /\ (copy # NoCopy => copy' # NoCopy)
  <2>1. CASE UNCHANGED copy
    BY <1>1, <2>1 DEF LookupsInv, CopyFresh, Slack
  <2>2. CASE PublisherEnds /\ SetCopy(publisher.asOf, 0)
    <3>1. publisher.asOf # NotYet
      BY <2>2 DEF PublisherEnds
    <3>2. publisher.asOf \in Moment /\ moment <= publisher.asOf + 1
      BY <3>1 DEF LookupsInv, PublisherFresh
    <3>3. PICK asOf \in Moment : asOf = publisher.asOf
      BY <3>2
    <3>4. Slack \in Nat /\ Slack >= 1
      BY LookupForms DEF Slack
    <3>5. 0 \in Moment /\ moment <= asOf + 0 + Slack
      BY <1>2, <3>2, <3>3, <3>4, LookupForms DEF Moment
    <3>6. QED
      BY <1>1, <2>2, <3>3, <3>5, SetCopyFresh
  <2>3. QED
    BY <2>1, <2>2 DEF Publishes, PublisherEnds, StoreFails
<1>5. LookupsTyped' /\ RowFresh' /\ DetachedFresh'
  BY <1>1 DEF LookupsInv, LookupsTyped, RowFresh, DetachedFresh
<1>6. TasksFresh'
  BY <1>1 DEF LookupsInv, TasksFresh, TaskFresh, Slack
<1>7. AskersOk'
  BY <1>1, <1>4, AskersStay
<1>8. QED
  BY <1>3, <1>4, <1>5, <1>6, <1>7 DEF LookupsInv

LEMMA CopyExpiresInv == ASSUME LookupsInv, CopyExpires PROVE LookupsInv'
<1>1. /\ UNCHANGED <<lookup, nothing, moment, row, asker, detached, lookupWaits, lookupRuns, publisher, lookupLeft>>
      /\ copy' = NoCopy /\ lookup # "GetContributorInfo"
  BY DEF CopyExpires
<1>2. LookupsTyped' /\ CopyFresh' /\ RowFresh' /\ PublisherFresh' /\ DetachedFresh'
  BY <1>1 DEF LookupsInv, LookupsTyped, CopyFresh, RowFresh, PublisherFresh, DetachedFresh
<1>3. TasksFresh'
  BY <1>1 DEF LookupsInv, TasksFresh, TaskFresh, Slack
<1>4. AskersOk'
  BY <1>1, AskersStay
<1>5. QED
  BY <1>2, <1>3, <1>4 DEF LookupsInv

(* A tick passes only by what has begun in this one.                       *)
LEMMA MomentPassesInv == ASSUME LookupsInv, MomentPasses PROVE LookupsInv'
<1>1. /\ UNCHANGED <<lookup, nothing, copy, row, asker, detached, lookupWaits, lookupRuns, publisher, lookupLeft>>
      /\ moment' = moment + 1 /\ moment < LastMoment
  BY DEF MomentPasses
<1>2. moment \in Moment /\ moment \in Nat /\ moment' \in Moment /\ moment' \in Nat
  BY <1>1, LookupForms DEF LookupsInv, LookupsTyped, Moment
<1>3. LookupsTyped' /\ RowFresh'
  BY <1>1, <1>2 DEF LookupsInv, LookupsTyped, RowFresh
<1>4. CopyFresh'
  <2>1. copy # NoCopy /\ lookup # "GetContributorInfo" => copy.until > moment /\ copy.until \in Nat
    BY DEF MomentPasses, LookupsInv, CopyFresh, CopyForm
  <2>2. QED
    BY <1>1, <1>2, <2>1 DEF LookupsInv, CopyFresh, Slack
<1>5. ASSUME NEW task, TaskFresh(task) PROVE (TaskFresh(task))'
  <2>1. task # NoStore => task.added \in Nat
    BY <1>5, LookupForms DEF TaskFresh, StoreTask
  <2>2. QED
    BY <1>1, <1>2, <1>5, <2>1 DEF TaskFresh, Slack
<1>6. TasksFresh'
  <2>1. TaskFresh(lookupWaits[TheKey]) /\ TaskFresh(lookupRuns[TheKey])
    BY DEF LookupsInv, TasksFresh
  <2>2. PICK waits, runs : waits = lookupWaits[TheKey] /\ runs = lookupRuns[TheKey]
    OBVIOUS
  <2>3. (TaskFresh(waits))' /\ (TaskFresh(runs))'
    BY <1>5, <2>1, <2>2
  <2>4. TaskFresh(lookupWaits[TheKey])' /\ TaskFresh(lookupRuns[TheKey])'
    BY <1>1, <2>2, <2>3 DEF TaskFresh
  <2>5. QED
    BY <1>1, <2>4 DEF LookupsInv, TasksFresh
<1>7. DetachedFresh'
  <2>1. detached \subseteq {moment}
    BY DEF MomentPasses
  <2>2. moment + 1 <= moment + 1
    BY <1>2
  <2>3. QED
    BY <1>1, <1>2, <2>1, <2>2 DEF DetachedFresh
<1>8. PublisherFresh'
  <2>1. publisher.asOf # NotYet => publisher.at = publisher.asOf /\ publisher.asOf \in Nat /\ publisher.asOf <= moment
    BY LookupForms DEF LookupsInv, PublisherFresh
  <2>2. publisher.asOf # NotYet => publisher.asOf = moment
    BY <1>2, <2>1 DEF MomentPasses
  <2>3. QED
    BY <1>1, <1>2, <2>2 DEF LookupsInv, PublisherFresh
<1>9. AskersOk'
  <2>1. ASSUME NEW a \in Asker PROVE AskerOf(asker[a])'
    <3>1. AskerOf(asker[a]) /\ (asker[a].step \notin Over => asker[a].since = moment)
      BY DEF MomentPasses, LookupsInv, AskersOk
    <3>2. CASE OnItsWay(asker[a])
      <4>1. asker[a].step \notin Over
        BY <3>2 DEF OnItsWay, AskForm, Over
      <4>2. asker[a].since = moment
        BY <3>1, <4>1
      <4>3. OnItsWay(asker[a])'
        BY <1>1, <1>2, <3>2, <4>2 DEF OnItsWay, Slack
      <4>4. QED
        BY <4>3 DEF AskerOf
    <3>3. QED
      BY <1>1, <3>1, <3>2 DEF AskerOf, Excuses
  <2>2. QED
    BY <1>1, <2>1 DEF LookupsInv, AskersOk
<1>10. QED
  BY <1>3, <1>4, <1>6, <1>7, <1>8, <1>9 DEF LookupsInv

LEMMA LookupRestartInv == ASSUME LookupsInv, LookupRestart PROVE LookupsInv'
<1>1. UNCHANGED <<lookup, nothing, moment, copy, row>> /\ lookupLeft' \in [LookupKinds -> Nat]
  BY TakesLeft DEF LookupRestart, LookupKinds
<1>2. LookupsTyped' /\ CopyFresh' /\ RowFresh' /\ DetachedFresh'
  BY <1>1 DEF LookupRestart, LookupsInv, LookupsTyped, CopyFresh, RowFresh, DetachedFresh, Slack
<1>3. TasksFresh'
  BY DEF LookupRestart, LookupsInv, TasksFresh, TaskFresh
<1>4. PublisherFresh'
  <2>1. moment \in Nat /\ NotYet \in Nat
    BY LookupForms DEF LookupsInv, LookupsTyped, NotYet
  <2>2. PICK at \in Nat : publisher' = [at |-> at, asOf |-> NotYet]
    BY <2>1 DEF LookupRestart
  <2>3. QED
    BY <2>2 DEF PublisherFresh
<1>5. AskersOk'
  <2>1. Told(TRUE) \in ToldForm /\ Told(TRUE).recent
    BY DEF Told, ToldForm
  <2>2. QED
    BY <2>1 DEF LookupRestart, AskersOk, AskerOf
<1>6. QED
  BY <1>2, <1>3, <1>4, <1>5 DEF LookupsInv

LEMMA LookupsNextInv == LookupsInv /\ [LookupsNext]_lookupVars => LookupsInv'
<1> SUFFICES ASSUME LookupsInv, [LookupsNext]_lookupVars PROVE LookupsInv'
  OBVIOUS
<1>1. ASSUME NEW a \in Asker,
             Ask(a) \/ IsKeyExist(a) \/ GetCopy(a) \/ GetStudentById(a) \/ FetchSource(a)
      PROVE  LookupsInv'
  BY <1>1, AskInv, IsKeyExistInv, GetCopyInv, GetStudentByIdInv, FetchSourceInv
<1>2. ASSUME NEW a \in Asker, WriteStudent(a) \/ AddStore(a) \/ SetAndAnswer(a) \/ StatementFails(a)
      PROVE  LookupsInv'
  BY <1>2, WriteStudentInv, AddStoreInv, SetAndAnswerInv, StatementFailsInv
<1>3. ASSUME NEW asOf \in detached, DetachedRuns(asOf) PROVE LookupsInv'
  BY <1>3, DetachedRunsInv
<1>4. CASE BeginStore \/ StoreSucceeds \/ StoreFailed
  BY <1>4, BeginStoreInv, StoreEndsInv
<1>5. CASE Publishes \/ PublisherEnds \/ CopyExpires \/ MomentPasses \/ LookupRestart
  BY <1>5, PublisherInv, CopyExpiresInv, MomentPassesInv, LookupRestartInv
<1>6. CASE UNCHANGED lookupVars
  <2>1. UNCHANGED <<lookup, nothing, moment, copy, row, asker, detached, lookupWaits, lookupRuns, publisher, lookupLeft>>
    BY <1>6 DEF lookupVars
  <2>2. LookupsTyped' /\ CopyFresh' /\ RowFresh' /\ PublisherFresh' /\ DetachedFresh'
    BY <2>1 DEF LookupsInv, LookupsTyped, CopyFresh, RowFresh, PublisherFresh, DetachedFresh, Slack
  <2>3. TasksFresh'
    BY <2>1 DEF LookupsInv, TasksFresh, TaskFresh, Slack
  <2>4. QED
    BY <2>1, <2>2, <2>3, AskersStay DEF LookupsInv
<1>7. QED
  BY <1>1, <1>2, <1>3, <1>4, <1>5, <1>6 DEF LookupsNext

(* Every variable keeps its type, for any life of a copy and any number of *)
(* requests: no request remembers what its handler did not fetch.          *)
THEOREM LookupsTypeCorrect == LookupsSpec => []LookupsTypeOK
<1>1. LookupsInv => LookupsTypeOK
  <2> SUFFICES ASSUME LookupsInv PROVE LookupsTypeOK
    OBVIOUS
  <2>1. \A a \in Asker : \/ asker[a] \in ToldForm \/ asker[a].step \in {"failed", "empty"} \/ asker[a] \in AskForm
    BY DEF LookupsInv, AskersOk, AskerOf, OnItsWay, Failed, Empty
  <2>2. QED
    BY <2>1 DEF LookupsTypeOK, ToldForm, AskForm, CopyForm, RowForm, LookupsInv, LookupsTyped, CopyFresh,
                RowFresh, TasksFresh, TaskFresh, DetachedFresh, PublisherFresh
<1>2. QED
  BY LookupsInitInv, LookupsNextInv, <1>1, PTL DEF LookupsSpec

(* For any life of a copy, any number of requests, errors and restarts: no *)
(* answer is older than the lives, the two ticks of a request and the time *)
(* its task waited add up to, and every error has one of its excuses.      *)
THEOREM AnswersAccounted == LookupsSpec => []AnswersExplained
<1>1. LookupsInv => AnswersExplained
  BY DEF LookupsInv, AskersOk, AskerOf, OnItsWay, AskForm, ToldForm, Failed, Empty, AnswersExplained
<1>2. QED
  BY LookupsInitInv, LookupsNextInv, <1>1, PTL DEF LookupsSpec

-----------------------------------------------------------------------------
(* VISITS *)

Visit == [step : {"incr", "expire"}, date : Date, since : Nat]
SyncStep == [step : {"create key", "get", "record"}, date : Date, visits : Nat]

VisitTyped ==
    /\ now \in Nat /\ DayLength <= now /\ now < (LastDay + 1) * DayLength
    /\ counter \in [Date -> [visits : Nat, until : Nat]]
    /\ recorded \in [Date -> Nat] /\ visited \in [Date -> Nat]
    /\ visitor \in [Reader -> {Away} \cup Visit]
    /\ sync \in {Waits} \cup SyncStep
    /\ due \in Nat
    /\ visitLeft \in [{"visit", "error", "restart"} -> Nat]
    /\ flushed \subseteq Date /\ renewed \subseteq Date

(* A counter that did not begin anew has all visits of its date, and what  *)
(* is recorded is no more, nor more than what is about to be recorded.     *)
CountsVisits ==
    \A d \in Date \ renewed :
        /\ Exists(d) => counter[d].visits = visited[d]
        /\ recorded[d] <= visited[d]
        /\ sync.step = "record" /\ sync.date = d =>
             recorded[d] <= sync.visits /\ sync.visits <= visited[d]

VisitInv == VisitTyped /\ CountsVisits

(* The time is in a day of the model, and there is a day before it.        *)
LEMMA DayOf ==
  ASSUME NEW t \in Nat, DayLength <= t, t < (LastDay + 1) * DayLength
  PROVE  t \div DayLength \in Date /\ (t \div DayLength) - 1 \in Date
<1>1. /\ DayLength \in Nat /\ DayLength > 0 /\ LastDay \in Nat
  BY VisitAssumption DEF VisitAssumption
<1>2. PICK q \in Nat : q = t \div DayLength
  BY <1>1
<1>3. q * DayLength <= t /\ t < (q + 1) * DayLength
  BY <1>1, <1>2
<1>4. q >= 1
  <2> SUFFICES ASSUME q = 0 PROVE FALSE
    BY <1>2
  <2> QED
    BY <1>1, <1>3
<1>5. q <= LastDay
  <2> SUFFICES ASSUME LastDay + 1 <= q PROVE FALSE
    BY <1>1, <1>2
  <2>1. (LastDay + 1) * DayLength <= q * DayLength
    BY <1>1
  <2>2. (LastDay + 1) * DayLength \in Nat /\ q * DayLength \in Nat
    BY <1>1
  <2> QED
    BY <1>3, <2>1, <2>2
<1> QED
  BY <1>1, <1>2, <1>4, <1>5 DEF Date

LEMMA TodayIs == VisitTyped => Today \in Date /\ Today - 1 \in Date
BY DayOf DEF VisitTyped, Today

LEMMA NextRunIs == VisitTyped => NextRun \in Nat
<1> SUFFICES ASSUME VisitTyped PROVE NextRun \in Nat
  OBVIOUS
<1>1. DayLength \in Nat /\ FlushAt \in Nat
  BY VisitAssumption DEF VisitAssumption
<1>2. PICK q \in Nat : q = Today
  BY TodayIs DEF Date
<1>3. q * DayLength \in Nat /\ (q + 1) * DayLength \in Nat
  BY <1>1
<1> QED
  BY <1>1, <1>2, <1>3 DEF NextRun

LEMMA ChargeIs ==
  ASSUME VisitTyped, NEW kind \in {"visit", "error", "restart"}, Charge(kind)
  PROVE  visitLeft' \in [{"visit", "error", "restart"} -> Nat]
BY DEF VisitTyped, Charge

LEMMA SyncIs ==
  ASSUME VisitTyped, sync.step # "waits"
  PROVE  sync \in SyncStep /\ sync.date \in Date /\ sync.visits \in Nat
<1>1. sync # Waits
  BY DEF Waits
<1>2. sync \in SyncStep
  BY <1>1 DEF VisitTyped
<1> QED
  BY <1>2 DEF SyncStep

LEMMA VisitInitInv == VisitsInit => VisitInv
<1> SUFFICES ASSUME VisitsInit PROVE VisitInv
  OBVIOUS
<1> USE DEF VisitsInit
<1>1. DayLength \in Nat /\ LastDay \in Nat /\ LastDay > 0 /\ FlushAt \in Nat /\ FlushAt < DayLength
      /\ visitLeft \in [{"visit", "error", "restart"} -> Nat]
  BY VisitAssumption DEF VisitAssumption
<1>2. DayLength < (LastDay + 1) * DayLength
  <2>1. (LastDay + 1) * DayLength = LastDay * DayLength + DayLength
    BY <1>1
  <2>2. LastDay * DayLength > 0 /\ LastDay * DayLength \in Nat
    BY <1>1
  <2> QED
    BY <1>1, <2>1, <2>2
<1>3. VisitTyped
  BY <1>1, <1>2 DEF VisitTyped, NoKey, None, Never, Waits
<1>4. CountsVisits
  BY DEF CountsVisits, Exists, NoKey, None, Waits
<1> QED
  BY <1>3, <1>4 DEF VisitInv

LEMMA GetCloudSettingInv ==
  ASSUME VisitInv, NEW r \in Reader, GetCloudSetting(r) PROVE VisitInv'
<1> USE DEF GetCloudSetting, VisitInv
<1>1. visitLeft' \in [{"visit", "error", "restart"} -> Nat]
  BY ChargeIs
<1>2. [step |-> "incr", date |-> Today, since |-> now] \in Visit
  BY TodayIs DEF VisitTyped, Visit
<1>3. VisitTyped'
  BY <1>1, <1>2 DEF VisitTyped
<1>4. CountsVisits'
  BY DEF CountsVisits, Exists
<1> QED
  BY <1>3, <1>4

LEMMA IncrInv ==
  ASSUME VisitInv, NEW r \in Reader, Incr(r) PROVE VisitInv'
<1> USE DEF VisitInv
<1>1. PICK d : d = visitor[r].date
  OBVIOUS
<1>2. visitor[r] \in Visit /\ d \in Date
  BY <1>1 DEF Incr, VisitTyped, Away, Visit
<1>3. /\ counter' = [counter EXCEPT ![d].visits = @ + 1]
      /\ visited' = [visited EXCEPT ![d] = @ + 1]
      /\ renewed' = IF ~Exists(d) /\ visited[d] > 0 THEN renewed \cup {d} ELSE renewed
      /\ UNCHANGED <<now, recorded, sync, due, visitLeft, flushed>>
  BY <1>1 DEF Incr
<1>4. /\ counter' \in [Date -> [visits : Nat, until : Nat]]
      /\ visited' \in [Date -> Nat]
      /\ counter'[d].visits = counter[d].visits + 1 /\ visited'[d] = visited[d] + 1
      /\ \A e \in Date \ {d} : counter'[e] = counter[e] /\ visited'[e] = visited[e]
  BY <1>2, <1>3 DEF VisitTyped
<1>5. visitor' \in [Reader -> {Away} \cup Visit]
  <2>1. [visitor[r] EXCEPT !.step = "expire"] \in Visit
    BY <1>2 DEF Visit
  <2> QED
    BY <2>1 DEF Incr, VisitTyped
<1>6. VisitTyped'
  BY <1>2, <1>3, <1>4, <1>5 DEF VisitTyped
<1>7. ASSUME NEW e \in Date \ renewed'
      PROVE  /\ Exists(e)' => counter'[e].visits = visited'[e]
             /\ recorded'[e] <= visited'[e]
             /\ sync'.step = "record" /\ sync'.date = e =>
                  recorded'[e] <= sync'.visits /\ sync'.visits <= visited'[e]
  <2>1. e \in Date \ renewed
    BY <1>3, <1>7
  <2>2. CASE e # d
    BY <1>3, <1>4, <2>1, <2>2 DEF CountsVisits, Exists
  <2>3. CASE e = d
    <3>1. counter[d].visits \in Nat /\ visited[d] \in Nat /\ recorded[d] \in Nat
      BY <1>2 DEF VisitTyped
    <3>2. counter[d].visits = visited[d]
      <4>1. CASE Exists(d)
        BY <2>1, <2>3, <4>1 DEF CountsVisits
      <4>2. CASE ~Exists(d)
        BY <1>3, <1>7, <2>3, <3>1, <4>2 DEF Exists, NoKey, None
      <4> QED
        BY <4>1, <4>2
    <3>3. sync.step = "record" => sync.visits \in Nat
      BY SyncIs
    <3>4. /\ recorded[d] <= visited[d]
          /\ sync.step = "record" /\ sync.date = d =>
               recorded[d] <= sync.visits /\ sync.visits <= visited[d]
      BY <2>1, <2>3 DEF CountsVisits
    <3> QED
      BY <1>3, <1>4, <2>3, <3>1, <3>2, <3>3, <3>4
  <2> QED
    BY <2>2, <2>3
<1> QED
  BY <1>6, <1>7 DEF CountsVisits

LEMMA SetExpiryInv ==
  ASSUME VisitInv, NEW r \in Reader, SetExpiry(r) PROVE VisitInv'
<1> USE DEF VisitInv
<1>1. PICK d : d = visitor[r].date
  OBVIOUS
<1>2. d \in Date
  BY <1>1 DEF SetExpiry, VisitTyped, Away, Visit
<1>3. now + DayLength \in Nat
  BY VisitAssumption DEF VisitAssumption, VisitTyped
<1>4. /\ counter' \in [Date -> [visits : Nat, until : Nat]]
      /\ \A e \in Date : /\ counter'[e].visits = counter[e].visits
                         /\ Exists(e)' => Exists(e)
  <2>1. counter' = IF Exists(d) THEN [counter EXCEPT ![d].until = now + DayLength] ELSE counter
    BY <1>1 DEF SetExpiry
  <2> QED
    BY <1>2, <1>3, <2>1 DEF VisitTyped, Exists
<1>5. VisitTyped'
  BY <1>4 DEF SetExpiry, VisitTyped
<1>6. CountsVisits'
  BY <1>4 DEF SetExpiry, CountsVisits
<1> QED
  BY <1>5, <1>6

LEMMA VisitFailsInv ==
  ASSUME VisitInv, NEW r \in Reader, VisitFails(r) PROVE VisitInv'
<1> USE DEF VisitFails, VisitInv
<1>1. visitLeft' \in [{"visit", "error", "restart"} -> Nat]
  BY ChargeIs
<1>2. VisitTyped'
  BY <1>1 DEF VisitTyped
<1>3. CountsVisits'
  BY DEF CountsVisits, Exists
<1> QED
  BY <1>2, <1>3

LEMMA SyncBeginsInv == ASSUME VisitInv, SyncBegins PROVE VisitInv'
<1> USE DEF VisitInv
<1>1. sync' \in SyncStep /\ sync'.step # "record"
  BY TodayIs DEF SyncBegins, SyncStep, None
<1>2. VisitTyped'
  BY <1>1 DEF SyncBegins, VisitTyped
<1>3. CountsVisits'
  BY <1>1 DEF SyncBegins, CountsVisits, Exists
<1> QED
  BY <1>2, <1>3

LEMMA CreateVisitKeyInv == ASSUME VisitInv, CreateVisitKey PROVE VisitInv'
<1> USE DEF VisitInv
<1>1. PICK d : d = sync.date
  OBVIOUS
<1>2. d \in Date
  BY <1>1, SyncIs DEF CreateVisitKey
<1>3. sync' = Waits /\ UNCHANGED <<now, recorded, visitor, visitLeft, visited>>
  BY DEF CreateVisitKey, Done
<1>4. CASE Exists(d)
  <2>1. UNCHANGED <<counter, renewed, due, flushed>>
    BY <1>1, <1>4 DEF CreateVisitKey
  <2>2. VisitTyped'
    BY <1>3, <2>1 DEF VisitTyped
  <2>3. CountsVisits'
    BY <1>3, <2>1 DEF CountsVisits, Exists, Waits
  <2> QED
    BY <2>2, <2>3
<1>5. CASE ~Exists(d)
  <2>1. PICK key : key = [visits |-> 1, until |-> now + DayLength]
    OBVIOUS
  <2>2. key \in [visits : Nat, until : Nat]
    BY <2>1, VisitAssumption DEF VisitAssumption, VisitTyped
  <2>3. /\ counter' = [counter EXCEPT ![d] = key] /\ renewed' = renewed \cup {d}
        /\ due' = NextRun /\ flushed' = flushed \cup {d}
    BY <1>1, <1>5, <2>1 DEF CreateVisitKey, Done
  <2>4. VisitTyped'
    BY <1>2, <1>3, <2>2, <2>3, NextRunIs DEF VisitTyped
  <2>5. CountsVisits'
    BY <1>3, <2>3 DEF CountsVisits, Exists, Waits, VisitTyped
  <2> QED
    BY <2>4, <2>5
<1> QED
  BY <1>4, <1>5

LEMMA GetVisitInv == ASSUME VisitInv, GetVisit PROVE VisitInv'
<1> USE DEF VisitInv
<1>1. sync \in SyncStep /\ sync.date \in Date
  BY SyncIs DEF GetVisit
<1>2. UNCHANGED <<now, counter, recorded, visitor, due, visitLeft, visited, flushed, renewed>>
  BY DEF GetVisit
<1>3. CASE Exists(sync.date)
  <2>1. sync' = [sync EXCEPT !.step = "record", !.visits = counter[sync.date].visits]
    BY <1>3 DEF GetVisit
  <2>2. counter[sync.date].visits \in Nat
    BY <1>1 DEF VisitTyped
  <2>3. sync' \in SyncStep /\ sync'.date = sync.date /\ sync'.visits = counter[sync.date].visits
    BY <1>1, <2>1, <2>2 DEF SyncStep
  <2>4. VisitTyped'
    BY <1>2, <2>3 DEF VisitTyped
  <2>5. ASSUME NEW d \in Date \ renewed, sync'.date = d
        PROVE  recorded[d] <= sync'.visits /\ sync'.visits <= visited[d]
    <3>1. sync'.visits = visited[d] /\ recorded[d] <= visited[d] /\ visited[d] \in Nat
      BY <1>3, <2>3, <2>5 DEF CountsVisits, VisitTyped
    <3> QED
      BY <3>1
  <2>6. CountsVisits'
    BY <1>2, <2>5 DEF CountsVisits, Exists
  <2> QED
    BY <2>4, <2>6
<1>4. CASE ~Exists(sync.date)
  <2>1. sync' = Waits
    BY <1>4 DEF GetVisit
  <2>2. VisitTyped'
    BY <1>2, <2>1 DEF VisitTyped
  <2>3. CountsVisits'
    BY <1>2, <2>1 DEF CountsVisits, Exists, Waits
  <2> QED
    BY <2>2, <2>3
<1> QED
  BY <1>3, <1>4

LEMMA RecordInv == ASSUME VisitInv, Record PROVE VisitInv'
<1> USE DEF VisitInv
<1>1. sync \in SyncStep /\ sync.date \in Date /\ sync.visits \in Nat /\ sync.step = "record"
  BY SyncIs DEF Record
<1>2. /\ recorded' = [recorded EXCEPT ![sync.date] = sync.visits]
      /\ sync' = Waits /\ due' = NextRun /\ flushed' = flushed \cup {sync.date}
      /\ UNCHANGED <<now, counter, visitor, visitLeft, visited, renewed>>
  BY DEF Record, Done
<1>3. VisitTyped'
  BY <1>1, <1>2, NextRunIs DEF VisitTyped
<1>4. CountsVisits'
  BY <1>1, <1>2 DEF CountsVisits, Exists, Waits, VisitTyped
<1> QED
  BY <1>3, <1>4

(* An error or a restart of the task, the end of a counter, and time.      *)
LEMMA VisitTimeInv ==
  ASSUME VisitInv, SyncFails \/ Restart \/ (\E d \in Date : VisitKeyExpires(d)) \/ Tick
  PROVE  VisitInv'
<1> USE DEF VisitInv
<1>1. CASE SyncFails
  <2>1. visitLeft' \in [{"visit", "error", "restart"} -> Nat]
    BY <1>1, ChargeIs DEF SyncFails
  <2>2. VisitTyped'
    BY <1>1, <2>1 DEF SyncFails, VisitTyped
  <2>3. CountsVisits'
    BY <1>1 DEF SyncFails, CountsVisits, Exists, Waits
  <2> QED
    BY <2>2, <2>3
<1>2. CASE Restart
  <2>1. visitLeft' \in [{"visit", "error", "restart"} -> Nat]
    BY <1>2, ChargeIs DEF Restart
  <2>2. VisitTyped'
    BY <1>2, <2>1 DEF Restart, VisitTyped
  <2>3. CountsVisits'
    BY <1>2 DEF Restart, CountsVisits, Exists, Waits
  <2> QED
    BY <2>2, <2>3
<1>3. ASSUME NEW d \in Date, VisitKeyExpires(d) PROVE VisitInv'
  <2>1. NoKey \in [visits : Nat, until : Nat]
    BY DEF NoKey, None, Never
  <2>2. VisitTyped'
    BY <1>3, <2>1 DEF VisitKeyExpires, VisitTyped
  <2>3. CountsVisits'
    BY <1>3 DEF VisitKeyExpires, CountsVisits, Exists, VisitTyped
  <2> QED
    BY <2>2, <2>3
<1>4. CASE Tick
  <2>1. now' = now + 1 /\ now + 1 < (LastDay + 1) * DayLength
    BY <1>4 DEF Tick
  <2>2. now' \in Nat /\ DayLength <= now'
    BY <2>1, VisitAssumption DEF VisitAssumption, VisitTyped
  <2>3. VisitTyped'
    BY <1>4, <2>1, <2>2 DEF Tick, VisitTyped
  <2>4. CountsVisits'
    BY <1>4 DEF Tick, CountsVisits, Exists
  <2> QED
    BY <2>3, <2>4
<1> QED
  BY <1>1, <1>2, <1>3, <1>4

LEMMA VisitsNextInv == VisitInv /\ [VisitsNext]_visitVars => VisitInv'
<1> SUFFICES ASSUME VisitInv, [VisitsNext]_visitVars PROVE VisitInv'
  OBVIOUS
<1>1. ASSUME NEW r \in Reader, GetCloudSetting(r) \/ Incr(r) \/ SetExpiry(r) \/ VisitFails(r)
      PROVE  VisitInv'
  BY <1>1, GetCloudSettingInv, IncrInv, SetExpiryInv, VisitFailsInv
<1>2. CASE SyncBegins \/ CreateVisitKey \/ GetVisit \/ Record
  BY <1>2, SyncBeginsInv, CreateVisitKeyInv, GetVisitInv, RecordInv
<1>3. CASE SyncFails \/ (\E d \in Date : VisitKeyExpires(d)) \/ Restart \/ Tick
  BY <1>3, VisitTimeInv
<1>4. CASE UNCHANGED visitVars
  BY <1>4 DEF visitVars, VisitInv, VisitTyped, CountsVisits, Exists
<1> QED
  BY <1>1, <1>2, <1>3, <1>4 DEF VisitsNext

LEMMA VisitInvariant == VisitsSpec => []VisitInv
<1> QED
  BY VisitInitInv, VisitsNextInv, PTL DEF VisitsSpec

(* Every date the model counts under is one of its days, also yesterday's  *)
(* in the first run of the task, and what is recorded is a number.         *)
THEOREM VisitTypeCorrect == VisitsSpec => []VisitTypeOK
<1>1. VisitInv => VisitTypeOK
  <2> SUFFICES ASSUME VisitTyped PROVE VisitTypeOK
    BY DEF VisitInv
  <2>1. now \in 0 .. (LastDay + 1) * DayLength
    <3>1. (LastDay + 1) * DayLength \in Nat
      BY VisitAssumption DEF VisitAssumption
    <3> QED
      BY <3>1 DEF VisitTyped
  <2> QED
    BY <2>1 DEF VisitTyped, VisitTypeOK, Visit, SyncStep
<1> QED
  BY <1>1, VisitInvariant, PTL

(* What the table says of a date falls only when the date's counter has    *)
(* begun again, and is otherwise never more than the visits of the date,   *)
(* whatever errors, late visits and restarts the task meets                *)
(* (cmd/version/main.go:105-137).                                          *)
THEOREM RecordsOnlyRise == VisitsSpec => RecordFallsOnlyRenewed
<1>1. VisitInv /\ [VisitsNext]_visitVars
        => [\A d \in Date : /\ recorded'[d] < recorded[d] => d \in renewed
                            /\ recorded'[d] # recorded[d] /\ d \notin renewed
                                 => recorded'[d] <= visited[d]]_visitVars
  <2> SUFFICES ASSUME VisitInv, VisitsNext, NEW d \in Date, d \notin renewed
               PROVE  /\ ~(recorded'[d] < recorded[d])
                      /\ recorded'[d] # recorded[d] => recorded'[d] <= visited[d]
    OBVIOUS
  <2> USE DEF VisitInv
  <2>1. recorded[d] \in Nat
    BY DEF VisitTyped
  <2>2. CASE Record
    <3>1. /\ recorded' = [recorded EXCEPT ![sync.date] = sync.visits]
          /\ sync.step = "record"
      BY <2>2 DEF Record
    <3>2. CASE sync.date = d
      <4>1. recorded[d] <= sync.visits /\ sync.visits <= visited[d]
        BY <3>1, <3>2 DEF CountsVisits
      <4>2. recorded'[d] = sync.visits /\ sync.visits \in Nat
        BY <3>1, <3>2, SyncIs DEF VisitTyped
      <4> QED
        BY <2>1, <4>1, <4>2
    <3>3. CASE sync.date # d
      BY <2>1, <3>1, <3>3 DEF VisitTyped
    <3> QED
      BY <3>2, <3>3
  <2>3. CASE ~Record
    <3>1. recorded' = recorded
      BY <2>3 DEF VisitsNext, GetCloudSetting, Incr, SetExpiry, VisitFails, SyncBegins,
                  CreateVisitKey, GetVisit, SyncFails, VisitKeyExpires, Restart, Tick
    <3> QED
      BY <2>1, <3>1
  <2> QED
    BY <2>2, <2>3
<1> QED
  BY <1>1, VisitInvariant, PTL DEF VisitsSpec, RecordFallsOnlyRenewed

-----------------------------------------------------------------------------
(* CALLS *)

Kinds == {"session", "plan", "info", "notices", "stored", "pictures", "masked", "dropped",
          "panics", "partial", "never"}

Recognised == {"GetScores", "GetGPA", "GetCredit", "GetUnifiedExam", "GetCreditV2", "GetPlan",
               "GetCourseList", "GetTermList", "GetExamRoomInfo"}

Checked == {"AndroidGetVersion", "CreateImage", "ChangeImage"}

(* Routes that need what their method may leave out.                       *)
Needing == Checked \cup {"GetTerm"}

-----------------------------------------------------------------------------
(* The tables                                                              *)

(* A row of a service: where it uses a session, panics or knows better.    *)
ServiceRow(m) ==
    /\ m.kind \in Kinds
    /\ m.kind \in {"session", "plan"} => m.name \in Recognised \cup {"UpsertCustomCourse"}
    /\ m.kind = "plan" => m.name = "GetPlan"
    /\ m.kind = "notices" => m.name = "GetNotices"
    /\ m.kind = "info" => m.name = "GetUserInfo"
    /\ m.name = "GetSetting" => m.kind = "panics"
    /\ m.kind = "partial" => m.name = "GetTerm"

(* A row of the gateway's clients: whose code is kept, whose is not read.  *)
RPCRow(r) ==
    /\ r.name \in Recognised => r.rule = "cookie"
    /\ r.rule = "unread" => r.name \in TellsNothing \cup Checked \cup {"GetSetting"}

(* A row of the gateway's handlers.                                        *)
RouteRow(r) ==
    /\ r.refusal \in {"none", "param", "internal", "text"}
    /\ r.calls \in Needing => r.needs = TRUE
    /\ r.calls \in TellsNothing => r.public = FALSE

LEMMA ServiceRows == \A m \in Service : ServiceRow(m)
<1>1. \A m \in AcademicService \cup TimetableService : ServiceRow(m)
  BY DEF AcademicService, TimetableService, Alone, Merged, ServiceRow, Kinds, Recognised
<1>2. \A m \in AdjustService \cup AccountService \cup FriendService : ServiceRow(m)
  BY DEF AdjustService, AccountService, FriendService, Alone, Merged, ServiceRow, Kinds
<1>3. \A m \in ClassroomService \cup PaperService \cup CaptchaService \cup OAService : ServiceRow(m)
  BY DEF ClassroomService, PaperService, CaptchaService, OAService, Alone, Merged, ServiceRow,
         Kinds, Recognised
<1>4. \A m \in ReleaseService \cup SettingService : ServiceRow(m)
  BY DEF ReleaseService, SettingService, Alone, Merged, ServiceRow, Kinds
<1>5. \A m \in PageService \cup InfoService : ServiceRow(m)
  BY DEF PageService, InfoService, Alone, Merged, ServiceRow, Kinds
<1>6. \A m \in ToolboxService \cup PictureService : ServiceRow(m)
  BY DEF ToolboxService, PictureService, Alone, Merged, ServiceRow, Kinds
<1> QED
  BY <1>1, <1>2, <1>3, <1>4, <1>5, <1>6 DEF Service

LEMMA RPCRows == \A r \in RPC : RPCRow(r)
<1>1. \A r \in AcademicRPC \cup CourseRPC \cup UserRPC : RPCRow(r)
  BY DEF AcademicRPC, CourseRPC, UserRPC, Reads, RPCRow, Recognised
<1>2. \A r \in ClassroomRPC \cup PaperRPC \cup CaptchaRPC \cup OARPC : RPCRow(r)
  BY DEF ClassroomRPC, PaperRPC, CaptchaRPC, OARPC, Reads, RPCRow, Recognised
<1>3. \A r \in VersionRPC : RPCRow(r)
  BY DEF VersionRPC, Reads, RPCRow, Recognised, TellsNothing, Checked
<1>4. \A r \in InfoRPC \cup ToolboxRPC : RPCRow(r)
  BY DEF InfoRPC, ToolboxRPC, Reads, RPCRow, Recognised
<1>5. \A r \in PictureRPC : RPCRow(r)
  BY DEF PictureRPC, Reads, RPCRow, Recognised, Checked
<1> QED
  BY <1>1, <1>2, <1>3, <1>4, <1>5 DEF RPC

LEMMA RouteRows == \A r \in API : RouteRow(r)
<1>1. \A r \in AcademicAPI \cup TimetableAPI \cup CustomCourseAPI : RouteRow(r)
  BY DEF AcademicAPI, TimetableAPI, CustomCourseAPI, Route, Routes, RouteRow, Needing, Checked, TellsNothing
<1>2. \A r \in LoginAPI \cup AccountAPI \cup FriendAPI \cup ClassroomAPI : RouteRow(r)
  BY DEF LoginAPI, AccountAPI, FriendAPI, ClassroomAPI, Route, Routes, RouteRow, Needing, Checked,
         TellsNothing
<1>3. \A r \in PaperAPI \cup CaptchaAPI \cup FeedbackAPI : RouteRow(r)
  BY DEF PaperAPI, CaptchaAPI, FeedbackAPI, Public, Route, Routes, RouteRow, Needing, Checked, TellsNothing
<1>4. \A r \in ReleaseAPI \cup OldVersionAPI : RouteRow(r)
  BY DEF ReleaseAPI, OldVersionAPI, Route, Routes, RouteRow, Needing, Checked, TellsNothing
<1>5. \A r \in SettingAPI : RouteRow(r)
  BY DEF SettingAPI, Public, Needs, Route, Routes, RouteRow, Needing, Checked, TellsNothing
<1>6. \A r \in InfoAPI \cup ToolboxAPI \cup ToolboxAdminAPI : RouteRow(r)
  BY DEF InfoAPI, ToolboxAPI, ToolboxAdminAPI, Public, Needs, Route, Routes, RouteRow, Needing, Checked,
         TellsNothing
<1>7. \A r \in PictureAPI \cup ScreenAPI : RouteRow(r)
  BY DEF PictureAPI, ScreenAPI, Public, Needs, Route, Routes, RouteRow, Needing, Checked, TellsNothing
<1>8. \A r \in OldScreenAPI \cup TraceAPI : RouteRow(r)
  BY DEF OldScreenAPI, TraceAPI, Route, Routes, RouteRow, Needing, Checked, TellsNothing
<1> QED
  BY <1>1, <1>2, <1>3, <1>4, <1>5, <1>6, <1>7, <1>8 DEF API

(* Every method of a service is one the gateway's clients call.            *)
LEMMA EveryMethodCalled == \A m \in Service : \E r \in RPC : r.name = m.name
<1> DEFINE Called(m) == \E rule \in {"cookie", "biz", "code", "unread", "content"} :
                            [name |-> m.name, rule |-> rule] \in RPC
<1>1. \A m \in AcademicService : Called(m)
  BY DEF AcademicService, Alone, Merged, RPC, AcademicRPC, Reads
<1>2. \A m \in TimetableService \cup AdjustService : Called(m)
  BY DEF TimetableService, AdjustService, Alone, Merged, RPC, CourseRPC, Reads
<1>3. \A m \in AccountService \cup FriendService : Called(m)
  BY DEF AccountService, FriendService, Alone, Merged, RPC, UserRPC, Reads
<1>4. \A m \in ClassroomService : Called(m)
  BY DEF ClassroomService, Alone, Merged, RPC, ClassroomRPC, Reads
<1>5. \A m \in PaperService : Called(m)
  BY DEF PaperService, Alone, Merged, RPC, PaperRPC, Reads
<1>6. \A m \in CaptchaService : Called(m)
  BY DEF CaptchaService, Alone, RPC, CaptchaRPC, Reads
<1>7. \A m \in OAService : Called(m)
  BY DEF OAService, Alone, RPC, OARPC, Reads
<1>8. \A m \in ReleaseService \cup SettingService : Called(m)
  BY DEF ReleaseService, SettingService, Alone, Merged, RPC, VersionRPC, Reads
<1>9. \A m \in PageService \cup InfoService : Called(m)
  BY DEF PageService, InfoService, Alone, Merged, RPC, InfoRPC, Reads
<1>10. \A m \in ToolboxService : Called(m)
  BY DEF ToolboxService, Alone, RPC, ToolboxRPC, Reads
<1>11. \A m \in PictureService : Called(m)
  BY DEF PictureService, Alone, RPC, PictureRPC, Reads
<1>12. \A m \in Service : Called(m)
  <2> HIDE DEF Called
  <2> QED
    BY <1>1, <1>2, <1>3, <1>4, <1>5, <1>6, <1>7, <1>8, <1>9, <1>10, <1>11 DEF Service
<1> QED
  BY <1>12

(* What the tables say of the rule of a method.                            *)
LEMMA RuleOf ==
  ASSUME NEW m \in Service
  PROVE  /\ m.name \in Recognised => Rule(m.name) = "cookie"
         /\ Rule(m.name) = "unread" => m.name \in TellsNothing \cup Checked \cup {"GetSetting"}
<1>1. PICK r \in RPC : r.name = m.name
  BY EveryMethodCalled
<1> DEFINE chosen == CHOOSE q \in RPC : q.name = m.name
<1>2. chosen \in RPC /\ chosen.name = m.name
  BY <1>1
<1>3. Rule(m.name) = chosen.rule
  BY DEF Rule
<1> HIDE DEF chosen
<1>4. RPCRow(chosen)
  BY <1>2, RPCRows
<1> QED
  BY <1>2, <1>3, <1>4 DEF RPCRow

-----------------------------------------------------------------------------
(* What an answer says                                                     *)

(* The code in the answer: a success is one, and an expired session        *)
(* reaches the gateway where registry errors are recognised.               *)
LEMMA BaseOf ==
  ASSUME NEW kind \in Kinds, NEW end \in Ends(kind)
  PROVE  /\ BaseResp(kind, end) = "ok" => end = "ok"
         /\ BaseResp(kind, end) = "session" => end = "expired" \/ kind \in {"plan", "notices"}
         /\ end = "expired" /\ kind \in {"session", "plan"} => BaseResp(kind, end) = "session"
         /\ kind = "panics" => BaseResp(kind, end) \in {"ok", "lost"}
         /\ BaseResp(kind, end) = "bare" => kind = "partial"
         /\ BaseResp(kind, end) \in {"ok", "bare", "session", "unrated", "coded", "internal", "none", "lost"}
<1>1. /\ end \in {"ok", "expired", "unrated", "registry", "nothing", "coded", "broken", "bare"}
      /\ end = "bare" => kind = "partial"
  BY DEF Ends, Kinds
<1>2. kind \in {"info", "plan"} => end \in {"ok", "expired", "registry", "broken"}
  BY DEF Ends
<1> QED
  BY <1>1, <1>2 DEF BaseResp, ConvertErr, HandleJwchError, Kinds

-----------------------------------------------------------------------------
(* The calls                                                               *)

(* What is known of a call on its way.                                     *)
Underway(c) ==
    /\ route[c].calls = method.name
    /\ stage[c] \in {"idle", "sent", "inside"} => outcome[c] = "none"
    /\ stage[c] = "replied" => outcome[c] \in Ends(method.kind)
    /\ stage[c] # "answered" => told[c] = "none" /\ public[c] = FALSE
    /\ stage[c] \in {"idle", "sent"} => lead[c] = c
    /\ lead[c] # c => method.merged = TRUE
    /\ outcome[c] = "expired" => session[lead[c]] \notin alive

CallInv == CallsTypeOK /\ (\A c \in Device : Underway(c)) /\ FailureTold /\ SessionTold

LEMMA CallsInitInv == CallsInit => CallInv
<1> SUFFICES ASSUME CallsInit PROVE CallInv
  OBVIOUS
<1>1. CallsTypeOK
  BY DEF CallsInit, CallsTypeOK
<1>2. \A c \in Device : Underway(c)
  BY DEF CallsInit, Underway
<1>3. FailureTold /\ SessionTold
  BY DEF CallsInit, FailureTold, SessionTold
<1> QED
  BY <1>1, <1>2, <1>3 DEF CallInv

(* The registry ends a session: what was answered of it stays true.        *)
LEMMA ExpireInv == ASSUME CallInv, NEW s \in Session, Expire(s) PROVE CallInv'
<1>1. CallsTypeOK'
  BY DEF CallInv, CallsTypeOK, Expire
<1>2. \A c \in Device : Underway(c)'
  BY DEF CallInv, Underway, Expire
<1>3. FailureTold' /\ SessionTold'
  BY DEF CallInv, Underway, FailureTold, SessionTold, Expire
<1> QED
  BY <1>1, <1>2, <1>3 DEF CallInv

LEMMA SendInv == ASSUME CallInv, NEW d \in Device, Send(d) PROVE CallInv'
<1>1. CallsTypeOK'
  BY DEF CallInv, CallsTypeOK, Send
<1>2. \A c \in Device : Underway(c)'
  BY DEF CallInv, CallsTypeOK, Underway, Send
<1>3. FailureTold' /\ SessionTold'
  BY DEF CallInv, CallsTypeOK, Underway, FailureTold, SessionTold, Send
<1> QED
  BY <1>1, <1>2, <1>3 DEF CallInv

(* What a request that does not bind is told is never a success nor an     *)
(* expired session.                                                        *)
LEMMA RejectInv == ASSUME CallInv, NEW d \in Device, Reject(d) PROVE CallInv'
<1>1. route[d].refusal \in {"param", "internal", "text"}
  BY RouteRows DEF CallInv, CallsTypeOK, RouteRow, Reject
<1>2. CallsTypeOK'
  BY <1>1 DEF CallInv, CallsTypeOK, Reject
<1>3. \A c \in Device : Underway(c)'
  BY DEF CallInv, CallsTypeOK, Underway, Reject
<1>4. FailureTold' /\ SessionTold'
  BY <1>1 DEF CallInv, CallsTypeOK, Underway, FailureTold, SessionTold, Reject
<1> QED
  BY <1>2, <1>3, <1>4 DEF CallInv

(* Only methods whose calls are merged find another leader.                *)
LEMMA DoSharedInv == ASSUME CallInv, NEW d \in Device, DoShared(d) PROVE CallInv'
<1>1. /\ stage[d] = "sent"
      /\ stage' = [stage EXCEPT ![d] = "inside"]
      /\ UNCHANGED <<method, route, session, alive, outcome, told, public>>
  BY DEF DoShared
<1>2. running' \subseteq Device /\ lead' \in [Device -> Device]
  BY DEF CallInv, CallsTypeOK, DoShared
<1>3. /\ \A c \in Device \ {d} : lead'[c] = lead[c]
      /\ lead'[d] # lead[d] => method.merged = TRUE
  BY ServiceRows DEF CallInv, CallsTypeOK, DoShared
<1>4. CallsTypeOK'
  BY <1>1, <1>2 DEF CallInv, CallsTypeOK
<1>5. \A c \in Device : Underway(c)'
  BY <1>1, <1>2, <1>3 DEF CallInv, CallsTypeOK, Underway
<1>6. FailureTold' /\ SessionTold'
  BY <1>1, <1>3 DEF CallInv, CallsTypeOK, Underway, FailureTold, SessionTold
<1> QED
  BY <1>4, <1>5, <1>6 DEF CallInv

(* An execution ends as expired only if its leader's session has.          *)
LEMMA ExecutionInv ==
  ASSUME CallInv, NEW l \in Device, NEW end \in Ends(method.kind), ExecutionEnds(l, end)
  PROVE  CallInv'
<1> DEFINE served == {c \in Device : stage[c] = "inside" /\ lead[c] = l}
<1>1. /\ end = "expired" => session[l] \notin alive
      /\ running' = running \ {l}
      /\ stage' = [c \in Device |-> IF c \in served THEN "replied" ELSE stage[c]]
      /\ outcome' = [c \in Device |-> IF c \in served THEN end ELSE outcome[c]]
      /\ UNCHANGED <<method, route, session, alive, lead, told, public>>
  BY DEF ExecutionEnds
<1>2. CallsTypeOK'
  BY <1>1 DEF CallInv, CallsTypeOK
<1>3. \A c \in Device : Underway(c)'
  BY <1>1 DEF CallInv, CallsTypeOK, Underway
<1>4. FailureTold' /\ SessionTold'
  BY <1>1 DEF CallInv, CallsTypeOK, Underway, FailureTold, SessionTold
<1> QED
  BY <1>2, <1>3, <1>4 DEF CallInv

LEMMA RPCFailsInv == ASSUME CallInv, NEW d \in Device, RPCFails(d) PROVE CallInv'
<1>1. CallsTypeOK'
  BY DEF CallInv, CallsTypeOK, RPCFails
<1>2. \A c \in Device : Underway(c)'
  BY DEF CallInv, CallsTypeOK, Underway, RPCFails
<1>3. FailureTold' /\ SessionTold'
  BY DEF CallInv, CallsTypeOK, Underway, FailureTold, SessionTold, RPCFails
<1> QED
  BY <1>1, <1>2, <1>3 DEF CallInv

(* The reply reaches the app: the tables decide what it says.              *)
LEMMA RespondInv == ASSUME CallInv, NEW d \in Device, Respond(d) PROVE CallInv'
<1> DEFINE base == BaseResp(method.kind, outcome[d])
           answer == Answer(Rule(method.name), route[d].needs, base)
<1>1. /\ stage[d] = "replied"
      /\ stage' = [stage EXCEPT ![d] = "answered"]
      /\ told' = [told EXCEPT ![d] = answer]
      /\ public' = [public EXCEPT ![d] =
                        route[d].public /\ (answer \in {"ok", "empty"} \/ outcome[d] = "nothing")]
      /\ UNCHANGED <<method, route, session, alive, lead, running, outcome>>
  BY DEF Respond
<1>2. /\ method \in Service
      /\ route[d] \in API
      /\ route[d].calls = method.name
      /\ outcome[d] \in Ends(method.kind)
      /\ outcome[d] = "expired" => session[lead[d]] \notin alive
      /\ lead[d] # d => method.merged = TRUE
  BY <1>1 DEF CallInv, CallsTypeOK, Underway
<1>3. /\ ServiceRow(method)
      /\ RouteRow(route[d])
  BY <1>2, ServiceRows, RouteRows
<1>4. /\ base = "ok" => outcome[d] = "ok"
      /\ base = "session" => outcome[d] = "expired" \/ method.kind \in {"plan", "notices"}
      /\ outcome[d] = "expired" /\ method.kind \in {"session", "plan"} => base = "session"
      /\ method.kind = "panics" => base \in {"ok", "lost"}
      /\ base = "bare" => route[d].needs = TRUE
      /\ base \in {"ok", "bare", "session", "unrated", "coded", "internal", "none", "lost"}
  BY <1>2, <1>3, BaseOf DEF ServiceRow, RouteRow, Needing
<1> HIDE DEF base
<1>5. /\ answer = "ok" => base = "ok"
      /\ answer = "empty" =>
            Rule(method.name) = "unread" /\ route[d].needs # TRUE /\ base \notin {"ok", "lost"}
      /\ answer = "session" => base = "session"
      /\ Rule(method.name) = "cookie" /\ base = "session" => answer = "session"
      /\ answer \in {"ok", "empty", "session", "unrated", "coded", "biz", "internal"}
  BY <1>4 DEF Answer, HandleBaseRespWithCookie
<1> HIDE DEF answer
<1>6. /\ method.name \in Recognised => Rule(method.name) = "cookie"
      /\ Rule(method.name) = "unread" => method.name \in TellsNothing \cup Checked \cup {"GetSetting"}
  BY <1>2, RuleOf
<1>7. answer = "empty" => method.name \in TellsNothing /\ route[d].public = FALSE
  BY <1>2, <1>3, <1>4, <1>5, <1>6 DEF ServiceRow, RouteRow, Needing
<1>8. answer = "session" /\ method.name \notin {"GetPlan", "GetNotices"} => outcome[d] = "expired"
  BY <1>3, <1>4, <1>5 DEF ServiceRow
<1>9. outcome[d] = "expired" =>
           answer = "session" \/ method.name \in {"GetUserInfo", "UpsertCustomCourse"}
  <2>1. outcome[d] = "expired" => method.kind \in {"session", "plan", "info"}
    BY <1>2, <1>3 DEF Ends, ServiceRow, Kinds
  <2> QED
    BY <2>1, <1>3, <1>4, <1>5, <1>6 DEF ServiceRow
<1>10. CallsTypeOK'
  BY <1>1, <1>5 DEF CallInv, CallsTypeOK
<1>11. \A c \in Device : Underway(c)'
  BY <1>1 DEF CallInv, CallsTypeOK, Underway
<1>12. FailureTold'
  BY <1>1, <1>4, <1>5, <1>7 DEF CallInv, CallsTypeOK, FailureTold
<1>13. SessionTold'
  BY <1>1, <1>2, <1>8, <1>9 DEF CallInv, CallsTypeOK, SessionTold
<1> QED
  BY <1>10, <1>11, <1>12, <1>13 DEF CallInv

LEMMA CallsNextInv == CallInv /\ [CallsNext]_callVars => CallInv'
<1> SUFFICES ASSUME CallInv, [CallsNext]_callVars PROVE CallInv'
  OBVIOUS
<1>1. CASE UNCHANGED callVars
  BY <1>1 DEF callVars, CallInv, CallsTypeOK, Underway, FailureTold, SessionTold
<1>2. CASE \E s \in Session : Expire(s)
  BY <1>2, ExpireInv
<1>3. CASE \E c \in Device : Send(c) \/ Reject(c) \/ DoShared(c) \/ RPCFails(c) \/ Respond(c)
  BY <1>3, SendInv, RejectInv, DoSharedInv, RPCFailsInv, RespondInv
<1>4. CASE \E l \in Device : \E end \in Ends(method.kind) : ExecutionEnds(l, end)
  BY <1>4, ExecutionInv
<1> QED
  BY <1>1, <1>2, <1>3, <1>4 DEF CallsNext

(* The types, what is known of each call under way, and what each app was  *)
(* told hold together in every reachable state.                            *)
THEOREM CallsInvariant == CallsSpec => []CallInv
  BY CallsInitInv, CallsNextInv, PTL DEF CallsSpec

(* The variables keep their types, for any number of devices and sessions: *)
(* what an app is told is one of the answers the gateway knows.            *)
THEOREM CallsTypeCorrect == CallsSpec => []CallsTypeOK
<1>1. CallInv => CallsTypeOK
  BY DEF CallInv
<1> QED
  BY <1>1, CallsInvariant, PTL

(* The app is told a success only if the execution that served its call    *)
(* succeeded, but for six version methods, for any number of devices and   *)
(* sessions (api/rpc/url.go, pkg/utils/rpc.go).                            *)
THEOREM FailuresTold == CallsSpec => []FailureTold
<1>1. CallInv => FailureTold
  BY DEF CallInv
<1> QED
  BY <1>1, CallsInvariant, PTL

(* An app is told that its session has expired if, and but for two methods *)
(* only if, the session that its call was executed with has, for any       *)
(* number of devices and sessions (pkg/base/pack.go, pkg/singleflight).    *)
THEOREM SessionsTold == CallsSpec => []SessionTold
<1>1. CallInv => SessionTold
  BY DEF CallInv
<1> QED
  BY <1>1, CallsInvariant, PTL

=============================================================================
