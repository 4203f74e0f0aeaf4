-------------------------- MODULE LaunchScreenProofs --------------------------
(***************************************************************************)
(* What is proved of the launch screen for any students, audiences and     *)
(* numbers of requests, errors, expired keys and lost windows: the types,  *)
(* that rows, objects and counters agree but for what an error or a save   *)
(* of an older copy explains, and that an old list of a student counts as  *)
(* fresh only for one of the known reasons.                                *)
(*                                                                         *)
(* Rows and objects.  A request does its steps one at a time, in an order  *)
(* that nobody fixes, so the invariant speaks of what each request will    *)
(* still do about a name: put it into a row, store its object, take it out *)
(* of the storage, take it out of the rows.  A stored object is named by a *)
(* row or someone is to add or to remove it; the object of a named row is  *)
(* stored or someone is to store it or to drop the name.  A step about one *)
(* name leaves the others alone because no two requests bring a name of    *)
(* their own alike and a name has at most one picture, be it in a row or   *)
(* in a copy that some request holds.                                      *)
(*                                                                         *)
(* Counters.  Rows are saved whole.  A copy that a request will save is as *)
(* new as its row, and then differs from it by what the request changes,   *)
(* or the row was saved since, and then the save is of an older copy.      *)
(*                                                                         *)
(* Lists.  The newest id of the device is ahead of a student's list only   *)
(* if the student's own request was late or another's has stored it; a     *)
(* request that has yet to store the id is ahead of its list only if late. *)
(***************************************************************************)
EXTENDS LaunchScreen, WellFoundedInduction, TLAPS

(* A row, and the rows that a request holds copies of.                     *)
LaunchRow == [live : BOOLEAN, url : Nat, clicks : Nat, shows : Nat,
              audience : Audiences, writes : Nat]

LaunchCopies == UNION {[S -> LaunchRow] : S \in SUBSET Nat}

(* What a request can be, by its operation.                                *)
LaunchRequest ==
    {Idle}
    \cup [op : {"create"}, todo : SUBSET {"insert", "upload"}, url : Nat, audience : Audiences]
    \cup [op : {"path"}, todo : (SUBSET {"remove", "save"}) \cup (SUBSET {"save", "upload"}),
          old : Nat, url : Nat, copies : LaunchCopies]
    \cup [op : {"property", "click"}, todo : {{}, {"save"}}, url : Nat, copies : LaunchCopies]
    \cup [op : {"delete"}, todo : {{}, {"delete"}, {"remove"}}, url : Nat, old : Nat, pic : Nat]
    \cup [op : {"view"}, todo : {{}, {"save"}}, url : Nat, cached : BOOLEAN, by : Viewer,
          copies : LaunchCopies]
    \cup [op : {"view"}, todo : SUBSET {"save", "list", "last"}, url : Nat, cached : BOOLEAN,
          by : Viewer, newest : Nat, copies : LaunchCopies]

HasOld(r) == r.op \in {"path", "delete"}
HasCopies(r) == r.op \in {"path", "property", "click", "view"}
HasName(r) == r.op \in {"create", "path"}

(* What a request will still do about the name u: put it into a row,       *)
(* store its object, take it out of the storage, take it out of the rows.  *)
Adds(r, u) == /\ HasName(r) /\ r.url = u
              /\ IF r.op = "create" THEN "insert" \in r.todo ELSE "save" \in r.todo
Uploads(r, u) == /\ HasName(r) /\ r.url = u
                 /\ r.todo \cap {"upload", "remove"} # {}
Removes(r, u) == HasOld(r) /\ r.old = u /\ "remove" \in r.todo
Drops(r, u) == HasOld(r) /\ r.old = u /\ r.todo \cap {"delete", "save"} # {}

Named(u) == \E p \in Ids : picture[p].live /\ picture[p].url = u

(* The picture that a name belongs or has belonged to.                     *)
Knows(r, u, p) ==
    \/ HasCopies(r) /\ p \in DOMAIN r.copies /\ r.copies[p].url = u
    \/ r.op = "path" /\ p \in DOMAIN r.copies /\ r.old = u
    \/ r.op = "delete" /\ r.pic = p /\ r.old = u

Belongs(u, p) ==
    \/ p \in Ids /\ picture[p].url = u
    \/ \E c \in Call : Knows(call[c], u, p)

LaunchTyped ==
    /\ picture \in Seq(LaunchRow)
    /\ object \subseteq 1 .. names
    /\ names \in Nat
    /\ \A p \in Ids : picture[p].url \in 1 .. names
    /\ onAir \subseteq Ids
    /\ \A v \in Viewer : idList[v] = NoList \/ idList[v] \subseteq Ids
    /\ DOMAIN idList = Viewer
    /\ lastId \in {NoId} \cup Ids
    /\ call \in [Call -> LaunchRequest]
    /\ launchLeft \in [LaunchKinds -> Nat]
    /\ excused \subseteq 0 .. names /\ overwritten \subseteq Ids
    /\ clicks \in Seq(Nat) /\ Len(clicks) = Len(picture)
    /\ shows \in Seq(Nat) /\ Len(shows) = Len(picture)
    /\ lists \in [made : [Viewer -> Nat], late : SUBSET Viewer, by : SUBSET Viewer]

(* Requests speak of rows and names that exist: n names, ids of rows.      *)
Grounded(r, n, ids) ==
    /\ r # Idle => r.url \in 0 .. n
    /\ HasName(r) => r.url # 0
    /\ HasOld(r) => r.old \in 1 .. n
    /\ HasCopies(r) => /\ DOMAIN r.copies \subseteq ids
                       /\ \A p \in DOMAIN r.copies : r.copies[p].url \in 1 .. n
    /\ r.op = "path" => /\ DOMAIN r.copies # {}
                        /\ \A p \in DOMAIN r.copies : r.copies[p].url = r.url
    /\ r.op = "delete" => r.pic \in ids
    /\ r.op = "view" /\ "newest" \in DOMAIN r => r.newest \in ids

NamesApart == \A c, d \in Call :
    c # d /\ HasName(call[c]) /\ HasName(call[d]) => call[c].url # call[d].url

(* A name that is to be put into a row is nobody else's yet.               *)
NamesNew == \A c \in Call : \A u \in Nat : Adds(call[c], u) =>
    /\ \A p \in Ids : picture[p].url # u
    /\ \A d \in Call : HasOld(call[d]) => call[d].old # u
    /\ \A d \in Call \ {c} : \A p \in Nat : ~Knows(call[d], u, p)

OneOwner == \A u, p, q \in Nat : Belongs(u, p) /\ Belongs(u, q) => p = q

NotYetStored == \A c \in Call : \A u \in Nat : Uploads(call[c], u) => u \notin object

RemovesLast == \A c \in Call : \A u \in Nat \ excused :
    Removes(call[c], u) => Drops(call[c], u) \/ ~Named(u)

(* The row is still to be saved, the object of its name is not there.      *)
Gone(r, u) == r.op = "path" /\ Drops(r, u) /\ ~Removes(r, u)

RemovedIsGone == \A c \in Call : \A u \in Nat \ excused : Gone(call[c], u) =>
    u \notin object /\ \A d \in Call : ~Uploads(call[d], u)

(* A copy that a request will save is as new as its row, or the row has    *)
(* been saved since.                                                       *)
Follows(r, copy, row) ==
    /\ copy.writes <= row.writes
    /\ copy.writes = row.writes =>
        /\ row.live
        /\ row.url = IF r.op = "path" THEN r.old ELSE copy.url
        /\ copy.clicks = row.clicks + (IF r.op = "click" THEN 1 ELSE 0)
        /\ copy.shows = row.shows + (IF r.op = "view" THEN 1 ELSE 0)

CopiesFollow == \A c \in Call : HasCopies(call[c]) /\ "save" \in call[c].todo =>
    \A p \in DOMAIN call[c].copies : Follows(call[c], call[c].copies[p], picture[p])

StoredIsNamed == \A u \in Nat \ excused :
    u \in object \/ (\E c \in Call : Uploads(call[c], u))
        => Named(u) \/ \E c \in Call : Adds(call[c], u) \/ Removes(call[c], u)

NamedIsStored == \A u \in Nat \ excused :
    Named(u) \/ (\E c \in Call : Adds(call[c], u))
        => u \in object \/ \E c \in Call : Uploads(call[c], u) \/ Drops(call[c], u)

Counted == \A p \in Ids \ overwritten :
    picture[p].clicks = clicks[p] /\ picture[p].shows = shows[p]

(* The id n is not what the lists are compared with, or known to be wrong. *)
Passed(n) == n \in overwritten \/ n \notin Live

OldListed == \A v \in Viewer :
    idList[v] # NoList /\ lastId # NoId /\ lists.made[v] < lastId
        => v \in lists.late \/ lists.by \ {v} # {} \/ Passed(lastId)

OldListAhead == \A c \in Call :
    LET r == call[c] IN
    "last" \in r.todo /\ "list" \notin r.todo /\ lists.made[r.by] < r.newest
        => r.by \in lists.late \/ Passed(r.newest)

GroundInv == \A c \in Call : Grounded(call[c], names, Ids)

NamesInv == /\ NamesApart /\ NamesNew /\ OneOwner /\ NotYetStored /\ RemovesLast
            /\ RemovedIsGone /\ StoredIsNamed /\ NamedIsStored
RowsInv == CopiesFollow /\ Counted
ListsInv == OldListed /\ OldListAhead

LaunchInv == LaunchTyped /\ GroundInv /\ NamesInv /\ RowsInv /\ ListsInv

-----------------------------------------------------------------------------
(* The newest id                                                           *)

LEMMA NewestLive ==
  ASSUME picture \in Seq(LaunchRow), Live # {}
  PROVE  /\ GetLastImageId \in Live
         /\ \A p \in Live : p <= GetLastImageId
<1>1. Live \subseteq 1 .. Len(picture) /\ Len(picture) \in Nat
  BY DEF Live, Ids
<1> DEFINE above == {n \in Nat : \A p \in Live : p <= n}
<1>2. Len(picture) \in above
  BY <1>1
<1>3. PICK least \in above : \A n \in above : ~ (<<n, least>> \in OpToRel(<, Nat))
  BY <1>2, NatLessThanWellFounded, WFMin
<1>4. \A n \in above : ~ (n < least)
  BY <1>3 DEF OpToRel
<1>7. least \in Nat /\ \A p \in Live : p <= least
  BY <1>3
<1>5. least \in Live
  <2> SUFFICES ASSUME least \notin Live PROVE FALSE
    OBVIOUS
  <2>1. PICK p \in Live : TRUE
    OBVIOUS
  <2>2. p \in Nat /\ p <= least /\ p # least /\ least \in Nat
    BY <1>1, <1>7, <2>1
  <2>3. least - 1 \in Nat /\ least - 1 < least
    BY <2>2
  <2>4. ASSUME NEW q \in Live PROVE q <= least - 1
    <3>1. q \in Nat /\ q <= least
      BY <1>1, <1>7
    <3>2. q # least
      BY <2>4
    <3> QED
      BY <2>2, <3>1, <3>2
  <2> QED
    BY <1>4, <2>3, <2>4
<1>6. \E p \in Live : \A q \in Live : q <= p
  BY <1>7, <1>5
<1> QED
  BY <1>6 DEF GetLastImageId

LEMMA NewestZero == Live = {} => GetLastImageId = 0
BY DEF GetLastImageId, NoId

-----------------------------------------------------------------------------
(* The forms of a request                                                  *)

LEMMA CopiesAre ==
  ASSUME NEW copies \in LaunchCopies
  PROVE  /\ DOMAIN copies \subseteq Nat
         /\ \A p \in DOMAIN copies : copies[p] \in LaunchRow
         /\ copies = [p \in DOMAIN copies |-> copies[p]]
BY DEF LaunchCopies

LEMMA CopiesOf ==
  ASSUME NEW S \in SUBSET Nat, NEW f, f \in [S -> LaunchRow]
  PROVE  f \in LaunchCopies
BY DEF LaunchCopies

LEMMA RequestIs ==
  ASSUME NEW r \in LaunchRequest
  PROVE  /\ r.op \in {"none", "create", "path", "property", "click", "delete", "view"}
         /\ r.op = "none" <=> r = Idle
         /\ r.op = "none" => r.todo = {}
         /\ r.op # "none" => r.url \in Nat
         /\ r.op = "create" => r.todo \subseteq {"insert", "upload"} /\ r.audience \in Audiences
         /\ r.op = "path" => /\ r.todo \subseteq {"remove", "save", "upload"}
                             /\ ~({"remove", "upload"} \subseteq r.todo)
                             /\ r.old \in Nat
         /\ r.op \in {"property", "click"} => r.todo \subseteq {"save"}
         /\ r.op = "delete" => /\ r.todo \subseteq {"remove", "delete"}
                               /\ ~({"remove", "delete"} \subseteq r.todo)
                               /\ r.old \in Nat /\ r.pic \in Nat
         /\ r.op = "view" => r.todo \subseteq {"save", "list", "last"} /\ r.by \in Viewer
         /\ HasCopies(r) => r.copies \in LaunchCopies
         /\ "list" \in r.todo \/ "last" \in r.todo =>
                r.op = "view" /\ "newest" \in DOMAIN r /\ r.newest \in Nat
BY DEF LaunchRequest, Idle, HasCopies

(* A request after one of its steps.                                       *)
Goner(r, left) == IF left = {} THEN Idle ELSE [r EXCEPT !.todo = left]

(* What it still knows is as it was.                                       *)
Same(r, s) ==
    /\ s.op = r.op /\ s.url = r.url /\ DOMAIN s = DOMAIN r
    /\ r.op \in {"path", "delete"} => s.old = r.old
    /\ r.op = "delete" => s.pic = r.pic
    /\ HasCopies(r) => s.copies = r.copies
    /\ r.op = "view" => s.by = r.by
    /\ r.op = "view" /\ "newest" \in DOMAIN r => s.newest = r.newest

LEMMA GonerIs ==
  ASSUME NEW r \in LaunchRequest, r # Idle, NEW left,
         r.op = "create" => left \subseteq {"insert", "upload"},
         r.op = "path" => left \in (SUBSET {"remove", "save"}) \cup (SUBSET {"save", "upload"}),
         r.op \in {"property", "click"} => left \in {{}, {"save"}},
         r.op = "delete" => left \in {{}, {"delete"}, {"remove"}},
         r.op = "view" => left \subseteq r.todo
  PROVE  /\ Goner(r, left) \in LaunchRequest
         /\ left = {} => Goner(r, left) = Idle
         /\ left # {} => Goner(r, left).todo = left /\ Same(r, Goner(r, left))
<1>1. left # {} => Goner(r, left).todo = left /\ Same(r, Goner(r, left))
  <2> SUFFICES ASSUME left # {} PROVE Goner(r, left).todo = left /\ Same(r, Goner(r, left))
    OBVIOUS
  <2>1. "todo" \in DOMAIN r
    BY DEF LaunchRequest, Idle
  <2>2. Goner(r, left) = [r EXCEPT !.todo = left]
    BY DEF Goner
  <2> QED
    BY <2>1, <2>2 DEF Same
<1>2. left # {} => [r EXCEPT !.todo = left] \in LaunchRequest
  <2>1. CASE r.op = "create"
    BY <2>1 DEF LaunchRequest, Idle
  <2>2. CASE r.op = "path"
    BY <2>2 DEF LaunchRequest, Idle
  <2>3. CASE r.op \in {"property", "click"}
    BY <2>3 DEF LaunchRequest, Idle
  <2>4. CASE r.op = "delete"
    BY <2>4 DEF LaunchRequest, Idle
  <2>5. CASE r.op = "view"
    BY <2>5 DEF LaunchRequest, Idle
  <2> QED
    BY <2>1, <2>2, <2>3, <2>4, <2>5, RequestIs
<1> QED
  BY <1>1, <1>2 DEF Goner, LaunchRequest

LEMMA GonerSays ==
  ASSUME NEW r \in LaunchRequest, NEW s \in LaunchRequest, s = Idle \/ Same(r, s),
         NEW n, NEW ids, Grounded(r, n, ids)
  PROVE  /\ Grounded(s, n, ids)
         /\ HasName(s) => HasName(r) /\ s.url = r.url
         /\ HasOld(s) => HasOld(r) /\ s.old = r.old
         /\ HasCopies(s) => HasCopies(r) /\ s.copies = r.copies
         /\ \A u, p : Knows(s, u, p) => Knows(r, u, p)
<1>1. CASE s = Idle
  BY <1>1 DEF Idle, Grounded, HasName, HasOld, HasCopies, Knows
<1>2. CASE Same(r, s) /\ s # Idle
  <2>1. r # Idle
    <3>1. r = Idle => s.op = "none"
      BY <1>2 DEF Same, Idle
    <3> QED
      BY <1>2, <3>1, RequestIs
  <2> QED
    BY <1>2, <2>1 DEF Same, Grounded, HasName, HasOld, HasCopies, Knows
<1> QED
  BY <1>1, <1>2

LEMMA GroundedMore ==
  ASSUME NEW r, NEW n \in Nat, NEW m \in Nat, n <= m, NEW ids, NEW more, ids \subseteq more,
         Grounded(r, n, ids)
  PROVE  Grounded(r, m, more)
BY DEF Grounded

(* A request begins.                                                       *)
LEMMA StartForm ==
  ASSUME call \in [Call -> LaunchRequest], NEW c \in Call, NEW r \in LaunchRequest, Start(c, r)
  PROVE  /\ call[c] = Idle /\ call' = [call EXCEPT ![c] = r]
         /\ call' \in [Call -> LaunchRequest]
BY DEF Start

(* A request goes on: s is what is left of it.                             *)
Following(r, s, left) ==
    /\ left = {} => s = Idle
    /\ left # {} => s.todo = left /\ Same(r, s)

LEMMA GoesForm ==
  ASSUME call \in [Call -> LaunchRequest], NEW c \in Call, NEW step, NEW more,
         Goes(c, step, Then(c, more)),
         \/ more = {}
         \/ step = "remove" /\ call[c].op = "path" /\ more = {"upload"}
         \/ step = "delete" /\ call[c].op = "delete" /\ more = {"remove"}
  PROVE  /\ step \in call[c].todo /\ call[c] # Idle /\ call' \in [Call -> LaunchRequest]
         /\ \E s \in LaunchRequest : /\ call' = [call EXCEPT ![c] = s]
                                     /\ s = Idle \/ Same(call[c], s)
                                     /\ Following(call[c], s, (call[c].todo \ {step}) \cup more)
<1>1. PICK r \in LaunchRequest : r = call[c]
  OBVIOUS
<1> DEFINE left == (r.todo \ {step}) \cup more
<1>2. step \in r.todo /\ r # Idle
  BY <1>1 DEF Goes, Idle
<1>3. "todo" \in DOMAIN r
  BY DEF LaunchRequest, Idle
<1>4. Then(c, more) = [r EXCEPT !.todo = more] /\ Then(c, more).todo = more
  BY <1>1, <1>3 DEF Then
<1>5. [Then(c, more) EXCEPT !.todo = left] = [r EXCEPT !.todo = left]
  BY <1>3, <1>4
<1>6. call' = [call EXCEPT ![c] = Goner(r, left)]
  <2>1. call' = [call EXCEPT ![c] = IF left = {} THEN Idle ELSE [Then(c, more) EXCEPT !.todo = left]]
    BY <1>1, <1>4 DEF Goes
  <2> QED
    BY <2>1, <1>5 DEF Goner
<1>7. /\ r.op = "create" => left \subseteq {"insert", "upload"}
      /\ r.op = "path" => left \in (SUBSET {"remove", "save"}) \cup (SUBSET {"save", "upload"})
      /\ r.op \in {"property", "click"} => left \in {{}, {"save"}}
      /\ r.op = "delete" => left \in {{}, {"delete"}, {"remove"}}
      /\ r.op = "view" => left \subseteq r.todo
  <2>1. CASE more = {}
    BY <1>1, <1>2, <2>1, RequestIs
  <2>2. CASE step = "remove" /\ r.op = "path" /\ more = {"upload"}
    BY <1>2, <2>2, RequestIs
  <2>3. CASE step = "delete" /\ r.op = "delete" /\ more = {"remove"}
    BY <1>2, <2>3, RequestIs
  <2> QED
    BY <1>1, <2>1, <2>2, <2>3
<1>8. /\ Goner(r, left) \in LaunchRequest
      /\ left = {} => Goner(r, left) = Idle
      /\ left # {} => Goner(r, left).todo = left /\ Same(r, Goner(r, left))
  BY <1>2, <1>7, GonerIs
<1> QED
  BY <1>1, <1>2, <1>6, <1>8 DEF Following

-----------------------------------------------------------------------------
(* Types                                                                   *)

LEMMA LaunchPays ==
  ASSUME LaunchTyped, NEW kind \in LaunchKinds, Spend(kind)
  PROVE  launchLeft' \in [LaunchKinds -> Nat]
<1>1. launchLeft \in [LaunchKinds -> Nat] /\ launchLeft[kind] > 0 /\ launchLeft[kind] \in Nat
  BY DEF LaunchTyped, Spend
<1>2. launchLeft[kind] - 1 \in Nat
  BY <1>1
<1> QED
  BY <1>1, <1>2 DEF Spend

LEMMA LaunchInitInv == LaunchInit => LaunchInv
<1> SUFFICES ASSUME LaunchInit PROVE LaunchInv
  OBVIOUS
<1> USE DEF LaunchInit
<1>1. /\ Ids = {} /\ Live = {}
      /\ \A c \in Call : call[c] = Idle /\ call[c].op = "none" /\ call[c].todo = {}
  BY DEF Ids, Live, Idle
<1>2. /\ picture \in Seq(LaunchRow) /\ clicks \in Seq(Nat) /\ shows \in Seq(Nat)
      /\ Len(clicks) = Len(picture) /\ Len(shows) = Len(picture)
      /\ call \in [Call -> LaunchRequest]
  BY <1>1 DEF LaunchRequest
<1>3. launchLeft \in [LaunchKinds -> Nat]
  BY LaunchAssumption DEF LaunchAssumption
<1>4. lists \in [made : [Viewer -> Nat], late : SUBSET Viewer, by : SUBSET Viewer]
  OBVIOUS
<1>5. LaunchTyped
  BY <1>1, <1>2, <1>3, <1>4 DEF LaunchTyped
<1>6. GroundInv
  BY <1>1 DEF GroundInv, Grounded, HasName, HasOld, HasCopies
<1>7. \A c \in Call : \A u, p : /\ ~HasName(call[c]) /\ ~HasOld(call[c]) /\ ~HasCopies(call[c])
                              /\ ~Adds(call[c], u) /\ ~Uploads(call[c], u) /\ ~Knows(call[c], u, p)
                              /\ ~Removes(call[c], u) /\ ~Drops(call[c], u) /\ ~Gone(call[c], u)
  BY <1>1 DEF HasName, HasOld, HasCopies, Adds, Uploads, Removes, Drops, Gone, Knows
<1>8. NamesInv
  <2>1. \A u, p : ~Named(u) /\ ~Belongs(u, p) /\ u \notin object
    BY <1>1, <1>7 DEF Named, Belongs
  <2> QED
    BY <1>7, <2>1 DEF NamesInv, NamesApart, NamesNew, OneOwner, NotYetStored, RemovesLast,
                      RemovedIsGone, StoredIsNamed, NamedIsStored
<1>9. RowsInv /\ ListsInv
  BY <1>1 DEF RowsInv, ListsInv, CopiesFollow, Counted, OldListed, OldListAhead
<1> QED
  BY <1>5, <1>6, <1>8, <1>9 DEF LaunchInv

-----------------------------------------------------------------------------
(* What a step does not touch                                              *)

(* As far as names go, s is r, but for the names in ex.                    *)
Alike(r, s, ex) ==
    /\ HasName(s) => HasName(r) /\ s.url = r.url
    /\ \A u \in Nat : (Adds(s, u) => Adds(r, u)) /\ (Uploads(s, u) => Uploads(r, u))
    /\ \A u \in Nat \ ex : /\ Adds(r, u) => Adds(s, u)
                           /\ Uploads(r, u) => Uploads(s, u)
                           /\ Removes(r, u) <=> Removes(s, u)
                           /\ Drops(r, u) => Drops(s, u)
                           /\ Gone(s, u) => Gone(r, u)

(* Names stay apart, new and with their owner as long as what a request    *)
(* comes to know was known to it or stood in a row.                        *)
LEMMA OwnersStay ==
  ASSUME LaunchTyped, NamesApart, NamesNew, OneOwner, NEW c \in Call, NEW s \in LaunchRequest,
         call' = [call EXCEPT ![c] = s], Ids' = Ids,
         \A p \in Ids : \/ picture'[p].url = picture[p].url
                        \/ /\ Knows(call[c], picture'[p].url, p)
                           /\ \A u \in Nat : ~Adds(s, u),
         HasName(s) => HasName(call[c]) /\ s.url = call[c].url,
         \A u \in Nat : Adds(s, u) => Adds(call[c], u),
         HasOld(s) => \/ HasOld(call[c]) /\ s.old = call[c].old
                      \/ \E p \in Ids : picture[p].url = s.old,
         \A u, p : Knows(s, u, p) => Knows(call[c], u, p) \/ (p \in Ids /\ picture[p].url = u)
  PROVE  NamesApart' /\ NamesNew' /\ OneOwner'
<1>1. /\ call'[c] = s /\ \A d \in Call \ {c} : call'[d] = call[d]
      /\ call \in [Call -> LaunchRequest] /\ Ids \subseteq Nat
  BY DEF LaunchTyped, Ids
<1>2. NamesApart'
  <2>1. \A d \in Call : HasName(call'[d]) => HasName(call[d]) /\ call'[d].url = call[d].url
    BY <1>1
  <2> QED
    BY <2>1 DEF NamesApart
<1>3. NamesNew'
  <2> SUFFICES ASSUME NEW b \in Call, NEW u \in Nat, Adds(call'[b], u)
               PROVE  /\ \A p \in Ids : picture'[p].url # u
                      /\ \A d \in Call : HasOld(call'[d]) => call'[d].old # u
                      /\ \A d \in Call \ {b} : \A p \in Nat : ~Knows(call'[d], u, p)
    BY DEF NamesNew
  <2>1. Adds(call[b], u)
    BY <1>1
  <2>2. /\ \A p \in Ids : picture[p].url # u
        /\ \A d \in Call : HasOld(call[d]) => call[d].old # u
        /\ \A d \in Call \ {b} : \A p \in Nat : ~Knows(call[d], u, p)
    BY <2>1 DEF NamesNew
  <2>3. ASSUME NEW d \in Call, HasOld(call'[d]) PROVE call'[d].old # u
    <3>1. CASE d = c
      BY <1>1, <2>2, <2>3, <3>1
    <3>2. CASE d # c
      BY <1>1, <2>2, <2>3, <3>2
    <3> QED
      BY <3>1, <3>2
  <2>4. ASSUME NEW d \in Call \ {b}, NEW p \in Nat PROVE ~Knows(call'[d], u, p)
    <3>1. CASE d = c
      BY <1>1, <2>2, <3>1
    <3>2. CASE d # c
      BY <1>1, <2>2, <3>2
    <3> QED
      BY <3>1, <3>2
  <2>5. ASSUME NEW p \in Ids PROVE picture'[p].url # u
    <3>1. CASE picture'[p].url = picture[p].url
      BY <2>2, <3>1
    <3>2. CASE Knows(call[c], picture'[p].url, p) /\ \A x \in Nat : ~Adds(s, x)
      <4>1. b # c
        BY <1>1, <3>2
      <4>2. p \in Nat
        BY <1>1
      <4>3. ~Knows(call[c], u, p)
        BY <2>2, <4>1, <4>2
      <4> QED
        BY <3>2, <4>3
    <3> QED
      BY <3>1, <3>2
  <2> QED
    BY <2>3, <2>4, <2>5
<1>4. OneOwner'
  <2>1. ASSUME NEW u, NEW p, Belongs(u, p)' PROVE Belongs(u, p)
    <3>1. CASE p \in Ids /\ picture'[p].url = u
      BY <3>1 DEF Belongs
    <3>2. CASE \E d \in Call : Knows(call'[d], u, p)
      <4>1. PICK d \in Call : Knows(call'[d], u, p)
        BY <3>2
      <4>2. CASE d = c
        BY <1>1, <4>1, <4>2 DEF Belongs
      <4>3. CASE d # c
        BY <1>1, <4>1, <4>3 DEF Belongs
      <4> QED
        BY <4>2, <4>3
    <3> QED
      BY <2>1, <3>1, <3>2 DEF Belongs
  <2> QED
    BY <2>1 DEF OneOwner
<1> QED
  BY <1>2, <1>3, <1>4

LEMMA NamesStay ==
  ASSUME LaunchTyped, GroundInv, NamesInv, NEW c \in Call, NEW s \in LaunchRequest,
         call' = [call EXCEPT ![c] = s], picture' = picture, object' = object,
         excused \subseteq excused', Alike(call[c], s, excused'),
         HasOld(s) => \/ HasOld(call[c]) /\ s.old = call[c].old
                      \/ \E p \in Ids : picture[p].url = s.old,
         \A u, p : Knows(s, u, p) => Knows(call[c], u, p) \/ (p \in Ids /\ picture[p].url = u)
  PROVE  NamesInv'
<1>1. /\ call'[c] = s /\ \A d \in Call \ {c} : call'[d] = call[d]
      /\ call \in [Call -> LaunchRequest]
  BY DEF LaunchTyped
<1>2. Ids' = Ids /\ \A u : Named(u)' <=> Named(u)
  BY DEF Ids, Named
<1>3. \A d \in Call : Alike(call[d], call'[d], excused')
  BY <1>1 DEF Alike
<1>4. NamesApart' /\ NamesNew' /\ OneOwner'
  <2>1. /\ HasName(s) => HasName(call[c]) /\ s.url = call[c].url
        /\ \A u \in Nat : Adds(s, u) => Adds(call[c], u)
    BY DEF Alike
  <2> QED
    BY <1>2, <2>1, OwnersStay DEF NamesInv
<1>7. NotYetStored'
  BY <1>3 DEF NamesInv, NotYetStored, Alike
<1>8. RemovesLast'
  BY <1>2, <1>3 DEF NamesInv, RemovesLast, Alike
<1>9. RemovedIsGone'
  BY <1>3 DEF NamesInv, RemovedIsGone, Alike
<1>10. StoredIsNamed'
  <2> SUFFICES ASSUME NEW u \in Nat \ excused',
                      u \in object \/ (\E d \in Call : Uploads(call'[d], u))
               PROVE  Named(u) \/ \E d \in Call : Adds(call'[d], u) \/ Removes(call'[d], u)
    BY <1>2 DEF StoredIsNamed
  <2>1. u \in object \/ (\E d \in Call : Uploads(call[d], u))
    BY <1>3 DEF Alike
  <2>2. Named(u) \/ \E d \in Call : Adds(call[d], u) \/ Removes(call[d], u)
    BY <2>1 DEF NamesInv, StoredIsNamed
  <2> QED
    BY <1>3, <2>2 DEF Alike
<1>11. NamedIsStored'
  <2> SUFFICES ASSUME NEW u \in Nat \ excused',
                      Named(u) \/ (\E d \in Call : Adds(call'[d], u))
               PROVE  u \in object \/ \E d \in Call : Uploads(call'[d], u) \/ Drops(call'[d], u)
    BY <1>2 DEF NamedIsStored
  <2>1. Named(u) \/ (\E d \in Call : Adds(call[d], u))
    BY <1>3 DEF Alike
  <2>2. u \in object \/ \E d \in Call : Uploads(call[d], u) \/ Drops(call[d], u)
    BY <2>1 DEF NamesInv, NamedIsStored
  <2> QED
    BY <1>3, <2>2 DEF Alike
<1> QED
  BY <1>4, <1>7, <1>8, <1>9, <1>10, <1>11 DEF NamesInv

LEMMA RowsStay ==
  ASSUME LaunchTyped, RowsInv, NEW c \in Call, NEW s \in LaunchRequest,
         call' = [call EXCEPT ![c] = s],
         UNCHANGED <<picture, overwritten, clicks, shows>>,
         HasCopies(s) /\ "save" \in s.todo =>
            \A p \in DOMAIN s.copies : Follows(s, s.copies[p], picture[p])
  PROVE  RowsInv'
<1>1. call'[c] = s /\ \A d \in Call \ {c} : call'[d] = call[d]
  BY DEF LaunchTyped
<1>2. CopiesFollow'
  <2> SUFFICES ASSUME NEW d \in Call, HasCopies(call'[d]), "save" \in call'[d].todo
               PROVE  \A p \in DOMAIN call'[d].copies :
                         Follows(call'[d], call'[d].copies[p], picture[p])
    BY DEF CopiesFollow
  <2>1. CASE d = c
    BY <1>1, <2>1
  <2>2. CASE d # c
    BY <1>1, <2>2 DEF RowsInv, CopiesFollow
  <2> QED
    BY <2>1, <2>2
<1>3. Counted'
  BY DEF RowsInv, Counted, Ids
<1> QED
  BY <1>2, <1>3 DEF RowsInv

LEMMA GroundStays ==
  ASSUME LaunchTyped, GroundInv, NEW c \in Call, NEW s \in LaunchRequest,
         call' = [call EXCEPT ![c] = s], names' \in Nat, names <= names', Ids \subseteq Ids',
         Grounded(s, names', Ids')
  PROVE  GroundInv'
<1>1. call'[c] = s /\ \A d \in Call \ {c} : call'[d] = call[d]
  BY DEF LaunchTyped
<1>2. ASSUME NEW d \in Call PROVE Grounded(call'[d], names', Ids')
  <2>1. CASE d = c
    BY <1>1, <2>1
  <2>2. CASE d # c
    <3>1. Grounded(call[d], names, Ids) /\ names \in Nat
      BY DEF GroundInv, LaunchTyped
    <3> QED
      BY <1>1, <2>2, <3>1, GroundedMore
  <2> QED
    BY <2>1, <2>2
<1> QED
  BY <1>2 DEF GroundInv

LEMMA ListsStay ==
  ASSUME LaunchTyped, ListsInv, NEW c \in Call, NEW s \in LaunchRequest,
         call' = [call EXCEPT ![c] = s],
         UNCHANGED <<idList, lastId>>,
         \A n \in Ids : Passed(n) => Passed(n)',
         Ids \subseteq Ids', GroundInv, lists'.made = lists.made, lists'.by = lists.by,
         lists.late \subseteq lists'.late,
         "last" \in s.todo /\ "list" \notin s.todo =>
            \/ "last" \in call[c].todo /\ "list" \notin call[c].todo
               /\ s.by = call[c].by /\ s.newest = call[c].newest
            \/ s.by \in lists'.late
  PROVE  ListsInv'
<1>1. /\ call'[c] = s /\ \A d \in Call \ {c} : call'[d] = call[d]
      /\ call \in [Call -> LaunchRequest]
  BY DEF LaunchTyped
<1>2. OldListed'
  <2> SUFFICES ASSUME NEW v \in Viewer, idList[v] # NoList, lastId # NoId, lists.made[v] < lastId
               PROVE  v \in lists'.late \/ lists.by \ {v} # {} \/ Passed(lastId)'
    BY DEF OldListed
  <2>1. v \in lists.late \/ lists.by \ {v} # {} \/ Passed(lastId)
    BY DEF ListsInv, OldListed
  <2>2. lastId \in Ids
    BY DEF LaunchTyped
  <2>3. Passed(lastId) => Passed(lastId)'
    BY <2>2 DEF Passed
  <2> QED
    BY <2>1, <2>3
<1>3. OldListAhead'
  <2> SUFFICES ASSUME NEW d \in Call, "last" \in call'[d].todo, "list" \notin call'[d].todo,
                      lists'.made[call'[d].by] < call'[d].newest
               PROVE  call'[d].by \in lists'.late \/ Passed(call[d].newest)'
    BY DEF OldListAhead
  <2>1. CASE /\ "last" \in call[d].todo /\ "list" \notin call[d].todo
             /\ call'[d].by = call[d].by /\ call'[d].newest = call[d].newest
    <3>1. call[d].by \in lists.late \/ Passed(call[d].newest)
      BY <2>1 DEF ListsInv, OldListAhead
    <3>2. call[d].newest \in Ids
      <4>1. call[d] \in LaunchRequest
        BY <1>1
      <4>2. call[d].op = "view" /\ "newest" \in DOMAIN call[d]
        BY <2>1, <4>1, RequestIs
      <4> QED
        BY <4>2 DEF GroundInv, Grounded
    <3>3. PICK n \in Ids : n = call[d].newest
      BY <3>2
    <3>4. Passed(n) => Passed(n)'
      BY <3>3
    <3>5. Passed(call[d].newest) => Passed(call[d].newest)'
      BY <2>1, <3>3, <3>4 DEF Passed
    <3> QED
      BY <2>1, <3>1, <3>5
  <2>2. CASE d = c
    BY <1>1, <2>1, <2>2
  <2>3. CASE d # c
    BY <1>1, <2>1, <2>3
  <2> QED
    BY <2>2, <2>3
<1> QED
  BY <1>2, <1>3 DEF ListsInv

-----------------------------------------------------------------------------
(* Requests that read rows                                                 *)

(* A request that brings no name of its own.                               *)
LEMMA ReaderStarts ==
  ASSUME LaunchInv, NEW c \in Call, NEW r \in LaunchRequest, Start(c, r),
         NEW kind \in LaunchKinds, Spend(kind),
         UNCHANGED <<picture, object, names, onAir, idList, lastId, excused, overwritten,
                     clicks, shows, lists>>,
         ~HasName(r), "remove" \notin r.todo, Grounded(r, names, Ids),
         HasCopies(r) => \A p \in DOMAIN r.copies : /\ picture[p].url = r.copies[p].url
                                                    /\ Follows(r, r.copies[p], picture[p]),
         HasOld(r) => r.old = picture[r.pic].url,
         "last" \in r.todo => "list" \in r.todo
  PROVE  LaunchInv'
<1> USE DEF LaunchInv
<1>1. /\ call[c] = Idle /\ call' = [call EXCEPT ![c] = r] /\ call' \in [Call -> LaunchRequest]
  BY StartForm DEF LaunchTyped
<1>2. launchLeft' \in [LaunchKinds -> Nat]
  BY LaunchPays
<1>3. Ids' = Ids /\ \A n : Passed(n) => Passed(n)'
  BY DEF Ids, Passed, Live
<1>4. LaunchTyped'
  BY <1>1, <1>2, <1>3 DEF LaunchTyped
<1>5. GroundInv'
  <2>1. names' \in Nat /\ names <= names' /\ Ids \subseteq Ids' /\ Grounded(r, names', Ids')
    BY <1>3 DEF LaunchTyped
  <2> QED
    BY <1>1, <2>1, GroundStays
<1>6. r.op \in {"none", "property", "click", "view", "delete"}
  BY RequestIs DEF HasName
<1>7. /\ ~HasName(Idle) /\ ~HasOld(Idle) /\ Idle.todo = {} /\ Idle.op = "none"
  BY DEF Idle, HasName, HasOld
<1>8. \A u : /\ ~Adds(r, u) /\ ~Uploads(r, u) /\ ~Removes(r, u) /\ ~Gone(r, u)
             /\ ~Adds(Idle, u) /\ ~Uploads(Idle, u) /\ ~Removes(Idle, u) /\ ~Drops(Idle, u)
  <2>1. r.op # "path"
    BY <1>6
  <2>2. \A u : ~Adds(r, u) /\ ~Uploads(r, u) /\ ~Removes(r, u)
    BY DEF Adds, Uploads, Removes
  <2>3. \A u : ~Gone(r, u)
    BY <2>1 DEF Gone
  <2>4. \A u : ~Adds(Idle, u) /\ ~Uploads(Idle, u) /\ ~Removes(Idle, u) /\ ~Drops(Idle, u)
    BY <1>7 DEF Adds, Uploads, Removes, Drops
  <2> QED
    BY <2>2, <2>3, <2>4
<1>9. HasOld(r) => r.op = "delete" /\ r.pic \in Ids
  BY <1>6 DEF HasOld, Grounded
<1>10. NamesInv'
  <2>1. Alike(Idle, r, excused')
    BY <1>8 DEF Alike
  <2>2. HasOld(r) => \E p \in Ids : picture[p].url = r.old
    BY <1>9
  <2>3. \A u, p : Knows(r, u, p) => p \in Ids /\ picture[p].url = u
    <3> SUFFICES ASSUME NEW u, NEW p, Knows(r, u, p) PROVE p \in Ids /\ picture[p].url = u
      OBVIOUS
    <3>1. CASE HasCopies(r) /\ p \in DOMAIN r.copies /\ r.copies[p].url = u
      BY <3>1 DEF Grounded
    <3>2. CASE r.op = "delete" /\ r.pic = p /\ r.old = u
      BY <1>9, <3>2 DEF HasOld
    <3> QED
      BY <1>6, <3>1, <3>2 DEF Knows
  <2> QED
    BY <1>1, <2>1, <2>2, <2>3, NamesStay
<1>11. RowsInv'
  BY <1>1, RowsStay
<1>12. ListsInv'
  BY <1>1, <1>3, ListsStay
<1> QED
  BY <1>4, <1>5, <1>10, <1>11, <1>12

LEMMA RowIs ==
  ASSUME LaunchTyped, NEW p \in Ids
  PROVE  /\ picture[p] \in LaunchRow /\ picture[p].url \in 1 .. names /\ p \in Nat
         /\ p \in 1 .. Len(picture)
BY DEF LaunchTyped, Ids

LEMMA OneCopy ==
  ASSUME NEW p \in Nat, NEW row \in LaunchRow, NEW copies, copies = [q \in {p} |-> row]
  PROVE  copies \in LaunchCopies /\ DOMAIN copies = {p} /\ copies[p] = row
BY DEF LaunchCopies

LEMMA UpdateImagePropertyInv ==
  ASSUME LaunchInv, NEW c \in Call, NEW p \in Live, NEW audience \in Audiences,
         UpdateImageProperty(c, p, audience)
  PROVE  LaunchInv'
<1> USE DEF LaunchInv
<1>1. /\ p \in Ids /\ picture[p] \in LaunchRow /\ picture[p].url \in 1 .. names /\ p \in Nat
      /\ picture[p].live /\ names \in Nat
  BY RowIs DEF Live, LaunchTyped
<1>2. PICK row : row = [picture[p] EXCEPT !.audience = audience]
  OBVIOUS
<1>3. /\ row \in LaunchRow /\ row.url = picture[p].url /\ row.writes = picture[p].writes
      /\ row.clicks = picture[p].clicks /\ row.shows = picture[p].shows
  BY <1>1, <1>2 DEF LaunchRow
<1>4. PICK copies : copies = [q \in {p} |-> row]
  OBVIOUS
<1>5. copies \in LaunchCopies /\ DOMAIN copies = {p} /\ copies[p] = row
  BY <1>1, <1>3, <1>4, OneCopy
<1>6. PICK r : r = [op |-> "property", todo |-> {"save"}, url |-> picture[p].url, copies |-> copies]
  OBVIOUS
<1>7. r \in LaunchRequest
  BY <1>1, <1>5, <1>6 DEF LaunchRequest
<1>8. Start(c, r) /\ Spend("property")
  BY <1>2, <1>4, <1>6 DEF UpdateImageProperty
<1>9. r.op = "property" /\ r.todo = {"save"} /\ r.url = picture[p].url /\ r.copies = copies /\ r # Idle
  BY <1>6 DEF Idle
<1>10. ~HasName(r) /\ "remove" \notin r.todo /\ ~HasOld(r) /\ "last" \notin r.todo
  BY <1>9 DEF HasName, HasOld
<1>11. Grounded(r, names, Ids)
  BY <1>1, <1>3, <1>5, <1>9 DEF Grounded, HasName, HasOld
<1>12. picture[p].url = r.copies[p].url /\ Follows(r, r.copies[p], picture[p])
  BY <1>1, <1>3, <1>5, <1>9 DEF Follows, LaunchRow
<1>13. "property" \in LaunchKinds
  BY DEF LaunchKinds
<1> QED
  BY <1>5, <1>7, <1>8, <1>9, <1>10, <1>11, <1>12, <1>13, ReaderStarts DEF UpdateImageProperty

LEMMA AddPointTimeInv ==
  ASSUME LaunchInv, NEW c \in Call, NEW p \in Live, AddPointTime(c, p)
  PROVE  LaunchInv'
<1> USE DEF LaunchInv
<1>1. /\ p \in Ids /\ picture[p] \in LaunchRow /\ picture[p].url \in 1 .. names /\ p \in Nat
      /\ picture[p].live /\ names \in Nat
  BY RowIs DEF Live, LaunchTyped
<1>2. PICK row : row = [picture[p] EXCEPT !.clicks = @ + 1]
  OBVIOUS
<1>3. /\ row \in LaunchRow /\ row.url = picture[p].url /\ row.writes = picture[p].writes
      /\ row.clicks = picture[p].clicks + 1 /\ row.shows = picture[p].shows
  BY <1>1, <1>2 DEF LaunchRow
<1>4. PICK copies : copies = [q \in {p} |-> row]
  OBVIOUS
<1>5. copies \in LaunchCopies /\ DOMAIN copies = {p} /\ copies[p] = row
  BY <1>1, <1>3, <1>4, OneCopy
<1>6. PICK r : r = [op |-> "click", todo |-> {"save"}, url |-> picture[p].url, copies |-> copies]
  OBVIOUS
<1>7. r \in LaunchRequest
  BY <1>1, <1>5, <1>6 DEF LaunchRequest
<1>8. Start(c, r) /\ Spend("click")
  BY <1>2, <1>4, <1>6 DEF AddPointTime
<1>9. r.op = "click" /\ r.todo = {"save"} /\ r.url = picture[p].url /\ r.copies = copies /\ r # Idle
  BY <1>6 DEF Idle
<1>10. ~HasName(r) /\ "remove" \notin r.todo /\ ~HasOld(r) /\ "last" \notin r.todo
  BY <1>9 DEF HasName, HasOld
<1>11. Grounded(r, names, Ids)
  BY <1>1, <1>3, <1>5, <1>9 DEF Grounded, HasName, HasOld
<1>12. picture[p].url = r.copies[p].url /\ Follows(r, r.copies[p], picture[p])
  BY <1>1, <1>3, <1>5, <1>9 DEF Follows, LaunchRow
<1>13. "click" \in LaunchKinds
  BY DEF LaunchKinds
<1> QED
  BY <1>5, <1>7, <1>8, <1>9, <1>10, <1>11, <1>12, <1>13, ReaderStarts DEF AddPointTime

LEMMA DeleteImageInv ==
  ASSUME LaunchInv, NEW c \in Call, NEW p \in Live, DeleteImage(c, p)
  PROVE  LaunchInv'
<1> USE DEF LaunchInv
<1>1. p \in Ids /\ picture[p].url \in 1 .. names /\ p \in Nat /\ names \in Nat
  BY RowIs DEF Live, LaunchTyped
<1>2. PICK r : r = [op |-> "delete", todo |-> {"delete"}, url |-> picture[p].url,
                    old |-> picture[p].url, pic |-> p]
  OBVIOUS
<1>3. r \in LaunchRequest
  BY <1>1, <1>2 DEF LaunchRequest
<1>4. Start(c, r) /\ Spend("delete")
  BY <1>2 DEF DeleteImage
<1>5. /\ r.op = "delete" /\ r.todo = {"delete"} /\ r.url = picture[p].url /\ r.old = picture[p].url
      /\ r.pic = p
  BY <1>2
<1>6. ~HasName(r) /\ "remove" \notin r.todo /\ ~HasCopies(r) /\ "last" \notin r.todo
  BY <1>5 DEF HasName, HasCopies
<1>7. Grounded(r, names, Ids)
  BY <1>1, <1>5, <1>6 DEF Grounded
<1>8. "delete" \in LaunchKinds
  BY DEF LaunchKinds
<1> QED
  BY <1>3, <1>4, <1>5, <1>6, <1>7, <1>8, ReaderStarts DEF DeleteImage

(* The rows a student is shown.                                            *)
LEMMA ShownAre ==
  ASSUME LaunchTyped, NEW S, S \subseteq Live, NEW copies, copies = Shown(S)
  PROVE  /\ copies \in LaunchCopies /\ DOMAIN copies = S
         /\ \A p \in S : /\ copies[p].url = picture[p].url
                         /\ copies[p].writes = picture[p].writes
                         /\ copies[p].clicks = picture[p].clicks
                         /\ copies[p].shows = picture[p].shows + 1
<1>1. ASSUME NEW p \in S
      PROVE  /\ copies[p] \in LaunchRow
             /\ copies[p].url = picture[p].url
             /\ copies[p].writes = picture[p].writes
             /\ copies[p].clicks = picture[p].clicks
             /\ copies[p].shows = picture[p].shows + 1
  <2>1. picture[p] \in LaunchRow
    BY RowIs DEF Live
  <2>2. copies[p] = [picture[p] EXCEPT !.shows = @ + 1]
    BY DEF Shown
  <2> QED
    BY <2>1, <2>2 DEF LaunchRow
<1>2. S \subseteq Nat
  BY RowIs DEF Live
<1>3. DOMAIN copies = S /\ copies = [p \in S |-> copies[p]]
  BY DEF Shown
<1>4. copies \in [S -> LaunchRow]
  BY <1>1, <1>3
<1> QED
  BY <1>1, <1>2, <1>3, <1>4, CopiesOf

LEMMA BudgetOnly ==
  ASSUME LaunchInv, launchLeft' \in [LaunchKinds -> Nat],
         UNCHANGED <<picture, object, names, onAir, idList, lastId, call, excused, overwritten,
                     clicks, shows, lists>>
  PROVE  LaunchInv'
<1> USE DEF LaunchInv
<1>1. LaunchTyped'
  BY DEF LaunchTyped, Ids
<1>2. GroundInv'
  BY DEF GroundInv, Ids
<1>3. Ids' = Ids /\ Live' = Live /\ \A u, p : (Named(u)' <=> Named(u)) /\ (Belongs(u, p)' <=> Belongs(u, p))
  BY DEF Ids, Live, Named, Belongs
<1>4. NamesInv'
  BY <1>3 DEF NamesInv, NamesApart, NamesNew, OneOwner, NotYetStored, RemovesLast,
              RemovedIsGone, StoredIsNamed, NamedIsStored
<1>5. RowsInv'
  BY <1>3 DEF RowsInv, CopiesFollow, Counted
<1>6. ListsInv'
  BY <1>3 DEF ListsInv, OldListed, OldListAhead, Passed
<1> QED
  BY <1>1, <1>2, <1>4, <1>5, <1>6

LEMMA MobileGetCachedInv ==
  ASSUME LaunchInv, NEW c \in Call, NEW v \in Viewer, MobileGetCached(c, v)
  PROVE  LaunchInv'
<1> USE DEF LaunchInv
<1> DEFINE running == {p \in Live : p \in idList[v] \cap onAir}
<1>1. "view" \in LaunchKinds /\ Spend("view")
  BY DEF LaunchKinds, MobileGetCached
<1>2. PICK shown : shown = running
  OBVIOUS
<1>3. PICK copies : copies = Shown(shown)
  OBVIOUS
<1>4. shown \subseteq Live
  BY <1>2
<1>5. /\ copies \in LaunchCopies /\ DOMAIN copies = shown
      /\ \A p \in shown : /\ copies[p].url = picture[p].url
                          /\ copies[p].writes = picture[p].writes
                          /\ copies[p].clicks = picture[p].clicks
                          /\ copies[p].shows = picture[p].shows + 1
  BY <1>3, <1>4, ShownAre
<1>6. PICK r : r = [op |-> "view", todo |-> {"save"}, url |-> 0, cached |-> TRUE, by |-> v,
                    copies |-> copies]
  OBVIOUS
<1>7. CASE Start(c, r)
  <2>1. r \in LaunchRequest
    BY <1>5, <1>6 DEF LaunchRequest
  <2>2. /\ r.op = "view" /\ r.todo = {"save"} /\ r.url = 0 /\ r.copies = copies
        /\ "newest" \notin DOMAIN r
    BY <1>6
  <2>3. ~HasName(r) /\ "remove" \notin r.todo /\ ~HasOld(r) /\ "last" \notin r.todo
    BY <2>2 DEF HasName, HasOld
  <2>4. ASSUME NEW p \in shown
        PROVE  /\ picture[p].url = copies[p].url /\ copies[p].url \in 1 .. names /\ p \in Ids
               /\ Follows(r, copies[p], picture[p])
    <3>1. p \in Ids /\ picture[p] \in LaunchRow /\ picture[p].url \in 1 .. names /\ picture[p].live
      BY <1>4, RowIs DEF Live
    <3> QED
      BY <1>5, <2>2, <3>1 DEF Follows, LaunchRow
  <2>5. Grounded(r, names, Ids)
    BY <1>5, <2>2, <2>3, <2>4 DEF Grounded, LaunchTyped
  <2> QED
    BY <1>1, <1>5, <1>7, <2>1, <2>2, <2>3, <2>4, <2>5, ReaderStarts DEF MobileGetCached
<1>8. CASE UNCHANGED call
  BY <1>1, <1>8, LaunchPays, BudgetOnly DEF MobileGetCached
<1>9. Start(c, r) \/ UNCHANGED call
  BY <1>2, <1>3, <1>6 DEF MobileGetCached
<1> QED
  BY <1>7, <1>8, <1>9

LEMMA MobileGetFetchedInv ==
  ASSUME LaunchInv, NEW c \in Call, NEW v \in Viewer, MobileGetFetched(c, v)
  PROVE  LaunchInv'
<1> USE DEF LaunchInv
<1> DEFINE mine == {p \in Live \cap onAir : v \in picture[p].audience}
<1>1. "view" \in LaunchKinds /\ Spend("view")
  BY DEF LaunchKinds, MobileGetFetched
<1>2. PICK shown : shown = mine
  OBVIOUS
<1>3. PICK copies : copies = Shown(shown)
  OBVIOUS
<1>4. shown \subseteq Live
  BY <1>2
<1>5. /\ copies \in LaunchCopies /\ DOMAIN copies = shown
      /\ \A p \in shown : /\ copies[p].url = picture[p].url
                          /\ copies[p].writes = picture[p].writes
                          /\ copies[p].clicks = picture[p].clicks
                          /\ copies[p].shows = picture[p].shows + 1
  BY <1>3, <1>4, ShownAre
<1>6. PICK newest : newest = GetLastImageId
  OBVIOUS
<1>7. PICK r : r = [op |-> "view", todo |-> {"save", "list", "last"}, url |-> 0, cached |-> FALSE,
                    by |-> v, newest |-> newest, copies |-> copies]
  OBVIOUS
<1>8. CASE Start(c, r) /\ shown # {}
  <2>0. newest \in Ids /\ newest \in Nat
    <3>1. Live # {}
      BY <1>4, <1>8
    <3>2. GetLastImageId \in Live
      BY <3>1, NewestLive DEF LaunchTyped
    <3> QED
      BY <1>6, <3>2, RowIs DEF Live
  <2>1. r \in LaunchRequest
    BY <1>5, <1>7, <2>0 DEF LaunchRequest
  <2>2. /\ r.op = "view" /\ r.todo = {"save", "list", "last"} /\ r.url = 0 /\ r.copies = copies
        /\ r.newest = newest
    BY <1>7
  <2>3. ~HasName(r) /\ "remove" \notin r.todo /\ ~HasOld(r) /\ "list" \in r.todo
    BY <2>2 DEF HasName, HasOld
  <2>4. ASSUME NEW p \in shown
        PROVE  /\ picture[p].url = copies[p].url /\ copies[p].url \in 1 .. names /\ p \in Ids
               /\ Follows(r, copies[p], picture[p])
    <3>1. p \in Ids /\ picture[p] \in LaunchRow /\ picture[p].url \in 1 .. names /\ picture[p].live
      BY <1>4, RowIs DEF Live
    <3> QED
      BY <1>5, <2>2, <3>1 DEF Follows, LaunchRow
  <2>5. Grounded(r, names, Ids)
    BY <1>5, <2>0, <2>2, <2>3, <2>4 DEF Grounded, LaunchTyped
  <2> QED
    BY <1>1, <1>5, <1>8, <2>1, <2>2, <2>3, <2>4, <2>5, ReaderStarts DEF MobileGetFetched
<1>9. CASE UNCHANGED call
  BY <1>1, <1>9, LaunchPays, BudgetOnly DEF MobileGetFetched
<1>10. (Start(c, r) /\ shown # {}) \/ UNCHANGED call
  BY <1>2, <1>3, <1>6, <1>7 DEF MobileGetFetched
<1> QED
  BY <1>8, <1>9, <1>10

-----------------------------------------------------------------------------
(* Lists and the newest id                                                 *)

(* A view has nothing to do with names.                                    *)
LEMMA ViewAlike ==
  ASSUME NEW r \in LaunchRequest, r.op = "view", NEW s \in LaunchRequest, s = Idle \/ Same(r, s),
         NEW ex
  PROVE  Alike(r, s, ex) /\ ~HasOld(s)
<1>1. s.op \in {"view", "none"}
  BY DEF Same, Idle
<1>2. ~HasName(r) /\ ~HasOld(r) /\ ~HasName(s) /\ ~HasOld(s) /\ s.op # "path"
  BY <1>1 DEF HasName, HasOld
<1> QED
  BY <1>2 DEF Alike, Adds, Uploads, Removes, Drops, Gone

(* What is left of a request knows and saves no more than before.          *)
LEMMA StepRows ==
  ASSUME LaunchTyped, GroundInv, RowsInv, NEW c \in Call, NEW s \in LaunchRequest,
         call' = [call EXCEPT ![c] = s],
         s = Idle \/ Same(call[c], s), call[c] # Idle,
         s # Idle => s.todo \subseteq call[c].todo \cup {"upload", "remove"},
         UNCHANGED <<picture, names, overwritten, clicks, shows>>
  PROVE  /\ GroundInv' /\ RowsInv'
         /\ HasName(s) => HasName(call[c]) /\ s.url = call[c].url
         /\ HasOld(s) => HasOld(call[c]) /\ s.old = call[c].old
         /\ \A u, p : Knows(s, u, p) => Knows(call[c], u, p)
<1>1. PICK r \in LaunchRequest : r = call[c]
  BY DEF LaunchTyped
<1>2. Grounded(r, names, Ids)
  BY <1>1 DEF GroundInv
<1>3. /\ Grounded(s, names, Ids)
      /\ HasName(s) => HasName(r) /\ s.url = r.url
      /\ HasOld(s) => HasOld(r) /\ s.old = r.old
      /\ HasCopies(s) => HasCopies(r) /\ s.copies = r.copies
      /\ \A u, p : Knows(s, u, p) => Knows(r, u, p)
  BY <1>1, <1>2, GonerSays
<1>4. GroundInv'
  <2>1. names' \in Nat /\ names <= names' /\ Ids \subseteq Ids' /\ Grounded(s, names', Ids')
    BY <1>3 DEF LaunchTyped, Ids
  <2> QED
    BY <2>1, GroundStays
<1>6. HasCopies(s) /\ "save" \in s.todo =>
            \A p \in DOMAIN s.copies : Follows(s, s.copies[p], picture[p])
  <2> SUFFICES ASSUME HasCopies(s), "save" \in s.todo, NEW p \in DOMAIN s.copies
               PROVE  Follows(s, s.copies[p], picture[p])
    OBVIOUS
  <2>1. s # Idle
    BY DEF Idle
  <2>2. HasCopies(r) /\ "save" \in r.todo /\ s.copies = r.copies
    BY <1>1, <1>3, <2>1
  <2>3. Follows(r, r.copies[p], picture[p])
    BY <1>1, <2>2 DEF RowsInv, CopiesFollow
  <2>4. s.op = r.op /\ (r.op = "path" => s.old = r.old)
    BY <1>1, <2>1 DEF Same
  <2> QED
    BY <2>2, <2>3, <2>4 DEF Follows
<1>7. RowsInv'
  BY <1>6, RowsStay
<1> QED
  BY <1>1, <1>3, <1>4, <1>7

LEMMA StepKeeps ==
  ASSUME LaunchInv, NEW c \in Call, NEW s \in LaunchRequest, call' = [call EXCEPT ![c] = s],
         s = Idle \/ Same(call[c], s), call[c] # Idle,
         s # Idle => s.todo \subseteq call[c].todo,
         UNCHANGED <<picture, object, names, overwritten, clicks, shows>>,
         excused \subseteq excused', Alike(call[c], s, excused')
  PROVE  GroundInv' /\ NamesInv' /\ RowsInv'
<1> USE DEF LaunchInv
<1>1. /\ GroundInv' /\ RowsInv'
      /\ HasOld(s) => HasOld(call[c]) /\ s.old = call[c].old
      /\ \A u, p : Knows(s, u, p) => Knows(call[c], u, p)
  BY StepRows
<1>2. NamesInv'
  BY <1>1, NamesStay
<1> QED
  BY <1>1, <1>2

LEMMA SetLaunchScreenCacheInv ==
  ASSUME LaunchInv, NEW c \in Call, SetLaunchScreenCache(c)
  PROVE  LaunchInv'
<1> USE DEF LaunchInv
<1>1. PICK r \in LaunchRequest : r = call[c]
  BY DEF LaunchTyped
<1>2. /\ "list" \in r.todo /\ r # Idle /\ call' \in [Call -> LaunchRequest]
      /\ \E s \in LaunchRequest : /\ call' = [call EXCEPT ![c] = s]
                                  /\ s = Idle \/ Same(r, s)
                                  /\ Following(r, s, (r.todo \ {"list"}) \cup {})
  BY <1>1, GoesForm DEF SetLaunchScreenCache, LaunchTyped
<1>3. PICK s \in LaunchRequest : /\ call' = [call EXCEPT ![c] = s]
                                 /\ s = Idle \/ Same(r, s)
                                 /\ Following(r, s, (r.todo \ {"list"}) \cup {})
  BY <1>2
<1>4. /\ r.op = "view" /\ "newest" \in DOMAIN r /\ r.newest \in Nat /\ r.by \in Viewer
      /\ HasCopies(r) /\ r.copies \in LaunchCopies
  BY <1>2, RequestIs DEF HasCopies
<1>5. Grounded(r, names, Ids)
  BY <1>1 DEF GroundInv
<1>6. DOMAIN r.copies \subseteq Ids /\ r.newest \in Ids
  BY <1>4, <1>5 DEF Grounded
<1>7. s # Idle => s.todo \subseteq r.todo
  BY <1>3 DEF Following
<1>8. GroundInv' /\ NamesInv' /\ RowsInv'
  BY <1>1, <1>2, <1>3, <1>4, <1>7, ViewAlike, StepKeeps DEF SetLaunchScreenCache
<1>9. PICK v \in Viewer : v = r.by
  BY <1>4
<1>10. PICK n \in Ids : n = r.newest
  BY <1>6
<1>11. /\ lists.made \in [Viewer -> Nat] /\ lists.late \in SUBSET Viewer /\ lists.by \in SUBSET Viewer
       /\ DOMAIN lists = {"made", "late", "by"}
  BY DEF LaunchTyped
<1>12. PICK late : late = (lists.late \ {v}) \cup Late(c)
  OBVIOUS
<1>13. Late(c) = IF n = GetLastImageId THEN {} ELSE {v}
  BY <1>1, <1>9, <1>10 DEF Late
<1>14. /\ lists' = [lists EXCEPT !.made[v] = n, !.late = late]
       /\ idList' = [idList EXCEPT ![v] = DOMAIN r.copies]
  BY <1>1, <1>9, <1>10, <1>12 DEF SetLaunchScreenCache
<1>15. /\ lists'.made = [lists.made EXCEPT ![v] = n] /\ lists'.late = late /\ lists'.by = lists.by
       /\ lists' \in [made : [Viewer -> Nat], late : SUBSET Viewer, by : SUBSET Viewer]
  BY <1>10, <1>11, <1>12, <1>13, <1>4, <1>14 DEF LaunchTyped
<1>16. Ids' = Ids /\ \A m : Passed(m)' <=> Passed(m)
  BY DEF SetLaunchScreenCache, Ids, Passed, Live
<1>17. LaunchTyped'
  <2>1. /\ DOMAIN idList' = Viewer
        /\ \A w \in Viewer : idList'[w] = NoList \/ idList'[w] \subseteq Ids
    BY <1>6, <1>14 DEF LaunchTyped
  <2> QED
    BY <1>2, <1>15, <1>16, <2>1 DEF LaunchTyped, SetLaunchScreenCache
<1>18. \A w \in Viewer \ {v} : (w \in late <=> w \in lists.late) /\ lists'.made[w] = lists.made[w]
  BY <1>11, <1>12, <1>13, <1>15
<1>19. v \in late \/ n = GetLastImageId
  BY <1>12, <1>13
<1>20. lists'.made[v] = n
  BY <1>11, <1>15
(* A picture newer than what the list was made from is not live.           *)
<1>21. ASSUME NEW m \in Ids, n < m PROVE v \in late \/ Passed(m)
  <2>1. CASE v \in late
    BY <2>1
  <2>2. CASE n = GetLastImageId
    <3>1. CASE Live = {}
      BY <3>1 DEF Passed
    <3>2. CASE Live # {}
      <4>1. \A q \in Live : q <= n
        BY <2>2, <3>2, NewestLive DEF LaunchTyped
      <4>2. n \in Nat /\ m \in Nat
        BY RowIs
      <4> QED
        BY <1>21, <4>1, <4>2 DEF Passed
    <3> QED
      BY <3>1, <3>2
  <2> QED
    BY <1>19, <2>1, <2>2
<1>22. OldListed'
  <2> SUFFICES ASSUME NEW w \in Viewer, idList'[w] # NoList, lastId # NoId, lists'.made[w] < lastId
               PROVE  w \in late \/ lists.by \ {w} # {} \/ Passed(lastId)'
    BY <1>15 DEF OldListed, SetLaunchScreenCache
  <2>1. lastId \in Ids
    BY DEF LaunchTyped
  <2>2. CASE w = v
    <3>1. v \in late \/ Passed(lastId)
      BY <1>20, <1>21, <2>1, <2>2
    <3> QED
      BY <1>16, <2>2, <3>1 DEF Passed, SetLaunchScreenCache, Live, Ids
  <2>3. CASE w # v
    <3>1. idList'[w] = idList[w]
      BY <1>14, <2>3
    <3>2. w \in lists.late \/ lists.by \ {w} # {} \/ Passed(lastId)
      BY <1>18, <2>3, <3>1 DEF ListsInv, OldListed
    <3> QED
      BY <1>16, <1>18, <2>3, <3>2 DEF Passed, SetLaunchScreenCache, Live, Ids
  <2> QED
    BY <2>2, <2>3
<1>23. OldListAhead'

  <2> SUFFICES ASSUME NEW d \in Call, "last" \in call'[d].todo, "list" \notin call'[d].todo,
                      lists'.made[call'[d].by] < call'[d].newest
               PROVE  call'[d].by \in late \/ Passed(call[d].newest)'
    BY <1>15 DEF OldListAhead
  <2>1. PICK t \in LaunchRequest : t = call'[d]
    BY <1>2
  <2>2. t.op = "view" /\ "newest" \in DOMAIN t /\ t.by \in Viewer
    BY <2>1, RequestIs
  <2>3. t.newest \in Ids
    BY <1>8, <1>16, <2>1, <2>2 DEF GroundInv, Grounded
  <2>4. PICK m \in Ids : m = t.newest
    BY <2>3
  <2>5. Passed(m) => Passed(call[d].newest)'
    BY <1>16, <2>1, <2>4 DEF Passed, SetLaunchScreenCache, Live, Ids
  <2>6. CASE t.by = v
    BY <1>20, <1>21, <2>1, <2>4, <2>5, <2>6
  <2>7. CASE t.by # v
    <3>1. d # c
      <4>1. s # Idle => s.by = v
        BY <1>3, <1>4, <1>9 DEF Same
      <4>2. Idle.todo = {}
        BY DEF Idle
      <4>3. d = c => t = s
        BY <1>3, <2>1 DEF LaunchTyped
      <4> QED
        BY <2>1, <2>7, <4>1, <4>2, <4>3
    <3>2. call[d] = t
      BY <1>3, <2>1, <3>1 DEF LaunchTyped
    <3>3. lists.made[t.by] < t.newest
      BY <1>18, <2>1, <2>2, <2>7
    <3>4. t.by \in lists.late \/ Passed(m)
      BY <2>1, <2>4, <3>2, <3>3 DEF ListsInv, OldListAhead
    <3> QED
      BY <1>18, <2>1, <2>2, <2>5, <2>7, <3>4
  <2> QED
    BY <2>6, <2>7
<1> QED
  BY <1>8, <1>17, <1>22, <1>23 DEF ListsInv

LEMMA SetLastLaunchScreenIdCacheInv ==
  ASSUME LaunchInv, NEW c \in Call, SetLastLaunchScreenIdCache(c)
  PROVE  LaunchInv'
<1> USE DEF LaunchInv
<1>1. PICK r \in LaunchRequest : r = call[c]
  BY DEF LaunchTyped
<1>2. /\ "last" \in r.todo /\ r # Idle /\ call' \in [Call -> LaunchRequest]
      /\ \E s \in LaunchRequest : /\ call' = [call EXCEPT ![c] = s]
                                  /\ s = Idle \/ Same(r, s)
                                  /\ Following(r, s, (r.todo \ {"last"}) \cup {})
  BY <1>1, GoesForm DEF SetLastLaunchScreenIdCache, LaunchTyped
<1>3. PICK s \in LaunchRequest : /\ call' = [call EXCEPT ![c] = s]
                                 /\ s = Idle \/ Same(r, s)
                                 /\ Following(r, s, (r.todo \ {"last"}) \cup {})
  BY <1>2
<1>4. /\ r.op = "view" /\ "newest" \in DOMAIN r /\ r.newest \in Nat /\ r.by \in Viewer
  BY <1>2, RequestIs
<1>5. Grounded(r, names, Ids)
  BY <1>1 DEF GroundInv
<1>6. r.newest \in Ids
  BY <1>4, <1>5 DEF Grounded
<1>7. s # Idle => s.todo \subseteq r.todo
  BY <1>3 DEF Following
<1>8. GroundInv' /\ NamesInv' /\ RowsInv'
  BY <1>1, <1>2, <1>3, <1>4, <1>7, ViewAlike, StepKeeps DEF SetLastLaunchScreenIdCache
<1>9. PICK v \in Viewer : v = r.by
  BY <1>4
<1>10. PICK n \in Ids : n = r.newest
  BY <1>6
<1>11. /\ lists.made \in [Viewer -> Nat] /\ lists.late \in SUBSET Viewer /\ lists.by \in SUBSET Viewer
       /\ DOMAIN lists = {"made", "late", "by"}
  BY DEF LaunchTyped
<1>12. PICK late : late = lists.late \cup Late(c) \cup (IF "list" \in r.todo THEN {v} ELSE {})
  OBVIOUS
<1>13. PICK by : by = (IF lastId' = lastId THEN lists.by ELSE {}) \cup {v}
  OBVIOUS
<1>14. lists' = [lists EXCEPT !.by = by, !.late = late]
  BY <1>1, <1>9, <1>12, <1>13 DEF SetLastLaunchScreenIdCache
<1>15. Late(c) = IF n = GetLastImageId THEN {} ELSE {v}
  BY <1>1, <1>9, <1>10 DEF Late
<1>16. /\ lists'.made = lists.made /\ lists'.late = late /\ lists'.by = by
       /\ lists' \in [made : [Viewer -> Nat], late : SUBSET Viewer, by : SUBSET Viewer]
       /\ lists.late \subseteq late
  BY <1>11, <1>12, <1>13, <1>14, <1>15 DEF LaunchTyped
<1>17. Ids' = Ids /\ Live' = Live /\ \A m : Passed(m)' <=> Passed(m)
  BY DEF SetLastLaunchScreenIdCache, Ids, Passed, Live
<1>18. PICK last : last = GetLastImageId
  OBVIOUS
<1>19. lastId' = last /\ last \in Live /\ last \in Ids
  BY <1>18, NewestLive DEF SetLastLaunchScreenIdCache, LaunchTyped, Live
<1>20. LaunchTyped'
  BY <1>2, <1>16, <1>17, <1>19 DEF LaunchTyped, SetLastLaunchScreenIdCache
<1>21. OldListed'
  <2> SUFFICES ASSUME NEW w \in Viewer, idList'[w] # NoList, last # NoId, lists.made[w] < last
               PROVE  w \in late \/ by \ {w} # {} \/ Passed(last)
    BY <1>16, <1>17, <1>19 DEF OldListed, Passed, SetLastLaunchScreenIdCache
  <2>1. CASE w # v
    BY <1>13, <2>1
  <2>2. CASE w = v /\ ("list" \in r.todo \/ n # last)
    BY <1>12, <1>15, <1>18, <2>2
  <2>3. CASE w = v /\ "list" \notin r.todo /\ n = last
    <3>1. v \in lists.late \/ Passed(n)
      BY <1>1, <1>2, <1>9, <1>10, <2>3 DEF ListsInv, OldListAhead
    <3> QED
      BY <1>16, <2>3, <3>1
  <2> QED
    BY <2>1, <2>2, <2>3
<1>22. OldListAhead'
  <2> SUFFICES ASSUME NEW d \in Call, "last" \in call'[d].todo, "list" \notin call'[d].todo,
                      lists.made[call'[d].by] < call'[d].newest
               PROVE  call'[d].by \in late \/ Passed(call[d].newest)'
    BY <1>16 DEF OldListAhead
  <2>1. PICK t \in LaunchRequest : t = call'[d]
    BY <1>2
  <2>2. d # c
    <3>1. s # Idle => "last" \notin s.todo
      BY <1>3 DEF Following
    <3>2. d = c => t = s
      BY <1>3, <2>1 DEF LaunchTyped
    <3> QED
      BY <2>1, <3>1, <3>2 DEF Idle
  <2>3. call[d] = t
    BY <1>3, <2>1, <2>2 DEF LaunchTyped
  <2>4. t.by \in lists.late \/ Passed(t.newest)
    BY <2>1, <2>3 DEF ListsInv, OldListAhead
  <2>5. PICK m : m = t.newest
    OBVIOUS
  <2>6. Passed(m) => Passed(call[d].newest)'
    BY <1>17, <2>1, <2>5 DEF Passed, SetLastLaunchScreenIdCache
  <2> QED
    BY <1>16, <2>1, <2>4, <2>5, <2>6
<1> QED
  BY <1>8, <1>20, <1>21, <1>22 DEF ListsInv

(* A failed step excuses the names of its request.                         *)
LEMMA FailureAlike ==
  ASSUME NEW r \in LaunchRequest, r # Idle, NEW s \in LaunchRequest, s = Idle \/ Same(r, s),
         s # Idle => s.todo \subseteq r.todo,
         NEW step \in r.todo, s # Idle => s.todo = r.todo \ {step},
         NEW ex, r.url \in ex, HasOld(r) => r.old \in ex
  PROVE  Alike(r, s, ex)
<1>1. /\ HasName(s) => HasName(r) /\ s.url = r.url
      /\ HasOld(s) => HasOld(r) /\ s.old = r.old
      /\ s.op \in {r.op, "none"}
  BY DEF Same, Idle, HasName, HasOld
<1>2. \A u \in Nat : (Adds(s, u) => Adds(r, u)) /\ (Uploads(s, u) => Uploads(r, u))
  <2>1. HasName(s) => s # Idle /\ s.op = r.op
    BY <1>1 DEF HasName, Idle
  <2> QED
    BY <1>1, <2>1 DEF Adds, Uploads
<1>3. \A u \in Nat \ ex : /\ ~Adds(r, u) /\ ~Uploads(r, u) /\ ~Removes(r, u) /\ ~Drops(r, u)
                          /\ ~Removes(s, u) /\ ~Drops(s, u)
  BY <1>1 DEF Adds, Uploads, Removes, Drops
<1>4. \A u \in Nat \ ex : ~Gone(s, u)
  BY <1>3 DEF Gone
<1> QED
  BY <1>1, <1>2, <1>3, <1>4 DEF Alike

LEMMA StepFailsInv ==
  ASSUME LaunchInv, NEW c \in Call, NEW step \in call[c].todo, StepFails(c, step)
  PROVE  LaunchInv'
<1> USE DEF LaunchInv
<1>1. PICK r \in LaunchRequest : r = call[c]
  BY DEF LaunchTyped
<1>2. /\ step \in r.todo /\ r # Idle /\ call' \in [Call -> LaunchRequest]
      /\ \E s \in LaunchRequest : /\ call' = [call EXCEPT ![c] = s]
                                  /\ s = Idle \/ Same(r, s)
                                  /\ Following(r, s, (r.todo \ {step}) \cup {})
  BY <1>1, GoesForm DEF StepFails, LaunchTyped
<1>3. PICK s \in LaunchRequest : /\ call' = [call EXCEPT ![c] = s]
                                 /\ s = Idle \/ Same(r, s)
                                 /\ Following(r, s, (r.todo \ {step}) \cup {})
  BY <1>2
<1>4. Grounded(r, names, Ids)
  BY <1>1 DEF GroundInv
<1>5. s # Idle => s.todo = r.todo \ {step} /\ s.todo \subseteq r.todo
  BY <1>3 DEF Following
<1>6. r.url \in 0 .. names /\ (HasOld(r) => r.old \in 1 .. names /\ "old" \in DOMAIN r)
  <2>1. HasOld(r) => "old" \in DOMAIN r
    BY DEF LaunchRequest, HasOld, Idle
  <2> QED
    BY <1>2, <1>4, <2>1 DEF Grounded
<1>7. PICK ex : ex = excused \cup {r.url} \cup (IF "old" \in DOMAIN r THEN {r.old} ELSE {})
  OBVIOUS
<1>8. excused' = ex
  BY <1>1, <1>7 DEF StepFails
<1>9. "old" \in DOMAIN r => HasOld(r)
  BY DEF LaunchRequest, HasOld, Idle
<1>10. ex \subseteq 0 .. names /\ excused \subseteq ex /\ r.url \in ex /\ (HasOld(r) => r.old \in ex)
  <2>1. excused \subseteq 0 .. names /\ names \in Nat
    BY DEF LaunchTyped
  <2>2. HasOld(r) => r.old \in 0 .. names
    BY <1>6, <2>1
  <2> QED
    BY <1>6, <1>7, <1>9, <2>1, <2>2
<1>11. Alike(r, s, ex)
  BY <1>2, <1>3, <1>5, <1>10, FailureAlike
<1>12. GroundInv' /\ NamesInv' /\ RowsInv'
  <2>1. UNCHANGED <<picture, object, names, overwritten, clicks, shows>>
    BY DEF StepFails
  <2>2. excused \subseteq excused' /\ Alike(r, s, excused')
    BY <1>8, <1>10, <1>11
  <2> QED
    BY <1>1, <1>2, <1>3, <1>5, <2>1, <2>2, StepKeeps
<1>13. PICK late : late = lists.late \cup (IF step = "list" THEN {r.by} ELSE {})
  OBVIOUS
<1>14. lists' = [lists EXCEPT !.late = late]
  BY <1>1, <1>13 DEF StepFails
<1>15. step = "list" => r.by \in Viewer
  BY <1>2, RequestIs
<1>16. /\ lists'.made = lists.made /\ lists'.late = late /\ lists'.by = lists.by
       /\ lists' \in [made : [Viewer -> Nat], late : SUBSET Viewer, by : SUBSET Viewer]
       /\ lists.late \subseteq late
  BY <1>13, <1>14, <1>15 DEF LaunchTyped
<1>17. launchLeft' \in [LaunchKinds -> Nat]
  <2>1. "fault" \in LaunchKinds /\ launchLeft \in [LaunchKinds -> Nat]
    BY DEF LaunchKinds, LaunchTyped
  <2>2. launchLeft["fault"] \in Nat
    BY <2>1
  <2>3. PICK k : k = IF launchLeft["fault"] > 0 THEN launchLeft["fault"] - 1 ELSE 0
    OBVIOUS
  <2>4. k \in Nat
    BY <2>2, <2>3
  <2>5. launchLeft' = [launchLeft EXCEPT !["fault"] = k]
    BY <2>3 DEF StepFails
  <2> QED
    BY <2>1, <2>4, <2>5
<1>18. Ids' = Ids /\ \A m : Passed(m) => Passed(m)'
  BY DEF StepFails, Ids, Passed, Live
<1>19. LaunchTyped'
  BY <1>2, <1>8, <1>10, <1>16, <1>17, <1>18 DEF LaunchTyped, StepFails
<1>20. ListsInv'
  <2>1. "last" \in s.todo /\ "list" \notin s.todo =>
            \/ "last" \in r.todo /\ "list" \notin r.todo /\ s.by = r.by /\ s.newest = r.newest
            \/ s.by \in lists'.late
    <3> SUFFICES ASSUME "last" \in s.todo, "list" \notin s.todo
                 PROVE  \/ "last" \in r.todo /\ "list" \notin r.todo /\ s.by = r.by /\ s.newest = r.newest
                        \/ s.by \in lists'.late
      OBVIOUS
    <3>1. s # Idle
      BY DEF Idle
    <3>2. "last" \in r.todo /\ ("list" \in r.todo => step = "list")
      BY <1>5, <3>1
    <3>3. r.op = "view" /\ "newest" \in DOMAIN r
      BY <3>2, RequestIs
    <3>4. s.by = r.by /\ s.newest = r.newest
      BY <1>3, <3>1, <3>3 DEF Same
    <3> QED
      BY <1>13, <1>16, <3>2, <3>4
  <2> QED
    BY <1>1, <1>3, <1>16, <1>18, <2>1, ListsStay DEF StepFails
<1> QED
  BY <1>12, <1>19, <1>20

LEMMA LaunchTimeInv ==
  ASSUME LaunchInv, (\E p \in Live : WindowTurns(p)) \/ KeyExpires
  PROVE  LaunchInv'
<1> USE DEF LaunchInv
<1>1. /\ UNCHANGED <<picture, object, names, call, excused, overwritten, clicks, shows, lists>>
      /\ \E kind \in LaunchKinds : Spend(kind)
  BY DEF WindowTurns, KeyExpires, LaunchKinds
<1>2. launchLeft' \in [LaunchKinds -> Nat]
  BY <1>1, LaunchPays
<1>3. Ids' = Ids /\ Live' = Live /\ \A u, p : (Named(u)' <=> Named(u)) /\ (Belongs(u, p)' <=> Belongs(u, p))
  BY <1>1 DEF Ids, Live, Named, Belongs
<1>4. /\ onAir' \subseteq Ids /\ DOMAIN idList' = Viewer
      /\ \A v \in Viewer : idList'[v] = NoList \/ idList'[v] = idList[v]
      /\ lastId' \in {NoId, lastId}
  <2>1. CASE \E p \in Live : WindowTurns(p)
    BY <2>1 DEF WindowTurns, LaunchTyped, Live
  <2>2. CASE KeyExpires
    BY <2>2 DEF KeyExpires, LaunchTyped
  <2> QED
    BY <2>1, <2>2
<1>5. LaunchTyped'
  BY <1>1, <1>2, <1>3, <1>4 DEF LaunchTyped
<1>6. GroundInv'
  BY <1>1, <1>3 DEF GroundInv
<1>7. NamesInv'
  BY <1>1, <1>3 DEF NamesInv, NamesApart, NamesNew, OneOwner, NotYetStored, RemovesLast,
                    RemovedIsGone, StoredIsNamed, NamedIsStored
<1>8. RowsInv'
  BY <1>1, <1>3 DEF RowsInv, CopiesFollow, Counted
<1>9. OldListAhead'
  BY <1>1, <1>3 DEF ListsInv, OldListAhead, Passed
<1>10. OldListed'
  <2> SUFFICES ASSUME NEW v \in Viewer, idList'[v] # NoList, lastId' # NoId, lists.made[v] < lastId'
               PROVE  v \in lists.late \/ lists.by \ {v} # {} \/ Passed(lastId)'
    BY <1>1 DEF OldListed
  <2>1. idList[v] # NoList /\ lastId' = lastId
    BY <1>4
  <2>2. v \in lists.late \/ lists.by \ {v} # {} \/ Passed(lastId)
    BY <2>1 DEF ListsInv, OldListed
  <2> QED
    BY <1>1, <1>3, <2>1, <2>2 DEF Passed
<1> QED
  BY <1>5, <1>6, <1>7, <1>8, <1>9, <1>10 DEF ListsInv

-----------------------------------------------------------------------------
(* New names                                                               *)

LEMMA NameFresh ==
  ASSUME LaunchTyped, GroundInv, NEW n, n = names + 1
  PROVE  /\ n \in Nat /\ n \notin 0 .. names /\ n \notin object /\ n \notin excused
         /\ \A p \in Ids : picture[p].url # n
         /\ \A d \in Call : /\ HasOld(call[d]) => call[d].old # n
                            /\ HasName(call[d]) => call[d].url # n
                            /\ \A p : ~Knows(call[d], n, p)
<1>1. n \in Nat /\ n \notin 0 .. names /\ n \notin 1 .. names
  BY DEF LaunchTyped
<1>2. ASSUME NEW d \in Call
      PROVE  /\ HasOld(call[d]) => call[d].old # n
             /\ HasName(call[d]) => call[d].url # n
             /\ \A p : ~Knows(call[d], n, p)
  <2>1. Grounded(call[d], names, Ids)
    BY DEF GroundInv
  <2>2. HasName(call[d]) => call[d] # Idle
    BY DEF HasName, Idle
  <2>3. HasOld(call[d]) => call[d].old # n
    BY <1>1, <2>1 DEF Grounded
  <2>4. HasCopies(call[d]) => \A p \in DOMAIN call[d].copies : call[d].copies[p].url # n
    BY <1>1, <2>1 DEF Grounded
  <2>5. HasName(call[d]) => call[d].url # n
    BY <1>1, <2>1, <2>2 DEF Grounded
  <2>6. \A p : ~Knows(call[d], n, p)
    BY <2>3, <2>4 DEF Knows, HasOld
  <2> QED
    BY <2>3, <2>5, <2>6
<1> QED
  BY <1>1, <1>2 DEF LaunchTyped

(* A request that brings a name.                                           *)
LEMMA NamerStarts ==
  ASSUME LaunchInv, NEW c \in Call, NEW r \in LaunchRequest, Start(c, r),
         NEW kind \in LaunchKinds, Spend(kind), NEW n, n = names + 1, names' = n,
         UNCHANGED <<picture, object, onAir, idList, lastId, excused, overwritten,
                     clicks, shows, lists>>,
         HasName(r), r.url = n, Adds(r, n), Uploads(r, n), Grounded(r, n, Ids),
         HasOld(r) => Drops(r, r.old) /\ Removes(r, r.old) /\ \E p \in Ids : picture[p].url = r.old,
         \A u, p : Knows(r, u, p) => u = n \/ (p \in Ids /\ picture[p].url = u),
         \A p, q : Knows(r, n, p) /\ Knows(r, n, q) => p = q,
         HasCopies(r) => \A p \in DOMAIN r.copies : Follows(r, r.copies[p], picture[p])
  PROVE  LaunchInv'
<1> USE DEF LaunchInv
<1>1. /\ call[c] = Idle /\ call' = [call EXCEPT ![c] = r] /\ call' \in [Call -> LaunchRequest]
      /\ call'[c] = r /\ \A d \in Call \ {c} : call'[d] = call[d]
  BY StartForm DEF LaunchTyped
<1>2. launchLeft' \in [LaunchKinds -> Nat]
  BY LaunchPays
<1>3. Ids' = Ids /\ (\A u : Named(u)' <=> Named(u)) /\ \A m : Passed(m) => Passed(m)'
  BY DEF Ids, Named, Passed, Live
<1>4. n \in Nat /\ names \in Nat /\ names <= n /\ 0 .. names \subseteq 0 .. n /\ 1 .. names \subseteq 1 .. n
  BY DEF LaunchTyped
<1>5. /\ n \notin object /\ n \notin excused
      /\ \A p \in Ids : picture[p].url # n
      /\ \A d \in Call : /\ HasOld(call[d]) => call[d].old # n
                         /\ HasName(call[d]) => call[d].url # n
                         /\ \A p : ~Knows(call[d], n, p)
  BY NameFresh
<1>6. LaunchTyped'
  BY <1>1, <1>2, <1>3, <1>4 DEF LaunchTyped
<1>7. GroundInv'
  BY <1>1, <1>3, <1>4, GroundStays
<1>8. /\ \A u : (Adds(r, u) => u = n) /\ (Uploads(r, u) => u = n) /\ ~Gone(r, u)
      /\ \A u : ~Adds(Idle, u) /\ ~Uploads(Idle, u) /\ ~Removes(Idle, u) /\ ~Drops(Idle, u)
  <2>1. HasOld(r) <=> r.op = "path"
    BY DEF HasName, HasOld
  <2>2. \A u : (Adds(r, u) => u = n) /\ (Uploads(r, u) => u = n)
    BY DEF Adds, Uploads
  <2>3. \A u : ~Gone(r, u)
    BY <2>1 DEF Gone, Drops, Removes
  <2>4. ~HasName(Idle) /\ ~HasOld(Idle)
    BY DEF Idle, HasName, HasOld
  <2>5. \A u : ~Adds(Idle, u) /\ ~Uploads(Idle, u) /\ ~Removes(Idle, u) /\ ~Drops(Idle, u)
    BY <2>4 DEF Adds, Uploads, Removes, Drops
  <2> QED
    BY <2>2, <2>3, <2>5
<1>9. \A u : (Removes(r, u) => Drops(r, u)) /\ (HasOld(r) /\ r.old = u => u # n)
  BY <1>5 DEF Removes
<1>10. NamesApart'
  <2> SUFFICES ASSUME NEW b \in Call, NEW d \in Call, b # d, HasName(call'[b]), HasName(call'[d])
               PROVE  call'[b].url # call'[d].url
    BY DEF NamesApart
  <2>1. CASE b = c
    BY <1>1, <1>5, <2>1
  <2>2. CASE d = c
    BY <1>1, <1>5, <2>2
  <2>3. CASE b # c /\ d # c
    BY <1>1, <2>3 DEF NamesInv, NamesApart
  <2> QED
    BY <2>1, <2>2, <2>3
<1>11. NamesNew'
  <2> SUFFICES ASSUME NEW b \in Call, NEW u \in Nat, Adds(call'[b], u)
               PROVE  /\ \A p \in Ids : picture[p].url # u
                      /\ \A d \in Call : HasOld(call'[d]) => call'[d].old # u
                      /\ \A d \in Call \ {b} : \A p \in Nat : ~Knows(call'[d], u, p)
    BY <1>3 DEF NamesNew
  <2>1. CASE b = c
    <3>1. u = n
      BY <1>1, <1>8, <2>1
    <3>2. \A d \in Call : HasOld(call'[d]) => call'[d].old # n
      BY <1>1, <1>5, <1>9
    <3>3. \A d \in Call \ {c} : \A p \in Nat : ~Knows(call'[d], n, p)
      BY <1>1, <1>5
    <3> QED
      BY <1>5, <2>1, <3>1, <3>2, <3>3
  <2>2. CASE b # c
    <3>1. Adds(call[b], u) /\ HasName(call[b]) /\ call[b].url = u
      BY <1>1, <2>2 DEF Adds
    <3>2. u # n
      BY <1>5, <3>1
    <3>3. /\ \A p \in Ids : picture[p].url # u
          /\ \A d \in Call : HasOld(call[d]) => call[d].old # u
          /\ \A d \in Call \ {b} : \A p \in Nat : ~Knows(call[d], u, p)
      BY <3>1 DEF NamesInv, NamesNew
    <3>4. /\ HasOld(r) => r.old # u
          /\ \A p : ~Knows(r, u, p)
      BY <3>2, <3>3
    <3>5. ASSUME NEW d \in Call PROVE /\ HasOld(call'[d]) => call'[d].old # u
                                      /\ d # b => \A p \in Nat : ~Knows(call'[d], u, p)
      <4>1. CASE d = c
        BY <1>1, <3>4, <4>1
      <4>2. CASE d # c
        BY <1>1, <3>3, <4>2
      <4> QED
        BY <4>1, <4>2
    <3> QED
      BY <3>3, <3>5
  <2> QED
    BY <2>1, <2>2
<1>12. OneOwner'
  <2> SUFFICES ASSUME NEW u \in Nat, NEW p \in Nat, NEW q \in Nat, Belongs(u, p)', Belongs(u, q)'
               PROVE  p = q
    BY DEF OneOwner
  <2>1. ASSUME NEW x \in Nat, Belongs(u, x)' PROVE Belongs(u, x) \/ (u = n /\ Knows(r, n, x))
    <3>1. CASE x \in Ids /\ picture[x].url = u
      BY <3>1 DEF Belongs
    <3>2. CASE \E d \in Call : Knows(call'[d], u, x)
      <4>1. PICK d \in Call : Knows(call'[d], u, x)
        BY <3>2
      <4>2. CASE d = c
        BY <1>1, <4>1, <4>2 DEF Belongs
      <4>3. CASE d # c
        BY <1>1, <4>1, <4>3 DEF Belongs
      <4> QED
        BY <4>2, <4>3
    <3> QED
      BY <1>3, <2>1, <3>1, <3>2 DEF Belongs
  <2>2. \A x : ~Belongs(n, x)
    BY <1>5 DEF Belongs
  <2>3. CASE u = n
    BY <2>1, <2>2, <2>3
  <2>4. CASE u # n
    <3>1. Belongs(u, p) /\ Belongs(u, q)
      BY <2>1, <2>4
    <3> QED
      BY <3>1 DEF NamesInv, OneOwner
  <2> QED
    BY <2>3, <2>4
<1>13. NotYetStored'
  <2> SUFFICES ASSUME NEW b \in Call, NEW u \in Nat, Uploads(call'[b], u) PROVE u \notin object
    BY DEF NotYetStored
  <2>1. CASE b = c
    BY <1>1, <1>5, <1>8, <2>1
  <2>2. CASE b # c
    BY <1>1, <2>2 DEF NamesInv, NotYetStored
  <2> QED
    BY <2>1, <2>2
<1>14. RemovesLast'
  <2> SUFFICES ASSUME NEW b \in Call, NEW u \in Nat \ excused, Removes(call'[b], u)
               PROVE  Drops(call'[b], u) \/ ~Named(u)
    BY <1>3 DEF RemovesLast
  <2>1. CASE b = c
    BY <1>1, <1>9, <2>1
  <2>2. CASE b # c
    BY <1>1, <2>2 DEF NamesInv, RemovesLast
  <2> QED
    BY <2>1, <2>2
<1>15. RemovedIsGone'
  <2> SUFFICES ASSUME NEW b \in Call, NEW u \in Nat \ excused, Gone(call'[b], u)
               PROVE  u \notin object /\ \A d \in Call : ~Uploads(call'[d], u)
    BY DEF RemovedIsGone
  <2>1. b # c
    BY <1>1, <1>8
  <2>2. Gone(call[b], u)
    BY <1>1, <2>1
  <2>3. u # n
    BY <1>5, <2>2 DEF Gone, Drops
  <2>4. u \notin object /\ \A d \in Call : ~Uploads(call[d], u)
    BY <2>2 DEF NamesInv, RemovedIsGone
  <2>5. ASSUME NEW d \in Call PROVE ~Uploads(call'[d], u)
    <3>1. CASE d = c
      BY <1>1, <1>8, <2>3, <3>1
    <3>2. CASE d # c
      BY <1>1, <2>4, <3>2
    <3> QED
      BY <3>1, <3>2
  <2> QED
    BY <2>4, <2>5
<1>17. StoredIsNamed'
  <2> SUFFICES ASSUME NEW u \in Nat \ excused,
                      u \in object \/ (\E d \in Call : Uploads(call'[d], u))
               PROVE  Named(u) \/ \E d \in Call : Adds(call'[d], u) \/ Removes(call'[d], u)
    BY <1>3 DEF StoredIsNamed
  <2>1. CASE u = n
    BY <1>1, <2>1
  <2>2. CASE u # n
    <3>1. u \in object \/ \E d \in Call : Uploads(call[d], u)
      BY <1>1, <1>8, <2>2
    <3>2. Named(u) \/ \E d \in Call : Adds(call[d], u) \/ Removes(call[d], u)
      BY <3>1 DEF NamesInv, StoredIsNamed
    <3>3. CASE Named(u)
      BY <3>3
    <3>4. ASSUME NEW d \in Call, Adds(call[d], u) \/ Removes(call[d], u)
          PROVE  Adds(call'[d], u) \/ Removes(call'[d], u)
      <4>1. d # c
        BY <1>1, <1>8, <3>4
      <4> QED
        BY <1>1, <3>4, <4>1
    <3> QED
      BY <3>2, <3>3, <3>4
  <2> QED
    BY <2>1, <2>2
<1>18. NamedIsStored'
  <2> SUFFICES ASSUME NEW u \in Nat \ excused,
                      Named(u) \/ (\E d \in Call : Adds(call'[d], u))
               PROVE  u \in object \/ \E d \in Call : Uploads(call'[d], u) \/ Drops(call'[d], u)
    BY <1>3 DEF NamedIsStored
  <2>1. CASE u = n
    BY <1>1, <2>1
  <2>2. CASE u # n
    <3>1. Named(u) \/ \E d \in Call : Adds(call[d], u)
      BY <1>1, <1>8, <2>2
    <3>2. u \in object \/ \E d \in Call : Uploads(call[d], u) \/ Drops(call[d], u)
      BY <3>1 DEF NamesInv, NamedIsStored
    <3>3. ASSUME NEW d \in Call, Uploads(call[d], u) \/ Drops(call[d], u)
          PROVE  Uploads(call'[d], u) \/ Drops(call'[d], u)
      <4>1. d # c
        BY <1>1, <1>8, <3>3
      <4> QED
        BY <1>1, <3>3, <4>1
    <3> QED
      BY <3>2, <3>3
  <2> QED
    BY <2>1, <2>2
<1>19. NamesInv'
  BY <1>10, <1>11, <1>12, <1>13, <1>14, <1>15, <1>17, <1>18 DEF NamesInv
<1>20. RowsInv'
  BY <1>1, RowsStay
<1>21. "last" \notin r.todo
  BY RequestIs DEF HasName
<1>22. ListsInv'
  BY <1>1, <1>3, <1>21, ListsStay
<1> QED
  BY <1>6, <1>7, <1>19, <1>20, <1>22

LEMMA CreateImageInv ==
  ASSUME LaunchInv, NEW c \in Call, NEW audience \in Audiences, CreateImage(c, audience)
  PROVE  LaunchInv'
<1> USE DEF LaunchInv
<1>1. PICK n : n = names + 1
  OBVIOUS
<1>2. n \in Nat /\ n # 0 /\ n \in 0 .. n
  BY <1>1 DEF LaunchTyped
<1>3. PICK r : r = [op |-> "create", todo |-> {"insert", "upload"}, url |-> n, audience |-> audience]
  OBVIOUS
<1>4. r \in LaunchRequest
  BY <1>2, <1>3 DEF LaunchRequest
<1>5. Start(c, r) /\ Spend("create") /\ names' = n
  BY <1>1, <1>3 DEF CreateImage
<1>6. r.op = "create" /\ r.todo = {"insert", "upload"} /\ r.url = n
  BY <1>3
<1>7. HasName(r) /\ ~HasOld(r) /\ ~HasCopies(r) /\ Adds(r, n) /\ Uploads(r, n)
  BY <1>6 DEF HasName, HasOld, HasCopies, Adds, Uploads
<1>8. Grounded(r, n, Ids)
  BY <1>2, <1>6, <1>7 DEF Grounded
<1>9. \A u, p : ~Knows(r, u, p)
  BY <1>6, <1>7 DEF Knows
<1>10. "create" \in LaunchKinds
  BY DEF LaunchKinds
<1> QED
  BY <1>1, <1>4, <1>5, <1>6, <1>7, <1>8, <1>9, <1>10, NamerStarts DEF CreateImage

LEMMA UpdateImagePathInv ==
  ASSUME LaunchInv, NEW c \in Call, NEW p \in Live, UpdateImagePath(c, p)
  PROVE  LaunchInv'
<1> USE DEF LaunchInv
<1>1. PICK n : n = names + 1
  OBVIOUS
<1>2. /\ n \in Nat /\ n # 0 /\ n \in 0 .. n /\ n \in 1 .. n /\ 1 .. names \subseteq 1 .. n
      /\ n \notin 1 .. names
  BY <1>1 DEF LaunchTyped
<1>3. /\ p \in Ids /\ picture[p] \in LaunchRow /\ picture[p].url \in 1 .. names /\ p \in Nat
      /\ picture[p].live
  BY RowIs DEF Live
<1>4. PICK row : row = [picture[p] EXCEPT !.url = n]
  OBVIOUS
<1>5. /\ row \in LaunchRow /\ row.url = n /\ row.writes = picture[p].writes
      /\ row.clicks = picture[p].clicks /\ row.shows = picture[p].shows
  BY <1>2, <1>3, <1>4 DEF LaunchRow
<1>6. PICK copies : copies = [q \in {p} |-> row]
  OBVIOUS
<1>7. copies \in LaunchCopies /\ DOMAIN copies = {p} /\ copies[p] = row
  BY <1>3, <1>5, <1>6, OneCopy
<1>8. PICK r : r = [op |-> "path", todo |-> {"remove", "save"}, old |-> picture[p].url,
                    url |-> n, copies |-> copies]
  OBVIOUS
<1>9. r \in LaunchRequest
  <2>1. picture[p].url \in Nat /\ {"remove", "save"} \in SUBSET {"remove", "save"}
    BY <1>3 DEF LaunchRow
  <2> QED
    BY <1>2, <1>7, <1>8, <2>1 DEF LaunchRequest
<1>10. Start(c, r) /\ Spend("path") /\ names' = n
  BY <1>1, <1>4, <1>6, <1>8 DEF UpdateImagePath
<1>11. /\ r.op = "path" /\ r.todo = {"remove", "save"} /\ r.url = n /\ r.old = picture[p].url
       /\ r.copies = copies
  BY <1>8
<1>12. HasName(r) /\ HasOld(r) /\ HasCopies(r) /\ Adds(r, n) /\ Uploads(r, n)
  BY <1>11 DEF HasName, HasOld, HasCopies, Adds, Uploads
<1>13. Grounded(r, n, Ids)
  BY <1>2, <1>3, <1>5, <1>7, <1>11 DEF Grounded, HasName, HasOld
<1>14. Drops(r, r.old) /\ Removes(r, r.old) /\ \E q \in Ids : picture[q].url = r.old
  BY <1>3, <1>11, <1>12 DEF Drops, Removes
<1>15. \A u, q : Knows(r, u, q) => q = p /\ (u = n \/ u = picture[p].url)
  BY <1>5, <1>7, <1>11 DEF Knows
<1>16. \A q \in DOMAIN r.copies : Follows(r, r.copies[q], picture[q])
  BY <1>3, <1>5, <1>7, <1>11 DEF Follows, LaunchRow
<1>17. "path" \in LaunchKinds
  BY DEF LaunchKinds
<1>18. \A u, q : Knows(r, u, q) => u = n \/ (q \in Ids /\ picture[q].url = u)
  BY <1>3, <1>15
<1>19. \A q, x : Knows(r, n, q) /\ Knows(r, n, x) => q = x
  BY <1>15
<1> QED
  BY <1>1, <1>9, <1>10, <1>11, <1>12, <1>13, <1>14, <1>16, <1>17, <1>18, <1>19, NamerStarts
     DEF UpdateImagePath

-----------------------------------------------------------------------------
(* Steps on the storage                                                    *)

(* What is left of a request promises no more about names, and loses what  *)
(* its step has done.                                                      *)
LEMMA UploadStep ==
  ASSUME NEW r \in LaunchRequest, "upload" \in r.todo, NEW s \in LaunchRequest,
         Following(r, s, (r.todo \ {"upload"}) \cup {}), s = Idle \/ Same(r, s)
  PROVE  /\ HasName(r) /\ Uploads(r, r.url)
         /\ HasName(s) => s.url = r.url
         /\ \A u : /\ Adds(s, u) <=> Adds(r, u)
                   /\ ~Uploads(s, u)
                   /\ ~Removes(s, u) /\ ~Removes(r, u)
                   /\ Drops(s, u) <=> Drops(r, u)
                   /\ Gone(s, u) => Gone(r, u)
<1>1. r.op \in {"create", "path"} /\ "remove" \notin r.todo
  BY RequestIs
<1>2. PICK left : left = r.todo \ {"upload"}
  OBVIOUS
<1>3. (left = {} /\ s = Idle) \/ (left # {} /\ s.todo = left /\ s.op = r.op /\ s.url = r.url /\ (r.op = "path" => s.old = r.old))
  <2>1. r # Idle
    BY DEF Idle
  <2>2. Following(r, s, left)
    BY <1>2
  <2> QED
    BY <2>2 DEF Following, Same
<1>4. HasName(r) /\ Uploads(r, r.url)
  BY <1>1 DEF HasName, Uploads
<1>5. CASE left = {} /\ s = Idle
  <2>1. ~HasName(s) /\ ~HasOld(s) /\ s.op = "none"
    BY <1>5 DEF Idle, HasName, HasOld
  <2>2. r.todo = {"upload"}
    BY <1>2, <1>5
  <2> QED
    BY <1>1, <1>4, <2>1, <2>2 DEF Adds, Uploads, Removes, Drops, Gone
<1>6. CASE left # {} /\ s.todo = left /\ s.op = r.op /\ s.url = r.url /\ (r.op = "path" => s.old = r.old)
  <2>1. /\ HasName(s) /\ (HasOld(s) <=> HasOld(r)) /\ (HasOld(r) => s.old = r.old)
        /\ \A step : step \in s.todo <=> step \in r.todo /\ step # "upload"
    BY <1>1, <1>2, <1>6 DEF HasName, HasOld
  <2>2. \A u : ~Uploads(s, u) /\ ~Removes(s, u) /\ ~Removes(r, u)
    BY <1>1, <2>1 DEF Uploads, Removes
  <2>3. \A u : Adds(s, u) <=> Adds(r, u)
    BY <1>4, <1>6, <2>1 DEF Adds
  <2>4. \A u : Drops(s, u) <=> Drops(r, u)
    BY <2>1 DEF Drops
  <2> QED
    BY <1>4, <1>6, <2>2, <2>3, <2>4 DEF Gone
<1> QED
  BY <1>3, <1>5, <1>6

LEMMA UploadImgInv ==
  ASSUME LaunchInv, NEW c \in Call, UploadImg(c)
  PROVE  LaunchInv'
<1> USE DEF LaunchInv
<1>1. PICK r \in LaunchRequest : r = call[c]
  BY DEF LaunchTyped
<1>2. /\ "upload" \in r.todo /\ r # Idle /\ call' \in [Call -> LaunchRequest]
      /\ \E s \in LaunchRequest : /\ call' = [call EXCEPT ![c] = s]
                                  /\ s = Idle \/ Same(r, s)
                                  /\ Following(r, s, (r.todo \ {"upload"}) \cup {})
  BY <1>1, GoesForm DEF UploadImg, LaunchTyped
<1>3. PICK s \in LaunchRequest : /\ call' = [call EXCEPT ![c] = s]
                                 /\ s = Idle \/ Same(r, s)
                                 /\ Following(r, s, (r.todo \ {"upload"}) \cup {})
  BY <1>2
<1>4. PICK n : n = r.url
  OBVIOUS
<1>5. /\ HasName(r) /\ Uploads(r, n)
      /\ \A u \in Nat : /\ Adds(s, u) <=> Adds(r, u)
                        /\ ~Uploads(s, u) /\ ~Removes(s, u) /\ ~Removes(r, u)
                        /\ Drops(s, u) <=> Drops(r, u)
                        /\ Gone(s, u) => Gone(r, u)
  BY <1>2, <1>3, <1>4, UploadStep
<1>6. s # Idle => s.todo \subseteq r.todo \cup {"upload", "remove"}
  BY <1>3 DEF Following
<1>7. UNCHANGED <<picture, names, onAir, idList, lastId, launchLeft, excused, overwritten,
                  clicks, shows, lists>>
  BY DEF UploadImg
<1>8. /\ GroundInv' /\ RowsInv'
      /\ HasName(s) => HasName(r) /\ s.url = r.url
      /\ HasOld(s) => HasOld(r) /\ s.old = r.old
      /\ \A u, p : Knows(s, u, p) => Knows(r, u, p)
  BY <1>1, <1>2, <1>3, <1>6, <1>7, StepRows
<1>9. object' = object \cup {n}
  BY <1>1, <1>4 DEF UploadImg
<1>10. n \in 1 .. names /\ n \in Nat
  <2>1. Grounded(r, names, Ids) /\ names \in Nat
    BY <1>1 DEF GroundInv, LaunchTyped
  <2> QED
    BY <1>2, <1>4, <1>5, <2>1 DEF Grounded
<1>11. Ids' = Ids /\ (\A u : Named(u)' <=> Named(u)) /\ \A m : Passed(m) => Passed(m)'
  BY <1>7 DEF Ids, Named, Passed, Live
<1>12. LaunchTyped'
  BY <1>2, <1>7, <1>9, <1>10, <1>11 DEF LaunchTyped
<1>13. call'[c] = s /\ \A d \in Call \ {c} : call'[d] = call[d]
  BY <1>3 DEF LaunchTyped
<1>14. NamesApart' /\ NamesNew' /\ OneOwner'
  BY <1>1, <1>3, <1>5, <1>7, <1>8, <1>11, OwnersStay DEF NamesInv
<1>15. NotYetStored'
  <2> SUFFICES ASSUME NEW d \in Call, NEW u \in Nat, Uploads(call'[d], u) PROVE u \notin object'
    BY DEF NotYetStored
  <2>1. d # c
    BY <1>5, <1>13
  <2>2. Uploads(call[d], u)
    BY <1>13, <2>1
  <2>3. HasName(call[d]) /\ call[d].url = u
    BY <2>2 DEF Uploads
  <2>4. u # n
    BY <1>1, <1>4, <1>5, <2>1, <2>3 DEF NamesInv, NamesApart
  <2> QED
    BY <1>9, <2>2, <2>4 DEF NamesInv, NotYetStored
<1>16. RemovesLast'
  <2> SUFFICES ASSUME NEW d \in Call, NEW u \in Nat \ excused, Removes(call'[d], u)
               PROVE  Drops(call'[d], u) \/ ~Named(u)
    BY <1>7, <1>11 DEF RemovesLast
  <2>1. d # c
    BY <1>5, <1>13
  <2> QED
    BY <1>13, <2>1 DEF NamesInv, RemovesLast
<1>17. RemovedIsGone'
  <2> SUFFICES ASSUME NEW b \in Call, NEW u \in Nat \ excused, Gone(call'[b], u)
               PROVE  u \notin object' /\ \A d \in Call : ~Uploads(call'[d], u)
    BY <1>7 DEF RemovedIsGone
  <2>1. Gone(call[b], u)
    BY <1>1, <1>5, <1>13
  <2>2. u \notin object /\ \A d \in Call : ~Uploads(call[d], u)
    BY <2>1 DEF NamesInv, RemovedIsGone
  <2>3. u # n
    BY <1>1, <1>5, <2>2
  <2>4. \A d \in Call : ~Uploads(call'[d], u)
    BY <1>5, <1>13, <2>2
  <2> QED
    BY <1>9, <2>2, <2>3, <2>4
<1>18. StoredIsNamed'
  <2> SUFFICES ASSUME NEW u \in Nat \ excused,
                      u \in object' \/ (\E d \in Call : Uploads(call'[d], u))
               PROVE  Named(u) \/ \E d \in Call : Adds(call'[d], u) \/ Removes(call'[d], u)
    BY <1>7, <1>11 DEF StoredIsNamed
  <2>1. u \in object \/ \E d \in Call : Uploads(call[d], u)
    <3>1. CASE u \in object'
      BY <1>1, <1>5, <1>9, <3>1
    <3>2. CASE \E d \in Call : Uploads(call'[d], u)
      BY <1>5, <1>13, <3>2
    <3> QED
      BY <3>1, <3>2
  <2>2. Named(u) \/ \E d \in Call : Adds(call[d], u) \/ Removes(call[d], u)
    BY <2>1 DEF NamesInv, StoredIsNamed
  <2>3. ASSUME NEW d \in Call, Adds(call[d], u) \/ Removes(call[d], u)
        PROVE  Adds(call'[d], u) \/ Removes(call'[d], u)
    <3>1. CASE d = c
      BY <1>1, <1>5, <1>13, <2>3, <3>1
    <3>2. CASE d # c
      BY <1>13, <2>3, <3>2
    <3> QED
      BY <3>1, <3>2
  <2> QED
    BY <2>2, <2>3
<1>19. NamedIsStored'
  <2> SUFFICES ASSUME NEW u \in Nat \ excused,
                      Named(u) \/ (\E d \in Call : Adds(call'[d], u))
               PROVE  u \in object' \/ \E d \in Call : Uploads(call'[d], u) \/ Drops(call'[d], u)
    BY <1>7, <1>11 DEF NamedIsStored
  <2>1. Named(u) \/ \E d \in Call : Adds(call[d], u)
    <3>1. CASE Named(u)
      BY <3>1
    <3>2. ASSUME NEW d \in Call, Adds(call'[d], u) PROVE Adds(call[d], u)
      <4>1. CASE d = c
        BY <1>1, <1>5, <1>13, <3>2, <4>1
      <4>2. CASE d # c
        BY <1>13, <3>2, <4>2
      <4> QED
        BY <4>1, <4>2
    <3> QED
      BY <3>1, <3>2
  <2>2. u \in object \/ \E d \in Call : Uploads(call[d], u) \/ Drops(call[d], u)
    BY <2>1 DEF NamesInv, NamedIsStored
  <2>3. ASSUME NEW d \in Call, Uploads(call[d], u) \/ Drops(call[d], u)
        PROVE  u \in object' \/ Uploads(call'[d], u) \/ Drops(call'[d], u)
    <3>1. CASE d = c /\ Drops(call[d], u)
      BY <1>1, <1>5, <1>13, <3>1
    <3>2. CASE d = c /\ Uploads(call[d], u)
      <4>1. u = n
        BY <1>1, <1>4, <3>2 DEF Uploads
      <4> QED
        BY <1>9, <4>1
    <3>3. CASE d # c
      BY <1>13, <2>3, <3>3
    <3> QED
      BY <2>3, <3>1, <3>2, <3>3
  <2> QED
    BY <1>9, <2>2, <2>3
<1>20. NamesInv'
  BY <1>14, <1>15, <1>16, <1>17, <1>18, <1>19 DEF NamesInv
<1>21. ListsInv'
  <2>1. s # Idle => s.op # "view"
    BY <1>3, <1>5 DEF Same, HasName
  <2>2. "last" \notin s.todo
    BY <2>1, RequestIs DEF Idle
  <2> QED
    BY <1>3, <1>7, <1>11, <2>2, ListsStay
<1> QED
  BY <1>8, <1>12, <1>20, <1>21

LEMMA RemoveStep ==
  ASSUME NEW r \in LaunchRequest, "remove" \in r.todo, NEW s \in LaunchRequest,
         Following(r, s, (r.todo \ {"remove"}) \cup (IF r.op = "path" THEN {"upload"} ELSE {}))
  PROVE  /\ HasOld(r) /\ (s # Idle => s.todo \subseteq r.todo \cup {"upload", "remove"})
         /\ \A u \in Nat : /\ Adds(s, u) <=> Adds(r, u)
                           /\ Uploads(s, u) <=> Uploads(r, u)
                           /\ Removes(r, u) <=> u = r.old
                           /\ ~Removes(s, u)
                           /\ Drops(s, u) <=> Drops(r, u)
                           /\ Gone(s, u) => u = r.old
<1>1. r.op \in {"delete", "path"} /\ HasOld(r)
  BY RequestIs DEF HasOld
<1>2. \A u : Removes(r, u) <=> u = r.old
  BY <1>1 DEF Removes
<1>3. CASE r.op = "delete"
  <2>1. r.todo = {"remove"} /\ s = Idle
    <3>1. r.todo = {"remove"}
      BY <1>3, RequestIs
    <3> QED
      BY <1>3, <3>1 DEF Following
  <2>2. ~HasName(s) /\ ~HasOld(s) /\ s.op = "none" /\ ~HasName(r)
    BY <1>3, <2>1 DEF Idle, HasName, HasOld
  <2>3. \A u : ~Drops(r, u)
    BY <2>1 DEF Drops
  <2> QED
    BY <1>1, <1>2, <2>1, <2>2, <2>3 DEF Adds, Uploads, Removes, Drops, Gone
<1>4. CASE r.op = "path"
  <2>1. PICK left : left = (r.todo \ {"remove"}) \cup {"upload"}
    OBVIOUS
  <2>2. s.todo = left /\ s.op = "path" /\ s.url = r.url /\ s.old = r.old
    BY <1>4, <2>1 DEF Following, Same
  <2>3. HasName(s) /\ HasName(r) /\ HasOld(s) /\ "upload" \notin r.todo
    BY <1>4, <2>2, RequestIs DEF HasName, HasOld
  <2>4. \A step : step \in s.todo <=> (step \in r.todo /\ step # "remove") \/ step = "upload"
    BY <2>1, <2>2
  <2>5. \A u : Adds(s, u) <=> Adds(r, u)
    BY <1>4, <2>2, <2>3, <2>4 DEF Adds
  <2>6. \A u : Uploads(s, u) <=> Uploads(r, u)
    BY <2>2, <2>3, <2>4 DEF Uploads
  <2>7. \A u : Drops(s, u) <=> Drops(r, u)
    BY <1>1, <2>2, <2>3, <2>4 DEF Drops
  <2>8. \A u : ~Removes(s, u) /\ (Gone(s, u) => u = r.old)
    BY <2>2, <2>4 DEF Removes, Gone, Drops
  <2> QED
    BY <1>1, <1>2, <2>4, <2>5, <2>6, <2>7, <2>8
<1> QED
  BY <1>1, <1>3, <1>4

(* The other promises are those before.                                    *)
Steady(r, s) == \A u \in Nat : /\ Adds(s, u) <=> Adds(r, u)
                               /\ Uploads(s, u) <=> Uploads(r, u)
                               /\ Drops(s, u) <=> Drops(r, u)

LEMMA DeleteImgInv ==
  ASSUME LaunchInv, NEW c \in Call, DeleteImg(c)
  PROVE  LaunchInv'
<1> USE DEF LaunchInv
<1>1. PICK r \in LaunchRequest : r = call[c]
  BY DEF LaunchTyped
<1>2. PICK more : more = IF r.op = "path" THEN {"upload"} ELSE {}
  OBVIOUS
<1>3. /\ "remove" \in r.todo /\ r # Idle /\ call' \in [Call -> LaunchRequest]
      /\ \E s \in LaunchRequest : /\ call' = [call EXCEPT ![c] = s]
                                  /\ s = Idle \/ Same(r, s)
                                  /\ Following(r, s, (r.todo \ {"remove"}) \cup more)
  <2>1. Goes(c, "remove", Then(c, more))
    BY <1>1, <1>2 DEF DeleteImg
  <2>2. more = {} \/ (r.op = "path" /\ more = {"upload"})
    BY <1>2
  <2> QED
    BY <1>1, <2>1, <2>2, GoesForm DEF LaunchTyped
<1>4. PICK s \in LaunchRequest : /\ call' = [call EXCEPT ![c] = s]
                                 /\ s = Idle \/ Same(r, s)
                                 /\ Following(r, s, (r.todo \ {"remove"}) \cup more)
  BY <1>3
<1>5. PICK n : n = r.old
  OBVIOUS
<1>6. /\ HasOld(r) /\ (s # Idle => s.todo \subseteq r.todo \cup {"upload", "remove"})
      /\ \A u \in Nat : /\ Adds(s, u) <=> Adds(r, u)
                        /\ Uploads(s, u) <=> Uploads(r, u)
                        /\ Removes(r, u) <=> u = n
                        /\ ~Removes(s, u)
                        /\ Drops(s, u) <=> Drops(r, u)
                        /\ Gone(s, u) => u = n
  BY <1>2, <1>3, <1>4, <1>5, RemoveStep
<1>7. UNCHANGED <<picture, names, onAir, idList, lastId, launchLeft, overwritten,
                  clicks, shows, lists>>
  BY DEF DeleteImg
<1>8. /\ GroundInv' /\ RowsInv'
      /\ HasName(s) => HasName(r) /\ s.url = r.url
      /\ HasOld(s) => HasOld(r) /\ s.old = r.old
      /\ \A u, p : Knows(s, u, p) => Knows(r, u, p)
  BY <1>1, <1>3, <1>4, <1>6, <1>7, StepRows
<1>9. object' = object \ {n} /\ excused' = IF n \in object THEN excused ELSE excused \cup {n}
  BY <1>1, <1>5 DEF DeleteImg
<1>10. n \in 1 .. names /\ n \in Nat /\ n \in 0 .. names
  <2>1. Grounded(r, names, Ids) /\ names \in Nat
    BY <1>1 DEF GroundInv, LaunchTyped
  <2> QED
    BY <1>5, <1>6, <2>1 DEF Grounded
<1>11. Ids' = Ids /\ (\A u : Named(u)' <=> Named(u)) /\ \A m : Passed(m) => Passed(m)'
  BY <1>7 DEF Ids, Named, Passed, Live
<1>12. LaunchTyped'
  BY <1>3, <1>7, <1>9, <1>10, <1>11 DEF LaunchTyped
<1>13. call'[c] = s /\ \A d \in Call \ {c} : call'[d] = call[d]
  BY <1>4 DEF LaunchTyped
<1>14. NamesApart' /\ NamesNew' /\ OneOwner'
  BY <1>1, <1>4, <1>6, <1>7, <1>8, <1>11, OwnersStay DEF NamesInv
<1>15. excused \subseteq excused' /\ (n \notin excused' => n \in object)
  BY <1>9
<1>16. \A d \in Call : Steady(call[d], call'[d])
  BY <1>1, <1>6, <1>13 DEF Steady
<1>17. NotYetStored'
  BY <1>9, <1>16 DEF NamesInv, NotYetStored, Steady
<1>18. RemovesLast'
  <2> SUFFICES ASSUME NEW d \in Call, NEW u \in Nat \ excused', Removes(call'[d], u)
               PROVE  Drops(call'[d], u) \/ ~Named(u)
    BY <1>11 DEF RemovesLast
  <2>1. d # c
    BY <1>6, <1>13
  <2> QED
    BY <1>13, <1>15, <2>1 DEF NamesInv, RemovesLast
<1>19. n \notin excused' => \A d \in Call : ~Uploads(call[d], n)
  BY <1>10, <1>15 DEF NamesInv, NotYetStored
<1>20. RemovedIsGone'
  <2> SUFFICES ASSUME NEW b \in Call, NEW u \in Nat \ excused', Gone(call'[b], u)
               PROVE  u \notin object' /\ \A d \in Call : ~Uploads(call'[d], u)
    BY DEF RemovedIsGone
  <2>1. CASE b = c
    <3>1. u = n
      BY <1>6, <1>13, <2>1
    <3> QED
      BY <1>9, <1>10, <1>16, <1>19, <3>1 DEF Steady
  <2>2. CASE b # c
    <3>1. Gone(call[b], u)
      BY <1>13, <2>2
    <3>2. u \notin object /\ \A d \in Call : ~Uploads(call[d], u)
      BY <1>15, <3>1 DEF NamesInv, RemovedIsGone
    <3> QED
      BY <1>9, <1>16, <3>2 DEF Steady
  <2> QED
    BY <2>1, <2>2
<1>21. StoredIsNamed'
  <2> SUFFICES ASSUME NEW u \in Nat \ excused',
                      u \in object' \/ (\E d \in Call : Uploads(call'[d], u))
               PROVE  Named(u) \/ \E d \in Call : Adds(call'[d], u) \/ Removes(call'[d], u)
    BY <1>11 DEF StoredIsNamed
  <2>1. u # n
    BY <1>9, <1>10, <1>16, <1>19 DEF Steady
  <2>2. u \in object \/ \E d \in Call : Uploads(call[d], u)
    <3>1. CASE u \in object'
      BY <1>9, <3>1
    <3>2. CASE \E d \in Call : Uploads(call'[d], u)
      BY <1>16, <3>2 DEF Steady
    <3> QED
      BY <3>1, <3>2
  <2>3. Named(u) \/ \E d \in Call : Adds(call[d], u) \/ Removes(call[d], u)
    BY <1>15, <2>2 DEF NamesInv, StoredIsNamed
  <2>4. ASSUME NEW d \in Call, Adds(call[d], u) \/ Removes(call[d], u)
        PROVE  Adds(call'[d], u) \/ Removes(call'[d], u)
    <3>1. CASE d = c
      BY <1>1, <1>6, <1>13, <2>1, <2>4, <3>1
    <3>2. CASE d # c
      BY <1>13, <2>4, <3>2
    <3> QED
      BY <3>1, <3>2
  <2> QED
    BY <2>3, <2>4
<1>22. NamedIsStored'
  <2> SUFFICES ASSUME NEW u \in Nat \ excused',
                      Named(u) \/ (\E d \in Call : Adds(call'[d], u))
               PROVE  u \in object' \/ \E d \in Call : Uploads(call'[d], u) \/ Drops(call'[d], u)
    BY <1>11 DEF NamedIsStored
  <2>1. Named(u) \/ \E d \in Call : Adds(call[d], u)
    BY <1>16 DEF Steady
  <2>2. CASE u = n
    <3>1. \A d \in Call : ~Adds(call[d], u)
      BY <1>1, <1>5, <1>6, <1>10, <2>2 DEF NamesInv, NamesNew
    <3>2. Drops(call[c], u)
      <4>1. Removes(call[c], u)
        BY <1>1, <1>6, <2>2
      <4> QED
        BY <1>15, <2>1, <3>1, <4>1 DEF NamesInv, RemovesLast
    <3> QED
      BY <1>16, <3>2 DEF Steady
  <2>3. CASE u # n
    <3>1. u \in object \/ \E d \in Call : Uploads(call[d], u) \/ Drops(call[d], u)
      BY <1>15, <2>1 DEF NamesInv, NamedIsStored
    <3> QED
      BY <1>9, <1>16, <2>3, <3>1 DEF Steady
  <2> QED
    BY <2>2, <2>3
<1>23. NamesInv'
  BY <1>14, <1>17, <1>18, <1>20, <1>21, <1>22 DEF NamesInv
<1>24. ListsInv'
  <2>1. s # Idle => s.op # "view"
    BY <1>4, <1>6 DEF Same, HasOld
  <2>2. "last" \notin s.todo
    BY <2>1, RequestIs DEF Idle
  <2> QED
    BY <1>4, <1>7, <1>11, <2>2, ListsStay
<1> QED
  BY <1>8, <1>12, <1>23, <1>24

-----------------------------------------------------------------------------
(* Steps on the rows                                                       *)

LEMMA DropStep ==
  ASSUME NEW r \in LaunchRequest, "delete" \in r.todo, NEW s \in LaunchRequest,
         Following(r, s, (r.todo \ {"delete"}) \cup {"remove"})
  PROVE  /\ r.op = "delete" /\ ~HasName(r) /\ ~HasCopies(r) /\ HasOld(r)
         /\ s # Idle /\ s.todo = {"remove"}
         /\ \A u \in Nat : /\ ~Adds(r, u) /\ ~Adds(s, u) /\ ~Uploads(r, u) /\ ~Uploads(s, u)
                           /\ ~Removes(r, u) /\ (Removes(s, u) => u = r.old)
                           /\ Removes(s, r.old)
                           /\ Drops(r, u) => u = r.old
                           /\ ~Gone(s, u)
<1>1. r.op = "delete"
  BY RequestIs
<1>2. r.todo = {"delete"}
  BY <1>1, RequestIs
<1>3. s.todo = {"remove"} /\ s.op = "delete" /\ s.old = r.old /\ s # Idle
  BY <1>1, <1>2 DEF Following, Same, Idle
<1>4. ~HasName(r) /\ ~HasName(s) /\ ~HasCopies(r) /\ HasOld(r) /\ HasOld(s)
  BY <1>1, <1>3 DEF HasName, HasCopies, HasOld
<1> QED
  BY <1>1, <1>2, <1>3, <1>4 DEF Adds, Uploads, Removes, Drops, Gone

LEMMA DeleteRowInv ==
  ASSUME LaunchInv, NEW c \in Call, DeleteRow(c)
  PROVE  LaunchInv'
<1> USE DEF LaunchInv
<1>1. PICK r \in LaunchRequest : r = call[c]
  BY DEF LaunchTyped
<1>2. "delete" \in r.todo
  BY <1>1 DEF DeleteRow, Goes
<1>3. r.op = "delete"
  BY <1>2, RequestIs
<1>4. /\ r # Idle /\ call' \in [Call -> LaunchRequest]
      /\ \E s \in LaunchRequest : /\ call' = [call EXCEPT ![c] = s]
                                  /\ s = Idle \/ Same(r, s)
                                  /\ Following(r, s, (r.todo \ {"delete"}) \cup {"remove"})
  BY <1>1, <1>3, GoesForm DEF DeleteRow, LaunchTyped
<1>5. PICK s \in LaunchRequest : /\ call' = [call EXCEPT ![c] = s]
                                 /\ s = Idle \/ Same(r, s)
                                 /\ Following(r, s, (r.todo \ {"delete"}) \cup {"remove"})
  BY <1>4
<1>6. PICK n : n = r.old
  OBVIOUS
<1>7. /\ ~HasName(r) /\ ~HasCopies(r) /\ HasOld(r)
      /\ s # Idle /\ s.todo = {"remove"}
      /\ \A u \in Nat : /\ ~Adds(r, u) /\ ~Adds(s, u) /\ ~Uploads(r, u) /\ ~Uploads(s, u)
                        /\ ~Removes(r, u) /\ (Removes(s, u) => u = n)
                        /\ Removes(s, n)
                        /\ Drops(r, u) => u = n
                        /\ ~Gone(s, u)
  BY <1>2, <1>5, <1>6, DropStep
<1>8. PICK p : p = r.pic
  OBVIOUS
<1>9. Grounded(r, names, Ids) /\ names \in Nat
  BY <1>1 DEF GroundInv, LaunchTyped
<1>10. p \in Ids /\ n \in 1 .. names /\ n \in Nat
  BY <1>3, <1>6, <1>7, <1>8, <1>9 DEF Grounded
<1>11. picture[p] \in LaunchRow /\ picture[p].url \in 1 .. names /\ p \in Nat /\ p \in 1 .. Len(picture)
  BY <1>10, RowIs
<1>12. UNCHANGED <<object, names, onAir, idList, lastId, launchLeft, overwritten,
                   clicks, shows, lists>>
  BY DEF DeleteRow
<1>13. PICK row : row = [picture[p] EXCEPT !.live = FALSE, !.writes = @ + 1]
  OBVIOUS
<1>14. /\ row \in LaunchRow /\ row.url = picture[p].url /\ ~row.live
       /\ row.clicks = picture[p].clicks /\ row.shows = picture[p].shows
       /\ row.writes = picture[p].writes + 1
  <2>1. PICK old \in LaunchRow : old = picture[p]
    BY <1>11
  <2>2. row = [old EXCEPT !.live = FALSE, !.writes = old.writes + 1]
    BY <1>13, <2>1
  <2>3. old.writes + 1 \in Nat
    BY <2>1 DEF LaunchRow
  <2> QED
    BY <2>1, <2>2, <2>3 DEF LaunchRow
<1>15. picture' = IF p \in Live THEN [picture EXCEPT ![p] = row] ELSE picture
  <2>1. CASE p \in Live
    <3>1. picture' = [picture EXCEPT ![p].live = FALSE, ![p].writes = @ + 1]
      BY <1>1, <1>8, <2>1 DEF DeleteRow
    <3>2. [picture EXCEPT ![p].live = FALSE, ![p].writes = @ + 1] = [picture EXCEPT ![p] = row]
      BY <1>11, <1>13 DEF LaunchTyped, LaunchRow
    <3> QED
      BY <2>1, <3>1, <3>2
  <2>2. CASE p \notin Live
    BY <1>1, <1>8, <2>2 DEF DeleteRow
  <2> QED
    BY <2>1, <2>2
<1>16. /\ picture' \in Seq(LaunchRow) /\ Len(picture') = Len(picture) /\ Ids' = Ids
       /\ \A q \in Ids : q # p => picture'[q] = picture[q]
       /\ picture'[p] = IF p \in Live THEN row ELSE picture[p]
  BY <1>11, <1>14, <1>15 DEF LaunchTyped, Ids
<1>17. ~picture'[p].live
  BY <1>10, <1>14, <1>16 DEF Live
<1>18. \A q \in Ids : /\ picture'[q].url = picture[q].url
                      /\ picture'[q].clicks = picture[q].clicks
                      /\ picture'[q].shows = picture[q].shows
                      /\ picture'[q].live => picture[q].live
  BY <1>14, <1>16, <1>17
<1>19. excused' = IF picture[p].url = n THEN excused ELSE excused \cup {picture[p].url}
  BY <1>1, <1>6, <1>8 DEF DeleteRow
<1>20. excused \subseteq excused' /\ excused' \subseteq 0 .. names
  <2>1. excused \subseteq 0 .. names /\ picture[p].url \in 0 .. names
    BY <1>9, <1>11 DEF LaunchTyped
  <2> QED
    BY <1>19, <2>1
<1>21. LaunchTyped'
  BY <1>4, <1>12, <1>16, <1>18, <1>20 DEF LaunchTyped
<1>22. call'[c] = s /\ \A d \in Call \ {c} : call'[d] = call[d]
  BY <1>5 DEF LaunchTyped
<1>23. /\ Grounded(s, names, Ids)
       /\ HasName(s) => HasName(r) /\ s.url = r.url
       /\ HasOld(s) => HasOld(r) /\ s.old = r.old
       /\ HasCopies(s) => HasCopies(r) /\ s.copies = r.copies
       /\ \A u, q : Knows(s, u, q) => Knows(r, u, q)
  BY <1>5, <1>9, GonerSays
<1>24. GroundInv'
  <2>1. names' \in Nat /\ names <= names' /\ Ids \subseteq Ids' /\ Grounded(s, names', Ids')
    BY <1>9, <1>12, <1>16, <1>23
  <2> QED
    BY <1>5, <2>1, GroundStays
<1>25. NamesApart' /\ NamesNew' /\ OneOwner'
  BY <1>1, <1>5, <1>7, <1>16, <1>18, <1>23, OwnersStay DEF NamesInv
<1>26. \A u : Named(u)' => Named(u)
  BY <1>16, <1>18 DEF Named
<1>27. ASSUME NEW u \in Nat \ excused', Named(u), u # n PROVE Named(u)'
  <2>1. PICK q \in Ids : picture[q].live /\ picture[q].url = u
    BY <1>27 DEF Named
  <2>2. q # p
    BY <1>19, <1>27, <2>1
  <2> QED
    BY <1>16, <2>1, <2>2 DEF Named
<1>28. ~Named(n)'
  <2> SUFFICES ASSUME NEW q \in Ids, picture'[q].live, picture'[q].url = n PROVE FALSE
    BY <1>16 DEF Named
  <2>1. Belongs(n, q)
    BY <1>18 DEF Belongs
  <2>2. Belongs(n, p)
    BY <1>1, <1>3, <1>6, <1>8 DEF Belongs, Knows
  <2>3. q \in Nat /\ p \in Nat /\ n \in Nat
    BY <1>10, <1>11, RowIs
  <2>4. OneOwner
    BY DEF NamesInv
  <2>5. q = p
    BY <2>1, <2>2, <2>3, <2>4 DEF OneOwner
  <2> QED
    BY <1>17, <2>5
<1>29. NotYetStored'
  BY <1>7, <1>12, <1>22 DEF NamesInv, NotYetStored
<1>30. RemovesLast'
  <2> SUFFICES ASSUME NEW d \in Call, NEW u \in Nat \ excused', Removes(call'[d], u)
               PROVE  Drops(call'[d], u) \/ ~Named(u)'
    BY DEF RemovesLast
  <2>1. CASE d = c
    BY <1>7, <1>22, <1>28, <2>1
  <2>2. CASE d # c
    BY <1>20, <1>22, <1>26, <2>2 DEF NamesInv, RemovesLast
  <2> QED
    BY <2>1, <2>2
<1>31. RemovedIsGone'
  <2> SUFFICES ASSUME NEW b \in Call, NEW u \in Nat \ excused', Gone(call'[b], u)
               PROVE  u \notin object /\ \A d \in Call : ~Uploads(call'[d], u)
    BY <1>12 DEF RemovedIsGone
  <2>1. b # c
    BY <1>7, <1>22
  <2>2. u \notin object /\ \A d \in Call : ~Uploads(call[d], u)
    BY <1>20, <1>22, <2>1 DEF NamesInv, RemovedIsGone
  <2> QED
    BY <1>7, <1>22, <2>2
<1>32. StoredIsNamed'
  <2> SUFFICES ASSUME NEW u \in Nat \ excused',
                      u \in object \/ (\E d \in Call : Uploads(call'[d], u))
               PROVE  Named(u)' \/ \E d \in Call : Adds(call'[d], u) \/ Removes(call'[d], u)
    BY <1>12 DEF StoredIsNamed
  <2>1. u \in object \/ \E d \in Call : Uploads(call[d], u)
    BY <1>7, <1>22
  <2>2. Named(u) \/ \E d \in Call : Adds(call[d], u) \/ Removes(call[d], u)
    BY <1>20, <2>1 DEF NamesInv, StoredIsNamed
  <2>3. CASE u = n
    BY <1>7, <1>22, <2>3
  <2>4. CASE u # n /\ Named(u)
    BY <1>27, <2>4
  <2>5. ASSUME NEW d \in Call, Adds(call[d], u) \/ Removes(call[d], u)
        PROVE  Adds(call'[d], u) \/ Removes(call'[d], u)
    <3>1. d # c
      BY <1>1, <1>7, <2>5
    <3> QED
      BY <1>22, <2>5, <3>1
  <2> QED
    BY <2>2, <2>3, <2>4, <2>5
<1>33. NamedIsStored'
  <2> SUFFICES ASSUME NEW u \in Nat \ excused',
                      Named(u)' \/ (\E d \in Call : Adds(call'[d], u))
               PROVE  u \in object \/ \E d \in Call : Uploads(call'[d], u) \/ Drops(call'[d], u)
    BY <1>12 DEF NamedIsStored
  <2>1. Named(u) \/ \E d \in Call : Adds(call[d], u)
    BY <1>7, <1>22, <1>26
  <2>2. u # n
    <3>1. \A d \in Call : ~Adds(call[d], n)
      BY <1>1, <1>6, <1>7, <1>10 DEF NamesInv, NamesNew
    <3> QED
      BY <1>7, <1>22, <1>28, <3>1
  <2>3. u \in object \/ \E d \in Call : Uploads(call[d], u) \/ Drops(call[d], u)
    BY <1>20, <2>1 DEF NamesInv, NamedIsStored
  <2>4. ASSUME NEW d \in Call, Uploads(call[d], u) \/ Drops(call[d], u)
        PROVE  Uploads(call'[d], u) \/ Drops(call'[d], u)
    <3>1. d # c
      BY <1>1, <1>7, <2>2, <2>4
    <3> QED
      BY <1>22, <2>4, <3>1
  <2> QED
    BY <2>3, <2>4
<1>34. NamesInv'
  BY <1>25, <1>29, <1>30, <1>31, <1>32, <1>33 DEF NamesInv
<1>35. CopiesFollow'
  <2> SUFFICES ASSUME NEW d \in Call, HasCopies(call'[d]), "save" \in call'[d].todo,
                      NEW q \in DOMAIN call'[d].copies
               PROVE  Follows(call'[d], call'[d].copies[q], picture'[q])
    BY DEF CopiesFollow
  <2>1. d # c
    BY <1>7, <1>22
  <2>2. PICK t \in LaunchRequest : t = call[d] /\ t = call'[d]
    BY <1>22, <2>1 DEF LaunchTyped
  <2>3. Follows(t, t.copies[q], picture[q])
    BY <2>2 DEF RowsInv, CopiesFollow
  <2>4. q \in Ids /\ t.copies[q] \in LaunchRow
    <3>1. Grounded(t, names, Ids)
      BY <2>2 DEF GroundInv
    <3> QED
      BY <2>2, <3>1, CopiesAre, RequestIs DEF Grounded
  <2>5. CASE picture'[q] = picture[q]
    BY <2>2, <2>3, <2>5
  <2>6. CASE q = p /\ picture'[q] = row
    <3>1. t.copies[q].writes \in Nat /\ picture[p].writes \in Nat
      BY <1>11, <2>4 DEF LaunchRow
    <3>2. t.copies[q].writes <= picture[p].writes
      BY <2>3, <2>6 DEF Follows
    <3>3. t.copies[q].writes < row.writes
      BY <1>14, <3>1, <3>2
    <3>4. t.copies[q].writes <= row.writes /\ t.copies[q].writes # row.writes
      BY <1>14, <3>1, <3>3
    <3> QED
      BY <2>2, <2>6, <3>4 DEF Follows
  <2> QED
    BY <1>16, <2>4, <2>5, <2>6
<1>36. Counted'
  BY <1>12, <1>16, <1>18 DEF RowsInv, Counted
<1>37. \A m \in Ids : Passed(m) => Passed(m)'
  BY <1>12, <1>16, <1>18 DEF Passed, Live
<1>38. ListsInv'
  BY <1>5, <1>7, <1>12, <1>16, <1>37, ListsStay
<1> QED
  BY <1>21, <1>24, <1>34, <1>35, <1>36, <1>38 DEF RowsInv

LEMMA InsertStep ==
  ASSUME NEW r \in LaunchRequest, "insert" \in r.todo, NEW s \in LaunchRequest,
         Following(r, s, (r.todo \ {"insert"}) \cup {})
  PROVE  /\ r.op = "create" /\ HasName(r) /\ Adds(r, r.url) /\ r.audience \in Audiences
         /\ s # Idle => s.todo \subseteq r.todo
         /\ HasName(s) => s.url = r.url
         /\ ~HasOld(s) /\ ~HasCopies(s) /\ "last" \notin s.todo
         /\ \A u, p : ~Knows(r, u, p) /\ ~Knows(s, u, p)
         /\ \A u \in Nat : /\ Adds(r, u) => u = r.url
                           /\ ~Adds(s, u)
                           /\ Uploads(s, u) <=> Uploads(r, u)
                           /\ ~Removes(r, u) /\ ~Removes(s, u) /\ ~Gone(s, u)
                           /\ ~Drops(r, u) /\ ~Drops(s, u)
<1>1. r.op = "create" /\ r.todo \subseteq {"insert", "upload"} /\ r.audience \in Audiences
  BY RequestIs
<1>2. HasName(r) /\ ~HasOld(r) /\ ~HasCopies(r)
  BY <1>1 DEF HasName, HasOld, HasCopies
<1>3. PICK left : left = r.todo \ {"insert"}
  OBVIOUS
<1>4. Following(r, s, left)
  BY <1>3
<1>5. CASE left = {}
  <2>1. s = Idle /\ ~HasName(s) /\ ~HasOld(s) /\ ~HasCopies(s) /\ s.op = "none" /\ s.todo = {}
    BY <1>4, <1>5 DEF Following, Idle, HasName, HasOld, HasCopies
  <2>2. "upload" \notin r.todo /\ "remove" \notin r.todo
    BY <1>1, <1>3, <1>5
  <2> QED
    BY <1>1, <1>2, <2>1, <2>2 DEF Adds, Uploads, Removes, Drops, Gone, Knows
<1>6. CASE left # {}
  <2>1. s.todo = left /\ s.op = "create" /\ s.url = r.url
    BY <1>1, <1>4, <1>6 DEF Following, Same
  <2>2. HasName(s) /\ ~HasOld(s) /\ ~HasCopies(s)
    BY <2>1 DEF HasName, HasOld, HasCopies
  <2>3. \A step : step \in s.todo <=> step \in r.todo /\ step # "insert"
    BY <1>3, <2>1
  <2>4. "last" \notin s.todo /\ s.todo \subseteq r.todo
    BY <1>1, <2>3
  <2> QED
    BY <1>1, <1>2, <2>1, <2>2, <2>3, <2>4 DEF Adds, Uploads, Removes, Drops, Gone, Knows
<1> QED
  BY <1>5, <1>6

LEMMA InsertInv ==
  ASSUME LaunchInv, NEW c \in Call, Insert(c)
  PROVE  LaunchInv'
<1> USE DEF LaunchInv
<1>1. PICK r \in LaunchRequest : r = call[c]
  BY DEF LaunchTyped
<1>2. /\ "insert" \in r.todo /\ r # Idle /\ call' \in [Call -> LaunchRequest]
      /\ \E s \in LaunchRequest : /\ call' = [call EXCEPT ![c] = s]
                                  /\ s = Idle \/ Same(r, s)
                                  /\ Following(r, s, (r.todo \ {"insert"}) \cup {})
  BY <1>1, GoesForm DEF Insert, LaunchTyped
<1>3. PICK s \in LaunchRequest : /\ call' = [call EXCEPT ![c] = s]
                                 /\ s = Idle \/ Same(r, s)
                                 /\ Following(r, s, (r.todo \ {"insert"}) \cup {})
  BY <1>2
<1>4. PICK n : n = r.url
  OBVIOUS
<1>5. /\ r.op = "create" /\ HasName(r) /\ Adds(r, n) /\ r.audience \in Audiences
      /\ s # Idle => s.todo \subseteq r.todo
      /\ HasName(s) => s.url = n
      /\ ~HasOld(s) /\ ~HasCopies(s) /\ "last" \notin s.todo
      /\ \A u, p : ~Knows(r, u, p) /\ ~Knows(s, u, p)
      /\ \A u \in Nat : /\ Adds(r, u) => u = n
                        /\ ~Adds(s, u)
                        /\ Uploads(s, u) <=> Uploads(r, u)
                        /\ ~Removes(r, u) /\ ~Removes(s, u) /\ ~Gone(s, u)
                        /\ ~Drops(r, u) /\ ~Drops(s, u)
  BY <1>2, <1>3, <1>4, InsertStep
<1>6. UNCHANGED <<object, names, idList, lastId, launchLeft, excused, overwritten, lists>>
  BY DEF Insert
<1>7. Grounded(r, names, Ids) /\ names \in Nat
  BY <1>1 DEF GroundInv, LaunchTyped
<1>8. n \in 1 .. names /\ n \in Nat
  BY <1>2, <1>4, <1>5, <1>7 DEF Grounded
<1>9. PICK row : row = [live |-> TRUE, url |-> n, clicks |-> 0, shows |-> 0,
                        audience |-> r.audience, writes |-> 0]
  OBVIOUS
<1>10. row \in LaunchRow /\ row.url = n /\ row.live /\ row.clicks = 0 /\ row.shows = 0
  BY <1>5, <1>8, <1>9 DEF LaunchRow
<1>11. PICK m : m = Len(picture) + 1
  OBVIOUS
<1>12. picture' = Append(picture, row) /\ onAir' = onAir \cup {m}
  BY <1>1, <1>4, <1>9, <1>11 DEF Insert
<1>13. clicks' = Append(clicks, 0) /\ shows' = Append(shows, 0)
  BY DEF Insert
<1>14. /\ picture' \in Seq(LaunchRow) /\ Len(picture') = m /\ m \in Nat
       /\ Ids = 1 .. Len(picture) /\ Ids' = 1 .. m /\ m \notin Ids /\ Ids' = Ids \cup {m}
       /\ picture'[m] = row /\ \A p \in Ids : picture'[p] = picture[p]
  BY <1>10, <1>11, <1>12 DEF LaunchTyped, Ids
<1>15. /\ clicks' \in Seq(Nat) /\ Len(clicks') = m /\ clicks'[m] = 0
       /\ shows' \in Seq(Nat) /\ Len(shows') = m /\ shows'[m] = 0
       /\ \A p \in Ids : clicks'[p] = clicks[p] /\ shows'[p] = shows[p]
  BY <1>11, <1>13, <1>14 DEF LaunchTyped
<1>16. LaunchTyped'
  <2>1. \A p \in Ids' : picture'[p].url \in 1 .. names
    BY <1>8, <1>10, <1>14 DEF LaunchTyped
  <2>2. onAir' \subseteq Ids' /\ lastId \in {NoId} \cup Ids' /\ overwritten \subseteq Ids'
    BY <1>12, <1>14 DEF LaunchTyped
  <2>3. \A v \in Viewer : idList[v] = NoList \/ idList[v] \subseteq Ids'
    BY <1>14 DEF LaunchTyped
  <2> QED
    BY <1>2, <1>6, <1>14, <1>15, <2>1, <2>2, <2>3 DEF LaunchTyped
<1>17. call'[c] = s /\ \A d \in Call \ {c} : call'[d] = call[d]
  BY <1>3 DEF LaunchTyped
<1>18. /\ HasName(s) => HasName(r) /\ s.url = r.url
       /\ Grounded(s, names, Ids)
  BY <1>3, <1>7, GonerSays
<1>19. GroundInv'
  <2>1. names' \in Nat /\ names <= names' /\ Ids \subseteq Ids' /\ Grounded(s, names', Ids')
    BY <1>6, <1>7, <1>14, <1>18, GroundedMore
  <2> QED
    BY <1>3, <2>1, GroundStays
<1>20. /\ \A p \in Ids : picture[p].url # n
       /\ \A d \in Call : HasOld(call[d]) => call[d].old # n
       /\ \A d \in Call \ {c} : \A p \in Nat : ~Knows(call[d], n, p)
  BY <1>1, <1>5, <1>8 DEF NamesInv, NamesNew
<1>21. NamesApart'
  <2>1. \A d \in Call : HasName(call'[d]) => HasName(call[d]) /\ call'[d].url = call[d].url
    BY <1>1, <1>17, <1>18
  <2> QED
    BY <2>1 DEF NamesInv, NamesApart
<1>22. NamesNew'
  <2> SUFFICES ASSUME NEW b \in Call, NEW u \in Nat, Adds(call'[b], u)
               PROVE  /\ \A p \in Ids' : picture'[p].url # u
                      /\ \A d \in Call : HasOld(call'[d]) => call'[d].old # u
                      /\ \A d \in Call \ {b} : \A p \in Nat : ~Knows(call'[d], u, p)
    BY DEF NamesNew
  <2>1. b # c /\ Adds(call[b], u)
    BY <1>5, <1>17
  <2>2. /\ \A p \in Ids : picture[p].url # u
        /\ \A d \in Call : HasOld(call[d]) => call[d].old # u
        /\ \A d \in Call \ {b} : \A p \in Nat : ~Knows(call[d], u, p)
    BY <2>1 DEF NamesInv, NamesNew
  <2>3. u # n
    <3>1. HasName(call[b]) /\ call[b].url = u
      BY <2>1 DEF Adds
    <3> QED
      BY <1>1, <1>4, <1>5, <2>1, <3>1 DEF NamesInv, NamesApart
  <2>4. \A p \in Ids' : picture'[p].url # u
    BY <1>10, <1>14, <2>2, <2>3
  <2>5. \A d \in Call : HasOld(call'[d]) => call'[d].old # u
    BY <1>5, <1>17, <2>2
  <2>6. ASSUME NEW d \in Call \ {b}, NEW p \in Nat PROVE ~Knows(call'[d], u, p)
    <3>1. CASE d = c
      BY <1>5, <1>17, <3>1
    <3>2. CASE d # c
      BY <1>17, <2>2, <3>2
    <3> QED
      BY <3>1, <3>2
  <2> QED
    BY <2>4, <2>5, <2>6
<1>23. OneOwner'
  <2> SUFFICES ASSUME NEW u \in Nat, NEW p \in Nat, NEW q \in Nat, Belongs(u, p)', Belongs(u, q)'
               PROVE  p = q
    BY DEF OneOwner
  <2>1. ASSUME NEW x \in Nat, Belongs(u, x)' PROVE Belongs(u, x) \/ (u = n /\ x = m)
    <3>1. CASE x \in Ids' /\ picture'[x].url = u
      <4>1. CASE x = m
        BY <1>10, <1>14, <3>1, <4>1
      <4>2. CASE x # m
        BY <1>14, <3>1, <4>2 DEF Belongs
      <4> QED
        BY <4>1, <4>2
    <3>2. CASE \E d \in Call : Knows(call'[d], u, x)
      <4>1. PICK d \in Call : Knows(call'[d], u, x)
        BY <3>2
      <4>2. d # c
        BY <1>5, <1>17, <4>1
      <4> QED
        BY <1>17, <4>1, <4>2 DEF Belongs
    <3> QED
      BY <2>1, <3>1, <3>2 DEF Belongs
  <2>2. \A x \in Nat : ~Belongs(n, x)
    <3> SUFFICES ASSUME NEW x \in Nat, Belongs(n, x) PROVE FALSE
      OBVIOUS
    <3>1. PICK d \in Call : Knows(call[d], n, x)
      BY <1>20 DEF Belongs
    <3>2. d # c
      BY <1>1, <1>5, <3>1
    <3> QED
      BY <1>20, <3>1, <3>2
  <2>3. CASE u = n
    BY <2>1, <2>2, <2>3
  <2>4. CASE u # n
    <3>1. Belongs(u, p) /\ Belongs(u, q)
      BY <2>1, <2>4
    <3> QED
      BY <3>1 DEF NamesInv, OneOwner
  <2> QED
    BY <2>3, <2>4
<1>24. \A u : Named(u)' <=> Named(u) \/ u = n
  <2> TAKE u
  <2>1. ASSUME Named(u)' PROVE Named(u) \/ u = n
    <3>1. PICK p \in Ids' : picture'[p].live /\ picture'[p].url = u
      BY <2>1 DEF Named
    <3> QED
      BY <1>10, <1>14, <3>1 DEF Named
  <2>2. ASSUME Named(u) PROVE Named(u)'
    BY <1>14, <2>2 DEF Named
  <2>3. ASSUME u = n PROVE Named(u)'
    BY <1>10, <1>14, <2>3 DEF Named
  <2> QED
    BY <2>1, <2>2, <2>3
<1>26. NotYetStored'
  <2> SUFFICES ASSUME NEW d \in Call, NEW u \in Nat, Uploads(call'[d], u) PROVE u \notin object
    BY <1>6 DEF NotYetStored
  <2>1. Uploads(call[d], u)
    BY <1>1, <1>5, <1>17
  <2> QED
    BY <2>1 DEF NamesInv, NotYetStored
<1>27. RemovesLast'
  <2> SUFFICES ASSUME NEW d \in Call, NEW u \in Nat \ excused, Removes(call'[d], u)
               PROVE  Drops(call'[d], u) \/ ~Named(u)'
    BY <1>6 DEF RemovesLast
  <2>1. d # c
    BY <1>5, <1>17
  <2>2. Removes(call[d], u)
    BY <1>17, <2>1
  <2>3. u # n
    BY <1>20, <2>2 DEF Removes
  <2>4. Drops(call[d], u) \/ ~Named(u)
    BY <2>2 DEF NamesInv, RemovesLast
  <2> QED
    BY <1>17, <1>24, <2>1, <2>3, <2>4
<1>28. RemovedIsGone'
  <2> SUFFICES ASSUME NEW b \in Call, NEW u \in Nat \ excused, Gone(call'[b], u)
               PROVE  u \notin object /\ \A d \in Call : ~Uploads(call'[d], u)
    BY <1>6 DEF RemovedIsGone
  <2>1. b # c
    BY <1>5, <1>17
  <2>2. u \notin object /\ \A d \in Call : ~Uploads(call[d], u)
    BY <1>17, <2>1 DEF NamesInv, RemovedIsGone
  <2> QED
    BY <1>1, <1>5, <1>17, <2>2
<1>29. StoredIsNamed'
  <2> SUFFICES ASSUME NEW u \in Nat \ excused,
                      u \in object \/ (\E d \in Call : Uploads(call'[d], u))
               PROVE  Named(u)' \/ \E d \in Call : Adds(call'[d], u) \/ Removes(call'[d], u)
    BY <1>6 DEF StoredIsNamed
  <2>1. u \in object \/ \E d \in Call : Uploads(call[d], u)
    BY <1>1, <1>5, <1>17
  <2>2. Named(u) \/ \E d \in Call : Adds(call[d], u) \/ Removes(call[d], u)
    BY <2>1 DEF NamesInv, StoredIsNamed
  <2>3. ASSUME NEW d \in Call, Adds(call[d], u) \/ Removes(call[d], u)
        PROVE  u = n \/ Adds(call'[d], u) \/ Removes(call'[d], u)
    <3>1. CASE d = c
      BY <1>1, <1>5, <2>3, <3>1
    <3>2. CASE d # c
      BY <1>17, <2>3, <3>2
    <3> QED
      BY <3>1, <3>2
  <2> QED
    BY <1>24, <2>2, <2>3
<1>30. NamedIsStored'
  <2> SUFFICES ASSUME NEW u \in Nat \ excused,
                      Named(u)' \/ (\E d \in Call : Adds(call'[d], u))
               PROVE  u \in object \/ \E d \in Call : Uploads(call'[d], u) \/ Drops(call'[d], u)
    BY <1>6 DEF NamedIsStored
  <2>1. Named(u) \/ \E d \in Call : Adds(call[d], u)
    <3>1. CASE u = n
      BY <1>1, <1>5, <3>1
    <3>2. CASE Named(u)
      BY <3>2
    <3>3. CASE \E d \in Call : Adds(call'[d], u)
      <4>1. PICK d \in Call : Adds(call'[d], u)
        BY <3>3
      <4>2. d # c
        BY <1>5, <1>17, <4>1
      <4> QED
        BY <1>17, <4>1, <4>2
    <3> QED
      BY <1>24, <3>1, <3>2, <3>3
  <2>2. u \in object \/ \E d \in Call : Uploads(call[d], u) \/ Drops(call[d], u)
    BY <2>1 DEF NamesInv, NamedIsStored
  <2>3. ASSUME NEW d \in Call, Uploads(call[d], u) \/ Drops(call[d], u)
        PROVE  Uploads(call'[d], u) \/ Drops(call'[d], u)
    <3>1. CASE d = c
      BY <1>1, <1>5, <1>17, <2>3, <3>1
    <3>2. CASE d # c
      BY <1>17, <2>3, <3>2
    <3> QED
      BY <3>1, <3>2
  <2> QED
    BY <2>2, <2>3
<1>31. NamesInv'
  BY <1>21, <1>22, <1>23, <1>26, <1>27, <1>28, <1>29, <1>30 DEF NamesInv
<1>32. CopiesFollow'
  <2> SUFFICES ASSUME NEW d \in Call, HasCopies(call'[d]), "save" \in call'[d].todo,
                      NEW q \in DOMAIN call'[d].copies
               PROVE  Follows(call'[d], call'[d].copies[q], picture'[q])
    BY DEF CopiesFollow
  <2>1. d # c
    BY <1>5, <1>17
  <2>2. PICK t \in LaunchRequest : t = call[d] /\ t = call'[d]
    BY <1>17, <2>1 DEF LaunchTyped
  <2>3. Follows(t, t.copies[q], picture[q])
    BY <2>2 DEF RowsInv, CopiesFollow
  <2>4. q \in Ids
    <3>1. Grounded(t, names, Ids)
      BY <2>2 DEF GroundInv
    <3> QED
      BY <2>2, <3>1 DEF Grounded
  <2>5. picture'[q] = picture[q]
    BY <1>14, <2>4
  <2> QED
    BY <2>2, <2>3, <2>5
<1>33. Counted'
  BY <1>6, <1>10, <1>14, <1>15 DEF RowsInv, Counted
<1>34. \A x \in Ids : Passed(x) => Passed(x)'
  BY <1>6, <1>14 DEF Passed, Live
<1>35. ListsInv'
  BY <1>3, <1>5, <1>6, <1>14, <1>34, ListsStay
<1> QED
  BY <1>16, <1>19, <1>31, <1>32, <1>33, <1>35 DEF RowsInv

LEMMA SaveStep ==
  ASSUME NEW r \in LaunchRequest, "save" \in r.todo, NEW s \in LaunchRequest,
         Following(r, s, (r.todo \ {"save"}) \cup {})
  PROVE  /\ HasCopies(r) /\ (HasOld(r) <=> r.op = "path") /\ (HasName(r) <=> r.op = "path")
         /\ "save" \notin s.todo
         /\ "last" \in s.todo /\ "list" \notin s.todo =>
                /\ "last" \in r.todo /\ "list" \notin r.todo
                /\ s.by = r.by /\ s.newest = r.newest
         /\ \A u \in Nat : /\ ~Adds(s, u)
                           /\ Adds(r, u) <=> r.op = "path" /\ u = r.url
                           /\ Uploads(s, u) <=> Uploads(r, u)
                           /\ Removes(s, u) <=> Removes(r, u)
                           /\ ~Drops(s, u)
                           /\ Drops(r, u) <=> r.op = "path" /\ u = r.old
                           /\ ~Gone(s, u)
         /\ r.op = "path" => Removes(r, r.old) \/ Gone(r, r.old)
<1>1. r.op \in {"path", "property", "click", "view"}
  BY RequestIs
<1>2. /\ HasCopies(r) /\ (HasOld(r) <=> r.op = "path") /\ (HasName(r) <=> r.op = "path")
      /\ r # Idle
  BY <1>1 DEF HasCopies, HasOld, HasName, Idle
<1>3. PICK left : left = r.todo \ {"save"}
  OBVIOUS
<1>4. Following(r, s, left)
  BY <1>3
<1>5. "save" \notin s.todo
  BY <1>3, <1>4 DEF Following, Idle
<1>6. "last" \in s.todo /\ "list" \notin s.todo =>
                /\ "last" \in r.todo /\ "list" \notin r.todo
                /\ s.by = r.by /\ s.newest = r.newest
  <2> SUFFICES ASSUME "last" \in s.todo, "list" \notin s.todo
               PROVE  /\ "last" \in r.todo /\ "list" \notin r.todo
                      /\ s.by = r.by /\ s.newest = r.newest
    OBVIOUS
  <2>1. left # {}
    BY <1>4 DEF Following, Idle
  <2>2. s.todo = left /\ Same(r, s)
    BY <1>4, <2>1 DEF Following
  <2>3. "last" \in r.todo /\ "list" \notin r.todo
    BY <1>3, <2>2
  <2>4. r.op = "view" /\ "newest" \in DOMAIN r
    BY <2>3, RequestIs
  <2> QED
    BY <2>2, <2>3, <2>4 DEF Same
<1>7. /\ s.op = "path" => r.op = "path" /\ s.url = r.url /\ s.old = r.old
      /\ s.op \in {"path", "none", r.op}
      /\ s.op = r.op => s.todo = left
  BY <1>1, <1>4 DEF Following, Same, Idle
<1>8. ASSUME r.op # "path"
      PROVE  \A u \in Nat : /\ ~Adds(s, u) /\ ~Adds(r, u) /\ ~Uploads(s, u) /\ ~Uploads(r, u)
                            /\ ~Removes(s, u) /\ ~Removes(r, u) /\ ~Drops(s, u) /\ ~Drops(r, u)
                            /\ ~Gone(s, u)
  <2>1. ~HasName(r) /\ ~HasOld(r) /\ ~HasName(s) /\ ~HasOld(s) /\ s.op # "path"
    BY <1>1, <1>2, <1>7, <1>8 DEF HasName, HasOld
  <2> QED
    BY <2>1 DEF Adds, Uploads, Removes, Drops, Gone
<1>9. ASSUME r.op = "path"
      PROVE  /\ \A u \in Nat : /\ ~Adds(s, u)
                               /\ Adds(r, u) <=> u = r.url
                               /\ Uploads(s, u) <=> Uploads(r, u)
                               /\ Removes(s, u) <=> Removes(r, u)
                               /\ ~Drops(s, u)
                               /\ Drops(r, u) <=> u = r.old
                               /\ ~Gone(s, u)
             /\ Removes(r, r.old) \/ Gone(r, r.old)
  <2>1. HasName(r) /\ HasOld(r)
    BY <1>9 DEF HasName, HasOld
  <2>2. /\ \A u \in Nat : (Adds(r, u) <=> u = r.url) /\ (Drops(r, u) <=> u = r.old)
        /\ Removes(r, r.old) \/ Gone(r, r.old)
    BY <1>9, <2>1 DEF Adds, Drops, Removes, Gone
  <2>3. CASE left = {}
    <3>1. s = Idle /\ ~HasName(s) /\ ~HasOld(s) /\ s.op = "none"
      BY <1>4, <2>3 DEF Following, Idle, HasName, HasOld
    <3>2. "upload" \notin r.todo /\ "remove" \notin r.todo
      BY <1>3, <2>3
    <3>3. \A u \in Nat : ~Uploads(r, u) /\ ~Removes(r, u)
      BY <3>2 DEF Uploads, Removes
    <3>4. \A u \in Nat : ~Adds(s, u) /\ ~Uploads(s, u) /\ ~Removes(s, u) /\ ~Drops(s, u) /\ ~Gone(s, u)
      BY <3>1 DEF Adds, Uploads, Removes, Drops, Gone
    <3> QED
      BY <2>2, <3>3, <3>4
  <2>4. CASE left # {}
    <3>1. s.todo = left /\ s.op = "path" /\ s.url = r.url /\ s.old = r.old
      BY <1>4, <1>9, <2>4 DEF Following, Same
    <3>2. HasName(s) /\ HasOld(s)
      BY <3>1 DEF HasName, HasOld
    <3>3. \A step : step \in s.todo <=> step \in r.todo /\ step # "save"
      BY <1>3, <3>1
    <3>4. "delete" \notin r.todo
      BY <1>9, RequestIs
    <3>5. \A u \in Nat : ~Adds(s, u) /\ ~Drops(s, u)
      BY <3>1, <3>3, <3>4 DEF Adds, Drops
    <3>6. \A u \in Nat : ~Gone(s, u)
      BY <3>5 DEF Gone
    <3>7. \A u \in Nat : Uploads(s, u) <=> Uploads(r, u)
      BY <2>1, <3>1, <3>2, <3>3 DEF Uploads
    <3>8. \A u \in Nat : Removes(s, u) <=> Removes(r, u)
      BY <2>1, <3>1, <3>2, <3>3 DEF Removes
    <3> QED
      BY <2>2, <3>5, <3>6, <3>7, <3>8
  <2> QED
    BY <2>3, <2>4
<1> QED
  BY <1>2, <1>5, <1>6, <1>8, <1>9

(* The rows after a save, one by one.                                      *)
LEMMA SavedAre ==
  ASSUME LaunchTyped, NEW copies \in LaunchCopies, DOMAIN copies \subseteq Ids,
         NEW table, table = Saved(copies),
         \A p \in DOMAIN copies : copies[p].url \in 1 .. names
  PROVE  /\ table \in Seq(LaunchRow) /\ Len(table) = Len(picture)
         /\ \A p \in Ids : table[p].url \in 1 .. names
         /\ \A p \in Ids \ DOMAIN copies : table[p] = picture[p]
         /\ \A p \in DOMAIN copies : /\ table[p].live /\ table[p].url = copies[p].url
                                     /\ table[p].clicks = copies[p].clicks
                                     /\ table[p].shows = copies[p].shows
                                     /\ table[p].writes = picture[p].writes + 1
<1>1. PICK k \in Nat : k = Len(picture)
  BY DEF LaunchTyped
<1>2. Ids = 1 .. k
  BY <1>1 DEF Ids, LaunchTyped
<1>3. table = [p \in 1 .. k |-> IF p \in DOMAIN copies
                               THEN [copies[p] EXCEPT !.live = TRUE, !.writes = picture[p].writes + 1]
                               ELSE picture[p]]
  BY <1>2 DEF Saved
<1>4. ASSUME NEW p \in DOMAIN copies
      PROVE  /\ table[p] \in LaunchRow /\ table[p].live /\ table[p].url = copies[p].url
             /\ table[p].clicks = copies[p].clicks
             /\ table[p].shows = copies[p].shows
             /\ table[p].writes = picture[p].writes + 1
  <2>1. PICK row \in LaunchRow : row = copies[p]
    BY CopiesAre
  <2>2. PICK w \in Nat : w = picture[p].writes + 1
    <3>1. picture[p].writes \in Nat
      BY RowIs DEF LaunchRow
    <3> QED
      BY <3>1
  <2>3. p \in 1 .. k
    BY <1>2
  <2>4. table[p] = [row EXCEPT !.live = TRUE, !.writes = w]
    BY <1>3, <2>1, <2>2, <2>3
  <2>5. [row EXCEPT !.live = TRUE, !.writes = w] \in LaunchRow
    BY DEF LaunchRow
  <2> QED
    BY <2>1, <2>2, <2>4, <2>5 DEF LaunchRow
<1>5. ASSUME NEW p \in 1 .. k, p \notin DOMAIN copies PROVE table[p] = picture[p] /\ table[p] \in LaunchRow
  BY <1>2, <1>3, <1>5, RowIs
<1>6. \A p \in 1 .. k : table[p] \in LaunchRow
  BY <1>4, <1>5
<1>7. table \in [1 .. k -> LaunchRow]
  BY <1>3, <1>6
<1>8. table \in Seq(LaunchRow) /\ Len(table) = k
  BY <1>7
<1>9. \A p \in Ids : table[p].url \in 1 .. names
  BY <1>2, <1>4, <1>5, RowIs
<1> QED
  BY <1>1, <1>2, <1>4, <1>5, <1>8, <1>9

LEMMA SaveRowsInv ==
  ASSUME LaunchInv, NEW c \in Call, SaveRows(c)
  PROVE  LaunchInv'
<1> USE DEF LaunchInv
<1>1. PICK r \in LaunchRequest : r = call[c]
  BY DEF LaunchTyped
<1>2. /\ "save" \in r.todo /\ r # Idle /\ call' \in [Call -> LaunchRequest]
      /\ \E s \in LaunchRequest : /\ call' = [call EXCEPT ![c] = s]
                                  /\ s = Idle \/ Same(r, s)
                                  /\ Following(r, s, (r.todo \ {"save"}) \cup {})
  BY <1>1, GoesForm DEF SaveRows, LaunchTyped
<1>3. PICK s \in LaunchRequest : /\ call' = [call EXCEPT ![c] = s]
                                 /\ s = Idle \/ Same(r, s)
                                 /\ Following(r, s, (r.todo \ {"save"}) \cup {})
  BY <1>2
<1>4. PICK n : n = r.old
  OBVIOUS
<1>5. PICK new : new = r.url
  OBVIOUS
<1>6. /\ HasCopies(r) /\ (HasOld(r) <=> r.op = "path") /\ (HasName(r) <=> r.op = "path")
      /\ "save" \notin s.todo
      /\ "last" \in s.todo /\ "list" \notin s.todo =>
             /\ "last" \in r.todo /\ "list" \notin r.todo
             /\ s.by = r.by /\ s.newest = r.newest
      /\ \A u \in Nat : /\ ~Adds(s, u)
                        /\ Adds(r, u) <=> r.op = "path" /\ u = new
                        /\ Uploads(s, u) <=> Uploads(r, u)
                        /\ Removes(s, u) <=> Removes(r, u)
                        /\ ~Drops(s, u)
                        /\ Drops(r, u) <=> r.op = "path" /\ u = n
                        /\ ~Gone(s, u)
      /\ r.op = "path" => Removes(r, n) \/ Gone(r, n)
  BY <1>2, <1>3, <1>4, <1>5, SaveStep
<1>7. Grounded(r, names, Ids) /\ names \in Nat
  BY <1>1 DEF GroundInv, LaunchTyped
<1>8. PICK copies \in LaunchCopies : copies = r.copies
  BY <1>6, RequestIs
<1>9. PICK D : D = DOMAIN copies
  OBVIOUS
<1>10. /\ D \subseteq Ids /\ \A p \in D : copies[p].url \in 1 .. names
       /\ \A p \in D : copies[p] \in LaunchRow
       /\ r.op = "path" => /\ D # {} /\ (\A p \in D : copies[p].url = new)
                           /\ n \in 1 .. names /\ n \in Nat /\ new \in Nat
  <2>1. r.op = "path" => new \in Nat
    BY <1>5, RequestIs
  <2> QED
    BY <1>4, <1>5, <1>6, <1>7, <1>8, <1>9, <2>1, CopiesAre DEF Grounded
<1>11. UNCHANGED <<object, names, onAir, idList, lastId, launchLeft, lists>>
  BY DEF SaveRows
<1>12. PICK old : old = Older(copies)
  OBVIOUS
<1>13. old = {p \in D : copies[p].writes # picture[p].writes}
  BY <1>9, <1>12 DEF Older
<1>14. /\ picture' = Saved(copies) /\ overwritten' = overwritten \cup old
       /\ excused' = excused \cup UNION {{picture[p].url, copies[p].url} : p \in old}
  BY <1>1, <1>8, <1>12 DEF SaveRows, Save
<1>15. /\ picture' \in Seq(LaunchRow) /\ Len(picture') = Len(picture) /\ Ids' = Ids
       /\ \A p \in Ids : picture'[p].url \in 1 .. names
       /\ \A p \in Ids \ D : picture'[p] = picture[p]
       /\ \A p \in D : /\ picture'[p].live /\ picture'[p].url = copies[p].url
                       /\ picture'[p].clicks = copies[p].clicks
                       /\ picture'[p].shows = copies[p].shows
                       /\ picture'[p].writes = picture[p].writes + 1
  BY <1>9, <1>10, <1>14, SavedAre DEF Ids
<1>16. /\ excused \subseteq excused' /\ overwritten \subseteq overwritten'
       /\ \A p \in old : /\ picture[p].url \in excused' /\ copies[p].url \in excused'
                         /\ p \in overwritten'
  BY <1>14
<1>17. excused' \subseteq 0 .. names /\ overwritten' \subseteq Ids
  <2>1. \A p \in old : picture[p].url \in 0 .. names /\ copies[p].url \in 0 .. names /\ p \in Ids
    <3>1. 1 .. names \subseteq 0 .. names
      BY <1>7
    <3> QED
      BY <1>10, <1>13, <3>1, RowIs
  <2>2. ASSUME NEW u \in excused' PROVE u \in 0 .. names
    <3>1. CASE u \in excused
      BY <3>1 DEF LaunchTyped
    <3>2. CASE u \notin excused
      <4>1. PICK p \in old : u = picture[p].url \/ u = copies[p].url
        BY <1>14, <2>2, <3>2
      <4> QED
        BY <2>1, <4>1
    <3> QED
      BY <3>1, <3>2
  <2>3. old \subseteq Ids /\ overwritten \subseteq Ids
    BY <2>1 DEF LaunchTyped
  <2> QED
    BY <1>14, <2>2, <2>3
(* A copy that is not older is its row, but for what the request changes.  *)
<1>18. ASSUME NEW p \in D, p \notin old
       PROVE  /\ picture[p].live
              /\ picture[p].url = IF r.op = "path" THEN n ELSE copies[p].url
              /\ copies[p].clicks = picture[p].clicks + (IF r.op = "click" THEN 1 ELSE 0)
              /\ copies[p].shows = picture[p].shows + (IF r.op = "view" THEN 1 ELSE 0)
  <2>1. Follows(r, copies[p], picture[p])
    BY <1>1, <1>2, <1>6, <1>8, <1>9 DEF RowsInv, CopiesFollow
  <2>2. copies[p].writes = picture[p].writes
    BY <1>13, <1>18
  <2> QED
    BY <1>4, <2>1, <2>2 DEF Follows
<1>19. /\ \A p \in Ids : clicks'[p] = clicks[p] + IF r.op = "click" /\ p \in D THEN 1 ELSE 0
       /\ \A p \in Ids : shows'[p] = shows[p] + IF r.op = "view" /\ p \in D THEN 1 ELSE 0
       /\ clicks' \in Seq(Nat) /\ Len(clicks') = Len(picture)
       /\ shows' \in Seq(Nat) /\ Len(shows') = Len(picture)
  <2>1. PICK k \in Nat : k = Len(picture)
    BY DEF LaunchTyped
  <2>2. Ids = 1 .. k
    BY <2>1 DEF Ids, LaunchTyped
  <2>3. /\ clicks' = [p \in 1 .. k |-> clicks[p] + IF r.op = "click" /\ p \in D THEN 1 ELSE 0]
        /\ shows' = [p \in 1 .. k |-> shows[p] + IF r.op = "view" /\ p \in D THEN 1 ELSE 0]
    BY <1>1, <1>8, <1>9, <2>2 DEF SaveRows
  <2>4. \A p \in 1 .. k : clicks[p] \in Nat /\ shows[p] \in Nat
    BY <2>1 DEF LaunchTyped
  <2>5. clicks' \in [1 .. k -> Nat] /\ shows' \in [1 .. k -> Nat]
    BY <2>3, <2>4
  <2>6. clicks' \in Seq(Nat) /\ Len(clicks') = k /\ shows' \in Seq(Nat) /\ Len(shows') = k
    BY <2>5
  <2> QED
    BY <2>1, <2>2, <2>3, <2>6
<1>20. LaunchTyped'
  BY <1>2, <1>11, <1>15, <1>17, <1>19 DEF LaunchTyped
<1>21. call'[c] = s /\ \A d \in Call \ {c} : call'[d] = call[d]
  BY <1>3 DEF LaunchTyped
<1>22. /\ Grounded(s, names, Ids)
       /\ HasName(s) => HasName(r) /\ s.url = r.url
       /\ HasOld(s) => HasOld(r) /\ s.old = r.old
       /\ \A u, p : Knows(s, u, p) => Knows(r, u, p)
  BY <1>3, <1>7, GonerSays
<1>23. GroundInv'
  <2>1. names' \in Nat /\ names <= names' /\ Ids \subseteq Ids' /\ Grounded(s, names', Ids')
    BY <1>7, <1>11, <1>15, <1>22
  <2> QED
    BY <1>3, <2>1, GroundStays
<1>24. NamesApart' /\ NamesNew' /\ OneOwner'
  <2>1. \A p \in Ids : \/ picture'[p].url = picture[p].url
                       \/ /\ Knows(call[c], picture'[p].url, p)
                          /\ \A u \in Nat : ~Adds(s, u)
    BY <1>1, <1>6, <1>8, <1>9, <1>15 DEF Knows
  <2> QED
    BY <1>1, <1>3, <1>6, <1>15, <1>22, <2>1, OwnersStay DEF NamesInv
(* The new name is in use now, the old one no longer.                      *)
<1>25. ASSUME r.op = "path"
       PROVE  /\ Named(new)' /\ ~Named(n)' /\ n # new
              /\ \A d \in Call : /\ ~Adds(call[d], n)
                                 /\ HasOld(call[d]) => call[d].old # new
  <2>1. Adds(call[c], new)
    BY <1>1, <1>6, <1>10, <1>25
  <2>2. \A d \in Call : HasOld(call[d]) => call[d].old # new
    BY <1>10, <1>25, <2>1 DEF NamesInv, NamesNew
  <2>3. n # new
    BY <1>1, <1>4, <1>6, <1>25, <2>2
  <2>4. \A d \in Call : ~Adds(call[d], n)
    BY <1>1, <1>4, <1>6, <1>10, <1>25 DEF NamesInv, NamesNew
  <2>5. PICK p \in D : TRUE
    BY <1>10, <1>25
  <2>6. Named(new)'
    BY <1>10, <1>15, <1>25, <2>5 DEF Named
  <2>7. ASSUME NEW q \in Ids, picture'[q].url = n PROVE FALSE
    <3>1. q \notin D
      BY <1>10, <1>15, <1>25, <2>3, <2>7
    <3>2. Belongs(n, q)
      BY <1>15, <2>7, <3>1 DEF Belongs
    <3>3. Belongs(n, p)
      BY <1>1, <1>4, <1>8, <1>9, <1>25, <2>5 DEF Belongs, Knows
    <3>4. p \in Nat /\ q \in Nat
      BY <1>10, <2>5, RowIs
    <3> QED
      BY <1>10, <1>25, <2>5, <3>1, <3>2, <3>3, <3>4 DEF NamesInv, OneOwner
  <2> QED
    BY <1>15, <2>2, <2>3, <2>4, <2>6, <2>7 DEF Named
<1>26. ASSUME NEW u \in Nat \ excused', Named(u)' PROVE Named(u) \/ (r.op = "path" /\ u = new)
  <2>1. PICK q \in Ids : picture'[q].live /\ picture'[q].url = u
    BY <1>15, <1>26 DEF Named
  <2>2. CASE q \notin D
    BY <1>15, <2>1, <2>2 DEF Named
  <2>3. CASE q \in D
    <3>1. copies[q].url = u /\ q \notin old
      BY <1>15, <1>16, <2>1, <2>3
    <3>2. CASE r.op = "path"
      BY <1>10, <2>3, <3>1, <3>2
    <3>3. CASE r.op # "path"
      <4>1. picture[q].live /\ picture[q].url = u
        BY <1>18, <2>3, <3>1, <3>3
      <4> QED
        BY <4>1 DEF Named
    <3> QED
      BY <3>2, <3>3
  <2> QED
    BY <2>2, <2>3
<1>27. ASSUME NEW u \in Nat \ excused', Named(u) PROVE Named(u)' \/ (r.op = "path" /\ u = n)
  <2>1. PICK q \in Ids : picture[q].live /\ picture[q].url = u
    BY <1>27 DEF Named
  <2>2. CASE q \notin D
    BY <1>15, <2>1, <2>2 DEF Named
  <2>3. CASE q \in D
    <3>1. q \notin old
      BY <1>16, <2>1
    <3>2. CASE r.op = "path"
      BY <1>18, <2>1, <2>3, <3>1, <3>2
    <3>3. CASE r.op # "path"
      <4>1. picture'[q].live /\ picture'[q].url = u
        BY <1>15, <1>18, <2>1, <2>3, <3>1, <3>3
      <4> QED
        BY <1>15, <4>1 DEF Named
    <3> QED
      BY <3>2, <3>3
  <2> QED
    BY <2>2, <2>3
<1>28. NotYetStored'
  <2> SUFFICES ASSUME NEW d \in Call, NEW u \in Nat, Uploads(call'[d], u) PROVE u \notin object
    BY <1>11 DEF NotYetStored
  <2>1. Uploads(call[d], u)
    BY <1>1, <1>6, <1>21
  <2> QED
    BY <2>1 DEF NamesInv, NotYetStored
<1>29. RemovesLast'
  <2> SUFFICES ASSUME NEW d \in Call, NEW u \in Nat \ excused', Removes(call'[d], u)
               PROVE  Drops(call'[d], u) \/ ~Named(u)'
    BY DEF RemovesLast
  <2>1. Removes(call[d], u)
    BY <1>1, <1>6, <1>21
  <2>2. HasOld(call[d]) /\ call[d].old = u
    BY <2>1 DEF Removes
  <2>3. CASE d = c
    BY <1>1, <1>4, <1>6, <1>25, <2>2, <2>3
  <2>4. CASE d # c
    <3>1. Drops(call[d], u) \/ ~Named(u)
      BY <1>16, <2>1 DEF NamesInv, RemovesLast
    <3>2. r.op = "path" => u # new
      BY <1>25, <2>2
    <3> QED
      BY <1>21, <1>26, <2>4, <3>1, <3>2
  <2> QED
    BY <2>3, <2>4
<1>30. RemovedIsGone'
  <2> SUFFICES ASSUME NEW b \in Call, NEW u \in Nat \ excused', Gone(call'[b], u)
               PROVE  u \notin object /\ \A d \in Call : ~Uploads(call'[d], u)
    BY <1>11 DEF RemovedIsGone
  <2>1. b # c
    BY <1>6, <1>21
  <2>2. u \notin object /\ \A d \in Call : ~Uploads(call[d], u)
    BY <1>16, <1>21, <2>1 DEF NamesInv, RemovedIsGone
  <2> QED
    BY <1>1, <1>6, <1>21, <2>2
<1>31. StoredIsNamed'
  <2> SUFFICES ASSUME NEW u \in Nat \ excused',
                      u \in object \/ (\E d \in Call : Uploads(call'[d], u))
               PROVE  Named(u)' \/ \E d \in Call : Adds(call'[d], u) \/ Removes(call'[d], u)
    BY <1>11 DEF StoredIsNamed
  <2>1. u \in object \/ \E d \in Call : Uploads(call[d], u)
    BY <1>1, <1>6, <1>21
  <2>2. Named(u) \/ \E d \in Call : Adds(call[d], u) \/ Removes(call[d], u)
    BY <1>16, <2>1 DEF NamesInv, StoredIsNamed
  <2>3. CASE r.op = "path" /\ u = n
    <3>1. ~Gone(call[c], u)
      BY <1>16, <2>1 DEF NamesInv, RemovedIsGone
    <3>2. Removes(call'[c], u)
      BY <1>1, <1>6, <1>21, <2>3, <3>1
    <3> QED
      BY <3>2
  <2>4. CASE ~(r.op = "path" /\ u = n)
    <3>1. CASE Named(u)
      BY <1>27, <2>4, <3>1
    <3>2. ASSUME NEW d \in Call, Adds(call[d], u) \/ Removes(call[d], u)
          PROVE  Named(u)' \/ Adds(call'[d], u) \/ Removes(call'[d], u)
      <4>1. CASE d = c /\ Adds(call[d], u)
        BY <1>1, <1>6, <1>25, <4>1
      <4>2. CASE d = c /\ Removes(call[d], u)
        BY <1>1, <1>6, <1>21, <4>2
      <4>3. CASE d # c
        BY <1>21, <3>2, <4>3
      <4> QED
        BY <3>2, <4>1, <4>2, <4>3
    <3> QED
      BY <2>2, <3>1, <3>2
  <2> QED
    BY <2>3, <2>4
<1>32. NamedIsStored'
  <2> SUFFICES ASSUME NEW u \in Nat \ excused',
                      Named(u)' \/ (\E d \in Call : Adds(call'[d], u))
               PROVE  u \in object \/ \E d \in Call : Uploads(call'[d], u) \/ Drops(call'[d], u)
    BY <1>11 DEF NamedIsStored
  <2>0. \A d \in Call : Adds(call'[d], u) => Adds(call[d], u)
    BY <1>6, <1>21
  <2>1. Named(u) \/ \E d \in Call : Adds(call[d], u)
    <3>1. CASE Named(u)'
      <4>1. Named(u) \/ (r.op = "path" /\ u = new)
        BY <1>26, <3>1
      <4> QED
        BY <1>1, <1>6, <4>1
    <3>2. CASE \E d \in Call : Adds(call'[d], u)
      BY <2>0, <3>2
    <3> QED
      BY <3>1, <3>2
  <2>2. u \in object \/ \E d \in Call : Uploads(call[d], u) \/ Drops(call[d], u)
    BY <1>16, <2>1 DEF NamesInv, NamedIsStored
  <2>3. ~(r.op = "path" /\ u = n)
    <3> SUFFICES ASSUME r.op = "path", u = n PROVE FALSE
      OBVIOUS
    <3>1. ~Named(n)' /\ \A d \in Call : ~Adds(call[d], n)
      BY <1>25
    <3>2. CASE Named(u)'
      BY <3>1, <3>2
    <3>3. CASE \E d \in Call : Adds(call'[d], u)
      BY <2>0, <3>1, <3>3
    <3> QED
      BY <3>2, <3>3
  <2>4. ASSUME NEW d \in Call, Uploads(call[d], u) \/ Drops(call[d], u)
        PROVE  Uploads(call'[d], u) \/ Drops(call'[d], u)
    <3>1. CASE d = c
      BY <1>1, <1>6, <1>21, <2>3, <2>4, <3>1
    <3>2. CASE d # c
      BY <1>21, <2>4, <3>2
    <3> QED
      BY <3>1, <3>2
  <2> QED
    BY <2>2, <2>4
<1>33. NamesInv'
  BY <1>24, <1>28, <1>29, <1>30, <1>31, <1>32 DEF NamesInv
<1>34. CopiesFollow'
  <2> SUFFICES ASSUME NEW d \in Call, HasCopies(call'[d]), "save" \in call'[d].todo,
                      NEW q \in DOMAIN call'[d].copies
               PROVE  Follows(call'[d], call'[d].copies[q], picture'[q])
    BY DEF CopiesFollow
  <2>1. d # c
    BY <1>6, <1>21
  <2>2. PICK t \in LaunchRequest : t = call[d] /\ t = call'[d]
    BY <1>21, <2>1 DEF LaunchTyped
  <2>3. Follows(t, t.copies[q], picture[q])
    BY <2>2 DEF RowsInv, CopiesFollow
  <2>4. q \in Ids /\ t.copies[q] \in LaunchRow
    <3>1. Grounded(t, names, Ids)
      BY <2>2 DEF GroundInv
    <3> QED
      BY <2>2, <3>1, CopiesAre, RequestIs DEF Grounded
  <2>5. CASE q \notin D
    BY <1>15, <2>2, <2>3, <2>4, <2>5
  <2>6. CASE q \in D
    <3>1. t.copies[q].writes \in Nat /\ picture[q].writes \in Nat
      BY <2>4, RowIs DEF LaunchRow
    <3>2. t.copies[q].writes <= picture[q].writes
      BY <2>3 DEF Follows
    <3>3. picture'[q].writes = picture[q].writes + 1
      BY <1>15, <2>6
    <3>4. t.copies[q].writes <= picture'[q].writes /\ t.copies[q].writes # picture'[q].writes
      BY <3>1, <3>2, <3>3
    <3> QED
      BY <2>2, <3>4 DEF Follows
  <2> QED
    BY <2>5, <2>6
<1>35. Counted'
  <2> SUFFICES ASSUME NEW p \in Ids, p \notin overwritten'
               PROVE  picture'[p].clicks = clicks'[p] /\ picture'[p].shows = shows'[p]
    BY <1>15 DEF Counted
  <2>1. picture[p].clicks = clicks[p] /\ picture[p].shows = shows[p] /\ p \notin old
    BY <1>16 DEF RowsInv, Counted
  <2>2. CASE p \in D
    <3>1. /\ copies[p].clicks = picture[p].clicks + (IF r.op = "click" THEN 1 ELSE 0)
          /\ copies[p].shows = picture[p].shows + (IF r.op = "view" THEN 1 ELSE 0)
      BY <1>18, <2>1, <2>2
    <3>2. /\ clicks'[p] = clicks[p] + (IF r.op = "click" THEN 1 ELSE 0)
          /\ shows'[p] = shows[p] + (IF r.op = "view" THEN 1 ELSE 0)
      BY <1>19, <2>2
    <3> QED
      BY <1>15, <2>1, <2>2, <3>1, <3>2
  <2>3. CASE p \notin D
    <3>1. clicks'[p] = clicks[p] + 0 /\ shows'[p] = shows[p] + 0
      BY <1>19, <2>3
    <3>2. clicks[p] \in Nat /\ shows[p] \in Nat
      BY DEF LaunchTyped, Ids
    <3> QED
      BY <1>15, <2>1, <2>3, <3>1, <3>2
  <2> QED
    BY <2>2, <2>3
<1>36. ASSUME NEW m \in Ids, Passed(m) PROVE Passed(m)'
  <2>1. CASE m \in overwritten
    BY <1>16, <2>1 DEF Passed
  <2>2. CASE m \notin Live /\ m \in D
    <3>1. ~picture[m].live
      BY <2>2 DEF Live
    <3>2. m \in old
      BY <1>18, <2>2, <3>1
    <3> QED
      BY <1>16, <3>2 DEF Passed
  <2>3. CASE m \notin Live /\ m \notin D
    BY <1>15, <2>3 DEF Passed, Live
  <2> QED
    BY <1>36, <2>1, <2>2, <2>3 DEF Passed
<1>37. ListsInv'
  BY <1>1, <1>3, <1>6, <1>11, <1>15, <1>36, ListsStay
<1> QED
  BY <1>20, <1>23, <1>33, <1>34, <1>35, <1>37 DEF RowsInv

-----------------------------------------------------------------------------
(* The results                                                             *)

LEMMA LaunchNextInv == LaunchInv /\ [LaunchNext]_launchVars => LaunchInv'
<1> SUFFICES ASSUME LaunchInv, [LaunchNext]_launchVars PROVE LaunchInv'
  OBVIOUS
<1>1. ASSUME NEW c \in Call, NEW a \in Audiences, CreateImage(c, a) PROVE LaunchInv'
  BY <1>1, CreateImageInv
<1>2. ASSUME NEW c \in Call, NEW p \in Live, UpdateImagePath(c, p) PROVE LaunchInv'
  BY <1>2, UpdateImagePathInv
<1>3. ASSUME NEW c \in Call, NEW p \in Live, AddPointTime(c, p) PROVE LaunchInv'
  BY <1>3, AddPointTimeInv
<1>4. ASSUME NEW c \in Call, NEW p \in Live, DeleteImage(c, p) PROVE LaunchInv'
  BY <1>4, DeleteImageInv
<1>5. ASSUME NEW c \in Call, NEW p \in Live, NEW a \in Audiences, UpdateImageProperty(c, p, a)
      PROVE  LaunchInv'
  BY <1>5, UpdateImagePropertyInv
<1>6. ASSUME NEW c \in Call, NEW v \in Viewer, MobileGetCached(c, v) \/ MobileGetFetched(c, v)
      PROVE  LaunchInv'
  BY <1>6, MobileGetCachedInv, MobileGetFetchedInv
<1>7. ASSUME NEW c \in Call, Insert(c) \/ UploadImg(c) \/ DeleteImg(c) PROVE LaunchInv'
  BY <1>7, InsertInv, UploadImgInv, DeleteImgInv
<1>8. ASSUME NEW c \in Call, SaveRows(c) \/ DeleteRow(c) PROVE LaunchInv'
  BY <1>8, SaveRowsInv, DeleteRowInv
<1>9. ASSUME NEW c \in Call, SetLaunchScreenCache(c) \/ SetLastLaunchScreenIdCache(c)
      PROVE  LaunchInv'
  BY <1>9, SetLaunchScreenCacheInv, SetLastLaunchScreenIdCacheInv
<1>10. ASSUME NEW c \in Call, NEW step \in call[c].todo, StepFails(c, step) PROVE LaunchInv'
  BY <1>10, StepFailsInv
<1>11. ASSUME (\E p \in Live : WindowTurns(p)) \/ KeyExpires PROVE LaunchInv'
  BY <1>11, LaunchTimeInv
<1>12. CASE UNCHANGED launchVars
  <2>1. launchLeft' \in [LaunchKinds -> Nat]
    BY <1>12 DEF launchVars, LaunchInv, LaunchTyped
  <2> QED
    BY <1>12, <2>1, BudgetOnly DEF launchVars
<1> QED
  BY <1>1, <1>2, <1>3, <1>4, <1>5, <1>6, <1>7, <1>8, <1>9, <1>10, <1>11, <1>12 DEF LaunchNext

LEMMA LaunchInvariant == LaunchSpec => []LaunchInv
<1> QED
  BY LaunchInitInv, LaunchNextInv, PTL DEF LaunchSpec

(* The table, the requests and everything kept beside them keep their      *)
(* types, and what a request has yet to do are steps of its operation.     *)
THEOREM LaunchTypeCorrect == LaunchSpec => []LaunchTypeOK
<1>1. LaunchInv => LaunchTypeOK
  <2> SUFFICES ASSUME LaunchInv PROVE LaunchTypeOK
    OBVIOUS
  <2> USE DEF LaunchInv
  <2>1. \A c \in Call :
           call[c].todo \subseteq {"insert", "upload", "remove", "save", "delete", "list", "last"}
    <3> SUFFICES ASSUME NEW c \in Call
                 PROVE  call[c].todo \subseteq
                           {"insert", "upload", "remove", "save", "delete", "list", "last"}
      OBVIOUS
    <3>1. call[c] \in LaunchRequest
      BY DEF LaunchTyped
    <3> QED
      BY <3>1, RequestIs
  <2>2. picture \in Seq([live : BOOLEAN, url : 1 .. names, clicks : Nat, shows : Nat,
                         audience : Audiences, writes : Nat])
    <3>1. PICK k \in Nat : k = Len(picture)
      BY DEF LaunchTyped
    <3>2. Ids = 1 .. k
      BY <3>1 DEF Ids, LaunchTyped
    <3>3. PICK R : R = [live : BOOLEAN, url : 1 .. names, clicks : Nat, shows : Nat,
                        audience : Audiences, writes : Nat]
      OBVIOUS
    <3>4. \A p \in 1 .. k : picture[p] \in LaunchRow /\ picture[p].url \in 1 .. names
      BY <3>2, RowIs
    <3>5. \A p \in 1 .. k : picture[p] \in R
      BY <3>3, <3>4 DEF LaunchRow
    <3>6. picture = [p \in 1 .. k |-> picture[p]]
      BY <3>1 DEF LaunchTyped
    <3>7. picture \in [1 .. k -> R]
      BY <3>5, <3>6
    <3>8. picture \in Seq(R)
      BY <3>7
    <3> QED
      BY <3>3, <3>8
  <2>3. DOMAIN clicks = Ids /\ DOMAIN shows = Ids
    BY DEF LaunchTyped, Ids
  <2> QED
    BY <2>1, <2>2, <2>3 DEF LaunchTyped, LaunchTypeOK
<1> QED
  BY <1>1, LaunchInvariant, PTL

(* Once the requests are through, a row's object is stored and a stored    *)
(* object has its row, but for the names an error or an older copy left    *)
(* behind, and a row has counted each click and show that was answered     *)
(* unless an older copy was saved over it (create_image.go,                *)
(* update_image.go, delete_image.go, add_point_time.go).                   *)
THEOREM PicturesAccounted == LaunchSpec => []PicturesKept
<1>1. LaunchInv => PicturesKept
  <2> SUFFICES ASSUME LaunchInv, Quiet PROVE StoresAgree /\ CountsKept
    BY DEF PicturesKept, StoresAgree, CountsKept
  <2> USE DEF LaunchInv
  <2>1. \A c \in Call : \A u \in Nat : /\ ~Adds(call[c], u) /\ ~Uploads(call[c], u)
                                      /\ ~Removes(call[c], u) /\ ~Drops(call[c], u)
    <3>1. \A c \in Call : ~HasName(call[c]) /\ ~HasOld(call[c])
      BY DEF Quiet, Idle, HasName, HasOld
    <3> QED
      BY <3>1 DEF Adds, Uploads, Removes, Drops
  <2>2. CountsKept
    BY DEF CountsKept, RowsInv, Counted
  <2>3. ASSUME NEW p \in Live, picture[p].url \notin object PROVE picture[p].url \in excused
    <3>1. PICK u : u = picture[p].url
      OBVIOUS
    <3>2. Named(u) /\ u \in Nat
      BY <3>1, RowIs DEF Named, Live, LaunchRow
    <3> QED
      BY <2>1, <2>3, <3>1, <3>2 DEF NamesInv, NamedIsStored
  <2>4. ASSUME NEW u \in object, u \notin excused PROVE \E p \in Live : picture[p].url = u
    <3>1. u \in Nat
      BY DEF LaunchTyped
    <3>2. Named(u)
      BY <2>1, <2>4, <3>1 DEF NamesInv, StoredIsNamed
    <3> QED
      BY <3>2 DEF Named, Live
  <2>5. StoresAgree
    BY <2>3, <2>4 DEF StoresAgree
  <2> QED
    BY <2>2, <2>5
<1> QED
  BY <1>1, LaunchInvariant, PTL

(* A list that is older than the newest picture passes as fresh only if    *)
(* the student's request was late, another student's has stored the newest *)
(* id, or the newest picture was brought back by the save of an older copy *)
(* (mobile_get.go:78-90).                                                  *)
THEOREM OldListsAccounted == LaunchSpec => []OldListExplained
<1>1. LaunchInv => OldListExplained
  <2> SUFFICES ASSUME LaunchInv, NEW v \in Viewer, ~ShouldGetFromMySQL(v),
                      lists.made[v] < GetLastImageId
               PROVE  \/ v \in lists.late \/ lists.by \ {v} # {}
                      \/ GetLastImageId \in overwritten
    BY DEF OldListExplained
  <2>1. idList[v] # NoList /\ lastId # NoId /\ lastId = GetLastImageId
    BY DEF ShouldGetFromMySQL
  <2>2. Live # {}
    BY <2>1, NewestZero DEF NoId
  <2>3. lastId \in Live
    BY <2>1, <2>2, NewestLive DEF LaunchInv, LaunchTyped
  <2>4. v \in lists.late \/ lists.by \ {v} # {} \/ Passed(lastId)
    BY <2>1 DEF LaunchInv, ListsInv, OldListed
  <2> QED
    BY <2>1, <2>3, <2>4 DEF Passed
<1> QED
  BY <1>1, LaunchInvariant, PTL

=============================================================================
