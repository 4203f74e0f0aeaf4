----------------------------- MODULE FriendsProofs -----------------------------
(***************************************************************************)
(* Theorems about Friends, for any students, codes and requests.           *)
(*                                                                         *)
(* TypeInv says which record a request may be at each step and that a      *)
(* task lies under its own key.  On it rest three invariants: UsedOnce (a  *)
(* task whose code is used has nothing left to do), ChecksHold (a limit    *)
(* check with `alone' stays right) and EntriesExplained (every entry in    *)
(* which a copy differs from the table is accounted for).                  *)
(***************************************************************************)
EXTENDS Friends, FiniteSetTheorems, WellFoundedInduction, TLAPS

BindState ==
    {"bind relation", "bind limit", "bind count", "bind target limit", "bind target count",
     "bind write", "bind own copy", "bind target copy", "bind mapping", "bind code"}

(* A bind that has counted its own list, and has not written.              *)
Checked == {"bind target limit", "bind target count", "bind write"}

(* The records a request in progress may be; `known' are codes issued.     *)
Binding(q, known) ==
    /\ q \in [at : BindState, stu : Student, friend : Student, code : known,
              copy : BOOLEAN, alone : BOOLEAN]
    /\ q.stu # q.friend

Deleting(q) ==
    /\ q \in [at : {"delete write", "delete add"}, stu : Student, friend : Student]
    /\ q.stu # q.friend

Listing(q)    == q \in [at : {"list read", "list add"}, stu : Student, list : FriendList]
Reordering(q) == q \in [at : {"reorder copy"}, stu : Student]

Inviting(q, known) == q \in [at : {"invite add"}, stu : Student, code : known \cup {None}]

Cancelling(q, known) ==
    q \in [at : {"cancel lookup", "cancel mapping", "cancel code"}, stu : Student, code : known]

Form(q, known) ==
    \/ q = Idle
    \/ Binding(q, known) \/ Deleting(q) \/ Listing(q) \/ Reordering(q)
    \/ Inviting(q, known) \/ Cancelling(q, known)

RequestsOK == DOMAIN req = Request /\ \A r \in Request : Form(req[r], issued)

ListsOK ==
    /\ rows \in [Student -> FriendList]
    /\ cached \in [Student -> FriendList]
    /\ volatile \subseteq {s \in Student : HasCopy(s)}
    /\ cause \in [Student -> SUBSET Reason]

CodesOK ==
    /\ issued \subseteq Code
    /\ spent \subseteq issued /\ unremoved \subseteq issued /\ unsure \subseteq issued
    /\ codes \in [Student -> issued \cup {None}]
    /\ mapping \in [Code -> Student \cup {None}]
    /\ \A c \in Code : mapping[c] # None => c \in issued

QueueOK ==
    /\ pending \in [Key -> Task \cup {None}]
    /\ running \in [Key -> Task \cup {None}]
    /\ progress \in [Key -> 0..3]
    /\ renewed \subseteq Key
    /\ \A k \in Key :
          /\ pending[k] # None => KeyOf[pending[k]] = k
          /\ running[k] # None => KeyOf[running[k]] = k /\ pending[k] # None
          /\ \A t \in {pending[k], running[k]} \ {None} :
                t.what = "updateInvitationCode" => t.new \in issued

TypeInv == ListsOK /\ CodesOK /\ RequestsOK /\ QueueOK /\ left \in [Kind -> Nat]

-----------------------------------------------------------------------------
(* Requests *)

LEMMA FormOf ==
    ASSUME NEW q, NEW known, Form(q, known)
    PROVE  /\ q.at \in State
           /\ q.at = "idle" => q = Idle
           /\ q.at \in BindState => Binding(q, known)
           /\ q.at \in {"delete write", "delete add"} => Deleting(q)
           /\ q.at \in {"list read", "list add"} => Listing(q)
           /\ q.at = "reorder copy" => Reordering(q)
           /\ q.at = "invite add" => Inviting(q, known)
           /\ q.at \in {"cancel lookup", "cancel mapping", "cancel code"} => Cancelling(q, known)
<1>1. CASE q = Idle
  BY <1>1 DEF Idle, State, BindState
<1>2. CASE Binding(q, known)
  BY <1>2 DEF Binding, State, BindState
<1>3. CASE Deleting(q)
  BY <1>3 DEF Deleting, State, BindState
<1>4. CASE Listing(q)
  BY <1>4 DEF Listing, State, BindState
<1>5. CASE Reordering(q)
  BY <1>5 DEF Reordering, State, BindState
<1>6. CASE Inviting(q, known)
  BY <1>6 DEF Inviting, State, BindState
<1>7. CASE Cancelling(q, known)
  BY <1>7 DEF Cancelling, State, BindState
<1>8. QED
  BY <1>1, <1>2, <1>3, <1>4, <1>5, <1>6, <1>7 DEF Form

LEMMA FormGrows ==
    ASSUME NEW q, NEW S, NEW T, S \subseteq T, Form(q, S)
    PROVE  Form(q, T)
BY DEF Form, Binding, Inviting, Cancelling

(* A request that binds goes on with what it has looked up.                *)
LEMMA BindingMoves ==
    ASSUME NEW q, NEW known, Binding(q, known), NEW at \in BindState
    PROVE  LET p == [q EXCEPT !.at = at] IN
           /\ Binding(p, known)
           /\ p.at = at /\ p.stu = q.stu /\ p.friend = q.friend /\ p.code = q.code
           /\ p.alone = q.alone
BY DEF Binding

LEMMA OvertakenForm ==
    ASSUME RequestsOK, NEW r \in Request
    PROVE  /\ DOMAIN Overtaken(r) = Request
           /\ \A q \in Request : /\ Form(Overtaken(r)[q], issued)
                                 /\ Overtaken(r)[q].at = req[q].at
                                 /\ \/ Overtaken(r)[q] = req[q]
                                    \/ /\ req[q].at \in Checked
                                       /\ Binding(Overtaken(r)[q], issued)
                                       /\ Overtaken(r)[q].stu = req[q].stu
                                       /\ Overtaken(r)[q].friend = req[q].friend
                                       /\ Overtaken(r)[q].code = req[q].code
                                       /\ q # r /\ ~Overtaken(r)[q].alone
<1> SUFFICES ASSUME NEW q \in Request, q # r,
                    req[q].at \in Checked
             PROVE  LET p == [req[q] EXCEPT !.alone = FALSE] IN
                    /\ Binding(p, issued)
                    /\ p.at = req[q].at /\ p.stu = req[q].stu /\ p.friend = req[q].friend
                    /\ p.code = req[q].code /\ ~p.alone
  BY DEF Overtaken, RequestsOK, Form, Checked
<1>1. Binding(req[q], issued)
  BY FormOf DEF RequestsOK, BindState, Checked
<1>2. QED
  BY <1>1 DEF Binding

-----------------------------------------------------------------------------
(* Lists *)

LEMMA NoListTyped == NoList \in FriendList
BY DEF NoList, FriendList

(* A list is equal to another if all their entries are.                    *)
LEMMA ListFacts ==
    ASSUME NEW list \in FriendList
    PROVE  /\ DOMAIN list \subseteq Student
           /\ \A f \in DOMAIN list : list[f] \in Orders
           /\ list = [f \in DOMAIN list |-> list[f]]
BY DEF FriendList

LEMMA ListIntro ==
    ASSUME NEW F \in SUBSET Student, NEW list \in [F -> Orders]
    PROVE  list \in FriendList
BY DEF FriendList

LEMMA WithTyped ==
    ASSUME NEW list \in FriendList, NEW f \in Student
    PROVE  /\ With(list, f) \in FriendList
           /\ DOMAIN With(list, f) = DOMAIN list \cup {f}
           /\ \A u \in DOMAIN list \ {f} : With(list, f)[u] = list[u]
<1>1. With(list, f) \in [DOMAIN list \cup {f} -> Orders]
  BY ListFacts DEF With, Orders
<1>2. With(list, f) \in FriendList
  BY <1>1, ListFacts, ListIntro
<1>3. QED
  BY <1>2 DEF With

LEMMA WithoutTyped ==
    ASSUME NEW list \in FriendList, NEW f
    PROVE  /\ Without(list, f) \in FriendList
           /\ DOMAIN Without(list, f) = DOMAIN list \ {f}
           /\ \A u \in DOMAIN list \ {f} : Without(list, f)[u] = list[u]
<1>1. Without(list, f) \in [DOMAIN list \ {f} -> Orders]
  BY ListFacts DEF Without, Restrict
<1>2. Without(list, f) \in FriendList
  BY <1>1, ListFacts, ListIntro
<1>3. QED
  BY <1>2 DEF Without, Restrict

(* Of the places at which a friend is asked for there is a last one.       *)
LEMMA LastPlace ==
    ASSUME NEW n \in Nat, NEW S \in SUBSET (1..n), S # {}
    PROVE  \E i \in S : \A j \in S : j <= i
<1> DEFINE D == {n - i : i \in S}
<1>1. \A i \in S : i \in Nat /\ n - i \in Nat
  OBVIOUS
<1>2. D \subseteq Nat /\ D # {}
  BY <1>1
<1>3. \E x \in D : \A y \in D : ~ (<<y, x>> \in OpToRel(<, Nat))
  BY <1>2, NatLessThanWellFounded, WFMin
<1>4. PICK d \in D : \A e \in D : ~ (e < d)
  BY <1>2, <1>3 DEF OpToRel
<1>5. PICK i \in S : d = n - i
  OBVIOUS
<1>6. ASSUME NEW j \in S PROVE j <= i
  <2>1. ~ (n - j < d)
    BY <1>4
  <2>2. i \in Nat /\ j \in Nat /\ d = n - i
    BY <1>1, <1>5
  <2>3. QED
    BY <2>1, <2>2
<1>7. QED
  BY <1>6

LEMMA OrderTyped ==
    ASSUME NEW ids \in Reorderings, NEW f
    PROVE  OrderSeq(ids, f) \in Orders
<1> DEFINE at == {i \in 1..Len(ids) : ids[i] = f}
<1>1. Len(ids) \in Nat
  BY FriendsAssumption
<1>2. CASE at = {}
  BY <1>2 DEF OrderSeq, Orders
<1>3. CASE at # {}
  <2>1. PICK i \in at : \A j \in at : j <= i
    BY <1>1, <1>3, LastPlace
  <2>2. (CHOOSE k \in at : \A j \in at : j <= k) \in at
    BY <2>1
  <2>3. OrderSeq(ids, f) = Len(ids) + 1 - (CHOOSE k \in at : \A j \in at : j <= k)
    BY <1>3 DEF OrderSeq
  <2>4. OrderSeq(ids, f) \in 1..Len(ids)
    BY <1>1, <2>2, <2>3
  <2>5. QED
    BY <2>4 DEF Orders
<1>4. QED
  BY <1>2, <1>3

-----------------------------------------------------------------------------
(* Tasks and their keys *)

LEMMA TaskParts ==
    ASSUME NEW t \in Task
    PROVE  /\ t.what \in {"setFriendListCache", "deleteFriendCache", "updateInvitationCode"}
           /\ t.stu \in Student
           /\ t.what = "setFriendListCache" => t.list \in FriendList
           /\ t.what = "deleteFriendCache" => t.friend \in Student /\ t.stu # t.friend
           /\ t.what = "updateInvitationCode" => t.old \in Code \cup {None} /\ t.new \in Code
           /\ t # None
           /\ KeyOf[t] \in Key /\ KeyOf[t] = KeyFor(t)
BY FriendsAssumption DEF Task, Key, KeyOf

(* A key tells which kind of task of which student it is, and the key of   *)
(* a delete task tells the task.                                           *)
LEMMA KeyTells ==
    ASSUME NEW t \in Task, NEW u \in Task, KeyOf[t] = KeyOf[u]
    PROVE  t.what = u.what /\ t.stu = u.stu
<1>1. KeyFor(t) = KeyFor(u)
  BY TaskParts
<1>2. KeyFor(t)[1] = t.what /\ KeyFor(t)[2] = t.stu
  BY DEF KeyFor
<1>3. KeyFor(u)[1] = u.what /\ KeyFor(u)[2] = u.stu
  BY DEF KeyFor
<1>4. QED
  BY <1>1, <1>2, <1>3

LEMMA DeleteKeyTells ==
    ASSUME NEW t \in Task, NEW u \in Task, KeyOf[t] = KeyOf[u],
           t.what = "deleteFriendCache"
    PROVE  t = u
<1>1. u.what = "deleteFriendCache" /\ t.stu = u.stu
  BY KeyTells
<1>2. KeyFor(t) = <<t.what, t.stu, t.friend>> /\ KeyFor(u) = <<u.what, u.stu, u.friend>>
  BY <1>1 DEF KeyFor
<1>3. t.friend = u.friend
  BY <1>2, TaskParts
<1>4. /\ t \in [what : {"deleteFriendCache"}, stu : Student, friend : Student]
      /\ u \in [what : {"deleteFriendCache"}, stu : Student, friend : Student]
  BY <1>1 DEF Task
<1>5. QED
  BY <1>1, <1>3, <1>4

(* Tasks that the requests add                                             *)
LEMMA AddedTasks ==
    /\ \A s, f \in Student : s # f =>
           [what |-> "deleteFriendCache", stu |-> s, friend |-> f] \in Task
    /\ \A s \in Student, list \in FriendList :
           [what |-> "setFriendListCache", stu |-> s, list |-> list] \in Task
    /\ \A s \in Student, old \in Code \cup {None}, new \in Code :
           [what |-> "updateInvitationCode", stu |-> s, old |-> old, new |-> new] \in Task
BY DEF Task

(* What a command of a task does to the queue: it goes on, stays where it  *)
(* is, or the task is given up.                                            *)
LEMMA CommandTells ==
    ASSUME NEW k \in Key, NEW what, NEW n, Command(k, what, n)
    PROVE  /\ running[k] # None /\ running[k].what = what /\ progress[k] = n - 1
           /\ UNCHANGED <<pending, req, issued, spent, unremoved, renewed>>
           /\ \/ UNCHANGED running /\ progress' = [progress EXCEPT ![k] = n]
              \/ UNCHANGED <<running, progress>>
              \/ /\ running' = [running EXCEPT ![k] = None]
                 /\ progress' = [progress EXCEPT ![k] = 0]
BY DEF Command, GiveUp, queue, Executor!Release

-----------------------------------------------------------------------------
(* Which steps write what *)

LEMMA ListWriters ==
    ASSUME [Next]_vars
    PROVE  \/ UNCHANGED <<rows, cached, volatile, cause>>
           \/ \E r \in Request : \/ BindWrite(r) \/ BindOwnCopy(r) \/ BindTargetCopy(r)
                                 \/ DeleteWrite(r) \/ ReorderCopy(r)
                                 \/ \E s \in Student, ids \in Reorderings : Reorder(r, s, ids)
           \/ \E k \in Key : SetUserFriendListCache(k) \/ DeleteUserFriendCache(k) \/ Succeed(k)
           \/ \E s \in Student : ExpireList(s)
<1> USE DEF vars, lists, invites, queue, ghosts, used, OnlyRequest
<1>1. ASSUME NEW r \in Request, Call(r)
      PROVE  \/ UNCHANGED <<rows, cached, volatile, cause>>
             \/ \E s \in Student, ids \in Reorderings : Reorder(r, s, ids)
  BY <1>1 DEF Call, Bind, Delete, List, Invite, Cancel
<1>2. ASSUME NEW r \in Request, Continue(r)
      PROVE  \/ UNCHANGED <<rows, cached, volatile, cause>>
             \/ BindWrite(r) \/ BindOwnCopy(r) \/ BindTargetCopy(r)
             \/ DeleteWrite(r) \/ ReorderCopy(r)
  BY <1>2 DEF Continue, BindRelation, BindLimit, BindCount, BindTargetLimit,
              BindTargetCount, BindMapping, BindCode, DeleteAdd,
              ListRead, ListAdd, InviteAdd, CancelLookup, CancelMapping, CancelCode
<1>3. ASSUME NEW k \in Key, Work(k) \/ CommandFails(k)
      PROVE  \/ UNCHANGED <<rows, cached, volatile, cause>>
             \/ SetUserFriendListCache(k) \/ DeleteUserFriendCache(k) \/ Succeed(k)
  BY <1>3 DEF Work, CommandFails, Begin, UpdateRemove, UpdateSetCode, UpdateSetMapping
<1>4. ASSUME NEW s \in Student, ExpireCode(s)
      PROVE  UNCHANGED <<rows, cached, volatile, cause>>
  BY <1>4 DEF ExpireCode
<1>5. ASSUME NEW c \in Code, ExpireMapping(c)
      PROVE  UNCHANGED <<rows, cached, volatile, cause>>
  BY <1>5 DEF ExpireMapping
<1>6. QED
  BY <1>1, <1>2, <1>3, <1>4, <1>5 DEF Next

LEMMA CodeWriters ==
    ASSUME [Next]_vars
    PROVE  \/ UNCHANGED <<codes, mapping, issued, used>>
           \/ \E r \in Request : \/ BindWrite(r) \/ BindMapping(r) \/ BindCode(r)
                                 \/ InviteAdd(r) \/ CancelMapping(r) \/ CancelCode(r)
           \/ \E k \in Key : UpdateRemove(k) \/ UpdateSetCode(k) \/ UpdateSetMapping(k)
           \/ \E s \in Student : ExpireCode(s)
           \/ \E c \in Code : ExpireMapping(c)
<1> USE DEF vars, lists, invites, queue, ghosts, used, OnlyRequest
<1>1. ASSUME NEW r \in Request, Call(r)
      PROVE  UNCHANGED <<codes, mapping, issued, used>>
  BY <1>1 DEF Call, Bind, Delete, List, Invite, Cancel, Reorder
<1>2. ASSUME NEW r \in Request, Continue(r)
      PROVE  \/ UNCHANGED <<codes, mapping, issued, used>>
             \/ BindWrite(r) \/ BindMapping(r) \/ BindCode(r)
             \/ InviteAdd(r) \/ CancelMapping(r) \/ CancelCode(r)
  BY <1>2 DEF Continue, BindRelation, BindLimit, BindCount, BindTargetLimit,
              BindTargetCount, BindWrite, BindOwnCopy,
              BindTargetCopy, DeleteWrite, DeleteAdd, ListRead, ListAdd, ReorderCopy, CancelLookup
<1>3. ASSUME NEW k \in Key, Work(k) \/ CommandFails(k)
      PROVE  \/ UNCHANGED <<codes, mapping, issued, used>>
             \/ UpdateRemove(k) \/ UpdateSetCode(k) \/ UpdateSetMapping(k)
  BY <1>3 DEF Work, CommandFails, Begin, Succeed, SetUserFriendListCache, DeleteUserFriendCache,
              Command
<1>4. ASSUME NEW s \in Student, ExpireList(s)
      PROVE  UNCHANGED <<codes, mapping, issued, used>>
  BY <1>4 DEF ExpireList
<1>5. QED
  BY <1>1, <1>2, <1>3, <1>4 DEF Next

LEMMA QueueWriters ==
    ASSUME [Next]_vars
    PROVE  \/ UNCHANGED <<pending, running, progress, renewed>>
           \/ \E r \in Request : DeleteAdd(r) \/ ListAdd(r) \/ InviteAdd(r)
           \/ \E k \in Key : Work(k) \/ CommandFails(k)
<1> USE DEF vars, lists, invites, queue, ghosts, used, OnlyRequest
<1>1. ASSUME NEW r \in Request, Call(r)
      PROVE  UNCHANGED <<pending, running, progress, renewed>>
  BY <1>1 DEF Call, Bind, Delete, List, Invite, Cancel, Reorder
<1>2. ASSUME NEW r \in Request, Continue(r)
      PROVE  \/ UNCHANGED <<pending, running, progress, renewed>>
             \/ DeleteAdd(r) \/ ListAdd(r) \/ InviteAdd(r)
  BY <1>2 DEF Continue, BindRelation, BindLimit, BindCount, BindTargetLimit,
              BindTargetCount, BindWrite, BindOwnCopy,
              BindTargetCopy, BindMapping, BindCode, DeleteWrite, ListRead, ReorderCopy,
              CancelLookup, CancelMapping, CancelCode
<1>3. ASSUME NEW s \in Student, ExpireList(s) \/ ExpireCode(s)
      PROVE  UNCHANGED <<pending, running, progress, renewed>>
  BY <1>3 DEF ExpireList, ExpireCode
<1>4. ASSUME NEW c \in Code, ExpireMapping(c)
      PROVE  UNCHANGED <<pending, running, progress, renewed>>
  BY <1>4 DEF ExpireMapping
<1>5. QED
  BY <1>1, <1>2, <1>3, <1>4 DEF Next

(* A request starts or goes on; all others stay as they are, but for what  *)
(* a write of relations makes of the checks of others.                     *)
LEMMA RequestWriters ==
    ASSUME [Next]_vars
    PROVE  UNCHANGED req \/ \E r \in Request : Call(r) \/ Continue(r)
<1> USE DEF vars, lists, invites, queue, ghosts, used
<1>1. ASSUME NEW k \in Key, Work(k) \/ CommandFails(k)
      PROVE  UNCHANGED req
  BY <1>1 DEF Work, CommandFails, Begin, Succeed, SetUserFriendListCache, DeleteUserFriendCache,
              Command, UpdateRemove, UpdateSetCode, UpdateSetMapping
<1>2. ASSUME NEW s \in Student, ExpireList(s) \/ ExpireCode(s)
      PROVE  UNCHANGED req
  BY <1>2 DEF ExpireList, ExpireCode
<1>3. ASSUME NEW c \in Code, ExpireMapping(c)
      PROVE  UNCHANGED req
  BY <1>3 DEF ExpireMapping
<1>4. QED
  BY <1>1, <1>2, <1>3 DEF Next

-----------------------------------------------------------------------------
(* The types of the tables and of the copies *)

(* What becomes of the causes in a step: those of a copy that stays stale  *)
(* are kept, the student who is blamed gets one more.                      *)
LEMMA NoBlameKeeps ==
    ASSUME cause \in [Student -> SUBSET Reason], NoBlame
    PROVE  /\ cause' \in [Student -> SUBSET Reason]
           /\ \A u \in Student : cached'[u] \notin {NoList, rows'[u]} => cause'[u] = cause[u]
BY DEF NoBlame

LEMMA BlameAdds ==
    ASSUME cause \in [Student -> SUBSET Reason], NEW s \in Student, NEW why \in Reason,
           Blame(s, why)
    PROVE  /\ cause' \in [Student -> SUBSET Reason]
           /\ \A u \in Student : cached'[u] \notin {NoList, rows'[u]} =>
                  /\ u # s => cause'[u] = cause[u]
                  /\ u = s => cause'[u] # {}
BY DEF Blame

(* An invalidation removes the copy, or fails and is blamed.               *)
LEMMA Invalidation ==
    ASSUME ListsOK, NEW s \in Student, InvalidateFriendListCache(s)
    PROVE  /\ ListsOK' /\ rows' = rows
           /\ \A u \in Student : cached'[u] \notin {NoList, rows'[u]} =>
                  /\ cached'[u] = cached[u]
                  /\ u # s => cause'[u] = cause[u]
                  /\ u = s => cause'[u] # {}
<1> USE DEF ListsOK
<1>1. CASE /\ cached' = [cached EXCEPT ![s] = NoList]
           /\ volatile' = volatile \ {s}
           /\ UNCHANGED <<rows, left>>
           /\ NoBlame
  <2>1. cached' \in [Student -> FriendList]
    BY <1>1, NoListTyped
  <2>2. volatile' \subseteq {u \in Student : HasCopy(u)'}
    BY <1>1 DEF HasCopy
  <2>3. QED
    BY <1>1, <2>1, <2>2, NoBlameKeeps
<1>2. CASE /\ UNCHANGED <<rows, lists>>
           /\ Blame(s, "invalidation failed")
  <2>1. UNCHANGED <<rows, cached, volatile>>
    BY <1>2 DEF lists
  <2>2. "invalidation failed" \in Reason
    BY DEF Reason
  <2>3. QED
    BY <1>2, <2>1, <2>2, BlameAdds DEF HasCopy
<1>3. QED
  BY <1>1, <1>2 DEF InvalidateFriendListCache

LEMMA ListsTyped ==
    ASSUME TypeInv, [Next]_vars
    PROVE  ListsOK'
<1> USE DEF TypeInv
<1>1. ASSUME NEW r \in Request, BindWrite(r)
      PROVE  ListsOK'
  <2>1. Binding(req[r], issued)
    BY <1>1, FormOf DEF BindWrite, RequestsOK, BindState
  <2>2. req[r].stu \in Student /\ req[r].friend \in Student /\ req[r].stu # req[r].friend
    BY <2>1 DEF Binding
  <2>3. rows' \in [Student -> FriendList]
    <3>1. UNCHANGED rows \/ rows' = Befriend(req[r].stu, req[r].friend)
      BY <1>1 DEF BindWrite
    <3>2. /\ With(rows[req[r].stu], req[r].friend) \in FriendList
          /\ With(rows[req[r].friend], req[r].stu) \in FriendList
      BY <2>2, WithTyped DEF ListsOK
    <3>3. QED
      BY <2>2, <3>1, <3>2 DEF Befriend, ListsOK
  <2>4. UNCHANGED <<cached, volatile>> /\ NoBlame
    BY <1>1 DEF BindWrite, lists
  <2>5. QED
    BY <2>3, <2>4, NoBlameKeeps DEF ListsOK, HasCopy
<1>2. ASSUME NEW r \in Request, BindOwnCopy(r) \/ BindTargetCopy(r)
      PROVE  ListsOK'
  <2>1. Binding(req[r], issued)
    BY <1>2, FormOf DEF BindOwnCopy, BindTargetCopy, RequestsOK, BindState
  <2>2. req[r].stu \in Student /\ req[r].friend \in Student
    BY <2>1 DEF Binding
  <2>3. QED
    BY <1>2, <2>2, Invalidation DEF BindOwnCopy, BindTargetCopy
<1>3. ASSUME NEW r \in Request, DeleteWrite(r)
      PROVE  ListsOK'
  <2>1. Deleting(req[r])
    BY <1>3, FormOf DEF DeleteWrite, RequestsOK
  <2>2. req[r].stu \in Student /\ req[r].friend \in Student /\ req[r].stu # req[r].friend
    BY <2>1 DEF Deleting
  <2>3. rows' \in [Student -> FriendList]
    <3>1. /\ Without(rows[req[r].stu], req[r].friend) \in FriendList
          /\ Without(rows[req[r].friend], req[r].stu) \in FriendList
      BY <2>2, WithoutTyped DEF ListsOK
    <3>2. QED
      BY <1>3, <2>2, <3>1 DEF DeleteWrite, ListsOK
  <2>4. UNCHANGED <<cached, volatile>> /\ NoBlame
    BY <1>3 DEF DeleteWrite, lists
  <2>5. QED
    BY <2>3, <2>4, NoBlameKeeps DEF ListsOK, HasCopy
<1>4. ASSUME NEW r \in Request, NEW s \in Student, NEW ids \in Reorderings, Reorder(r, s, ids)
      PROVE  ListsOK'
  <2>1. [f \in DOMAIN rows[s] |-> OrderSeq(ids, f)] \in FriendList
    BY OrderTyped, ListFacts, ListIntro DEF ListsOK
  <2>2. rows' \in [Student -> FriendList]
    BY <1>4, <2>1 DEF Reorder, ListsOK
  <2>3. UNCHANGED <<cached, volatile>> /\ NoBlame
    BY <1>4 DEF Reorder, lists
  <2>4. QED
    BY <2>2, <2>3, NoBlameKeeps DEF ListsOK, HasCopy
<1>5. ASSUME NEW r \in Request, ReorderCopy(r)
      PROVE  ListsOK'
  <2>1. Reordering(req[r])
    BY <1>5, FormOf DEF ReorderCopy, RequestsOK
  <2>2. QED
    BY <1>5, <2>1, Invalidation DEF ReorderCopy, Reordering
<1>6. ASSUME NEW k \in Key, SetUserFriendListCache(k)
      PROVE  ListsOK'
  <2> DEFINE t == running[k]
  <2>1. t \in Task /\ t.what = "setFriendListCache"
    BY <1>6 DEF SetUserFriendListCache, Command, QueueOK
  <2>2. t.stu \in Student /\ t.list \in FriendList
    BY <2>1, TaskParts
  <2>3. /\ cached' = [cached EXCEPT ![t.stu] = t.list]
        /\ volatile' = IF t.list = NoList THEN volatile \ {t.stu} ELSE volatile \cup {t.stu}
        /\ UNCHANGED rows
        /\ Blame(t.stu, "late fill")
    BY <1>6 DEF SetUserFriendListCache
  <2>4. "late fill" \in Reason
    BY DEF Reason
  <2>5. cached' \in [Student -> FriendList]
    BY <2>2, <2>3 DEF ListsOK
  <2>6. volatile' \subseteq {u \in Student : HasCopy(u)'}
    BY <2>2, <2>3 DEF HasCopy, ListsOK
  <2>7. QED
    BY <2>2, <2>3, <2>4, <2>5, <2>6, BlameAdds DEF ListsOK
<1>7. ASSUME NEW k \in Key, DeleteUserFriendCache(k)
      PROVE  ListsOK'
  <2> DEFINE t == running[k]
  <2>1. t \in Task /\ t.what = "deleteFriendCache"
    BY <1>7 DEF DeleteUserFriendCache, Command, QueueOK
  <2>2. t.stu \in Student /\ t.friend \in Student
    BY <2>1, TaskParts
  <2>3. /\ cached' = [cached EXCEPT ![t.stu] = Without(@, t.friend),
                                    ![t.friend] = Without(@, t.stu)]
        /\ volatile' = volatile \ {u \in {t.stu, t.friend} : cached'[u] = NoList}
        /\ UNCHANGED rows
    BY <1>7 DEF DeleteUserFriendCache
  <2>4. cached' \in [Student -> FriendList]
    <3>1. /\ Without(cached[t.stu], t.friend) \in FriendList
          /\ Without(cached[t.friend], t.stu) \in FriendList
      BY <2>2, WithoutTyped DEF ListsOK
    <3>2. t.stu # t.friend
      BY <2>1, TaskParts
    <3>3. QED
      BY <2>2, <2>3, <3>1, <3>2 DEF ListsOK
  <2>5. volatile' \subseteq {u \in Student : HasCopy(u)'}
    BY <2>2, <2>3 DEF HasCopy, ListsOK
  <2>6. cause' \in [Student -> SUBSET Reason]
    BY <1>7 DEF DeleteUserFriendCache, ListsOK, Reason
  <2>7. QED
    BY <2>3, <2>4, <2>5, <2>6 DEF ListsOK
<1>8. ASSUME NEW k \in Key, Succeed(k)
      PROVE  ListsOK'
  BY <1>8 DEF Succeed, ListsOK, Reason, lists, HasCopy
<1>9. ASSUME NEW s \in Student, ExpireList(s)
      PROVE  ListsOK'
  <2>1. /\ cached' = [cached EXCEPT ![s] = NoList]
        /\ volatile' = volatile \ {s}
        /\ UNCHANGED rows /\ NoBlame
    BY <1>9 DEF ExpireList
  <2>2. cached' \in [Student -> FriendList]
    BY <2>1, NoListTyped DEF ListsOK
  <2>3. volatile' \subseteq {u \in Student : HasCopy(u)'}
    BY <2>1 DEF HasCopy, ListsOK
  <2>4. QED
    BY <2>1, <2>2, <2>3, NoBlameKeeps DEF ListsOK
<1>10. CASE UNCHANGED <<rows, cached, volatile, cause>>
  BY <1>10 DEF ListsOK, HasCopy
<1>11. QED
  BY <1>1, <1>2, <1>3, <1>4, <1>5, <1>6, <1>7, <1>8, <1>9, <1>10, ListWriters

-----------------------------------------------------------------------------
(* The types of codes, requests and tasks *)

LEMMA CodesTyped ==
    ASSUME TypeInv, [Next]_vars
    PROVE  CodesOK' /\ issued \subseteq issued'
<1> USE DEF TypeInv
<1>1. ASSUME NEW r \in Request, BindMapping(r) \/ CancelMapping(r)
      PROVE  CodesOK' /\ issued \subseteq issued'
  <2>1. req[r].code \in issued
    <3>1. Form(req[r], issued)
      BY DEF RequestsOK
    <3>2. CASE BindMapping(r)
      <4>1. Binding(req[r], issued)
        BY <3>1, <3>2, FormOf DEF BindMapping, BindState
      <4>2. QED
        BY <4>1 DEF Binding
    <3>3. CASE CancelMapping(r)
      <4>1. Cancelling(req[r], issued)
        BY <3>1, <3>3, FormOf DEF CancelMapping
      <4>2. QED
        BY <4>1 DEF Cancelling
    <3>4. QED
      BY <1>1, <3>2, <3>3
  <2>2. /\ UNCHANGED <<codes, issued, unsure>>
        /\ mapping' \in {mapping, [mapping EXCEPT ![req[r].code] = None]}
        /\ spent' \subseteq spent \cup {req[r].code}
        /\ unremoved' \subseteq unremoved \cup {req[r].code}
    BY <1>1 DEF BindMapping, CancelMapping
  <2>3. QED
    BY <2>1, <2>2 DEF CodesOK
<1>2. ASSUME NEW r \in Request, BindCode(r) \/ CancelCode(r)
      PROVE  CodesOK' /\ issued \subseteq issued'
  <2>1. /\ UNCHANGED <<mapping, issued, used>>
        /\ UNCHANGED codes \/ \E s : codes' = [codes EXCEPT ![s] = None]
    BY <1>2 DEF BindCode, CancelCode, ghosts
  <2>2. QED
    BY <2>1 DEF CodesOK, used
<1>3. ASSUME NEW r \in Request, InviteAdd(r)
      PROVE  CodesOK' /\ issued \subseteq issued'
  <2>1. /\ UNCHANGED <<codes, mapping, used>>
        /\ \E c \in Code \ issued : issued' = issued \cup {c}
    BY <1>3 DEF InviteAdd, invites
  <2>2. QED
    BY <2>1 DEF CodesOK, used
<1>4. ASSUME NEW k \in Key, UpdateRemove(k) \/ UpdateSetCode(k) \/ UpdateSetMapping(k)
      PROVE  CodesOK' /\ issued \subseteq issued'
  <2> DEFINE t == running[k]
  <2>1. /\ t \in Task /\ t.what = "updateInvitationCode"
        /\ UNCHANGED <<issued, spent, unremoved>>
        /\ unsure' \subseteq unsure \cup {t.new}
    BY <1>4, CommandTells DEF UpdateRemove, UpdateSetCode, UpdateSetMapping, QueueOK
  <2>2. t.stu \in Student /\ t.new \in Code /\ t.new \in issued
    BY <2>1, TaskParts DEF QueueOK
  <2>3. \/ UNCHANGED <<codes, mapping>>
        \/ UNCHANGED codes /\ mapping' = [mapping EXCEPT ![t.old] = None]
        \/ UNCHANGED mapping /\ codes' = [codes EXCEPT ![t.stu] = t.new]
        \/ UNCHANGED codes /\ mapping' = [mapping EXCEPT ![t.new] = t.stu]
    BY <1>4 DEF UpdateRemove, UpdateSetCode, UpdateSetMapping
  <2>4. CASE UNCHANGED <<codes, mapping>>
    BY <2>1, <2>2, <2>4 DEF CodesOK
  <2>5. CASE UNCHANGED codes /\ mapping' = [mapping EXCEPT ![t.old] = None]
    <3>1. mapping' \in [Code -> Student \cup {None}]
      BY <2>5 DEF CodesOK
    <3>2. \A c \in Code : mapping'[c] # None => mapping[c] # None
      BY <2>5 DEF CodesOK
    <3>3. QED
      BY <2>1, <2>2, <2>5, <3>1, <3>2 DEF CodesOK
  <2>6. CASE UNCHANGED mapping /\ codes' = [codes EXCEPT ![t.stu] = t.new]
    BY <2>1, <2>2, <2>6 DEF CodesOK
  <2>7. CASE UNCHANGED codes /\ mapping' = [mapping EXCEPT ![t.new] = t.stu]
    <3>1. mapping' \in [Code -> Student \cup {None}]
      BY <2>2, <2>7 DEF CodesOK
    <3>2. \A c \in Code : c # t.new => mapping'[c] = mapping[c]
      BY <2>7 DEF CodesOK
    <3>3. QED
      BY <2>1, <2>2, <2>7, <3>1, <3>2 DEF CodesOK
  <2>8. QED
    BY <2>3, <2>4, <2>5, <2>6, <2>7
<1>5. ASSUME NEW s \in Student, ExpireCode(s)
      PROVE  CodesOK' /\ issued \subseteq issued'
  BY <1>5 DEF ExpireCode, CodesOK, ghosts, used
<1>6. ASSUME NEW c \in Code, ExpireMapping(c)
      PROVE  CodesOK' /\ issued \subseteq issued'
  BY <1>6 DEF ExpireMapping, CodesOK, ghosts, used
<1>7. CASE UNCHANGED <<codes, mapping, issued, used>>
  BY <1>7 DEF CodesOK, used
<1>8. ASSUME NEW r \in Request, BindWrite(r)
      PROVE  CodesOK' /\ issued \subseteq issued'
  <2>1. Binding(req[r], issued)
    BY <1>8, FormOf DEF BindWrite, RequestsOK, BindState
  <2>2. req[r].code \in issued
    BY <2>1 DEF Binding
  <2>3. /\ UNCHANGED <<codes, mapping, issued, unremoved, unsure>>
        /\ spent' \subseteq spent \cup {req[r].code}
    BY <1>8 DEF BindWrite, invites
  <2>4. QED
    BY <2>2, <2>3 DEF CodesOK
<1>9. QED
  BY <1>1, <1>2, <1>3, <1>4, <1>5, <1>6, <1>7, <1>8, CodeWriters

(* One request changes its state, and codes are only ever added.           *)
LEMMA OneRequest ==
    ASSUME RequestsOK, NEW r \in Request, NEW q, Form(q, issued'),
           req' = [req EXCEPT ![r] = q], issued \subseteq issued'
    PROVE  RequestsOK'
BY FormGrows DEF RequestsOK

LEMMA RequestMoves ==
    ASSUME RequestsOK, NEW r \in Request, NEW q, Form(q, issued),
           req' = [req EXCEPT ![r] = q], issued \subseteq issued'
    PROVE  RequestsOK'
<1>1. Form(q, issued')
  BY FormGrows
<1>2. QED
  BY <1>1, OneRequest

LEMMA StartTyped ==
    ASSUME TypeInv, MutualFriends, NEW r \in Request, Call(r)
    PROVE  \E q : Form(q, issued) /\ req' = [req EXCEPT ![r] = q]
<1> USE DEF TypeInv, Start
<1>1. ASSUME NEW s \in Student, NEW c \in Code, Bind(r, s, c)
      PROVE  \E q : Form(q, issued) /\ req' = [req EXCEPT ![r] = q]
  <2> DEFINE q == [at |-> "bind relation", stu |-> s, friend |-> mapping[c], code |-> c,
                   copy |-> FALSE, alone |-> TRUE]
  <2>1. mapping[c] \in Student /\ mapping[c] # s /\ c \in issued
    BY <1>1 DEF Bind, CodesOK
  <2>2. Form(q, issued)
    BY <2>1 DEF Form, Binding, BindState
  <2>3. QED
    BY <1>1, <2>2 DEF Bind
<1>2. ASSUME NEW s \in Student, NEW f \in Student, Delete(r, s, f)
      PROVE  \E q : Form(q, issued) /\ req' = [req EXCEPT ![r] = q]
  <2> DEFINE q == [at |-> "delete write", stu |-> s, friend |-> f]
  <2>1. Form(q, issued)
    BY <1>2 DEF Delete, MutualFriends, Form, Deleting
  <2>2. QED
    BY <1>2, <2>1 DEF Delete
<1>3. ASSUME NEW s \in Student, List(r, s)
      PROVE  \E q : Form(q, issued) /\ req' = [req EXCEPT ![r] = q]
  <2> DEFINE q == [at |-> "list read", stu |-> s, list |-> NoList]
  <2>1. Form(q, issued)
    BY NoListTyped DEF Form, Listing
  <2>2. QED
    BY <1>3, <2>1 DEF List
<1>4. ASSUME NEW s \in Student, Invite(r, s)
      PROVE  \E q : Form(q, issued) /\ req' = [req EXCEPT ![r] = q]
  <2>1. PICK old \in {codes[s], None} :
             req' = [req EXCEPT ![r] = [at |-> "invite add", stu |-> s, code |-> old]]
    BY <1>4 DEF Invite
  <2>2. Form([at |-> "invite add", stu |-> s, code |-> old], issued)
    BY DEF Form, Inviting, CodesOK
  <2>3. QED
    BY <2>1, <2>2
<1>5. ASSUME NEW s \in Student, Cancel(r, s)
      PROVE  \E q : Form(q, issued) /\ req' = [req EXCEPT ![r] = q]
  <2> DEFINE q == [at |-> "cancel lookup", stu |-> s, code |-> codes[s]]
  <2>1. Form(q, issued)
    BY <1>5 DEF Cancel, Form, Cancelling, CodesOK
  <2>2. QED
    BY <1>5, <2>1 DEF Cancel
<1>6. ASSUME NEW s \in Student, NEW ids \in Reorderings, Reorder(r, s, ids)
      PROVE  \E q : Form(q, issued) /\ req' = [req EXCEPT ![r] = q]
  <2> DEFINE q == [at |-> "reorder copy", stu |-> s]
  <2>1. Form(q, issued)
    BY DEF Form, Reordering
  <2>2. QED
    BY <1>6, <2>1 DEF Reorder
<1>7. QED
  BY <1>1, <1>2, <1>3, <1>4, <1>5, <1>6 DEF Call

(* The steps that check the limits: what a request has looked up stays.    *)
LEMMA LimitMoves ==
    ASSUME RequestsOK, NEW r \in Request,
           BindLimit(r) \/ BindCount(r) \/ BindTargetLimit(r) \/ BindTargetCount(r)
    PROVE  /\ Binding(req[r], issued)
           /\ \E q : /\ req' = [req EXCEPT ![r] = q]
                    /\ \/ q = Idle
                       \/ /\ Binding(q, issued)
                          /\ q.stu = req[r].stu /\ q.friend = req[r].friend
                          /\ q.code = req[r].code
<1>1. Binding(req[r], issued) /\ DOMAIN req = Request
  BY FormOf DEF BindLimit, BindCount, BindTargetLimit, BindTargetCount, RequestsOK, BindState
<1>2. ASSUME NEW at \in BindState, NEW copy \in BOOLEAN
      PROVE  LET q == [[req[r] EXCEPT !.at = at] EXCEPT !.copy = copy] IN
             /\ Binding(q, issued)
             /\ q.stu = req[r].stu /\ q.friend = req[r].friend /\ q.code = req[r].code
  BY <1>1 DEF Binding
<1>3. ASSUME NEW at \in BindState, NEW alone \in BOOLEAN
      PROVE  LET q == [[req[r] EXCEPT !.at = at] EXCEPT !.alone = alone] IN
             /\ Binding(q, issued)
             /\ q.stu = req[r].stu /\ q.friend = req[r].friend /\ q.code = req[r].code
  BY <1>1 DEF Binding
<1>4. CASE BindLimit(r) \/ BindTargetLimit(r)
  <2>1. \E at \in BindState, copy \in BOOLEAN :
           req' = [req EXCEPT ![r] = [[req[r] EXCEPT !.at = at] EXCEPT !.copy = copy]]
    <3>1. CASE BindLimit(r)
      <4>1. PICK copy \in BOOLEAN :
                 req' = [req EXCEPT ![r].at = "bind count", ![r].copy = copy]
        BY <3>1 DEF BindLimit
      <4>2. req' = [req EXCEPT ![r] = [[req[r] EXCEPT !.at = "bind count"] EXCEPT !.copy = copy]]
        BY <1>1, <4>1
      <4>3. QED
        BY <4>2 DEF BindState
    <3>2. CASE BindTargetLimit(r)
      <4>1. PICK copy \in BOOLEAN :
                 req' = [req EXCEPT ![r].at = "bind target count", ![r].copy = copy]
        BY <3>2 DEF BindTargetLimit
      <4>2. req' = [req EXCEPT ![r] = [[req[r] EXCEPT !.at = "bind target count"]
                                                 EXCEPT !.copy = copy]]
        BY <1>1, <4>1
      <4>3. QED
        BY <4>2 DEF BindState
    <3>3. QED
      BY <1>4, <3>1, <3>2
  <2>2. PICK at \in BindState, copy \in BOOLEAN :
           req' = [req EXCEPT ![r] = [[req[r] EXCEPT !.at = at] EXCEPT !.copy = copy]]
    BY <2>1
  <2>3. PICK q : q = [[req[r] EXCEPT !.at = at] EXCEPT !.copy = copy]
    OBVIOUS
  <2>4. QED
    BY <1>1, <1>2, <2>2, <2>3
<1>5. CASE BindCount(r) \/ BindTargetCount(r)
  <2>1. req' = [req EXCEPT ![r] = Idle] \/
        \E at \in BindState, alone \in BOOLEAN :
           req' = [req EXCEPT ![r] = [[req[r] EXCEPT !.at = at] EXCEPT !.alone = alone]]
    <3>1. req[r].alone \in BOOLEAN
      BY <1>1 DEF Binding
    <3>2. CASE BindCount(r)
      <4>1. PICK alone \in BOOLEAN :
                 \/ req' = [req EXCEPT ![r] = Idle]
                 \/ req' = [req EXCEPT ![r].at = "bind target limit", ![r].alone = alone]
        BY <3>2 DEF BindCount, Return
      <4>2. \/ req' = [req EXCEPT ![r] = Idle]
            \/ req' = [req EXCEPT ![r] = [[req[r] EXCEPT !.at = "bind target limit"]
                                                    EXCEPT !.alone = alone]]
        BY <1>1, <4>1
      <4>3. QED
        BY <4>2 DEF BindState
    <3>3. CASE BindTargetCount(r)
      <4>1. PICK alone \in BOOLEAN :
                 \/ req' = [req EXCEPT ![r] = Idle]
                 \/ req' = [req EXCEPT ![r].at = "bind write", ![r].alone = alone]
        BY <1>1, <3>1, <3>3 DEF BindTargetCount, Return
      <4>2. \/ req' = [req EXCEPT ![r] = Idle]
            \/ req' = [req EXCEPT ![r] = [[req[r] EXCEPT !.at = "bind write"]
                                                    EXCEPT !.alone = alone]]
        BY <1>1, <4>1
      <4>3. QED
        BY <4>2 DEF BindState
    <3>4. QED
      BY <1>5, <3>2, <3>3
  <2>2. CASE req' = [req EXCEPT ![r] = Idle]
    BY <1>1, <2>2
  <2>3. ASSUME NEW at \in BindState, NEW alone \in BOOLEAN,
               req' = [req EXCEPT ![r] = [[req[r] EXCEPT !.at = at] EXCEPT !.alone = alone]]
        PROVE  \E q : /\ req' = [req EXCEPT ![r] = q]
                     /\ Binding(q, issued)
                     /\ q.stu = req[r].stu /\ q.friend = req[r].friend /\ q.code = req[r].code
    <3>1. PICK q : q = [[req[r] EXCEPT !.at = at] EXCEPT !.alone = alone]
      OBVIOUS
    <3>2. QED
      BY <1>3, <2>3, <3>1
  <2>4. QED
    BY <1>1, <2>1, <2>2, <2>3
<1>6. QED
  BY <1>4, <1>5

LEMMA RequestsTyped ==
    ASSUME TypeInv, MutualFriends, [Next]_vars
    PROVE  RequestsOK'
<1> USE DEF TypeInv
<1>1. issued \subseteq issued'
  BY CodesTyped
<1>2. CASE UNCHANGED req
  BY <1>1, <1>2, FormGrows DEF RequestsOK
<1>3. ASSUME NEW r \in Request, Call(r)
      PROVE  RequestsOK'
  <2>1. PICK q : Form(q, issued) /\ req' = [req EXCEPT ![r] = q]
    BY <1>3, StartTyped
  <2>2. QED
    BY <1>1, <2>1, FormGrows, OneRequest
<1>4. ASSUME NEW r \in Request, Continue(r)
      PROVE  RequestsOK'
  <2>1. Form(Idle, issued)
    BY DEF Form
  <2>2. CASE \/ BindRelation(r) \/ BindOwnCopy(r) \/ BindTargetCopy(r) \/ BindMapping(r)
    <3>1. Binding(req[r], issued)
      BY <2>2, FormOf DEF BindRelation, BindOwnCopy, BindTargetCopy, BindMapping, RequestsOK,
                          BindState
    <3>2. req' = [req EXCEPT ![r] = Idle] \/
          \E at \in BindState : req' = [req EXCEPT ![r] = [req[r] EXCEPT !.at = at]]
      BY <2>2 DEF BindRelation, BindOwnCopy, BindTargetCopy, BindMapping, GoTo, Return, BindState
    <3>3. \A at \in BindState : Form([req[r] EXCEPT !.at = at], issued)
      BY <3>1, BindingMoves DEF Form
    <3>4. CASE req' = [req EXCEPT ![r] = Idle]
      BY <1>1, <2>1, <3>4, RequestMoves
    <3>5. ASSUME NEW at \in BindState, req' = [req EXCEPT ![r] = [req[r] EXCEPT !.at = at]]
          PROVE  RequestsOK'
      <4> DEFINE q == [req[r] EXCEPT !.at = at]
      <4>1. Form(q, issued) /\ req' = [req EXCEPT ![r] = q]
        BY <3>3, <3>5
      <4> HIDE DEF q
      <4>2. QED
        BY <1>1, <4>1, RequestMoves
    <3>6. QED
      BY <3>2, <3>4, <3>5
  <2>3. CASE BindLimit(r) \/ BindCount(r) \/ BindTargetLimit(r) \/ BindTargetCount(r)
    <3>1. PICK q : req' = [req EXCEPT ![r] = q] /\ (q = Idle \/ Binding(q, issued))
      BY <2>3, LimitMoves
    <3>2. Form(q, issued)
      BY <3>1 DEF Form
    <3>3. QED
      BY <1>1, <3>1, <3>2, RequestMoves
  <2>4. CASE BindWrite(r)
    <3>1. Binding(req[r], issued)
      BY <2>4, FormOf DEF BindWrite, RequestsOK, BindState
    <3>2. UNCHANGED issued
      BY <2>4 DEF BindWrite
    <3>3. CASE req' = [req EXCEPT ![r] = Idle]
      BY <2>1, <3>2, <3>3, OneRequest
    <3>4. CASE req' = [Overtaken(r) EXCEPT ![r].at = "bind own copy"]
      <4>1. Overtaken(r)[r] = req[r]
        BY DEF Overtaken
      <4>2. Form([req[r] EXCEPT !.at = "bind own copy"], issued)
        BY <3>1, BindingMoves DEF Form, BindState
      <4>3. QED
        BY <3>2, <3>4, <4>1, <4>2, OvertakenForm DEF RequestsOK
    <3>5. QED
      BY <2>4, <3>3, <3>4 DEF BindWrite, Return
  <2>5. CASE BindCode(r) \/ DeleteAdd(r) \/ ListAdd(r) \/ ReorderCopy(r) \/ InviteAdd(r) \/ CancelCode(r)
    <3>1. req' = [req EXCEPT ![r] = Idle]
      BY <2>5 DEF BindCode, DeleteAdd, ListAdd, ReorderCopy, InviteAdd, CancelCode, Return
    <3>2. QED
      BY <1>1, <2>1, <3>1, FormGrows, OneRequest
  <2>6. CASE DeleteWrite(r)
    <3>1. Deleting(req[r])
      BY <2>6, FormOf DEF DeleteWrite, RequestsOK
    <3>2. Form([req[r] EXCEPT !.at = "delete add"], issued)
      BY <3>1 DEF Form, Deleting
    <3>3. QED
      BY <1>1, <2>6, <3>2, FormGrows, OneRequest DEF DeleteWrite, GoTo
  <2>7. CASE ListRead(r)
    <3>1. Listing(req[r])
      BY <2>7, FormOf DEF ListRead, RequestsOK
    <3>2. rows[req[r].stu] \in FriendList
      BY <3>1 DEF Listing, ListsOK
    <3>3. Form([[req[r] EXCEPT !.at = "list add"] EXCEPT !.list = rows[req[r].stu]], issued)
      BY <3>1, <3>2 DEF Form, Listing
    <3>4. req' = [req EXCEPT ![r] = [[req[r] EXCEPT !.at = "list add"]
                                               EXCEPT !.list = rows[req[r].stu]]]
      BY <2>7 DEF ListRead, RequestsOK
    <3>5. QED
      BY <1>1, <3>3, <3>4, FormGrows, OneRequest
  <2>8. CASE CancelLookup(r) \/ CancelMapping(r)
    <3>1. Cancelling(req[r], issued)
      BY <2>8, FormOf DEF CancelLookup, CancelMapping, RequestsOK
    <3>2. /\ Form([req[r] EXCEPT !.at = "cancel mapping"], issued)
          /\ Form([req[r] EXCEPT !.at = "cancel code"], issued)
      BY <3>1 DEF Form, Cancelling
    <3>3. \/ req' = [req EXCEPT ![r] = Idle]
          \/ req' = [req EXCEPT ![r] = [req[r] EXCEPT !.at = "cancel mapping"]]
          \/ req' = [req EXCEPT ![r] = [req[r] EXCEPT !.at = "cancel code"]]
      BY <2>8 DEF CancelLookup, CancelMapping, GoTo, Return
    <3>4. CASE req' = [req EXCEPT ![r] = Idle]
      BY <1>1, <2>1, <3>4, RequestMoves
    <3>5. CASE req' = [req EXCEPT ![r] = [req[r] EXCEPT !.at = "cancel mapping"]]
      BY <1>1, <3>2, <3>5, RequestMoves
    <3>6. CASE req' = [req EXCEPT ![r] = [req[r] EXCEPT !.at = "cancel code"]]
      BY <1>1, <3>2, <3>6, RequestMoves
    <3>7. QED
      BY <3>3, <3>4, <3>5, <3>6
  <2>9. QED
    BY <1>4, <2>2, <2>3, <2>4, <2>5, <2>6, <2>7, <2>8 DEF Continue
<1>5. QED
  BY <1>2, <1>3, <1>4, RequestWriters

-----------------------------------------------------------------------------
(* The queue: what a request adds is a task under its own key.             *)
LEMMA AddTyped ==
    ASSUME QueueOK, issued \subseteq issued', NEW t \in Task, Add(t),
           t.what = "updateInvitationCode" => t.new \in issued'
    PROVE  QueueOK'
<1>1. KeyOf[t] \in Key /\ t # None
  BY TaskParts
<1>2. /\ pending' = [pending EXCEPT ![KeyOf[t]] = t]
      /\ UNCHANGED <<running, progress>>
      /\ renewed' \subseteq renewed \cup {KeyOf[t]}
  BY DEF Add, Executor!Submit
<1>3. /\ pending' \in [Key -> Task \cup {None}]
      /\ \A k \in Key : k # KeyOf[t] => pending'[k] = pending[k]
      /\ pending'[KeyOf[t]] = t
  BY <1>1, <1>2 DEF QueueOK
<1>4. ASSUME NEW k \in Key
      PROVE  /\ pending'[k] # None => KeyOf[pending'[k]] = k
             /\ running'[k] # None => KeyOf[running'[k]] = k /\ pending'[k] # None
             /\ \A u \in {pending'[k], running'[k]} \ {None} :
                   u.what = "updateInvitationCode" => u.new \in issued'
  <2>1. CASE k = KeyOf[t]
    BY <1>1, <1>2, <1>3, <2>1 DEF QueueOK
  <2>2. CASE k # KeyOf[t]
    BY <1>2, <1>3, <2>2 DEF QueueOK
  <2>3. QED
    BY <2>1, <2>2
<1>5. QED
  BY <1>1, <1>2, <1>3, <1>4 DEF QueueOK

(* The tasks that requests add, and what is left of the queue.             *)
LEMMA RequestAdds ==
    ASSUME TypeInv, NEW r \in Request
    PROVE  /\ DeleteAdd(r) =>
                /\ Deleting(req[r])
                /\ [what |-> "deleteFriendCache", stu |-> req[r].stu,
                    friend |-> req[r].friend] \in Task
           /\ ListAdd(r) =>
                /\ Listing(req[r])
                /\ [what |-> "setFriendListCache", stu |-> req[r].stu,
                    list |-> req[r].list] \in Task
           /\ InviteAdd(r) =>
                \E c \in Code \ issued :
                   LET t == [what |-> "updateInvitationCode", stu |-> req[r].stu,
                             old |-> req[r].code, new |-> c] IN
                   t \in Task /\ Add(t) /\ issued' = issued \cup {c}
<1> USE DEF TypeInv
<1>0. Form(req[r], issued)
  BY DEF RequestsOK
<1>1. ASSUME DeleteAdd(r)
      PROVE  /\ Deleting(req[r])
             /\ [what |-> "deleteFriendCache", stu |-> req[r].stu,
                 friend |-> req[r].friend] \in Task
  <2>1. Deleting(req[r])
    BY <1>0, <1>1, FormOf DEF DeleteAdd
  <2>2. req[r].stu \in Student /\ req[r].friend \in Student /\ req[r].stu # req[r].friend
    BY <2>1 DEF Deleting
  <2>3. QED
    BY <2>1, <2>2, AddedTasks
<1>2. ASSUME ListAdd(r)
      PROVE  /\ Listing(req[r])
             /\ [what |-> "setFriendListCache", stu |-> req[r].stu,
                 list |-> req[r].list] \in Task
  <2>1. Listing(req[r])
    BY <1>0, <1>2, FormOf DEF ListAdd
  <2>2. req[r].stu \in Student /\ req[r].list \in FriendList
    BY <2>1 DEF Listing
  <2>3. QED
    BY <2>1, <2>2, AddedTasks
<1>3. ASSUME InviteAdd(r)
      PROVE  \E c \in Code \ issued :
                LET t == [what |-> "updateInvitationCode", stu |-> req[r].stu,
                          old |-> req[r].code, new |-> c] IN
                t \in Task /\ Add(t) /\ issued' = issued \cup {c}
  <2>1. Inviting(req[r], issued)
    BY <1>0, <1>3, FormOf DEF InviteAdd
  <2>2. req[r].stu \in Student /\ req[r].code \in Code \cup {None}
    BY <2>1 DEF Inviting, CodesOK
  <2>3. PICK c \in Code \ issued :
             /\ issued' = issued \cup {c}
             /\ Add([what |-> "updateInvitationCode", stu |-> req[r].stu,
                     old |-> req[r].code, new |-> c])
    BY <1>3 DEF InviteAdd
  <2>4. [what |-> "updateInvitationCode", stu |-> req[r].stu,
         old |-> req[r].code, new |-> c] \in Task
    BY <2>2, AddedTasks
  <2>5. QED
    BY <2>3, <2>4
<1>4. QED
  BY <1>1, <1>2, <1>3

LEMMA QueueTyped ==
    ASSUME TypeInv, [Next]_vars
    PROVE  QueueOK'
<1> USE DEF TypeInv
<1>1. issued \subseteq issued'
  BY CodesTyped
<1>2. ASSUME NEW r \in Request, DeleteAdd(r)
      PROVE  QueueOK'
  <2> DEFINE t == [what |-> "deleteFriendCache", stu |-> req[r].stu, friend |-> req[r].friend]
  <2>1. t \in Task /\ Add(t)
    BY <1>2, RequestAdds DEF DeleteAdd
  <2>2. t.what = "deleteFriendCache"
    OBVIOUS
  <2> HIDE DEF t
  <2>3. QED
    BY <1>1, <2>1, <2>2, AddTyped
<1>3. ASSUME NEW r \in Request, ListAdd(r)
      PROVE  QueueOK'
  <2> DEFINE t == [what |-> "setFriendListCache", stu |-> req[r].stu, list |-> req[r].list]
  <2>1. t \in Task /\ Add(t)
    BY <1>3, RequestAdds DEF ListAdd
  <2>2. t.what = "setFriendListCache"
    OBVIOUS
  <2> HIDE DEF t
  <2>3. QED
    BY <1>1, <2>1, <2>2, AddTyped
<1>4. ASSUME NEW r \in Request, InviteAdd(r)
      PROVE  QueueOK'
  <2> DEFINE t(c) == [what |-> "updateInvitationCode", stu |-> req[r].stu,
                      old |-> req[r].code, new |-> c]
  <2>1. PICK c \in Code \ issued : t(c) \in Task /\ Add(t(c)) /\ issued' = issued \cup {c}
    BY <1>4, RequestAdds
  <2>2. t(c).new \in issued'
    BY <2>1
  <2> HIDE DEF t
  <2>3. QED
    BY <1>1, <2>1, <2>2, AddTyped
<1>5. ASSUME NEW k \in Key, Begin(k)
      PROVE  QueueOK'
  <2>1. /\ running[k] = None /\ pending[k] # None
        /\ running' = [running EXCEPT ![k] = pending[k]]
        /\ progress' = [progress EXCEPT ![k] = 0]
        /\ UNCHANGED <<pending, renewed>>
    BY <1>5 DEF Begin, Executor!Begin, ghosts
  <2>2. QED
    BY <1>1, <2>1 DEF QueueOK
<1>6. ASSUME NEW k \in Key, Succeed(k)
      PROVE  QueueOK'
  <2>1. /\ pending' = [pending EXCEPT ![k] = None]
        /\ running' = [running EXCEPT ![k] = None]
        /\ progress' = [progress EXCEPT ![k] = 0]
        /\ renewed' = renewed \ {k}
    BY <1>6 DEF Succeed, Executor!Succeed
  <2>2. QED
    BY <1>1, <2>1 DEF QueueOK
<1>7. ASSUME NEW k \in Key, CommandFails(k)
      PROVE  QueueOK'
  <2>1. /\ UNCHANGED <<pending, renewed>>
        /\ running' = [running EXCEPT ![k] = None]
        /\ progress' = [progress EXCEPT ![k] = 0]
    BY <1>7 DEF CommandFails, GiveUp, Executor!Release, ghosts
  <2>2. QED
    BY <1>1, <2>1 DEF QueueOK
<1>8. ASSUME NEW k \in Key,
             \/ SetUserFriendListCache(k) \/ DeleteUserFriendCache(k)
             \/ UpdateRemove(k) \/ UpdateSetCode(k) \/ UpdateSetMapping(k)
      PROVE  QueueOK'
  <2>1. \/ Command(k, "setFriendListCache", 1)
        \/ Command(k, "deleteFriendCache", 1)
        \/ \E n \in {1, 2, 3} : Command(k, "updateInvitationCode", n)
    BY <1>8 DEF SetUserFriendListCache, DeleteUserFriendCache, UpdateRemove, UpdateSetCode,
                UpdateSetMapping
  <2>2. /\ UNCHANGED <<pending, renewed>>
        /\ \/ UNCHANGED running /\ \E n \in {1, 2, 3} : progress' = [progress EXCEPT ![k] = n]
           \/ UNCHANGED <<running, progress>>
           \/ /\ running' = [running EXCEPT ![k] = None]
              /\ progress' = [progress EXCEPT ![k] = 0]
    BY <2>1, CommandTells
  <2>3. QED
    BY <1>1, <2>2 DEF QueueOK
<1>9. CASE UNCHANGED <<pending, running, progress, renewed>>
  BY <1>1, <1>9 DEF QueueOK
<1>10. QED
  BY <1>2, <1>3, <1>4, <1>5, <1>6, <1>7, <1>8, <1>9, QueueWriters DEF Work

LEMMA LeftTyped ==
    ASSUME TypeInv, [Next]_vars
    PROVE  left' \in [Kind -> Nat]
<1> DEFINE Moves == UNCHANGED left \/ \E kind : Spend(kind)
<1> USE DEF vars, lists, invites, queue, ghosts, used, OnlyRequest, Fault
<1>1. ASSUME NEW r \in Request, Call(r)
      PROVE  Moves
  BY <1>1 DEF Call, Bind, Delete, List, Invite, Cancel, Reorder, Start
<1>2. ASSUME NEW r \in Request, Continue(r)
      PROVE  Moves
  <2>1. ASSUME NEW s, InvalidateFriendListCache(s) PROVE Moves
    BY <2>1 DEF InvalidateFriendListCache
  <2>2. ASSUME NEW s, NEW answer, IsKeyExist(s, answer) PROVE Moves
    BY <2>2 DEF IsKeyExist
  <2>3. QED
    BY <1>2, <2>1, <2>2
       DEF Continue, BindRelation, BindLimit, BindCount, BindTargetLimit,
              BindTargetCount, BindWrite, BindOwnCopy,
           BindTargetCopy, BindMapping, BindCode, DeleteWrite, DeleteAdd, ListRead, ListAdd,
           ReorderCopy, InviteAdd, CancelLookup, CancelMapping, CancelCode
<1>3. ASSUME NEW k \in Key, Work(k) \/ CommandFails(k)
      PROVE  Moves
  BY <1>3 DEF Work, CommandFails, GiveUp, Begin, Succeed, SetUserFriendListCache,
              DeleteUserFriendCache, Command, UpdateRemove, UpdateSetCode, UpdateSetMapping
<1>4. ASSUME NEW s \in Student, ExpireList(s) \/ ExpireCode(s)
      PROVE  Moves
  BY <1>4 DEF ExpireList, ExpireCode
<1>5. ASSUME NEW c \in Code, ExpireMapping(c)
      PROVE  Moves
  BY <1>5 DEF ExpireMapping
<1>6. UNCHANGED vars => Moves
  OBVIOUS
<1> HIDE DEF Moves
<1>7. Moves
  BY <1>1, <1>2, <1>3, <1>4, <1>5, <1>6 DEF Next
<1>8. ASSUME NEW kind, Spend(kind) PROVE left' \in [Kind -> Nat]
  <2>1. kind \in Kind => left[kind] - 1 \in Nat
    BY <1>8 DEF TypeInv, Spend
  <2>2. QED
    BY <1>8, <2>1 DEF TypeInv, Spend
<1>9. QED
  BY <1>7, <1>8 DEF TypeInv, Moves

-----------------------------------------------------------------------------
(* Friendship: only binds, deletes and reorders write relations, and each  *)
(* of them treats the rows of both students alike.                         *)

LEMMA StaysMutual ==
    ASSUME TypeInv, MutualFriends, [Next]_vars
    PROVE  MutualFriends'
<1> USE DEF TypeInv
<1>1. ASSUME NEW r \in Request, BindWrite(r)
      PROVE  MutualFriends'
  <2> DEFINE s == req[r].stu
             f == req[r].friend
  <2>1. Binding(req[r], issued)
    BY <1>1, FormOf DEF BindWrite, RequestsOK, BindState
  <2>2. s \in Student /\ f \in Student /\ s # f
    BY <2>1 DEF Binding
  <2>3. CASE rows' = Befriend(s, f)
    <3> HIDE DEF s, f
    <3>1. /\ With(rows[s], f) \in FriendList /\ DOMAIN With(rows[s], f) = DOMAIN rows[s] \cup {f}
          /\ With(rows[f], s) \in FriendList /\ DOMAIN With(rows[f], s) = DOMAIN rows[f] \cup {s}
      BY <2>2, WithTyped DEF ListsOK
    <3>2. /\ DOMAIN rows'[s] = DOMAIN rows[s] \cup {f}
          /\ DOMAIN rows'[f] = DOMAIN rows[f] \cup {s}
          /\ \A u \in Student \ {s, f} : rows'[u] = rows[u]
      BY <2>2, <2>3, <3>1 DEF Befriend, ListsOK
    <3>3. QED
      BY <2>2, <3>2 DEF MutualFriends, IsFriend
  <2>4. CASE UNCHANGED rows
    BY <2>4 DEF MutualFriends, IsFriend
  <2>5. QED
    BY <1>1, <2>3, <2>4 DEF BindWrite
<1>2. ASSUME NEW r \in Request, DeleteWrite(r)
      PROVE  MutualFriends'
  <2> DEFINE s == req[r].stu
             f == req[r].friend
  <2>1. Deleting(req[r])
    BY <1>2, FormOf DEF DeleteWrite, RequestsOK
  <2>2. s \in Student /\ f \in Student /\ s # f
    BY <2>1 DEF Deleting
  <2>3. rows' = [rows EXCEPT ![s] = Without(@, f), ![f] = Without(@, s)]
    BY <1>2 DEF DeleteWrite
  <2> HIDE DEF s, f
  <2>4. /\ DOMAIN Without(rows[s], f) = DOMAIN rows[s] \ {f}
        /\ DOMAIN Without(rows[f], s) = DOMAIN rows[f] \ {s}
    BY <2>2, WithoutTyped DEF ListsOK
  <2>5. /\ DOMAIN rows'[s] = DOMAIN rows[s] \ {f}
        /\ DOMAIN rows'[f] = DOMAIN rows[f] \ {s}
        /\ \A u \in Student \ {s, f} : rows'[u] = rows[u]
    BY <2>2, <2>3, <2>4 DEF ListsOK
  <2>6. QED
    BY <2>2, <2>5 DEF MutualFriends, IsFriend
<1>3. ASSUME NEW r \in Request, NEW s \in Student, NEW ids \in Reorderings, Reorder(r, s, ids)
      PROVE  MutualFriends'
  <2>1. rows' = [rows EXCEPT ![s] = [f \in DOMAIN @ |-> OrderSeq(ids, f)]]
    BY <1>3 DEF Reorder
  <2>2. \A u \in Student : DOMAIN rows'[u] = DOMAIN rows[u]
    BY <2>1 DEF ListsOK
  <2>3. QED
    BY <2>2 DEF MutualFriends, IsFriend
<1>4. CASE UNCHANGED rows
  BY <1>4 DEF MutualFriends, IsFriend
<1>5. ASSUME NEW s \in Student, InvalidateFriendListCache(s)
      PROVE  UNCHANGED rows
  BY <1>5 DEF InvalidateFriendListCache
<1>6. ASSUME NEW r \in Request, BindOwnCopy(r) \/ BindTargetCopy(r) \/ ReorderCopy(r)
      PROVE  UNCHANGED rows
  BY <1>6, <1>5 DEF BindOwnCopy, BindTargetCopy, ReorderCopy, InvalidateFriendListCache
<1>7. ASSUME NEW k \in Key,
             SetUserFriendListCache(k) \/ DeleteUserFriendCache(k) \/ Succeed(k)
      PROVE  UNCHANGED rows
  BY <1>7 DEF SetUserFriendListCache, DeleteUserFriendCache, Succeed
<1>8. ASSUME NEW s \in Student, ExpireList(s)
      PROVE  UNCHANGED rows
  BY <1>8 DEF ExpireList
<1>9. QED
  BY <1>1, <1>2, <1>3, <1>4, <1>6, <1>7, <1>8, ListWriters

LEMMA FriendsInit ==
    ASSUME Init
    PROVE  TypeInv /\ MutualFriends
<1> USE FriendsAssumption
<1>1. PICK sc \in Scenarios :
         /\ rows = [s \in Student |-> [f \in {u \in Student : <<s, u>> \in sc.before} |-> 0]]
         /\ left = sc.budget
  BY DEF Init
<1>2. sc \in [before : SUBSET (Student \X Student), budget : [Kind -> Nat]]
  OBVIOUS
<1>3. \A s \in Student : rows[s] \in FriendList
  <2>1. 0 \in Orders
    BY DEF Orders
  <2>2. \A s \in Student : rows[s] \in [{u \in Student : <<s, u>> \in sc.before} -> Orders]
    BY <1>1, <2>1
  <2>3. QED
    BY <2>2, ListIntro
<1>4. ListsOK
  BY <1>1, <1>3, NoListTyped DEF Init, ListsOK
<1>5. MutualFriends
  <2>1. \A s, f \in Student : IsFriend(s, f) <=> <<s, f>> \in sc.before
    BY <1>1 DEF IsFriend
  <2>2. \A s, f \in Student : <<s, f>> \in sc.before => s # f /\ <<f, s>> \in sc.before
    OBVIOUS
  <2>3. QED
    BY <2>1, <2>2 DEF MutualFriends
<1>6. CodesOK
  <2>1. issued \subseteq Code /\ codes \in [Student -> issued \cup {None}]
    BY DEF Init
  <2>2. \A c \in Code : mapping[c] \in Student \cup {None}
    BY DEF Init
  <2>3. \A c \in Code : mapping[c] # None => c \in issued
    BY DEF Init
  <2>4. mapping = [c \in Code |-> mapping[c]] /\ spent = {} /\ unremoved = {} /\ unsure = {}
    BY DEF Init
  <2>5. QED
    BY <2>1, <2>2, <2>3, <2>4 DEF CodesOK
<1>7. RequestsOK
  BY DEF Init, RequestsOK, Form
<1>8. QueueOK
  BY DEF Init, QueueOK, Executor!Init
<1>9. QED
  BY <1>1, <1>2, <1>4, <1>5, <1>6, <1>7, <1>8 DEF TypeInv

LEMMA FriendsStep ==
    ASSUME TypeInv, MutualFriends, [Next]_vars
    PROVE  TypeInv' /\ MutualFriends'
BY ListsTyped, CodesTyped, RequestsTyped, QueueTyped, LeftTyped, StaysMutual DEF TypeInv

(* Every variable keeps its type.                                          *)
THEOREM TypeCorrect == Spec => []TypeOK
<1>1. TypeInv => TypeOK
  <2> SUFFICES ASSUME TypeInv PROVE TypeOK
    OBVIOUS
  <2>1. \A r \in Request : req[r].at \in State
    BY FormOf DEF TypeInv, RequestsOK
  <2>2. codes \in [Student -> Code \cup {None}]
    BY DEF TypeInv, CodesOK
  <2>3. QED
    BY <2>1, <2>2 DEF TypeInv, ListsOK, CodesOK, RequestsOK, QueueOK, TypeOK
<1>2. QED
  BY <1>1, FriendsInit, FriendsStep, PTL DEF Spec

(* Friendship is mutual, and nobody is a friend of himself, however the    *)
(* transactions of binds and deletes interleave.                           *)
THEOREM FriendshipMutual == Spec => []MutualFriends
BY FriendsInit, FriendsStep, PTL DEF Spec

-----------------------------------------------------------------------------
(* What a step makes of the request that takes it, and of the others       *)

LEMMA OthersStay ==
    ASSUME TypeInv, NEW r \in Request, NEW q \in Request, q # r, Call(r) \/ Continue(r)
    PROVE  \/ req'[q] = req[q]
           \/ /\ req[q].at \in Checked
              /\ Binding(req[q], issued) /\ Binding(req'[q], issued)
              /\ req'[q].at = req[q].at /\ req'[q].stu = req[q].stu
              /\ req'[q].friend = req[q].friend /\ req'[q].code = req[q].code
              /\ ~req'[q].alone
<1> USE DEF TypeInv
<1>1. CASE req'[q] = Overtaken(r)[q]
  <2>1. Form(req[q], issued)
    BY DEF RequestsOK
  <2>2. req[q].at \in Checked => Binding(req[q], issued)
    BY <2>1, FormOf DEF BindState, Checked
  <2>3. \/ Overtaken(r)[q] = req[q]
        \/ /\ req[q].at \in Checked
           /\ Binding(Overtaken(r)[q], issued)
           /\ Overtaken(r)[q].stu = req[q].stu
           /\ Overtaken(r)[q].friend = req[q].friend
           /\ Overtaken(r)[q].code = req[q].code
           /\ ~Overtaken(r)[q].alone
    BY OvertakenForm
  <2>4. Overtaken(r)[q].at = req[q].at
    BY OvertakenForm
  <2>5. QED
    BY <1>1, <2>2, <2>3, <2>4
<1>2. CASE BindWrite(r)
  BY <1>1, <1>2 DEF BindWrite, Return, RequestsOK, Overtaken
<1>3. CASE Call(r)
  BY <1>3 DEF Call, Bind, Delete, List, Invite, Cancel, Reorder, Start, RequestsOK
<1>4. CASE /\ Continue(r) /\ ~BindWrite(r)
  BY <1>4 DEF Continue, BindRelation, BindLimit, BindCount, BindTargetLimit,
              BindTargetCount, BindOwnCopy, BindTargetCopy,
              BindMapping, BindCode, DeleteWrite, DeleteAdd, ListRead, ListAdd, ReorderCopy,
              InviteAdd, CancelLookup, CancelMapping, CancelCode, GoTo, Return, RequestsOK
<1>5. QED
  BY <1>2, <1>3, <1>4

LEMMA BindGoesOn ==
    ASSUME TypeInv, NEW r \in Request,
           \/ BindRelation(r) \/ BindLimit(r) \/ BindCount(r) \/ BindTargetLimit(r)
           \/ BindTargetCount(r) \/ BindWrite(r) \/ BindOwnCopy(r) \/ BindTargetCopy(r) \/ BindMapping(r)
    PROVE  /\ Binding(req[r], issued)
           /\ \/ req'[r] = Idle
              \/ /\ Binding(req'[r], issued)
                 /\ req'[r].stu = req[r].stu
                 /\ req'[r].friend = req[r].friend
                 /\ req'[r].code = req[r].code
<1> USE DEF TypeInv
<1>0. Form(req[r], issued) /\ DOMAIN req = Request
  BY DEF RequestsOK
<1>1. Binding(req[r], issued)
  BY <1>0, FormOf DEF BindRelation, BindLimit, BindCount, BindTargetLimit,
              BindTargetCount, BindWrite, BindOwnCopy,
                      BindTargetCopy, BindMapping, BindState
<1>2. CASE BindRelation(r) \/ BindOwnCopy(r) \/ BindTargetCopy(r) \/ BindMapping(r)
  <2>1. req'[r] = Idle \/ \E at \in BindState : req'[r] = [req[r] EXCEPT !.at = at]
    BY <1>0, <1>2 DEF BindRelation, BindOwnCopy, BindTargetCopy, BindMapping, GoTo, Return,
                      BindState
  <2>2. ASSUME NEW at \in BindState, req'[r] = [req[r] EXCEPT !.at = at]
        PROVE  /\ Binding(req'[r], issued)
               /\ req'[r].stu = req[r].stu
               /\ req'[r].friend = req[r].friend
               /\ req'[r].code = req[r].code
    BY <1>1, <2>2, BindingMoves
  <2>3. QED
    BY <1>1, <2>1, <2>2
<1>3. CASE BindLimit(r) \/ BindCount(r) \/ BindTargetLimit(r) \/ BindTargetCount(r)
  BY <1>0, <1>3, LimitMoves
<1>4. CASE BindWrite(r)
  <2>1. req'[r] = Idle \/ req'[r] = [req[r] EXCEPT !.at = "bind own copy"]
    BY <1>0, <1>4 DEF BindWrite, Return, Overtaken
  <2>2. ASSUME req'[r] = [req[r] EXCEPT !.at = "bind own copy"]
        PROVE  /\ Binding(req'[r], issued)
               /\ req'[r].stu = req[r].stu
               /\ req'[r].friend = req[r].friend
               /\ req'[r].code = req[r].code
    BY <1>1, <2>2 DEF Binding, BindState
  <2>3. QED
    BY <1>1, <2>1, <2>2
<1>5. QED
  BY <1>2, <1>3, <1>4

LEMMA CancelGoesOn ==
    ASSUME TypeInv, NEW r \in Request, CancelLookup(r) \/ CancelMapping(r)
    PROVE  /\ Cancelling(req[r], issued)
           /\ \/ req'[r] = Idle
              \/ /\ Cancelling(req'[r], issued)
                 /\ req'[r].stu = req[r].stu /\ req'[r].code = req[r].code
<1> USE DEF TypeInv
<1>0. Form(req[r], issued) /\ DOMAIN req = Request
  BY DEF RequestsOK
<1>1. Cancelling(req[r], issued)
  BY <1>0, FormOf DEF CancelLookup, CancelMapping
<1>2. \/ req'[r] = Idle
      \/ req'[r] = [req[r] EXCEPT !.at = "cancel mapping"]
      \/ req'[r] = [req[r] EXCEPT !.at = "cancel code"]
  BY <1>0 DEF CancelLookup, CancelMapping, GoTo, Return
<1>3. QED
  BY <1>1, <1>2 DEF Cancelling

-----------------------------------------------------------------------------
(* Invitation codes: a code is used once its mapping has been stored, and  *)
(* a task whose code is used has nothing left to do, unless the command    *)
(* that stored the mapping was not answered.  No two tasks store the same  *)
(* code.                                                                   *)

Holds(q, c) == q.at \in BindState \cup {"cancel mapping", "cancel code"} /\ q.code = c

Used(c) == mapping[c] # None \/ c \in spent \/ \E r \in Request : Holds(req[r], c)

Updating(k) == {t \in {pending[k], running[k]} \ {None} : t.what = "updateInvitationCode"}

UsedOnce ==
    /\ \A k \in Key : \A t \in Updating(k) :
          Used(t.new) => (running[k] = t /\ progress[k] = 3) \/ t.new \in unsure
    /\ \A k, l \in Key : \A t \in Updating(k), u \in Updating(l) : t.new = u.new => t = u

LEMMA HeldBefore ==
    ASSUME TypeInv, [Next]_vars, NEW r \in Request, NEW c, Holds(req'[r], c)
    PROVE  Holds(req[r], c) \/ mapping[c] # None
<1> USE DEF TypeInv
<1>1. CASE UNCHANGED req
  BY <1>1
<1>2. ASSUME NEW q \in Request, q # r, Call(q) \/ Continue(q)
      PROVE  Holds(req[r], c)
  BY <1>2, OthersStay DEF Holds
<1>3. CASE Call(r)
  <2>1. DOMAIN req = Request
    BY DEF RequestsOK
  <2>2. req'[r].at \in BindState \cup {"cancel mapping", "cancel code"} /\ req'[r].code = c
    BY DEF Holds
  <2>3. ASSUME NEW s \in Student, NEW d \in Code, Bind(r, s, d)
        PROVE  mapping[c] # None
    <3>1. mapping[d] # None /\ req'[r].code = d
      BY <2>1, <2>3 DEF Bind, Start
    <3>2. QED
      BY <2>2, <3>1
  <2>4. ASSUME NEW s \in Student,
               \/ \E f \in Student : Delete(r, s, f)
               \/ List(r, s) \/ Invite(r, s) \/ Cancel(r, s)
               \/ \E ids \in Reorderings : Reorder(r, s, ids)
        PROVE  FALSE
    <3>1. req'[r].at \in {"delete write", "list read", "invite add", "cancel lookup",
                          "reorder copy"}
      <4>1. ASSUME NEW f \in Student, Delete(r, s, f) PROVE req'[r].at = "delete write"
        BY <2>1, <4>1 DEF Delete, Start
      <4>2. CASE List(r, s)
        BY <2>1, <4>2 DEF List, Start
      <4>3. CASE Invite(r, s)
        <5>1. PICK old : req' = [req EXCEPT ![r] = [at |-> "invite add", stu |-> s, code |-> old]]
          BY <4>3 DEF Invite, Start
        <5>2. req'[r].at = "invite add"
          BY <2>1, <5>1
        <5>3. QED
          BY <5>2
      <4>4. CASE Cancel(r, s)
        BY <2>1, <4>4 DEF Cancel, Start
      <4>5. ASSUME NEW ids \in Reorderings, Reorder(r, s, ids) PROVE req'[r].at = "reorder copy"
        BY <2>1, <4>5 DEF Reorder, Start
      <4>6. QED
        BY <2>4, <4>1, <4>2, <4>3, <4>4, <4>5
    <3>2. QED
      BY <2>2, <3>1 DEF BindState
  <2>5. QED
    BY <1>3, <2>3, <2>4 DEF Call
<1>4. ASSUME req'[r] = Idle
      PROVE  FALSE
  <2>1. req'[r].at = "idle"
    BY <1>4 DEF Idle
  <2>2. QED
    BY <2>1 DEF Holds, BindState
<1>5. CASE \/ BindRelation(r) \/ BindLimit(r) \/ BindCount(r) \/ BindTargetLimit(r)
           \/ BindTargetCount(r) \/ BindWrite(r) \/ BindOwnCopy(r) \/ BindTargetCopy(r) \/ BindMapping(r)
  <2>1. Binding(req[r], issued) /\ (req'[r] = Idle \/ req'[r].code = req[r].code)
    BY <1>5, BindGoesOn
  <2>2. req[r].at \in BindState
    BY <2>1 DEF Binding
  <2>3. QED
    BY <1>4, <2>1, <2>2 DEF Holds
<1>6. CASE CancelLookup(r) \/ CancelMapping(r)
  <2>1. Cancelling(req[r], issued) /\ (req'[r] = Idle \/ req'[r].code = req[r].code)
    BY <1>6, CancelGoesOn
  <2>2. req[r].stu # None
    BY <2>1, FriendsAssumption DEF Cancelling
  <2>3. CASE CancelLookup(r)
    BY <1>4, <2>1, <2>2, <2>3 DEF CancelLookup, Holds, Return, RequestsOK
  <2>4. CASE CancelMapping(r)
    BY <1>4, <2>1, <2>4 DEF CancelMapping, Holds
  <2>5. QED
    BY <1>6, <2>3, <2>4
<1>7. CASE BindCode(r) \/ DeleteAdd(r) \/ ListAdd(r) \/ ReorderCopy(r) \/ InviteAdd(r) \/ CancelCode(r)
  <2>1. req'[r] = Idle
    BY <1>7 DEF BindCode, DeleteAdd, ListAdd, ReorderCopy, InviteAdd, CancelCode, Return, RequestsOK
  <2>2. QED
    BY <1>4, <2>1
<1>8. CASE DeleteWrite(r) \/ ListRead(r)
  <2>1. Form(req[r], issued) /\ DOMAIN req = Request
    BY DEF RequestsOK
  <2>2. CASE DeleteWrite(r)
    <3>1. Deleting(req[r]) /\ req' = [req EXCEPT ![r].at = "delete add"]
      BY <2>1, <2>2, FormOf DEF DeleteWrite, GoTo
    <3>2. req'[r].at = "delete add"
      BY <2>1, <3>1 DEF Deleting
    <3>3. QED
      BY <3>2 DEF Holds, BindState
  <2>3. CASE ListRead(r)
    <3>1. Listing(req[r]) /\ req' = [req EXCEPT ![r].at = "list add", ![r].list = rows[req[r].stu]]
      BY <2>1, <2>3, FormOf DEF ListRead
    <3>2. req'[r].at = "list add"
      BY <2>1, <3>1 DEF Listing
    <3>3. QED
      BY <3>2 DEF Holds, BindState
  <2>4. QED
    BY <1>8, <2>2, <2>3
<1>9. QED
  BY <1>1, <1>2, <1>3, <1>5, <1>6, <1>7, <1>8, RequestWriters DEF Continue

(* A mapping appears only by the last command of a task.                   *)
LEMMA MappingBefore ==
    ASSUME TypeInv, [Next]_vars, NEW c \in Code, mapping'[c] # None
    PROVE  \/ mapping'[c] = mapping[c]
           \/ \E k \in Key : UpdateSetMapping(k) /\ c = running[k].new
<1> USE DEF TypeInv
<1>0. ASSUME NEW r \in Request, BindWrite(r)
      PROVE  UNCHANGED mapping
  BY <1>0 DEF BindWrite, invites
<1>1. CASE UNCHANGED mapping
  BY <1>1
<1>2. ASSUME NEW d, mapping' = [mapping EXCEPT ![d] = None]
      PROVE  mapping'[c] = mapping[c]
  BY <1>2 DEF CodesOK
<1>3. ASSUME NEW r \in Request, BindMapping(r) \/ CancelMapping(r)
      PROVE  mapping'[c] = mapping[c]
  BY <1>2, <1>3 DEF BindMapping, CancelMapping
<1>4. ASSUME NEW r \in Request, BindCode(r) \/ CancelCode(r) \/ InviteAdd(r)
      PROVE  UNCHANGED mapping
  BY <1>4 DEF BindCode, CancelCode, InviteAdd, invites
<1>5. ASSUME NEW k \in Key, UpdateRemove(k) \/ UpdateSetCode(k)
      PROVE  mapping'[c] = mapping[c]
  BY <1>2, <1>5 DEF UpdateRemove, UpdateSetCode
<1>6. ASSUME NEW k \in Key, UpdateSetMapping(k)
      PROVE  mapping'[c] = mapping[c] \/ c = running[k].new
  BY <1>6 DEF UpdateSetMapping, CodesOK
<1>7. ASSUME NEW s \in Student, ExpireCode(s)
      PROVE  UNCHANGED mapping
  BY <1>7 DEF ExpireCode
<1>8. ASSUME NEW d \in Code, ExpireMapping(d)
      PROVE  mapping'[c] = mapping[c]
  BY <1>2, <1>8 DEF ExpireMapping
<1>9. QED
  BY <1>0, <1>1, <1>3, <1>4, <1>5, <1>6, <1>7, <1>8, CodeWriters

(* Whoever spends a code holds it: a bind is going to remove its mapping,  *)
(* a cancel has removed it.                                                *)
LEMMA SpentBefore ==
    ASSUME TypeInv, [Next]_vars, NEW c \in spent' \ spent
    PROVE  /\ c \in Code /\ \E r \in Request : Holds(req[r], c)
           /\ mapping'[c] = None \/ RemovalComing(c)'
<1> USE DEF TypeInv
<1>0. c \in Code
  BY CodesTyped DEF CodesOK
<1>1. ASSUME NEW r \in Request, CancelMapping(r)
      PROVE  mapping'[c] = None /\ Holds(req[r], c)
  <2>1. /\ spent' = spent \cup {req[r].code} /\ mapping' = [mapping EXCEPT ![req[r].code] = None]
        /\ req[r].at = "cancel mapping"
    BY <1>1 DEF CancelMapping
  <2>2. c = req[r].code
    BY <2>1
  <2>3. QED
    BY <1>0, <2>1, <2>2 DEF Holds, CodesOK
<1>2. ASSUME NEW r \in Request, BindWrite(r)
      PROVE  RemovalComing(c)' /\ Holds(req[r], c)
  <2>1. Binding(req[r], issued) /\ DOMAIN req = Request /\ req[r].at = "bind write"
    BY <1>2, BindGoesOn DEF RequestsOK, BindWrite
  <2>2. /\ spent' = spent \cup {req[r].code}
        /\ req' = [Overtaken(r) EXCEPT ![r].at = "bind own copy"]
    BY <1>2 DEF BindWrite
  <2>3. c = req[r].code
    BY <2>2
  <2>4. Overtaken(r)[r] = req[r] /\ DOMAIN Overtaken(r) = Request
    BY DEF Overtaken
  <2>5. req'[r] = [req[r] EXCEPT !.at = "bind own copy"]
    BY <2>2, <2>4
  <2>6. req'[r].at = "bind own copy" /\ req'[r].code = c
    BY <2>1, <2>3, <2>5 DEF Binding
  <2>7. QED
    BY <2>1, <2>3, <2>6 DEF RemovalComing, Holds, BindState
<1>3. ASSUME UNCHANGED spent PROVE FALSE
  BY <1>3
<1>4. ASSUME NEW r \in Request, BindMapping(r) \/ BindCode(r) \/ CancelCode(r) \/ InviteAdd(r)
      PROVE  UNCHANGED spent
  BY <1>4 DEF BindMapping, BindCode, CancelCode, InviteAdd, ghosts, used
<1>5. ASSUME NEW k \in Key, UpdateRemove(k) \/ UpdateSetCode(k) \/ UpdateSetMapping(k)
      PROVE  UNCHANGED spent
  BY <1>5, CommandTells DEF UpdateRemove, UpdateSetCode, UpdateSetMapping
<1>6. ASSUME NEW s \in Student, ExpireCode(s)
      PROVE  UNCHANGED spent
  BY <1>6 DEF ExpireCode, ghosts, used
<1>7. ASSUME NEW d \in Code, ExpireMapping(d)
      PROVE  UNCHANGED spent
  BY <1>7 DEF ExpireMapping, ghosts, used
<1>8. QED
  BY <1>0, <1>1, <1>2, <1>3, <1>4, <1>5, <1>6, <1>7, CodeWriters DEF used

(* A code stays in doubt; only a bind or cancel that removes the mapping   *)
(* takes back that its removal had failed.                                 *)
LEMMA DoubtStays ==
    ASSUME TypeInv, [Next]_vars
    PROVE  /\ unsure \subseteq unsure'
           /\ \A c \in unremoved : c \in unremoved' \/ mapping'[c] = None
<1> USE DEF TypeInv
<1>1. CASE UNCHANGED used
  BY <1>1 DEF used
<1>2. ASSUME NEW r \in Request, BindMapping(r) \/ CancelMapping(r)
      PROVE  /\ unsure \subseteq unsure'
             /\ \A c \in unremoved : c \in unremoved' \/ mapping'[c] = None
  <2>1. /\ UNCHANGED unsure
        /\ \/ unremoved \subseteq unremoved'
           \/ /\ unremoved' = unremoved \ {req[r].code}
              /\ mapping' = [mapping EXCEPT ![req[r].code] = None]
    BY <1>2 DEF BindMapping, CancelMapping
  <2>2. unremoved \subseteq Code
    BY DEF CodesOK
  <2>3. QED
    BY <2>1, <2>2 DEF CodesOK
<1>3. ASSUME NEW r \in Request, BindWrite(r)
      PROVE  UNCHANGED <<unremoved, unsure>>
  BY <1>3 DEF BindWrite
<1>4. ASSUME NEW r \in Request, BindCode(r) \/ CancelCode(r) \/ InviteAdd(r)
      PROVE  UNCHANGED used
  BY <1>4 DEF BindCode, CancelCode, InviteAdd, ghosts
<1>5. ASSUME NEW k \in Key, UpdateRemove(k) \/ UpdateSetCode(k) \/ UpdateSetMapping(k)
      PROVE  unsure \subseteq unsure' /\ UNCHANGED unremoved
  BY <1>5, CommandTells DEF UpdateRemove, UpdateSetCode, UpdateSetMapping
<1>6. ASSUME NEW s \in Student, ExpireCode(s)
      PROVE  UNCHANGED used
  BY <1>6 DEF ExpireCode, ghosts
<1>7. ASSUME NEW d \in Code, ExpireMapping(d)
      PROVE  UNCHANGED used
  BY <1>7 DEF ExpireMapping, ghosts
<1>8. QED
  BY <1>1, <1>2, <1>3, <1>4, <1>5, <1>6, <1>7, CodeWriters

(* A bind that is going to remove a mapping goes on, until it removes it   *)
(* or fails to.                                                            *)
LEMMA RemovalGoesOn ==
    ASSUME TypeInv, [Next]_vars, NEW c \in Code, RemovalComing(c)
    PROVE  RemovalComing(c)' \/ mapping'[c] = None \/ c \in unremoved'
<1> USE DEF TypeInv
<1> DEFINE Removing == {"bind own copy", "bind target copy", "bind mapping"}
<1>1. PICK r \in Request : req[r].at \in Removing /\ req[r].code = c
  BY DEF RemovalComing
<1>2. Form(req[r], issued) /\ DOMAIN req = Request
  BY DEF RequestsOK
<1>3. Binding(req[r], issued)
  BY <1>1, <1>2, FormOf DEF BindState
<1>4. CASE req'[r] = req[r]
  BY <1>1, <1>4 DEF RemovalComing
<1>5. ASSUME NEW q \in Request, q # r, Call(q) \/ Continue(q)
      PROVE  req'[r] = req[r]
  BY <1>1, <1>5, OthersStay DEF Checked
<1>6. CASE BindOwnCopy(r) \/ BindTargetCopy(r)
  <2>1. PICK at \in {"bind target copy", "bind mapping"} : req'[r] = [req[r] EXCEPT !.at = at]
    BY <1>2, <1>6 DEF BindOwnCopy, BindTargetCopy, GoTo
  <2>2. req'[r].at \in Removing /\ req'[r].code = c
    BY <1>1, <1>3, <2>1 DEF Binding
  <2>3. QED
    BY <2>2 DEF RemovalComing
<1>7. CASE BindMapping(r)
  BY <1>1, <1>7 DEF BindMapping, CodesOK
<1>8. ASSUME Call(r) PROVE FALSE
  <2>1. req[r] = Idle
    BY <1>8 DEF Call, Bind, Delete, List, Invite, Cancel, Reorder, Start
  <2>2. Idle.at = "idle"
    BY DEF Idle
  <2>3. QED
    BY <1>1, <2>1, <2>2
<1>9. ASSUME Continue(r), ~BindOwnCopy(r), ~BindTargetCopy(r), ~BindMapping(r) PROVE FALSE
  BY <1>1, <1>9
     DEF Continue, BindRelation, BindLimit, BindCount, BindTargetLimit, BindTargetCount, BindWrite,
         BindCode, DeleteWrite, DeleteAdd, ListRead, ListAdd, ReorderCopy, InviteAdd,
         CancelLookup, CancelMapping, CancelCode
<1>10. QED
  BY <1>4, <1>5, <1>6, <1>7, <1>8, <1>9, RequestWriters

LEMMA UsedBefore ==
    ASSUME TypeInv, [Next]_vars, NEW c \in Code, Used(c)'
    PROVE  Used(c) \/ \E k \in Key : UpdateSetMapping(k) /\ c = running[k].new
<1>1. CASE mapping'[c] # None
  BY <1>1, MappingBefore DEF Used
<1>2. CASE c \in spent'
  BY <1>2, SpentBefore DEF Used
<1>3. ASSUME NEW r \in Request, Holds(req'[r], c)
      PROVE  Used(c)
  BY <1>3, HeldBefore DEF Used
<1>4. QED
  BY <1>1, <1>2, <1>3 DEF Used

LEMMA CodesUsedOnce ==
    ASSUME TypeInv, UsedOnce, [Next]_vars
    PROVE  UsedOnce'
<1> USE DEF TypeInv
<1>1. \A k \in Key : \A t \in Updating(k) :
         t \in Task /\ KeyOf[t] = k /\ t.new \in Code /\ t.new \in issued
  <2> SUFFICES ASSUME NEW k \in Key, NEW t \in Updating(k)
               PROVE  t \in Task /\ KeyOf[t] = k /\ t.new \in Code /\ t.new \in issued
    OBVIOUS
  <2>1. t \in {pending[k], running[k]} \ {None} /\ t.what = "updateInvitationCode"
    BY DEF Updating
  <2>2. t \in Task /\ KeyOf[t] = k /\ t.new \in issued
    BY <2>1 DEF QueueOK
  <2>3. QED
    BY <2>2 DEF CodesOK
<1>2. ASSUME NEW k \in Key, UpdateSetMapping(k)
      PROVE  UsedOnce'
  <2>1. /\ running[k] \in Updating(k) /\ progress[k] = 2
        /\ UNCHANGED pending
        /\ \/ UNCHANGED running /\ progress' = [progress EXCEPT ![k] = 3]
           \/ UNCHANGED <<running, progress>>
           \/ /\ running' = [running EXCEPT ![k] = None]
              /\ progress' = [progress EXCEPT ![k] = 0]
        /\ unsure' = IF progress'[k] = 3 THEN unsure ELSE unsure \cup {running[k].new}
    BY <1>2, CommandTells DEF UpdateSetMapping, Updating
  <2>2. \A l \in Key : Updating(l)' \subseteq Updating(l)
    BY <2>1 DEF Updating, QueueOK
  <2>3. \A c \in Code : Used(c)' => Used(c) \/ c = running[k].new
    <3>1. ASSUME NEW j \in Key, NEW c \in Code, UpdateSetMapping(j), c = running[j].new
          PROVE  Used(c) \/ c = running[k].new
      <4>1. CASE j = k
        BY <3>1, <4>1
      <4>2. CASE j # k
        <5>1. /\ running[j] \in Updating(j) /\ running[k] \in Updating(k)
              /\ mapping' = [mapping EXCEPT ![running[j].new] = running[j].stu]
              /\ mapping' = [mapping EXCEPT ![running[k].new] = running[k].stu]
          BY <1>2, <3>1, CommandTells DEF UpdateSetMapping, Updating
        <5>2. /\ running[j] \in Task /\ running[k] \in Task
              /\ running[j].stu \in Student
          BY <1>1, <5>1, TaskParts
        <5>3. mapping'[c] # None
          BY <3>1, <5>1, <5>2, FriendsAssumption DEF CodesOK
        <5>4. CASE c # running[k].new
          BY <5>1, <5>3, <5>4 DEF CodesOK, Used
        <5>5. QED
          BY <5>4
      <4>3. QED
        BY <4>1, <4>2
    <3>2. QED
      BY <3>1, UsedBefore
  <2>4. ASSUME NEW l \in Key, NEW t \in Updating(l)', Used(t.new)'
        PROVE  (running'[l] = t /\ progress'[l] = 3) \/ t.new \in unsure'
    <3>1. t \in Updating(l) /\ unsure \subseteq unsure'
      BY <2>1, <2>2, <2>4
    <3>2. CASE t.new = running[k].new
      <4>1. t = running[k]
        BY <2>1, <3>1, <3>2 DEF UsedOnce
      <4>2. l = k
        BY <1>1, <2>1, <3>1, <4>1
      <4>3. progress'[k] = 3 => running'[k] = running[k]
        BY <2>1 DEF QueueOK
      <4>4. QED
        BY <2>1, <4>1, <4>2, <4>3
    <3>3. CASE t.new # running[k].new
      <4>1. Used(t.new)
        BY <1>1, <2>3, <2>4, <3>1, <3>3
      <4>2. (running[l] = t /\ progress[l] = 3) \/ t.new \in unsure
        BY <3>1, <4>1 DEF UsedOnce
      <4>3. l # k => running'[l] = running[l] /\ progress'[l] = progress[l]
        BY <2>1 DEF QueueOK
      <4>4. QED
        BY <2>1, <3>1, <4>2, <4>3
    <3>4. QED
      BY <3>2, <3>3
  <2>5. QED
    BY <2>2, <2>4 DEF UsedOnce
<1>3. ASSUME \A k \in Key : ~UpdateSetMapping(k)
      PROVE  UsedOnce'
  <2>1. \A c \in Code : Used(c)' => Used(c)
    BY <1>3, UsedBefore
  <2>11. unsure \subseteq unsure'
    BY DoubtStays
  <2>2. ASSUME \A k \in Key : Updating(k)' \subseteq Updating(k),
               \A k \in Key : Updating(k)' # {} /\ running[k] \in Updating(k) /\ progress[k] = 3 =>
                                 running'[k] = running[k] /\ progress'[k] = 3
        PROVE  UsedOnce'
    <3>1. ASSUME NEW k \in Key, NEW t \in Updating(k)', Used(t.new)'
          PROVE  (running'[k] = t /\ progress'[k] = 3) \/ t.new \in unsure'
      <4>1. t \in Updating(k) /\ Used(t.new)
        BY <1>1, <2>1, <2>2, <3>1
      <4>2. (running[k] = t /\ progress[k] = 3) \/ t.new \in unsure
        BY <4>1 DEF UsedOnce
      <4>3. QED
        BY <2>2, <2>11, <4>1, <4>2
    <3>2. QED
      BY <2>2, <3>1 DEF UsedOnce
  <2>3. CASE UNCHANGED <<pending, running, progress, renewed>>
    BY <2>2, <2>3 DEF Updating
  <2>4. ASSUME NEW r \in Request, DeleteAdd(r) \/ ListAdd(r)
        PROVE  UsedOnce'
    <3>1. PICK t \in Task : Add(t) /\ t.what # "updateInvitationCode"
      <4>1. CASE DeleteAdd(r)
        BY <4>1, RequestAdds DEF DeleteAdd
      <4>2. CASE ListAdd(r)
        BY <4>2, RequestAdds DEF ListAdd
      <4>3. QED
        BY <2>4, <4>1, <4>2
    <3>2. /\ pending' = [pending EXCEPT ![KeyOf[t]] = t]
          /\ UNCHANGED <<running, progress>>
      BY <3>1 DEF Add, Executor!Submit
    <3>3. \A k \in Key : Updating(k)' \subseteq Updating(k)
      BY <3>1, <3>2 DEF Updating, QueueOK
    <3>4. QED
      BY <2>2, <3>2, <3>3
  <2>5. ASSUME NEW r \in Request, InviteAdd(r)
        PROVE  UsedOnce'
    <3> DEFINE t(c) == [what |-> "updateInvitationCode", stu |-> req[r].stu,
                        old |-> req[r].code, new |-> c]
    <3>1. PICK c \in Code \ issued : t(c) \in Task /\ Add(t(c))
      BY <2>5, RequestAdds
    <3>2. /\ pending' = [pending EXCEPT ![KeyOf[t(c)]] = t(c)]
          /\ UNCHANGED <<running, progress>>
      BY <3>1 DEF Add, Executor!Submit
    <3>3. t(c).new = c
      OBVIOUS
    <3> HIDE DEF t
    <3>4. \A k \in Key : \A u \in Updating(k)' : u \in Updating(k) \/ u = t(c)
      BY <3>1, <3>2 DEF Updating, QueueOK
    <3>5. ~Used(c)
      <4>1. \A q \in Request : ~Holds(req[q], c)
        <5> SUFFICES ASSUME NEW q \in Request, Holds(req[q], c) PROVE FALSE
          OBVIOUS
        <5>1. Form(req[q], issued)
          BY DEF RequestsOK
        <5>2. Binding(req[q], issued) \/ Cancelling(req[q], issued)
          BY <5>1, FormOf DEF Holds
        <5>3. req[q].code \in issued
          BY <5>2 DEF Binding, Cancelling
        <5>4. QED
          BY <5>3 DEF Holds
      <4>2. QED
        BY <4>1 DEF Used, CodesOK
    <3>6. ASSUME NEW k \in Key, NEW u \in Updating(k)', Used(u.new)'
          PROVE  (running'[k] = u /\ progress'[k] = 3) \/ u.new \in unsure'
      <4>1. u \in Updating(k) /\ Used(u.new)
        BY <1>1, <2>1, <3>1, <3>3, <3>4, <3>5, <3>6
      <4>2. QED
        BY <2>11, <3>2, <4>1 DEF UsedOnce
    <3>7. ASSUME NEW k \in Key, NEW l \in Key, NEW u \in Updating(k)', NEW v \in Updating(l)',
                 u.new = v.new
          PROVE  u = v
      BY <1>1, <3>1, <3>3, <3>4, <3>7 DEF UsedOnce
    <3>8. QED
      BY <3>6, <3>7 DEF UsedOnce
  <2>6. ASSUME NEW k \in Key, Begin(k)
        PROVE  UsedOnce'
    <3>1. /\ running[k] = None /\ pending[k] # None
          /\ running' = [running EXCEPT ![k] = pending[k]]
          /\ progress' = [progress EXCEPT ![k] = 0]
          /\ UNCHANGED pending
      BY <2>6 DEF Begin, Executor!Begin
    <3>2. \A l \in Key : Updating(l)' \subseteq Updating(l)
      BY <3>1 DEF Updating, QueueOK
    <3>3. \A l \in Key : running[l] \in Updating(l) => l # k
      BY <3>1 DEF Updating
    <3>4. QED
      BY <2>2, <3>1, <3>2, <3>3 DEF QueueOK
  <2>7. ASSUME NEW k \in Key, Succeed(k)
        PROVE  UsedOnce'
    <3>1. /\ pending' = [pending EXCEPT ![k] = None]
          /\ running' = [running EXCEPT ![k] = None]
          /\ progress' = [progress EXCEPT ![k] = 0]
      BY <2>7 DEF Succeed, Executor!Succeed
    <3>2. Updating(k)' = {} /\ \A l \in Key : l # k => Updating(l)' = Updating(l)
      BY <3>1 DEF Updating, QueueOK
    <3>3. QED
      BY <2>2, <3>1, <3>2 DEF QueueOK
  <2>8. ASSUME NEW k \in Key, CommandFails(k)
        PROVE  UsedOnce'
    <3>1. /\ progress[k] < Length(running[k]) /\ running[k] # None
          /\ running' = [running EXCEPT ![k] = None]
          /\ progress' = [progress EXCEPT ![k] = 0]
          /\ UNCHANGED pending
      BY <2>8 DEF CommandFails, GiveUp, Executor!Release
    <3>2. \A l \in Key : Updating(l)' \subseteq Updating(l)
      BY <3>1 DEF Updating, QueueOK
    <3>3. progress[k] # 3
      BY <3>1 DEF Length
    <3>4. QED
      BY <2>2, <3>1, <3>2, <3>3 DEF QueueOK
  <2>9. ASSUME NEW k \in Key,
               \/ SetUserFriendListCache(k) \/ DeleteUserFriendCache(k)
               \/ UpdateRemove(k) \/ UpdateSetCode(k)
        PROVE  UsedOnce'
    <3>1. /\ UNCHANGED pending /\ progress[k] # 3
          /\ \/ /\ UNCHANGED running
                /\ \E n \in {1, 2} : progress' = [progress EXCEPT ![k] = n]
             \/ UNCHANGED <<running, progress>>
             \/ /\ running' = [running EXCEPT ![k] = None]
                /\ progress' = [progress EXCEPT ![k] = 0]
      <4>1. \/ Command(k, "setFriendListCache", 1)
            \/ Command(k, "deleteFriendCache", 1)
            \/ \E n \in {1, 2} : Command(k, "updateInvitationCode", n)
        BY <2>9 DEF SetUserFriendListCache, DeleteUserFriendCache, UpdateRemove, UpdateSetCode
      <4>2. QED
        BY <4>1, CommandTells
    <3>2. \A l \in Key : Updating(l)' \subseteq Updating(l)
      BY <3>1 DEF Updating, QueueOK
    <3>3. QED
      BY <2>2, <3>1, <3>2 DEF QueueOK
  <2>10. QED
    BY <1>3, <2>3, <2>4, <2>5, <2>6, <2>7, <2>8, <2>9, QueueWriters DEF Work
<1>4. QED
  BY <1>2, <1>3

(* An invitation code that was used or cancelled no longer leads to its    *)
(* owner, unless the bind that used it has not removed it yet or failed    *)
(* to, or the command that stored it was not answered and is repeated.     *)
THEOREM SpentCodeAccounted == Spec => []SpentCodeExplained
<1> DEFINE CodeInv == TypeInv /\ MutualFriends /\ UsedOnce /\ SpentCodeExplained
<1>1. Init => CodeInv
  <2> SUFFICES ASSUME Init PROVE CodeInv
    OBVIOUS
  <2>1. spent = {} /\ \A k \in Key : Updating(k) = {}
    BY DEF Init, Updating, Executor!Init
  <2>2. QED
    BY <2>1, FriendsInit DEF UsedOnce, SpentCodeExplained
<1>2. CodeInv /\ [Next]_vars => CodeInv'
  <2> SUFFICES ASSUME CodeInv, [Next]_vars PROVE CodeInv'
    OBVIOUS
  <2>1. TypeInv' /\ MutualFriends' /\ UsedOnce'
    BY FriendsStep, CodesUsedOnce
  <2>2. ASSUME NEW c \in spent', mapping'[c] # None
        PROVE  RemovalComing(c)' \/ c \in unremoved' \cup unsure'
    <3>1. CASE c \notin spent
      BY <2>2, <3>1, SpentBefore
    <3>2. CASE c \in spent /\ mapping[c] # None
      <4>1. c \in Code
        BY <3>2 DEF TypeInv, CodesOK
      <4>2. RemovalComing(c) \/ c \in unremoved \cup unsure
        BY <3>2 DEF SpentCodeExplained
      <4>3. QED
        BY <2>2, <4>1, <4>2, RemovalGoesOn, DoubtStays
    <3>3. CASE c \in spent /\ mapping[c] = None
      <4>1. c \in Code
        BY <3>3 DEF TypeInv, CodesOK
      <4>2. PICK k \in Key : UpdateSetMapping(k) /\ c = running[k].new
        BY <2>2, <3>3, <4>1, MappingBefore
      <4>3. running[k] \in Updating(k) /\ progress[k] = 2
        BY <4>2, CommandTells DEF UpdateSetMapping, Updating
      <4>4. Used(c)
        BY <3>3 DEF Used
      <4>5. c \in unsure
        BY <4>2, <4>3, <4>4 DEF UsedOnce
      <4>6. QED
        BY <4>5, DoubtStays
    <3>4. QED
      BY <3>1, <3>2, <3>3
  <2>3. QED
    BY <2>1, <2>2 DEF SpentCodeExplained
<1>3. QED
  BY <1>1, <1>2, PTL DEF Spec

-----------------------------------------------------------------------------
(* The limit: a check that saw a current list stays right until the bind   *)
(* writes, because another bind that writes takes `alone' away from it.    *)

BelowLimit(s) == Cardinality(DOMAIN rows[s]) < MaxNum

ChecksHold ==
    \A r \in Request : req[r].at \in Checked /\ req[r].alone =>
        /\ BelowLimit(req[r].stu)
        /\ req[r].at = "bind write" => BelowLimit(req[r].friend)

LEMMA LessTransitive == \A a, b, c \in Nat : a <= b /\ b < c => a < c
OBVIOUS

LEMMA CardinalityOfRows ==
    ASSUME NEW list \in FriendList
    PROVE  IsFiniteSet(DOMAIN list) /\ Cardinality(DOMAIN list) \in Nat
BY ListFacts, FriendsAssumption, FS_Subset, FS_CardinalityType

(* Only a bind that writes makes lists longer.                             *)
LEMMA WhoGrows ==
    ASSUME TypeInv, [Next]_vars
    PROVE  \/ \A s \in Student : DOMAIN rows'[s] \subseteq DOMAIN rows[s]
           \/ \E r \in Request : /\ BindWrite(r)
                                 /\ rows' = Befriend(req[r].stu, req[r].friend)
                                 /\ req' = [Overtaken(r) EXCEPT ![r].at = "bind own copy"]
<1> USE DEF TypeInv
<1>1. ASSUME NEW r \in Request, BindWrite(r)
      PROVE  \/ UNCHANGED rows
             \/ /\ rows' = Befriend(req[r].stu, req[r].friend)
                /\ req' = [Overtaken(r) EXCEPT ![r].at = "bind own copy"]
  BY <1>1 DEF BindWrite
<1>2. ASSUME NEW r \in Request, DeleteWrite(r), NEW u \in Student
      PROVE  DOMAIN rows'[u] \subseteq DOMAIN rows[u]
  <2> DEFINE s == req[r].stu
             f == req[r].friend
  <2>1. Deleting(req[r])
    BY <1>2, FormOf DEF DeleteWrite, RequestsOK
  <2>2. s \in Student /\ f \in Student /\ s # f
    BY <2>1 DEF Deleting
  <2>3. rows' = [rows EXCEPT ![s] = Without(@, f), ![f] = Without(@, s)]
    BY <1>2 DEF DeleteWrite
  <2> HIDE DEF s, f
  <2>4. /\ DOMAIN Without(rows[s], f) = DOMAIN rows[s] \ {f}
        /\ DOMAIN Without(rows[f], s) = DOMAIN rows[f] \ {s}
    BY <2>2, WithoutTyped DEF ListsOK
  <2>5. QED
    BY <2>2, <2>3, <2>4 DEF ListsOK
<1>3. ASSUME NEW r \in Request, NEW s \in Student, NEW ids \in Reorderings, Reorder(r, s, ids),
             NEW u \in Student
      PROVE  DOMAIN rows'[u] \subseteq DOMAIN rows[u]
  BY <1>3 DEF Reorder, ListsOK
<1>4. ASSUME NEW r \in Request, BindOwnCopy(r) \/ BindTargetCopy(r) \/ ReorderCopy(r)
      PROVE  UNCHANGED rows
  BY <1>4 DEF BindOwnCopy, BindTargetCopy, ReorderCopy, InvalidateFriendListCache
<1>5. ASSUME NEW k \in Key,
             SetUserFriendListCache(k) \/ DeleteUserFriendCache(k) \/ Succeed(k)
      PROVE  UNCHANGED rows
  BY <1>5 DEF SetUserFriendListCache, DeleteUserFriendCache, Succeed
<1>6. ASSUME NEW s \in Student, ExpireList(s)
      PROVE  UNCHANGED rows
  BY <1>6 DEF ExpireList
<1>7. QED
  BY <1>1, <1>2, <1>3, <1>4, <1>5, <1>6, ListWriters

(* What a check that a request has just made tells of the rows.            *)
LEMMA CheckTells ==
    ASSUME TypeInv, NEW s \in Student, NEW copy, ~IsFriendNumsConfined(s, copy),
           Counted(s, copy) = rows[s]
    PROVE  BelowLimit(s)
<1>1. rows[s] \in FriendList
  BY DEF TypeInv, ListsOK
<1>2. Cardinality(DOMAIN rows[s]) \in Nat /\ MaxNum \in Nat
  BY <1>1, CardinalityOfRows, FriendsAssumption
<1>3. ~(Cardinality(DOMAIN rows[s]) >= MaxNum)
  BY DEF IsFriendNumsConfined
<1>4. QED
  BY <1>2, <1>3 DEF BelowLimit

LEMMA CheckedNow ==
    ASSUME TypeInv, NEW r \in Request, Call(r) \/ Continue(r),
           req'[r].at \in Checked, req'[r].alone
    PROVE  /\ req'[r].stu \in Student /\ req'[r].friend \in Student
           /\ UNCHANGED rows
           /\ req'[r].at = "bind target limit" => BelowLimit(req'[r].stu)
           /\ req'[r].at # "bind target limit" =>
                req[r].at \in Checked /\ req[r].alone /\ req[r].stu = req'[r].stu
           /\ req'[r].at = "bind write" => BelowLimit(req'[r].friend)
<1> USE DEF TypeInv
<1>0. Form(req[r], issued) /\ DOMAIN req = Request
  BY DEF RequestsOK
<1>1. ASSUME req'[r] = Idle PROVE FALSE
  <2>1. req'[r].at = "idle"
    BY <1>1 DEF Idle
  <2>2. QED
    BY <2>1 DEF Checked
<1>2. CASE BindCount(r)
  <2>1. Binding(req[r], issued)
    BY <1>2, BindGoesOn
  <2> DEFINE right == Counted(req[r].stu, req[r].copy) = rows[req[r].stu]
  <2>2. /\ ~IsFriendNumsConfined(req[r].stu, req[r].copy)
        /\ req'[r] = [[req[r] EXCEPT !.at = "bind target limit"] EXCEPT !.alone = right]
        /\ UNCHANGED rows
    BY <1>0, <1>1, <1>2 DEF BindCount, Return, OnlyRequest
  <2> HIDE DEF right
  <2>3. /\ req'[r].at = "bind target limit" /\ req'[r].alone = right
        /\ req'[r].stu = req[r].stu /\ req'[r].friend = req[r].friend
        /\ req[r].stu \in Student /\ req[r].friend \in Student
    BY <2>1, <2>2 DEF Binding
  <2>4. BelowLimit(req[r].stu)
    BY <2>2, <2>3, CheckTells DEF right
  <2>5. QED
    BY <2>2, <2>3, <2>4
<1>3. CASE BindTargetCount(r)
  <2>1. Binding(req[r], issued) /\ req[r].at = "bind target count"
    BY <1>3, BindGoesOn DEF BindTargetCount
  <2> DEFINE right == req[r].alone /\ Counted(req[r].friend, req[r].copy) = rows[req[r].friend]
  <2>2. /\ ~IsFriendNumsConfined(req[r].friend, req[r].copy)
        /\ req'[r] = [[req[r] EXCEPT !.at = "bind write"] EXCEPT !.alone = right]
        /\ UNCHANGED rows
    BY <1>0, <1>1, <1>3 DEF BindTargetCount, Return, OnlyRequest
  <2> HIDE DEF right
  <2>3. /\ req'[r].at = "bind write" /\ req'[r].alone = right
        /\ req'[r].stu = req[r].stu /\ req'[r].friend = req[r].friend
        /\ req[r].stu \in Student /\ req[r].friend \in Student
    BY <2>1, <2>2 DEF Binding
  <2>4. BelowLimit(req[r].friend)
    BY <2>2, <2>3, CheckTells DEF right
  <2>5. QED
    BY <2>1, <2>2, <2>3, <2>4 DEF right, Checked
<1>4. CASE BindTargetLimit(r)
  <2>1. Binding(req[r], issued) /\ req[r].at = "bind target limit"
    BY <1>4, BindGoesOn DEF BindTargetLimit
  <2>2. PICK copy \in BOOLEAN :
             req' = [req EXCEPT ![r].at = "bind target count", ![r].copy = copy]
    BY <1>4 DEF BindTargetLimit
  <2>3. UNCHANGED rows
    BY <1>4 DEF BindTargetLimit, OnlyRequest
  <2>4. req'[r] = [[req[r] EXCEPT !.at = "bind target count"] EXCEPT !.copy = copy]
    BY <1>0, <2>2
  <2>5. /\ req'[r].at = "bind target count" /\ req'[r].alone = req[r].alone
        /\ req'[r].stu = req[r].stu /\ req'[r].friend = req[r].friend
        /\ req[r].stu \in Student /\ req[r].friend \in Student
    BY <2>1, <2>4 DEF Binding
  <2>6. QED
    BY <2>1, <2>3, <2>5 DEF Checked
<1>5. ASSUME BindLimit(r) PROVE FALSE
  <2>1. Binding(req[r], issued)
    BY <1>5, BindGoesOn
  <2>2. PICK copy \in BOOLEAN : req' = [req EXCEPT ![r].at = "bind count", ![r].copy = copy]
    BY <1>5 DEF BindLimit
  <2>3. req'[r] = [[req[r] EXCEPT !.at = "bind count"] EXCEPT !.copy = copy]
    BY <1>0, <2>2
  <2>4. req'[r].at = "bind count"
    BY <2>1, <2>3 DEF Binding
  <2>5. QED
    BY <2>4 DEF Checked
<1>6. ASSUME Call(r) PROVE FALSE
  <2>1. ASSUME NEW s \in Student, NEW d \in Code, Bind(r, s, d)
        PROVE  req'[r].at = "bind relation"
    BY <1>0, <2>1 DEF Bind, Start
  <2>2. ASSUME NEW s \in Student, NEW f \in Student, Delete(r, s, f)
        PROVE  req'[r].at = "delete write"
    BY <1>0, <2>2 DEF Delete, Start
  <2>3. ASSUME NEW s \in Student, List(r, s)
        PROVE  req'[r].at = "list read"
    BY <1>0, <2>3 DEF List, Start
  <2>4. ASSUME NEW s \in Student, Invite(r, s)
        PROVE  req'[r].at = "invite add"
    <3>1. PICK old : req' = [req EXCEPT ![r] = [at |-> "invite add", stu |-> s, code |-> old]]
      BY <2>4 DEF Invite, Start
    <3>2. QED
      BY <1>0, <3>1
  <2>5. ASSUME NEW s \in Student, Cancel(r, s)
        PROVE  req'[r].at = "cancel lookup"
    BY <1>0, <2>5 DEF Cancel, Start
  <2>6. ASSUME NEW s \in Student, NEW ids \in Reorderings, Reorder(r, s, ids)
        PROVE  req'[r].at = "reorder copy"
    BY <1>0, <2>6 DEF Reorder, Start
  <2>7. QED
    BY <1>6, <2>1, <2>2, <2>3, <2>4, <2>5, <2>6 DEF Call, Checked
<1>7. ASSUME Continue(r),
             ~BindLimit(r), ~BindCount(r), ~BindTargetLimit(r), ~BindTargetCount(r)
      PROVE  FALSE
  <2>1. CASE BindRelation(r) \/ BindWrite(r) \/ BindOwnCopy(r) \/ BindTargetCopy(r) \/ BindMapping(r)
    <3>1. Binding(req[r], issued)
      BY <2>1, BindGoesOn
    <3>2. /\ Overtaken(r)[r] = req[r]
          /\ DOMAIN Overtaken(r) = Request
      BY DEF Overtaken
    <3>3. \E at \in {"bind limit", "bind own copy", "bind target copy", "bind mapping", "bind code"} :
             req'[r] = [req[r] EXCEPT !.at = at]
      BY <1>0, <1>1, <2>1, <3>2 DEF BindRelation, BindWrite, BindOwnCopy, BindTargetCopy,
                                    BindMapping, GoTo, Return
    <3>4. QED
      BY <3>1, <3>3 DEF Binding, Checked
  <2>2. CASE CancelLookup(r) \/ CancelMapping(r)
    <3>1. Cancelling(req'[r], issued)
      BY <1>1, <2>2, CancelGoesOn
    <3>2. QED
      BY <3>1 DEF Cancelling, Checked
  <2>3. CASE BindCode(r) \/ DeleteAdd(r) \/ ListAdd(r) \/ ReorderCopy(r) \/ InviteAdd(r) \/ CancelCode(r)
    BY <1>0, <1>1, <2>3 DEF BindCode, DeleteAdd, ListAdd, ReorderCopy, InviteAdd, CancelCode, Return
  <2>4. CASE DeleteWrite(r)
    <3>1. Deleting(req[r]) /\ req'[r] = [req[r] EXCEPT !.at = "delete add"]
      BY <1>0, <2>4, FormOf DEF DeleteWrite, GoTo
    <3>2. QED
      BY <3>1 DEF Deleting, Checked
  <2>5. CASE ListRead(r)
    <3>1. /\ Listing(req[r])
          /\ req'[r] = [[req[r] EXCEPT !.at = "list add"] EXCEPT !.list = rows[req[r].stu]]
      BY <1>0, <2>5, FormOf DEF ListRead
    <3>2. QED
      BY <3>1 DEF Listing, Checked
  <2>6. QED
    BY <1>7, <2>1, <2>2, <2>3, <2>4, <2>5 DEF Continue
<1>8. QED
  BY <1>2, <1>3, <1>4, <1>5, <1>6, <1>7

LEMMA ChecksStayRight ==
    ASSUME TypeInv, MutualFriends, ChecksHold, [Next]_vars
    PROVE  ChecksHold'
<1> USE DEF TypeInv
<1> DEFINE BelowThen(s) == Cardinality(DOMAIN rows'[s]) < MaxNum
<1> SUFFICES ASSUME NEW r \in Request, req'[r].at \in Checked,
                    req'[r].alone
             PROVE  /\ BelowThen(req'[r].stu)
                    /\ req'[r].at = "bind write" => BelowThen(req'[r].friend)
  BY DEF ChecksHold, BelowLimit
<1>1. req'[r].stu \in Student /\ req'[r].friend \in Student
  <2>1. Form(req'[r], issued')
    BY RequestsTyped DEF RequestsOK
  <2>2. Binding(req'[r], issued')
    BY <2>1, FormOf DEF BindState, Checked
  <2>3. QED
    BY <2>2 DEF Binding
<1>2. CASE /\ req'[r] = req[r]
           /\ \A s \in Student : DOMAIN rows'[s] \subseteq DOMAIN rows[s]
  <2>1. \A s \in Student : BelowLimit(s) => BelowThen(s)
    <3> SUFFICES ASSUME NEW s \in Student, BelowLimit(s) PROVE BelowThen(s)
      OBVIOUS
    <3>1. rows[s] \in FriendList /\ rows'[s] \in FriendList
      BY ListsTyped DEF ListsOK
    <3>2. /\ IsFiniteSet(DOMAIN rows[s]) /\ Cardinality(DOMAIN rows[s]) \in Nat
          /\ Cardinality(DOMAIN rows'[s]) \in Nat
      BY <3>1, CardinalityOfRows
    <3>3. Cardinality(DOMAIN rows'[s]) <= Cardinality(DOMAIN rows[s])
      BY <1>2, <3>2, FS_Subset
    <3>4. QED
      <4>1. MaxNum \in Nat
        BY FriendsAssumption
      <4> DEFINE n == Cardinality(DOMAIN rows[s])
                 m == Cardinality(DOMAIN rows'[s])
      <4>2. n \in Nat /\ m \in Nat /\ m <= n
        BY <3>2, <3>3
      <4>3. n < MaxNum
        BY DEF BelowLimit
      <4>4. QED
        BY <4>1, <4>2, <4>3, LessTransitive
  <2>2. QED
    BY <1>1, <1>2, <2>1 DEF ChecksHold
<1>3. ASSUME Call(r) \/ Continue(r)
      PROVE  /\ BelowThen(req'[r].stu)
             /\ req'[r].at = "bind write" => BelowThen(req'[r].friend)
  <2>1. /\ UNCHANGED rows
        /\ req'[r].at = "bind target limit" => BelowLimit(req'[r].stu)
        /\ req'[r].at # "bind target limit" =>
              req[r].at \in Checked /\ req[r].alone /\ req[r].stu = req'[r].stu
        /\ req'[r].at = "bind write" => BelowLimit(req'[r].friend)
    BY <1>3, CheckedNow
  <2>2. QED
    BY <2>1 DEF ChecksHold, BelowLimit
<1>4. ASSUME NEW q \in Request, q # r, Call(q) \/ Continue(q)
      PROVE  req'[r] = req[r]
  BY <1>4, OthersStay
<1>5. ASSUME NEW p \in Request, BindWrite(p),
             req' = [Overtaken(p) EXCEPT ![p].at = "bind own copy"]
      PROVE  FALSE
  <2>1. Binding(req[p], issued)
    BY <1>5, BindGoesOn
  <2>2. Overtaken(p)[p] = req[p] /\ DOMAIN Overtaken(p) = Request
    BY DEF Overtaken
  <2>3. r # p
    <3>1. req'[p] = [req[p] EXCEPT !.at = "bind own copy"]
      BY <1>5, <2>2
    <3>2. req'[p].at = "bind own copy"
      BY <2>1, <3>1 DEF Binding
    <3>3. QED
      BY <3>2 DEF Checked
  <2>4. req'[r] = Overtaken(p)[r]
    BY <1>5, <2>2, <2>3
  <2>5. req[r].at = req'[r].at
    BY <2>4, OvertakenForm
  <2>6. Binding(req[r], issued)
    BY <2>5, FormOf DEF RequestsOK, BindState, Checked
  <2>7. req'[r] = [req[r] EXCEPT !.alone = FALSE]
    BY <2>3, <2>4, <2>5 DEF Overtaken, Checked
  <2>8. QED
    BY <2>6, <2>7 DEF Binding
<1>6. QED
  BY <1>2, <1>3, <1>4, <1>5, WhoGrows, RequestWriters

LEMMA WhoBefriends ==
    ASSUME TypeInv, [Next]_vars, NEW r \in Request
    PROVE  req[r].at = "bind write" /\ req'[r].at = "bind own copy" =>
              /\ Binding(req[r], issued)
              /\ rows' = Befriend(req[r].stu, req[r].friend)
<1>1. Form(req[r], issued) /\ DOMAIN req = Request
  BY DEF TypeInv, RequestsOK
<1> SUFFICES ASSUME req[r].at = "bind write" /\ req'[r].at = "bind own copy"
             PROVE  /\ Binding(req[r], issued)
                    /\ rows' = Befriend(req[r].stu, req[r].friend)
  OBVIOUS
<1>2. Binding(req[r], issued)
  BY <1>1, FormOf DEF BindState
<1>3. req[r] # Idle /\ req'[r] # Idle
  <2>1. Idle.at = "idle"
    BY DEF Idle
  <2>2. QED
    BY <2>1
<1>4. BindWrite(r)
  <2>1. Call(r) \/ Continue(r)
    <3>1. req' # req
      OBVIOUS
    <3>2. ASSUME NEW q \in Request, q # r, Call(q) \/ Continue(q) PROVE FALSE
      BY <3>2, OthersStay
    <3>3. QED
      BY <3>1, <3>2, RequestWriters
  <2>2. ~Call(r)
    BY <1>3 DEF Call, Bind, Delete, List, Invite, Cancel, Reorder, Start
  <2>3. QED
    BY <2>1, <2>2
       DEF Continue, BindRelation, BindLimit, BindCount, BindTargetLimit,
              BindTargetCount, BindOwnCopy, BindTargetCopy,
           BindMapping, BindCode, DeleteWrite, DeleteAdd, ListRead, ListAdd, ReorderCopy,
           InviteAdd, CancelLookup, CancelMapping, CancelCode
<1>5. QED
  BY <1>1, <1>2, <1>3, <1>4 DEF BindWrite, Return

LEMMA BindStaysWithin ==
    ASSUME TypeInv, NEW a \in Student, NEW b \in Student, a # b, rows' = Befriend(a, b),
           NEW s \in {a, b}
    PROVE  BelowLimit(s) => Cardinality(DOMAIN rows'[s]) <= MaxNum
<1>1. rows[a] \in FriendList /\ rows[b] \in FriendList
  BY DEF TypeInv, ListsOK
<1>2. \E f : DOMAIN rows'[s] = DOMAIN rows[s] \cup {f}
  <2>1. /\ DOMAIN With(rows[a], b) = DOMAIN rows[a] \cup {b}
        /\ DOMAIN With(rows[b], a) = DOMAIN rows[b] \cup {a}
    BY DEF With
  <2>2. rows'[a] = With(rows[a], b) /\ rows'[b] = With(rows[b], a)
    BY DEF Befriend, TypeInv, ListsOK
  <2>3. QED
    BY <2>1, <2>2
<1>3. IsFiniteSet(DOMAIN rows[s]) /\ Cardinality(DOMAIN rows[s]) \in Nat /\ MaxNum \in Nat
  BY <1>1, CardinalityOfRows, FriendsAssumption
<1>4. \/ Cardinality(DOMAIN rows'[s]) = Cardinality(DOMAIN rows[s])
      \/ Cardinality(DOMAIN rows'[s]) = Cardinality(DOMAIN rows[s]) + 1
  BY <1>2, <1>3, FS_AddElement
<1>5. QED
  BY <1>3, <1>4 DEF BelowLimit

(* A bind that counted the two lists as they were in the table, and not a  *)
(* stale copy or one that expired before it was read, with no other bind   *)
(* writing between the counts and its own write, exceeds nobody's limit.   *)
THEOREM LimitHeld == Spec => LimitHeldUnlessRaced
<1> DEFINE LimitInv == TypeInv /\ MutualFriends /\ ChecksHold
<1>1. Init => LimitInv
  <2> SUFFICES ASSUME Init PROVE LimitInv
    OBVIOUS
  <2>1. \A r \in Request : req[r].at = "idle"
    BY DEF Init, Idle
  <2>2. QED
    BY <2>1, FriendsInit DEF ChecksHold, Checked
<1>2. LimitInv /\ [Next]_vars => LimitInv'
  BY FriendsStep, ChecksStayRight
<1>3. LimitInv /\ [Next]_vars =>
        [\A r \in Request :
            /\ req[r].at = "bind write"
            /\ req'[r].at = "bind own copy"
            /\ req[r].alone
            => \A s \in {req[r].stu, req[r].friend} :
                  Cardinality(DOMAIN rows'[s]) <= MaxNum]_vars
  <2>1. ASSUME LimitInv, [Next]_vars, NEW r \in Request,
               req[r].at = "bind write" /\ req'[r].at = "bind own copy" /\ req[r].alone,
               NEW s \in {req[r].stu, req[r].friend}
        PROVE  Cardinality(DOMAIN rows'[s]) <= MaxNum
    <3>1. BelowLimit(s)
      BY <2>1 DEF ChecksHold, Checked
    <3>2. Binding(req[r], issued) /\ rows' = Befriend(req[r].stu, req[r].friend)
      BY <2>1, WhoBefriends
    <3>3. req[r].stu \in Student /\ req[r].friend \in Student /\ req[r].stu # req[r].friend
      BY <3>2 DEF Binding
    <3>4. QED
      BY <2>1, <3>1, <3>2, <3>3, BindStaysWithin
  <2>2. QED
    BY <2>1
<1>4. QED
  BY <1>1, <1>2, <1>3, PTL DEF Spec, LimitHeldUnlessRaced

-----------------------------------------------------------------------------
(* Stale copies: every single entry in which a copy differs from the table *)
(* is accounted for, by a cause, by a request that will remove the copy,   *)
(* or by a delete of just that pair.                                       *)

Differs(s, e) ==
    \/ e \in DOMAIN cached[s] /\ e \notin DOMAIN rows[s]
    \/ e \notin DOMAIN cached[s] /\ e \in DOMAIN rows[s]
    \/ e \in DOMAIN cached[s] /\ e \in DOMAIN rows[s] /\ cached[s][e] # rows[s][e]

(* A request will invalidate the copy of s.                                *)
Invalidates(q, s) ==
    \/ q.at = "bind own copy" /\ (s = q.stu \/ s = q.friend)
    \/ q.at = "bind target copy" /\ s = q.friend
    \/ q.at = "reorder copy" /\ s = q.stu

Pair(t, s, e) == (t.stu = s /\ t.friend = e) \/ (t.stu = e /\ t.friend = s)

(* A delete task of the pair is pending, and still to be run, or it was    *)
(* added again while it ran.                                               *)
DeletePending(k, s, e) ==
    /\ pending[k] # None
    /\ pending[k].what = "deleteFriendCache"
    /\ Pair(pending[k], s, e)
    /\ running[k] = None \/ progress[k] = 0 \/ k \in renewed

Remedy(s, e) ==
    \/ \E r \in Request : Invalidates(req[r], s)
    \/ \E r \in Request : req[r].at = "delete add" /\ Pair(req[r], s, e)
    \/ \E k \in Key : DeletePending(k, s, e)

EntriesExplained ==
    \A s, e \in Student : HasCopy(s) /\ Differs(s, e) => cause[s] # {} \/ Remedy(s, e)

LEMMA DiffersIfStale ==
    ASSUME TypeInv, NEW s \in Student, Stale(s)
    PROVE  \E e \in Student : Differs(s, e)
<1>1. cached[s] \in FriendList /\ rows[s] \in FriendList
  BY DEF TypeInv, ListsOK
<1>2. /\ DOMAIN cached[s] \subseteq Student /\ DOMAIN rows[s] \subseteq Student
      /\ cached[s] = [f \in DOMAIN cached[s] |-> cached[s][f]]
      /\ rows[s] = [f \in DOMAIN rows[s] |-> rows[s][f]]
  BY <1>1, ListFacts
<1>3. CASE DOMAIN cached[s] # DOMAIN rows[s]
  BY <1>2, <1>3 DEF Differs
<1>4. CASE DOMAIN cached[s] = DOMAIN rows[s]
  <2>1. \E e \in DOMAIN rows[s] : cached[s][e] # rows[s][e]
    BY <1>2, <1>4 DEF Stale
  <2>2. QED
    BY <1>2, <1>4, <2>1 DEF Differs
<1>5. QED
  BY <1>3, <1>4

LEMMA ExplainedImplies ==
    ASSUME TypeInv, EntriesExplained
    PROVE  StaleExplained
<1> SUFFICES ASSUME NEW s \in Student, Stale(s), cause[s] = {}
             PROVE  RemedyComing(s)
  BY DEF StaleExplained
<1>1. PICK e \in Student : Differs(s, e)
  BY DiffersIfStale
<1>2. Remedy(s, e)
  BY <1>1 DEF EntriesExplained, Stale
<1>3. ASSUME NEW r \in Request, Invalidates(req[r], s)
      PROVE  RemedyComing(s)
  BY <1>3 DEF Invalidates, RemedyComing
<1>4. ASSUME NEW r \in Request, req[r].at = "delete add" /\ Pair(req[r], s, e)
      PROVE  RemedyComing(s)
  BY <1>4 DEF Pair, RemedyComing
<1>5. ASSUME NEW k \in Key, DeletePending(k, s, e)
      PROVE  RemedyComing(s)
  BY <1>5 DEF DeletePending, Pair, RemedyComing
<1>6. QED
  BY <1>2, <1>3, <1>4, <1>5 DEF Remedy

(* In the next state: an entry that differs makes the copy a stale one.    *)
LEMMA StaleThen ==
    ASSUME NEW s \in Student, NEW e \in Student, HasCopy(s)', Differs(s, e)'
    PROVE  cached'[s] \notin {NoList, rows'[s]}
BY DEF HasCopy, Differs

LEMMA BinderOf ==
    ASSUME TypeInv, NEW r \in Request, BindOwnCopy(r) \/ BindTargetCopy(r)
    PROVE  /\ Binding(req[r], issued)
           /\ req[r].stu \in Student /\ req[r].friend \in Student
<1>1. Binding(req[r], issued)
  BY FormOf DEF BindOwnCopy, BindTargetCopy, TypeInv, RequestsOK, BindState
<1>2. QED
  BY <1>1 DEF Binding

LEMMA DeleterOf ==
    ASSUME TypeInv, NEW r \in Request, DeleteWrite(r)
    PROVE  /\ Deleting(req[r])
           /\ req[r].stu \in Student /\ req[r].friend \in Student /\ req[r].stu # req[r].friend
           /\ DOMAIN req = Request
<1>1. Deleting(req[r])
  BY FormOf DEF DeleteWrite, TypeInv, RequestsOK
<1>2. QED
  BY <1>1 DEF Deleting, TypeInv, RequestsOK

LEMMA RunningTask ==
    ASSUME TypeInv, NEW k \in Key, running[k] # None
    PROVE  /\ running[k] \in Task /\ KeyOf[running[k]] = k
           /\ pending[k] \in Task /\ KeyOf[pending[k]] = k
           /\ pending[k].what = running[k].what
           /\ running[k].what = "deleteFriendCache" => pending[k] = running[k]
<1>1. /\ running[k] \in Task /\ KeyOf[running[k]] = k
      /\ pending[k] \in Task /\ KeyOf[pending[k]] = k
  BY DEF TypeInv, QueueOK
<1>2. QED
  BY <1>1, KeyTells, DeleteKeyTells

(* A cause that is known is not forgotten while the copy is stale.         *)
LEMMA CauseKept ==
    ASSUME TypeInv, [Next]_vars, NEW s \in Student, cached'[s] \notin {NoList, rows'[s]},
           cause[s] # {}
    PROVE  cause'[s] # {}
<1> USE DEF TypeInv
<1>1. cause \in [Student -> SUBSET Reason]
  BY DEF ListsOK
<1>2. CASE NoBlame
  BY <1>1, <1>2, NoBlameKeeps
<1>3. ASSUME NEW u \in Student, InvalidateFriendListCache(u)
      PROVE  cause'[s] # {}
  BY <1>3, Invalidation
<1>4. ASSUME NEW r \in Request, \/ BindWrite(r) \/ DeleteWrite(r)
                                \/ \E u \in Student, ids \in Reorderings : Reorder(r, u, ids)
      PROVE  NoBlame
  BY <1>4 DEF BindWrite, DeleteWrite, Reorder
<1>5. ASSUME NEW r \in Request, BindOwnCopy(r) \/ BindTargetCopy(r)
      PROVE  cause'[s] # {}
  BY <1>3, <1>5, BinderOf DEF BindOwnCopy, BindTargetCopy
<1>6. ASSUME NEW r \in Request, ReorderCopy(r)
      PROVE  cause'[s] # {}
  <2>1. Reordering(req[r])
    BY <1>6, FormOf DEF ReorderCopy, RequestsOK
  <2>2. QED
    BY <1>3, <1>6, <2>1 DEF ReorderCopy, Reordering
<1>7. ASSUME NEW k \in Key, SetUserFriendListCache(k)
      PROVE  cause'[s] # {}
  BY <1>1, <1>7 DEF SetUserFriendListCache, Blame
<1>8. ASSUME NEW k \in Key, DeleteUserFriendCache(k)
      PROVE  cause'[s] # {}
  BY <1>1, <1>8 DEF DeleteUserFriendCache
<1>9. ASSUME NEW k \in Key, Succeed(k)
      PROVE  cause'[s] # {}
  BY <1>1, <1>9 DEF Succeed
<1>10. ASSUME NEW u \in Student, ExpireList(u)
       PROVE  NoBlame
  BY <1>10 DEF ExpireList
<1>11. QED
  BY <1>2, <1>4, <1>5, <1>6, <1>7, <1>8, <1>9, <1>10, ListWriters

(* A delete task leaves its pair in a copy as it is in the table, unless   *)
(* the two are friends again.                                              *)
LEMMA LateDelete ==
    ASSUME TypeInv, MutualFriends, NEW k \in Key, DeleteUserFriendCache(k),
           NEW s \in Student, NEW e \in Student, Pair(running[k], s, e),
           HasCopy(s)', Differs(s, e)'
    PROVE  cause'[s] # {}
<1> DEFINE a == running[k].stu
           b == running[k].friend
<1>1. running[k] # None /\ running[k].what = "deleteFriendCache"
  BY DEF DeleteUserFriendCache, Command
<1>2. a \in Student /\ b \in Student /\ a # b
  BY <1>1, RunningTask, TaskParts
<1>3. /\ cached' = [cached EXCEPT ![a] = Without(@, b), ![b] = Without(@, a)]
      /\ UNCHANGED rows
      /\ cause' = [u \in Student |->
                      IF cached'[u] \in {NoList, rows[u]} THEN {}
                      ELSE IF u \in {a, b} /\ IsFriend(a, b) THEN cause[u] \cup {"late delete"}
                      ELSE cause[u]]
  BY DEF DeleteUserFriendCache
<1>4. (s = a /\ e = b) \/ (s = b /\ e = a)
  BY DEF Pair
<1> HIDE DEF a, b
<1>5. e \notin DOMAIN cached'[s]
  <2>1. /\ DOMAIN Without(cached[a], b) = DOMAIN cached[a] \ {b}
        /\ DOMAIN Without(cached[b], a) = DOMAIN cached[b] \ {a}
    BY <1>2, WithoutTyped DEF TypeInv, ListsOK
  <2>2. cached'[s] = Without(cached[s], e)
    BY <1>2, <1>3, <1>4 DEF TypeInv, ListsOK
  <2>3. QED
    BY <1>4, <2>1, <2>2
<1>6. IsFriend(s, e)
  BY <1>3, <1>5 DEF Differs, IsFriend
<1>7. IsFriend(a, b)
  BY <1>2, <1>4, <1>6 DEF MutualFriends
<1>8. cached'[s] \notin {NoList, rows[s]}
  BY <1>3, StaleThen
<1>9. QED
  BY <1>3, <1>4, <1>7, <1>8

(* An entry that differs did so before, or is accounted for by the step.   *)
LEMMA DifferedBefore ==
    ASSUME TypeInv, MutualFriends, [Next]_vars, NEW s \in Student, NEW e \in Student,
           HasCopy(s)', Differs(s, e)'
    PROVE  (HasCopy(s) /\ Differs(s, e)) \/ cause'[s] # {} \/ Remedy(s, e)'
<1> USE DEF TypeInv
<1>0. cached'[s] \notin {NoList, rows'[s]}
  BY StaleThen
<1>1. ASSUME cached'[s] = cached[s] /\ rows'[s] = rows[s]
      PROVE  HasCopy(s) /\ Differs(s, e)
  BY <1>1 DEF HasCopy, Differs
<1>2. ASSUME NEW r \in Request, BindWrite(r)
      PROVE  (HasCopy(s) /\ Differs(s, e)) \/ Remedy(s, e)'
  <2>1. Binding(req[r], issued) /\ DOMAIN req = Request
    BY <1>2, BindGoesOn DEF RequestsOK
  <2>2. UNCHANGED cached
    BY <1>2 DEF BindWrite, lists
  <2>3. CASE UNCHANGED rows
    BY <1>1, <2>2, <2>3
  <2>4. CASE /\ rows' = Befriend(req[r].stu, req[r].friend)
             /\ req' = [Overtaken(r) EXCEPT ![r].at = "bind own copy"]
    <3>1. req'[r] = [req[r] EXCEPT !.at = "bind own copy"]
      BY <2>4 DEF Overtaken
    <3>2. /\ req'[r].at = "bind own copy" /\ req'[r].stu = req[r].stu
          /\ req'[r].friend = req[r].friend
      BY <2>1, <3>1 DEF Binding
    <3>3. CASE s = req[r].stu \/ s = req[r].friend
      BY <3>2, <3>3 DEF Remedy, Invalidates
    <3>4. CASE s # req[r].stu /\ s # req[r].friend
      <4>1. rows'[s] = rows[s]
        BY <2>4, <3>4 DEF Befriend, ListsOK
      <4>2. QED
        BY <1>1, <2>2, <4>1
    <3>5. QED
      BY <3>3, <3>4
  <2>5. QED
    BY <1>2, <2>3, <2>4 DEF BindWrite
<1>3. ASSUME NEW u \in Student, InvalidateFriendListCache(u)
      PROVE  HasCopy(s) /\ Differs(s, e)
  <2>1. rows' = rows /\ cached'[s] = cached[s]
    BY <1>0, <1>3, Invalidation
  <2>2. QED
    BY <1>1, <2>1
<1>4. ASSUME NEW r \in Request, BindOwnCopy(r) \/ BindTargetCopy(r)
      PROVE  HasCopy(s) /\ Differs(s, e)
  BY <1>3, <1>4, BinderOf DEF BindOwnCopy, BindTargetCopy
<1>5. ASSUME NEW r \in Request, ReorderCopy(r)
      PROVE  HasCopy(s) /\ Differs(s, e)
  <2>1. Reordering(req[r])
    BY <1>5, FormOf DEF ReorderCopy, RequestsOK
  <2>2. QED
    BY <1>3, <1>5, <2>1 DEF ReorderCopy, Reordering
<1>6. ASSUME NEW r \in Request, DeleteWrite(r)
      PROVE  (HasCopy(s) /\ Differs(s, e)) \/ Remedy(s, e)'
  <2> DEFINE a == req[r].stu
             b == req[r].friend
  <2>1. Deleting(req[r]) /\ a \in Student /\ b \in Student /\ a # b /\ DOMAIN req = Request
    BY <1>6, DeleterOf
  <2>2. /\ rows' = [rows EXCEPT ![a] = Without(@, b), ![b] = Without(@, a)]
        /\ UNCHANGED cached
        /\ req' = [req EXCEPT ![r].at = "delete add"]
    BY <1>6 DEF DeleteWrite, lists, GoTo
  <2>3. CASE (s = a /\ e = b) \/ (s = b /\ e = a)
    <3>1. req'[r].at = "delete add" /\ req'[r].stu = a /\ req'[r].friend = b
      BY <2>1, <2>2 DEF Deleting
    <3>2. QED
      BY <2>3, <3>1 DEF Remedy, Pair
  <2>4. CASE ~((s = a /\ e = b) \/ (s = b /\ e = a))
    <3> HIDE DEF a, b
    <3>1. /\ \A u \in DOMAIN rows[a] \ {b} : Without(rows[a], b)[u] = rows[a][u]
          /\ \A u \in DOMAIN rows[b] \ {a} : Without(rows[b], a)[u] = rows[b][u]
          /\ DOMAIN Without(rows[a], b) = DOMAIN rows[a] \ {b}
          /\ DOMAIN Without(rows[b], a) = DOMAIN rows[b] \ {a}
      BY <2>1, WithoutTyped DEF ListsOK
    <3>2. /\ s = a => rows'[s] = Without(rows[a], b)
          /\ s = b => rows'[s] = Without(rows[b], a)
          /\ s # a /\ s # b => rows'[s] = rows[s]
      BY <2>1, <2>2 DEF ListsOK
    <3>3. /\ e \in DOMAIN rows'[s] <=> e \in DOMAIN rows[s]
          /\ e \in DOMAIN rows[s] => rows'[s][e] = rows[s][e]
      BY <2>4, <3>1, <3>2
    <3>4. QED
      BY <2>2, <3>3 DEF Differs, HasCopy
  <2>5. QED
    BY <2>3, <2>4
<1>7. ASSUME NEW r \in Request, NEW u \in Student, NEW ids \in Reorderings, Reorder(r, u, ids)
      PROVE  (HasCopy(s) /\ Differs(s, e)) \/ Remedy(s, e)'
  <2>1. /\ rows' = [rows EXCEPT ![u] = [f \in DOMAIN @ |-> OrderSeq(ids, f)]]
        /\ UNCHANGED cached
        /\ req' = [req EXCEPT ![r] = [at |-> "reorder copy", stu |-> u]]
    BY <1>7 DEF Reorder, Start, lists
  <2>2. CASE s = u
    <3> DEFINE q == [at |-> "reorder copy", stu |-> s]
    <3>1. req'[r] = q
      BY <2>1, <2>2 DEF RequestsOK
    <3>2. q.at = "reorder copy" /\ q.stu = s
      OBVIOUS
    <3> HIDE DEF q
    <3>3. QED
      BY <3>1, <3>2 DEF Remedy, Invalidates
  <2>3. CASE s # u
    BY <1>1, <2>1, <2>3 DEF ListsOK
  <2>4. QED
    BY <2>2, <2>3
<1>8. ASSUME NEW k \in Key, SetUserFriendListCache(k)
      PROVE  (HasCopy(s) /\ Differs(s, e)) \/ cause'[s] # {}
  <2>1. /\ cached' = [cached EXCEPT ![running[k].stu] = running[k].list]
        /\ UNCHANGED rows
        /\ Blame(running[k].stu, "late fill")
    BY <1>8 DEF SetUserFriendListCache
  <2>2. CASE s = running[k].stu
    BY <1>0, <2>1, <2>2 DEF Blame
  <2>3. CASE s # running[k].stu
    BY <1>1, <2>1, <2>3 DEF ListsOK
  <2>4. QED
    BY <2>2, <2>3
<1>9. ASSUME NEW k \in Key, DeleteUserFriendCache(k)
      PROVE  (HasCopy(s) /\ Differs(s, e)) \/ cause'[s] # {}
  <2> DEFINE a == running[k].stu
             b == running[k].friend
  <2>1. running[k] # None /\ running[k].what = "deleteFriendCache"
    BY <1>9 DEF DeleteUserFriendCache, Command
  <2>2. a \in Student /\ b \in Student /\ a # b
    BY <2>1, RunningTask, TaskParts
  <2>3. /\ cached' = [cached EXCEPT ![a] = Without(@, b), ![b] = Without(@, a)]
        /\ UNCHANGED rows
    BY <1>9 DEF DeleteUserFriendCache
  <2>4. CASE Pair(running[k], s, e)
    BY <1>9, <2>4, LateDelete
  <2>5. CASE ~Pair(running[k], s, e)
    <3>1. ~((s = a /\ e = b) \/ (s = b /\ e = a))
      BY <2>5 DEF Pair
    <3> HIDE DEF a, b
    <3>2. /\ \A u \in DOMAIN cached[a] \ {b} : Without(cached[a], b)[u] = cached[a][u]
          /\ \A u \in DOMAIN cached[b] \ {a} : Without(cached[b], a)[u] = cached[b][u]
          /\ DOMAIN Without(cached[a], b) = DOMAIN cached[a] \ {b}
          /\ DOMAIN Without(cached[b], a) = DOMAIN cached[b] \ {a}
      BY <2>2, WithoutTyped DEF ListsOK
    <3>3. /\ s = a => cached'[s] = Without(cached[a], b)
          /\ s = b => cached'[s] = Without(cached[b], a)
          /\ s # a /\ s # b => cached'[s] = cached[s]
      BY <2>2, <2>3 DEF ListsOK
    <3>4. /\ e \in DOMAIN cached'[s] <=> e \in DOMAIN cached[s]
          /\ e \in DOMAIN cached[s] => cached'[s][e] = cached[s][e]
      BY <3>1, <3>2, <3>3
    <3>5. HasCopy(s)
      <4>1. \A f : Without(NoList, f) = NoList
        BY DEF Without, NoList, Restrict
      <4>2. QED
        BY <1>0, <3>3, <4>1 DEF HasCopy
    <3>6. QED
      BY <2>3, <3>4, <3>5 DEF Differs
  <2>6. QED
    BY <2>4, <2>5
<1>10. ASSUME NEW k \in Key, Succeed(k)
       PROVE  HasCopy(s) /\ Differs(s, e)
  BY <1>1, <1>10 DEF Succeed, lists
<1>11. ASSUME NEW u \in Student, ExpireList(u)
       PROVE  HasCopy(s) /\ Differs(s, e)
  BY <1>0, <1>1, <1>11 DEF ExpireList, ListsOK
<1>12. CASE UNCHANGED <<rows, cached, volatile, cause>>
  BY <1>1, <1>12
<1>13. QED
  BY <1>12, <1>2, <1>4, <1>5, <1>6, <1>7, <1>8, <1>9, <1>10, <1>11, ListWriters

(* A request that is to remove the copy of s removes it, fails and is      *)
(* blamed, or leaves it to the next step.                                  *)
LEMMA InvalidationKept ==
    ASSUME TypeInv, [Next]_vars, NEW s \in Student, cached'[s] \notin {NoList, rows'[s]},
           NEW r \in Request, Invalidates(req[r], s)
    PROVE  Invalidates(req'[r], s) \/ cause'[s] # {}
<1> USE DEF TypeInv
<1>0. /\ req[r].at \in {"bind own copy", "bind target copy", "reorder copy"}
      /\ Form(req[r], issued) /\ DOMAIN req = Request
  BY DEF Invalidates, RequestsOK
<1>1. CASE UNCHANGED req
  BY <1>1
<1>2. ASSUME NEW q \in Request, q # r, Call(q) \/ Continue(q)
      PROVE  req'[r] = req[r]
  BY <1>0, <1>2, OthersStay DEF Checked
<1>3. ASSUME Call(r) PROVE FALSE
  <2>1. req[r] = Idle
    BY <1>3 DEF Call, Bind, Delete, List, Invite, Cancel, Reorder, Start
  <2>2. Idle.at = "idle"
    BY DEF Idle
  <2>3. QED
    BY <1>0, <2>1, <2>2
<1>4. ASSUME Continue(r)
      PROVE  BindOwnCopy(r) \/ BindTargetCopy(r) \/ ReorderCopy(r)
  BY <1>0, <1>4
     DEF Continue, BindRelation, BindLimit, BindCount, BindTargetLimit,
              BindTargetCount, BindWrite, BindMapping, BindCode,
         DeleteWrite, DeleteAdd, ListRead, ListAdd, InviteAdd, CancelLookup, CancelMapping,
         CancelCode
<1>5. ASSUME InvalidateFriendListCache(s)
      PROVE  cause'[s] # {}
  BY <1>5, Invalidation
<1>6. CASE BindOwnCopy(r)
  <2>1. /\ Binding(req[r], issued)
        /\ req' = [req EXCEPT ![r].at = "bind target copy"]
        /\ InvalidateFriendListCache(req[r].stu)
        /\ req[r].at = "bind own copy"
    BY <1>6, BinderOf DEF BindOwnCopy, GoTo
  <2>2. req'[r].at = "bind target copy" /\ req'[r].friend = req[r].friend
    BY <1>0, <2>1 DEF Binding
  <2>3. s = req[r].stu \/ s = req[r].friend
    BY <2>1 DEF Invalidates
  <2>4. QED
    BY <1>5, <2>1, <2>2, <2>3 DEF Invalidates
<1>7. CASE BindTargetCopy(r)
  BY <1>5, <1>7 DEF BindTargetCopy, Invalidates
<1>8. CASE ReorderCopy(r)
  BY <1>5, <1>8 DEF ReorderCopy, Invalidates
<1>9. QED
  BY <1>1, <1>2, <1>3, <1>4, <1>6, <1>7, <1>8, RequestWriters

LEMMA AddedDelete ==
    ASSUME TypeInv, NEW t \in Task, Add(t), t.what = "deleteFriendCache",
           NEW s, NEW e, Pair(t, s, e)
    PROVE  Remedy(s, e)'
<1> DEFINE k == KeyOf[t]
<1>1. k \in Key /\ t # None
  BY TaskParts
<1>2. /\ pending' = [pending EXCEPT ![k] = t]
      /\ UNCHANGED <<running, progress>>
      /\ renewed' = IF running[k] # None /\ progress[k] > 0 THEN renewed \cup {k} ELSE renewed
  BY DEF Add, Executor!Submit
<1>3. pending'[k] = t
  BY <1>1, <1>2 DEF TypeInv, QueueOK
<1>4. progress[k] \in 0..3
  BY <1>1 DEF TypeInv, QueueOK
<1> HIDE DEF k
<1>5. progress[k] = 0 \/ progress[k] > 0
  BY <1>4
<1>6. running'[k] = None \/ progress'[k] = 0 \/ k \in renewed'
  BY <1>2, <1>5
<1>7. Pair(t, s, e)'
  BY DEF Pair
<1>8. DeletePending(k, s, e)'
  BY <1>1, <1>3, <1>6 DEF DeletePending, Pair
<1>9. QED
  BY <1>1, <1>8 DEF Remedy

(* A deleted pair of which the task is not added yet gets its task.        *)
LEMMA DeleteAddKept ==
    ASSUME TypeInv, [Next]_vars, NEW s \in Student, NEW e \in Student,
           NEW r \in Request, req[r].at = "delete add", Pair(req[r], s, e)
    PROVE  Remedy(s, e)'
<1> USE DEF TypeInv
<1>0. Form(req[r], issued) /\ DOMAIN req = Request
  BY DEF RequestsOK
<1>1. ASSUME req'[r] = req[r]
      PROVE  Remedy(s, e)'
  BY <1>1 DEF Remedy, Pair
<1>2. ASSUME NEW q \in Request, q # r, Call(q) \/ Continue(q)
      PROVE  req'[r] = req[r]
  BY <1>0, <1>2, OthersStay DEF Checked
<1>3. ASSUME Call(r) PROVE FALSE
  <2>1. req[r] = Idle
    BY <1>3 DEF Call, Bind, Delete, List, Invite, Cancel, Reorder, Start
  <2>2. Idle.at = "idle"
    BY DEF Idle
  <2>3. QED
    BY <2>1, <2>2
<1>4. ASSUME Continue(r)
      PROVE  DeleteAdd(r)
  BY <1>4
     DEF Continue, BindRelation, BindLimit, BindCount, BindTargetLimit,
              BindTargetCount, BindWrite, BindOwnCopy,
         BindTargetCopy, BindMapping, BindCode, DeleteWrite, ListRead, ListAdd, ReorderCopy,
         InviteAdd, CancelLookup, CancelMapping, CancelCode
<1>5. CASE DeleteAdd(r)
  <2> DEFINE t == [what |-> "deleteFriendCache", stu |-> req[r].stu, friend |-> req[r].friend]
  <2>1. t \in Task /\ Add(t)
    BY <1>5, RequestAdds DEF DeleteAdd
  <2>2. t.what = "deleteFriendCache" /\ Pair(t, s, e)
    BY DEF Pair
  <2> HIDE DEF t
  <2>3. QED
    BY <2>1, <2>2, AddedDelete
<1>6. QED
  BY <1>1, <1>2, <1>3, <1>4, <1>5, RequestWriters

(* A pending delete of a pair goes on, has its effect, or is erased by the *)
(* success of an older one and blamed for it.                              *)
LEMMA DeletePendingKept ==
    ASSUME TypeInv, MutualFriends, [Next]_vars, NEW s \in Student, NEW e \in Student,
           HasCopy(s)', Differs(s, e)', NEW k \in Key, DeletePending(k, s, e)
    PROVE  DeletePending(k, s, e)' \/ cause'[s] # {}
<1> USE DEF TypeInv
<1>1. /\ pending[k] \in Task /\ pending[k] # None /\ KeyOf[pending[k]] = k
      /\ pending[k].what = "deleteFriendCache" /\ Pair(pending[k], s, e)
      /\ running[k] = None \/ progress[k] = 0 \/ k \in renewed
  BY DEF DeletePending, QueueOK
<1>2. ASSUME pending'[k] = pending[k],
             running'[k] = None \/ progress'[k] = 0 \/ k \in renewed'
      PROVE  DeletePending(k, s, e)'
  BY <1>1, <1>2 DEF DeletePending, Pair
<1>3. ASSUME NEW t \in Task, Add(t)
      PROVE  DeletePending(k, s, e)'
  <2>1. /\ pending' = [pending EXCEPT ![KeyOf[t]] = t]
        /\ UNCHANGED <<running, progress>>
        /\ renewed \subseteq renewed'
    BY <1>3 DEF Add, Executor!Submit
  <2>2. KeyOf[t] = k => t = pending[k]
    BY <1>1, DeleteKeyTells
  <2>3. pending'[k] = pending[k]
    BY <2>1, <2>2 DEF QueueOK
  <2>4. QED
    BY <1>1, <1>2, <2>1, <2>3
<1>4. ASSUME NEW r \in Request, DeleteAdd(r) \/ ListAdd(r) \/ InviteAdd(r)
      PROVE  \E t \in Task : Add(t)
  <2>1. CASE DeleteAdd(r)
    BY <2>1, RequestAdds DEF DeleteAdd
  <2>2. CASE ListAdd(r)
    BY <2>2, RequestAdds DEF ListAdd
  <2>3. CASE InviteAdd(r)
    BY <2>3, RequestAdds
  <2>4. QED
    BY <1>4, <2>1, <2>2, <2>3
<1>5. ASSUME NEW j \in Key, Begin(j)
      PROVE  DeletePending(k, s, e)'
  <2>1. /\ running' = [running EXCEPT ![j] = pending[j]]
        /\ progress' = [progress EXCEPT ![j] = 0]
        /\ UNCHANGED <<pending, renewed>>
    BY <1>5 DEF Begin, Executor!Begin, ghosts
  <2>2. QED
    BY <1>1, <1>2, <2>1 DEF QueueOK
<1>6. ASSUME NEW j \in Key, CommandFails(j)
      PROVE  DeletePending(k, s, e)'
  <2>1. /\ running' = [running EXCEPT ![j] = None]
        /\ progress' = [progress EXCEPT ![j] = 0]
        /\ UNCHANGED <<pending, renewed>>
    BY <1>6 DEF CommandFails, GiveUp, Executor!Release, ghosts
  <2>2. QED
    BY <1>1, <1>2, <2>1 DEF QueueOK
<1>7. ASSUME NEW j \in Key, NEW what, NEW n \in {1, 2, 3}, Command(j, what, n),
             j = k => what # "deleteFriendCache"
      PROVE  DeletePending(k, s, e)'
  <2>1. /\ running[j] # None /\ running[j].what = what
        /\ UNCHANGED <<pending, renewed>>
        /\ \/ UNCHANGED running /\ progress' = [progress EXCEPT ![j] = n]
           \/ UNCHANGED <<running, progress>>
           \/ /\ running' = [running EXCEPT ![j] = None]
              /\ progress' = [progress EXCEPT ![j] = 0]
    BY <1>7, CommandTells
  <2>2. j # k
    BY <1>1, <1>7, <2>1, RunningTask
  <2>3. progress'[k] = progress[k] /\ running'[k] = running[k]
    BY <2>1, <2>2 DEF QueueOK
  <2>4. QED
    BY <1>1, <1>2, <2>1, <2>3
<1>8. ASSUME NEW j \in Key,
             \/ SetUserFriendListCache(j)
             \/ UpdateRemove(j) \/ UpdateSetCode(j) \/ UpdateSetMapping(j)
      PROVE  DeletePending(k, s, e)'
  <2>1. \/ Command(j, "setFriendListCache", 1)
        \/ Command(j, "updateInvitationCode", 1)
        \/ Command(j, "updateInvitationCode", 2)
        \/ Command(j, "updateInvitationCode", 3)
    BY <1>8 DEF SetUserFriendListCache, UpdateRemove, UpdateSetCode, UpdateSetMapping
  <2>2. /\ "setFriendListCache" # "deleteFriendCache"
        /\ "updateInvitationCode" # "deleteFriendCache"
    OBVIOUS
  <2>3. QED
    BY <1>7, <2>1, <2>2
<1>9. ASSUME NEW j \in Key, DeleteUserFriendCache(j)
      PROVE  DeletePending(k, s, e)' \/ cause'[s] # {}
  <2>1. Command(j, "deleteFriendCache", 1)
    BY <1>9 DEF DeleteUserFriendCache
  <2>2. CASE j = k
    <3>1. running[k] # None /\ running[k].what = "deleteFriendCache"
      BY <2>1, <2>2 DEF Command
    <3>2. Pair(running[k], s, e)
      BY <1>1, <3>1, RunningTask
    <3>3. QED
      BY <1>9, <2>2, <3>2, LateDelete
  <2>3. CASE j # k
    BY <1>7, <2>1, <2>3
  <2>4. QED
    BY <2>2, <2>3
<1>10. ASSUME NEW j \in Key, Succeed(j)
       PROVE  DeletePending(k, s, e)' \/ cause'[s] # {}
  <2>1. /\ pending' = [pending EXCEPT ![j] = None]
        /\ running' = [running EXCEPT ![j] = None]
        /\ progress' = [progress EXCEPT ![j] = 0]
        /\ renewed' = renewed \ {j}
        /\ UNCHANGED <<rows, cached>>
    BY <1>10 DEF Succeed, Executor!Succeed, lists
  <2>2. CASE j # k
    BY <1>1, <1>2, <2>1, <2>2 DEF QueueOK
  <2>3. CASE j = k
    <3>1. running[k] # None /\ progress[k] = Length(running[k])
      BY <1>10, <2>3 DEF Succeed
    <3>2. running[k] = pending[k]
      BY <1>1, <3>1, RunningTask
    <3>3. progress[k] = 1
      BY <1>1, <3>1, <3>2 DEF Length
    <3>4. k \in renewed
      BY <1>1, <3>1, <3>3
    <3>5. s \in {running[k].stu, running[k].friend}
      BY <1>1, <3>2 DEF Pair
    <3>6. Stale(s)
      BY <2>1, StaleThen DEF Stale, HasCopy
    <3>7. cause' = [u \in Student |->
                       IF u \in {running[k].stu, running[k].friend} /\ Stale(u)
                       THEN cause[u] \cup {"delete erased"} ELSE cause[u]]
      BY <1>1, <1>10, <2>3, <3>2, <3>4 DEF Succeed
    <3>8. QED
      BY <3>5, <3>6, <3>7
  <2>4. QED
    BY <2>2, <2>3
<1>11. CASE UNCHANGED <<pending, running, progress, renewed>>
  BY <1>1, <1>2, <1>11
<1>12. QED
  BY <1>3, <1>4, <1>5, <1>6, <1>8, <1>9, <1>10, <1>11, QueueWriters DEF Work

LEMMA EntriesStayExplained ==
    ASSUME TypeInv, MutualFriends, EntriesExplained, [Next]_vars
    PROVE  EntriesExplained'
<1> SUFFICES ASSUME NEW s \in Student, NEW e \in Student, HasCopy(s)', Differs(s, e)'
             PROVE  cause'[s] # {} \/ Remedy(s, e)'
  BY DEF EntriesExplained
<1>1. cached'[s] \notin {NoList, rows'[s]}
  BY StaleThen
<1>2. CASE cause[s] # {}
  BY <1>1, <1>2, CauseKept
<1>3. ASSUME NEW r \in Request, Invalidates(req[r], s)
      PROVE  cause'[s] # {} \/ Remedy(s, e)'
  <2>1. Invalidates(req'[r], s) \/ cause'[s] # {}
    BY <1>1, <1>3, InvalidationKept
  <2>2. QED
    BY <2>1 DEF Remedy, Invalidates
<1>4. ASSUME NEW r \in Request, req[r].at = "delete add" /\ Pair(req[r], s, e)
      PROVE  Remedy(s, e)'
  BY <1>4, DeleteAddKept
<1>5. ASSUME NEW k \in Key, DeletePending(k, s, e)
      PROVE  cause'[s] # {} \/ Remedy(s, e)'
  <2>1. DeletePending(k, s, e)' \/ cause'[s] # {}
    BY <1>5, DeletePendingKept
  <2>2. DeletePending(k, s, e)' => Remedy(s, e)'
    BY DEF Remedy
  <2>3. QED
    BY <2>1, <2>2
<1>6. (HasCopy(s) /\ Differs(s, e)) \/ cause'[s] # {} \/ Remedy(s, e)'
  BY DifferedBefore
<1>7. CASE HasCopy(s) /\ Differs(s, e)
  <2>1. cause[s] # {} \/ Remedy(s, e)
    BY <1>7 DEF EntriesExplained
  <2>2. QED
    BY <1>2, <1>3, <1>4, <1>5, <2>1 DEF Remedy
<1>8. QED
  BY <1>6, <1>7

(* A copy of a friend list differs from the table only until a request or  *)
(* task in flight gets to it, or after one of four races that the design   *)
(* accepts.                                                                *)
THEOREM StaleAccounted == Spec => []StaleExplained
<1> DEFINE CopyInv == TypeInv /\ MutualFriends /\ EntriesExplained
<1>1. Init => CopyInv
  <2> SUFFICES ASSUME Init PROVE CopyInv
    OBVIOUS
  <2>1. \A s \in Student : ~HasCopy(s)
    BY DEF Init, HasCopy
  <2>2. QED
    BY <2>1, FriendsInit DEF EntriesExplained
<1>2. CopyInv /\ [Next]_vars => CopyInv'
  BY FriendsStep, EntriesStayExplained
<1>3. CopyInv => StaleExplained
  BY ExplainedImplies
<1>4. QED
  BY <1>1, <1>2, <1>3, PTL DEF Spec

=============================================================================
