------------------------------- MODULE Friends -------------------------------
(***************************************************************************)
(* The friend operations of internal/user: invitation codes in Redis,      *)
(* friend relations in MySQL, and a Redis copy of every student's list.    *)
(* Requests run concurrently; each access to Redis or MySQL is a step.     *)
(* Background work goes through the task queue, used here as the executor  *)
(* that TaskQueue implements.                                              *)
(*                                                                         *)
(* A friend list is a function from friends to their order_seq.  An empty  *)
(* hash does not exist in Redis, so the empty list stands for "no copy".   *)
(*                                                                         *)
(* A Redis command whose error comes back may have had its effect or not,  *)
(* and the client may send a command again that already had it.  Where an  *)
(* error is only logged, a removal that failed but had its effect is the   *)
(* same as one that succeeded.  A pipeline or a transaction is carried out *)
(* whole or not at all; a transaction of MySQL that fails has not been     *)
(* carried out.  A read that fails ends its request, without any effect.   *)
(***************************************************************************)
EXTENDS Naturals, Sequences, FiniteSets, Functions

CONSTANTS
    Student,
    Code,          \* invitation codes
    Request,       \* requests in flight at a time
    None,
    MaxNum,        \* friend.max-nums: friends a student may have
    CodeBefore,    \* CodeBefore[s]: the code s holds at the start, or None
    Reorderings,   \* friendIds that ReorderFriendList is called with
    Scenarios      \* [before, budget]: pairs that are friends at the start, and
                   \* how many events of a kind happen; this bounds the model

(* The events a run counts: requests, failed commands, codes that expire. *)
Kind == {"bind", "delete", "list", "reorder", "invite", "cancel", "fault", "expiry"}

Orders == {0} \cup UNION {1..Len(ids) : ids \in Reorderings}

FriendList == UNION {[F -> Orders] : F \in SUBSET Student}

NoList == [f \in {} |-> 0]

(* The tasks handed to the queue, and the key each is added under. *)
Task ==
    [what : {"setFriendListCache"}, stu : Student, list : FriendList]
    \cup {t \in [what : {"deleteFriendCache"}, stu : Student, friend : Student] :
             t.stu # t.friend}
    \cup [what : {"updateInvitationCode"}, stu : Student,
          old : Code \cup {None}, new : Code]

KeyFor(t) ==
    IF t.what = "deleteFriendCache" THEN <<t.what, t.stu, t.friend>> ELSE <<t.what, t.stu>>

KeyOf == [t \in Task |-> KeyFor(t)]
Key == {KeyOf[t] : t \in Task}

ASSUME FriendsAssumption ==
    /\ None \notin Student \cup Code \cup Task
    /\ IsFiniteSet(Student)
    /\ MaxNum \in Nat \ {0}
    /\ Scenarios \subseteq [before : SUBSET (Student \X Student), budget : [Kind -> Nat]]
    /\ \A sc \in Scenarios :
         \A p \in sc.before : p[1] # p[2] /\ <<p[2], p[1]>> \in sc.before
    /\ CodeBefore \in [Student -> Code \cup {None}]
    /\ \A s, u \in Student : CodeBefore[s] = CodeBefore[u] => s = u \/ CodeBefore[s] = None
    /\ \A ids \in Reorderings : ids \in Seq(Student)

VARIABLES
    rows,          \* rows[s]: active follow_relation rows with follower s
    cached,        \* cached[s]: the hash user_friends:<s>
    volatile,      \* students whose hash has an expiry time
    codes,         \* codes[s]: the code in codes:<s>
    mapping,       \* mapping[c]: the student in code_mapping:<c>
    req,           \* req[r]: the state of request r
    pending,       \* the task stored under a key
    running,       \* the task a worker runs
    progress,      \* commands the running task has done
    left,          \* what is left of the budget
    issued,        \* history: codes generated
    spent,         \* history: codes a bind has made friends with, or a cancel
                   \* has removed the mapping of
    unremoved,     \* history: codes whose mapping a bind failed to remove
    unsure,        \* history: codes whose mapping was stored, but by a command
                   \* that is sent again or whose error came back
    renewed,       \* history: keys added again after their task had run
    cause          \* history: why a student's copy may be stale

lists == <<cached, volatile>>
invites == <<codes, mapping>>
queue == <<pending, running, progress>>
used == <<spent, unremoved, unsure>>
ghosts == <<issued, used, renewed, cause>>
vars == <<rows, lists, invites, req, queue, left, ghosts>>

Executor == INSTANCE SerialExecutor WITH Periodic <- {}

Idle == [at |-> "idle"]

Init ==
    /\ \E sc \in Scenarios :
         /\ rows = [s \in Student |-> [f \in {u \in Student : <<s, u>> \in sc.before} |-> 0]]
         /\ left = sc.budget
    /\ cached = [s \in Student |-> NoList]
    /\ volatile = {}
    /\ codes = CodeBefore
    /\ mapping = [c \in Code |-> IF \E s \in Student : CodeBefore[s] = c
                                 THEN CHOOSE s \in Student : CodeBefore[s] = c
                                 ELSE None]
    /\ req = [r \in Request |-> Idle]
    /\ Executor!Init
    /\ progress = [k \in Key |-> 0]
    /\ issued = {CodeBefore[s] : s \in Student} \ {None}
    /\ spent = {}
    /\ unremoved = {}
    /\ unsure = {}
    /\ renewed = {}
    /\ cause = [s \in Student |-> {}]

-----------------------------------------------------------------------------
Spend(kind) == left[kind] > 0 /\ left' = [left EXCEPT ![kind] = @ - 1]

Fault == Spend("fault")

IsFriend(s, f) == f \in DOMAIN rows[s]

HasCopy(s) == cached[s] # NoList

(* IsFriendNumsConfined asks whether there is a copy, an error reading as  *)
(* no, and then counts the copy, if that is what it found, or the table.   *)
(* A copy gone by the time it is read counts as an empty list.             *)
IsKeyExist(s, answer) ==
    \/ answer = HasCopy(s) /\ UNCHANGED left
    \/ answer = FALSE /\ Fault

Counted(s, copy) == IF copy THEN cached[s] ELSE rows[s]

IsFriendNumsConfined(s, copy) == Cardinality(DOMAIN Counted(s, copy)) >= MaxNum

(* History: a copy is accounted for until it is gone or right again. *)
Stale(s) == HasCopy(s) /\ cached[s] # rows[s]

Blame(s, why) ==
    cause' = [u \in Student |->
                 IF cached'[u] \in {NoList, rows'[u]} THEN {}
                 ELSE IF u = s THEN cause[u] \cup {why} ELSE cause[u]]

NoBlame == cause' = [u \in Student |->
                        IF cached'[u] \in {NoList, rows'[u]} THEN {} ELSE cause[u]]

(* A request starts, goes on, or has returned. *)
Start(r, kind, state) ==
    /\ req[r] = Idle
    /\ Spend(kind)
    /\ req' = [req EXCEPT ![r] = state]

GoTo(r, label) == req' = [req EXCEPT ![r].at = label]
Return(r) == req' = [req EXCEPT ![r] = Idle]

OnlyRequest == UNCHANGED <<rows, lists, invites, queue, ghosts>>

(* taskQueue.Add *)
Add(t) ==
    /\ Executor!Submit(t)
    /\ renewed' = IF running[KeyOf[t]] # None /\ progress[KeyOf[t]] > 0
                  THEN renewed \cup {KeyOf[t]} ELSE renewed
    /\ UNCHANGED progress

(* InvalidateFriendListCache, if the key exists; an error is only logged. *)
InvalidateFriendListCache(s) ==
    \/ /\ cached' = [cached EXCEPT ![s] = NoList]
       /\ volatile' = volatile \ {s}
       /\ UNCHANGED <<rows, left>>
       /\ NoBlame
    \/ /\ HasCopy(s)
       /\ Fault
       /\ UNCHANGED <<rows, lists>>
       /\ Blame(s, "invalidation failed")

-----------------------------------------------------------------------------
(* BindInvitation *)

(* The code's owner is looked up; an unknown or one's own code is refused. *)
Bind(r, s, c) ==
    /\ mapping[c] \notin {None, s}
    /\ Start(r, "bind", [at |-> "bind relation", stu |-> s, friend |-> mapping[c],
                         code |-> c, copy |-> FALSE, alone |-> TRUE])
    /\ OnlyRequest

BindRelation(r) ==
    /\ req[r].at = "bind relation"
    /\ IF IsFriend(req[r].stu, req[r].friend) THEN Return(r) ELSE GoTo(r, "bind limit")
    /\ OnlyRequest
    /\ UNCHANGED left

(* Mutant of BindTargetLimit: the friend's list is not checked. *)
BindTargetLimit_Skipped(r) ==
    /\ req[r].at = "bind target limit"
    /\ GoTo(r, "bind write")
    /\ OnlyRequest
    /\ UNCHANGED left

(* Each limit is checked against a copy, or against the table.  `alone'    *)
(* records that the list counted was the table's, and stays so until some  *)
(* other bind writes.                                                      *)
BindLimit(r) ==
    /\ req[r].at = "bind limit"
    /\ \E copy \in BOOLEAN :
         /\ IsKeyExist(req[r].stu, copy)
         /\ req' = [req EXCEPT ![r].at = "bind count", ![r].copy = copy]
    /\ OnlyRequest

BindCount(r) ==
    LET s == req[r].stu
        copy == req[r].copy IN
    /\ req[r].at = "bind count"
    /\ IF IsFriendNumsConfined(s, copy) THEN Return(r)
       ELSE req' = [req EXCEPT ![r].at = "bind target limit",
                               ![r].alone = Counted(s, copy) = rows[s]]
    /\ OnlyRequest
    /\ UNCHANGED left

BindTargetLimit(r) ==
    /\ req[r].at = "bind target limit"
    /\ \E copy \in BOOLEAN :
         /\ IsKeyExist(req[r].friend, copy)
         /\ req' = [req EXCEPT ![r].at = "bind target count", ![r].copy = copy]
    /\ OnlyRequest

BindTargetCount(r) ==
    LET f == req[r].friend
        copy == req[r].copy IN
    /\ req[r].at = "bind target count"
    /\ IF IsFriendNumsConfined(f, copy) THEN Return(r)
       ELSE req' = [req EXCEPT ![r].at = "bind write",
                               ![r].alone = @ /\ Counted(f, copy) = rows[f]]
    /\ OnlyRequest
    /\ UNCHANGED left

(* Once a request writes relations, checks other binds have made are old. *)
Overtaken(r) ==
    [q \in Request |->
        IF q # r /\ req[q].at \in {"bind target limit", "bind target count", "bind write"}
        THEN [req[q] EXCEPT !.alone = FALSE] ELSE req[q]]

With(list, f) == [u \in DOMAIN list \cup {f} |-> IF u = f THEN 0 ELSE list[u]]
Without(list, f) == Restrict(list, DOMAIN list \ {f})

Befriend(s, f) == [rows EXCEPT ![s] = With(@, f), ![f] = With(@, s)]

(* writeRelationToDB: both rows in one transaction; uk_active_relation     *)
(* refuses a row that is there already.                                    *)
BindWrite(r) ==
    LET s == req[r].stu
        f == req[r].friend IN
    /\ req[r].at = "bind write"
    /\ IF IsFriend(s, f) \/ IsFriend(f, s)
       THEN /\ Return(r)
            /\ UNCHANGED <<rows, spent>>
       ELSE /\ rows' = Befriend(s, f)
            /\ req' = [Overtaken(r) EXCEPT ![r].at = "bind own copy"]
            /\ spent' = spent \cup {req[r].code}
    /\ UNCHANGED <<lists, invites, queue, left, issued, unremoved, unsure, renewed>>
    /\ NoBlame

BindOwnCopy(r) ==
    /\ req[r].at = "bind own copy"
    /\ InvalidateFriendListCache(req[r].stu)
    /\ GoTo(r, "bind target copy")
    /\ UNCHANGED <<invites, queue, issued, used, renewed>>

(* Mutant of BindTargetCopy: only the binder's copy is removed. *)
BindTargetCopy_Skipped(r) ==
    /\ req[r].at = "bind target copy"
    /\ GoTo(r, "bind mapping")
    /\ OnlyRequest
    /\ UNCHANGED left

BindTargetCopy(r) ==
    /\ req[r].at = "bind target copy"
    /\ InvalidateFriendListCache(req[r].friend)
    /\ GoTo(r, "bind mapping")
    /\ UNCHANGED <<invites, queue, issued, used, renewed>>

(* RemoveCodeStuIdMappingCache; an error is only logged. *)
BindMapping(r) ==
    LET c == req[r].code IN
    /\ req[r].at = "bind mapping"
    /\ GoTo(r, "bind code")
    /\ \/ /\ mapping' = [mapping EXCEPT ![c] = None]
          /\ unremoved' = unremoved \ {c}
          /\ UNCHANGED left
       \/ /\ Fault
          /\ unremoved' = unremoved \cup {c}
          /\ UNCHANGED mapping
    /\ UNCHANGED <<rows, lists, codes, queue, issued, spent, unsure, renewed, cause>>

(* RemoveInvitationCodeCache, whatever code is stored there by now. *)
BindCode(r) ==
    /\ req[r].at = "bind code"
    /\ Return(r)
    /\ \/ /\ codes' = [codes EXCEPT ![req[r].friend] = None]
          /\ UNCHANGED left
       \/ /\ Fault
          /\ UNCHANGED codes
    /\ UNCHANGED <<rows, lists, mapping, queue, ghosts>>

-----------------------------------------------------------------------------
(* DeleteUserFriend *)

Delete(r, s, f) ==
    /\ IsFriend(s, f)
    /\ Start(r, "delete", [at |-> "delete write", stu |-> s, friend |-> f])
    /\ OnlyRequest

(* Mutant of DeleteWrite: the friend's row stays active. *)
DeleteWrite_OneRow(r) ==
    LET s == req[r].stu
        f == req[r].friend IN
    /\ req[r].at = "delete write"
    /\ rows' = [rows EXCEPT ![s] = Without(@, f)]
    /\ GoTo(r, "delete add")
    /\ UNCHANGED <<lists, invites, queue, left, issued, used, renewed>>
    /\ NoBlame

(* DeleteRelation: both rows in one transaction, if they are still active. *)
DeleteWrite(r) ==
    LET s == req[r].stu
        f == req[r].friend IN
    /\ req[r].at = "delete write"
    /\ rows' = [rows EXCEPT ![s] = Without(@, f),
                            ![f] = Without(@, s)]
    /\ GoTo(r, "delete add")
    /\ UNCHANGED <<lists, invites, queue, left, issued, used, renewed>>
    /\ NoBlame

DeleteAdd(r) ==
    /\ req[r].at = "delete add"
    /\ Add([what |-> "deleteFriendCache", stu |-> req[r].stu, friend |-> req[r].friend])
    /\ Return(r)
    /\ UNCHANGED <<rows, lists, invites, left, issued, used, cause>>

-----------------------------------------------------------------------------
(* GetFriendList, when there is no copy or an error reads as none;         *)
(* singleflight merges the calls of a student.  With a copy the call only  *)
(* reads.                                                                  *)

List(r, s) ==
    /\ \A q \in Request : req[q].at \in {"list read", "list add"} => req[q].stu # s
    /\ Start(r, "list", [at |-> "list read", stu |-> s, list |-> NoList])
    /\ OnlyRequest

ListRead(r) ==
    /\ req[r].at = "list read"
    /\ req' = [req EXCEPT ![r].at = "list add", ![r].list = rows[req[r].stu]]
    /\ OnlyRequest
    /\ UNCHANGED left

ListAdd(r) ==
    /\ req[r].at = "list add"
    /\ Add([what |-> "setFriendListCache", stu |-> req[r].stu, list |-> req[r].list])
    /\ Return(r)
    /\ UNCHANGED <<rows, lists, invites, left, issued, used, cause>>

-----------------------------------------------------------------------------
(* ReorderFriendList: the requested friends get descending numbers, the    *)
(* others 0; requested students that are no friends have no row.           *)
OrderSeq(ids, f) ==
    LET at == {i \in 1..Len(ids) : ids[i] = f} IN
    IF at = {} THEN 0
    ELSE Len(ids) + 1 - (CHOOSE i \in at : \A j \in at : j <= i)

Reorder(r, s, ids) ==
    /\ Start(r, "reorder", [at |-> "reorder copy", stu |-> s])
    /\ rows' = [rows EXCEPT ![s] = [f \in DOMAIN @ |-> OrderSeq(ids, f)]]
    /\ UNCHANGED <<lists, invites, queue, issued, used, renewed>>
    /\ NoBlame

ReorderCopy(r) ==
    /\ req[r].at = "reorder copy"
    /\ InvalidateFriendListCache(req[r].stu)
    /\ Return(r)
    /\ UNCHANGED <<invites, queue, issued, used, renewed>>

-----------------------------------------------------------------------------
(* GetInvitationCode, when there is no code or a refresh is asked for: the *)
(* present code is read, a new one is returned and a task will store it.   *)
(* An error in asking for it reads as no code.  Random codes are taken to  *)
(* be new.                                                                 *)

Invite(r, s) ==
    /\ \E old \in {codes[s], None} :
         Start(r, "invite", [at |-> "invite add", stu |-> s, code |-> old])
    /\ OnlyRequest

InviteAdd(r) ==
    /\ req[r].at = "invite add"
    /\ \E c \in Code \ issued :
         /\ issued' = issued \cup {c}
         /\ Add([what |-> "updateInvitationCode", stu |-> req[r].stu,
                 old |-> req[r].code, new |-> c])
    /\ Return(r)
    /\ UNCHANGED <<rows, lists, invites, left, used, cause>>

-----------------------------------------------------------------------------
(* CancelInvitationCode *)

Cancel(r, s) ==
    /\ codes[s] # None
    /\ Start(r, "cancel", [at |-> "cancel lookup", stu |-> s, code |-> codes[s]])
    /\ OnlyRequest

CancelLookup(r) ==
    /\ req[r].at = "cancel lookup"
    /\ IF mapping[req[r].code] = req[r].stu THEN GoTo(r, "cancel mapping") ELSE Return(r)
    /\ OnlyRequest
    /\ UNCHANGED left

(* With an error the call returns, whether the mapping is gone or not. *)
CancelMapping(r) ==
    LET c == req[r].code
        removed == [mapping EXCEPT ![c] = None]
    IN
    /\ req[r].at = "cancel mapping"
    /\ \/ /\ mapping' = removed
          /\ spent' = spent \cup {c}
          /\ unremoved' = unremoved \ {c}
          /\ GoTo(r, "cancel code")
          /\ UNCHANGED left
       \/ /\ Fault
          /\ Return(r)
          /\ mapping' \in {mapping, removed}
          /\ UNCHANGED <<spent, unremoved>>
    /\ UNCHANGED <<rows, lists, codes, queue, issued, unsure, renewed, cause>>

CancelCode(r) ==
    /\ req[r].at = "cancel code"
    /\ Return(r)
    /\ \/ /\ codes' = [codes EXCEPT ![req[r].stu] = None]
          /\ UNCHANGED left
       \/ /\ Fault
          /\ UNCHANGED codes
    /\ UNCHANGED <<rows, lists, mapping, queue, ghosts>>

-----------------------------------------------------------------------------
(* The task queue: a worker begins a task, runs its commands one by one    *)
(* and removes it, or puts it back when a command failed.                  *)

Begin(k) ==
    /\ Executor!Begin(k)
    /\ progress' = [progress EXCEPT ![k] = 0]
    /\ UNCHANGED <<rows, lists, invites, req, left, ghosts>>

Length(t) == IF t.what = "updateInvitationCode" THEN 3 ELSE 1

(* Execute returns an error: the task stays under its key. *)
GiveUp(k) ==
    /\ Fault
    /\ Executor!Release(k)
    /\ progress' = [progress EXCEPT ![k] = 0]

(* A command of the running task of k, the n-th of what it does, takes     *)
(* effect.  It is answered, or the client sends it again, or gives up.     *)
Command(k, what, n) ==
    /\ running[k] # None
    /\ running[k].what = what
    /\ progress[k] = n - 1
    /\ \/ progress' = [progress EXCEPT ![k] = n] /\ UNCHANGED <<pending, running, left>>
       \/ Fault /\ UNCHANGED queue
       \/ GiveUp(k)
    /\ UNCHANGED <<req, issued, spent, unremoved, renewed>>

(* Mutant of SetUserFriendListCache: the hash gets no expiry time. *)
SetUserFriendListCache_NoExpiry(k) ==
    LET t == running[k] IN
    /\ Command(k, "setFriendListCache", 1)
    /\ cached' = [cached EXCEPT ![t.stu] = t.list]
    /\ volatile' = volatile \ {t.stu}
    /\ UNCHANGED <<rows, invites, unsure>>
    /\ Blame(t.stu, "late fill")

(* The hash is deleted, filled with the list read then, and given its TTL. *)
SetUserFriendListCache(k) ==
    LET t == running[k] IN
    /\ Command(k, "setFriendListCache", 1)
    /\ cached' = [cached EXCEPT ![t.stu] = t.list]
    /\ volatile' = IF t.list = NoList THEN volatile \ {t.stu} ELSE volatile \cup {t.stu}
    /\ UNCHANGED <<rows, invites, unsure>>
    /\ Blame(t.stu, "late fill")

(* HDEL on both hashes, in one pipeline *)
DeleteUserFriendCache(k) ==
    LET t == running[k]
        s == t.stu
        f == t.friend
        late == IsFriend(s, f)
    IN
    /\ Command(k, "deleteFriendCache", 1)
    /\ cached' = [cached EXCEPT ![s] = Without(@, f),
                                ![f] = Without(@, s)]
    /\ volatile' = volatile \ {u \in {s, f} : cached'[u] = NoList}
    /\ cause' = [u \in Student |->
                    IF cached'[u] \in {NoList, rows[u]} THEN {}
                    ELSE IF u \in {s, f} /\ late THEN cause[u] \cup {"late delete"}
                    ELSE cause[u]]
    /\ UNCHANGED <<rows, invites, unsure>>

(* updateInvitationCode removes the old mapping, stores the new code, and  *)
(* then lets it be used.                                                   *)
UpdateRemove(k) ==
    LET t == running[k] IN
    /\ Command(k, "updateInvitationCode", 1)
    /\ mapping' = IF t.old = None THEN mapping ELSE [mapping EXCEPT ![t.old] = None]
    /\ UNCHANGED <<rows, lists, codes, unsure, cause>>

(* Mutant of UpdateSetCode: the mapping is stored before the code. *)
UpdateSetCode_Swapped(k) ==
    LET t == running[k] IN
    /\ Command(k, "updateInvitationCode", 2)
    /\ codes' = [codes EXCEPT ![t.stu] = t.new]
    /\ mapping' = [mapping EXCEPT ![t.new] = t.stu]
    /\ UNCHANGED <<rows, lists, unsure, cause>>

UpdateSetCode(k) ==
    LET t == running[k] IN
    /\ Command(k, "updateInvitationCode", 2)
    /\ codes' = [codes EXCEPT ![t.stu] = t.new]
    /\ UNCHANGED <<rows, lists, mapping, unsure, cause>>

UpdateSetMapping(k) ==
    LET t == running[k] IN
    /\ Command(k, "updateInvitationCode", 3)
    /\ mapping' = [mapping EXCEPT ![t.new] = t.stu]
    /\ unsure' = IF progress'[k] = 3 THEN unsure ELSE unsure \cup {t.new}
    /\ UNCHANGED <<rows, lists, codes, cause>>

(* A command fails without having had any effect. *)
CommandFails(k) ==
    /\ running[k] # None
    /\ progress[k] < Length(running[k])
    /\ GiveUp(k)
    /\ UNCHANGED <<rows, lists, invites, req, ghosts>>

(* Execute has returned nil; whatever is stored under the key is removed,  *)
(* a task added since then too.                                            *)
Succeed(k) ==
    LET t == running[k]
        erases == k \in renewed /\ t.what = "deleteFriendCache"
    IN
    /\ t # None
    /\ progress[k] = Length(t)
    /\ Executor!Succeed(k)
    /\ progress' = [progress EXCEPT ![k] = 0]
    /\ renewed' = renewed \ {k}
    /\ cause' = [u \in Student |-> IF erases /\ u \in {t.stu, t.friend} /\ Stale(u)
                                   THEN cause[u] \cup {"delete erased"} ELSE cause[u]]
    /\ UNCHANGED <<rows, lists, invites, req, left, issued, used>>

-----------------------------------------------------------------------------
(* Redis removes what has expired. *)

ExpireList(s) ==
    /\ s \in volatile
    /\ cached' = [cached EXCEPT ![s] = NoList]
    /\ volatile' = volatile \ {s}
    /\ UNCHANGED <<rows, invites, req, queue, left, issued, used, renewed>>
    /\ NoBlame

ExpireCode(s) ==
    /\ Spend("expiry")
    /\ codes[s] # None
    /\ codes' = [codes EXCEPT ![s] = None]
    /\ UNCHANGED <<rows, lists, mapping, req, queue, ghosts>>

ExpireMapping(c) ==
    /\ Spend("expiry")
    /\ mapping[c] # None
    /\ mapping' = [mapping EXCEPT ![c] = None]
    /\ UNCHANGED <<rows, lists, codes, req, queue, ghosts>>

-----------------------------------------------------------------------------
Continue(r) ==
    \/ BindRelation(r) \/ BindLimit(r) \/ BindCount(r)
    \/ BindTargetLimit(r) \/ BindTargetCount(r) \/ BindWrite(r)
    \/ BindOwnCopy(r) \/ BindTargetCopy(r) \/ BindMapping(r) \/ BindCode(r)
    \/ DeleteWrite(r) \/ DeleteAdd(r)
    \/ ListRead(r) \/ ListAdd(r)
    \/ ReorderCopy(r)
    \/ InviteAdd(r)
    \/ CancelLookup(r) \/ CancelMapping(r) \/ CancelCode(r)

Call(r) ==
    \/ \E s \in Student, c \in Code : Bind(r, s, c)
    \/ \E s, f \in Student : Delete(r, s, f)
    \/ \E s \in Student : List(r, s) \/ Invite(r, s) \/ Cancel(r, s)
    \/ \E s \in Student, ids \in Reorderings : Reorder(r, s, ids)

Work(k) ==
    \/ Begin(k) \/ Succeed(k)
    \/ SetUserFriendListCache(k) \/ DeleteUserFriendCache(k)
    \/ UpdateRemove(k) \/ UpdateSetCode(k) \/ UpdateSetMapping(k)

Next ==
    \/ \E r \in Request : Call(r) \/ Continue(r)
    \/ \E k \in Key : Work(k) \/ CommandFails(k)
    \/ \E s \in Student : ExpireList(s) \/ ExpireCode(s)
    \/ \E c \in Code : ExpireMapping(c)

Spec == Init /\ [][Next]_vars

(* Requests and workers go on, and a list's time to live ends. *)
FairSpec ==
    /\ Spec
    /\ \A r \in Request : WF_vars(Continue(r))
    /\ \A k \in Key : WF_vars(Work(k))
    /\ \A s \in Student : WF_vars(ExpireList(s))

-----------------------------------------------------------------------------
(* Correctness *)

Reason == {"invalidation failed", "late fill", "late delete", "delete erased"}

State ==
    {"idle", "bind relation", "bind limit", "bind count", "bind target limit",
     "bind target count", "bind write",
     "bind own copy", "bind target copy", "bind mapping", "bind code",
     "delete write", "delete add", "list read", "list add", "reorder copy",
     "invite add", "cancel lookup", "cancel mapping", "cancel code"}

(* Every variable keeps its type; only copies that exist have a TTL. *)
TypeOK ==
    /\ rows \in [Student -> FriendList]
    /\ cached \in [Student -> FriendList]
    /\ volatile \subseteq {s \in Student : HasCopy(s)}
    /\ codes \in [Student -> Code \cup {None}]
    /\ mapping \in [Code -> Student \cup {None}]
    /\ DOMAIN req = Request
    /\ \A r \in Request : req[r].at \in State
    /\ pending \in [Key -> Task \cup {None}]
    /\ running \in [Key -> Task \cup {None}]
    /\ progress \in [Key -> 0..3]
    /\ left \in [Kind -> Nat]
    /\ issued \subseteq Code
    /\ spent \cup unremoved \cup unsure \subseteq issued
    /\ renewed \subseteq Key
    /\ cause \in [Student -> SUBSET Reason]

(* Friendship is mutual and nobody is a friend of himself, whatever binds  *)
(* and deletes of the same two students interleave.                        *)
MutualFriends ==
    \A s, f \in Student : IsFriend(s, f) => s # f /\ IsFriend(f, s)

(* Somebody is about to bring the copy of s up to date. *)
RemedyComing(s) ==
    \/ \E r \in Request :
         \/ req[r].at \in {"bind own copy", "delete add"} /\ s \in {req[r].stu, req[r].friend}
         \/ req[r].at = "bind target copy" /\ s = req[r].friend
         \/ req[r].at = "reorder copy" /\ s = req[r].stu
    \/ \E k \in Key : \E t \in {pending[k], running[k]} \ {None} :
         /\ t.what = "deleteFriendCache"
         /\ s \in {t.stu, t.friend}
         /\ t = pending[k] \/ progress[k] = 0

(* A copy differs from the table only until a request or task in flight    *)
(* gets to it, or after one of the four races the design accepts: an       *)
(* invalidation that failed, a list read before a change and stored after  *)
(* it, a delete task that runs after the two are friends again, a delete   *)
(* task erased by the success of an older one.                             *)
StaleExplained ==
    \A s \in Student : Stale(s) => RemedyComing(s) \/ cause[s] # {}

(* A bind has made friends with code c and has not yet got to removing it. *)
RemovalComing(c) ==
    \E r \in Request : /\ req[r].at \in {"bind own copy", "bind target copy", "bind mapping"}
                       /\ req[r].code = c

(* An invitation code that a bind has used or a cancel removed no longer   *)
(* leads to its owner, though tasks store codes late, are retried and      *)
(* replace each other.  There are three exceptions: the bind has not got   *)
(* to the removal yet; the removal failed, which a bind only logs; or the  *)
(* command that stored the mapping took effect and was sent again, by the  *)
(* client or by a retry of its task, after the code had been used.         *)
SpentCodeExplained ==
    \A c \in spent : mapping[c] # None => RemovalComing(c) \/ c \in unremoved \cup unsure

(* A bind that counted the two lists as they were in the table, with no    *)
(* other bind writing between the counts and its own write, exceeds        *)
(* nobody's limit.  A stale copy is an exception, and so is one that       *)
(* expires between the question whether it is there and its being read:    *)
(* it counts as an empty list.                                             *)
LimitHeldUnlessRaced ==
    [][\A r \in Request :
          /\ req[r].at = "bind write"
          /\ req'[r].at = "bind own copy"
          /\ req[r].alone
          => \A s \in {req[r].stu, req[r].friend} :
                Cardinality(DOMAIN rows'[s]) <= MaxNum]_vars

(* However it went stale, a copy is right or gone again some time later.   *)
CopyHeals == \A s \in Student : []<>~Stale(s)

=============================================================================
