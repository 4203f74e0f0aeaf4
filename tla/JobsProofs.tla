------------------------------ MODULE JobsProofs ------------------------------
(***************************************************************************)
(* What runs by the clock: the dispatcher of pushes, the notices, the      *)
(* scores by teacher, the lists of empty rooms, and the generator of ids.  *)
(* Each part states the inductive invariant of its component first, and    *)
(* why it is needed.                                                       *)
(***************************************************************************)
EXTENDS UmengDispatcher, NoticeSync, TeacherScores, EmptyRooms, Snowflake, Integers,
        SequenceTheorems, WellFoundedInduction, TLAPS

-----------------------------------------------------------------------------
(* The dispatcher of pushes, for every queue size, quota, interval, length *)
(* of the day and set of tasks: the types, the order of the sends, how far *)
(* a day can exceed the quota, and the spacing.                            *)

(* The count of a finished day is never the count of the day that follows: *)
(* until the dispatcher resets it, one send at most, the one that was past *)
(* its quota check at midnight, can have been made on the new day.         *)
QuotaInv ==
    /\ dailyCount <= DailyLimit
    /\ pc = "gap" => dailyCount < DailyLimit
    /\ resetToday => sentToday <= dailyCount + 1
    /\ ~resetToday => sentToday <= 1
    /\ ~resetToday /\ pc = "gap" => sentToday = 0

(* lastRequestTime is the time of the last send, but for the reset after a *)
(* spent quota, which leaves no send counted.                              *)
SpacingInv == dailyCount > 0 => sinceRequest <= sinceSend

(* Every variable keeps its type. *)
THEOREM DispatcherTypeCorrect == Spec => []TypeOK
<1>1. Init => TypeOK
  BY DispatcherAssumption DEF Init, TypeOK
<1>2. TypeOK /\ [Next]_vars => TypeOK'
  <2> SUFFICES ASSUME TypeOK, [Next]_vars PROVE TypeOK'
    OBVIOUS
  <2> USE DispatcherAssumption DEF TypeOK
  <2>1. ASSUME NEW t \in Task, EnqueueAsync(t) PROVE TypeOK'
    <3>1. /\ Append(ch, t) \in Seq(Task) /\ Len(Append(ch, t)) = Len(ch) + 1
          /\ Append(accepted, t) \in Seq(Task)
      BY AppendProperties
    <3>2. /\ ch' \in Seq(Task) /\ accepted' \in Seq(Task)
          /\ Len(ch') <= QueueSize
      <4>1. CASE Len(ch) < QueueSize /\ ch' = Append(ch, t) /\ accepted' = Append(accepted, t)
        BY <3>1, <4>1, LenProperties
      <4>2. CASE UNCHANGED <<ch, accepted>>
        BY <4>2
      <4>3. QED
        BY <2>1, <4>1, <4>2 DEF EnqueueAsync
    <3>3. QED
      BY <2>1, <3>2 DEF EnqueueAsync, clocks
  <2>2. CASE Take
    BY <2>2 DEF Take, clocks
  <2>3. CASE CheckQuota
    BY <2>3 DEF CheckQuota, clocks
  <2>4. CASE WakeAtMidnight
    BY <2>4 DEF WakeAtMidnight, clocks
  <2>5. CASE Dispatch
    BY <2>5 DEF Dispatch
  <2>6. CASE TaskReturns
    BY <2>6 DEF TaskReturns, clocks
  <2>7. CASE Tick
    BY <2>7 DEF Tick
  <2>8. CASE UNCHANGED vars
    BY <2>8 DEF vars, clocks
  <2>9. QED
    BY <2>1, <2>2, <2>3, <2>4, <2>5, <2>6, <2>7, <2>8 DEF Next, Run
<1>3. QED
  BY <1>1, <1>2, PTL DEF Spec

LEMMA HeadAndTail ==
    ASSUME NEW S, NEW s \in Seq(S), s # <<>>
    PROVE  s = <<Head(s)>> \o Tail(s) /\ Tail(s) \in Seq(S)
<1>1. /\ Head(s) \in S /\ Tail(s) \in Seq(S)
      /\ Len(Tail(s)) = Len(s) - 1
      /\ \A i \in 1..Len(Tail(s)) : Tail(s)[i] = s[i + 1]
  BY HeadTailProperties
<1> DEFINE t == <<Head(s)>> \o Tail(s)
<1>2. <<Head(s)>> \in Seq(S) /\ Len(<<Head(s)>>) = 1 /\ <<Head(s)>>[1] = Head(s)
  BY <1>1
<1>3. /\ t \in Seq(S)
      /\ Len(t) = Len(s)
      /\ \A i \in 1..Len(s) : t[i] = IF i <= 1 THEN <<Head(s)>>[i] ELSE Tail(s)[i - 1]
  BY <1>1, <1>2, ConcatProperties, LenProperties
<1>4. ASSUME NEW i \in 1..Len(s) PROVE t[i] = s[i]
  <2>1. CASE i = 1
    BY <1>2, <1>3, <2>1
  <2>2. CASE i # 1
    BY <1>1, <1>3, <2>2, LenProperties
  <2>3. QED
    BY <2>1, <2>2
<1>5. QED
  BY <1>1, <1>3, <1>4, SeqEqual

(* What was accepted is what was sent, what is in hand and what is in the  *)
(* channel, in this order: nothing is lost, doubled or overtaken.          *)
THEOREM SentInOrder == Spec => []AcceptedInOrder
<1>1. Init => AcceptedInOrder
  BY DEF Init, AcceptedInOrder, InHand
<1>2. TypeOK /\ TypeOK' /\ AcceptedInOrder /\ [Next]_vars => AcceptedInOrder'
  <2> SUFFICES ASSUME TypeOK, TypeOK', AcceptedInOrder, [Next]_vars
               PROVE  AcceptedInOrder'
    OBVIOUS
  <2>0. /\ InHand \in Seq(Task)
        /\ sent \in Seq(Task)
        /\ ch \in Seq(Task)
        /\ sent \o InHand \in Seq(Task)
    <3>1. InHand \in Seq(Task)
      BY DEF InHand, TypeOK
    <3>2. QED
      BY <3>1, ConcatProperties DEF TypeOK
  <2>1. ASSUME NEW t \in Task, EnqueueAsync(t) PROVE AcceptedInOrder'
    <3>1. UNCHANGED <<sent, InHand>>
      BY <2>1 DEF EnqueueAsync, InHand
    <3>2. CASE UNCHANGED <<ch, accepted>>
      BY <3>1, <3>2 DEF AcceptedInOrder
    <3>3. CASE ch' = Append(ch, t) /\ accepted' = Append(accepted, t)
      <4>1. <<t>> \in Seq(Task)
        OBVIOUS
      <4>2. ch' = ch \o <<t>> /\ accepted' = accepted \o <<t>>
        BY <3>3, AppendIsConcat DEF TypeOK
      <4>3. ((sent \o InHand) \o ch) \o <<t>> = (sent \o InHand) \o (ch \o <<t>>)
        BY <4>1, <2>0, ConcatAssociative
      <4>4. QED
        <5>1. accepted' = ((sent \o InHand) \o ch) \o <<t>>
          BY <4>2 DEF AcceptedInOrder
        <5>2. accepted' = (sent' \o InHand') \o ch'
          BY <5>1, <4>2, <4>3, <3>1
        <5>3. QED
          BY <5>2 DEF AcceptedInOrder
    <3>4. QED
      BY <2>1, <3>2, <3>3 DEF EnqueueAsync
  <2>2. CASE Take
    <3>1. InHand = <<>> /\ InHand' = <<Head(ch)>> /\ <<Head(ch)>> \in Seq(Task)
      BY <2>2, HeadTailProperties DEF Take, InHand, TypeOK
    <3>2. ch = <<Head(ch)>> \o Tail(ch) /\ Tail(ch) \in Seq(Task)
      <4>1. ch # <<>>
        BY <2>2 DEF Take
      <4>2. QED
        BY <4>1, <2>0, HeadAndTail
    <3>3. accepted = sent \o (<<Head(ch)>> \o Tail(ch))
      BY <3>1, <3>2, <2>0, ConcatEmptySeq DEF AcceptedInOrder
    <3>4. accepted = (sent \o <<Head(ch)>>) \o Tail(ch)
      BY <3>1, <3>2, <3>3, <2>0, ConcatAssociative
    <3>5. QED
      BY <2>2, <3>1, <3>4 DEF Take, AcceptedInOrder
  <2>3. CASE CheckQuota
    BY <2>3 DEF CheckQuota, clocks, AcceptedInOrder, InHand
  <2>4. CASE WakeAtMidnight
    BY <2>4 DEF WakeAtMidnight, clocks, AcceptedInOrder, InHand
  <2>5. CASE Dispatch
    <3>1. InHand = <<current>> /\ InHand' = <<>> /\ current \in Task
      BY <2>5 DEF Dispatch, InHand, TypeOK
    <3>2. sent' = sent \o InHand
      BY <2>5, <2>0, <3>1, AppendIsConcat DEF Dispatch
    <3>3. sent' \o InHand' = sent \o InHand
      BY <3>1, <3>2, <2>0, ConcatEmptySeq
    <3>4. QED
      BY <2>5, <3>3 DEF Dispatch, AcceptedInOrder
  <2>6. CASE TaskReturns
    BY <2>6 DEF TaskReturns, clocks, AcceptedInOrder, InHand
  <2>7. CASE Tick
    BY <2>7 DEF Tick, AcceptedInOrder, InHand
  <2>8. CASE UNCHANGED vars
    BY <2>8 DEF vars, clocks, AcceptedInOrder, InHand
  <2>9. QED
    BY <2>1, <2>2, <2>3, <2>4, <2>5, <2>6, <2>7, <2>8 DEF Next, Run
<1>3. QED
  BY <1>1, <1>2, DispatcherTypeCorrect, PTL DEF Spec

(* Where a task is: sent, in hand or in the channel, in one of the three   *)
(* and once.  With the types this is inductive; AcceptedInOrder is not     *)
(* needed.                                                                 *)
OncePlaced ==
    /\ Range(accepted) \subseteq offered
    /\ Range(accepted) = (Range(sent) \cup Range(InHand)) \cup Range(ch)
    /\ Range(sent) \cap (Range(InHand) \cup Range(ch)) = {}
    /\ Range(InHand) \cap Range(ch) = {}
    /\ \A i, j \in 1 .. Len(ch) : ch[i] = ch[j] => i = j

LEMMA AppendedRange ==
  ASSUME NEW S, NEW s \in Seq(S), NEW x \in S
  PROVE  Range(Append(s, x)) = Range(s) \cup {x}
<1> DEFINE t == Append(s, x)
<1>1. /\ t \in Seq(S) /\ Len(t) = Len(s) + 1 /\ t[Len(s) + 1] = x
      /\ \A i \in 1 .. Len(s) : t[i] = s[i]
  BY AppendProperties
<1>2. Len(s) \in Nat /\ DOMAIN s = 1 .. Len(s) /\ DOMAIN t = 1 .. Len(s) + 1
  BY <1>1, LenProperties
<1> HIDE DEF t
<1>3. ASSUME NEW y \in Range(t) PROVE y \in Range(s) \cup {x}
  BY <1>1, <1>2 DEF Range
<1>4. ASSUME NEW y \in Range(s) \cup {x} PROVE y \in Range(t)
  BY <1>1, <1>2 DEF Range
<1> QED
  BY <1>3, <1>4 DEF t

LEMMA TailRange ==
  ASSUME NEW S, NEW s \in Seq(S), s # <<>>,
         \A i, j \in 1 .. Len(s) : s[i] = s[j] => i = j
  PROVE  /\ Range(s) = {Head(s)} \cup Range(Tail(s))
         /\ Head(s) \notin Range(Tail(s))
         /\ \A i, j \in 1 .. Len(Tail(s)) : Tail(s)[i] = Tail(s)[j] => i = j
<1>1. /\ Tail(s) \in Seq(S) /\ Len(Tail(s)) = Len(s) - 1 /\ Head(s) = s[1]
      /\ \A i \in 1 .. Len(Tail(s)) : Tail(s)[i] = s[i + 1]
  BY HeadTailProperties
<1>2. /\ Len(s) \in Nat \ {0} /\ DOMAIN s = 1 .. Len(s)
      /\ DOMAIN Tail(s) = 1 .. Len(s) - 1
  BY <1>1, LenProperties, EmptySeq
<1>3. ASSUME NEW x \in Range(s) PROVE x = Head(s) \/ x \in Range(Tail(s))
  <2>1. PICK i \in 1 .. Len(s) : x = s[i]
    BY <1>2 DEF Range
  <2>2. CASE i = 1
    BY <1>1, <2>1, <2>2
  <2>3. CASE i # 1
    <3>1. i - 1 \in 1 .. Len(Tail(s)) /\ (i - 1) + 1 = i
      BY <1>1, <1>2, <2>3
    <3>2. Tail(s)[i - 1] = x
      BY <1>1, <2>1, <3>1
    <3> QED
      BY <1>1, <1>2, <3>1, <3>2 DEF Range
  <2> QED
    BY <2>2, <2>3
<1>4. ASSUME NEW i \in 1 .. Len(Tail(s)) PROVE Tail(s)[i] \in Range(s) /\ Tail(s)[i] # Head(s)
  <2>1. i + 1 \in 1 .. Len(s) /\ 1 \in 1 .. Len(s) /\ i + 1 # 1
    BY <1>1, <1>2
  <2> QED
    BY <1>1, <1>2, <2>1 DEF Range
<1>5. Head(s) \in Range(s)
  BY <1>1, <1>2 DEF Range
<1>6. \A i, j \in 1 .. Len(Tail(s)) : Tail(s)[i] = Tail(s)[j] => i = j
  <2> TAKE i \in 1 .. Len(Tail(s)), j \in 1 .. Len(Tail(s))
  <2>1. i + 1 \in 1 .. Len(s) /\ j + 1 \in 1 .. Len(s)
    BY <1>1, <1>2
  <2> QED
    BY <1>1, <1>2, <2>1
<1>7. \A x \in Range(Tail(s)) : \E i \in 1 .. Len(Tail(s)) : x = Tail(s)[i]
  BY <1>1, <1>2 DEF Range
<1>8. Range(s) = {Head(s)} \cup Range(Tail(s))
  BY <1>3, <1>4, <1>5, <1>7
<1> QED
  BY <1>4, <1>6, <1>7, <1>8

LEMMA OneInHand ==
  /\ Range(InHand) = IF pc \in {"wait", "quota", "gap"} THEN {current} ELSE {}
  /\ Range(InHand)' = IF pc' \in {"wait", "quota", "gap"} THEN {current'} ELSE {}
<1>1. ASSUME NEW x PROVE Range(<<x>>) = {x}
  BY DEF Range
<1>2. Range(<<>>) = {}
  BY DEF Range
<1> QED
  BY <1>1, <1>2 DEF InHand

LEMMA QueueInit == Init => PushQueue!Init /\ OncePlaced
<1> SUFFICES ASSUME Init PROVE PushQueue!Init /\ OncePlaced
  OBVIOUS
<1>1. Range(<<>>) = {}
  BY DEF Range
<1>2. Range(InHand) = {}
  BY OneInHand DEF Init
<1>3. offered = {} /\ accepted = <<>> /\ sent = <<>> /\ ch = <<>>
  BY DEF Init
<1> QED
  BY <1>1, <1>2, <1>3 DEF PushQueue!Init, OncePlaced

(* What neither takes nor sends leaves every task where it is.             *)
LEMMA QueueUntouched ==
  ASSUME OncePlaced, UNCHANGED <<offered, accepted, sent, ch>>, Range(InHand)' = Range(InHand)
  PROVE  UNCHANGED PushQueue!vars /\ OncePlaced'
<1>1. /\ Range(accepted)' = Range(accepted) /\ Range(sent)' = Range(sent)
      /\ Range(ch)' = Range(ch)
  OBVIOUS
<1> QED
  BY <1>1 DEF PushQueue!vars, OncePlaced

LEMMA QueueStep ==
  ASSUME TypeOK, OncePlaced, [Next]_vars
  PROVE  [PushQueue!Next]_(PushQueue!vars) /\ OncePlaced'
<1>1. ASSUME NEW t \in Task, EnqueueAsync(t)
      PROVE  [PushQueue!Next]_(PushQueue!vars) /\ OncePlaced'
  <2>1. /\ t \notin offered /\ offered' = offered \cup {t} /\ sent' = sent
        /\ Range(InHand)' = Range(InHand) /\ Range(sent)' = Range(sent)
    BY <1>1, OneInHand DEF EnqueueAsync
  <2>2. ch \in Seq(Task) /\ accepted \in Seq(Task)
    BY DEF TypeOK
  <2>3. CASE ch' = Append(ch, t) /\ accepted' = Append(accepted, t)
    <3>1. Range(ch)' = Range(ch) \cup {t} /\ Range(accepted)' = Range(accepted) \cup {t}
      BY <2>2, <2>3, AppendedRange
    <3>2. t \notin Range(accepted) /\ t \notin Range(ch)
      BY <2>1 DEF OncePlaced
    <3>3. \A i, j \in 1 .. Len(ch') : ch'[i] = ch'[j] => i = j
      <4>1. /\ Len(ch) \in Nat /\ Len(ch') = Len(ch) + 1 /\ ch'[Len(ch) + 1] = t
            /\ \A i \in 1 .. Len(ch) : ch'[i] = ch[i]
        BY <2>2, <2>3, AppendProperties, LenProperties
      <4>2. \A i \in 1 .. Len(ch) : ch[i] # t
        BY <2>2, <3>2, LenProperties DEF Range
      <4>3. \A i, j \in 1 .. Len(ch) : ch[i] = ch[j] => i = j
        BY DEF OncePlaced
      <4> QED
        BY <4>1, <4>2, <4>3
    <3>4. offered' \ Range(accepted)' = offered \ Range(accepted)
      BY <2>1, <3>1
    <3>5. PushQueue!TakeOn(t)
      BY <2>1, <3>1, <3>4 DEF PushQueue!TakeOn
    <3>6. OncePlaced'
      BY <2>1, <3>1, <3>2, <3>3 DEF OncePlaced
    <3> QED
      BY <3>5, <3>6 DEF PushQueue!Next
  <2>4. CASE UNCHANGED <<ch, accepted>>
    <3>1. Range(ch)' = Range(ch) /\ Range(accepted)' = Range(accepted)
      BY <2>4
    <3>2. offered' \ Range(accepted)' = (offered \ Range(accepted)) \cup {t}
      BY <2>1, <3>1 DEF OncePlaced
    <3>3. PushQueue!Skip(t)
      BY <2>1, <3>1, <3>2 DEF PushQueue!Skip
    <3>4. OncePlaced'
      BY <2>1, <2>4, <3>1 DEF OncePlaced
    <3> QED
      BY <3>3, <3>4 DEF PushQueue!Next
  <2> QED
    BY <1>1, <2>3, <2>4 DEF EnqueueAsync
<1>2. CASE Take
  <2>1. /\ ch # <<>> /\ ch' = Tail(ch) /\ UNCHANGED <<offered, accepted, sent>>
        /\ Range(InHand) = {} /\ Range(InHand)' = {Head(ch)}
    BY <1>2, OneInHand DEF Take
  <2>2. /\ Range(ch) = {Head(ch)} \cup Range(ch)' /\ Head(ch) \notin Range(ch)'
        /\ \A i, j \in 1 .. Len(ch') : ch'[i] = ch'[j] => i = j
    BY <2>1, TailRange DEF TypeOK, OncePlaced
  <2>3. Range(accepted)' = Range(accepted) /\ Range(sent)' = Range(sent)
    BY <2>1
  <2>4. OncePlaced'
    BY <2>1, <2>2, <2>3 DEF OncePlaced
  <2> QED
    BY <2>1, <2>2, <2>3, <2>4 DEF PushQueue!vars
<1>3. CASE Dispatch
  <2>1. /\ current \in Task /\ sent' = Append(sent, current) /\ UNCHANGED <<offered, accepted, ch>>
        /\ Range(InHand) = {current} /\ Range(InHand)' = {}
    BY <1>3, OneInHand DEF Dispatch, TypeOK
  <2>2. /\ Range(sent)' = Range(sent) \cup {current} /\ Range(ch)' = Range(ch)
        /\ Range(accepted)' = Range(accepted)
    BY <2>1, AppendedRange DEF TypeOK
  <2>3. PushQueue!Deliver(current)
    BY <2>1, <2>2 DEF PushQueue!Deliver, OncePlaced
  <2>4. OncePlaced'
    BY <2>1, <2>2 DEF OncePlaced
  <2> QED
    BY <2>1, <2>3, <2>4 DEF PushQueue!Next
<1>4. CASE CheckQuota \/ WakeAtMidnight \/ TaskReturns \/ Tick \/ UNCHANGED vars
  <2>1. UNCHANGED <<offered, accepted, sent, ch>>
    BY <1>4 DEF CheckQuota, WakeAtMidnight, TaskReturns, Tick, vars
  <2>2. Range(InHand)' = Range(InHand)
    BY <1>4, OneInHand DEF CheckQuota, WakeAtMidnight, TaskReturns, Tick, vars
  <2> QED
    BY <2>1, <2>2, QueueUntouched
<1> QED
  BY <1>1, <1>2, <1>3, <1>4 DEF Next, Run

(* Whatever is handed to EnqueueAsync is sent once or dropped at once and  *)
(* for good: the channel and the dispatcher implement the same abstract    *)
(* delivery as the tables that push through them (EnqueueAsync, run).      *)
THEOREM QueueDelivers == Spec => PushQueue!Spec
BY QueueInit, QueueStep, DispatcherTypeCorrect, PTL DEF Spec, PushQueue!Spec

LEMMA QuotaInductive ==
    ASSUME TypeOK, QuotaInv, [Next]_vars
    PROVE  QuotaInv'
<1> USE DispatcherAssumption DEF QuotaInv, TypeOK
<1>1. ASSUME NEW t \in Task, EnqueueAsync(t) PROVE QuotaInv'
  BY <1>1 DEF EnqueueAsync, clocks
<1>2. CASE Take
  BY <1>2 DEF Take, clocks
<1>3. CASE CheckQuota
  BY <1>3 DEF CheckQuota, clocks
<1>4. CASE WakeAtMidnight
  BY <1>4 DEF WakeAtMidnight, clocks
<1>5. CASE Dispatch
  BY <1>5 DEF Dispatch
<1>6. CASE TaskReturns
  BY <1>6 DEF TaskReturns, clocks
<1>7. CASE Tick
  BY <1>7 DEF Tick
<1>8. CASE UNCHANGED vars
  BY <1>8 DEF vars, clocks
<1>9. QED
  BY <1>1, <1>2, <1>3, <1>4, <1>5, <1>6, <1>7, <1>8 DEF Next, Run

(* No day sees more sends than the quota and one: the quota is broken by   *)
(* no more than the send that was waiting at midnight.                     *)
THEOREM DayBounded == Spec => []QuotaAndOne
<1>1. Init => QuotaInv
  BY DispatcherAssumption DEF Init, QuotaInv
<1>2. TypeOK /\ QuotaInv /\ [Next]_vars => QuotaInv'
  BY QuotaInductive
<1>3. TypeOK /\ QuotaInv => QuotaAndOne
  BY DispatcherAssumption DEF TypeOK, QuotaInv, QuotaAndOne
<1>4. QED
  BY <1>1, <1>2, <1>3, DispatcherTypeCorrect, PTL DEF Spec

LEMMA SpacingInductive ==
    ASSUME TypeOK, SpacingInv, [Next]_vars
    PROVE  SpacingInv'
<1> USE DispatcherAssumption DEF SpacingInv, TypeOK
<1>1. ASSUME NEW t \in Task, EnqueueAsync(t) PROVE SpacingInv'
  BY <1>1 DEF EnqueueAsync, clocks
<1>2. CASE Take
  BY <1>2 DEF Take, clocks
<1>3. CASE CheckQuota
  BY <1>3 DEF CheckQuota, clocks
<1>4. CASE WakeAtMidnight
  BY <1>4 DEF WakeAtMidnight, clocks
<1>5. CASE Dispatch
  BY <1>5 DEF Dispatch
<1>6. CASE TaskReturns
  BY <1>6 DEF TaskReturns, clocks
<1>7. CASE Tick
  BY <1>7 DEF Tick
<1>8. CASE UNCHANGED vars
  BY <1>8 DEF vars, clocks
<1>9. QED
  BY <1>1, <1>2, <1>3, <1>4, <1>5, <1>6, <1>7, <1>8 DEF Next, Run

(* Only Dispatch sends, and it waits for lastRequestTime to be an interval *)
(* ago.                                                                    *)
LEMMA SendIsSpaced ==
    ASSUME TypeOK, SpacingInv, [Next]_vars
    PROVE  sent' # sent /\ dailyCount > 0 => sinceSend = Interval
<1> SUFFICES ASSUME sent' # sent, dailyCount > 0 PROVE sinceSend = Interval
  OBVIOUS
<1>1. Dispatch
  BY DEF Next, Run, EnqueueAsync, Take, CheckQuota, WakeAtMidnight, TaskReturns,
         Tick, vars
<1>2. QED
  BY <1>1, DispatcherAssumption DEF Dispatch, SpacingInv, TypeOK

(* Two sends of a process are an interval apart, but for the first one     *)
(* that is counted after a reset of the quota.                             *)
THEOREM SendsSpaced == Spec => SpacedWithinQuota
<1>1. Init => SpacingInv
  BY DEF Init, SpacingInv
<1>2. TypeOK /\ SpacingInv /\ [Next]_vars => SpacingInv'
  BY SpacingInductive
<1>3. TypeOK /\ SpacingInv /\ [Next]_vars
        => [sent' # sent /\ dailyCount > 0 => sinceSend = Interval]_vars
  BY SendIsSpaced
<1>4. QED
  BY <1>1, <1>2, <1>3, DispatcherTypeCorrect, PTL DEF Spec, SpacedWithinQuota

-----------------------------------------------------------------------------
(* Notices.  Only what was stored can have been pushed or be looked        *)
(* through, and only one worker stores at a time, so what it finds missing *)
(* is missing when it inserts.  That nothing old is news takes the walk of *)
(* the loader while new notices move the others to later pages: a notice   *)
(* of before is stored, missed, on the page at hand or on a page to come,  *)
(* and at the end what is none of these is beyond the first page, which is *)
(* the only one that the periodic task reads.                              *)

NoticeLog == [before : Nat, loaded : SUBSET Nat, lost : SUBSET Nat, missed : SUBSET Nat, futile : SUBSET Nat]
LoaderSteps == {"begin", "page", "look", "create", "ready", "done"}
SyncSteps == {"not added", "resting", "look", "create", "push"}

NoticeTypeInv ==
    /\ noticeLeft \in [{"old", "publish", "fault", "full", "restart"} -> Nat]
    /\ worker \in [Worker -> [step : LoaderSteps \cup SyncSteps, page : Nat \ {0}, pages : Nat, rows : Seq(Nat)]]
    /\ worker["loader"].step \in LoaderSteps /\ worker["sync"].step \in SyncSteps
    /\ \A w \in Worker :
        /\ worker[w].step \in {"create", "push"} => worker[w].rows # <<>>
        /\ worker[w].step \in {"look", "create", "push"} \/ worker[w].rows = <<>>
    /\ noticeLog \in NoticeLog /\ noticeLog.before <= published

(* The periodic task is added when the loader is done, and not before.     *)
OneWorks == worker["sync"].step = "not added" <=> worker["loader"].step # "done"

(* What has not been stored has not been pushed or looked through.         *)
FirstStored == \A n \in Notice \ stored : pushes[n] = 0 /\ adjusted[n] = 0
LookedOnce == \A n \in looking : adjusted[n] = 0
CreatesNew == \A w \in Worker : worker[w].step = "create" => Row(w) \notin stored

IsNews(n) == n > noticeLog.before \/ n \in noticeLog.missed

PushesNews ==
    worker["sync"].step = "push" =>
        Row("sync") \in stored /\ pushes[Row("sync")] = 0 /\ IsNews(Row("sync"))

(* The loader has come to a notice of before, missed it, has it on its     *)
(* page, or will find it on a later page; at its end it cannot be on the   *)
(* first page.                                                             *)
FurtherOn(n, page) == n + (page - 1) * PageLength <= published

LoaderComes ==
    LET at == worker["loader"] IN
    \A n \in 1 .. noticeLog.before :
        \/ IsNews(n) \/ n \in stored \/ n \in Range(at.rows)
        \/ at.step \in {"begin", "page", "look", "create"} /\ FurtherOn(n, at.page)
        \/ at.step \in {"ready", "done"} /\ FurtherOn(n, 2)

LoaderHasPages ==
    worker["loader"].step \in {"page", "look", "create"} /\ noticeLog.before > 0 => worker["loader"].pages > 0

SyncRowsNew == \A n \in Range(worker["sync"].rows) : n \in stored \/ IsNews(n)

NoticeInv ==
    /\ NoticeTypeOK /\ NoticeTypeInv /\ OneWorks /\ FirstStored /\ LookedOnce /\ CreatesNew
    /\ PushesNews /\ LoaderComes /\ LoaderHasPages /\ SyncRowsNew /\ StoredAccounted

State == [step : LoaderSteps \cup SyncSteps, page : Nat \ {0}, pages : Nat, rows : Seq(Nat)]

(* A page is numbers of notices.                                           *)
LEMMA RowFacts ==
  ASSUME NEW rows \in Seq(Nat), rows # <<>>
  PROVE  /\ Head(rows) \in Nat /\ Tail(rows) \in Seq(Nat)
         /\ Range(rows) = {Head(rows)} \cup Range(Tail(rows))
<1>1. Head(rows) \in Nat /\ Tail(rows) \in Seq(Nat) /\ Len(rows) \in Nat \ {0}
  OBVIOUS
<1>2. /\ Head(rows) = rows[1]
      /\ DOMAIN Tail(rows) = 1 .. Len(rows) - 1
      /\ \A k \in 1 .. Len(rows) - 1 : Tail(rows)[k] = rows[k + 1]
  BY <1>1
<1>3. ASSUME NEW n \in Range(rows) PROVE n = Head(rows) \/ n \in Range(Tail(rows))
  <2>1. PICK k \in 1 .. Len(rows) : n = rows[k]
    BY DEF Range
  <2>2. k # 1 => k - 1 \in 1 .. Len(rows) - 1 /\ Tail(rows)[k - 1] = n
    BY <1>1, <1>2, <2>1
  <2> QED
    BY <1>2, <2>1, <2>2 DEF Range
<1>4. ASSUME NEW n \in Range(Tail(rows)) PROVE n \in Range(rows)
  <2>1. PICK k \in 1 .. Len(rows) - 1 : n = Tail(rows)[k]
    BY <1>2 DEF Range
  <2>2. k + 1 \in DOMAIN rows /\ n = rows[k + 1]
    BY <1>1, <1>2, <2>1
  <2> QED
    BY <2>2 DEF Range
<1>5. Head(rows) \in Range(rows)
  BY <1>1, <1>2 DEF Range
<1> QED
  BY <1>1, <1>3, <1>4, <1>5

(* What is on a page, and what is on the later ones.                       *)
LEMMA PageFacts ==
  ASSUME published \in Nat, PageLength \in Nat \ {0}, NEW i \in Nat \ {0}
  PROVE  /\ Page(i) \in Seq(Nat) /\ Range(Page(i)) \subseteq 1 .. published
         /\ \A n \in 1 .. published : FurtherOn(n, i) => n \in Range(Page(i)) \/ FurtherOn(n, i + 1)
         /\ \A n \in Range(Page(i)) : ~FurtherOn(n, i + 1)
<1> DEFINE a == (i - 1) * PageLength
           b == i * PageLength
           newest == [k \in 1 .. published |-> published + 1 - k]
           last == IF b < published THEN b ELSE published
<1>1. a \in Nat /\ b \in Nat /\ b = a + PageLength /\ ((i + 1) - 1) * PageLength = b
  OBVIOUS
<1>2. newest \in Seq(1 .. published) /\ Len(newest) = published
  OBVIOUS
<1>3. Page(i) = SubSeq(newest, a + 1, last)
  BY DEF Page
<1> HIDE DEF a, b
<1>4. last \in 0 .. published
  BY <1>1
<1>5. CASE a + 1 > last
  <2>1. Page(i) = <<>>
    BY <1>1, <1>2, <1>3, <1>4, <1>5
  <2>2. Range(Page(i)) = {}
    BY <2>1 DEF Range
  <2>3. \A n \in 1 .. published : ~FurtherOn(n, i)
    BY <1>1, <1>5 DEF FurtherOn, a
  <2> QED
    BY <2>1, <2>2, <2>3
<1>6. CASE a + 1 <= last
  <2>1. /\ Page(i) \in Seq(1 .. published) /\ DOMAIN Page(i) = 1 .. last - a
        /\ \A k \in 1 .. last - a : Page(i)[k] = newest[a + k]
    BY <1>1, <1>2, <1>3, <1>4, <1>6
  <2>2. \A k \in 1 .. last - a : Page(i)[k] = published + 1 - (a + k)
    <3> SUFFICES ASSUME NEW k \in 1 .. last - a PROVE Page(i)[k] = published + 1 - (a + k)
      OBVIOUS
    <3>1. a + k \in 1 .. published
      BY <1>1, <1>4
    <3>2. newest[a + k] = published + 1 - (a + k)
      BY <3>1
    <3> QED
      BY <2>1, <3>2
  <2>3. ASSUME NEW n \in Range(Page(i)) PROVE n \in 1 .. published /\ n \in Nat /\ ~FurtherOn(n, i + 1)
    <3>1. PICK k \in 1 .. last - a : n = published + 1 - (a + k)
      BY <2>1, <2>2 DEF Range
    <3> QED
      BY <1>1, <1>4, <3>1 DEF FurtherOn, a, b
  <2>4. ASSUME NEW n \in 1 .. published, n + a <= published, ~(n + b <= published)
        PROVE  n \in Range(Page(i))
    <3>1. published + 1 - (a + n) \in 1 .. last - a
      BY <1>1, <1>4, <2>4
    <3>2. Page(i)[published + 1 - (a + n)] = n
      BY <1>1, <2>2, <3>1
    <3> QED
      BY <2>1, <3>1, <3>2 DEF Range
  <2>5. Page(i) \in Seq(Nat)
    BY <2>1
  <2> QED
    BY <1>1, <2>3, <2>4, <2>5 DEF FurtherOn, a
<1> QED
  BY <1>1, <1>4, <1>5, <1>6

LEMMA NoticeConstants ==
  /\ Notices \in Nat /\ PageLength \in Nat \ {0} /\ AboutDays \subseteq Notice
  /\ Notice \subseteq Nat
  BY NoticeAssumption DEF NoticeAssumption, Notice

LEMMA AtFacts ==
  ASSUME NEW step \in LoaderSteps \cup SyncSteps
  PROVE  /\ At(step) \in State /\ Resting \in State
         /\ At(step).step = step /\ At(step).page = 1 /\ At(step).pages = 1 /\ At(step).rows = <<>>
         /\ Resting.step = "resting" /\ Resting.page = 1 /\ Resting.pages = 1 /\ Resting.rows = <<>>
         /\ Range(<<>>) = {}
<1> DEFINE none == <<>>
<1>1. "resting" \in LoaderSteps \cup SyncSteps
  BY DEF LoaderSteps, SyncSteps
<1>2. Range(none) = {} /\ none \in Seq(Nat)
  BY DEF Range
<1>3. Resting = [step |-> "resting", page |-> 1, pages |-> 1, rows |-> none]
  BY DEF Resting
<1> HIDE DEF none
<1>4. At(step) = [step |-> step, page |-> 1, pages |-> 1, rows |-> none]
  BY <1>3 DEF At
<1>5. At(step) \in State /\ Resting \in State
  BY <1>1, <1>2, <1>3, <1>4 DEF State
<1> QED
  BY <1>2, <1>3, <1>4, <1>5 DEF none

(* What a new state of one worker must be for the state to stay in order,  *)
(* if the table, and what the loader has missed, only grow.                *)
InOrder(w, st) ==
    /\ w = "loader" => st.step \in LoaderSteps \ {"done"} /\ worker["loader"].step # "done"
    /\ w = "sync" => st.step \in SyncSteps \ {"not added"} /\ worker["sync"].step # "not added"
    /\ st.step \in {"create", "push"} => st.rows # <<>>
    /\ st.step \in {"look", "create", "push"} \/ st.rows = <<>>
    /\ Range(st.rows) \subseteq 1 .. published /\ st.page <= st.pages + 1
    /\ w = "loader" /\ st.step \in {"page", "look", "create"} /\ noticeLog.before > 0 => st.pages > 0

LEMMA WorkerMoves ==
  ASSUME NoticeInv, NEW w \in Worker, NEW st \in State, Becomes(w, st), InOrder(w, st),
         UNCHANGED published, noticeLeft' \in [{"old", "publish", "fault", "full", "restart"} -> Nat],
         noticeLog' \in NoticeLog, noticeLog'.before = noticeLog.before,
         noticeLog.missed \subseteq noticeLog'.missed,
         stored \subseteq stored',
         st.step = "create" => Head(st.rows) \notin stored',
         w = "loader" =>
            \A n \in 1 .. noticeLog.before :
                \/ IsNews(n)' \/ n \in stored' \/ n \in Range(st.rows)
                \/ st.step \in {"begin", "page", "look", "create"} /\ FurtherOn(n, st.page)
                \/ st.step \in {"ready", "done"} /\ FurtherOn(n, 2),
         w = "sync" => \A n \in Range(st.rows) : n \in stored' \/ IsNews(n)'
  PROVE  /\ NoticeTypeInv' /\ OneWorks' /\ CreatesNew' /\ LoaderComes' /\ LoaderHasPages' /\ SyncRowsNew'
         /\ \A v \in Worker :
              /\ worker'[v].step \in {"begin", "page", "look", "create", "push", "ready", "done",
                                      "not added", "resting"}
              /\ Range(worker'[v].rows) \subseteq 1 .. published
              /\ worker'[v].page <= worker'[v].pages + 1
         /\ worker'[w] = st /\ \A v \in Worker \ {w} : worker'[v] = worker[v]
<1>1. worker \in [Worker -> State]
  BY DEF NoticeInv, NoticeTypeInv, State
<1>2. /\ worker' \in [Worker -> State] /\ worker'[w] = st
      /\ \A v \in Worker \ {w} : worker'[v] = worker[v]
  BY <1>1 DEF Becomes
<1>3. /\ worker["loader"].step \in LoaderSteps /\ worker["sync"].step \in SyncSteps
      /\ \A v \in Worker :
           /\ worker[v].step \in {"create", "push"} => worker[v].rows # <<>>
           /\ worker[v].step \in {"look", "create", "push"} \/ worker[v].rows = <<>>
      /\ noticeLog.before <= published
      /\ worker["sync"].step = "not added" <=> worker["loader"].step # "done"
  BY DEF NoticeInv, NoticeTypeInv, OneWorks
<1>4. NoticeTypeInv'
  BY <1>2, <1>3 DEF NoticeTypeInv, InOrder, Worker, State
<1>5. OneWorks'
  BY <1>2, <1>3 DEF OneWorks, InOrder, Worker
<1>6. \A n : IsNews(n) => IsNews(n)'
  BY DEF IsNews
<1>7. ASSUME w = "loader" PROVE CreatesNew' /\ LoaderComes' /\ LoaderHasPages' /\ SyncRowsNew'
  <2>1. worker'["loader"] = st /\ worker'["sync"] = worker["sync"] /\ worker["sync"].step = "not added"
    BY <1>2, <1>3, <1>7 DEF InOrder, Worker
  <2>2. CreatesNew'
    BY <2>1 DEF CreatesNew, Row, Worker
  <2>3. LoaderComes'
    BY <1>7, <2>1 DEF LoaderComes, FurtherOn
  <2>4. LoaderHasPages'
    BY <1>7, <2>1 DEF LoaderHasPages, InOrder
  <2>5. SyncRowsNew'
    BY <1>6, <2>1 DEF NoticeInv, SyncRowsNew
  <2> QED
    BY <2>2, <2>3, <2>4, <2>5
<1>8. ASSUME w = "sync" PROVE CreatesNew' /\ LoaderComes' /\ LoaderHasPages' /\ SyncRowsNew'
  <2>1. worker'["sync"] = st /\ worker'["loader"] = worker["loader"] /\ worker["loader"].step = "done"
    BY <1>2, <1>3, <1>8 DEF InOrder, Worker
  <2>2. CreatesNew'
    BY <2>1 DEF CreatesNew, Row, Worker
  <2>3. LoaderComes'
    BY <1>6, <2>1 DEF NoticeInv, LoaderComes, FurtherOn
  <2>4. LoaderHasPages'
    BY <2>1 DEF LoaderHasPages
  <2>5. SyncRowsNew'
    BY <1>8, <2>1 DEF SyncRowsNew
  <2> QED
    BY <2>2, <2>3, <2>4, <2>5
<1>9. \A v \in Worker :
        /\ worker'[v].step \in {"begin", "page", "look", "create", "push", "ready", "done",
                                "not added", "resting"}
        /\ Range(worker'[v].rows) \subseteq 1 .. published
        /\ worker'[v].page <= worker'[v].pages + 1
  <2> SUFFICES ASSUME NEW v \in Worker
               PROVE  /\ worker'[v].step \in {"begin", "page", "look", "create", "push", "ready", "done",
                                              "not added", "resting"}
                      /\ Range(worker'[v].rows) \subseteq 1 .. published
                      /\ worker'[v].page <= worker'[v].pages + 1
    OBVIOUS
  <2>1. CASE v = w
    BY <1>2, <2>1 DEF InOrder, Worker, LoaderSteps, SyncSteps
  <2>2. CASE v # w
    BY <1>2, <2>2 DEF NoticeInv, NoticeTypeOK
  <2> QED
    BY <2>1, <2>2
<1> QED
  BY <1>2, <1>4, <1>5, <1>7, <1>8, <1>9 DEF Worker

(* A step that moves a worker and nothing else.                            *)
LEMMA WorkerOnly ==
  ASSUME NoticeInv, NEW w \in Worker, NEW st \in State, Becomes(w, st), InOrder(w, st),
         UNCHANGED <<published, stored, looking, adjusted, pushes, noticeLeft, noticeLog>>,
         worker[w].step # "push", st.step # "push",
         st.step = "create" => Head(st.rows) \notin stored,
         w = "loader" =>
            \A n \in 1 .. noticeLog.before :
                \/ IsNews(n) \/ n \in stored \/ n \in Range(st.rows)
                \/ st.step \in {"begin", "page", "look", "create"} /\ FurtherOn(n, st.page)
                \/ st.step \in {"ready", "done"} /\ FurtherOn(n, 2),
         w = "sync" => \A n \in Range(st.rows) : n \in stored \/ IsNews(n)
  PROVE  NoticeInv'
<1>1. /\ noticeLeft' \in [{"old", "publish", "fault", "full", "restart"} -> Nat]
      /\ noticeLog' \in NoticeLog
  BY DEF NoticeInv, NoticeTypeInv
<1>2. \A n : IsNews(n)' <=> IsNews(n)
  BY DEF IsNews
<1>3. /\ NoticeTypeInv' /\ OneWorks' /\ CreatesNew' /\ LoaderComes' /\ LoaderHasPages' /\ SyncRowsNew'
      /\ \A v \in Worker :
           /\ worker'[v].step \in {"begin", "page", "look", "create", "push", "ready", "done",
                                   "not added", "resting"}
           /\ Range(worker'[v].rows) \subseteq 1 .. published
           /\ worker'[v].page <= worker'[v].pages + 1
      /\ worker'[w] = st /\ \A v \in Worker \ {w} : worker'[v] = worker[v]
  BY <1>1, <1>2, WorkerMoves
<1>4. NoticeTypeOK'
  BY <1>3 DEF NoticeInv, NoticeTypeOK
<1>5. FirstStored' /\ LookedOnce'
  BY DEF NoticeInv, FirstStored, LookedOnce
<1>6. worker'["sync"].step = "push" => worker'["sync"] = worker["sync"] /\ Row("sync")' = Row("sync")
  BY <1>3 DEF Worker, Row
<1>7. PushesNews'
  BY <1>2, <1>6 DEF NoticeInv, PushesNews
<1>8. worker["sync"].step = "push" => worker'["sync"] = worker["sync"] /\ Row("sync")' = Row("sync")
  BY <1>3 DEF Worker, Row
<1>9. StoredAccounted'
  BY <1>8 DEF NoticeInv, StoredAccounted
<1> QED
  BY <1>3, <1>4, <1>5, <1>7, <1>9 DEF NoticeInv

(* A state with some of its fields changed.                                *)
LEMMA NewStep ==
  ASSUME NEW st \in State, NEW step \in LoaderSteps \cup SyncSteps
  PROVE  LET new == [st EXCEPT !.step = step] IN
         /\ new \in State /\ new.step = step /\ new.page = st.page
         /\ new.pages = st.pages /\ new.rows = st.rows
  BY DEF State

LEMMA NewPages ==
  ASSUME NEW st \in State, NEW pages \in Nat
  PROVE  LET new == [st EXCEPT !.pages = pages] IN
         /\ new \in State /\ new.step = st.step /\ new.page = st.page
         /\ new.pages = pages /\ new.rows = st.rows
  BY DEF State

LEMMA NewRows ==
  ASSUME NEW st \in State, NEW rows \in Seq(Nat)
  PROVE  LET new == [st EXCEPT !.rows = rows] IN
         /\ new \in State /\ new.step = st.step /\ new.page = st.page
         /\ new.pages = st.pages /\ new.rows = rows
  BY DEF State

(* What is beyond a later page is beyond the first.                        *)
LEMMA BeyondFirst ==
  ASSUME published \in Nat, PageLength \in Nat \ {0}, NEW n \in Nat, NEW page \in Nat \ {0}
  PROVE  /\ FurtherOn(n, 1) <=> n <= published
         /\ page >= 2 /\ FurtherOn(n, page) => FurtherOn(n, 2)
         /\ FurtherOn(n, 2) <=> n + PageLength <= published
<1>1. (1 - 1) * PageLength = 0 /\ (2 - 1) * PageLength = PageLength
  OBVIOUS
<1>2. ASSUME page >= 2 PROVE (page - 1) * PageLength >= PageLength
  <2>1. PICK m \in Nat : page = m + 2
    <3>1. page - 2 \in Nat /\ page = (page - 2) + 2
      BY <1>2
    <3> QED
      BY <3>1
  <2>2. (page - 1) * PageLength = m * PageLength + PageLength /\ m * PageLength \in Nat
    BY <2>1
  <2> QED
    BY <2>2
<1>3. (page - 1) * PageLength \in Nat
  <2>1. page - 1 \in Nat
    OBVIOUS
  <2> QED
    BY <2>1
<1> QED
  BY <1>1, <1>2, <1>3 DEF FurtherOn

LEMMA PagesFacts ==
  ASSUME published \in Nat, PageLength \in Nat \ {0}
  PROVE  Pages \in Nat /\ (published > 0 => Pages > 0)
<1> DEFINE m == published + PageLength - 1
<1>1. m \in Nat /\ Pages = m \div PageLength
  BY DEF Pages
<1> HIDE DEF m
<1>2. Pages \in Nat /\ m < PageLength * Pages + PageLength
  BY <1>1
<1>3. Pages = 0 => m < PageLength
  BY <1>2
<1> QED
  BY <1>2, <1>3 DEF m

(* What the invariant gives of a worker.                                   *)
LEMMA WorkerFacts ==
  ASSUME NoticeInv, NEW w \in Worker
  PROVE  /\ worker[w] \in State
         /\ published \in Nat /\ noticeLog.before \in Nat /\ noticeLog.before <= published
         /\ PageLength \in Nat \ {0}
         /\ Range(worker[w].rows) \subseteq 1 .. published
         /\ worker[w].page <= worker[w].pages + 1
         /\ worker[w].step \in {"create", "push"} => worker[w].rows # <<>>
         /\ worker[w].step \in {"look", "create", "push"} \/ worker[w].rows = <<>>
         /\ w = "loader" => worker[w].step \in LoaderSteps
         /\ w = "sync" => worker[w].step \in SyncSteps
         /\ worker["sync"].step = "not added" <=> worker["loader"].step # "done"
<1>1. worker[w] \in State
  BY DEF NoticeInv, NoticeTypeInv, State
<1>2. /\ published \in Nat /\ PageLength \in Nat \ {0}
      /\ Range(worker[w].rows) \subseteq 1 .. published
      /\ worker[w].page <= worker[w].pages + 1
  <2>1. published \in 0 .. Notices
    BY DEF NoticeInv, NoticeTypeOK
  <2>2. Range(worker[w].rows) \subseteq 1 .. published /\ worker[w].page <= worker[w].pages + 1
    BY DEF NoticeInv, NoticeTypeOK
  <2> QED
    BY <2>1, <2>2, NoticeConstants
<1>3. noticeLog.before \in Nat /\ noticeLog.before <= published
  BY DEF NoticeInv, NoticeTypeInv, NoticeLog
<1>4. /\ worker[w].step \in {"create", "push"} => worker[w].rows # <<>>
      /\ worker[w].step \in {"look", "create", "push"} \/ worker[w].rows = <<>>
      /\ w = "loader" => worker[w].step \in LoaderSteps
      /\ w = "sync" => worker[w].step \in SyncSteps
      /\ worker["sync"].step = "not added" <=> worker["loader"].step # "done"
  BY DEF NoticeInv, NoticeTypeInv, OneWorks
<1> QED
  BY <1>1, <1>2, <1>3, <1>4

LEMMA LoadBeginsKeeps ==
  ASSUME NoticeInv, LoadBegins
  PROVE  NoticeInv'
<1> DEFINE st == [At("page") EXCEPT !.pages = Pages]
<1>1. "page" \in LoaderSteps \cup SyncSteps /\ "loader" \in Worker
  BY DEF LoaderSteps, Worker
<1>2. published \in Nat /\ PageLength \in Nat \ {0} /\ noticeLog.before \in Nat /\ noticeLog.before <= published
  BY <1>1, WorkerFacts
<1>3. Pages \in Nat /\ (published > 0 => Pages > 0)
  BY <1>2, PagesFacts
<1>4. /\ st \in State /\ st.step = "page" /\ st.page = 1 /\ st.pages = Pages /\ st.rows = <<>>
      /\ Range(st.rows) = {}
  <2>1. /\ At("page") \in State /\ At("page").step = "page" /\ At("page").page = 1
        /\ At("page").rows = <<>> /\ Range(<<>>) = {}
    BY <1>1, AtFacts
  <2> HIDE DEF At
  <2> QED
    BY <1>3, <2>1, NewPages
<1>5. \A n \in 1 .. noticeLog.before : FurtherOn(n, 1)
  BY <1>2, BeyondFirst
<1> HIDE DEF st
<1>6. Becomes("loader", st) /\ worker["loader"].step = "begin"
  BY DEF LoadBegins, st
<1>7. InOrder("loader", st)
  BY <1>2, <1>3, <1>4, <1>6 DEF InOrder, LoaderSteps
<1> QED
  BY <1>1, <1>4, <1>5, <1>6, <1>7, WorkerOnly DEF LoadBegins

LEMMA LoadPageKeeps ==
  ASSUME NoticeInv, LoadPage
  PROVE  NoticeInv'
<1> DEFINE at == worker["loader"]
           ready == At("ready")
           st == [at EXCEPT !.step = "look", !.page = at.page + 1, !.rows = Page(at.page)]
<1>1. "ready" \in LoaderSteps \cup SyncSteps /\ "look" \in LoaderSteps \cup SyncSteps /\ "loader" \in Worker
  BY DEF LoaderSteps, Worker
<1>2. /\ at \in State /\ at.step = "page" /\ at.rows = <<>> /\ Range(at.rows) = {}
      /\ published \in Nat /\ PageLength \in Nat \ {0} /\ noticeLog.before \in Nat /\ noticeLog.before <= published
  <2>1. /\ at \in State /\ at.step = "page" /\ at.rows = <<>>
        /\ published \in Nat /\ PageLength \in Nat \ {0} /\ noticeLog.before \in Nat /\ noticeLog.before <= published
    BY <1>1, WorkerFacts DEF LoadPage
  <2> QED
    BY <1>1, <2>1, AtFacts
<1>3. at.page \in Nat \ {0} /\ at.pages \in Nat /\ at.page + 1 \in Nat \ {0}
  BY <1>2 DEF State
<1>4. \A n \in 1 .. noticeLog.before : IsNews(n) \/ n \in stored \/ FurtherOn(n, at.page)
  BY <1>2 DEF NoticeInv, LoaderComes
<1>5. CASE at.page > at.pages
  <2>1. Becomes("loader", ready)
    BY <1>5 DEF LoadPage
  <2>2. /\ ready \in State /\ ready.step = "ready" /\ ready.page = 1 /\ ready.pages = 1 /\ ready.rows = <<>>
        /\ Range(ready.rows) = {}
    BY <1>1, AtFacts
  <2>3. \A n \in 1 .. noticeLog.before : FurtherOn(n, at.page) => FurtherOn(n, 2)
    <3>1. noticeLog.before > 0 => at.pages > 0
      BY <1>2 DEF NoticeInv, LoaderHasPages
    <3>2. noticeLog.before > 0 => at.page >= 2
      BY <1>3, <1>5, <3>1
    <3> QED
      BY <1>2, <1>3, <3>2, BeyondFirst
  <2> HIDE DEF ready
  <2>4. InOrder("loader", ready)
    BY <1>2, <2>2 DEF InOrder, LoaderSteps
  <2> QED
    BY <1>1, <1>2, <1>4, <2>1, <2>2, <2>3, <2>4, WorkerOnly DEF LoadPage
<1>6. CASE ~(at.page > at.pages)
  <2>1. Becomes("loader", st)
    BY <1>6 DEF LoadPage
  <2>2. /\ Page(at.page) \in Seq(Nat) /\ Range(Page(at.page)) \subseteq 1 .. published
        /\ \A n \in 1 .. published : FurtherOn(n, at.page) => n \in Range(Page(at.page)) \/ FurtherOn(n, at.page + 1)
    BY <1>2, <1>3, PageFacts
  <2>3. /\ st \in State /\ st.step = "look" /\ st.page = at.page + 1 /\ st.pages = at.pages
        /\ st.rows = Page(at.page)
    <3> DEFINE rows == Page(at.page)
               next == at.page + 1
    <3>1. rows \in Seq(Nat) /\ next \in Nat \ {0} /\ at \in State
      BY <1>2, <1>3, <2>2
    <3> HIDE DEF at, rows, next
    <3>2. LET new == [at EXCEPT !.step = "look", !.page = next, !.rows = rows] IN
          /\ new \in State /\ new.step = "look" /\ new.page = next /\ new.pages = at.pages /\ new.rows = rows
      BY <1>1, <3>1 DEF State
    <3> QED
      BY <3>2 DEF rows, next
  <2> HIDE DEF st
  <2>4. noticeLog.before > 0 => at.pages > 0
    BY <1>2 DEF NoticeInv, LoaderHasPages
  <2>5. InOrder("loader", st)
    BY <1>2, <1>3, <1>6, <2>2, <2>3, <2>4 DEF InOrder, LoaderSteps
  <2>6. \A n \in 1 .. noticeLog.before :
           IsNews(n) \/ n \in stored \/ n \in Range(st.rows) \/ FurtherOn(n, st.page)
    BY <1>2, <1>4, <2>2, <2>3
  <2> QED
    BY <1>1, <1>2, <2>1, <2>3, <2>5, <2>6, WorkerOnly DEF LoadPage
<1> QED
  BY <1>5, <1>6

LEMMA SyncNoticeTaskKeeps ==
  ASSUME NoticeInv, SyncNoticeTask
  PROVE  NoticeInv'
<1> DEFINE st == [At("look") EXCEPT !.rows = Page(1)]
<1>1. "look" \in LoaderSteps \cup SyncSteps /\ "sync" \in Worker /\ "loader" \in Worker
  BY DEF LoaderSteps, Worker
<1>2. /\ worker["sync"].step = "resting" /\ worker["loader"].step = "done" /\ worker["loader"].rows = <<>>
      /\ published \in Nat /\ PageLength \in Nat \ {0}
  BY <1>1, WorkerFacts DEF SyncNoticeTask
<1>3. /\ Page(1) \in Seq(Nat) /\ Range(Page(1)) \subseteq 1 .. published
      /\ \A n \in Range(Page(1)) : ~FurtherOn(n, 2)
  <2>1. 1 \in Nat \ {0} /\ 1 + 1 = 2
    OBVIOUS
  <2> QED
    BY <1>2, <2>1, PageFacts
<1>4. st \in State /\ st.step = "look" /\ st.page = 1 /\ st.pages = 1 /\ st.rows = Page(1)
  <2>1. At("look") \in State /\ At("look").step = "look" /\ At("look").page = 1 /\ At("look").pages = 1
    BY <1>1, AtFacts
  <2> QED
    BY <1>3, <2>1, NewRows
<1>5. \A n \in Range(Page(1)) : n \in stored \/ IsNews(n)
  <2> SUFFICES ASSUME NEW n \in Range(Page(1)), ~IsNews(n) PROVE n \in stored
    OBVIOUS
  <2>1. n \in 1 .. noticeLog.before
    <3>1. noticeLog.before \in Nat /\ n \in 1 .. published
      BY <1>1, <1>3, WorkerFacts
    <3> QED
      BY <1>2, <3>1 DEF IsNews
  <2>2. n \in stored \/ n \in Range(worker["loader"].rows) \/ FurtherOn(n, 2)
    BY <1>2, <2>1 DEF NoticeInv, LoaderComes
  <2> QED
    BY <1>2, <1>3, <2>2 DEF Range
<1> HIDE DEF st
<1>6. Becomes("sync", st)
  BY DEF SyncNoticeTask, st
<1>7. InOrder("sync", st)
  BY <1>2, <1>3, <1>4 DEF InOrder, SyncSteps
<1> QED
  BY <1>1, <1>2, <1>4, <1>5, <1>6, <1>7, WorkerOnly DEF SyncNoticeTask

LEMMA EndOfPageKeeps ==
  ASSUME NoticeInv, NEW w \in Worker, EndOfPage(w)
  PROVE  NoticeInv'
<1> DEFINE at == worker[w]
           st == IF w = "loader" THEN [at EXCEPT !.step = "page"] ELSE Resting
<1>1. "page" \in LoaderSteps \cup SyncSteps
  BY DEF LoaderSteps
<1>2. at \in State /\ at.step = "look" /\ at.rows = <<>> /\ Range(at.rows) = {} /\ Range(<<>>) = {}
  BY <1>1, WorkerFacts, AtFacts DEF EndOfPage
<1>3. /\ at.page <= at.pages + 1
      /\ worker["sync"].step = "not added" <=> worker["loader"].step # "done"
  BY WorkerFacts
<1>4. /\ w = "loader" => st \in State /\ st.step = "page" /\ st.page = at.page /\ st.pages = at.pages /\ st.rows = at.rows
      /\ w # "loader" => st \in State /\ st.step = "resting" /\ st.page = 1 /\ st.pages = 1 /\ st.rows = <<>>
  BY <1>1, <1>2, AtFacts, NewStep
<1>5. Becomes(w, st)
  BY DEF EndOfPage
<1> HIDE DEF st
<1>6. InOrder(w, st)
  <2>1. w = "loader" /\ noticeLog.before > 0 => at.pages > 0
    BY <1>2 DEF NoticeInv, LoaderHasPages
  <2>2. CASE w = "loader"
    <3>1. worker["loader"].step = "look"
      BY <1>2, <2>2
    <3>2. /\ Range(st.rows) = {} /\ st.rows = <<>> /\ st.page <= st.pages + 1 /\ st.step = "page"
          /\ noticeLog.before > 0 => st.pages > 0
      <4> HIDE DEF at
      <4> QED
        BY <1>2, <1>3, <1>4, <2>1, <2>2
    <3> QED
      BY <2>2, <3>1, <3>2 DEF InOrder, LoaderSteps
  <2>3. CASE w = "sync"
    <3>1. worker["sync"].step = "look"
      BY <1>2, <2>3
    <3>2. Range(st.rows) = {} /\ st.rows = <<>> /\ st.page <= st.pages + 1 /\ st.step = "resting"
      <4> HIDE DEF at
      <4> QED
        BY <1>2, <1>4, <2>3
    <3> QED
      BY <2>3, <3>1, <3>2 DEF InOrder, SyncSteps
  <2> QED
    BY <2>2, <2>3 DEF Worker
<1>7. w = "loader" => \A n \in 1 .. noticeLog.before : IsNews(n) \/ n \in stored \/ FurtherOn(n, st.page)
  BY <1>2, <1>4 DEF NoticeInv, LoaderComes
<1>8. st \in State /\ st.step \in {"page", "resting"} /\ (w = "loader" => st.step = "page")
      /\ Range(st.rows) = {}
  BY <1>2, <1>4 DEF Worker
<1> QED
  BY <1>2, <1>5, <1>6, <1>7, <1>8, WorkerOnly DEF EndOfPage

(* The state of a worker that goes on to the next row.                     *)
LEMMA NextRowFacts ==
  ASSUME NoticeInv, NEW w \in Worker, worker[w].step \in {"look", "create", "push"}, worker[w].rows # <<>>
  PROVE  /\ NextRow(w) \in State /\ NextRow(w).step = "look" /\ InOrder(w, NextRow(w))
         /\ Row(w) \in 1 .. published /\ Row(w) \in Notice /\ Row(w) \in Range(worker[w].rows)
         /\ w = "loader" =>
              \A n \in 1 .. noticeLog.before :
                 \/ IsNews(n) \/ n \in stored \/ n = Row(w) \/ n \in Range(NextRow(w).rows)
                 \/ FurtherOn(n, NextRow(w).page)
         /\ w = "sync" => \A n \in Range(NextRow(w).rows) : n \in stored \/ IsNews(n)
<1> DEFINE at == worker[w]
           st == NextRow(w)
           rest == Tail(at.rows)
<1>1. /\ at \in State /\ Range(at.rows) \subseteq 1 .. published /\ at.page <= at.pages + 1
      /\ worker["sync"].step = "not added" <=> worker["loader"].step # "done"
      /\ w = "loader" => at.step \in LoaderSteps
      /\ published \in Nat
  BY WorkerFacts
<1>2. at.rows \in Seq(Nat) /\ at.page \in Nat \ {0} /\ at.pages \in Nat
  BY <1>1 DEF State
<1>3. rest \in Seq(Nat) /\ Range(at.rows) = {Row(w)} \cup Range(rest)
  BY <1>2, RowFacts DEF Row
<1>4. "look" \in LoaderSteps \cup SyncSteps
  BY DEF LoaderSteps
<1>5. st \in State /\ st.step = "look" /\ st.page = at.page /\ st.pages = at.pages /\ st.rows = rest
  <2>1. st = [at EXCEPT !.step = "look", !.rows = rest]
    BY DEF NextRow
  <2> HIDE DEF st, rest, at
  <2> QED
    BY <1>1, <1>3, <1>4, <2>1 DEF State
<1>6. Row(w) \in 1 .. published /\ Row(w) \in Notice /\ Row(w) \in Range(at.rows) /\ Range(rest) \subseteq Range(at.rows)
  <2>1. published \in 0 .. Notices
    BY DEF NoticeInv, NoticeTypeOK
  <2> HIDE DEF at, rest
  <2>2. Row(w) \in Range(at.rows) /\ Range(rest) \subseteq Range(at.rows)
    BY <1>3
  <2>3. 1 .. published \subseteq Notice
    BY <2>1, NoticeConstants DEF Notice
  <2> QED
    BY <1>1, <2>2, <2>3
<1>7. w = "loader" /\ noticeLog.before > 0 => at.pages > 0
  BY <1>1 DEF NoticeInv, LoaderHasPages, LoaderSteps
<1>8. w = "loader" => \A n \in 1 .. noticeLog.before :
         IsNews(n) \/ n \in stored \/ n \in Range(at.rows) \/ FurtherOn(n, at.page)
  BY DEF NoticeInv, LoaderComes
<1>9. w = "sync" => \A n \in Range(at.rows) : n \in stored \/ IsNews(n)
  BY DEF NoticeInv, SyncRowsNew
<1> HIDE DEF st, rest
<1>10. InOrder(w, st)
  BY <1>1, <1>5, <1>6, <1>7 DEF InOrder, LoaderSteps, SyncSteps, Worker
<1>11. /\ w = "loader" =>
            \A n \in 1 .. noticeLog.before :
               \/ IsNews(n) \/ n \in stored \/ n = Row(w) \/ n \in Range(st.rows)
               \/ FurtherOn(n, st.page)
       /\ w = "sync" => \A n \in Range(st.rows) : n \in stored \/ IsNews(n)
  BY <1>3, <1>5, <1>8, <1>9
<1> QED
  BY <1>5, <1>6, <1>10, <1>11 DEF st

LEMMA IsNoticeExistsKeeps ==
  ASSUME NoticeInv, NEW w \in Worker, IsNoticeExists(w)
  PROVE  NoticeInv'
<1> DEFINE at == worker[w]
           next == NextRow(w)
           st == [at EXCEPT !.step = "create"]
<1>1. /\ next \in State /\ next.step = "look" /\ InOrder(w, next)
      /\ w = "loader" =>
           \A n \in 1 .. noticeLog.before :
              IsNews(n) \/ n \in stored \/ n = Row(w) \/ n \in Range(next.rows) \/ FurtherOn(n, next.page)
      /\ w = "sync" => \A n \in Range(next.rows) : n \in stored \/ IsNews(n)
  BY NextRowFacts DEF IsNoticeExists
<1>2. at.step = "look" /\ at.rows # <<>>
  BY DEF IsNoticeExists
<1>3. CASE Row(w) \in stored
  <2>1. Becomes(w, next)
    BY <1>3 DEF IsNoticeExists
  <2> HIDE DEF next
  <2> QED
    BY <1>1, <1>2, <1>3, <2>1, WorkerOnly DEF IsNoticeExists
<1>4. CASE Row(w) \notin stored
  <2>1. Becomes(w, st)
    BY <1>4 DEF IsNoticeExists
  <2>2. /\ at \in State /\ Range(at.rows) \subseteq 1 .. published /\ at.page <= at.pages + 1
        /\ worker["sync"].step = "not added" <=> worker["loader"].step # "done"
    BY WorkerFacts
  <2>3. "create" \in LoaderSteps \cup SyncSteps
    BY DEF LoaderSteps
  <2>4. st \in State /\ st.step = "create" /\ st.page = at.page /\ st.pages = at.pages /\ st.rows = at.rows
    <3> HIDE DEF at
    <3> QED
      BY <2>2, <2>3, NewStep
  <2> HIDE DEF st
  <2>5. InOrder(w, st)
    <3>1. w = "loader" /\ noticeLog.before > 0 => at.pages > 0
      BY <1>2 DEF NoticeInv, LoaderHasPages
    <3> QED
      BY <1>2, <2>2, <2>4, <3>1 DEF InOrder, LoaderSteps, SyncSteps, Worker
  <2>6. /\ w = "loader" =>
             \A n \in 1 .. noticeLog.before :
                IsNews(n) \/ n \in stored \/ n \in Range(st.rows) \/ FurtherOn(n, st.page)
        /\ w = "sync" => \A n \in Range(st.rows) : n \in stored \/ IsNews(n)
    BY <1>2, <2>4 DEF NoticeInv, LoaderComes, SyncRowsNew
  <2>7. Head(st.rows) \notin stored
    BY <1>4, <2>4 DEF Row
  <2> QED
    BY <1>2, <2>1, <2>4, <2>5, <2>6, <2>7, WorkerOnly DEF IsNoticeExists
<1> QED
  BY <1>3, <1>4

(* The parts of the invariant that no move of a worker alone disturbs.     *)
LEMMA NoticeInvParts ==
  ASSUME NoticeTypeInv', OneWorks', CreatesNew', LoaderComes', LoaderHasPages', SyncRowsNew',
         \A v \in Worker :
            /\ worker'[v].step \in {"begin", "page", "look", "create", "push", "ready", "done",
                                    "not added", "resting"}
            /\ Range(worker'[v].rows) \subseteq 1 .. published'
            /\ worker'[v].page <= worker'[v].pages + 1,
         published' \in 0 .. Notices, stored' \subseteq Notice, looking' \subseteq stored',
         adjusted' \in [Notice -> Nat], pushes' \in [Notice -> Nat],
         FirstStored', LookedOnce', PushesNews', StoredAccounted'
  PROVE  NoticeInv'
  BY DEF NoticeInv, NoticeTypeOK

(* What a state gives of the table.                                        *)
LEMMA TableFacts ==
  ASSUME NoticeInv
  PROVE  /\ published \in 0 .. Notices /\ stored \subseteq Notice /\ looking \subseteq stored
         /\ adjusted \in [Notice -> Nat] /\ pushes \in [Notice -> Nat]
         /\ noticeLeft \in [{"old", "publish", "fault", "full", "restart"} -> Nat]
         /\ noticeLog \in NoticeLog
         /\ \A n \in Notice \ stored : pushes[n] = 0 /\ adjusted[n] = 0
         /\ \A n \in looking : adjusted[n] = 0
  BY DEF NoticeInv, NoticeTypeOK, NoticeTypeInv, FirstStored, LookedOnce

LEMMA CreateNoticeKeeps ==
  ASSUME NoticeInv, NEW w \in Worker, CreateNotice(w)
  PROVE  NoticeInv'
<1> DEFINE at == worker[w]
           n == Row(w)
           st == AfterCreate(w)
<1>1. /\ at.step = "create" /\ stored' = stored \cup {n} /\ looking' = looking \cup {n} /\ Becomes(w, st)
      /\ noticeLog' = IF w = "loader" THEN [noticeLog EXCEPT !.loaded = @ \cup {n}] ELSE noticeLog
      /\ UNCHANGED <<published, adjusted, pushes, noticeLeft>>
  BY DEF CreateNotice, LookThrough
<1>2. at \in State /\ at.rows # <<>> /\ Range(at.rows) \subseteq 1 .. published /\ at.page <= at.pages + 1
      /\ (worker["sync"].step = "not added" <=> worker["loader"].step # "done")
  BY <1>1, WorkerFacts
<1>3. /\ NextRow(w) \in State /\ NextRow(w).step = "look" /\ InOrder(w, NextRow(w))
      /\ n \in 1 .. published /\ n \in Notice /\ n \in Range(at.rows)
      /\ w = "loader" =>
           \A m \in 1 .. noticeLog.before :
              IsNews(m) \/ m \in stored \/ m = n \/ m \in Range(NextRow(w).rows) \/ FurtherOn(m, NextRow(w).page)
  BY <1>1, <1>2, NextRowFacts
<1>4. n \notin stored
  BY <1>1 DEF NoticeInv, CreatesNew
<1>5. /\ published \in 0 .. Notices /\ stored \subseteq Notice /\ looking \subseteq stored
      /\ adjusted \in [Notice -> Nat] /\ pushes \in [Notice -> Nat]
      /\ noticeLeft \in [{"old", "publish", "fault", "full", "restart"} -> Nat]
      /\ noticeLog \in NoticeLog
      /\ \A m \in Notice \ stored : pushes[m] = 0 /\ adjusted[m] = 0
      /\ \A m \in looking : adjusted[m] = 0
  BY TableFacts
<1>6. /\ noticeLog' \in NoticeLog /\ noticeLog'.before = noticeLog.before
      /\ noticeLog'.missed = noticeLog.missed /\ noticeLog'.lost = noticeLog.lost
      /\ noticeLog'.futile = noticeLog.futile
      /\ noticeLog.loaded \subseteq noticeLog'.loaded
      /\ w = "loader" => n \in noticeLog'.loaded
  <2>1. n \in Nat
    BY <1>3, NoticeConstants
  <2> HIDE DEF n
  <2> QED
    BY <1>1, <1>5, <2>1 DEF NoticeLog
<1>7. \A m : IsNews(m)' <=> IsNews(m)
  BY <1>6 DEF IsNews
<1>8. FirstStored' /\ LookedOnce'
  BY <1>1, <1>3, <1>4, <1>5 DEF FirstStored, LookedOnce
<1>9. /\ published' \in 0 .. Notices /\ stored' \subseteq Notice /\ looking' \subseteq stored'
      /\ adjusted' \in [Notice -> Nat] /\ pushes' \in [Notice -> Nat]
  BY <1>1, <1>3, <1>5
<1>10. /\ noticeLeft' \in [{"old", "publish", "fault", "full", "restart"} -> Nat]
       /\ UNCHANGED published /\ stored \subseteq stored' /\ noticeLog.missed \subseteq noticeLog'.missed
  BY <1>1, <1>5, <1>6
<1>11. \A m \in Notice : m \in AboutDays /\ m \in stored' =>
          \/ adjusted[m] = 1
          \/ adjusted[m] = 0 /\ m \in looking' \cup noticeLog'.futile
  BY <1>1, <1>4, <1>5, <1>6 DEF NoticeInv, StoredAccounted
<1>12. CASE w = "loader"
  <2>1. st = NextRow(w)
    BY <1>12 DEF AfterCreate
  <2> HIDE DEF st
  <2>2. \A m \in 1 .. noticeLog.before :
           IsNews(m)' \/ m \in stored' \/ m \in Range(st.rows) \/ FurtherOn(m, st.page)
    BY <1>1, <1>3, <1>7, <1>12, <2>1
  <2>3. /\ NoticeTypeInv' /\ OneWorks' /\ CreatesNew' /\ LoaderComes' /\ LoaderHasPages' /\ SyncRowsNew'
        /\ \A v \in Worker :
             /\ worker'[v].step \in {"begin", "page", "look", "create", "push", "ready", "done",
                                     "not added", "resting"}
             /\ Range(worker'[v].rows) \subseteq 1 .. published
             /\ worker'[v].page <= worker'[v].pages + 1
        /\ worker'[w] = st /\ \A v \in Worker \ {w} : worker'[v] = worker[v]
    BY <1>1, <1>3, <1>6, <1>10, <1>12, <2>1, <2>2, WorkerMoves
  <2>4. worker["sync"].step = "not added" /\ worker'["sync"] = worker["sync"]
    BY <1>1, <1>2, <1>12, <2>3 DEF Worker
  <2>5. PushesNews'
    BY <2>4 DEF PushesNews
  <2>6. \A m \in stored' : pushes[m] = 0 => m \in noticeLog'.loaded \cup noticeLog'.lost
    BY <1>1, <1>6, <1>12, <2>4 DEF NoticeInv, StoredAccounted
  <2>7. StoredAccounted'
    BY <1>1, <1>9, <1>11, <2>6 DEF StoredAccounted
  <2> QED
    BY <1>8, <1>9, <1>10, <2>3, <2>5, <2>7, NoticeInvParts
<1>13. CASE w = "sync"
  <2>1. st = [at EXCEPT !.step = "push"] /\ "push" \in LoaderSteps \cup SyncSteps
    BY <1>13 DEF AfterCreate, SyncSteps
  <2>2. st \in State /\ st.step = "push" /\ st.page = at.page /\ st.pages = at.pages /\ st.rows = at.rows
    <3> HIDE DEF at, st
    <3> QED
      BY <1>2, <2>1, NewStep
  <2> HIDE DEF st
  <2>3. \A m \in Range(at.rows) : m \in stored \/ IsNews(m)
    BY <1>13 DEF NoticeInv, SyncRowsNew
  <2>4. InOrder(w, st)
    <3>1. worker["sync"].step # "not added"
      BY <1>1, <1>13
    <3> QED
      BY <1>2, <1>13, <2>2, <3>1 DEF InOrder, SyncSteps
  <2>5. \A m \in Range(st.rows) : m \in stored' \/ IsNews(m)'
    BY <1>1, <1>7, <2>2, <2>3
  <2>6. /\ NoticeTypeInv' /\ OneWorks' /\ CreatesNew' /\ LoaderComes' /\ LoaderHasPages' /\ SyncRowsNew'
        /\ \A v \in Worker :
             /\ worker'[v].step \in {"begin", "page", "look", "create", "push", "ready", "done",
                                     "not added", "resting"}
             /\ Range(worker'[v].rows) \subseteq 1 .. published
             /\ worker'[v].page <= worker'[v].pages + 1
        /\ worker'[w] = st /\ \A v \in Worker \ {w} : worker'[v] = worker[v]
    BY <1>1, <1>6, <1>10, <1>13, <2>2, <2>4, <2>5, WorkerMoves
  <2>7. worker'["sync"].step = "push" /\ Row("sync")' = n
    BY <1>13, <2>2, <2>6 DEF Row
  <2>8. PushesNews'
    <3>1. PICK m \in Notice : m = n
      BY <1>3
    <3>2. m \in stored' /\ pushes'[m] = 0 /\ IsNews(m)
      BY <1>1, <1>3, <1>4, <1>5, <2>3, <3>1
    <3>3. Row("sync")' = m
      BY <2>7, <3>1
    <3> QED
      BY <1>7, <3>2, <3>3 DEF PushesNews
  <2>9. \A m \in stored' : pushes[m] = 0 =>
           m \in noticeLog'.loaded \cup noticeLog'.lost \/ Row("sync")' = m
    <3>1. worker["sync"].step # "push"
      BY <1>1, <1>13
    <3> QED
      BY <1>1, <1>6, <2>7, <3>1 DEF NoticeInv, StoredAccounted
  <2>10. StoredAccounted'
    BY <1>1, <1>9, <1>11, <2>7, <2>9 DEF StoredAccounted
  <2> QED
    BY <1>8, <1>9, <1>10, <2>6, <2>8, <2>10, NoticeInvParts
<1> QED
  BY <1>12, <1>13 DEF Worker

LEMMA PushNoticeKeeps ==
  ASSUME NoticeInv, PushNotice
  PROVE  NoticeInv'
<1> DEFINE at == worker["sync"]
           n == Row("sync")
           st == NextRow("sync")
<1>1. /\ at.step = "push" /\ Becomes("sync", st)
      /\ \/ pushes' = [pushes EXCEPT ![n] = @ + 1] /\ UNCHANGED <<noticeLeft, noticeLog>>
         \/ /\ Use("full")
            /\ noticeLog' = [noticeLog EXCEPT !.lost = @ \cup {n}]
            /\ UNCHANGED pushes
      /\ UNCHANGED <<published, stored, looking, adjusted>>
  BY DEF PushNotice
<1>2. "sync" \in Worker
  BY DEF Worker
<1>3. at \in State /\ at.rows # <<>> /\ Range(at.rows) \subseteq 1 .. published
  BY <1>1, <1>2, WorkerFacts
<1>4. /\ st \in State /\ st.step = "look" /\ InOrder("sync", st)
      /\ n \in 1 .. published /\ n \in Notice
      /\ \A m \in Range(st.rows) : m \in stored \/ IsNews(m)
  BY <1>1, <1>2, <1>3, NextRowFacts
<1>5. /\ published \in 0 .. Notices /\ stored \subseteq Notice /\ looking \subseteq stored
      /\ adjusted \in [Notice -> Nat] /\ pushes \in [Notice -> Nat]
      /\ noticeLeft \in [{"old", "publish", "fault", "full", "restart"} -> Nat]
      /\ noticeLog \in NoticeLog
      /\ \A m \in Notice \ stored : pushes[m] = 0 /\ adjusted[m] = 0
      /\ \A m \in looking : adjusted[m] = 0
  BY TableFacts
<1>6. n \in stored /\ pushes[n] = 0
  BY <1>1 DEF NoticeInv, PushesNews
<1> HIDE DEF st
<1>7. /\ noticeLog' \in NoticeLog /\ noticeLog'.before = noticeLog.before
      /\ noticeLog'.missed = noticeLog.missed /\ noticeLog.lost \subseteq noticeLog'.lost
      /\ noticeLog'.futile = noticeLog.futile /\ noticeLog'.loaded = noticeLog.loaded
      /\ noticeLeft' \in [{"old", "publish", "fault", "full", "restart"} -> Nat]
      /\ pushes' \in [Notice -> Nat] /\ \A m \in Notice \ {n} : pushes'[m] = pushes[m]
      /\ pushes'[n] # 0 \/ n \in noticeLog'.lost
  <2>1. n \in Nat
    BY <1>4, NoticeConstants
  <2> HIDE DEF n
  <2>2. CASE pushes' = [pushes EXCEPT ![n] = @ + 1] /\ UNCHANGED <<noticeLeft, noticeLog>>
    BY <1>4, <1>5, <1>6, <2>2
  <2>3. CASE /\ Use("full")
             /\ noticeLog' = [noticeLog EXCEPT !.lost = @ \cup {n}]
             /\ UNCHANGED pushes
    <3>1. noticeLeft' \in [{"old", "publish", "fault", "full", "restart"} -> Nat]
      BY <1>5, <2>3 DEF Use
    <3> QED
      BY <1>5, <2>1, <2>3, <3>1 DEF NoticeLog
  <2> QED
    BY <1>1, <2>2, <2>3
<1>8. \A m : IsNews(m)' <=> IsNews(m)
  BY <1>7 DEF IsNews
<1>9. \A m \in Range(st.rows) : m \in stored' \/ IsNews(m)'
  BY <1>1, <1>4, <1>8
<1>10. /\ NoticeTypeInv' /\ OneWorks' /\ CreatesNew' /\ LoaderComes' /\ LoaderHasPages' /\ SyncRowsNew'
       /\ \A v \in Worker :
            /\ worker'[v].step \in {"begin", "page", "look", "create", "push", "ready", "done",
                                    "not added", "resting"}
            /\ Range(worker'[v].rows) \subseteq 1 .. published
            /\ worker'[v].page <= worker'[v].pages + 1
       /\ worker'["sync"] = st
  BY <1>1, <1>2, <1>4, <1>7, <1>9, WorkerMoves
<1>11. FirstStored' /\ LookedOnce'
  BY <1>1, <1>5, <1>6, <1>7 DEF FirstStored, LookedOnce
<1>12. PushesNews'
  BY <1>4, <1>10 DEF PushesNews
<1>13. StoredAccounted'
  <2>1. \A m \in stored : pushes'[m] = 0 => m \in noticeLog'.loaded \cup noticeLog'.lost
    <3> SUFFICES ASSUME NEW m \in stored, pushes'[m] = 0 PROVE m \in noticeLog'.loaded \cup noticeLog'.lost
      OBVIOUS
    <3>1. m # n => m \in noticeLog.loaded \cup noticeLog.lost
      BY <1>5, <1>7 DEF NoticeInv, StoredAccounted
    <3> QED
      BY <1>7, <3>1
  <2>2. \A m \in stored : m \in AboutDays =>
           \/ adjusted[m] = 1
           \/ adjusted[m] = 0 /\ m \in looking \cup noticeLog.futile
    BY DEF NoticeInv, StoredAccounted
  <2> QED
    BY <1>1, <1>7, <2>1, <2>2 DEF StoredAccounted
<1> QED
  BY <1>1, <1>5, <1>7, <1>10, <1>11, <1>12, <1>13, NoticeInvParts

(* What an error does: the worker goes on, and what it had on hand is      *)
(* missed, or stored and neither pushed nor looked through.                *)
LEMMA FailsAlike ==
  ASSUME NoticeInv, NEW w \in Worker, NEW st \in State, NEW skipped \in SUBSET Nat, NEW written \in SUBSET Nat,
         worker[w].step # "push", st.step \in {"page", "look", "ready", "resting"},
         Becomes(w, st), InOrder(w, st),
         noticeLog' \in NoticeLog, noticeLog'.before = noticeLog.before,
         noticeLog'.missed = noticeLog.missed \cup skipped,
         noticeLog'.lost = noticeLog.lost \cup written,
         noticeLog'.futile = noticeLog.futile \cup written,
         noticeLog'.loaded = noticeLog.loaded,
         stored' = stored \cup written, written \subseteq Notice, written \cap stored = {},
         noticeLeft' \in [{"old", "publish", "fault", "full", "restart"} -> Nat],
         UNCHANGED <<published, looking, adjusted, pushes>>,
         w = "loader" =>
            \A n \in 1 .. noticeLog.before :
                \/ IsNews(n) \/ n \in stored \/ n \in skipped \cup written \/ n \in Range(st.rows)
                \/ st.step \in {"page", "look"} /\ FurtherOn(n, st.page),
         w = "sync" => \A n \in Range(st.rows) : n \in stored \/ IsNews(n)
  PROVE  NoticeInv'
<1>1. /\ published \in 0 .. Notices /\ stored \subseteq Notice /\ looking \subseteq stored
      /\ adjusted \in [Notice -> Nat] /\ pushes \in [Notice -> Nat]
      /\ noticeLog \in NoticeLog
      /\ \A m \in Notice \ stored : pushes[m] = 0 /\ adjusted[m] = 0
      /\ \A m \in looking : adjusted[m] = 0
  BY TableFacts
<1>2. /\ noticeLog' \in NoticeLog /\ noticeLog'.before = noticeLog.before
      /\ noticeLog'.missed = noticeLog.missed \cup skipped
      /\ noticeLog'.lost = noticeLog.lost \cup written
      /\ noticeLog'.futile = noticeLog.futile \cup written
      /\ noticeLog'.loaded = noticeLog.loaded
  OBVIOUS
<1>3. \A m : IsNews(m)' <=> IsNews(m) \/ m \in skipped
  BY <1>2 DEF IsNews
<1>4. w = "loader" =>
         \A n \in 1 .. noticeLog.before :
            \/ IsNews(n)' \/ n \in stored' \/ n \in Range(st.rows)
            \/ st.step \in {"page", "look"} /\ FurtherOn(n, st.page)
  BY <1>3
<1>5. w = "sync" => \A n \in Range(st.rows) : n \in stored' \/ IsNews(n)'
  BY <1>3
<1>6. /\ NoticeTypeInv' /\ OneWorks' /\ CreatesNew' /\ LoaderComes' /\ LoaderHasPages' /\ SyncRowsNew'
      /\ \A v \in Worker :
           /\ worker'[v].step \in {"begin", "page", "look", "create", "push", "ready", "done",
                                   "not added", "resting"}
           /\ Range(worker'[v].rows) \subseteq 1 .. published
           /\ worker'[v].page <= worker'[v].pages + 1
      /\ worker'[w] = st /\ \A v \in Worker \ {w} : worker'[v] = worker[v]
  BY <1>2, <1>4, <1>5, WorkerMoves
<1>7. FirstStored' /\ LookedOnce'
  BY <1>1 DEF FirstStored, LookedOnce
<1>8. /\ worker'["sync"].step = "push" => worker'["sync"] = worker["sync"] /\ Row("sync")' = Row("sync")
      /\ worker["sync"].step = "push" => worker'["sync"] = worker["sync"] /\ Row("sync")' = Row("sync")
  BY <1>6 DEF Worker, Row
<1>9. PushesNews'
  BY <1>3, <1>8 DEF NoticeInv, PushesNews
<1>10. StoredAccounted'
  <2> SUFFICES ASSUME NEW n \in stored'
               PROVE  /\ pushes[n] = 0 =>
                            \/ n \in noticeLog'.loaded \cup noticeLog'.lost
                            \/ worker'["sync"].step = "push" /\ Row("sync")' = n
                      /\ n \in AboutDays =>
                            \/ adjusted[n] = 1
                            \/ adjusted[n] = 0 /\ n \in looking \cup noticeLog'.futile
    BY DEF StoredAccounted
  <2>1. CASE n \in written
    BY <1>1, <1>2, <2>1
  <2>2. CASE n \in stored
    BY <1>2, <1>8, <2>2 DEF NoticeInv, StoredAccounted
  <2> QED
    BY <2>1, <2>2
<1>11. stored' \subseteq Notice /\ looking' \subseteq stored'
  BY <1>1
<1> QED
  BY <1>1, <1>6, <1>7, <1>9, <1>10, <1>11, NoticeInvParts

LEMMA WorkerFailsKeeps ==
  ASSUME NoticeInv, NEW w \in Worker, WorkerFails(w)
  PROVE  NoticeInv'
<1> DEFINE at == worker[w]
           n == Row(w)
           skipped == CASE w = "sync" -> {}
                        [] at.step = "begin" -> 1 .. published
                        [] at.step = "page" -> Range(Page(at.page))
                        [] OTHER -> {n}
           ready == At("ready")
           later == [at EXCEPT !.page = @ + 1]
           next == NextRow(w)
           st == CASE w = "sync" -> Resting
                   [] at.step = "begin" -> ready
                   [] at.step = "page" -> later
                   [] OTHER -> next
<1>1. /\ at.step \in {"begin", "page", "look", "create"}
      /\ at.step = "page" => at.page <= at.pages
      /\ at.step = "look" => at.rows # <<>>
      /\ Use("fault") /\ Becomes(w, st)
      /\ \/ noticeLog' = [noticeLog EXCEPT !.missed = @ \cup skipped] /\ UNCHANGED stored
         \/ /\ at.step = "create" /\ stored' = stored \cup {n}
            /\ noticeLog' = [noticeLog EXCEPT !.lost = @ \cup {n}, !.futile = @ \cup {n}]
      /\ UNCHANGED <<published, looking, adjusted, pushes>>
  BY DEF WorkerFails, LoaderEnds
<1>2. /\ at \in State /\ published \in Nat /\ PageLength \in Nat \ {0}
      /\ noticeLog.before \in Nat /\ noticeLog.before <= published
      /\ Range(at.rows) \subseteq 1 .. published /\ at.page <= at.pages + 1
      /\ at.step = "create" => at.rows # <<>>
      /\ at.step \in {"look", "create", "push"} \/ at.rows = <<>>
      /\ w = "loader" => at.step \in LoaderSteps
      /\ w = "sync" => at.step \in SyncSteps
      /\ (worker["sync"].step = "not added" <=> worker["loader"].step # "done")
  BY WorkerFacts
<1>2a. w = "sync" => at.step # "begin" /\ at.step # "page"
  BY <1>2 DEF SyncSteps
<1>2b. published \in Nat /\ noticeLog.before \in Nat /\ noticeLog.before <= published
  BY WorkerFacts
<1>3. at.page \in Nat \ {0} /\ at.pages \in Nat
  BY <1>2 DEF State
<1>4. /\ noticeLeft' \in [{"old", "publish", "fault", "full", "restart"} -> Nat]
      /\ noticeLog \in NoticeLog
  BY <1>1, TableFacts DEF Use
<1>5. at.step = "create" => n \notin stored
  BY DEF NoticeInv, CreatesNew
<1>6. at.step \in {"look", "create"} =>
        /\ next \in State /\ next.step = "look" /\ InOrder(w, next)
        /\ n \in 1 .. published /\ n \in Notice
        /\ w = "loader" =>
             \A m \in 1 .. noticeLog.before :
                IsNews(m) \/ m \in stored \/ m = n \/ m \in Range(next.rows) \/ FurtherOn(m, next.page)
        /\ w = "sync" => \A m \in Range(next.rows) : m \in stored \/ IsNews(m)
  BY <1>1, <1>2, NextRowFacts
<1>7. /\ Resting \in State /\ Resting.step = "resting" /\ Resting.page = 1 /\ Resting.pages = 1
      /\ Resting.rows = <<>> /\ Range(<<>>) = {}
      /\ ready \in State /\ ready.step = "ready" /\ ready.page = 1 /\ ready.pages = 1 /\ ready.rows = <<>>
  <2>1. "ready" \in LoaderSteps \cup SyncSteps
    BY DEF LoaderSteps
  <2> QED
    BY <2>1, AtFacts
<1>8. later \in State /\ later.step = at.step /\ later.page = at.page + 1 /\ later.pages = at.pages
      /\ later.rows = at.rows
  <2>1. at.page + 1 \in Nat \ {0}
    BY <1>3
  <2> HIDE DEF at
  <2> QED
    BY <1>2, <2>1 DEF State
(* The worker's new state.                                                 *)
<1>9. st \in State /\ st.step \in {"page", "look", "ready", "resting"} /\ InOrder(w, st)
  <2>1. CASE w = "sync"
    <3>1. at.step \in {"look", "create"}
      BY <1>1, <1>2, <2>1 DEF SyncSteps
    <3>2. worker["sync"].step # "not added"
      BY <2>1, <3>1
    <3>3. /\ Resting.step = "resting" /\ Resting.rows = <<>> /\ Range(Resting.rows) = {}
          /\ Resting.page <= Resting.pages + 1
      <4> HIDE DEF Resting
      <4> QED
        BY <1>7
    <3>4. InOrder(w, Resting)
      <4> HIDE DEF Resting
      <4> QED
        BY <2>1, <3>2, <3>3 DEF InOrder, SyncSteps
    <3>5. st = Resting
      <4> HIDE DEF at, ready, later, next
      <4> QED
        BY <1>2a, <2>1
    <3> HIDE DEF st
    <3> QED
      BY <1>7, <3>4, <3>5
  <2>2. CASE w = "loader"
    <3>1. worker["loader"].step # "done"
      BY <1>1, <2>2
    <3>2. CASE at.step = "begin"
      <4>1. InOrder(w, ready)
        <5> HIDE DEF at, ready
        <5> QED
          BY <1>7, <2>2, <3>1 DEF InOrder, LoaderSteps
      <4> HIDE DEF ready
      <4> QED
        BY <1>7, <2>2, <3>2, <4>1
    <3>3. CASE at.step = "page"
      <4>1. noticeLog.before > 0 => at.pages > 0
        BY <2>2, <3>3 DEF NoticeInv, LoaderHasPages
      <4>2. at.rows = <<>>
        BY <1>2, <3>3
      <4>3. InOrder(w, later)
        <5> HIDE DEF at, later
        <5> QED
          BY <1>1, <1>3, <1>7, <1>8, <2>2, <3>1, <3>3, <4>1, <4>2 DEF InOrder, LoaderSteps
      <4> HIDE DEF later
      <4> QED
        BY <1>8, <2>2, <3>3, <4>3
    <3>4. CASE at.step \in {"look", "create"}
      <4> HIDE DEF next
      <4> QED
        BY <1>6, <2>2, <3>4
    <3> QED
      BY <1>1, <3>2, <3>3, <3>4
  <2> QED
    BY <2>1, <2>2 DEF Worker
<1>10. skipped \in SUBSET Nat
  <2>1. w # "sync" /\ at.step = "page" => Range(Page(at.page)) \subseteq 1 .. published
    BY <1>2, <1>3, PageFacts
  <2> HIDE DEF n
  <2>2. n \in 1 .. published => n \in Nat
    BY <1>2b
  <2>3. 1 .. published \subseteq Nat
    BY <1>2b
  <2>4. CASE w = "sync"
    <3> HIDE DEF at
    <3> QED
      BY <1>2a, <2>4
  <2>5. CASE w # "sync" /\ at.step = "begin"
    BY <2>3, <2>5
  <2>6. CASE w # "sync" /\ at.step = "page"
    BY <2>1, <2>3, <2>6
  <2>7. CASE w # "sync" /\ at.step \in {"look", "create"}
    BY <1>6, <2>2, <2>7
  <2> QED
    BY <1>1, <2>4, <2>5, <2>6, <2>7
<1>11. ASSUME w = "loader", NEW m \in 1 .. noticeLog.before
       PROVE  \/ IsNews(m) \/ m \in stored \/ m \in skipped \/ m \in Range(st.rows)
              \/ st.step \in {"page", "look"} /\ FurtherOn(m, st.page)
  <2>1. IsNews(m) \/ m \in stored \/ m \in Range(at.rows) \/ FurtherOn(m, at.page)
    BY <1>1, <1>11 DEF NoticeInv, LoaderComes
  <2>2. m \in 1 .. published
    BY <1>2b
  <2>3. CASE at.step = "begin"
    BY <1>11, <2>2, <2>3
  <2>4. CASE at.step = "page"
    <3>1. Range(at.rows) = {}
      BY <1>2, <1>7, <2>4
    <3>2. FurtherOn(m, at.page) => m \in Range(Page(at.page)) \/ FurtherOn(m, at.page + 1)
      BY <1>2, <1>3, <2>2, PageFacts
    <3>3. st = later /\ skipped = Range(Page(at.page))
      <4> HIDE DEF later
      <4> QED
        BY <1>11, <2>4
    <3> HIDE DEF at, st, skipped, later
    <3> QED
      BY <1>8, <2>1, <2>4, <3>1, <3>2, <3>3
  <2>5. CASE at.step \in {"look", "create"}
    <3>1. st = next /\ skipped = {n}
      <4> HIDE DEF next
      <4> QED
        BY <1>11, <2>5
    <3> HIDE DEF at, st, skipped, next
    <3> QED
      BY <1>6, <1>11, <2>5, <3>1
  <2> QED
    BY <1>1, <2>3, <2>4, <2>5
<1>12. ASSUME w = "sync" PROVE \A m \in Range(st.rows) : m \in stored \/ IsNews(m)
  <2>1. st = Resting
    <3> HIDE DEF at, ready, later, next
    <3> QED
      BY <1>12, <1>2a
  <2> QED
    BY <1>7, <2>1
<1>13. at.step # "push"
  BY <1>1
<1>14. CASE noticeLog' = [noticeLog EXCEPT !.missed = @ \cup skipped] /\ UNCHANGED stored
  <2> DEFINE written == {}
  <2> HIDE DEF at, st, skipped
  <2>1. /\ noticeLog' \in NoticeLog /\ noticeLog'.before = noticeLog.before
        /\ noticeLog'.missed = noticeLog.missed \cup skipped
        /\ noticeLog'.lost = noticeLog.lost \cup written
        /\ noticeLog'.futile = noticeLog.futile \cup written
        /\ noticeLog'.loaded = noticeLog.loaded
    BY <1>4, <1>10, <1>14 DEF NoticeLog
  <2>2. /\ stored' = stored \cup written /\ written \subseteq Notice /\ written \cap stored = {}
        /\ written \in SUBSET Nat
    BY <1>14
  <2>3. w = "loader" =>
            \A m \in 1 .. noticeLog.before :
                \/ IsNews(m) \/ m \in stored \/ m \in skipped \cup written \/ m \in Range(st.rows)
                \/ st.step \in {"page", "look"} /\ FurtherOn(m, st.page)
    BY <1>11
  <2> HIDE DEF written
  <2> QED
    BY <1>1, <1>4, <1>9, <1>10, <1>12, <1>13, <2>1, <2>2, <2>3, FailsAlike DEF at
<1>15. CASE /\ at.step = "create" /\ stored' = stored \cup {n}
            /\ noticeLog' = [noticeLog EXCEPT !.lost = @ \cup {n}, !.futile = @ \cup {n}]
  <2> DEFINE none == {}
             written == {n}
  <2>1. n \in Nat /\ n \in Notice /\ n \notin stored
    BY <1>5, <1>6, <1>15, NoticeConstants
  <2>2. w = "loader" => skipped = {n}
    BY <1>15
  <2> HIDE DEF at, st, skipped, n
  <2>3. /\ noticeLog' \in NoticeLog /\ noticeLog'.before = noticeLog.before
        /\ noticeLog'.missed = noticeLog.missed \cup none
        /\ noticeLog'.lost = noticeLog.lost \cup written
        /\ noticeLog'.futile = noticeLog.futile \cup written
        /\ noticeLog'.loaded = noticeLog.loaded
    BY <1>4, <1>15, <2>1 DEF NoticeLog
  <2>4. /\ stored' = stored \cup written /\ written \subseteq Notice /\ written \cap stored = {}
        /\ written \in SUBSET Nat /\ none \in SUBSET Nat
    BY <1>15, <2>1
  <2>5. w = "loader" =>
            \A m \in 1 .. noticeLog.before :
                \/ IsNews(m) \/ m \in stored \/ m \in none \cup written \/ m \in Range(st.rows)
                \/ st.step \in {"page", "look"} /\ FurtherOn(m, st.page)
    BY <1>11, <2>2
  <2> HIDE DEF written, none
  <2> QED
    BY <1>1, <1>4, <1>9, <1>12, <1>13, <2>3, <2>4, <2>5, FailsAlike DEF at
<1> QED
  BY <1>1, <1>14, <1>15

(* A panic ends the loader, whatever it had still to do.                   *)
LEMMA LoaderPanicsKeeps ==
  ASSUME NoticeInv, LoaderPanics
  PROVE  NoticeInv'
<1> DEFINE st == At("ready")
           skipped == 1 .. published
           written == {}
<1>1. /\ worker["loader"].step \in {"page", "look", "create"} /\ Use("fault")
      /\ Becomes("loader", st)
      /\ noticeLog' = [noticeLog EXCEPT !.missed = @ \cup skipped]
      /\ UNCHANGED <<published, stored, looking, adjusted, pushes>>
  BY DEF LoaderPanics, LoaderEnds
<1>2. "loader" \in Worker /\ published \in Nat
  BY WorkerFacts DEF Worker
<1>2a. noticeLog.before \in Nat /\ noticeLog.before <= published
  BY <1>2, WorkerFacts
<1>2b. worker["loader"].step # "done" /\ "ready" \in LoaderSteps
  BY <1>1 DEF LoaderSteps
<1>3. /\ st \in State /\ st.step = "ready" /\ st.page = 1 /\ st.pages = 1 /\ st.rows = <<>>
      /\ Range(<<>>) = {}
  <2>1. "ready" \in LoaderSteps \cup SyncSteps
    BY DEF LoaderSteps
  <2> QED
    BY <2>1, AtFacts
<1> HIDE DEF st
<1>4. InOrder("loader", st)
  <2>1. st.page <= st.pages + 1 /\ Range(st.rows) \subseteq 1 .. published
    BY <1>3
  <2> QED
    BY <1>2b, <1>3, <2>1 DEF InOrder
<1>5. /\ noticeLeft' \in [{"old", "publish", "fault", "full", "restart"} -> Nat]
      /\ noticeLog \in NoticeLog
  BY <1>1, TableFacts DEF Use
<1>6. skipped \in SUBSET Nat /\ \A m \in 1 .. noticeLog.before : m \in skipped
  BY <1>2, <1>2a
<1> HIDE DEF skipped
<1>7. /\ noticeLog' \in NoticeLog /\ noticeLog'.before = noticeLog.before
      /\ noticeLog'.missed = noticeLog.missed \cup skipped
      /\ noticeLog'.lost = noticeLog.lost \cup written
      /\ noticeLog'.futile = noticeLog.futile \cup written
      /\ noticeLog'.loaded = noticeLog.loaded
  BY <1>1, <1>5, <1>6 DEF NoticeLog
<1>8. /\ stored' = stored \cup written /\ written \subseteq Notice /\ written \cap stored = {}
      /\ written \in SUBSET Nat
  BY <1>1
<1>9. worker["loader"].step # "push" /\ st.step \in {"page", "look", "ready", "resting"}
  BY <1>1, <1>3
<1> HIDE DEF written
<1> QED
  BY <1>1, <1>2, <1>2a, <1>3, <1>4, <1>5, <1>6, <1>7, <1>8, <1>9, FailsAlike

LEMMA NoticeReadyKeeps ==
  ASSUME NoticeInv, NoticeReady
  PROVE  NoticeInv'
<1>1. /\ worker["loader"].step = "ready" /\ worker["sync"].step = "not added"
      /\ worker' = [w \in Worker |-> At(IF w = "loader" THEN "done" ELSE "resting")]
      /\ UNCHANGED <<published, stored, looking, adjusted, pushes, noticeLeft, noticeLog>>
  BY DEF NoticeReady
<1>2. /\ "done" \in LoaderSteps \cup SyncSteps /\ "resting" \in LoaderSteps \cup SyncSteps
      /\ "loader" \in Worker /\ "sync" \in Worker
  BY DEF LoaderSteps, SyncSteps, Worker
<1>3. \A step \in {"done", "resting"} :
        /\ At(step) \in State /\ At(step).step = step /\ At(step).page = 1 /\ At(step).pages = 1
        /\ At(step).rows = <<>> /\ Range(<<>>) = {}
  BY <1>2, AtFacts
<1>4. /\ worker' \in [Worker -> State]
      /\ worker'["loader"].step = "done" /\ worker'["sync"].step = "resting"
      /\ \A v \in Worker :
           /\ worker'[v].page = 1 /\ worker'[v].pages = 1 /\ worker'[v].rows = <<>>
           /\ Range(worker'[v].rows) = {} /\ worker'[v].step \in {"done", "resting"}
  <2> HIDE DEF At
  <2> QED
    BY <1>1, <1>2, <1>3 DEF Worker
<1>5. /\ published \in 0 .. Notices /\ stored \subseteq Notice /\ looking \subseteq stored
      /\ adjusted \in [Notice -> Nat] /\ pushes \in [Notice -> Nat]
      /\ noticeLeft \in [{"old", "publish", "fault", "full", "restart"} -> Nat]
      /\ noticeLog \in NoticeLog
  BY TableFacts
<1>6. noticeLog.before <= published
  BY <1>2, WorkerFacts
<1>7. NoticeTypeInv'
  BY <1>1, <1>4, <1>5, <1>6 DEF NoticeTypeInv, State, LoaderSteps, SyncSteps
<1>8. OneWorks' /\ CreatesNew' /\ LoaderHasPages' /\ SyncRowsNew' /\ PushesNews'
  BY <1>4 DEF OneWorks, CreatesNew, LoaderHasPages, SyncRowsNew, PushesNews, Worker
<1>9. LoaderComes'
  <2>1. worker["loader"].rows = <<>>
    BY <1>1, <1>2, WorkerFacts
  <2>2. \A n \in 1 .. noticeLog.before : IsNews(n) \/ n \in stored \/ FurtherOn(n, 2)
    BY <1>1, <1>3, <2>1 DEF NoticeInv, LoaderComes
  <2> QED
    BY <1>1, <1>4, <2>2 DEF LoaderComes, IsNews, FurtherOn
<1>10. FirstStored' /\ LookedOnce' /\ StoredAccounted'
  BY <1>1 DEF NoticeInv, FirstStored, LookedOnce, StoredAccounted
<1>11. \A v \in Worker :
         /\ worker'[v].step \in {"begin", "page", "look", "create", "push", "ready", "done",
                                 "not added", "resting"}
         /\ Range(worker'[v].rows) \subseteq 1 .. published'
         /\ worker'[v].page <= worker'[v].pages + 1
  <2> SUFFICES ASSUME NEW v \in Worker
               PROVE  /\ worker'[v].step \in {"begin", "page", "look", "create", "push", "ready", "done",
                                              "not added", "resting"}
                      /\ Range(worker'[v].rows) \subseteq 1 .. published'
                      /\ worker'[v].page <= worker'[v].pages + 1
    OBVIOUS
  <2>1. worker'[v].page = 1 /\ worker'[v].pages = 1
    BY <1>4
  <2>2. worker'[v].page <= worker'[v].pages + 1
    BY <2>1
  <2>3. Range(worker'[v].rows) = {} /\ worker'[v].step \in {"done", "resting"}
    BY <1>4
  <2> QED
    BY <2>2, <2>3
<1> QED
  BY <1>1, <1>5, <1>7, <1>8, <1>9, <1>10, <1>11, NoticeInvParts

LEMMA ProcessKeeps ==
  ASSUME NoticeInv, NEW n \in Notice, ProcessAutoAdjustCourseNotice(n)
  PROVE  NoticeInv'
<1>1. /\ n \in looking /\ looking' = looking \ {n}
      /\ UNCHANGED <<published, stored, worker, pushes>>
  BY DEF ProcessAutoAdjustCourseNotice
<1>2. /\ published \in 0 .. Notices /\ stored \subseteq Notice /\ looking \subseteq stored
      /\ adjusted \in [Notice -> Nat] /\ pushes \in [Notice -> Nat]
      /\ noticeLeft \in [{"old", "publish", "fault", "full", "restart"} -> Nat]
      /\ noticeLog \in NoticeLog
      /\ \A m \in Notice \ stored : pushes[m] = 0 /\ adjusted[m] = 0
      /\ \A m \in looking : adjusted[m] = 0
  BY TableFacts
<1>3. n \in Nat
  BY NoticeConstants
<1>4. /\ noticeLeft' \in [{"old", "publish", "fault", "full", "restart"} -> Nat]
      /\ noticeLog' \in NoticeLog /\ noticeLog'.before = noticeLog.before
      /\ noticeLog'.missed = noticeLog.missed /\ noticeLog'.loaded = noticeLog.loaded
      /\ noticeLog'.lost = noticeLog.lost /\ noticeLog.futile \subseteq noticeLog'.futile
      /\ adjusted' \in [Notice -> Nat] /\ \A m \in Notice \ {n} : adjusted'[m] = adjusted[m]
      /\ n \in AboutDays => adjusted'[n] = 1 \/ (adjusted'[n] = 0 /\ n \in noticeLog'.futile)
  <2>1. CASE /\ adjusted' = [adjusted EXCEPT ![n] = @ + (IF n \in AboutDays THEN 1 ELSE 0)]
             /\ UNCHANGED <<noticeLeft, noticeLog>>
    BY <1>1, <1>2, <2>1
  <2>2a. CASE /\ n \in AboutDays /\ UNCHANGED <<noticeLeft, adjusted>>
             /\ noticeLog' = [noticeLog EXCEPT !.futile = @ \cup {n}]
    <3>1. /\ noticeLog' \in NoticeLog /\ noticeLog'.before = noticeLog.before
          /\ noticeLog'.missed = noticeLog.missed /\ noticeLog'.loaded = noticeLog.loaded
          /\ noticeLog'.lost = noticeLog.lost /\ noticeLog'.futile = noticeLog.futile \cup {n}
      BY <1>2, <1>3, <2>2a DEF NoticeLog
    <3> QED
      BY <1>1, <1>2, <2>2a, <3>1
  <2>2. CASE /\ Use("fault")
             /\ noticeLog' = [noticeLog EXCEPT !.futile = @ \cup {n}]
             /\ adjusted' \in {adjusted, [adjusted EXCEPT ![n] = @ + 1]}
    <3>1. noticeLeft' \in [{"old", "publish", "fault", "full", "restart"} -> Nat]
      BY <1>2, <2>2 DEF Use
    <3>2. /\ noticeLog' \in NoticeLog /\ noticeLog'.before = noticeLog.before
          /\ noticeLog'.missed = noticeLog.missed /\ noticeLog'.loaded = noticeLog.loaded
          /\ noticeLog'.lost = noticeLog.lost /\ noticeLog'.futile = noticeLog.futile \cup {n}
      BY <1>2, <1>3, <2>2 DEF NoticeLog
    <3>3. /\ adjusted' \in [Notice -> Nat] /\ \A m \in Notice \ {n} : adjusted'[m] = adjusted[m]
          /\ adjusted'[n] \in {0, 1}
      BY <1>1, <1>2, <2>2
    <3> QED
      BY <3>1, <3>2, <3>3
  <2> QED
    BY <2>1, <2>2, <2>2a DEF ProcessAutoAdjustCourseNotice, DaysCreated
<1>5. NoticeTypeInv' /\ OneWorks' /\ CreatesNew' /\ LoaderHasPages'
  BY <1>1, <1>4 DEF NoticeInv, NoticeTypeInv, OneWorks, CreatesNew, LoaderHasPages, Row
<1>6. \A m : IsNews(m)' <=> IsNews(m)
  BY <1>4 DEF IsNews
<1>7. LoaderComes' /\ SyncRowsNew' /\ PushesNews'
  <2>1. Row("sync")' = Row("sync")
    BY <1>1 DEF Row
  <2> QED
    BY <1>1, <1>4, <1>6, <2>1 DEF NoticeInv, LoaderComes, SyncRowsNew, PushesNews, FurtherOn
<1>8. FirstStored' /\ LookedOnce'
  BY <1>1, <1>2, <1>4 DEF FirstStored, LookedOnce
<1>9. StoredAccounted'
  <2> SUFFICES ASSUME NEW m \in stored
               PROVE  /\ pushes[m] = 0 =>
                            \/ m \in noticeLog'.loaded \cup noticeLog'.lost
                            \/ worker["sync"].step = "push" /\ Row("sync") = m
                      /\ m \in AboutDays =>
                            \/ adjusted'[m] = 1
                            \/ adjusted'[m] = 0 /\ m \in looking' \cup noticeLog'.futile
    BY <1>1 DEF StoredAccounted, Row
  <2> QED
    BY <1>1, <1>2, <1>4 DEF NoticeInv, StoredAccounted
<1>10. \A v \in Worker :
         /\ worker'[v].step \in {"begin", "page", "look", "create", "push", "ready", "done",
                                 "not added", "resting"}
         /\ Range(worker'[v].rows) \subseteq 1 .. published'
         /\ worker'[v].page <= worker'[v].pages + 1
  <2>1. worker' = worker /\ published' = published
    BY <1>1
  <2> QED
    BY <2>1 DEF NoticeInv, NoticeTypeOK
<1> QED
  BY <1>1, <1>2, <1>4, <1>5, <1>7, <1>8, <1>9, <1>10, NoticeInvParts

(* A new notice moves the others to later pages.                           *)
LEMMA PublishKeeps ==
  ASSUME NoticeInv, Publish
  PROVE  NoticeInv'
<1>1. /\ published < Notices /\ published' = published + 1 /\ Use("publish")
      /\ UNCHANGED <<stored, worker, looking, adjusted, pushes, noticeLog>>
  BY DEF Publish
<1>2. /\ published \in 0 .. Notices /\ stored \subseteq Notice /\ looking \subseteq stored
      /\ adjusted \in [Notice -> Nat] /\ pushes \in [Notice -> Nat]
      /\ noticeLeft \in [{"old", "publish", "fault", "full", "restart"} -> Nat]
      /\ noticeLog \in NoticeLog
  BY TableFacts
<1>3. noticeLeft' \in [{"old", "publish", "fault", "full", "restart"} -> Nat]
  BY <1>1, <1>2 DEF Use
<1>4. /\ "loader" \in Worker
      /\ noticeLog.before \in Nat /\ noticeLog.before <= published /\ published \in Nat
      /\ worker["loader"] \in State
  BY WorkerFacts DEF Worker
<1>5. published' \in 0 .. Notices /\ noticeLog.before <= published'
  BY <1>1, <1>2, <1>4, NoticeConstants
<1>6. NoticeTypeInv' /\ OneWorks' /\ CreatesNew' /\ LoaderHasPages'
  BY <1>1, <1>3, <1>5 DEF NoticeInv, NoticeTypeInv, OneWorks, CreatesNew, LoaderHasPages, Row
<1>7. \A m : IsNews(m)' <=> IsNews(m)
  BY <1>1 DEF IsNews
<1>8. \A m, page \in Nat : FurtherOn(m, page) => FurtherOn(m, page)'
  <2> SUFFICES ASSUME NEW m \in Nat, NEW page \in Nat, FurtherOn(m, page) PROVE FurtherOn(m, page)'
    OBVIOUS
  <2> DEFINE before == (page - 1) * PageLength
  <2>1. before \in Int
    BY NoticeConstants
  <2>2. m + before <= published
    BY DEF FurtherOn
  <2> HIDE DEF before
  <2>3. m + before <= published'
    BY <1>1, <1>4, <2>1, <2>2
  <2> QED
    BY <2>3 DEF FurtherOn, before
<1>9. LoaderComes'
  <2> SUFFICES ASSUME NEW m \in 1 .. noticeLog.before
               PROVE  \/ IsNews(m) \/ m \in stored \/ m \in Range(worker["loader"].rows)
                      \/ worker["loader"].step \in {"begin", "page", "look", "create"} /\ FurtherOn(m, worker["loader"].page)'
                      \/ worker["loader"].step \in {"ready", "done"} /\ FurtherOn(m, 2)'
    BY <1>1, <1>7 DEF LoaderComes
  <2>1. /\ FurtherOn(m, worker["loader"].page) => FurtherOn(m, worker["loader"].page)'
        /\ FurtherOn(m, 2) => FurtherOn(m, 2)'
    <3>1. PICK page \in Nat : page = worker["loader"].page
      BY <1>4 DEF State
    <3>2. m \in Nat
      BY <1>4
    <3>3. FurtherOn(m, page) => FurtherOn(m, page)'
      BY <1>8, <3>2
    <3>4. FurtherOn(m, 2) => FurtherOn(m, 2)'
      BY <1>8, <3>2
    <3> QED
      BY <1>1, <3>1, <3>3, <3>4
  <2> QED
    BY <2>1 DEF NoticeInv, LoaderComes
<1>10. SyncRowsNew' /\ PushesNews'
  <2>1. Row("sync")' = Row("sync")
    BY <1>1 DEF Row
  <2> QED
    BY <1>1, <1>7, <2>1 DEF NoticeInv, SyncRowsNew, PushesNews
<1>11. FirstStored' /\ LookedOnce' /\ StoredAccounted'
  BY <1>1 DEF NoticeInv, FirstStored, LookedOnce, StoredAccounted, Row
<1>12. \A v \in Worker :
         /\ worker'[v].step \in {"begin", "page", "look", "create", "push", "ready", "done",
                                 "not added", "resting"}
         /\ Range(worker'[v].rows) \subseteq 1 .. published'
         /\ worker'[v].page <= worker'[v].pages + 1
  <2>1. 1 .. published \subseteq 1 .. published'
    BY <1>1, <1>4
  <2> QED
    BY <1>1, <2>1 DEF NoticeInv, NoticeTypeOK
<1> QED
  BY <1>1, <1>2, <1>5, <1>6, <1>9, <1>10, <1>11, <1>12, NoticeInvParts

(* What both workers are when the process starts.                          *)
LEMMA FirstSteps ==
  ASSUME NEW start, start = [w \in Worker |-> At(FirstStep(w))]
  PROVE  /\ start \in [Worker -> State]
         /\ start["loader"].step = "begin" /\ start["loader"].page = 1 /\ start["sync"].step = "not added"
         /\ \A v \in Worker :
              /\ start[v].page = 1 /\ start[v].pages = 1 /\ start[v].rows = <<>>
              /\ Range(start[v].rows) = {} /\ start[v].step \in {"begin", "not added"}
<1>1. /\ "begin" \in LoaderSteps \cup SyncSteps /\ "not added" \in LoaderSteps \cup SyncSteps
      /\ "loader" \in Worker /\ "sync" \in Worker
  BY DEF LoaderSteps, SyncSteps, Worker
<1>2. \A step \in {"begin", "not added"} :
        /\ At(step) \in State /\ At(step).step = step /\ At(step).page = 1 /\ At(step).pages = 1
        /\ At(step).rows = <<>> /\ Range(<<>>) = {}
  BY <1>1, AtFacts
<1>3. FirstStep("loader") = "begin" /\ FirstStep("sync") = "not added"
  BY DEF FirstStep
<1> HIDE DEF At
<1> QED
  BY <1>1, <1>2, <1>3 DEF Worker

(* The start is in order, whatever is on the site and in the table, and    *)
(* nothing is missed.                                                      *)
LEMMA StartsInOrder ==
  ASSUME worker' = [w \in Worker |-> At(FirstStep(w))],
         noticeLeft' \in [{"old", "publish", "fault", "full", "restart"} -> Nat],
         noticeLog' \in NoticeLog, published' \in Nat, noticeLog'.before = published'
  PROVE  /\ NoticeTypeInv' /\ OneWorks' /\ CreatesNew' /\ LoaderComes' /\ LoaderHasPages' /\ SyncRowsNew'
         /\ PushesNews'
         /\ \A v \in Worker :
              /\ worker'[v].step \in {"begin", "page", "look", "create", "push", "ready", "done",
                                      "not added", "resting"}
              /\ Range(worker'[v].rows) \subseteq 1 .. published'
              /\ worker'[v].page <= worker'[v].pages + 1
<1>1. /\ worker' \in [Worker -> State]
      /\ worker'["loader"].step = "begin" /\ worker'["loader"].page = 1 /\ worker'["sync"].step = "not added"
      /\ \A v \in Worker :
           /\ worker'[v].page = 1 /\ worker'[v].pages = 1 /\ worker'[v].rows = <<>>
           /\ Range(worker'[v].rows) = {} /\ worker'[v].step \in {"begin", "not added"}
  BY FirstSteps
<1>2. NoticeTypeInv'
  <2>1. noticeLog'.before <= published'
    OBVIOUS
  <2> QED
    BY <1>1, <2>1 DEF NoticeTypeInv, State, LoaderSteps, SyncSteps
<1>3. OneWorks' /\ CreatesNew' /\ LoaderHasPages' /\ SyncRowsNew' /\ PushesNews'
  BY <1>1 DEF OneWorks, CreatesNew, LoaderHasPages, SyncRowsNew, PushesNews, Worker
<1>4. LoaderComes'
  <2>1. \A n \in 1 .. published' : FurtherOn(n, 1)'
    <3>1. (1 - 1) * PageLength = 0
      BY NoticeConstants
    <3> QED
      BY <3>1 DEF FurtherOn
  <2> QED
    BY <1>1, <2>1 DEF LoaderComes, FurtherOn
<1>5. \A v \in Worker :
        /\ worker'[v].step \in {"begin", "page", "look", "create", "push", "ready", "done",
                                "not added", "resting"}
        /\ Range(worker'[v].rows) \subseteq 1 .. published'
        /\ worker'[v].page <= worker'[v].pages + 1
  <2> SUFFICES ASSUME NEW v \in Worker
               PROVE  /\ worker'[v].step \in {"begin", "page", "look", "create", "push", "ready", "done",
                                              "not added", "resting"}
                      /\ Range(worker'[v].rows) \subseteq 1 .. published'
                      /\ worker'[v].page <= worker'[v].pages + 1
    OBVIOUS
  <2>1. worker'[v].page = 1 /\ worker'[v].pages = 1
    BY <1>1
  <2>2. worker'[v].page <= worker'[v].pages + 1
    BY <2>1
  <2>3. Range(worker'[v].rows) = {} /\ worker'[v].step \in {"begin", "not added"}
    BY <1>1
  <2> QED
    BY <2>2, <2>3
<1> QED
  BY <1>2, <1>3, <1>4, <1>5

LEMMA CommonRestartsKeeps ==
  ASSUME NoticeInv, CommonRestarts
  PROVE  NoticeInv'
<1> DEFINE dropped == IF worker["sync"].step = "push" THEN {Row("sync")} ELSE {}
<1>1. /\ worker' = [w \in Worker |-> At(FirstStep(w))] /\ looking' = {} /\ Use("restart")
      /\ noticeLog' = [noticeLog EXCEPT !.before = published, !.missed = {},
                          !.futile = @ \cup looking, !.lost = @ \cup dropped]
      /\ UNCHANGED <<published, stored, adjusted, pushes>>
  BY DEF CommonRestarts
<1>2. /\ published \in 0 .. Notices /\ stored \subseteq Notice /\ looking \subseteq stored
      /\ adjusted \in [Notice -> Nat] /\ pushes \in [Notice -> Nat]
      /\ noticeLeft \in [{"old", "publish", "fault", "full", "restart"} -> Nat]
      /\ noticeLog \in NoticeLog
  BY TableFacts
<1>3. noticeLeft' \in [{"old", "publish", "fault", "full", "restart"} -> Nat]
  BY <1>1, <1>2 DEF Use
<1>4. published \in Nat /\ dropped \subseteq Notice /\ Notice \subseteq Nat
  <2>1. worker["sync"].step = "push" => Row("sync") \in stored
    BY DEF NoticeInv, PushesNews
  <2>2. dropped \subseteq Notice
    BY <1>2, <2>1
  <2>3. published \in Nat
    BY <1>2, NoticeConstants
  <2> HIDE DEF dropped
  <2> QED
    BY <2>2, <2>3, NoticeConstants
<1>5. /\ noticeLog' \in NoticeLog /\ noticeLog'.before = published
      /\ noticeLog'.loaded = noticeLog.loaded /\ noticeLog'.lost = noticeLog.lost \cup dropped
      /\ noticeLog'.futile = noticeLog.futile \cup looking
  <2> DEFINE none == {}
  <2>1. noticeLog' = [noticeLog EXCEPT !.before = published, !.missed = none,
                          !.futile = @ \cup looking, !.lost = @ \cup dropped]
    BY <1>1
  <2>2. none \in SUBSET Nat /\ dropped \in SUBSET Nat /\ looking \in SUBSET Nat
    BY <1>2, <1>4
  <2> HIDE DEF none, dropped
  <2> QED
    BY <1>2, <1>4, <2>1, <2>2 DEF NoticeLog
<1>6. /\ NoticeTypeInv' /\ OneWorks' /\ CreatesNew' /\ LoaderComes' /\ LoaderHasPages' /\ SyncRowsNew'
      /\ PushesNews'
      /\ \A v \in Worker :
           /\ worker'[v].step \in {"begin", "page", "look", "create", "push", "ready", "done",
                                   "not added", "resting"}
           /\ Range(worker'[v].rows) \subseteq 1 .. published'
           /\ worker'[v].page <= worker'[v].pages + 1
  BY <1>1, <1>3, <1>4, <1>5, StartsInOrder
<1>7. FirstStored' /\ LookedOnce'
  BY <1>1 DEF NoticeInv, FirstStored, LookedOnce
<1>8. StoredAccounted'
  <2>1. \A n \in stored : pushes[n] = 0 => n \in noticeLog'.loaded \cup noticeLog'.lost
    BY <1>5 DEF NoticeInv, StoredAccounted
  <2>2. \A n \in stored : n \in AboutDays =>
           \/ adjusted[n] = 1
           \/ adjusted[n] = 0 /\ n \in noticeLog'.futile
    BY <1>5 DEF NoticeInv, StoredAccounted
  <2> QED
    BY <1>1, <2>1, <2>2 DEF StoredAccounted
<1>9. published' \in 0 .. Notices /\ stored' \subseteq Notice /\ looking' \subseteq stored'
  BY <1>1, <1>2
<1> QED
  BY <1>1, <1>2, <1>6, <1>7, <1>8, <1>9, NoticeInvParts

LEMMA NoticeInvInit == NoticeInit => NoticeInv
<1> SUFFICES ASSUME NoticeInit PROVE NoticeInv
  OBVIOUS
<1>1. /\ worker = [w \in Worker |-> At(FirstStep(w))]
      /\ stored = {} /\ looking = {} /\ noticeLeft \in NoticeBudgets /\ published = noticeLeft["old"]
      /\ adjusted = [n \in Notice |-> 0] /\ pushes = [n \in Notice |-> 0]
      /\ noticeLog = [before |-> published, loaded |-> {}, lost |-> {}, missed |-> {}, futile |-> {}]
  BY DEF NoticeInit
<1>2. /\ worker \in [Worker -> State]
      /\ worker["loader"].step = "begin" /\ worker["loader"].page = 1 /\ worker["sync"].step = "not added"
      /\ \A v \in Worker :
           /\ worker[v].page = 1 /\ worker[v].pages = 1 /\ worker[v].rows = <<>>
           /\ Range(worker[v].rows) = {} /\ worker[v].step \in {"begin", "not added"}
  BY <1>1, FirstSteps
<1>3. /\ noticeLeft \in [{"old", "publish", "fault", "full", "restart"} -> Nat]
      /\ published \in 0 .. Notices /\ published \in Nat
  <2>1. /\ noticeLeft \in [{"old", "publish", "fault", "full", "restart"} -> Nat]
        /\ noticeLeft["old"] <= Notices
    BY <1>1, NoticeAssumption DEF NoticeAssumption
  <2>2. noticeLeft["old"] \in Nat
    BY <2>1
  <2> QED
    BY <1>1, <2>1, <2>2, NoticeConstants
<1>4. noticeLog \in NoticeLog /\ noticeLog.before = published /\ noticeLog.before <= published
  BY <1>1, <1>3 DEF NoticeLog
<1>5. NoticeTypeInv
  BY <1>2, <1>3, <1>4 DEF NoticeTypeInv, State, LoaderSteps, SyncSteps
<1>6. OneWorks /\ CreatesNew /\ LoaderHasPages /\ SyncRowsNew /\ PushesNews
  BY <1>2 DEF OneWorks, CreatesNew, LoaderHasPages, SyncRowsNew, PushesNews, Worker
<1>7. LoaderComes
  <2>1. \A n \in 1 .. published : FurtherOn(n, 1)
    <3>1. (1 - 1) * PageLength = 0
      BY NoticeConstants
    <3> QED
      BY <1>3, <3>1 DEF FurtherOn
  <2> QED
    BY <1>2, <1>4, <2>1 DEF LoaderComes
<1>8. FirstStored /\ LookedOnce /\ StoredAccounted
  BY <1>1 DEF FirstStored, LookedOnce, StoredAccounted
<1>9. NoticeTypeOK
  <2>1. ASSUME NEW v \in Worker
        PROVE  /\ worker[v].step \in {"begin", "page", "look", "create", "push", "ready", "done",
                                      "not added", "resting"}
               /\ Range(worker[v].rows) \subseteq 1 .. published
               /\ worker[v].page <= worker[v].pages + 1
    <3>1. worker[v].page = 1 /\ worker[v].pages = 1
      BY <1>2
    <3>2. worker[v].page <= worker[v].pages + 1
      BY <3>1
    <3>3. Range(worker[v].rows) = {} /\ worker[v].step \in {"begin", "not added"}
      BY <1>2
    <3> QED
      BY <3>2, <3>3
  <2> QED
    BY <1>1, <1>3, <2>1 DEF NoticeTypeOK
<1> QED
  BY <1>5, <1>6, <1>7, <1>8, <1>9 DEF NoticeInv

LEMMA NoticeInvStep ==
  ASSUME NoticeInv, [NoticeNext]_noticeVars
  PROVE  NoticeInv'
<1>1. CASE LoadBegins
  BY <1>1, LoadBeginsKeeps
<1>2. CASE LoadPage
  BY <1>2, LoadPageKeeps
<1>3. CASE SyncNoticeTask
  BY <1>3, SyncNoticeTaskKeeps
<1>4. CASE PushNotice
  BY <1>4, PushNoticeKeeps
<1>5. CASE NoticeReady
  BY <1>5, NoticeReadyKeeps
<1>6. ASSUME NEW w \in Worker, EndOfPage(w) \/ IsNoticeExists(w) \/ CreateNotice(w) \/ WorkerFails(w)
      PROVE  NoticeInv'
  BY <1>6, EndOfPageKeeps, IsNoticeExistsKeeps, CreateNoticeKeeps, WorkerFailsKeeps
<1>7. ASSUME NEW n \in Notice, ProcessAutoAdjustCourseNotice(n) PROVE NoticeInv'
  BY <1>7, ProcessKeeps
<1>8. CASE Publish
  BY <1>8, PublishKeeps
<1>9. CASE CommonRestarts
  BY <1>9, CommonRestartsKeeps
<1>11. CASE LoaderPanics
  BY <1>11, LoaderPanicsKeeps
<1>10. CASE UNCHANGED noticeVars
  BY <1>10 DEF noticeVars, NoticeInv, NoticeTypeOK, NoticeTypeInv, OneWorks, FirstStored, LookedOnce,
               CreatesNew, PushesNews, LoaderComes, LoaderHasPages, SyncRowsNew, StoredAccounted,
               Row, IsNews, FurtherOn
<1> QED
  BY <1>1, <1>2, <1>3, <1>4, <1>5, <1>6, <1>7, <1>8, <1>9, <1>10, <1>11 DEF NoticeNext, NoticeStep

LEMMA NoticeInvHolds == NoticeSpec => []NoticeInv
<1> QED
  BY NoticeInvInit, NoticeInvStep, PTL DEF NoticeSpec

(* The table, the workers and the counts have their types.                 *)
THEOREM NoticesTypeCorrect == NoticeSpec => []NoticeTypeOK
<1>1. NoticeInv => NoticeTypeOK
  BY DEF NoticeInv
<1> QED
  BY <1>1, NoticeInvHolds, PTL

(* However the loader and the periodic sync interleave, whatever fails and *)
(* whenever the process dies: a stored notice that was not pushed was      *)
(* stored by the loader, is about to be pushed or lost its push; one about *)
(* adjusted days had them created once, or is being looked through, or is  *)
(* one of which none came: it has none, or the looking through failed      *)
(* (cmd/common/main.go, process_auto_adjust_course_notice.go).             *)
THEOREM NoStoredNoticeForgotten == NoticeSpec => []StoredAccounted
<1>1. NoticeInv => StoredAccounted
  BY DEF NoticeInv
<1> QED
  BY <1>1, NoticeInvHolds, PTL

(* A notice is pushed at most once, over restarts and retries too, and     *)
(* only one published after the process started or that the loader missed  *)
(* through an error (the log's before and missed).                         *)
THEOREM OnlyNewsPushed == NoticeSpec => PushedIsNews
<1>1. ASSUME NoticeInv, [NoticeNext]_noticeVars
      PROVE  [\A n \in Notice :
                pushes'[n] # pushes[n] =>
                   /\ pushes[n] = 0 /\ pushes'[n] = 1
                   /\ n > noticeLog.before \/ n \in noticeLog.missed]_noticeVars
  <2> SUFFICES ASSUME NEW n \in Notice, pushes'[n] # pushes[n]
               PROVE  /\ pushes[n] = 0 /\ pushes'[n] = 1
                      /\ n > noticeLog.before \/ n \in noticeLog.missed
    OBVIOUS
  <2>1. PushNotice
    BY <1>1 DEF NoticeNext, NoticeStep, noticeVars, LoadBegins, LoadPage, SyncNoticeTask, NoticeReady,
                EndOfPage, IsNoticeExists, CreateNotice, ProcessAutoAdjustCourseNotice, WorkerFails,
                LoaderPanics, Publish, CommonRestarts
  <2>2. pushes' = [pushes EXCEPT ![Row("sync")] = @ + 1]
    BY <2>1 DEF PushNotice
  <2>3. pushes \in [Notice -> Nat]
    BY <1>1, TableFacts
  <2>4. n = Row("sync")
    BY <2>2, <2>3
  <2>5. pushes[n] = 0 /\ IsNews(n)
    BY <1>1, <2>1, <2>4 DEF NoticeInv, PushesNews, PushNotice
  <2> QED
    BY <2>2, <2>3, <2>4, <2>5 DEF IsNews
<1> QED
  BY <1>1, NoticeInvHolds, PTL DEF NoticeSpec, PushedIsNews

(* Notices are delivered as Delivery says, twice over: the push by the     *)
(* periodic task, the days by the goroutine, both on the one insert of the *)
(* row.  That an insert takes on what nobody has taken on is CreatesNew,   *)
(* that a push is the first one is PushesNews.  Of the days it is needed   *)
(* besides that what came to nothing is not still being looked through.    *)
FutileInv == noticeLog.futile \subseteq stored /\ noticeLog.futile \cap looking = {}

(* How the log grows: one of its sets by one of the notices                *)
LEMMA LogGrows ==
  ASSUME noticeLog \in NoticeLog, NEW items \in SUBSET Nat
  PROVE  /\ LET new == [noticeLog EXCEPT !.loaded = @ \cup items] IN
              /\ new.loaded = noticeLog.loaded \cup items
              /\ new.lost = noticeLog.lost /\ new.futile = noticeLog.futile
         /\ LET new == [noticeLog EXCEPT !.lost = @ \cup items] IN
              /\ new.lost = noticeLog.lost \cup items
              /\ new.loaded = noticeLog.loaded /\ new.futile = noticeLog.futile
         /\ LET new == [noticeLog EXCEPT !.futile = @ \cup items] IN
              /\ new.futile = noticeLog.futile \cup items
              /\ new.loaded = noticeLog.loaded /\ new.lost = noticeLog.lost
         /\ LET new == [noticeLog EXCEPT !.missed = @ \cup items] IN
              /\ new.futile = noticeLog.futile
              /\ new.loaded = noticeLog.loaded /\ new.lost = noticeLog.lost
         /\ LET new == [noticeLog EXCEPT !.lost = @ \cup items, !.futile = @ \cup items] IN
              /\ new.futile = noticeLog.futile \cup items
              /\ new.loaded = noticeLog.loaded /\ new.lost = noticeLog.lost \cup items
  BY DEF NoticeLog

(* A move of a worker that neither comes to a push nor leaves one          *)
LEMMA NoPushMoves ==
  ASSUME NoticeInv, NEW w \in Worker, NEW st, Becomes(w, st), UNCHANGED published,
         w = "sync" => worker["sync"].step # "push" /\ st.step # "push"
  PROVE  AboutToPush' = AboutToPush
<1>1. worker' = [worker EXCEPT ![w] = st] /\ DOMAIN worker = Worker /\ "sync" \in Worker
  BY DEF Becomes, NoticeInv, NoticeTypeInv, Worker
<1>2. CASE w = "sync"
  <2>1. worker'["sync"].step # "push"
    BY <1>1, <1>2
  <2> QED
    BY <1>2, <2>1 DEF AboutToPush
<1>3. CASE w # "sync"
  <2>1. worker'["sync"] = worker["sync"]
    BY <1>1, <1>3
  <2> QED
    BY <2>1 DEF AboutToPush, Row
<1> QED
  BY <1>2, <1>3

(* Steps that neither store, push, look through nor log a loss             *)
LEMMA OutboxesUntouched ==
  ASSUME UNCHANGED <<stored, looking, adjusted, pushes>>, AboutToPush' = AboutToPush,
         noticeLog'.loaded = noticeLog.loaded, noticeLog'.lost = noticeLog.lost,
         noticeLog'.futile = noticeLog.futile
  PROVE  UNCHANGED PushOutbox!vars /\ UNCHANGED DaysOutbox!vars
  BY DEF PushOutbox!vars, DaysOutbox!vars

LEMMA StepsByName ==
  /\ "look" \in LoaderSteps \cup SyncSteps /\ "resting" \in LoaderSteps \cup SyncSteps
  /\ "create" \in LoaderSteps \cup SyncSteps /\ "page" \in LoaderSteps \cup SyncSteps
  /\ "push" \in LoaderSteps \cup SyncSteps
  /\ "sync" \in Worker /\ "loader" \in Worker
  BY DEF LoaderSteps, SyncSteps, Worker

LEMMA WalkIsNoDelivery ==
  ASSUME NoticeInv,
         \/ LoadBegins \/ LoadPage \/ SyncNoticeTask \/ NoticeReady \/ Publish
         \/ \E w \in Worker : EndOfPage(w) \/ IsNoticeExists(w)
  PROVE  /\ UNCHANGED PushOutbox!vars /\ UNCHANGED DaysOutbox!vars
         /\ UNCHANGED <<stored, looking, noticeLog>>
<1>1. /\ UNCHANGED <<stored, looking, adjusted, pushes, noticeLog>>
      /\ AboutToPush' = AboutToPush
  <2>1. ASSUME LoadBegins PROVE <1>1
    BY <2>1, StepsByName, NoPushMoves DEF LoadBegins
  <2>2. ASSUME LoadPage PROVE <1>1
    BY <2>2, StepsByName, NoPushMoves DEF LoadPage
  <2>3. ASSUME SyncNoticeTask PROVE <1>1
    <3> DEFINE st == [At("look") EXCEPT !.rows = Page(1)]
    <3>1. worker["sync"].step = "resting" /\ Becomes("sync", st)
      BY <2>3 DEF SyncNoticeTask
    <3>2. At("look").step = "look" /\ At("look") \in State
      BY StepsByName, AtFacts
    <3>3. st.step = "look"
      BY <3>2 DEF State
    <3> HIDE DEF st
    <3> QED
      BY <2>3, <3>1, <3>3, StepsByName, NoPushMoves DEF SyncNoticeTask
  <2>4. ASSUME NoticeReady PROVE <1>1
    <3>1. /\ worker["sync"].step = "not added"
          /\ worker' = [w \in Worker |-> At(IF w = "loader" THEN "done" ELSE "resting")]
          /\ UNCHANGED <<published, stored, looking, adjusted, pushes, noticeLog>>
      BY <2>4 DEF NoticeReady
    <3>2. At("resting").step = "resting"
      BY StepsByName, AtFacts
    <3> HIDE DEF At
    <3>3. worker'["sync"].step = "resting"
      BY <3>1, <3>2, StepsByName
    <3>4. worker["sync"].step # "push"
      BY <3>1
    <3> QED
      BY <3>1, <3>3, <3>4 DEF AboutToPush
  <2>5. ASSUME Publish PROVE <1>1
    BY <2>5 DEF Publish, AboutToPush, Row
  <2>6. ASSUME NEW w \in Worker, EndOfPage(w) PROVE <1>1
    <3> DEFINE st == IF w = "loader" THEN [worker[w] EXCEPT !.step = "page"] ELSE Resting
    <3>1. worker[w].step = "look" /\ Becomes(w, st)
      BY <2>6 DEF EndOfPage
    <3>2. Resting.step = "resting"
      BY StepsByName, AtFacts
    <3>3. w = "sync" => st.step # "push"
      BY <3>2
    <3> HIDE DEF st
    <3> QED
      BY <2>6, <3>1, <3>3, NoPushMoves DEF EndOfPage
  <2>7. ASSUME NEW w \in Worker, IsNoticeExists(w) PROVE <1>1
    <3> DEFINE create == [worker[w] EXCEPT !.step = "create"]
               next == NextRow(w)
    <3>1. worker[w].step = "look" /\ worker[w].rows # <<>> /\ worker[w] \in State
      BY <2>7, WorkerFacts DEF IsNoticeExists
    <3>2. next.step = "look"
      BY <3>1, NextRowFacts
    <3>3. create.step = "create"
      BY <3>1 DEF State
    <3>4. Becomes(w, next) \/ Becomes(w, create)
      BY <2>7 DEF IsNoticeExists
    <3> HIDE DEF next, create
    <3> QED
      BY <2>7, <3>1, <3>2, <3>3, <3>4, NoPushMoves DEF IsNoticeExists
  <2> QED
    BY <2>1, <2>2, <2>3, <2>4, <2>5, <2>6, <2>7
<1> QED
  BY <1>1, OutboxesUntouched

(* A row is inserted and its goroutine started.                            *)
LEMMA InsertTakesDaysOn ==
  ASSUME NoticeInv, NEW n \in Notice, n \notin stored,
         stored' = stored \cup {n}, looking' = looking \cup {n}, UNCHANGED adjusted,
         noticeLog'.futile = noticeLog.futile
  PROVE  [DaysOutbox!Next]_(DaysOutbox!vars)
<1>1. CASE n \in AboutDays
  <2>1. DaysOutbox!TakeOn(n)
    BY <1>1 DEF DaysOutbox!TakeOn
  <2> QED
    BY <1>1, <2>1 DEF DaysOutbox!Next
<1>2. CASE n \notin AboutDays
  BY <1>2 DEF DaysOutbox!vars
<1> QED
  BY <1>1, <1>2

LEMMA CreateDelivers ==
  ASSUME NoticeInv, FutileInv, NEW w \in Worker, CreateNotice(w)
  PROVE  /\ [PushOutbox!Next]_(PushOutbox!vars) /\ [DaysOutbox!Next]_(DaysOutbox!vars)
         /\ FutileInv'
<1>1. PICK n : n = Row(w)
  OBVIOUS
<1>2. /\ worker[w].step = "create" /\ Becomes(w, AfterCreate(w))
      /\ stored' = stored \cup {n} /\ looking' = looking \cup {n}
      /\ noticeLog' = IF w = "loader" THEN [noticeLog EXCEPT !.loaded = @ \cup {n}] ELSE noticeLog
      /\ UNCHANGED <<published, adjusted, pushes>>
  BY <1>1 DEF CreateNotice, LookThrough
<1>3. worker[w].rows # <<>> /\ worker[w] \in State
  BY <1>2, WorkerFacts
<1>4. n \in Notice /\ n \in Nat
  BY <1>1, <1>2, <1>3, NextRowFacts, NoticeConstants
<1>5. n \notin stored /\ noticeLog \in NoticeLog
  BY <1>1, <1>2, TableFacts DEF NoticeInv, CreatesNew
<1>6. /\ noticeLog'.lost = noticeLog.lost /\ noticeLog'.futile = noticeLog.futile
      /\ noticeLog'.loaded = noticeLog.loaded \cup (IF w = "loader" THEN {n} ELSE {})
  BY <1>2, <1>4, <1>5, LogGrows
<1>7. [DaysOutbox!Next]_(DaysOutbox!vars)
  BY <1>2, <1>4, <1>5, <1>6, InsertTakesDaysOn
<1>8. FutileInv'
  BY <1>2, <1>5, <1>6 DEF FutileInv
<1>9. CASE w = "loader"
  <2>1. AboutToPush' = AboutToPush
    BY <1>2, <1>9, NoPushMoves
  <2>2. PushOutbox!Skip(n)
    BY <1>2, <1>5, <1>6, <1>9, <2>1 DEF PushOutbox!Skip
  <2> QED
    BY <1>4, <1>7, <1>8, <2>2 DEF PushOutbox!Next
<1>10. CASE w = "sync"
  <2> DEFINE st == [worker[w] EXCEPT !.step = "push"]
  <2>1. Becomes(w, st) /\ w # "loader"
    BY <1>2, <1>10 DEF AfterCreate
  <2>2. st.step = "push" /\ st.rows = worker[w].rows
    BY <1>3 DEF State
  <2> HIDE DEF st
  <2>3. worker'[w] = st
    BY <2>1 DEF Becomes, NoticeInv, NoticeTypeInv
  <2>4. AboutToPush' = {n}
    BY <1>1, <1>4, <1>10, <2>2, <2>3 DEF AboutToPush, Row
  <2>5. AboutToPush = {}
    BY <1>2, <1>10 DEF AboutToPush
  <2>6. PushOutbox!TakeOn(n)
    BY <1>2, <1>5, <1>6, <2>1, <2>4, <2>5 DEF PushOutbox!TakeOn
  <2> QED
    BY <1>4, <1>7, <1>8, <2>6 DEF PushOutbox!Next
<1> QED
  BY <1>9, <1>10 DEF Worker

LEMMA PushDelivers ==
  ASSUME NoticeInv, FutileInv, PushNotice
  PROVE  /\ [PushOutbox!Next]_(PushOutbox!vars) /\ UNCHANGED DaysOutbox!vars
         /\ FutileInv'
<1>1. PICK n : n = Row("sync")
  OBVIOUS
<1>2. /\ worker["sync"].step = "push" /\ Becomes("sync", NextRow("sync"))
      /\ \/ pushes' = [pushes EXCEPT ![n] = @ + 1] /\ UNCHANGED noticeLog
         \/ noticeLog' = [noticeLog EXCEPT !.lost = @ \cup {n}] /\ UNCHANGED pushes
      /\ UNCHANGED <<published, stored, looking, adjusted>>
  BY <1>1 DEF PushNotice
<1>3. n \in Notice /\ n \in Nat /\ NextRow("sync").step = "look"
  BY <1>1, <1>2, StepsByName, WorkerFacts, NextRowFacts, NoticeConstants
<1>4. pushes[n] = 0 /\ pushes \in [Notice -> Nat] /\ noticeLog \in NoticeLog
  BY <1>1, <1>2, TableFacts DEF NoticeInv, PushesNews
<1>5. AboutToPush = {n}
  BY <1>1, <1>2, <1>3 DEF AboutToPush
<1>6. AboutToPush' = {}
  <2>1. worker'["sync"] = NextRow("sync")
    BY <1>2, StepsByName DEF Becomes, NoticeInv, NoticeTypeInv
  <2> QED
    BY <1>3, <2>1 DEF AboutToPush
<1>7. noticeLog'.loaded = noticeLog.loaded /\ noticeLog'.futile = noticeLog.futile
  <2>1. CASE noticeLog' = [noticeLog EXCEPT !.lost = @ \cup {n}]
    BY <1>3, <1>4, <2>1, LogGrows
  <2> QED
    BY <1>2, <2>1
<1>8. UNCHANGED DaysOutbox!vars /\ FutileInv'
  BY <1>2, <1>7 DEF DaysOutbox!vars, FutileInv
<1>9. CASE pushes' = [pushes EXCEPT ![n] = @ + 1] /\ UNCHANGED noticeLog
  <2>1. {m \in Notice : pushes'[m] = 1} = {m \in Notice : pushes[m] = 1} \cup {n}
    BY <1>3, <1>4, <1>9
  <2>2. PushOutbox!Deliver(n)
    BY <1>2, <1>5, <1>6, <1>9, <2>1 DEF PushOutbox!Deliver
  <2> QED
    BY <1>3, <1>8, <2>2 DEF PushOutbox!Next
<1>10. CASE noticeLog' = [noticeLog EXCEPT !.lost = @ \cup {n}] /\ UNCHANGED pushes
  <2>1. noticeLog'.lost = noticeLog.lost \cup {n}
    BY <1>3, <1>4, <1>10, LogGrows
  <2>2. PushOutbox!Lose({n})
    BY <1>2, <1>5, <1>6, <1>7, <1>10, <2>1 DEF PushOutbox!Lose
  <2>3. {n} \in SUBSET Notice
    BY <1>3
  <2> QED
    BY <1>8, <2>2, <2>3 DEF PushOutbox!Next
<1> QED
  BY <1>2, <1>9, <1>10

LEMMA ErrorsDeliverNothing ==
  ASSUME NoticeInv, FutileInv, NEW w \in Worker, WorkerFails(w)
  PROVE  /\ [PushOutbox!Next]_(PushOutbox!vars) /\ [DaysOutbox!Next]_(DaysOutbox!vars)
         /\ FutileInv'
<1>1. PICK st : Becomes(w, st) /\ (w = "sync" => st.step # "push")
  <2>1. Resting.step = "resting"
    BY StepsByName, AtFacts
  <2> DEFINE ending == LoaderEnds
             later == [worker[w] EXCEPT !.page = @ + 1]
             next == NextRow(w)
             st == CASE w = "sync" -> Resting
                     [] worker[w].step = "begin" -> ending
                     [] worker[w].step = "page" -> later
                     [] OTHER -> next
  <2>2. Becomes(w, st)
    BY DEF WorkerFails
  <2> HIDE DEF ending, later, next
  <2>3. w = "sync" => st = Resting
    <3>1. "begin" \notin SyncSteps /\ "page" \notin SyncSteps
      BY DEF SyncSteps
    <3>2. PICK step : step = worker[w].step
      OBVIOUS
    <3>3. st = CASE w = "sync" -> Resting
                 [] step = "begin" -> ending
                 [] step = "page" -> later
                 [] OTHER -> next
      BY <3>2
    <3>4. w = "sync" => step # "begin" /\ step # "page"
      BY <3>2, <3>1, WorkerFacts
    <3> HIDE DEF st
    <3> QED
      BY <3>3, <3>4
  <2> HIDE DEF st
  <2> QED
    BY <2>1, <2>2, <2>3
<1>2. PICK skipped :
         \/ noticeLog' = [noticeLog EXCEPT !.missed = @ \cup skipped] /\ UNCHANGED stored
         \/ /\ worker[w].step = "create"
            /\ stored' = stored \cup {Row(w)}
            /\ noticeLog' = [noticeLog EXCEPT !.lost = @ \cup {Row(w)}, !.futile = @ \cup {Row(w)}]
  BY DEF WorkerFails
<1>3. worker[w].step # "push" /\ UNCHANGED <<published, looking, adjusted, pushes>>
  BY DEF WorkerFails
<1>4. AboutToPush' = AboutToPush
  BY <1>1, <1>3, NoPushMoves
<1>5. CASE noticeLog' = [noticeLog EXCEPT !.missed = @ \cup skipped] /\ UNCHANGED stored
  <2>1. /\ noticeLog'.loaded = noticeLog.loaded /\ noticeLog'.lost = noticeLog.lost
        /\ noticeLog'.futile = noticeLog.futile
    BY <1>5, TableFacts DEF NoticeLog
  <2>2. FutileInv'
    BY <1>3, <1>5, <2>1 DEF FutileInv
  <2> QED
    BY <1>3, <1>4, <1>5, <2>1, <2>2, OutboxesUntouched
<1>6. CASE /\ worker[w].step = "create"
           /\ stored' = stored \cup {Row(w)}
           /\ noticeLog' = [noticeLog EXCEPT !.lost = @ \cup {Row(w)}, !.futile = @ \cup {Row(w)}]
  <2>1. PICK n : n = Row(w)
    OBVIOUS
  <2>2. n \in Notice /\ n \in Nat /\ n \notin stored
    BY <1>6, <2>1, WorkerFacts, NextRowFacts, NoticeConstants DEF NoticeInv, CreatesNew
  <2>3. adjusted[n] = 0 /\ looking \subseteq stored /\ noticeLog \in NoticeLog
    BY <2>2, TableFacts
  <2>4. /\ noticeLog'.loaded = noticeLog.loaded /\ noticeLog'.lost = noticeLog.lost \cup {n}
        /\ noticeLog'.futile = noticeLog.futile \cup {n}
    BY <1>6, <2>1, <2>2, <2>3, LogGrows
  <2>5. FutileInv'
    BY <1>3, <1>6, <2>1, <2>2, <2>3, <2>4 DEF FutileInv
  <2>6. PushOutbox!Skip(n)
    BY <1>3, <1>4, <1>6, <2>1, <2>2, <2>4 DEF PushOutbox!Skip
  <2>7. [DaysOutbox!Next]_(DaysOutbox!vars)
    <3>1. CASE n \in AboutDays
      <4>1. DaysOutbox!Skip(n)
        BY <1>3, <1>6, <2>1, <2>2, <2>3, <2>4, <3>1 DEF DaysOutbox!Skip
      <4> QED
        BY <3>1, <4>1 DEF DaysOutbox!Next
    <3>2. CASE n \notin AboutDays
      BY <1>3, <1>6, <2>1, <2>4, <3>2 DEF DaysOutbox!vars
    <3> QED
      BY <3>1, <3>2
  <2> QED
    BY <2>2, <2>5, <2>6, <2>7 DEF PushOutbox!Next
<1> QED
  BY <1>2, <1>5, <1>6

(* What a panic leaves unread was never stored: nothing is delivered or    *)
(* lost.                                                                   *)
LEMMA PanicDeliversNothing ==
  ASSUME NoticeInv, FutileInv, LoaderPanics
  PROVE  /\ UNCHANGED PushOutbox!vars /\ UNCHANGED DaysOutbox!vars
         /\ FutileInv'
<1>1. /\ Becomes("loader", LoaderEnds)
      /\ noticeLog' = [noticeLog EXCEPT !.missed = @ \cup (1 .. published)]
      /\ UNCHANGED <<published, stored, looking, adjusted, pushes>>
  BY DEF LoaderPanics
<1>2. AboutToPush' = AboutToPush
  BY <1>1, StepsByName, NoPushMoves
<1>3. /\ noticeLog'.loaded = noticeLog.loaded /\ noticeLog'.lost = noticeLog.lost
      /\ noticeLog'.futile = noticeLog.futile
  BY <1>1, TableFacts DEF NoticeLog
<1>4. FutileInv'
  BY <1>1, <1>3 DEF FutileInv
<1> QED
  BY <1>1, <1>2, <1>3, <1>4, OutboxesUntouched

LEMMA LookThroughDelivers ==
  ASSUME NoticeInv, FutileInv, NEW n \in Notice, ProcessAutoAdjustCourseNotice(n)
  PROVE  /\ UNCHANGED PushOutbox!vars /\ [DaysOutbox!Next]_(DaysOutbox!vars)
         /\ FutileInv'
<1>1. /\ n \in looking /\ looking' = looking \ {n} /\ n \in Nat
      /\ UNCHANGED <<published, stored, worker, pushes>>
  BY NoticeConstants DEF ProcessAutoAdjustCourseNotice
<1>2. /\ looking \subseteq stored /\ adjusted \in [Notice -> Nat] /\ noticeLog \in NoticeLog
      /\ adjusted[n] = 0 /\ AboutDays \subseteq Notice
  BY <1>1, TableFacts, NoticeConstants
<1>3. AboutToPush' = AboutToPush
  BY <1>1 DEF AboutToPush, Row
<1>4. n \notin noticeLog.futile
  BY <1>1 DEF FutileInv
<1>5. \/ /\ UNCHANGED noticeLog
         /\ adjusted' = [adjusted EXCEPT ![n] = @ + (IF n \in AboutDays THEN 1 ELSE 0)]
      \/ /\ n \in AboutDays
         /\ noticeLog' = [noticeLog EXCEPT !.futile = @ \cup {n}]
         /\ adjusted' \in {adjusted, [adjusted EXCEPT ![n] = @ + 1]}
  BY DEF ProcessAutoAdjustCourseNotice, DaysCreated
<1>6. /\ noticeLog'.loaded = noticeLog.loaded /\ noticeLog'.lost = noticeLog.lost
      /\ noticeLog'.futile \in {noticeLog.futile, noticeLog.futile \cup {n}}
  <2>1. CASE noticeLog' = [noticeLog EXCEPT !.futile = @ \cup {n}]
    BY <1>1, <1>2, <2>1, LogGrows
  <2> QED
    BY <1>5, <2>1
<1>7. UNCHANGED PushOutbox!vars
  BY <1>1, <1>3, <1>6 DEF PushOutbox!vars
<1>8. FutileInv'
  BY <1>1, <1>2, <1>6 DEF FutileInv
<1>9. \A m \in Notice \ {n} : adjusted'[m] = adjusted[m]
  BY <1>2, <1>5
<1>10. CASE n \notin AboutDays
  <2>1. UNCHANGED noticeLog /\ \A m \in AboutDays : adjusted'[m] = adjusted[m]
    BY <1>2, <1>5, <1>9, <1>10
  <2>2. UNCHANGED DaysOutbox!vars
    BY <1>1, <1>10, <2>1 DEF DaysOutbox!vars
  <2> QED
    BY <1>7, <1>8, <2>2
<1>11. CASE n \in AboutDays /\ adjusted'[n] = 1
  <2>1. {m \in AboutDays : adjusted'[m] = 1} = {m \in AboutDays : adjusted[m] = 1} \cup {n}
    BY <1>2, <1>9, <1>11
  <2>2. {m \in AboutDays \cap noticeLog'.futile : adjusted'[m] = 0}
           = {m \in AboutDays \cap noticeLog.futile : adjusted[m] = 0}
    BY <1>2, <1>4, <1>6, <1>9, <1>11
  <2>3. DaysOutbox!Deliver(n)
    BY <1>1, <1>11, <2>1, <2>2 DEF DaysOutbox!Deliver
  <2> QED
    BY <1>7, <1>8, <1>11, <2>3 DEF DaysOutbox!Next
<1>12. CASE n \in AboutDays /\ adjusted'[n] # 1
  <2>1. adjusted' = adjusted /\ noticeLog'.futile = noticeLog.futile \cup {n}
    <3>1. ~(adjusted' = [adjusted EXCEPT ![n] = @ + 1])
      BY <1>2, <1>12
    <3>2. noticeLog' = [noticeLog EXCEPT !.futile = @ \cup {n}] /\ adjusted' = adjusted
      BY <1>5, <1>12, <3>1
    <3> QED
      BY <1>1, <1>2, <3>2, LogGrows
  <2>2. DaysOutbox!Lose({n})
    BY <1>1, <1>2, <1>12, <2>1 DEF DaysOutbox!Lose
  <2>3. {n} \in SUBSET AboutDays
    BY <1>12
  <2> QED
    BY <1>7, <1>8, <2>2, <2>3 DEF DaysOutbox!Next
<1> QED
  BY <1>7, <1>8, <1>10, <1>11, <1>12

LEMMA RestartLoses ==
  ASSUME NoticeInv, FutileInv, CommonRestarts
  PROVE  /\ [PushOutbox!Next]_(PushOutbox!vars) /\ [DaysOutbox!Next]_(DaysOutbox!vars)
         /\ FutileInv'
<1> DEFINE push == IF worker["sync"].step = "push" THEN {Row("sync")} ELSE {}
<1>1. /\ worker' = [w \in Worker |-> At(FirstStep(w))] /\ looking' = {}
      /\ noticeLog' = [noticeLog EXCEPT !.before = published, !.missed = {},
                          !.futile = @ \cup looking, !.lost = @ \cup push]
      /\ UNCHANGED <<published, stored, adjusted, pushes>>
  BY DEF CommonRestarts
<1>2. push = AboutToPush
  <2>1. worker["sync"].step = "push" => Row("sync") \in Notice
    BY StepsByName, WorkerFacts, NextRowFacts
  <2> QED
    BY <2>1 DEF AboutToPush
<1> HIDE DEF push
<1>3. /\ noticeLog'.loaded = noticeLog.loaded /\ noticeLog'.lost = noticeLog.lost \cup AboutToPush
      /\ noticeLog'.futile = noticeLog.futile \cup looking
  BY <1>1, <1>2, TableFacts DEF NoticeLog
<1>4. AboutToPush' = {}
  <2>1. worker'["sync"].step = "not added"
    BY <1>1, FirstSteps
  <2> QED
    BY <2>1 DEF AboutToPush
<1>5. looking \subseteq stored /\ \A n \in looking : adjusted[n] = 0
  BY TableFacts
<1>6. FutileInv'
  BY <1>1, <1>3, <1>5 DEF FutileInv
<1>7. PushOutbox!Lose(AboutToPush)
  BY <1>1, <1>3, <1>4 DEF PushOutbox!Lose
<1>8. PICK items : items = looking \cap AboutDays
  OBVIOUS
<1>9. DaysOutbox!Lose(items)
  <2>1. {n \in AboutDays \cap noticeLog'.futile : adjusted[n] = 0}
           = {n \in AboutDays \cap noticeLog.futile : adjusted[n] = 0} \cup items
    BY <1>3, <1>5, <1>8
  <2> QED
    BY <1>1, <1>8, <2>1 DEF DaysOutbox!Lose
<1>10. AboutToPush \in SUBSET Notice /\ items \in SUBSET AboutDays
  BY <1>8 DEF AboutToPush
<1>11. PushOutbox!Next
  BY <1>7, <1>10 DEF PushOutbox!Next
<1>12. DaysOutbox!Next
  BY <1>9, <1>10 DEF DaysOutbox!Next
<1> QED
  BY <1>6, <1>11, <1>12

LEMMA OutboxesInit ==
  ASSUME NoticeInit
  PROVE  PushOutbox!Init /\ DaysOutbox!Init /\ FutileInv
<1>1. /\ stored = {} /\ looking = {} /\ noticeLog.loaded = {} /\ noticeLog.lost = {}
      /\ noticeLog.futile = {}
      /\ \A n \in Notice : pushes[n] = 0 /\ adjusted[n] = 0
      /\ worker = [w \in Worker |-> At(FirstStep(w))]
  BY DEF NoticeInit
<1>2. worker["sync"].step = "not added"
  BY <1>1, FirstSteps
<1>3. AboutToPush = {}
  BY <1>2 DEF AboutToPush
<1>4. AboutDays \subseteq Notice
  BY NoticeConstants
<1> QED
  BY <1>1, <1>3, <1>4 DEF PushOutbox!Init, DaysOutbox!Init, FutileInv

LEMMA OutboxesStep ==
  ASSUME NoticeInv, FutileInv, [NoticeNext]_noticeVars
  PROVE  /\ [PushOutbox!Next]_(PushOutbox!vars) /\ [DaysOutbox!Next]_(DaysOutbox!vars)
         /\ FutileInv'
<1>1. CASE \/ LoadBegins \/ LoadPage \/ SyncNoticeTask \/ NoticeReady \/ Publish
           \/ \E w \in Worker : EndOfPage(w) \/ IsNoticeExists(w)
  BY <1>1, WalkIsNoDelivery DEF FutileInv
<1>2. CASE PushNotice
  BY <1>2, PushDelivers
<1>3. ASSUME NEW w \in Worker, CreateNotice(w) \/ WorkerFails(w)
      PROVE  /\ [PushOutbox!Next]_(PushOutbox!vars) /\ [DaysOutbox!Next]_(DaysOutbox!vars)
             /\ FutileInv'
  BY <1>3, CreateDelivers, ErrorsDeliverNothing
<1>4. ASSUME NEW n \in Notice, ProcessAutoAdjustCourseNotice(n)
      PROVE  /\ [PushOutbox!Next]_(PushOutbox!vars) /\ [DaysOutbox!Next]_(DaysOutbox!vars)
             /\ FutileInv'
  BY <1>4, LookThroughDelivers
<1>5. CASE CommonRestarts
  BY <1>5, RestartLoses
<1>7. CASE LoaderPanics
  BY <1>7, PanicDeliversNothing
<1>6. CASE UNCHANGED noticeVars
  BY <1>6 DEF noticeVars, PushOutbox!vars, DaysOutbox!vars, FutileInv, AboutToPush, Row
<1> QED
  BY <1>1, <1>2, <1>3, <1>4, <1>5, <1>6, <1>7 DEF NoticeNext, NoticeStep

(* Whatever the loader, the periodic task and the goroutines do, whatever  *)
(* fails and whenever the process dies: the one insert of a notice's row   *)
(* leads to one push or to none for ever, and to one creation of adjusted  *)
(* days or to none for ever, as when the notice has none (cmd/common).     *)
THEOREM NoticesDelivered == NoticeSpec => NoticesDeliverOnce
<1>1. NoticeInit => PushOutbox!Init /\ DaysOutbox!Init /\ FutileInv
  BY OutboxesInit
<1>2. NoticeInv /\ FutileInv /\ [NoticeNext]_noticeVars =>
         [PushOutbox!Next]_(PushOutbox!vars) /\ [DaysOutbox!Next]_(DaysOutbox!vars) /\ FutileInv'
  BY OutboxesStep
<1> QED
  BY <1>1, <1>2, NoticeInvHolds, PTL DEF NoticeSpec, NoticesDeliverOnce, PushOutbox!Spec, DaysOutbox!Spec

-----------------------------------------------------------------------------
(* Scores by teacher: a batch is what was read, so it is never ahead of a  *)
(* student's row, and what is written of it are marks of that student.     *)
BatchesRead ==
    \A r \in Runner : runner[r].step = "upsert" =>
        /\ runner[r].batch # {}
        /\ \A b \in runner[r].batch :
              /\ b.student \in Student
              /\ b.version \in DOMAIN Marks /\ b.version <= scores[b.student]

(* A run reads on behind a student, or writes what it has read.            *)
RunnersGo ==
    /\ DOMAIN runner = Runner
    /\ \A r \in Runner :
          \/ runner[r] = RunRests
          \/ \E last \in {0} \cup Student : runner[r] = Reads(last)
          \/ runner[r].step = "upsert"

ScoresInv ==
    /\ scores \in [Student -> {0} \cup DOMAIN Marks]
    /\ records \in [Student -> [Key -> Nat]]
    /\ RunnersGo /\ BatchesRead /\ RecordsWereMarks

LEMMA MarksFacts ==
  /\ NoRecord = 0 /\ DOMAIN Marks \subseteq Nat \ {0}
  /\ \A v \in DOMAIN Marks : \A k \in DOMAIN Marks[v] : Marks[v][k] \in Nat /\ k \in Key
  BY TeacherScoresAssumption DEF NoRecord, Key

(* The steps of a run differ.                                              *)
LEMMA StepsOfRuns ==
  /\ RunRests.step = "rests" /\ \A last : Reads(last).step = "read"
  /\ \A batch : LET next == [step |-> "upsert", batch |-> batch] IN
        next.step = "upsert" /\ next.batch = batch
  BY DEF RunRests, Reads

LEMMA ScoresInitHolds == TeacherScoresInit => ScoresInv
<1> SUFFICES ASSUME TeacherScoresInit PROVE ScoresInv
  OBVIOUS
<1>1. /\ scores = [s \in Student |-> 0] /\ records = [s \in Student |-> [k \in Key |-> NoRecord]]
      /\ runner = [r \in Runner |-> RunRests]
  BY DEF TeacherScoresInit
<1>2. RunnersGo /\ BatchesRead
  BY <1>1, StepsOfRuns DEF RunnersGo, BatchesRead
<1> QED
  BY <1>1, <1>2, MarksFacts DEF ScoresInv, RecordsWereMarks

(* A batch of natural numbers that is not empty has a last one.            *)
LEMMA LastExists ==
  ASSUME NEW S \in SUBSET Student, S # {}
  PROVE  \E s \in S : \A t \in S : t <= s
<1>1. Students \in Nat /\ Student = 1 .. Students
  BY TeacherScoresAssumption DEF Student
<1> DEFINE After == {Students - s : s \in S}
<1>2. \A s \in S : s \in Nat /\ Students - s \in Nat
  BY <1>1
<1>3. After \subseteq Nat /\ After # {}
  BY <1>2
<1>4. \E x \in After : \A y \in After : ~(<<y, x>> \in OpToRel(<, Nat))
  BY <1>3, NatLessThanWellFounded, WFMin
<1>5. \E x \in After : \A y \in After : ~(y < x)
  BY <1>3, <1>4 DEF OpToRel
<1>6. PICK s \in S : \A t \in S : ~(Students - t < Students - s)
  BY <1>5
<1>7. \A t \in S : t <= s
  BY <1>1, <1>2, <1>6
<1> QED
  BY <1>7

(* A run moves to another place and nothing else changes.                  *)
LEMMA RunMoves ==
  ASSUME ScoresInv, NEW r \in Runner, NEW next, runner' = [runner EXCEPT ![r] = next],
         UNCHANGED <<scores, records>>,
         \/ next = RunRests
         \/ \E last \in {0} \cup Student : next = Reads(last)
  PROVE  ScoresInv'
<1>1. RunnersGo'
  BY DEF ScoresInv, RunnersGo
<1>2. BatchesRead'
  <2> SUFFICES ASSUME NEW q \in Runner, runner'[q].step = "upsert"
               PROVE  /\ q # r /\ runner'[q] = runner[q]
    BY DEF ScoresInv, BatchesRead
  <2> QED
    BY StepsOfRuns DEF ScoresInv, RunnersGo
<1>3. RecordsWereMarks'
  BY DEF ScoresInv, RecordsWereMarks
<1> QED
  BY <1>1, <1>2, <1>3 DEF ScoresInv

LEMMA ReadBatch ==
  ASSUME ScoresInv, NEW r \in Runner, GetScoresBatchByStuId(r)
  PROVE  ScoresInv'
<1> DEFINE rows == Beyond(runner[r].last)
           batch == {s \in rows : Cardinality({t \in rows : t < s}) < BatchSize}
           read == {[student |-> s, version |-> scores[s]] : s \in batch}
           next == IF batch = {} THEN RunRests ELSE [step |-> "upsert", batch |-> read]
<1>1. runner' = [runner EXCEPT ![r] = next] /\ UNCHANGED <<scores, records>>
  BY DEF GetScoresBatchByStuId
<1>2. \A s \in batch : /\ s \in Student /\ scores[s] \in DOMAIN Marks
                        /\ scores[s] <= scores[s]
  BY MarksFacts DEF Beyond, ScoresInv
<1>3. /\ batch # {} => read # {}
      /\ \A b \in read : /\ b.student \in Student
                         /\ b.version \in DOMAIN Marks /\ b.version <= scores[b.student]
  <2> HIDE DEF batch
  <2>1. batch # {} => read # {}
    OBVIOUS
  <2>2. ASSUME NEW b \in read
        PROVE  /\ b.student \in Student
               /\ b.version \in DOMAIN Marks /\ b.version <= scores[b.student]
    <3>1. PICK s \in batch : b = [student |-> s, version |-> scores[s]]
      OBVIOUS
    <3> QED
      BY <1>2, <3>1
  <2> QED
    BY <2>1, <2>2
<1> HIDE DEF read, batch
<1>4. CASE batch = {}
  BY <1>1, <1>4, RunMoves
<1>5. CASE batch # {}
  <2>1. PICK n : n = [step |-> "upsert", batch |-> read]
    OBVIOUS
  <2>2. n.step = "upsert" /\ n.batch = read
    BY <2>1
  <2>3. runner' = [runner EXCEPT ![r] = n]
    BY <1>1, <1>5, <2>1
  <2>4. \A q \in Runner : runner'[q] = IF q = r THEN n ELSE runner[q]
    BY <2>3 DEF ScoresInv, RunnersGo
  <2>5. RunnersGo'
    BY <1>1, <2>2, <2>3, <2>4 DEF ScoresInv, RunnersGo
  <2>6. BatchesRead'
    BY <1>1, <1>3, <1>5, <2>2, <2>4 DEF ScoresInv, BatchesRead
  <2> QED
    BY <1>1, <2>5, <2>6 DEF ScoresInv, RecordsWereMarks
<1> QED
  BY <1>4, <1>5

(* What an upsert leaves of a student's records: some entry's marks over   *)
(* them, when the batch has one.                                           *)
LEMMA UpsertOf ==
  ASSUME ScoresInv, NEW r \in Runner, UpsertCourseTeacherScores(r), NEW s \in Student
  PROVE  \/ records'[s] = records[s]
         \/ \E b \in runner[r].batch :
               b.student = s /\ records'[s] = Upserted(records[s], Marks[b.version])
<1> DEFINE batch == runner[r].batch
           b == CHOOSE b \in batch : b.student = s
<1>1. records'[s] = IF \E c \in batch : c.student = s
                    THEN Upserted(records[s], Marks[b.version]) ELSE records[s]
  BY DEF UpsertCourseTeacherScores
<1>2. ASSUME NEW c \in batch, c.student = s PROVE b \in batch /\ b.student = s
  BY <1>2
<1> HIDE DEF b
<1> QED
  BY <1>1, <1>2

LEMMA WriteBatch ==
  ASSUME ScoresInv, NEW r \in Runner, UpsertCourseTeacherScores(r)
  PROVE  ScoresInv'
<1> DEFINE batch == runner[r].batch
           next == Reads(LastOf(batch))
<1>1. /\ runner[r].step = "upsert" /\ runner' = [runner EXCEPT ![r] = next]
      /\ UNCHANGED scores
  BY DEF UpsertCourseTeacherScores
<1>2. LastOf(batch) \in Student
  <2>1. {b.student : b \in batch} \in SUBSET Student /\ {b.student : b \in batch} # {}
    BY <1>1 DEF ScoresInv, BatchesRead
  <2>2. PICK S : S = {b.student : b \in batch}
    OBVIOUS
  <2>3. LastOf(batch) = CHOOSE s \in S : \A b \in batch : b.student <= s
    BY <2>2 DEF LastOf
  <2>4. \E s \in S : \A b \in batch : b.student <= s
    BY <2>1, <2>2, LastExists
  <2> QED
    BY <2>1, <2>2, <2>3, <2>4
<1> HIDE DEF next
<1>3. RunnersGo' /\ BatchesRead'
  <2>1. \A q \in Runner : runner'[q] = IF q = r THEN next ELSE runner[q]
    BY <1>1 DEF ScoresInv, RunnersGo
  <2>2. RunnersGo'
    BY <1>1, <1>2, <2>1 DEF ScoresInv, RunnersGo, next
  <2>3. next.step = "read"
    BY StepsOfRuns DEF next
  <2>4. BatchesRead'
    BY <1>1, <2>1, <2>3 DEF ScoresInv, BatchesRead
  <2> QED
    BY <2>2, <2>4
<1>4. ASSUME NEW s \in Student
      PROVE  /\ records'[s] \in [Key -> Nat]
             /\ \A k \in Key : \/ records'[s][k] = NoRecord
                               \/ \E v \in DOMAIN Marks :
                                     /\ v <= scores'[s] /\ k \in DOMAIN Marks[v]
                                     /\ records'[s][k] = Marks[v][k]
  <2>1. CASE records'[s] = records[s]
    BY <1>1, <2>1 DEF ScoresInv, RecordsWereMarks
  <2>2. ASSUME NEW b \in batch, b.student = s,
               records'[s] = Upserted(records[s], Marks[b.version])
        PROVE  <1>4!2
    <3>1. PICK v : v = b.version
      OBVIOUS
    <3>2. v \in DOMAIN Marks /\ v <= scores'[s]
      BY <1>1, <2>2, <3>1 DEF ScoresInv, BatchesRead
    <3>3. records'[s] = [k \in Key |-> IF k \in DOMAIN Marks[v] THEN Marks[v][k] ELSE records[s][k]]
      BY <2>2, <3>1 DEF Upserted
    <3>4. records[s] \in [Key -> Nat]
      BY DEF ScoresInv
    <3>5. records'[s] \in [Key -> Nat]
      BY <3>2, <3>3, <3>4, MarksFacts
    <3> QED
      BY <1>1, <3>2, <3>3, <3>5 DEF ScoresInv, RecordsWereMarks
  <2> QED
    BY <2>1, <2>2, UpsertOf
<1>5. records' \in [Student -> [Key -> Nat]]
  <2>1. DOMAIN records' = Student /\ records' = [s \in Student |-> records'[s]]
    BY DEF UpsertCourseTeacherScores
  <2> QED
    BY <1>4, <2>1
<1>6. RecordsWereMarks'
  BY <1>4 DEF RecordsWereMarks
<1> QED
  BY <1>1, <1>3, <1>5, <1>6 DEF ScoresInv

LEMMA RowGrows ==
  ASSUME ScoresInv, NEW s \in Student, ScoreRowChanges(s)
  PROVE  ScoresInv'
<1>1. /\ scores' \in [Student -> {0} \cup DOMAIN Marks]
      /\ \A t \in Student : scores[t] \in Nat /\ scores'[t] \in Nat /\ scores[t] <= scores'[t]
      /\ UNCHANGED <<records, runner>>
  BY MarksFacts DEF ScoreRowChanges, ScoresInv
<1>2. BatchesRead'
  <2> SUFFICES ASSUME NEW r \in Runner, runner[r].step = "upsert", NEW b \in runner[r].batch
               PROVE  b.version <= scores'[b.student]
    BY <1>1 DEF ScoresInv, BatchesRead
  <2>1. /\ b.student \in Student /\ b.version \in Nat /\ b.version <= scores[b.student]
    BY MarksFacts DEF ScoresInv, BatchesRead
  <2> QED
    BY <1>1, <2>1
<1>3. RecordsWereMarks'
  <2> SUFFICES ASSUME NEW t \in Student, NEW v \in DOMAIN Marks, v <= scores[t]
               PROVE  v <= scores'[t]
    BY <1>1 DEF ScoresInv, RecordsWereMarks
  <2> QED
    BY <1>1, MarksFacts
<1> QED
  BY <1>1, <1>2, <1>3 DEF ScoresInv, RunnersGo

LEMMA ScoresStep ==
  ASSUME ScoresInv, [TeacherScoresNext]_scoresVars
  PROVE  ScoresInv'
<1>1. ASSUME NEW r \in Runner, BeginUpdate(r) \/ UpdateFails(r) PROVE ScoresInv'
  <2>1. CASE BeginUpdate(r)
    BY <2>1, RunMoves DEF BeginUpdate
  <2>2. CASE UpdateFails(r)
    BY <2>2, RunMoves DEF UpdateFails
  <2> QED
    BY <1>1, <2>1, <2>2
<1>2. CASE UNCHANGED scoresVars
  BY <1>2 DEF scoresVars, ScoresInv, RunnersGo, BatchesRead, RecordsWereMarks
<1> QED
  BY <1>1, <1>2, RowGrows, ReadBatch, WriteBatch DEF TeacherScoresNext, RunStep

(* For any students, batches and versions of the rows every variable keeps *)
(* its type.                                                               *)
THEOREM ScoresTypeCorrect == TeacherScoresSpec => []TeacherScoresTypeOK
<1>1. ScoresInv => TeacherScoresTypeOK
  BY DEF ScoresInv, RunnersGo, BatchesRead, TeacherScoresTypeOK, Reads
<1> QED
  BY <1>1, ScoresInitHolds, ScoresStep, PTL DEF TeacherScoresSpec

(* Two runs that overlap, are cut off and begin anew mix up no students:   *)
(* every record is a mark its student has had (UpsertCourseTeacherScores). *)
THEOREM RecordsAreOfRows == TeacherScoresSpec => []RecordsWereMarks
<1>1. ScoresInv => RecordsWereMarks
  BY DEF ScoresInv
<1> QED
  BY <1>1, ScoresInitHolds, ScoresStep, PTL DEF TeacherScoresSpec

LEMMA SetBackByLate ==
  ASSUME ScoresInv, [TeacherScoresNext]_scoresVars, NEW s \in Student,
         Spread(s), ~Spread(s)', scores'[s] = scores[s]
  PROVE  LateFor(s)
<1>1. records'[s] # records[s]
  BY DEF Spread
<1>2. PICK r \in Runner : UpsertCourseTeacherScores(r)
  BY <1>1 DEF TeacherScoresNext, RunStep, ScoreRowChanges, BeginUpdate, GetScoresBatchByStuId,
              UpdateFails, scoresVars
<1>3. PICK b \in runner[r].batch :
         b.student = s /\ records'[s] = Upserted(records[s], Marks[b.version])
  BY <1>1, <1>2, UpsertOf
<1>4. PICK v : v = b.version
  OBVIOUS
<1>5. /\ runner[r].step = "upsert" /\ v \in DOMAIN Marks /\ v \in Nat /\ v <= scores[s]
      /\ scores[s] \in Nat
  BY <1>2, <1>3, <1>4, MarksFacts DEF UpsertCourseTeacherScores, ScoresInv, BatchesRead
<1>6. v # scores[s]
  <2> SUFFICES ASSUME v = scores[s] PROVE FALSE
    OBVIOUS
  <2>1. records'[s] = [k \in Key |-> IF k \in DOMAIN Marks[v] THEN Marks[v][k] ELSE records[s][k]]
    BY <1>3, <1>4 DEF Upserted
  <2>2. \A k \in DOMAIN Marks[v] : records'[s][k] = Marks[v][k]
    BY <1>5, <2>1, MarksFacts
  <2> QED
    BY <2>2 DEF Spread
<1> QED
  BY <1>3, <1>4, <1>5, <1>6 DEF LateFor

(* The marks that are spread stay so until the row changes, or a run       *)
(* writes what it has read of an older row (UpdateCourseTeacherScores).    *)
THEOREM SetBackExplained == TeacherScoresSpec => OnlyLateSetsBack
<1>1. ScoresInv /\ [TeacherScoresNext]_scoresVars
        => [\A s \in Student :
              Spread(s) /\ ~Spread(s)' => scores'[s] # scores[s] \/ LateFor(s)]_scoresVars
  BY SetBackByLate
<1> QED
  BY <1>1, ScoresInitHolds, ScoresStep, PTL DEF TeacherScoresSpec, OnlyLateSetsBack

-----------------------------------------------------------------------------
(* Empty rooms.  How old a list can be follows from where the runs are: a  *)
(* list of a day ahead was stored by the run of "schedule" before this one *)
(* or by this one, a list of today by the last such run or by an "update", *)
(* and each restart may have put off a run by one tick.  The lists that    *)
(* the run for the days ahead has not come to at midnight are the worst    *)
(* case: the next "update" must come to them.                              *)

(* Restarts that may have been: each of them may have put off a run.       *)
PutOff == TicksOfDay - TicksOfUpdate - 3 - roomsLeft["restart"]

LeftInv ==
    /\ roomsLeft \in [{"fault", "restart"} -> Nat]
    /\ PutOff >= 0

(* A task rests until it is due, a run lasts until the next tick at most.  *)
RunsTimely ==
    \A j \in Job :
        /\ run[j].at <= roomClock + Every[j]
        /\ run[j].dates = {} => roomClock <= run[j].at
        /\ run[j].dates # {} => run[j].at <= roomClock /\ roomClock <= run[j].at + 1

DayOf(j) == run[j].at \div TicksOfDay

RunsOfDates ==
    /\ run["update"].dates \subseteq {DayOf("update")}
    /\ run["schedule"].dates \subseteq DayOf("schedule") + 1 .. DayOf("schedule") + DaysAhead

StoredInWindow ==
    \A d \in RoomDate : missed[d] # ListKey => d <= ThisDay + DaysAhead

NotFromAhead ==
    \A d \in RoomDate : d >= ThisDay => \A k \in ListKey \ missed[d] : rooms[d][k] <= roomClock

(* The list of a day ahead was stored by the run that goes on or by the    *)
(* one before.                                                             *)
KeptAhead ==
    \A d \in RoomDate : d > ThisDay => \A k \in ListKey \ missed[d] :
        \/ /\ run["schedule"].dates # {} /\ d \notin run["schedule"].dates
           /\ run["schedule"].at <= rooms[d][k]
        \/ /\ run["schedule"].dates = {} \/ d \in run["schedule"].dates
           /\ run["schedule"].at <= rooms[d][k] + TicksOfDay + 1 + PutOff

(* A run for the days ahead that has not come to the day that begins.      *)
Late == IF ThisDay \in run["schedule"].dates THEN 1 ELSE 0

(* The list of today was stored by "schedule" before the day began, or by  *)
(* an "update" since.                                                      *)
KeptToday ==
    \A k \in ListKey \ missed[ThisDay] :
        IF run["update"].dates # {} /\ DayOf("update") # ThisDay
        THEN run["update"].at <= rooms[ThisDay][k] + TicksOfDay + PutOff + Late
        ELSE run["update"].at <= rooms[ThisDay][k] + TicksOfDay + TicksOfUpdate + 1 + PutOff + Late

RoomsInv ==
    /\ EmptyRoomsTypeOK /\ LeftInv /\ RunsTimely /\ RunsOfDates
    /\ StoredInWindow /\ NotFromAhead /\ KeptAhead /\ KeptToday

(* Division by the length of a day.                                        *)
LEMMA DivFacts ==
  ASSUME NEW n \in Nat, NEW t \in Nat \ {0}
  PROVE  /\ n \div t \in Nat
         /\ t * (n \div t) <= n
         /\ n < t * (n \div t) + t
  OBVIOUS

LEMMA DivMonotone ==
  ASSUME NEW m \in Nat, NEW n \in Nat, NEW t \in Nat \ {0}, m <= n
  PROVE  m \div t <= n \div t
<1> DEFINE x == m \div t
           y == n \div t
<1>1. /\ x \in Nat /\ y \in Nat
      /\ t * x <= m /\ n < t * y + t
  BY DivFacts
<1> HIDE DEF x, y
<1>2. SUFFICES ASSUME x > y PROVE FALSE
  BY <1>1
<1>3. PICK z \in Nat : x = y + 1 + z
  <2>1. x - y - 1 \in Nat /\ x = y + 1 + (x - y - 1)
    BY <1>1, <1>2
  <2> QED
    BY <2>1
<1>4. t * x = t * y + t + t * z
  BY <1>1, <1>3
<1>5. t * x \in Nat /\ t * y \in Nat /\ t * z \in Nat
  BY <1>1
<1> QED
  BY <1>1, <1>4, <1>5

LEMMA RoomConstants ==
  /\ TicksOfDay \in Nat \ {0} /\ TicksOfUpdate \in Nat \ {0}
  /\ DaysAhead \in Nat \ {0} /\ LastTick \in Nat \ {0} /\ TicksOfDay <= LastTick
  /\ Every["update"] = TicksOfUpdate /\ Every["schedule"] = TicksOfDay
  /\ \A j \in Job : Every[j] \in Nat
  BY RoomAssumption DEF RoomAssumption, Every, Job

(* What a state gives of its numbers.                                      *)
LEMMA RoomNumbers ==
  ASSUME EmptyRoomsTypeOK, LeftInv
  PROVE  /\ roomClock \in 0 .. LastTick /\ ThisDay \in Nat
         /\ ThisDay + DaysAhead <= (LastTick \div TicksOfDay) + DaysAhead
         /\ (LastTick \div TicksOfDay) \in Nat
         /\ PutOff \in Nat /\ PutOff <= TicksOfDay - TicksOfUpdate - 3
         /\ \A j \in Job : run[j].at \in Nat /\ DayOf(j) \in Nat
         /\ \A j \in Job : run[j].at <= roomClock => DayOf(j) <= ThisDay
<1>1. roomClock \in 0 .. LastTick /\ \A j \in Job : run[j].at \in Nat
  BY DEF EmptyRoomsTypeOK
<1>2. ThisDay \in Nat /\ (LastTick \div TicksOfDay) \in Nat /\ \A j \in Job : DayOf(j) \in Nat
  BY <1>1, RoomConstants, DivFacts DEF ThisDay, DayOf
<1>3. ThisDay <= LastTick \div TicksOfDay
  BY <1>1, RoomConstants, DivMonotone DEF ThisDay
<1>4. \A j \in Job : run[j].at <= roomClock => DayOf(j) <= ThisDay
  BY <1>1, RoomConstants, DivMonotone DEF ThisDay, DayOf
<1>5. PutOff \in Nat /\ PutOff <= TicksOfDay - TicksOfUpdate - 3
  BY RoomConstants DEF LeftInv, PutOff
<1> QED
  BY <1>1, <1>2, <1>3, <1>4, <1>5, RoomConstants

LEMMA RunBegun ==
  ASSUME NEW at, NEW dates
  PROVE  [Due(at) EXCEPT !.dates = dates] = [at |-> at, dates |-> dates, failed |-> FALSE]
<1> DEFINE none == {}
           no == FALSE
<1>1. Due(at) = [at |-> at, dates |-> none, failed |-> no]
  BY DEF Due
<1> HIDE DEF none, no
<1>2. [Due(at) EXCEPT !.dates = dates] = [at |-> at, dates |-> dates, failed |-> no]
  BY <1>1
<1> QED
  BY <1>2 DEF no

LEMMA RoomsInvInit == EmptyRoomsInit => RoomsInv
<1> SUFFICES ASSUME EmptyRoomsInit PROVE RoomsInv
  OBVIOUS
<1>1. LeftInv
  BY RoomAssumption, RoomConstants DEF EmptyRoomsInit, LeftInv, PutOff, RoomAssumption
<1>2. EmptyRoomsTypeOK
  <2>1. roomClock \in 0 .. LastTick /\ NoRooms \in Nat
    BY RoomConstants DEF EmptyRoomsInit, NoRooms
  <2>2. rooms \in [RoomDate -> [ListKey -> 0 .. NoRooms]]
    BY <2>1 DEF EmptyRoomsInit
  <2>3. run \in [Job -> [at : Nat, dates : SUBSET RoomDate, failed : BOOLEAN]]
    BY <2>1 DEF EmptyRoomsInit, Due
  <2> QED
    BY <2>1, <2>2, <2>3 DEF EmptyRoomsInit, EmptyRoomsTypeOK
<1>3. RunsTimely /\ RunsOfDates
  BY <1>2, RoomConstants DEF EmptyRoomsInit, EmptyRoomsTypeOK, RunsTimely, RunsOfDates, Due, Job
<1>4. ThisDay \in RoomDate
  BY <1>1, <1>2, RoomNumbers, RoomConstants DEF RoomDate
<1>5. \A d \in RoomDate : missed[d] = ListKey
  BY DEF EmptyRoomsInit
<1>6. StoredInWindow /\ NotFromAhead /\ KeptAhead
  BY <1>5 DEF StoredInWindow, NotFromAhead, KeptAhead
<1>7. KeptToday
  BY <1>4, <1>5 DEF KeptToday
<1> QED
  BY <1>1, <1>2, <1>3, <1>6, <1>7 DEF RoomsInv

LEMMA BeginRunKeeps ==
  ASSUME RoomsInv, NEW j \in Job, BeginRun(j)
  PROVE  RoomsInv'
<1>1. EmptyRoomsTypeOK /\ LeftInv
  BY DEF RoomsInv
<1>2. /\ run[j].dates = {} /\ run[j].at = roomClock
      /\ run' = [run EXCEPT ![j] = [at |-> roomClock, dates |-> Dates(j), failed |-> FALSE]]
      /\ UNCHANGED <<roomClock, rooms, roomsLeft, missed>>
  <2>1. run[j].dates = {} /\ run[j].at <= roomClock /\ roomClock <= run[j].at
    BY DEF BeginRun, RoomsInv, RunsTimely
  <2>2. run[j].at = roomClock
    BY <1>1, <2>1, RoomNumbers
  <2>3. [Due(roomClock) EXCEPT !.dates = Dates(j)] = [at |-> roomClock, dates |-> Dates(j), failed |-> FALSE]
    BY RunBegun
  <2> QED
    BY <2>1, <2>2, <2>3 DEF BeginRun
<1>3. ThisDay' = ThisDay /\ PutOff' = PutOff
  BY <1>2 DEF ThisDay, PutOff
<1>4. Dates(j) \subseteq RoomDate
  BY <1>1, RoomNumbers, RoomConstants DEF Dates, RoomDate
<1>5. EmptyRoomsTypeOK' /\ LeftInv'
  <2>1. run' \in [Job -> [at : Nat, dates : SUBSET RoomDate, failed : BOOLEAN]]
    BY <1>1, <1>2, <1>4, RoomNumbers DEF EmptyRoomsTypeOK
  <2> QED
    BY <1>1, <1>2, <1>3, <2>1 DEF EmptyRoomsTypeOK, LeftInv
<1>6. /\ run'[j] = [at |-> roomClock, dates |-> Dates(j), failed |-> FALSE]
      /\ \A i \in Job \ {j} : run'[i] = run[i]
  BY <1>1, <1>2 DEF EmptyRoomsTypeOK
<1>7. RunsTimely'
  BY <1>1, <1>2, <1>6, RoomNumbers, RoomConstants DEF RoomsInv, RunsTimely
<1>8. /\ DayOf(j)' = ThisDay
      /\ \A i \in Job \ {j} : DayOf(i)' = DayOf(i)
  BY <1>2, <1>6 DEF DayOf, ThisDay
<1>9. RunsOfDates'
  <2>1. CASE j = "update"
    <3>1. /\ run'["update"].dates = {ThisDay} /\ DayOf("update")' = ThisDay
          /\ run'["schedule"] = run["schedule"] /\ DayOf("schedule")' = DayOf("schedule")
      BY <1>6, <1>8, <2>1 DEF Dates, Job
    <3> QED
      BY <3>1 DEF RoomsInv, RunsOfDates
  <2>2. CASE j = "schedule"
    <3>1. /\ run'["schedule"].dates = ThisDay + 1 .. ThisDay + DaysAhead
          /\ DayOf("schedule")' = ThisDay
          /\ run'["update"] = run["update"] /\ DayOf("update")' = DayOf("update")
      BY <1>6, <1>8, <2>2 DEF Dates, Job
    <3> QED
      BY <3>1 DEF RoomsInv, RunsOfDates
  <2> QED
    BY <2>1, <2>2 DEF Job
<1>10. StoredInWindow' /\ NotFromAhead'
  BY <1>2, <1>3 DEF RoomsInv, StoredInWindow, NotFromAhead
<1>11. KeptAhead'
  <2>1. CASE j = "update"
    BY <1>2, <1>3, <1>6, <2>1 DEF RoomsInv, KeptAhead, Job
  <2>2. CASE j = "schedule"
    <3> SUFFICES ASSUME NEW d \in RoomDate, d > ThisDay, NEW k \in ListKey \ missed[d]
                 PROVE  d \in Dates("schedule") /\ roomClock <= rooms[d][k] + TicksOfDay + 1 + PutOff
      BY <1>2, <1>3, <1>6, <2>2 DEF KeptAhead
    <3>1. d <= ThisDay + DaysAhead
      BY DEF RoomsInv, StoredInWindow
    <3>2. d \in Dates("schedule")
      BY <1>1, <3>1, RoomNumbers, RoomConstants DEF Dates, RoomDate
    <3> QED
      BY <1>2, <2>2, <3>2 DEF RoomsInv, KeptAhead
  <2> QED
    BY <2>1, <2>2 DEF Job
<1>12. KeptToday'
  <2>1. Late' = Late
    <3>1. ThisDay \notin Dates("schedule")
      BY <1>1, RoomNumbers, RoomConstants DEF Dates
    <3> QED
      BY <1>2, <1>3, <1>6, <3>1 DEF Late, Job
  <2>2. CASE j = "update"
    BY <1>2, <1>3, <1>6, <1>8, <2>1, <2>2 DEF RoomsInv, KeptToday
  <2>3. CASE j = "schedule"
    BY <1>2, <1>3, <1>6, <1>8, <2>1, <2>3 DEF RoomsInv, KeptToday, Job
  <2> QED
    BY <2>2, <2>3 DEF Job
<1> QED
  BY <1>5, <1>7, <1>9, <1>10, <1>11, <1>12 DEF RoomsInv

(* What a date that is through changes.                                    *)
LEMMA RunAfter ==
  ASSUME NEW r \in [at : Nat, dates : SUBSET RoomDate, failed : BOOLEAN],
         NEW dates \in SUBSET RoomDate, NEW error \in BOOLEAN
  PROVE  /\ [r EXCEPT !.dates = dates, !.failed = error] \in [at : Nat, dates : SUBSET RoomDate, failed : BOOLEAN]
         /\ [r EXCEPT !.dates = dates, !.failed = error].at = r.at
         /\ [r EXCEPT !.dates = dates, !.failed = error].dates = dates
  OBVIOUS

LEMMA DueRun ==
  ASSUME NEW at \in Nat
  PROVE  /\ Due(at) \in [at : Nat, dates : SUBSET RoomDate, failed : BOOLEAN]
         /\ Due(at).at = at /\ Due(at).dates = {}
  BY DEF Due

LEMMA ThroughChanges ==
  ASSUME EmptyRoomsTypeOK, LeftInv, NEW j \in Job, NEW d \in RoomDate, NEW keys, NEW failed \in BOOLEAN,
         Through(j, d, keys, failed)
  PROVE  /\ d \in run[j].dates /\ UNCHANGED roomClock
         /\ run' \in [Job -> [at : Nat, dates : SUBSET RoomDate, failed : BOOLEAN]]
         /\ \A i \in Job \ {j} : run'[i] = run[i]
         /\ \/ run'[j].dates = run[j].dates \ {d} /\ run[j].dates \ {d} # {} /\ run'[j].at = run[j].at
            \/ /\ run[j].dates \ {d} = {} /\ run'[j].dates = {}
               /\ roomClock <= run'[j].at /\ run'[j].at <= roomClock + Every[j]
         /\ rooms' \in [RoomDate -> [ListKey -> 0 .. NoRooms]]
         /\ missed' \in [RoomDate -> SUBSET ListKey]
         /\ \A e \in RoomDate \ {d} : rooms'[e] = rooms[e] /\ missed'[e] = missed[e]
         /\ \A k \in ListKey \ missed'[d] : rooms'[d][k] = roomClock
<1> DEFINE left == run[j].dates \ {d}
           error == run[j].failed \/ failed
           due == IF error THEN roomClock ELSE roomClock + Every[j]
           goes == [run[j] EXCEPT !.dates = left, !.failed = error]
           lists == [k \in ListKey |-> IF k \in keys THEN roomClock ELSE rooms[d][k]]
<1>1. /\ d \in run[j].dates /\ UNCHANGED roomClock
      /\ rooms' = [rooms EXCEPT ![d] = lists]
      /\ missed' = [missed EXCEPT ![d] = ListKey \ keys]
      /\ run' = [run EXCEPT ![j] = IF left # {} THEN goes ELSE Due(due)]
  BY DEF Through
<1>2. /\ run[j] \in [at : Nat, dates : SUBSET RoomDate, failed : BOOLEAN]
      /\ error \in BOOLEAN /\ left \in SUBSET RoomDate /\ roomClock \in Nat
  BY DEF EmptyRoomsTypeOK
<1>3. due \in Nat /\ roomClock <= due /\ due <= roomClock + Every[j]
  BY <1>2, RoomConstants
<1>4. /\ goes \in [at : Nat, dates : SUBSET RoomDate, failed : BOOLEAN]
      /\ goes.at = run[j].at /\ goes.dates = left
  BY <1>2, RunAfter
<1>5. /\ Due(due) \in [at : Nat, dates : SUBSET RoomDate, failed : BOOLEAN]
      /\ Due(due).at = due /\ Due(due).dates = {}
  BY <1>3, DueRun
<1>6. run \in [Job -> [at : Nat, dates : SUBSET RoomDate, failed : BOOLEAN]]
  BY DEF EmptyRoomsTypeOK
<1>7. /\ run' \in [Job -> [at : Nat, dates : SUBSET RoomDate, failed : BOOLEAN]]
      /\ \A i \in Job \ {j} : run'[i] = run[i]
      /\ run'[j] = IF left # {} THEN goes ELSE Due(due)
  <2> HIDE DEF goes, due, left
  <2> QED
    BY <1>1, <1>4, <1>5, <1>6
<1>8. \/ run'[j].dates = left /\ left # {} /\ run'[j].at = run[j].at
      \/ /\ left = {} /\ run'[j].dates = {}
         /\ roomClock <= run'[j].at /\ run'[j].at <= roomClock + Every[j]
  <2> HIDE DEF goes, due, left
  <2> QED
    BY <1>3, <1>4, <1>5, <1>7
<1>9. lists \in [ListKey -> 0 .. NoRooms]
  BY RoomConstants DEF EmptyRoomsTypeOK, NoRooms
<1>10. /\ rooms' \in [RoomDate -> [ListKey -> 0 .. NoRooms]] /\ rooms'[d] = lists
       /\ missed' \in [RoomDate -> SUBSET ListKey] /\ missed'[d] = ListKey \ keys
       /\ \A e \in RoomDate \ {d} : rooms'[e] = rooms[e] /\ missed'[e] = missed[e]
  <2> HIDE DEF lists
  <2> QED
    BY <1>1, <1>9 DEF EmptyRoomsTypeOK
<1>11. \A k \in ListKey \ missed'[d] : rooms'[d][k] = roomClock
  BY <1>10
<1> QED
  BY <1>1, <1>7, <1>8, <1>10, <1>11

LEMMA ThroughKeeps ==
  ASSUME RoomsInv, NEW j \in Job, NEW d \in RoomDate, NEW keys, NEW failed \in BOOLEAN,
         Through(j, d, keys, failed), LeftInv', PutOff' = PutOff
  PROVE  RoomsInv'
<1>1. EmptyRoomsTypeOK /\ LeftInv
  BY DEF RoomsInv
<1>2. /\ d \in run[j].dates /\ roomClock' = roomClock
      /\ run' \in [Job -> [at : Nat, dates : SUBSET RoomDate, failed : BOOLEAN]]
      /\ \A i \in Job \ {j} : run'[i] = run[i]
      /\ \/ run'[j].dates = run[j].dates \ {d} /\ run[j].dates \ {d} # {} /\ run'[j].at = run[j].at
         \/ /\ run[j].dates \ {d} = {} /\ run'[j].dates = {}
            /\ roomClock <= run'[j].at /\ run'[j].at <= roomClock + Every[j]
      /\ rooms' \in [RoomDate -> [ListKey -> 0 .. NoRooms]]
      /\ missed' \in [RoomDate -> SUBSET ListKey]
      /\ \A e \in RoomDate \ {d} : rooms'[e] = rooms[e] /\ missed'[e] = missed[e]
      /\ \A k \in ListKey \ missed'[d] : rooms'[d][k] = roomClock
  BY <1>1, ThroughChanges
<1>3. ThisDay' = ThisDay
  BY <1>2 DEF ThisDay
<1>4. EmptyRoomsTypeOK'
  BY <1>1, <1>2 DEF EmptyRoomsTypeOK
<1>5. run[j].at <= roomClock /\ roomClock <= run[j].at + 1
  BY <1>2 DEF RoomsInv, RunsTimely
<1>6. RunsTimely'
  BY <1>1, <1>2, <1>5, RoomNumbers, RoomConstants DEF RoomsInv, RunsTimely
<1>7. RunsOfDates'
  <2>1. \A i \in Job : run'[i].dates = {} \/ (run'[i].at = run[i].at /\ run'[i].dates \subseteq run[i].dates)
    BY <1>2
  <2>2. \A i \in Job : run'[i].dates = {} \/ (DayOf(i)' = DayOf(i) /\ run'[i].dates \subseteq run[i].dates)
    BY <2>1 DEF DayOf
  <2> QED
    BY <2>2 DEF RoomsInv, RunsOfDates, Job
<1>8. d <= ThisDay + DaysAhead /\ d \in Nat /\ DayOf(j) <= ThisDay
  <2>1. DayOf(j) <= ThisDay /\ DayOf(j) \in Nat /\ ThisDay \in Nat
    BY <1>1, <1>5, RoomNumbers
  <2>2. d = DayOf(j) \/ d \in DayOf(j) + 1 .. DayOf(j) + DaysAhead
    BY <1>2 DEF RoomsInv, RunsOfDates, Job
  <2> QED
    BY <2>1, <2>2, RoomConstants
<1>9. StoredInWindow'
  BY <1>2, <1>3, <1>8 DEF RoomsInv, StoredInWindow
<1>10. NotFromAhead'
  <2> SUFFICES ASSUME NEW e \in RoomDate, e >= ThisDay, NEW k \in ListKey \ missed'[e]
               PROVE  rooms'[e][k] <= roomClock
    BY <1>2, <1>3 DEF NotFromAhead
  <2>1. CASE e = d
    BY <1>1, <1>2, <2>1, RoomNumbers
  <2>2. CASE e # d
    BY <1>2, <2>2 DEF RoomsInv, NotFromAhead
  <2> QED
    BY <2>1, <2>2
<1>11. KeptAhead'
  <2> SUFFICES ASSUME NEW e \in RoomDate, e > ThisDay, NEW k \in ListKey \ missed'[e]
               PROVE  \/ /\ run'["schedule"].dates # {} /\ e \notin run'["schedule"].dates
                         /\ run'["schedule"].at <= rooms'[e][k]
                      \/ /\ run'["schedule"].dates = {} \/ e \in run'["schedule"].dates
                         /\ run'["schedule"].at <= rooms'[e][k] + TicksOfDay + 1 + PutOff
    BY <1>3 DEF KeptAhead
  <2>1. CASE j = "update"
    <3>1. e # d
      BY <1>1, <1>2, <1>8, <2>1, RoomNumbers DEF RoomsInv, RunsOfDates
    <3>2. run'["schedule"] = run["schedule"] /\ rooms'[e] = rooms[e] /\ missed'[e] = missed[e]
      BY <1>2, <2>1, <3>1 DEF Job
    <3> QED
      BY <3>2 DEF RoomsInv, KeptAhead
  <2>2. CASE j = "schedule"
    <3> DEFINE s == rooms'[e][k]
    <3>1. s \in Nat /\ PutOff \in Nat /\ run["schedule"].at \in Nat /\ roomClock \in Nat /\ run'["schedule"].at \in Nat
      BY <1>1, <1>2, RoomNumbers DEF Job, NoRooms
    <3>2. e = d => s = roomClock
      BY <1>2
    <3>3. e # d => \/ e \notin run["schedule"].dates /\ run["schedule"].at <= s
                   \/ e \in run["schedule"].dates /\ run["schedule"].at <= s + TicksOfDay + 1 + PutOff
      BY <1>2, <2>2 DEF RoomsInv, KeptAhead
    <3> HIDE DEF s
    <3>4. CASE run'["schedule"].dates # {}
      <4>1. run'["schedule"].dates = run["schedule"].dates \ {d} /\ run'["schedule"].at = run["schedule"].at
        BY <1>2, <2>2, <3>4
      <4> QED
        BY <1>5, <2>2, <3>1, <3>2, <3>3, <3>4, <4>1 DEF s
    <3>5. CASE run'["schedule"].dates = {}
      <4>1. run["schedule"].dates = {d} /\ run'["schedule"].at <= roomClock + TicksOfDay
        BY <1>2, <2>2, <3>5, RoomConstants
      <4>2. roomClock <= s + 1
        BY <1>5, <2>2, <3>1, <3>2, <3>3, <4>1
      <4>3. run'["schedule"].at <= s + TicksOfDay + 1 + PutOff
        BY <3>1, <4>1, <4>2, RoomConstants
      <4> QED
        BY <3>5, <4>3 DEF s
    <3> QED
      BY <3>4, <3>5
  <2> QED
    BY <2>1, <2>2 DEF Job
<1>12. KeptToday'
  <2>1. ThisDay \in RoomDate
    BY <1>1, RoomNumbers, RoomConstants DEF RoomDate
  <2>2. SUFFICES ASSUME NEW k \in ListKey \ missed'[ThisDay]
                 PROVE  IF run'["update"].dates # {} /\ DayOf("update")' # ThisDay
                        THEN run'["update"].at <= rooms'[ThisDay][k] + TicksOfDay + PutOff + Late'
                        ELSE run'["update"].at <= rooms'[ThisDay][k] + TicksOfDay + TicksOfUpdate + 1 + PutOff + Late'
    BY <1>3 DEF KeptToday
  <2> DEFINE s == rooms'[ThisDay][k]
  <2>3. /\ s \in Nat /\ PutOff \in Nat /\ roomClock \in Nat /\ Late \in {0, 1} /\ Late' \in {0, 1}
        /\ run["update"].at \in Nat /\ run'["update"].at \in Nat
    BY <1>1, <1>2, <2>1, RoomNumbers DEF Job, NoRooms, Late
  <2>4. d = ThisDay => s = roomClock
    BY <1>2
  <2>5. d # ThisDay => IF run["update"].dates # {} /\ DayOf("update") # ThisDay
                       THEN run["update"].at <= s + TicksOfDay + PutOff + Late
                       ELSE run["update"].at <= s + TicksOfDay + TicksOfUpdate + 1 + PutOff + Late
    BY <1>2, <2>1 DEF RoomsInv, KeptToday
  <2> HIDE DEF s
  <2>6. CASE j = "update"
    <3>1. Late' = Late
      BY <1>2, <1>3, <2>6 DEF Late, Job
    <3>2. run["update"].dates = {d} /\ d = DayOf("update")
      BY <1>2, <2>6 DEF RoomsInv, RunsOfDates
    <3>3. run'["update"].dates = {} /\ run'["update"].at <= roomClock + TicksOfUpdate
      BY <1>2, <2>6, <3>2, RoomConstants
    <3>4. CASE d = ThisDay
      BY <2>3, <2>4, <3>1, <3>3, <3>4, RoomConstants DEF s
    <3>5. CASE d # ThisDay
      <4>1. run["update"].at <= s + TicksOfDay + PutOff + Late
        BY <2>5, <3>2, <3>5
      <4>2. run'["update"].at <= s + TicksOfDay + TicksOfUpdate + 1 + PutOff + Late
        BY <1>5, <2>3, <2>6, <3>3, <4>1, RoomConstants
      <4> QED
        BY <3>1, <3>3, <4>2 DEF s
    <3> QED
      BY <3>4, <3>5
  <2>7. CASE j = "schedule"
    <3>1. run'["update"] = run["update"] /\ DayOf("update")' = DayOf("update")
      BY <1>2, <2>7 DEF Job, DayOf
    <3>2. CASE d = ThisDay
      <4>1. run["update"].dates # {} => run["update"].at <= roomClock
        BY DEF RoomsInv, RunsTimely, Job
      <4>2. run["update"].at <= roomClock + TicksOfUpdate
        BY RoomConstants DEF RoomsInv, RunsTimely, Job
      <4> QED
        BY <2>3, <2>4, <3>1, <3>2, <4>1, <4>2, RoomConstants DEF s
    <3>3. CASE d # ThisDay
      <4>1. Late' = Late
        BY <1>2, <1>3, <2>7, <3>3 DEF Late
      <4> QED
        BY <2>5, <3>1, <3>3, <4>1 DEF s
    <3> QED
      BY <3>2, <3>3
  <2> QED
    BY <2>6, <2>7 DEF Job
<1> QED
  BY <1>4, <1>6, <1>7, <1>9, <1>10, <1>11, <1>12 DEF RoomsInv

(* An error takes from the budget of errors only.                          *)
LEMMA FaultPaid ==
  ASSUME LeftInv, Pays("fault") \/ UNCHANGED roomsLeft
  PROVE  LeftInv' /\ PutOff' = PutOff
<1>1. /\ roomsLeft' \in [{"fault", "restart"} -> Nat]
      /\ roomsLeft'["restart"] = roomsLeft["restart"]
  BY DEF LeftInv, Pays
<1> QED
  BY <1>1 DEF LeftInv, PutOff

LEMMA DateKeeps ==
  ASSUME RoomsInv, NEW j \in Job, NEW d \in RoomDate,
         UpdateEmptyRooms(j, d) \/ LoginFails(j, d) \/ QueryFails(j, d) \/ StoreFails(j, d)
  PROVE  RoomsInv'
<1>1. /\ Pays("fault") \/ UNCHANGED roomsLeft
      /\ \E keys : Through(j, d, keys, FALSE) \/ Through(j, d, keys, TRUE)
  BY DEF UpdateEmptyRooms, LoginFails, QueryFails, StoreFails
<1>2. PICK keys : Through(j, d, keys, FALSE) \/ Through(j, d, keys, TRUE)
  BY <1>1
<1>3. LeftInv' /\ PutOff' = PutOff
  BY <1>1, FaultPaid DEF RoomsInv
<1>4. CASE Through(j, d, keys, FALSE)
  BY <1>3, <1>4, ThroughKeeps
<1>5. CASE Through(j, d, keys, TRUE)
  BY <1>3, <1>5, ThroughKeeps
<1> QED
  BY <1>2, <1>4, <1>5

(* A run that has not come to the day that begins began in the last tick.  *)
LEMMA LateRun ==
  ASSUME RoomsInv, ThisDay \in run["schedule"].dates
  PROVE  DayOf("schedule") < ThisDay /\ roomClock = run["schedule"].at + 1
<1>1. /\ ThisDay \in Nat /\ DayOf("schedule") \in Nat
      /\ roomClock \in Nat /\ run["schedule"].at \in Nat
  BY RoomNumbers DEF RoomsInv, Job
<1>2. ThisDay \in DayOf("schedule") + 1 .. DayOf("schedule") + DaysAhead
  BY DEF RoomsInv, RunsOfDates
<1>3. DayOf("schedule") < ThisDay
  BY <1>1, <1>2
<1>4. run["schedule"].at # roomClock
  BY <1>1, <1>3 DEF DayOf, ThisDay
<1>5. run["schedule"].at <= roomClock /\ roomClock <= run["schedule"].at + 1
  BY DEF RoomsInv, RunsTimely, Job
<1> QED
  BY <1>1, <1>3, <1>4, <1>5

LEMMA RestartKeeps ==
  ASSUME RoomsInv, RoomsRestart
  PROVE  RoomsInv'
<1>1. EmptyRoomsTypeOK /\ LeftInv
  BY DEF RoomsInv
<1>2. /\ run' = [j \in Job |-> Due(roomClock)]
      /\ UNCHANGED <<roomClock, rooms, missed>>
      /\ roomsLeft["restart"] > 0 /\ roomsLeft' = [roomsLeft EXCEPT !["restart"] = @ - 1]
  BY DEF RoomsRestart, Pays
<1>3. /\ roomsLeft' \in [{"fault", "restart"} -> Nat]
      /\ roomsLeft'["restart"] = roomsLeft["restart"] - 1
  BY <1>1, <1>2 DEF LeftInv
<1>4. LeftInv' /\ PutOff' = PutOff + 1
  BY <1>1, <1>3, RoomConstants DEF LeftInv, PutOff
<1>5. ThisDay' = ThisDay
  BY <1>2 DEF ThisDay
<1>6. /\ Due(roomClock) \in [at : Nat, dates : SUBSET RoomDate, failed : BOOLEAN]
      /\ Due(roomClock).at = roomClock /\ Due(roomClock).dates = {}
  BY <1>1, RoomNumbers, DueRun
<1>7. /\ run' \in [Job -> [at : Nat, dates : SUBSET RoomDate, failed : BOOLEAN]]
      /\ \A j \in Job : run'[j].at = roomClock /\ run'[j].dates = {}
  BY <1>2, <1>6
<1>8. EmptyRoomsTypeOK'
  BY <1>1, <1>2, <1>7 DEF EmptyRoomsTypeOK
<1>9. RunsTimely' /\ RunsOfDates'
  BY <1>1, <1>2, <1>7, RoomNumbers, RoomConstants DEF RunsTimely, RunsOfDates, Job
<1>10. StoredInWindow' /\ NotFromAhead'
  BY <1>2, <1>5 DEF RoomsInv, StoredInWindow, NotFromAhead
<1>11. \A j \in Job : roomClock <= run[j].at + 1
  BY <1>1, RoomNumbers DEF RoomsInv, RunsTimely
<1>12. KeptAhead'
  <2> SUFFICES ASSUME NEW d \in RoomDate, d > ThisDay, NEW k \in ListKey \ missed[d]
               PROVE  roomClock <= rooms[d][k] + TicksOfDay + 1 + (PutOff + 1)
    BY <1>2, <1>4, <1>5, <1>7 DEF KeptAhead, Job
  <2>1. rooms[d][k] \in Nat /\ PutOff \in Nat /\ run["schedule"].at \in Nat /\ roomClock \in Nat
    BY <1>1, RoomNumbers DEF Job, NoRooms, EmptyRoomsTypeOK
  <2>2. \/ run["schedule"].at <= rooms[d][k]
        \/ run["schedule"].at <= rooms[d][k] + TicksOfDay + 1 + PutOff
    BY DEF RoomsInv, KeptAhead
  <2>3. roomClock <= run["schedule"].at + 1
    BY <1>11 DEF Job
  <2> QED
    BY <2>1, <2>2, <2>3, RoomConstants
<1>13. KeptToday'
  <2>1. ThisDay \in RoomDate
    BY <1>1, RoomNumbers, RoomConstants DEF RoomDate
  <2> SUFFICES ASSUME NEW k \in ListKey \ missed[ThisDay]
               PROVE  roomClock <= rooms[ThisDay][k] + TicksOfDay + TicksOfUpdate + 1 + (PutOff + 1) + 0
    BY <1>2, <1>4, <1>5, <1>7 DEF KeptToday, Late, Job
  <2>2. /\ rooms[ThisDay][k] \in Nat /\ PutOff \in Nat /\ run["update"].at \in Nat /\ roomClock \in Nat
        /\ Late \in {0, 1}
    BY <1>1, <2>1, RoomNumbers DEF Job, NoRooms, EmptyRoomsTypeOK, Late
  <2>3. IF run["update"].dates # {} /\ DayOf("update") # ThisDay
        THEN run["update"].at <= rooms[ThisDay][k] + TicksOfDay + PutOff + Late
        ELSE run["update"].at <= rooms[ThisDay][k] + TicksOfDay + TicksOfUpdate + 1 + PutOff + Late
    BY DEF RoomsInv, KeptToday
  <2>4. roomClock <= run["update"].at + 1
    BY <1>11 DEF Job
  <2>5. CASE run["update"].dates # {} /\ DayOf("update") # ThisDay
    BY <2>2, <2>3, <2>4, <2>5, RoomConstants
  <2>6. CASE run["update"].dates = {}
    <3>1. roomClock <= run["update"].at
      BY <2>6 DEF RoomsInv, RunsTimely, Job
    <3> QED
      BY <2>2, <2>3, <2>6, <3>1, RoomConstants
  <2>7. CASE DayOf("update") = ThisDay
    <3>1. Late = 1 => roomClock <= run["update"].at
      <4> SUFFICES ASSUME Late = 1 PROVE roomClock <= run["update"].at
        OBVIOUS
      <4>1. DayOf("schedule") < ThisDay /\ roomClock = run["schedule"].at + 1
        BY LateRun DEF Late
      <4>2. run["update"].at # run["schedule"].at
        BY <1>1, <2>7, <4>1, RoomNumbers DEF DayOf, Job
      <4>3. run["schedule"].at \in Nat
        BY <1>1, RoomNumbers DEF Job
      <4> QED
        BY <2>2, <2>4, <4>1, <4>2, <4>3
    <3> QED
      BY <2>2, <2>3, <2>4, <2>7, <3>1, RoomConstants
  <2> QED
    BY <2>5, <2>6, <2>7
<1> QED
  BY <1>4, <1>8, <1>9, <1>10, <1>12, <1>13 DEF RoomsInv

(* A list is as young as the runs have it, so that it lives.               *)
LEMMA TickKeeps ==
  ASSUME RoomsInv, RoomTick
  PROVE  RoomsInv'
<1>1. EmptyRoomsTypeOK /\ LeftInv
  BY DEF RoomsInv
<1>2. /\ roomClock < LastTick /\ roomClock' = roomClock + 1
      /\ \A j \in Job : run[j].at > roomClock \/ (run[j].dates # {} /\ run[j].at = roomClock)
      /\ rooms' = [d \in RoomDate |-> [k \in ListKey |->
            IF rooms[d][k] + RoomsLife > roomClock' THEN rooms[d][k] ELSE NoRooms]]
      /\ UNCHANGED <<run, roomsLeft, missed>>
  BY DEF RoomTick
<1>3. roomClock \in Nat /\ roomClock' \in 0 .. LastTick /\ NoRooms \in Nat
  BY <1>1, <1>2, RoomNumbers, RoomConstants DEF NoRooms
<1>4. LeftInv' /\ PutOff' = PutOff
  BY <1>1, <1>2 DEF LeftInv, PutOff
<1>5. /\ ThisDay \in Nat /\ ThisDay' \in Nat /\ ThisDay <= ThisDay'
      /\ ThisDay' \in RoomDate
  <2>1. /\ roomClock + 1 \in Nat /\ roomClock <= roomClock + 1 /\ roomClock + 1 <= LastTick
        /\ TicksOfDay \in Nat \ {0} /\ LastTick \in Nat
    BY <1>2, <1>3, RoomConstants
  <2>2. ThisDay' = (roomClock + 1) \div TicksOfDay
    BY <1>2 DEF ThisDay
  <2>3. ThisDay \in Nat /\ ThisDay' \in Nat /\ LastTick \div TicksOfDay \in Nat
    BY <1>3, <2>1, <2>2, DivFacts DEF ThisDay
  <2>4. ThisDay <= ThisDay'
    BY <1>3, <2>1, <2>2, DivMonotone DEF ThisDay
  <2>5. ThisDay' <= LastTick \div TicksOfDay
    BY <2>1, <2>2, DivMonotone
  <2> QED
    BY <2>3, <2>4, <2>5, RoomConstants DEF RoomDate
<1>6. rooms' \in [RoomDate -> [ListKey -> 0 .. NoRooms]]
  <2>1. \A d \in RoomDate, k \in ListKey : rooms[d][k] \in 0 .. NoRooms
    BY <1>1 DEF EmptyRoomsTypeOK
  <2> QED
    BY <1>2, <1>3, <2>1
<1>7. EmptyRoomsTypeOK'
  BY <1>1, <1>2, <1>3, <1>6 DEF EmptyRoomsTypeOK
<1>8. \A j \in Job : DayOf(j)' = DayOf(j)
  BY <1>2 DEF DayOf
<1>9. RunsTimely'
  BY <1>1, <1>2, <1>3, RoomNumbers, RoomConstants DEF RoomsInv, RunsTimely
<1>10. RunsOfDates'
  BY <1>2, <1>8 DEF RoomsInv, RunsOfDates, Job
<1>11. StoredInWindow'
  <2> SUFFICES ASSUME NEW d \in RoomDate, missed[d] # ListKey PROVE d <= ThisDay' + DaysAhead
    BY <1>2 DEF StoredInWindow
  <2>1. d <= ThisDay + DaysAhead
    BY DEF RoomsInv, StoredInWindow
  <2>2. d \in Nat /\ DaysAhead \in Nat
    BY RoomConstants DEF RoomDate
  <2>3. \A m, n \in Nat : m <= n /\ d <= m + DaysAhead => d <= n + DaysAhead
    BY <2>2
  <2> QED
    BY <1>5, <2>1, <2>3
<1>12. ThisDay \notin run["schedule"].dates
  <2> SUFFICES ASSUME ThisDay \in run["schedule"].dates PROVE FALSE
    OBVIOUS
  <2>1. roomClock = run["schedule"].at + 1 /\ run["schedule"].at \in Nat
    BY <1>1, LateRun, RoomNumbers DEF Job
  <2> QED
    BY <1>2, <2>1 DEF Job
(* No list of a day ahead, and none of today, expires.                     *)
<1>13. ASSUME NEW d \in RoomDate, d > ThisDay, NEW k \in ListKey \ missed[d]
       PROVE  rooms'[d][k] = rooms[d][k]
  <2>1. /\ rooms[d][k] \in Nat /\ PutOff \in Nat /\ run["schedule"].at \in Nat
        /\ PutOff <= TicksOfDay - TicksOfUpdate - 3
    BY <1>1, <1>3, RoomNumbers DEF Job, EmptyRoomsTypeOK
  <2>2. roomClock <= run["schedule"].at
    BY <1>2, <1>3, <2>1 DEF Job
  <2>3. \/ run["schedule"].at <= rooms[d][k]
        \/ run["schedule"].at <= rooms[d][k] + TicksOfDay + 1 + PutOff
    BY <1>13 DEF RoomsInv, KeptAhead
  <2>4. rooms[d][k] + RoomsLife > roomClock'
    BY <1>2, <1>3, <2>1, <2>2, <2>3, RoomConstants DEF RoomsLife
  <2> QED
    BY <1>2, <2>4
<1>14. ASSUME NEW k \in ListKey \ missed[ThisDay]
       PROVE  /\ rooms'[ThisDay][k] = rooms[ThisDay][k]
              /\ run["update"].at <= rooms[ThisDay][k] + TicksOfDay + TicksOfUpdate + 1 + PutOff
  <2>1. ThisDay \in RoomDate
    BY <1>1, RoomNumbers, RoomConstants DEF RoomDate
  <2>2. /\ rooms[ThisDay][k] \in Nat /\ PutOff \in Nat /\ run["update"].at \in Nat
        /\ PutOff <= TicksOfDay - TicksOfUpdate - 3
    BY <1>1, <1>3, <2>1, RoomNumbers DEF Job, EmptyRoomsTypeOK
  <2>3. roomClock <= run["update"].at
    BY <1>2, <1>3, <2>2 DEF Job
  <2>4. run["update"].dates = {} \/ DayOf("update") = ThisDay
    <3>1. run["update"].dates = {} \/ run["update"].at = roomClock
      BY <1>2, <1>3, <2>2 DEF RoomsInv, RunsTimely, Job
    <3> QED
      BY <3>1 DEF DayOf, ThisDay
  <2>5. run["update"].at <= rooms[ThisDay][k] + TicksOfDay + TicksOfUpdate + 1 + PutOff + 0
    BY <1>12, <2>4 DEF RoomsInv, KeptToday, Late
  <2>6. rooms[ThisDay][k] + RoomsLife > roomClock'
    BY <1>2, <1>3, <2>2, <2>3, <2>5, RoomConstants DEF RoomsLife
  <2> QED
    BY <1>2, <2>1, <2>2, <2>5, <2>6, RoomConstants
<1>15. NotFromAhead'
  <2> SUFFICES ASSUME NEW d \in RoomDate, d >= ThisDay', NEW k \in ListKey \ missed[d]
               PROVE  rooms'[d][k] <= roomClock'
    BY <1>2 DEF NotFromAhead
  <2>1. d \in Nat /\ ThisDay \in Nat
    BY <1>1, RoomNumbers, RoomConstants DEF RoomDate
  <2>2. rooms'[d][k] = rooms[d][k]
    BY <1>5, <1>13, <1>14, <2>1
  <2>3. rooms[d][k] <= roomClock /\ rooms[d][k] \in Nat
    BY <1>1, <1>3, <1>5, <2>1 DEF RoomsInv, NotFromAhead, EmptyRoomsTypeOK
  <2> QED
    BY <1>2, <1>3, <2>2, <2>3
<1>16. KeptAhead'
  <2> SUFFICES ASSUME NEW d \in RoomDate, d > ThisDay', NEW k \in ListKey \ missed[d]
               PROVE  /\ d > ThisDay
                      /\ rooms'[d][k] = rooms[d][k]
    BY <1>2, <1>4 DEF RoomsInv, KeptAhead
  <2>1. d > ThisDay
    BY <1>1, <1>5, RoomNumbers, RoomConstants DEF RoomDate
  <2> QED
    BY <1>13, <2>1
<1>17. CASE ThisDay' = ThisDay
  <2>1. KeptToday'
    <3> SUFFICES ASSUME NEW k \in ListKey \ missed[ThisDay]
                 PROVE  /\ run["update"].dates # {} => DayOf("update") = ThisDay
                        /\ run["update"].at <= rooms'[ThisDay][k] + TicksOfDay + TicksOfUpdate + 1 + PutOff + 0
      BY <1>2, <1>4, <1>8, <1>12, <1>17 DEF KeptToday, Late, Job
    <3>1. run["update"].dates # {} => run["update"].at = roomClock
      BY <1>1, <1>2, <1>3, RoomNumbers DEF RoomsInv, RunsTimely, Job
    <3>2. run["update"].dates # {} => DayOf("update") = ThisDay
      BY <3>1 DEF DayOf, ThisDay
    <3>3. rooms[ThisDay][k] \in Nat /\ PutOff \in Nat
      BY <1>1, <1>3, RoomNumbers, RoomConstants DEF EmptyRoomsTypeOK, RoomDate
    <3> QED
      BY <1>14, <3>2, <3>3, RoomConstants
  <2> QED
    BY <1>4, <1>7, <1>9, <1>10, <1>11, <1>15, <1>16, <2>1 DEF RoomsInv
<1>18. CASE ThisDay' # ThisDay
  <2>1. ThisDay' > ThisDay
    BY <1>1, <1>5, <1>18, RoomNumbers
  <2>2. KeptToday'
    <3> DEFINE today == ThisDay'
               late == IF today \in run["schedule"].dates THEN 1 ELSE 0
    <3>1. today \in RoomDate
      BY <1>5
    <3>2. Late' = late
      BY <1>2 DEF Late
    <3> SUFFICES ASSUME NEW k \in ListKey \ missed[today]
                 PROVE  IF run["update"].dates # {} /\ DayOf("update") # today
                        THEN run["update"].at <= rooms'[today][k] + TicksOfDay + PutOff + late
                        ELSE run["update"].at <= rooms'[today][k] + TicksOfDay + TicksOfUpdate + 1 + PutOff + late
      BY <1>2, <1>4, <1>8, <3>2 DEF KeptToday, Job
    <3>3. rooms'[today][k] = rooms[today][k]
      BY <1>13, <2>1, <3>1
    <3>4. /\ rooms[today][k] \in Nat /\ PutOff \in Nat /\ run["update"].at \in Nat /\ late \in {0, 1}
          /\ run["schedule"].at \in Nat
      BY <1>1, <1>3, <3>1, RoomNumbers DEF Job, EmptyRoomsTypeOK
    <3>5. \/ run["schedule"].dates # {} /\ run["schedule"].at <= rooms[today][k]
          \/ run["schedule"].dates = {} /\ run["schedule"].at <= rooms[today][k] + TicksOfDay + 1 + PutOff
          \/ late = 1 /\ run["schedule"].dates # {} /\ run["schedule"].at <= rooms[today][k] + TicksOfDay + 1 + PutOff
      BY <2>1, <3>1 DEF RoomsInv, KeptAhead
    <3>6. /\ roomClock <= run["schedule"].at
          /\ run["schedule"].dates = {} => roomClock + 1 <= run["schedule"].at
      BY <1>2, <1>3, <3>4 DEF RoomsInv, RunsTimely, Job
    <3>7. /\ run["update"].dates # {} => run["update"].at = roomClock
          /\ run["update"].at <= roomClock + TicksOfUpdate
      BY <1>2, <1>3, <3>4, RoomConstants DEF RoomsInv, RunsTimely, Job
    <3>8. roomClock <= rooms[today][k] + TicksOfDay + PutOff + late
      <4> HIDE DEF late
      <4> QED
        BY <1>3, <3>4, <3>5, <3>6, RoomConstants
    <3> HIDE DEF late
    <3> QED
      BY <1>3, <3>3, <3>4, <3>7, <3>8, RoomConstants
  <2> QED
    BY <1>4, <1>7, <1>9, <1>10, <1>11, <1>15, <1>16, <2>2 DEF RoomsInv
<1> QED
  BY <1>17, <1>18

LEMMA RoomsInvStep ==
  ASSUME RoomsInv, [EmptyRoomsNext]_roomVars
  PROVE  RoomsInv'
<1>1. CASE RoomsRestart
  BY <1>1, RestartKeeps
<1>2. CASE RoomTick
  BY <1>2, TickKeeps
<1>3. ASSUME NEW j \in Job, BeginRun(j) PROVE RoomsInv'
  BY <1>3, BeginRunKeeps
<1>4. ASSUME NEW j \in Job, NEW d \in RoomDate,
             UpdateEmptyRooms(j, d) \/ LoginFails(j, d) \/ QueryFails(j, d) \/ StoreFails(j, d)
      PROVE  RoomsInv'
  BY <1>4, DateKeeps
<1>5. CASE UNCHANGED roomVars
  BY <1>5 DEF roomVars, RoomsInv, EmptyRoomsTypeOK, LeftInv, PutOff, RunsTimely, RunsOfDates, DayOf,
              StoredInWindow, ThisDay, NotFromAhead, KeptAhead, KeptToday, Late
<1> QED
  BY <1>1, <1>2, <1>3, <1>4, <1>5 DEF EmptyRoomsNext

LEMMA RoomsInvHolds == EmptyRoomsSpec => []RoomsInv
<1> QED
  BY RoomsInvInit, RoomsInvStep, PTL DEF EmptyRoomsSpec

(* The runs and the lists have their types.                                *)
THEOREM RoomsTypeCorrect == EmptyRoomsSpec => []EmptyRoomsTypeOK
<1>1. RoomsInv => EmptyRoomsTypeOK
  BY DEF RoomsInv
<1> QED
  BY <1>1, RoomsInvHolds, PTL

(* A list that the last run that came to it has stored is there until its  *)
(* day is over, for every length of a day, of the time between two runs    *)
(* for today and of the look ahead, if the restarts do not put off runs by *)
(* more than the day has left.                                             *)
THEOREM ListsLast == EmptyRoomsSpec => []RoomsKept
<1>1. ASSUME RoomsInv PROVE RoomsKept
  <2> SUFFICES ASSUME NEW d \in RoomDate, d >= ThisDay, NEW k \in ListKey \ missed[d]
               PROVE  rooms[d][k] # NoRooms
    BY DEF RoomsKept, Answered
  <2>1. rooms[d][k] <= roomClock
    BY <1>1 DEF RoomsInv, NotFromAhead
  <2>2. roomClock \in 0 .. LastTick /\ NoRooms = LastTick + 1
    BY <1>1 DEF RoomsInv, EmptyRoomsTypeOK, NoRooms
  <2> QED
    BY <2>1, <2>2, RoomConstants
<1> QED
  BY <1>1, RoomsInvHolds, PTL

-----------------------------------------------------------------------------
(* Ids.  One is handed out twice only if its millisecond was lived through *)
(* twice.  The code keeps the last time and sequence only, so the proof    *)
(* must say of every id ever handed out where it lies relative to these:   *)
(* of times that were lived through once, no id is ahead of the clock, and *)
(* one of the current millisecond implies that the code remembers this     *)
(* millisecond and, unless it waits for the next one, a sequence that is   *)
(* not smaller.                                                            *)

IssuedBehind ==
    \A id \in issued :
        id[1] \notin revisited =>
            /\ id[1] <= clock
            /\ id[1] = clock => timestamp = clock /\ (~spinning => id[2] <= sequence)

SnowflakeInv == SnowflakeTypeOK /\ IssuedBehind /\ RepeatsExplained

(* Types hold initially and are kept by every step.                        *)
LEMMA SnowflakeTypeInit == SnowflakeInit => SnowflakeTypeOK
<1> SUFFICES ASSUME SnowflakeInit PROVE SnowflakeTypeOK
  OBVIOUS
<1>1. 0 \in 0 .. SequenceMask
  BY SnowflakeAssumption DEF SnowflakeAssumption
<1>2. /\ clock \in Clock
      /\ timestamp \in Nat \cup {Unset}
      /\ sequence \in 0 .. SequenceMask
  BY <1>1 DEF SnowflakeInit
<1>3. /\ spinning \in BOOLEAN
      /\ issued \subseteq (0 .. TimestampMax) \X (0 .. SequenceMask)
      /\ repeated \subseteq issued
      /\ revisited \subseteq Nat
  BY DEF SnowflakeInit
<1> QED
  BY <1>2, <1>3 DEF SnowflakeTypeOK

LEMMA FinishType ==
  ASSUME SnowflakeTypeOK, NEW seq \in 0 .. SequenceMask, Finish(seq)
  PROVE  /\ timestamp' \in Nat \cup {Unset}
         /\ sequence' \in 0 .. SequenceMask
         /\ issued' \subseteq (0 .. TimestampMax) \X (0 .. SequenceMask)
         /\ repeated' \subseteq issued'
<1>1. CASE clock > TimestampMax
  BY <1>1, SnowflakeAssumption DEF SnowflakeAssumption, Finish, SnowflakeTypeOK
<1>2. CASE ~(clock > TimestampMax)
  <2>1. clock \in 0 .. TimestampMax
    BY <1>2, SnowflakeAssumption DEF SnowflakeAssumption, SnowflakeTypeOK
  <2>2. <<clock, seq>> \in (0 .. TimestampMax) \X (0 .. SequenceMask)
    BY <2>1
  <2> QED
    BY <1>2, <2>1, <2>2, SnowflakeAssumption DEF SnowflakeAssumption, Finish, HandOut, SnowflakeTypeOK
<1> QED
  BY <1>1, <1>2

LEMMA SnowflakeTypeStep ==
  ASSUME SnowflakeTypeOK, [SnowflakeNext]_snowflakeVars
  PROVE  SnowflakeTypeOK'
<1> USE SnowflakeAssumption DEF SnowflakeAssumption, Unset
<1>1. CASE NextValNewTime
  BY <1>1, FinishType DEF NextValNewTime, SnowflakeTypeOK
<1>2. CASE NextValSameTime
  <2>1. sequence + 1 \in 0 .. SequenceMask
    BY <1>2 DEF NextValSameTime, SnowflakeTypeOK
  <2> QED
    BY <1>2, <2>1, FinishType DEF NextValSameTime, SnowflakeTypeOK
<1>3. CASE NextValSpins
  BY <1>3 DEF NextValSpins, SnowflakeTypeOK
<1>4. CASE SpinEnds
  <2>1. sequence \in 0 .. SequenceMask
    BY DEF SnowflakeTypeOK
  <2> QED
    BY <1>4, <2>1, FinishType DEF SpinEnds, SnowflakeTypeOK
<1>5. CASE ClockTicks
  BY <1>5 DEF ClockTicks, SnowflakeTypeOK
<1>6. CASE NewSnowflake
  <2>1. clock \in Nat /\ 0 \in 0 .. SequenceMask
    BY DEF SnowflakeTypeOK
  <2>2. /\ timestamp' \in Nat \cup {Unset}
        /\ sequence' \in 0 .. SequenceMask
    BY <1>6, <2>1 DEF NewSnowflake
  <2>3. clock' \in Clock /\ spinning' \in BOOLEAN /\ revisited' \subseteq Nat
    BY <1>6, <2>1 DEF NewSnowflake, SnowflakeTypeOK
  <2> QED
    BY <1>6, <2>2, <2>3 DEF NewSnowflake, SnowflakeTypeOK
<1>7. ASSUME NEW t \in Clock, ClockSetBack(t) PROVE SnowflakeTypeOK'
  BY <1>7 DEF ClockSetBack, SnowflakeTypeOK
<1>8. CASE UNCHANGED snowflakeVars
  BY <1>8 DEF snowflakeVars, SnowflakeTypeOK
<1> QED
  BY <1>1, <1>2, <1>3, <1>4, <1>5, <1>6, <1>7, <1>8 DEF SnowflakeNext

(* The end of NextVal hands out an id of the current millisecond that, if  *)
(* this millisecond was lived through once, nobody has.                    *)
LEMMA FinishKeeps ==
  ASSUME SnowflakeInv, SnowflakeTypeOK', NEW seq \in 0 .. SequenceMask, Finish(seq),
         UNCHANGED <<clock, revisited>>,
         spinning' = FALSE,
         clock \notin revisited => <<clock, seq>> \notin issued,
         \A id \in issued :
            id[1] \notin revisited /\ id[1] = clock => timestamp = clock /\ id[2] <= seq
  PROVE  IssuedBehind' /\ RepeatsExplained'
<1>1. CASE clock > TimestampMax
  BY <1>1 DEF Finish, SnowflakeInv, IssuedBehind, RepeatsExplained
<1>2. CASE ~(clock > TimestampMax)
  <2>1. /\ timestamp' = clock /\ sequence' = seq
        /\ issued' = issued \cup {<<clock, seq>>}
        /\ repeated' = IF <<clock, seq>> \in issued THEN repeated \cup {<<clock, seq>>} ELSE repeated
    BY <1>2 DEF Finish, HandOut
  <2>2. IssuedBehind'
    <3> SUFFICES ASSUME NEW id \in issued', id[1] \notin revisited
                 PROVE  id[1] <= clock /\ (id[1] = clock => id[2] <= seq)
      BY <2>1 DEF IssuedBehind
    <3>1. CASE id = <<clock, seq>>
      BY <3>1, SnowflakeAssumption DEF SnowflakeAssumption, SnowflakeInv, SnowflakeTypeOK
    <3>2. CASE id \in issued
      BY <3>2 DEF SnowflakeInv, IssuedBehind
    <3> QED
      BY <2>1, <3>1, <3>2
  <2>3. RepeatsExplained'
    BY <2>1 DEF SnowflakeInv, RepeatsExplained
  <2> QED
    BY <2>2, <2>3
<1> QED
  BY <1>1, <1>2

LEMMA InvariantStep ==
  ASSUME SnowflakeInv, [SnowflakeNext]_snowflakeVars
  PROVE  SnowflakeInv'
<1> USE SnowflakeAssumption DEF SnowflakeAssumption, Unset
<1>0. SnowflakeTypeOK /\ SnowflakeTypeOK'
  BY SnowflakeTypeStep DEF SnowflakeInv
<1>1. CASE NextValNewTime
  <2>1. \A id \in issued : id[1] \notin revisited => id[1] # clock
    BY <1>1 DEF NextValNewTime, SnowflakeInv, IssuedBehind
  <2>2. clock \notin revisited => <<clock, 0>> \notin issued
    BY <2>1
  <2>3. spinning' = FALSE
    BY <1>0, <1>1 DEF NextValNewTime, SnowflakeTypeOK
  <2>4. Finish(0) /\ UNCHANGED <<clock, revisited>> /\ 0 \in 0 .. SequenceMask
    BY <1>1 DEF NextValNewTime
  <2> QED
    BY <1>0, <2>1, <2>2, <2>3, <2>4, FinishKeeps DEF SnowflakeInv
<1>2. CASE NextValSameTime
  <2>1. sequence + 1 \in 0 .. SequenceMask /\ sequence \in Nat
    BY <1>0, <1>2 DEF NextValSameTime, SnowflakeTypeOK
  <2>2. \A id \in issued :
          id[1] \notin revisited /\ id[1] = clock => timestamp = clock /\ id[2] <= sequence /\ id[2] \in Nat
    BY <1>0, <1>2 DEF NextValSameTime, SnowflakeInv, IssuedBehind, SnowflakeTypeOK
  <2>3. clock \notin revisited => <<clock, sequence + 1>> \notin issued
    BY <2>1, <2>2
  <2>4. \A id \in issued :
          id[1] \notin revisited /\ id[1] = clock => timestamp = clock /\ id[2] <= sequence + 1
    BY <2>1, <2>2
  <2>5. spinning' = FALSE
    BY <1>0, <1>2 DEF NextValSameTime, SnowflakeTypeOK
  <2>6. Finish(sequence + 1) /\ UNCHANGED <<clock, revisited>>
    BY <1>2 DEF NextValSameTime
  <2> QED
    BY <1>0, <2>1, <2>3, <2>4, <2>5, <2>6, FinishKeeps DEF SnowflakeInv
<1>3. CASE NextValSpins
  BY <1>0, <1>3 DEF NextValSpins, SnowflakeInv, IssuedBehind, RepeatsExplained
<1>4. CASE SpinEnds
  <2>1. timestamp # clock
    BY <1>0, <1>4 DEF SpinEnds, SnowflakeTypeOK, Unset
  <2>2. \A id \in issued : id[1] \notin revisited => id[1] # clock
    BY <2>1 DEF SnowflakeInv, IssuedBehind
  <2>3. clock \notin revisited => <<clock, sequence>> \notin issued
    BY <2>2
  <2>4. sequence \in 0 .. SequenceMask
    BY <1>0 DEF SnowflakeTypeOK
  <2> QED
    BY <1>0, <1>4, <2>2, <2>3, <2>4, FinishKeeps DEF SpinEnds, SnowflakeInv
<1>5. CASE ClockTicks
  <2> SUFFICES ASSUME NEW id \in issued, id[1] \notin revisited
               PROVE  id[1] <= clock + 1 /\ id[1] # clock + 1
    BY <1>0, <1>5 DEF ClockTicks, SnowflakeInv, IssuedBehind, RepeatsExplained
  <2>1. id[1] \in Nat /\ clock \in Nat /\ id[1] <= clock
    BY <1>0 DEF SnowflakeInv, IssuedBehind, SnowflakeTypeOK
  <2> QED
    BY <2>1
<1>6. CASE NewSnowflake
  BY <1>0, <1>6 DEF NewSnowflake, SnowflakeInv, IssuedBehind, RepeatsExplained
<1>7. ASSUME NEW t \in Clock, ClockSetBack(t) PROVE SnowflakeInv'
  <2>1. /\ clock' = t /\ t < clock /\ revisited' = revisited \cup (t .. clock)
        /\ UNCHANGED <<timestamp, sequence, spinning, issued, repeated>>
    BY <1>7 DEF ClockSetBack
  <2>2. \A id \in issued : id[1] \notin revisited' => id[1] < t
    <3> SUFFICES ASSUME NEW id \in issued, id[1] \notin revisited, id[1] \notin t .. clock
                 PROVE  id[1] < t
      BY <2>1
    <3>1. id[1] \in Nat /\ clock \in Nat /\ t \in Nat /\ id[1] <= clock
      BY <1>0 DEF SnowflakeInv, IssuedBehind, SnowflakeTypeOK
    <3> QED
      BY <3>1
  <2>3. \A id \in issued : id[1] \in Nat
    BY <1>0 DEF SnowflakeTypeOK
  <2>4. IssuedBehind'
    BY <2>1, <2>2, <2>3 DEF IssuedBehind
  <2>5. RepeatsExplained'
    BY <2>1 DEF SnowflakeInv, RepeatsExplained
  <2> QED
    BY <1>0, <2>4, <2>5 DEF SnowflakeInv
<1>8. CASE UNCHANGED snowflakeVars
  BY <1>0, <1>8 DEF snowflakeVars, SnowflakeInv, IssuedBehind, RepeatsExplained
<1> QED
  BY <1>1, <1>2, <1>3, <1>4, <1>5, <1>6, <1>7, <1>8 DEF SnowflakeNext

LEMMA Invariant == SnowflakeSpec => []SnowflakeInv
<1>1. SnowflakeInit => SnowflakeInv
  BY SnowflakeTypeInit DEF SnowflakeInit, SnowflakeInv, IssuedBehind, RepeatsExplained
<1>2. SnowflakeInv /\ [SnowflakeNext]_snowflakeVars => SnowflakeInv'
  BY InvariantStep
<1> QED
  BY <1>1, <1>2, PTL DEF SnowflakeSpec

(* The clock, the fields of the generator and the ids handed out keep      *)
(* their types: no sequence exceeds its bits (snowflake.go:72), no id has  *)
(* a time that does not fit (snowflake.go:85).                             *)
THEOREM IdsFit == SnowflakeSpec => []SnowflakeTypeOK
<1>1. SnowflakeInv => SnowflakeTypeOK
  BY DEF SnowflakeInv
<1> QED
  BY <1>1, Invariant, PTL

(* Whatever the clock does and however many processes follow each other,   *)
(* an id repeats only in a millisecond that was lived through twice; with  *)
(* a clock that is never set back and no restart within a millisecond all  *)
(* ids of the generator differ (snowflake.go:67-93).                       *)
THEOREM IdsUnique == SnowflakeSpec => []RepeatsExplained
<1>1. SnowflakeInv => RepeatsExplained
  BY DEF SnowflakeInv
<1> QED
  BY <1>1, Invariant, PTL

=============================================================================
