------------------------- MODULE ResponseQueueProofs -------------------------
(***************************************************************************)
(* Theorems about ResponseQueue, for every limit, every set of sizes and   *)
(* every number of calls.  The invariant IInv is what one needs to know of *)
(* the tasks that wait on the strand to see that NoGap, NoLostWakeup and   *)
(* OneResumption survive every step.                                       *)
(***************************************************************************)
EXTENDS ResponseQueue, WellFoundedInduction, TLAPS

USE LimitsAssumption, SizesAssumption, BoundsAssumption

-----------------------------------------------------------------------------
(* Types *)

LEMMA PushIsTask ==
    ASSUME TypeOK, NEW size \in Sizes, pushes < MaxPushes
    PROVE  PushTask([id |-> pushes + 1, size |-> size]) \in Task
<1>1. [id |-> pushes + 1, size |-> size] \in Message
  BY DEF TypeOK, Message
<1> QED
  BY <1>1 DEF PushTask, Task

LEMMA ResumeIsTask == Cancelled \in Task /\ Expired \in Task
BY DEF Cancelled, Expired, Task

LEMMA CloseIsTask == CloseTask \in Task
BY DEF CloseTask, Task

LEMMA CancelWakeTyped ==
    ASSUME NEW STATE rest, rest \in Seq(Task), CancelWake(rest)
    PROVE  strand' \in Seq(Task) /\ wake_' \in {"idle", "armed"}
BY ResumeIsTask DEF CancelWake

LEMMA HeadPush ==
    ASSUME TypeOK, strand # <<>>, Head(strand).op = "push"
    PROVE  Head(strand).msg \in Message
<1>1. Head(strand) \in Task
  BY DEF TypeOK
<1> QED
  BY <1>1 DEF Task

LEMMA TurnTyped ==
    ASSUME TypeOK, PopForTurn \/ AnswerNull
    PROVE  /\ messages_' \in Seq(Message)
           /\ queued_bytes_' \in Int
           /\ wake_' \in {"idle", "armed"}
           /\ reader' \in {"caller", "waiting", "writing", "ending", "left"}
           /\ result' \in {"none", "message", "null"}
           /\ taken' \in Nat
<1>1. CASE TakeMessage
  <2>1. Head(messages_) \in Message /\ Tail(messages_) \in Seq(Message)
    BY <1>1 DEF TypeOK, TakeMessage
  <2>2. Head(messages_).size \in Nat
    BY <2>1 DEF Message
  <2>3. queued_bytes_ - Head(messages_).size \in Int
    BY <2>2 DEF TypeOK
  <2> QED
    BY <1>1, <2>1, <2>3 DEF TypeOK, TakeMessage
<1>2. CASE AnswerNull
  BY <1>2 DEF TypeOK, AnswerNull
<1>3. CASE Suspend
  BY <1>3 DEF TypeOK, Suspend
<1> QED
  BY <1>1, <1>2, <1>3 DEF PopForTurn

\* Type correctness is inductive by itself.
LEMMA Typing == TypeOK /\ [Next]_vars => TypeOK'
<1> SUFFICES ASSUME TypeOK, [Next]_vars PROVE TypeOK'
  OBVIOUS
<1>1. ASSUME NEW size \in Sizes, Push(size) PROVE TypeOK'
  <2>1. PushTask([id |-> pushes + 1, size |-> size]) \in Task
    BY <1>1, PushIsTask DEF Push
  <2> QED
    BY <1>1, <2>1 DEF Push, TypeOK, queue
<1>2. CASE Close
  BY <1>2, CloseIsTask DEF Close, TypeOK, queue
<1>3. CASE RunPush
  <2>1. Tail(strand) \in Seq(Task)
    BY <1>3 DEF RunPush, Enter, CloseSlow, TypeOK
  <2>2. Head(strand).msg \in Message
    BY <1>3, HeadPush DEF RunPush, Enter, CloseSlow
  <2>3. Head(strand).msg.size \in Nat
    BY <2>2 DEF Message
  <2>4. strand' \in Seq(Task) /\ wake_' \in {"idle", "armed"}
    BY <1>3, <2>1, CancelWakeTyped DEF RunPush, Enter, CloseSlow, TypeOK, queue
  <2>5. /\ messages_' \in Seq(Message) /\ queued_bytes_' \in Int
        /\ closed_' \in BOOLEAN /\ cancelled_' \in BOOLEAN
    <3>1. CASE UNCHANGED <<queue, cancelled_>>
      BY <3>1 DEF queue, TypeOK
    <3>2. CASE CloseSlow
      BY <3>2 DEF CloseSlow, TypeOK
    <3>3. CASE Enter(Head(strand).msg)
      BY <3>3, <2>2, <2>3 DEF Enter, TypeOK
    <3> QED
      BY <1>3, <3>1, <3>2, <3>3 DEF RunPush
  <2>6. UNCHANGED <<reader, result, taken, pushes, closes>>
    BY <1>3 DEF RunPush, calls
  <2> QED
    BY <2>4, <2>5, <2>6 DEF TypeOK
<1>4. CASE RunClose
  <2>1. Tail(strand) \in Seq(Task)
    BY <1>4 DEF RunClose, TypeOK
  <2>2. strand' \in Seq(Task) /\ wake_' \in {"idle", "armed"}
    BY <1>4, <2>1, CancelWakeTyped DEF RunClose
  <2> QED
    BY <1>4, <2>2 DEF RunClose, TypeOK, calls
<1>5. CASE RunResume
  BY <1>5, TurnTyped DEF RunResume, TypeOK, calls
<1>6. CASE Expire
  BY <1>6, ResumeIsTask DEF Expire, TypeOK, queue, calls
<1>7. CASE CallPopFor
  BY <1>7, TurnTyped DEF CallPopFor, TypeOK, calls
<1>8. CASE Leave
  BY <1>8, CloseIsTask DEF Leave, TypeOK, queue, calls
<1>9. CASE Written
  BY <1>9 DEF Written, TypeOK, queue, calls
<1>10. CASE UNCHANGED vars
  BY <1>10 DEF TypeOK, vars
<1> QED
  BY <1>1, <1>2, <1>3, <1>4, <1>5, <1>6, <1>7, <1>8, <1>9, <1>10 DEF Next, RunTask, Done

LEMMA InitTyped == Init => TypeOK
<1>1. Init => closed_ \in BOOLEAN /\ cancelled_ \in BOOLEAN
  BY DEF Init
<1> QED
  BY <1>1 DEF Init, TypeOK

\* Every state of every behaviour has the declared types.
THEOREM TypeCorrect == Spec => []TypeOK
BY InitTyped, Typing, PTL DEF Spec

-----------------------------------------------------------------------------
(* Sequences of tasks *)

LEMMA AppendFacts ==
    ASSUME NEW S, NEW s \in Seq(S), NEW x \in S
    PROVE  /\ Append(s, x) \in Seq(S)
           /\ Len(Append(s, x)) = Len(s) + 1
           /\ \A i \in 1 .. Len(s) : Append(s, x)[i] = s[i]
           /\ Append(s, x)[Len(s) + 1] = x
OBVIOUS

LEMMA TailFacts ==
    ASSUME NEW S, NEW s \in Seq(S), s # <<>>
    PROVE  /\ Tail(s) \in Seq(S)
           /\ Len(Tail(s)) = Len(s) - 1
           /\ Len(s) \in Nat \ {0}
           /\ \A i \in 1 .. Len(s) - 1 : Tail(s)[i] = s[i + 1]
           /\ Head(s) = s[1]
OBVIOUS

\* Posting a task adds its place to the places of its kind, and to no other.
LEMMA TasksOfAppend ==
    ASSUME NEW s \in Seq(Task), NEW t \in Task, NEW op
    PROVE  TasksOf(Append(s, t), op) =
               TasksOf(s, op) \cup (IF t.op = op THEN {Len(s) + 1} ELSE {})
BY AppendFacts DEF TasksOf

LEMMA OtherAppend ==
    ASSUME NEW s \in Seq(Task), NEW t \in Task, NEW op, t.op # op
    PROVE  TasksOf(Append(s, t), op) = TasksOf(s, op)
BY AppendFacts DEF TasksOf

\* Running the first task moves the others one place forward.
LEMMA TasksOfTail ==
    ASSUME NEW s \in Seq(Task), s # <<>>, NEW op
    PROVE  /\ \A i \in TasksOf(Tail(s), op) : i + 1 \in TasksOf(s, op) /\ i \in Nat \ {0}
           /\ \A i \in TasksOf(s, op) : i # 1 => i - 1 \in TasksOf(Tail(s), op)
           /\ 1 \in TasksOf(s, op) <=> Head(s).op = op
<1>1. /\ Len(Tail(s)) = Len(s) - 1
      /\ Len(s) \in Nat \ {0}
      /\ \A i \in 1 .. Len(s) - 1 : Tail(s)[i] = s[i + 1]
      /\ Head(s) = s[1]
  BY TailFacts
<1> QED
  BY <1>1 DEF TasksOf

LEMMA InOrderAppendOther ==
    ASSUME NEW s \in Seq(Task), NEW t \in Task, t.op # "push",
           NEW low \in Nat, NEW high \in Nat, InOrder(s, low, high)
    PROVE  InOrder(Append(s, t), low, high)
<1>1. TasksOf(Append(s, t), "push") = TasksOf(s, "push")
  <2>1. TasksOf(Append(s, t), "push")
            = TasksOf(s, "push") \cup (IF t.op = "push" THEN {Len(s) + 1} ELSE {})
    BY TasksOfAppend
  <2>2. TasksOf(Append(s, t), "push") = TasksOf(s, "push") \cup {}
    BY <2>1
  <2> QED
    BY <2>2
<1>2. \A i \in TasksOf(s, "push") : Append(s, t)[i] = s[i]
  BY AppendFacts DEF TasksOf
<1> QED
  BY <1>1, <1>2 DEF InOrder

LEMMA InOrderAppendPush ==
    ASSUME NEW s \in Seq(Task), NEW m \in Message,
           NEW low \in Nat, NEW high \in Nat, low <= high,
           m.id = high + 1, PushTask(m) \in Task, InOrder(s, low, high)
    PROVE  InOrder(Append(s, PushTask(m)), low, high + 1)
<1> DEFINE r == Append(s, PushTask(m))
<1>1. TasksOf(r, "push") = TasksOf(s, "push") \cup {Len(s) + 1}
  BY TasksOfAppend DEF PushTask
<1>2. /\ \A i \in TasksOf(s, "push") : r[i] = s[i] /\ i \in Nat /\ i <= Len(s)
      /\ r[Len(s) + 1].msg = m
      /\ Len(s) \in Nat
  BY AppendFacts DEF TasksOf, PushTask
<1> HIDE DEF r
<1>3. ASSUME NEW i \in TasksOf(r, "push")
      PROVE  r[i].msg.id \in low + 1 .. high + 1
  <2>1. CASE i \in TasksOf(s, "push")
    <3>1. r[i].msg.id \in low + 1 .. high
      BY <2>1, <1>2 DEF InOrder
    <3> QED
      BY <3>1
  <2>2. CASE i = Len(s) + 1
    BY <2>2, <1>2
  <2> QED
    BY <2>1, <2>2, <1>1
<1>4. ASSUME NEW i \in TasksOf(r, "push"), NEW j \in TasksOf(r, "push"), i < j
      PROVE  r[i].msg.id < r[j].msg.id
  <2>1. i \in TasksOf(s, "push") /\ s[i].msg.id \in low + 1 .. high
    BY <1>1, <1>2, <1>4 DEF InOrder
  <2>2. CASE j \in TasksOf(s, "push")
    BY <2>1, <2>2, <1>2, <1>4 DEF InOrder
  <2>3. CASE j = Len(s) + 1
    <3>1. r[j].msg.id = high + 1
      BY <2>3, <1>2
    <3>2. r[i].msg.id \in low + 1 .. high
      BY <2>1, <1>2
    <3> QED
      BY <3>1, <3>2
  <2> QED
    BY <2>2, <2>3, <1>1
<1>5. \A n \in low + 1 .. high + 1 : \E i \in TasksOf(r, "push") : r[i].msg.id = n
  <2> TAKE n \in low + 1 .. high + 1
  <2>1. CASE n = high + 1
    BY <2>1, <1>1, <1>2
  <2>2. CASE n # high + 1
    <3>1. n \in low + 1 .. high
      BY <2>2
    <3> QED
      BY <3>1, <1>1, <1>2 DEF InOrder
  <2> QED
    BY <2>1, <2>2
<1> QED
  BY <1>3, <1>4, <1>5 DEF InOrder, r

LEMMA InOrderTailOther ==
    ASSUME NEW s \in Seq(Task), s # <<>>, Head(s).op # "push",
           NEW low \in Nat, NEW high \in Nat, InOrder(s, low, high)
    PROVE  InOrder(Tail(s), low, high)
<1> DEFINE r == Tail(s)
<1>1. /\ \A i \in TasksOf(r, "push") : i + 1 \in TasksOf(s, "push") /\ i \in Nat \ {0}
      /\ \A i \in TasksOf(s, "push") : i - 1 \in TasksOf(r, "push") /\ i \in Nat
  BY TasksOfTail DEF TasksOf
<1>2. \A i \in TasksOf(r, "push") : r[i] = s[i + 1]
  BY TailFacts DEF TasksOf
<1> HIDE DEF r
<1>3. \A i \in TasksOf(r, "push") : r[i].msg.id \in low + 1 .. high
  BY <1>1, <1>2 DEF InOrder
<1>4. ASSUME NEW i \in TasksOf(r, "push"), NEW j \in TasksOf(r, "push"), i < j
      PROVE  r[i].msg.id < r[j].msg.id
  <2>1. /\ i + 1 \in TasksOf(s, "push") /\ j + 1 \in TasksOf(s, "push")
        /\ i + 1 < j + 1
    BY <1>1, <1>4
  <2>2. s[i + 1].msg.id < s[j + 1].msg.id
    BY <2>1 DEF InOrder
  <2> QED
    BY <2>2, <1>2
<1>5. \A n \in low + 1 .. high : \E i \in TasksOf(r, "push") : r[i].msg.id = n
  <2> TAKE n \in low + 1 .. high
  <2>1. PICK i \in TasksOf(s, "push") : s[i].msg.id = n
    BY DEF InOrder
  <2>2. i - 1 \in TasksOf(r, "push") /\ r[i - 1] = s[i]
    BY <1>1, <1>2
  <2> QED
    BY <2>1, <2>2
<1> QED
  BY <1>3, <1>4, <1>5 DEF InOrder, r

\* The first push on the strand carries the next number.
LEMMA InOrderTailPush ==
    ASSUME NEW s \in Seq(Task), s # <<>>, Head(s).op = "push",
           NEW low \in Nat, NEW high \in Nat, InOrder(s, low, high)
    PROVE  Head(s).msg.id = low + 1 /\ InOrder(Tail(s), low + 1, high)
<1> DEFINE r == Tail(s)
<1>1. /\ \A i \in TasksOf(r, "push") : i + 1 \in TasksOf(s, "push") /\ i \in Nat \ {0}
      /\ \A i \in TasksOf(s, "push") : i # 1 => i - 1 \in TasksOf(r, "push")
      /\ \A i \in TasksOf(s, "push") : i \in Nat \ {0}
      /\ 1 \in TasksOf(s, "push")
      /\ Head(s) = s[1]
  BY TasksOfTail, TailFacts DEF TasksOf
<1>2. \A i \in TasksOf(r, "push") : r[i] = s[i + 1]
  BY TailFacts DEF TasksOf
<1> HIDE DEF r
<1>3. s[1].msg.id = low + 1
  <2>1. s[1].msg.id \in low + 1 .. high
    BY <1>1 DEF InOrder
  <2>2. PICK i \in TasksOf(s, "push") : s[i].msg.id = low + 1
    BY <2>1 DEF InOrder
  <2>3. i # 1 => s[1].msg.id < s[i].msg.id
    BY <1>1 DEF InOrder
  <2> QED
    BY <2>1, <2>2, <2>3
<1>4. \A i \in TasksOf(r, "push") : r[i].msg.id \in low + 2 .. high
  <2> TAKE i \in TasksOf(r, "push")
  <2>1. i + 1 \in TasksOf(s, "push") /\ 1 < i + 1
    BY <1>1
  <2>2. s[1].msg.id < s[i + 1].msg.id /\ s[i + 1].msg.id \in low + 1 .. high
    BY <2>1, <1>1 DEF InOrder
  <2> QED
    BY <2>2, <1>2, <1>3
<1>5. ASSUME NEW i \in TasksOf(r, "push"), NEW j \in TasksOf(r, "push"), i < j
      PROVE  r[i].msg.id < r[j].msg.id
  <2>1. /\ i + 1 \in TasksOf(s, "push") /\ j + 1 \in TasksOf(s, "push")
        /\ i + 1 < j + 1
    BY <1>1, <1>5
  <2>2. s[i + 1].msg.id < s[j + 1].msg.id
    BY <2>1 DEF InOrder
  <2> QED
    BY <2>2, <1>2
<1>6. \A n \in low + 2 .. high : \E i \in TasksOf(r, "push") : r[i].msg.id = n
  <2> TAKE n \in low + 2 .. high
  <2>1. PICK i \in TasksOf(s, "push") : s[i].msg.id = n
    BY DEF InOrder
  <2>2. i # 1
    BY <2>1, <1>3
  <2>3. i - 1 \in TasksOf(r, "push") /\ r[i - 1] = s[i]
    BY <2>2, <1>1, <1>2
  <2> QED
    BY <2>1, <2>3
<1>7. InOrder(r, low + 1, high)
  BY <1>4, <1>5, <1>6 DEF InOrder
<1> QED
  BY <1>1, <1>3, <1>7 DEF r

-----------------------------------------------------------------------------
(* The parts of the invariant that speak of the strand, under the two ways   *)
(* a step changes it: one task posted, or the first one taken and, when the  *)
(* timer was armed, its completion posted.                                   *)

AtMostOne(tasks) == \A i, j \in TasksOf(tasks, "resume") : i = j

LEMMA OtherTail ==
    ASSUME NEW s \in Seq(Task), s # <<>>, NEW op, Head(s).op # op
    PROVE  TasksOf(Tail(s), op) = {} <=> TasksOf(s, op) = {}
<1>1. \A i \in TasksOf(Tail(s), op) : i + 1 \in TasksOf(s, op)
  BY TasksOfTail
<1>2. \A i \in TasksOf(s, op) : i - 1 \in TasksOf(Tail(s), op)
  BY TasksOfTail
<1> QED
  BY <1>1, <1>2

LEMMA AtMostOneTail ==
    ASSUME NEW s \in Seq(Task), s # <<>>, AtMostOne(s)
    PROVE  /\ AtMostOne(Tail(s))
           /\ Head(s).op = "resume" => TasksOf(Tail(s), "resume") = {}
<1>1. \A i \in TasksOf(Tail(s), "resume") :
           i + 1 \in TasksOf(s, "resume") /\ i \in Nat \ {0}
  BY TasksOfTail
<1>2. AtMostOne(Tail(s))
  <2> SUFFICES ASSUME NEW i \in TasksOf(Tail(s), "resume"),
                      NEW j \in TasksOf(Tail(s), "resume")
               PROVE  i = j
    BY DEF AtMostOne
  <2>1. i + 1 = j + 1
    BY <1>1 DEF AtMostOne
  <2> QED
    BY <2>1, <1>1
<1>3. ASSUME Head(s).op = "resume", NEW i \in TasksOf(Tail(s), "resume")
      PROVE  FALSE
  <2>1. 1 \in TasksOf(s, "resume")
    BY <1>3, TasksOfTail
  <2>2. i + 1 = 1
    BY <2>1, <1>1, <1>3 DEF AtMostOne
  <2> QED
    BY <2>2, <1>1, <1>3
<1> QED
  BY <1>2, <1>3

\* A task that is not a completion is posted.
LEMMA PostOther ==
    ASSUME TypeOK, OneResumption, NEW t \in Task, t.op # "resume",
           strand' = Append(strand, t),
           wake_' = wake_, reader' = reader \/ (reader # "waiting" /\ reader' = "left")
    PROVE  OneResumption'
<1>1. TasksOf(strand', "resume") = TasksOf(strand, "resume")
  <2>1. TasksOf(strand', "resume")
            = TasksOf(strand, "resume")
                  \cup (IF t.op = "resume" THEN {Len(strand) + 1} ELSE {})
    BY TasksOfAppend DEF TypeOK
  <2>2. TasksOf(strand', "resume") = TasksOf(strand, "resume") \cup {}
    BY <2>1
  <2> QED
    BY <2>2
<1> QED
  BY <1>1 DEF OneResumption, TypeOK

\* The first task is taken, it is not a completion, and wake_ is cancelled.
LEMMA WakeCancelled ==
    ASSUME TypeOK, OneResumption, strand # <<>>, Head(strand).op # "resume",
           CancelWake(Tail(strand)), reader' = reader
    PROVE  OneResumption' /\ wake_' = "idle"
<1> DEFINE rest == Tail(strand)
<1>1. rest \in Seq(Task)
  BY DEF TypeOK
<1>2. TasksOf(rest, "resume") = {} <=> TasksOf(strand, "resume") = {}
  BY OtherTail DEF TypeOK
<1>3. AtMostOne(rest)
  BY AtMostOneTail DEF TypeOK, OneResumption, AtMostOne
<1> HIDE DEF rest
<1>4. CASE wake_ = "armed"
  <2>1. reader = "waiting" /\ TasksOf(strand, "resume") = {}
    BY <1>4 DEF OneResumption
  <2>2. strand' = Append(rest, Cancelled) /\ wake_' = "idle"
    BY <1>4 DEF CancelWake, rest
  <2>3. TasksOf(strand', "resume") = TasksOf(rest, "resume") \cup {Len(rest) + 1}
    BY <2>2, <1>1, TasksOfAppend, ResumeIsTask DEF Cancelled
  <2>4. TasksOf(strand', "resume") = {Len(rest) + 1}
    BY <2>1, <2>3, <1>2
  <2> QED
    BY <2>1, <2>2, <2>4 DEF OneResumption
<1>5. CASE wake_ # "armed"
  <2>1. strand' = rest /\ wake_' = "idle" /\ wake_ = "idle"
    BY <1>5 DEF CancelWake, rest, TypeOK
  <2> QED
    BY <2>1, <1>2, <1>3 DEF OneResumption, AtMostOne
<1> QED
  BY <1>4, <1>5

\* Tasks of another kind than "resume" are those of the rest of the strand.
LEMMA CancelWakeKeeps ==
    ASSUME NEW STATE rest, rest \in Seq(Task), CancelWake(rest), NEW op, op # "resume"
    PROVE  TasksOf(strand', op) = TasksOf(rest, op)
<1>1. CASE wake_ = "armed"
  <2>1. TasksOf(strand', op)
            = TasksOf(rest, op) \cup (IF Cancelled.op = op THEN {Len(rest) + 1} ELSE {})
    BY <1>1, TasksOfAppend, ResumeIsTask DEF CancelWake
  <2>2. Cancelled.op # op
    BY DEF Cancelled
  <2> QED
    BY <2>1, <2>2
<1>2. CASE wake_ # "armed"
  BY <1>2 DEF CancelWake
<1> QED
  BY <1>1, <1>2

LEMMA CancelWakeInOrder ==
    ASSUME NEW STATE rest, rest \in Seq(Task), CancelWake(rest),
           NEW low \in Nat, NEW high \in Nat, InOrder(rest, low, high)
    PROVE  InOrder(strand', low, high)
<1>1. CASE wake_ = "armed"
  BY <1>1, ResumeIsTask, InOrderAppendOther DEF CancelWake, Cancelled
<1>2. CASE wake_ # "armed"
  BY <1>2 DEF CancelWake
<1> QED
  BY <1>1, <1>2

-----------------------------------------------------------------------------
(* IInv is preserved, action by action *)

LEMMA InitInv == Init => IInv
<1> SUFFICES ASSUME Init PROVE IInv
  OBVIOUS
<1>1. \A op : TasksOf(strand, op) = {}
  BY DEF Init, TasksOf
<1>2. InOrder(strand, taken + Len(messages_), pushes)
  BY <1>1 DEF Init, InOrder
<1>3. Len(messages_) = 0 /\ taken = 0 /\ pushes = 0
  BY DEF Init
<1>4. WithinLimit /\ NoGap /\ EnteredBound
  BY <1>3 DEF WithinLimit, NoGap, EnteredBound
<1>5. ClosedIsCancelled /\ OneResumption /\ StrandInv
  BY <1>1, <1>2 DEF Init, ClosedIsCancelled, OneResumption, StrandInv
<1> QED
  BY <1>4, <1>5 DEF IInv

\* PopFor never changes what has entered the queue: taken + Len(messages_).
LEMMA TurnKeepsOrder ==
    ASSUME TypeOK, WithinLimit, NoGap, PopForTurn \/ AnswerNull
    PROVE  /\ WithinLimit' /\ NoGap'
           /\ taken' + Len(messages_') = taken + Len(messages_)
<1>1. CASE TakeMessage
  <2>1. /\ Len(messages_') = Len(messages_) - 1
        /\ Len(messages_) \in Nat \ {0}
        /\ \A i \in 1 .. Len(messages_) - 1 : messages_'[i] = messages_[i + 1]
        /\ taken' = taken + 1
    BY <1>1, TailFacts DEF TypeOK, TakeMessage
  <2>2. WithinLimit'
    BY <2>1, LimitsAssumption DEF WithinLimit
  <2>3. ASSUME NEW i \in 1 .. Len(messages_')
        PROVE  messages_'[i].id = taken' + i
    <3>1. i \in 1 .. Len(messages_) - 1 /\ i + 1 \in 1 .. Len(messages_)
      BY <2>1
    <3>2. messages_'[i] = messages_[i + 1]
      BY <2>1, <3>1
    <3>3. messages_[i + 1].id = taken + (i + 1)
      BY <3>1 DEF NoGap
    <3>4. taken \in Nat
      BY DEF TypeOK
    <3> QED
      BY <2>1, <3>1, <3>2, <3>3, <3>4
  <2>4. taken' + Len(messages_') = taken + Len(messages_)
    <3>1. taken \in Nat
      BY DEF TypeOK
    <3> QED
      BY <2>1, <3>1
  <2> QED
    BY <2>2, <2>3, <2>4 DEF NoGap
<1>2. CASE AnswerNull \/ Suspend
  BY <1>2 DEF AnswerNull, Suspend, WithinLimit, NoGap, TypeOK
<1> QED
  BY <1>1, <1>2 DEF PopForTurn

LEMMA PushInv ==
    ASSUME TypeOK, IInv, NEW size \in Sizes, Push(size)
    PROVE  IInv'
<1> DEFINE m == [id |-> pushes + 1, size |-> size]
           t == PushTask(m)
<1>1. t \in Task /\ m \in Message /\ t.op = "push"
  BY PushIsTask DEF Push, PushTask, Task, TypeOK, Message
<1>2. strand' = Append(strand, t) /\ pushes' = pushes + 1
  BY DEF Push
<1>3. m.id = pushes + 1
  OBVIOUS
<1> HIDE DEF m, t
<1>4. OneResumption'
  BY <1>1, <1>2, PostOther DEF Push, IInv
<1>5. TasksOf(strand', "close") = TasksOf(strand, "close")
  <2>1. TasksOf(strand', "close")
            = TasksOf(strand, "close") \cup (IF t.op = "close" THEN {Len(strand) + 1} ELSE {})
    BY <1>1, <1>2, TasksOfAppend DEF TypeOK
  <2> QED
    BY <2>1, <1>1
<1>6. ~closed_ => InOrder(strand', taken + Len(messages_), pushes + 1)
  <2> SUFFICES ASSUME ~closed_
               PROVE  InOrder(strand', taken + Len(messages_), pushes + 1)
    OBVIOUS
  <2> DEFINE low == taken + Len(messages_)
  <2>1. InOrder(strand, low, pushes) /\ low \in Nat /\ pushes \in Nat
    BY DEF IInv, StrandInv, TypeOK
  <2>2. low <= pushes
    BY DEF IInv, EnteredBound, TypeOK
  <2> HIDE DEF low
  <2>3. InOrder(Append(strand, PushTask(m)), low, pushes + 1)
    BY <2>1, <2>2, <1>1, <1>3, InOrderAppendPush DEF TypeOK, t
  <2> QED
    BY <2>3, <1>2 DEF t, low
<1> QED
  BY <1>2, <1>4, <1>5, <1>6
     DEF Push, queue, IInv, WithinLimit, NoGap, ClosedIsCancelled, StrandInv, EnteredBound, TypeOK

\* Close by another thread, and Close by the coroutine that leaves.
LEMMA PostCloseInv ==
    ASSUME TypeOK, IInv, Close \/ Leave
    PROVE  IInv'
<1>1. CloseTask \in Task /\ CloseTask.op = "close" /\ strand' = Append(strand, CloseTask)
  BY CloseIsTask DEF Close, Leave, CloseTask
<1>2. OneResumption'
  BY <1>1, PostOther DEF Close, Leave, IInv
<1>3. InOrder(strand, taken + Len(messages_), pushes)
          => InOrder(strand', taken + Len(messages_), pushes)
  <2>1. taken + Len(messages_) \in Nat /\ pushes \in Nat /\ strand \in Seq(Task)
    BY DEF TypeOK
  <2> QED
    BY <1>1, <2>1, InOrderAppendOther
<1> QED
  BY <1>2, <1>3
     DEF Close, Leave, queue, calls, IInv, WithinLimit, NoGap, ClosedIsCancelled,
         StrandInv, EnteredBound, TypeOK

LEMMA RunPushInv ==
    ASSUME TypeOK, IInv, RunPush
    PROVE  IInv'
<1> DEFINE m    == Head(strand).msg
           rest == Tail(strand)
           low  == taken + Len(messages_)
<1>1. /\ strand # <<>> /\ Head(strand).op = "push" /\ strand \in Seq(Task)
      /\ rest \in Seq(Task) /\ m \in Message
      /\ low \in Nat /\ pushes \in Nat /\ messages_ \in Seq(Message)
  BY HeadPush DEF RunPush, Enter, CloseSlow, TypeOK
<1>2. TasksOf(rest, "close") = {} <=> TasksOf(strand, "close") = {}
  BY <1>1, OtherTail
<1>3. ~closed_ => m.id = low + 1 /\ InOrder(rest, low + 1, pushes) /\ low + 1 <= pushes
  <2> SUFFICES ASSUME ~closed_
               PROVE  m.id = low + 1 /\ InOrder(rest, low + 1, pushes) /\ low + 1 <= pushes
    OBVIOUS
  <2>1. InOrder(strand, low, pushes)
    BY DEF IInv, StrandInv
  <2>2. 1 \in TasksOf(strand, "push") /\ Head(strand) = strand[1]
    BY <1>1, TasksOfTail, TailFacts
  <2>3. m.id \in low + 1 .. pushes
    BY <2>1, <2>2 DEF InOrder
  <2>4. Head(strand).msg.id = low + 1 /\ InOrder(Tail(strand), low + 1, pushes)
    BY <2>1, <1>1, InOrderTailPush
  <2> QED
    BY <2>3, <2>4, <1>1
<1>4. CASE closed_
  <2>1. strand' = rest /\ UNCHANGED <<wake_, queue, cancelled_, reader, result, taken, calls>>
    BY <1>4 DEF RunPush, Enter, CloseSlow
  <2>2. /\ TasksOf(rest, "resume") = {} <=> TasksOf(strand, "resume") = {}
        /\ AtMostOne(rest)
    BY <1>1, OtherTail, AtMostOneTail DEF IInv, OneResumption, AtMostOne
  <2>3. OneResumption'
    BY <2>1, <2>2 DEF IInv, OneResumption, AtMostOne
  <2> HIDE DEF m, rest, low
  <2> QED
    BY <1>2, <1>4, <2>1, <2>3
       DEF IInv, WithinLimit, NoGap, ClosedIsCancelled, StrandInv, EnteredBound, queue, calls
<1>5. CASE ~closed_
  <2>1. CancelWake(rest) /\ UNCHANGED <<reader, result, taken, calls>>
    BY <1>5 DEF RunPush, Enter, CloseSlow
  <2>2. OneResumption' /\ wake_' = "idle"
    BY <1>1, <2>1, WakeCancelled DEF IInv
  <2>3. TasksOf(strand', "close") = TasksOf(rest, "close")
    BY <1>1, <2>1, CancelWakeKeeps
  <2>4. CASE Overflows(m)
    <3>1. closed_' /\ cancelled_' /\ UNCHANGED <<messages_, queued_bytes_>>
      BY <1>5, <2>4 DEF RunPush, Enter, CloseSlow
    <3> HIDE DEF m, rest, low
    <3> QED
      BY <2>1, <2>2, <3>1
         DEF IInv, WithinLimit, NoGap, ClosedIsCancelled, StrandInv, EnteredBound, calls
  <2>5. CASE ~Overflows(m)
    <3>1. messages_' = Append(messages_, m) /\ UNCHANGED <<closed_, cancelled_>>
      BY <1>5, <2>5 DEF RunPush, Enter, CloseSlow
    <3>2. Len(messages_) < MaxMessages /\ Len(messages_) \in Nat
      BY <2>5, <1>1 DEF Overflows
    <3> HIDE DEF m, rest
    <3>3. /\ Len(messages_') = Len(messages_) + 1
          /\ \A i \in 1 .. Len(messages_) : messages_'[i] = messages_[i]
          /\ messages_'[Len(messages_) + 1] = m
      BY <3>1, <1>1, AppendFacts
    <3>4. WithinLimit'
      BY <3>2, <3>3 DEF WithinLimit
    <3>5. NoGap'
      <4>1. m.id = taken + Len(messages_) + 1 /\ taken' = taken
        BY <1>3, <1>5, <2>1
      <4>2. SUFFICES ASSUME NEW i \in 1 .. Len(messages_')
                     PROVE  messages_'[i].id = taken' + i
        BY DEF NoGap
      <4>3. CASE i \in 1 .. Len(messages_)
        <5>1. messages_[i].id = taken + i
          BY <4>3 DEF IInv, NoGap
        <5> QED
          BY <4>1, <4>3, <5>1, <3>3
      <4>4. CASE i = Len(messages_) + 1
        BY <4>1, <4>4, <3>3 DEF TypeOK
      <4> QED
        BY <4>2, <4>3, <4>4, <3>2, <3>3
    <3>6. taken' + Len(messages_') = low + 1 /\ pushes' = pushes
      BY <2>1, <3>2, <3>3 DEF calls, TypeOK
    <3>7. EnteredBound'
      BY <3>6, <1>3, <1>5 DEF EnteredBound
    <3> HIDE DEF low
    <3>8. InOrder(strand', taken' + Len(messages_'), pushes')
      <4>1. InOrder(rest, low + 1, pushes) /\ low + 1 \in Nat
        BY <1>1, <1>3, <1>5
      <4>2. InOrder(strand', low + 1, pushes)
        BY <4>1, <1>1, <2>1, CancelWakeInOrder
      <4> QED
        BY <4>2, <3>6
    <3>9. StrandInv' /\ ClosedIsCancelled'
      BY <1>2, <1>5, <2>2, <2>3, <3>1, <3>8 DEF IInv, StrandInv, ClosedIsCancelled
    <3> QED
      BY <2>2, <3>4, <3>5, <3>7, <3>9 DEF IInv
  <2> QED
    BY <2>4, <2>5
<1> QED
  BY <1>4, <1>5

LEMMA RunCloseInv ==
    ASSUME TypeOK, IInv, RunClose
    PROVE  IInv'
<1>1. /\ strand # <<>> /\ Head(strand).op = "close" /\ strand \in Seq(Task)
      /\ closed_' /\ CancelWake(Tail(strand))
      /\ UNCHANGED <<messages_, queued_bytes_, cancelled_, reader, result, taken, calls>>
  BY DEF RunClose, TypeOK
<1>2. OneResumption' /\ wake_' = "idle"
  BY <1>1, WakeCancelled DEF IInv
<1>3. cancelled_
  <2>1. 1 \in TasksOf(strand, "close")
    BY <1>1, TasksOfTail
  <2> QED
    BY <2>1 DEF IInv, StrandInv
<1> QED
  BY <1>1, <1>2, <1>3
     DEF IInv, WithinLimit, NoGap, ClosedIsCancelled, StrandInv, EnteredBound, calls

\* A turn of PopFor that starts with the timer idle and no completion posted.
LEMMA TurnResumption ==
    ASSUME TypeOK, PopForTurn \/ AnswerNull, wake_ = "idle",
           TasksOf(strand', "resume") = {}
    PROVE  OneResumption' /\ (wake_' = "armed" => messages_' = <<>> /\ ~closed_)
<1>1. CASE TakeMessage \/ AnswerNull
  BY <1>1 DEF TakeMessage, AnswerNull, OneResumption
<1>2. CASE messages_ = <<>> /\ ~closed_ /\ Suspend
  BY <1>2 DEF Suspend, OneResumption
<1> QED
  BY <1>1, <1>2 DEF PopForTurn

LEMMA RunResumeInv ==
    ASSUME TypeOK, IInv, RunResume
    PROVE  IInv'
<1>1. /\ strand # <<>> /\ Head(strand).op = "resume" /\ strand \in Seq(Task)
      /\ strand' = Tail(strand)
      /\ PopForTurn \/ AnswerNull
      /\ UNCHANGED <<closed_, cancelled_, pushes, closes>>
  BY DEF RunResume, TypeOK, calls
<1>2. TasksOf(strand', "resume") = {}
  BY <1>1, AtMostOneTail DEF IInv, OneResumption, AtMostOne
<1>3. wake_ = "idle"
  <2>1. TasksOf(strand, "resume") # {}
    BY <1>1, TasksOfTail
  <2> QED
    BY <2>1 DEF IInv, OneResumption, TypeOK
<1>4. OneResumption' /\ (wake_' = "armed" => messages_' = <<>> /\ ~closed_')
  BY <1>1, <1>2, <1>3, TurnResumption
<1>5. WithinLimit' /\ NoGap' /\ taken' + Len(messages_') = taken + Len(messages_)
  BY <1>1, TurnKeepsOrder DEF IInv
<1>6. InOrder(strand, taken + Len(messages_), pushes)
          => InOrder(strand', taken + Len(messages_), pushes)
  <2>1. taken + Len(messages_) \in Nat /\ pushes \in Nat
    BY DEF TypeOK
  <2> QED
    BY <1>1, <2>1, InOrderTailOther
<1>7. TasksOf(strand', "close") = {} <=> TasksOf(strand, "close") = {}
  BY <1>1, OtherTail
<1>8. StrandInv'
  BY <1>1, <1>4, <1>5, <1>6, <1>7 DEF IInv, StrandInv
<1>9. EnteredBound' /\ ClosedIsCancelled'
  BY <1>1, <1>5 DEF IInv, EnteredBound, ClosedIsCancelled
<1> QED
  BY <1>4, <1>5, <1>8, <1>9 DEF IInv

LEMMA CallPopForInv ==
    ASSUME TypeOK, IInv, CallPopFor
    PROVE  IInv'
<1>1. /\ reader = "caller" /\ PopForTurn
      /\ UNCHANGED <<strand, closed_, cancelled_, pushes, closes>>
  BY DEF CallPopFor, calls
<1>2. wake_ = "idle" /\ TasksOf(strand', "resume") = {}
  BY <1>1 DEF IInv, OneResumption
<1>3. OneResumption' /\ (wake_' = "armed" => messages_' = <<>> /\ ~closed_')
  BY <1>1, <1>2, TurnResumption
<1>4. WithinLimit' /\ NoGap' /\ taken' + Len(messages_') = taken + Len(messages_)
  BY <1>1, TurnKeepsOrder DEF IInv
<1>5. StrandInv' /\ EnteredBound' /\ ClosedIsCancelled'
  BY <1>1, <1>3, <1>4 DEF IInv, StrandInv, EnteredBound, ClosedIsCancelled
<1> QED
  BY <1>3, <1>4, <1>5 DEF IInv

LEMMA ExpireInv ==
    ASSUME TypeOK, IInv, Expire
    PROVE  IInv'
<1>1. /\ wake_ = "armed" /\ wake_' = "idle" /\ strand \in Seq(Task)
      /\ strand' = Append(strand, Expired)
      /\ Expired \in Task /\ Expired.op = "resume"
      /\ UNCHANGED <<messages_, queued_bytes_, closed_, cancelled_, reader, result, taken, pushes, closes>>
  BY ResumeIsTask DEF Expire, queue, calls, TypeOK, Expired
<1>2. reader = "waiting" /\ TasksOf(strand, "resume") = {}
  BY <1>1 DEF IInv, OneResumption
<1>3. TasksOf(strand', "resume") = TasksOf(strand, "resume") \cup {Len(strand) + 1}
  BY <1>1, TasksOfAppend
<1>4. OneResumption'
  BY <1>1, <1>2, <1>3 DEF OneResumption
<1>5. TasksOf(strand', "close") = TasksOf(strand, "close")
  BY <1>1, OtherAppend
<1>6. InOrder(strand, taken + Len(messages_), pushes)
          => InOrder(strand', taken + Len(messages_), pushes)
  <2>1. taken + Len(messages_) \in Nat /\ pushes \in Nat
    BY DEF TypeOK
  <2> QED
    BY <1>1, <2>1, InOrderAppendOther
<1>7. StrandInv'
  BY <1>1, <1>5, <1>6 DEF IInv, StrandInv
<1>8. WithinLimit' /\ NoGap' /\ ClosedIsCancelled' /\ EnteredBound'
  BY <1>1 DEF IInv, WithinLimit, NoGap, ClosedIsCancelled, EnteredBound
<1> QED
  BY <1>4, <1>7, <1>8 DEF IInv

LEMMA WrittenInv ==
    ASSUME TypeOK, IInv, Written
    PROVE  IInv'
<1>1. /\ reader # "waiting" /\ reader' # "waiting"
      /\ UNCHANGED <<strand, wake_, messages_, closed_, cancelled_, taken, pushes>>
  BY DEF Written, queue, calls
<1>2. OneResumption'
  BY <1>1 DEF IInv, OneResumption
<1>3. WithinLimit' /\ NoGap' /\ ClosedIsCancelled' /\ EnteredBound' /\ StrandInv'
  BY <1>1 DEF IInv, WithinLimit, NoGap, ClosedIsCancelled, EnteredBound, StrandInv
<1> QED
  BY <1>2, <1>3 DEF IInv

LEMMA NextInv == TypeOK /\ IInv /\ [Next]_vars => IInv'
<1> SUFFICES ASSUME TypeOK, IInv, [Next]_vars PROVE IInv'
  OBVIOUS
<1>1. CASE UNCHANGED vars
  <2>1. UNCHANGED <<strand, wake_, messages_, closed_, cancelled_, reader, taken, pushes>>
    BY <1>1 DEF vars
  <2>2. WithinLimit' /\ NoGap' /\ ClosedIsCancelled' /\ EnteredBound'
    BY <2>1 DEF IInv, WithinLimit, NoGap, ClosedIsCancelled, EnteredBound
  <2>3. OneResumption'
    BY <2>1 DEF IInv, OneResumption
  <2>4. StrandInv'
    BY <2>1 DEF IInv, StrandInv
  <2> QED
    BY <2>2, <2>3, <2>4 DEF IInv
<1>2. CASE Next
  BY <1>1, <1>2, PushInv, PostCloseInv, RunPushInv, RunCloseInv, RunResumeInv,
     CallPopForInv, ExpireInv, WrittenInv DEF Next, RunTask, Done
<1> QED
  BY <1>1, <1>2

\* The inductive invariant holds in every reachable state.
THEOREM Invariant == Spec => [](TypeOK /\ IInv)
<1>1. Init => TypeOK /\ IInv
  BY InitInv, InitTyped
<1> QED
  BY <1>1, NextInv, Typing, PTL DEF Spec

-----------------------------------------------------------------------------
(* What the users of the queue rely on *)

\* The queue never holds more than kMaxQueuedResponseMessages messages.
THEOREM Limited == Spec => []WithinLimit
<1>1. IInv => WithinLimit
  BY DEF IInv
<1> QED
  BY <1>1, Invariant, PTL

\* What the coroutine gets is a gap-free prefix of what was pushed, in order.
THEOREM Gapless == Spec => []NoGap
<1>1. IInv => NoGap
  BY DEF IInv
<1> QED
  BY <1>1, Invariant, PTL

\* A queue that takes no more messages has told the worker so.
THEOREM CancellationVisible == Spec => []ClosedIsCancelled
<1>1. IInv => ClosedIsCancelled
  BY DEF IInv
<1> QED
  BY <1>1, Invariant, PTL

\* PopFor is never left suspended with something to return.
THEOREM WakeupKept == Spec => []NoLostWakeup
<1>1. IInv => NoLostWakeup
  BY DEF IInv, OneResumption, StrandInv, NoLostWakeup
<1> QED
  BY <1>1, Invariant, PTL

\* The coroutine is resumed at most once per wait.
THEOREM ResumedOnce == Spec => []OneResumption
<1>1. IInv => OneResumption
  BY DEF IInv
<1> QED
  BY <1>1, Invariant, PTL

\* PopFor returns null only when the queue is empty at that moment.
THEOREM HonestNull == Spec => NullMeansEmpty
<1>1. [Next]_vars => [result' = "null" /\ result # "null" => messages_ = <<>>]_vars
  <2> SUFFICES ASSUME Next, result' = "null", result # "null"
               PROVE  messages_ = <<>>
    BY DEF vars
  <2>1. CASE RunResume
    BY <2>1 DEF RunResume, TimedOut, PopForTurn, TakeMessage, Suspend
  <2>2. CASE CallPopFor
    BY <2>2 DEF CallPopFor, PopForTurn, TakeMessage, Suspend
  <2>3. CASE (\E size \in Sizes : Push(size)) \/ Close \/ RunPush \/ RunClose
                 \/ Expire \/ Written \/ Leave \/ Done
    BY <2>3 DEF Push, Close, RunPush, Enter, CloseSlow, RunClose, Expire, Written, Leave, Done, vars
  <2> QED
    BY <2>1, <2>2, <2>3 DEF Next, RunTask
<1> QED
  BY <1>1, PTL DEF Spec, NullMeansEmpty

-----------------------------------------------------------------------------
(* The bytes of a queue.  FoldLeft is defined by recursion on sets of        *)
(* positions; the provers know no induction rule with a predicate, so the    *)
(* induction is done on sets of numbers, from the well-foundedness of <.     *)

Below == {ss \in Nat \X Nat : ss[1] < ss[2]}

LEMMA BelowIsWellFounded == IsWellFoundedOn(Below, Nat)
BY NatLessThanWellFounded, Zenon DEF OpToRel, Below

\* A set of numbers with 0 in it that is closed under successor is everything.
LEMMA Induction ==
    ASSUME NEW S, 0 \in S, \A n \in Nat : n \in S => n + 1 \in S
    PROVE  \A n \in Nat : n \in S
<1> DEFINE T == Nat \ S
<1>1. SUFFICES ASSUME T # {} PROVE FALSE
  OBVIOUS
<1>2. \E x \in T : \A y \in T : ~ (<<y, x>> \in Below)
  <2>1. T \subseteq Nat
    OBVIOUS
  <2> HIDE DEF T
  <2> QED
    BY <1>1, <2>1, BelowIsWellFounded, WFMin
<1>3. PICK x \in T : \A y \in T : <<y, x>> \notin Below
  BY <1>2
<1>4. x \in Nat /\ x # 0 /\ x - 1 \in Nat /\ (x - 1) + 1 = x
  BY <1>3
<1>5. <<x - 1, x>> \in Below
  BY <1>4 DEF Below
<1>6. x - 1 \in S
  BY <1>3, <1>4, <1>5
<1> QED
  BY <1>3, <1>4, <1>6

\* The function FoldLeft is defined by, on the subsets of 1 .. n.
Folds(g, s, n) ==
    g = [S \in SUBSET (1 .. n) |->
            IF S = {} THEN 0 ELSE g[S \ {Max(S)}] + s[Max(S)].size]

\* The running totals of the first n sizes.
Totals(t, s, n) == /\ t \in [0 .. n -> Int]
                   /\ t[0] = 0
                   /\ \A k \in 1 .. n : t[k] = t[k - 1] + s[k].size

\* The sum is what every such function says of the whole domain.
LEMMA FoldUnfolds ==
    ASSUME NEW s, NEW n, NEW d, DOMAIN s = 1 .. n,
           \E g : Folds(g, s, n),
           \A g : Folds(g, s, n) => g[1 .. n] = d
    PROVE  Bytes(s) = d
<1>1. Bytes(s) = (CHOOSE g : Folds(g, s, n))[1 .. n]
  BY Zenon DEF Bytes, FoldLeft, MapThenFoldSet, Folds
<1> QED
  BY <1>1, Zenon

\* The largest element of a set of numbers up to n + 1 that has n + 1 in it.
LEMMA MaxIs ==
    ASSUME NEW S, NEW n \in Nat, S \subseteq 1 .. n + 1, n + 1 \in S
    PROVE  Max(S) = n + 1
<1>1. \A y \in S : n + 1 >= y /\ y \in Int
  OBVIOUS
<1>2. \A x \in S : (\A y \in S : x >= y) => x = n + 1
  OBVIOUS
<1> QED
  BY <1>1, <1>2 DEF Max

\* Such a function exists: it is extended by one position at a time.
LEMMA FoldExists ==
    ASSUME NEW s
    PROVE  \A n \in Nat : \E g : Folds(g, s, n)
<1> DEFINE Good == {n \in Nat : \E g : Folds(g, s, n)}
<1>1. 0 \in Good
  <2> DEFINE g == [S \in SUBSET (1 .. 0) |-> 0]
  <2>1. \A S \in SUBSET (1 .. 0) : S = {}
    OBVIOUS
  <2>2. Folds(g, s, 0)
    BY <2>1 DEF Folds
  <2> QED
    BY <2>2
<1>2. ASSUME NEW n \in Nat, n \in Good
      PROVE  n + 1 \in Good
  <2>1. PICK g : Folds(g, s, n)
    BY <1>2
  <2> DEFINE h == [S \in SUBSET (1 .. n + 1) |->
                      IF n + 1 \in S THEN g[S \ {n + 1}] + s[n + 1].size ELSE g[S]]
             Rule(S) == IF S = {} THEN 0 ELSE h[S \ {Max(S)}] + s[Max(S)].size
  <2>2. \A S \in SUBSET (1 .. n) : h[S] = g[S]
    OBVIOUS
  <2>3. \A S \in SUBSET (1 .. n) :
            g[S] = IF S = {} THEN 0 ELSE g[S \ {Max(S)}] + s[Max(S)].size
    BY <2>1 DEF Folds
  <2>4. ASSUME NEW S \in SUBSET (1 .. n + 1)
        PROVE  h[S] = Rule(S)
    <3>1. CASE n + 1 \in S
      <4>1. Max(S) = n + 1
        BY <3>1, MaxIs
      <4>2. S \ {n + 1} \in SUBSET (1 .. n)
        OBVIOUS
      <4>3. h[S] = g[S \ {n + 1}] + s[n + 1].size
        BY <3>1
      <4>4. h[S \ {n + 1}] = g[S \ {n + 1}]
        BY <4>2, <2>2
      <4> HIDE DEF h
      <4> QED
        BY <3>1, <4>1, <4>3, <4>4
    <3>2. CASE n + 1 \notin S
      <4>1. S \in SUBSET (1 .. n)
        BY <3>2
      <4>2. S \ {Max(S)} \in SUBSET (1 .. n)
        BY <4>1
      <4> HIDE DEF h
      <4>3. h[S] = g[S] /\ h[S \ {Max(S)}] = g[S \ {Max(S)}]
        BY <4>1, <4>2, <2>2
      <4>4. g[S] = IF S = {} THEN 0 ELSE g[S \ {Max(S)}] + s[Max(S)].size
        BY <4>1, <2>3
      <4> QED
        BY <4>3, <4>4
    <3> QED
      BY <3>1, <3>2
  <2>5. Folds(h, s, n + 1)
    <3>1. h = [S \in SUBSET (1 .. n + 1) |-> h[S]]
      OBVIOUS
    <3> HIDE DEF h
    <3>2. h = [S \in SUBSET (1 .. n + 1) |-> Rule(S)]
      BY <3>1, <2>4
    <3> QED
      BY <3>2 DEF Folds
  <2> QED
    BY <2>5
<1> HIDE DEF Good
<1>3. \A n \in Nat : n \in Good
  BY <1>1, <1>2, Induction
<1> QED
  BY <1>3 DEF Good

\* The sum is the last running total, whatever function gives the totals.
LEMMA FoldIsTotal ==
    ASSUME NEW s, NEW n \in Nat, DOMAIN s = 1 .. n, NEW t, Totals(t, s, n)
    PROVE  Bytes(s) = t[n]
<1>1. ASSUME NEW g, Folds(g, s, n)
      PROVE  g[1 .. n] = t[n]
  <2> DEFINE Good == {k \in Nat : k <= n => g[1 .. k] = t[k]}
  <2>0. \A S \in SUBSET (1 .. n) :
            g[S] = IF S = {} THEN 0 ELSE g[S \ {Max(S)}] + s[Max(S)].size
    BY <1>1 DEF Folds
  <2>1. 0 \in Good
    <3>1. 1 .. 0 = {}
      OBVIOUS
    <3>2. g[{}] = 0
      BY <2>0
    <3> QED
      BY <3>1, <3>2 DEF Totals
  <2>2. ASSUME NEW k \in Nat, k \in Good
        PROVE  k + 1 \in Good
    <3>1. SUFFICES ASSUME k + 1 <= n PROVE g[1 .. k + 1] = t[k + 1]
      OBVIOUS
    <3>2. g[1 .. k] = t[k]
      BY <2>2, <3>1
    <3>3. 1 .. k + 1 \in SUBSET (1 .. n) /\ k + 1 \in 1 .. k + 1 /\ 1 .. k + 1 # {}
      <4>1. k + 1 \in 1 .. k + 1
        OBVIOUS
      <4>2. \A i \in 1 .. k + 1 : i \in 1 .. n
        BY <3>1
      <4> QED
        BY <4>1, <4>2
    <3>4. Max(1 .. k + 1) = k + 1
      BY <3>3, MaxIs
    <3>5. (1 .. k + 1) \ {k + 1} = 1 .. k
      OBVIOUS
    <3>6. g[1 .. k + 1] = g[1 .. k] + s[k + 1].size
      BY <2>0, <3>3, <3>4, <3>5
    <3>7. t[k + 1] = t[k] + s[k + 1].size
      <4>1. k + 1 \in 1 .. n /\ (k + 1) - 1 = k
        BY <3>1
      <4> QED
        BY <4>1 DEF Totals
    <3> QED
      BY <3>2, <3>6, <3>7
  <2> HIDE DEF Good
  <2>3. n \in Good
    BY <2>1, <2>2, Induction
  <2> QED
    BY <2>3 DEF Good
<1>2. \E g : Folds(g, s, n)
  BY FoldExists
<1> QED
  BY <1>1, <1>2, FoldUnfolds

\* Running totals exist.
LEMMA TotalsExist ==
    ASSUME NEW s, NEW N \in Nat, \A i \in 1 .. N : s[i].size \in Int
    PROVE  \E t : Totals(t, s, N)
<1> DEFINE Good == {n \in Nat : n <= N => \E t : Totals(t, s, n)}
<1>1. 0 \in Good
  <2> DEFINE t == [k \in 0 .. 0 |-> 0]
  <2>1. Totals(t, s, 0)
    BY DEF Totals
  <2> QED
    BY <2>1
<1>2. ASSUME NEW n \in Nat, n \in Good
      PROVE  n + 1 \in Good
  <2>1. SUFFICES ASSUME n + 1 <= N PROVE \E t : Totals(t, s, n + 1)
    OBVIOUS
  <2>2. PICK t : Totals(t, s, n)
    BY <1>2, <2>1
  <2> DEFINE u == [k \in 0 .. n + 1 |-> IF k = n + 1 THEN t[n] + s[n + 1].size ELSE t[k]]
  <2>3. s[n + 1].size \in Int /\ t[n] \in Int
    BY <2>1, <2>2 DEF Totals
  <2>4. u \in [0 .. n + 1 -> Int]
    BY <2>2, <2>3 DEF Totals
  <2>5. u[0] = 0
    BY <2>2 DEF Totals
  <2>6. ASSUME NEW k \in 1 .. n + 1
        PROVE  u[k] = u[k - 1] + s[k].size
    <3>1. k - 1 \in 0 .. n /\ k - 1 # n + 1
      OBVIOUS
    <3>2. u[k - 1] = t[k - 1]
      BY <3>1
    <3>3. CASE k = n + 1
      BY <3>2, <3>3
    <3>4. CASE k # n + 1
      <4>1. k \in 1 .. n /\ u[k] = t[k]
        BY <3>4
      <4>2. t[k] = t[k - 1] + s[k].size
        BY <4>1, <2>2 DEF Totals
      <4> HIDE DEF u
      <4> QED
        BY <4>1, <4>2, <3>2
    <3> QED
      BY <3>3, <3>4
  <2> QED
    BY <2>4, <2>5, <2>6 DEF Totals
<1> HIDE DEF Good
<1>3. N \in Good
  BY <1>1, <1>2, Induction
<1> QED
  BY <1>3 DEF Good

LEMMA BytesEmpty == Bytes(<<>>) = 0
<1> DEFINE t == [k \in 0 .. 0 |-> 0]
<1>1. Totals(t, <<>>, 0)
  BY DEF Totals
<1>2. DOMAIN <<>> = 1 .. 0
  OBVIOUS
<1> HIDE DEF t
<1>3. Bytes(<<>>) = t[0]
  BY <1>1, <1>2, FoldIsTotal
<1> QED
  BY <1>3 DEF t

LEMMA MessagesHaveSizes ==
    ASSUME NEW s \in Seq(Message)
    PROVE  /\ Len(s) \in Nat /\ DOMAIN s = 1 .. Len(s)
           /\ \A i \in 1 .. Len(s) : s[i].size \in Int
<1>1. Len(s) \in Nat /\ DOMAIN s = 1 .. Len(s)
  OBVIOUS
<1>2. ASSUME NEW i \in 1 .. Len(s) PROVE s[i].size \in Int
  <2>1. s[i] \in Message
    OBVIOUS
  <2>2. s[i].size \in Sizes
    BY <2>1 DEF Message
  <2>3. s[i].size \in Nat
    BY <2>2, Zenon
  <2> QED
    BY <2>3
<1> QED
  BY <1>1, <1>2

\* What a message adds when it enters, and what it takes away when it leaves.
LEMMA BytesAppend ==
    ASSUME NEW s \in Seq(Message), NEW m \in Message
    PROVE  Bytes(Append(s, m)) = Bytes(s) + m.size
<1> DEFINE n == Len(s)
           r == Append(s, m)
<1>1. n \in Nat /\ DOMAIN s = 1 .. n /\ \A i \in 1 .. n : s[i].size \in Int
  BY MessagesHaveSizes
<1>2. /\ r \in Seq(Message) /\ Len(r) = n + 1
      /\ \A i \in 1 .. n : r[i] = s[i]
      /\ r[n + 1] = m
  BY AppendFacts
<1> HIDE DEF n, r
<1>3. DOMAIN r = 1 .. n + 1 /\ \A i \in 1 .. n + 1 : r[i].size \in Int
  BY <1>2, MessagesHaveSizes
<1>4. PICK t : Totals(t, r, n + 1)
  BY <1>1, <1>3, TotalsExist
<1> DEFINE u == [k \in 0 .. n |-> t[k]]
<1>5. Totals(u, s, n)
  <2>1. u \in [0 .. n -> Int] /\ u[0] = 0
    BY <1>1, <1>4 DEF Totals
  <2>2. ASSUME NEW k \in 1 .. n
        PROVE  u[k] = u[k - 1] + s[k].size
    <3>1. k \in 1 .. n + 1 /\ k - 1 \in 0 .. n
      BY <1>1
    <3>2. t[k] = t[k - 1] + r[k].size
      BY <3>1, <1>4 DEF Totals
    <3>3. u[k] = t[k] /\ u[k - 1] = t[k - 1] /\ r[k] = s[k]
      BY <3>1, <1>2
    <3> HIDE DEF u
    <3> QED
      BY <3>2, <3>3
  <2> HIDE DEF u
  <2> QED
    BY <2>1, <2>2 DEF Totals
<1>6. Bytes(s) = t[n]
  <2>1. u[n] = t[n]
    BY <1>1
  <2> HIDE DEF u
  <2> QED
    BY <2>1, <1>1, <1>5, FoldIsTotal
<1>7. Bytes(r) = t[n + 1]
  BY <1>1, <1>3, <1>4, FoldIsTotal
<1>8. t[n + 1] = t[n] + m.size
  <2>1. n + 1 \in 1 .. n + 1 /\ (n + 1) - 1 = n
    BY <1>1
  <2> QED
    BY <2>1, <1>2, <1>4 DEF Totals
<1> QED
  BY <1>6, <1>7, <1>8 DEF r

LEMMA BytesTail ==
    ASSUME NEW s \in Seq(Message), s # <<>>
    PROVE  Bytes(Tail(s)) = Bytes(s) - Head(s).size
<1> DEFINE n == Len(s) - 1
           r == Tail(s)
<1>1. /\ n \in Nat /\ n + 1 = Len(s)
      /\ DOMAIN s = 1 .. n + 1 /\ \A i \in 1 .. n + 1 : s[i].size \in Int
  BY MessagesHaveSizes, TailFacts
<1>2. /\ r \in Seq(Message) /\ Len(r) = n
      /\ \A i \in 1 .. n : r[i] = s[i + 1]
      /\ Head(s) = s[1]
  BY TailFacts
<1> HIDE DEF n, r
<1>3. DOMAIN r = 1 .. n
  BY <1>2, MessagesHaveSizes
<1>4. PICK t : Totals(t, s, n + 1)
  BY <1>1, TotalsExist
<1>5. t[0] = 0 /\ t[1] = s[1].size /\ s[1].size \in Int
  <2>1. 1 \in 1 .. n + 1 /\ 1 - 1 = 0
    BY <1>1
  <2>2. t[1] = t[0] + s[1].size
    BY <2>1, <1>4 DEF Totals
  <2> QED
    BY <2>1, <2>2, <1>1, <1>4 DEF Totals
<1> DEFINE u == [k \in 0 .. n |-> t[k + 1] - s[1].size]
<1>6. Totals(u, r, n)
  <2>1. \A k \in 0 .. n : t[k + 1] \in Int
    BY <1>1, <1>4 DEF Totals
  <2>2. u \in [0 .. n -> Int] /\ u[0] = 0
    BY <1>1, <1>5, <2>1
  <2>3. ASSUME NEW k \in 1 .. n
        PROVE  u[k] = u[k - 1] + r[k].size
    <3>1. k + 1 \in 1 .. n + 1 /\ k - 1 \in 0 .. n /\ (k - 1) + 1 = k /\ (k + 1) - 1 = k
          /\ k \in 0 .. n
      BY <1>1
    <3>2. t[k + 1] = t[k] + s[k + 1].size
      BY <3>1, <1>4 DEF Totals
    <3>3. u[k] = t[k + 1] - s[1].size /\ u[k - 1] = t[k] - s[1].size
      BY <3>1
    <3>4. r[k] = s[k + 1] /\ s[k + 1].size \in Int /\ t[k] \in Int
      BY <3>1, <1>1, <1>2, <2>1
    <3> HIDE DEF u
    <3> QED
      BY <3>2, <3>3, <3>4, <1>5
  <2> HIDE DEF u
  <2> QED
    BY <2>2, <2>3 DEF Totals
<1>7. Bytes(r) = t[n + 1] - s[1].size
  <2>1. u[n] = t[n + 1] - s[1].size
    BY <1>1
  <2> HIDE DEF u
  <2> QED
    BY <2>1, <1>1, <1>3, <1>6, FoldIsTotal
<1>8. Bytes(s) = t[n + 1]
  BY <1>1, <1>4, FoldIsTotal
<1> QED
  BY <1>2, <1>7, <1>8 DEF r

-----------------------------------------------------------------------------
(* The count of bytes is exact. *)

LEMMA TurnAccounted ==
    ASSUME TypeOK, BytesAccounted, PopForTurn \/ AnswerNull
    PROVE  BytesAccounted'
<1>1. CASE TakeMessage
  <2>1. Head(messages_) \in Message
    BY <1>1 DEF TypeOK, TakeMessage
  <2>2. Head(messages_).size \in Nat
    BY <2>1 DEF Message
  <2>3. Bytes(messages_') = Bytes(messages_) - Head(messages_).size
    BY <1>1, BytesTail DEF TakeMessage, TypeOK
  <2>4. queued_bytes_' = queued_bytes_ - Head(messages_).size
    BY <1>1 DEF TakeMessage
  <2> QED
    BY <2>2, <2>3, <2>4 DEF BytesAccounted, TypeOK
<1>2. CASE AnswerNull \/ Suspend
  BY <1>2 DEF AnswerNull, Suspend, BytesAccounted
<1> QED
  BY <1>1, <1>2 DEF PopForTurn

LEMMA Accounting == TypeOK /\ BytesAccounted /\ [Next]_vars => BytesAccounted'
<1> SUFFICES ASSUME TypeOK, BytesAccounted, [Next]_vars PROVE BytesAccounted'
  OBVIOUS
<1>1. ASSUME UNCHANGED <<messages_, queued_bytes_>>
      PROVE  BytesAccounted'
  BY <1>1 DEF BytesAccounted
<1>2. CASE RunPush
  <2>1. CASE UNCHANGED <<queue, cancelled_>> \/ CloseSlow
    BY <2>1, <1>1 DEF queue, CloseSlow
  <2>2. CASE Enter(Head(strand).msg) /\ ~Overflows(Head(strand).msg)
    <3> DEFINE m == Head(strand).msg
    <3>1. m \in Message
      BY <1>2, HeadPush DEF RunPush
    <3>2. m.size \in Nat
      BY <3>1 DEF Message
    <3>3. messages_' = Append(messages_, m) /\ queued_bytes_' = queued_bytes_ + m.size
      BY <2>2 DEF Enter
    <3>4. Bytes(messages_') = Bytes(messages_) + m.size
      BY <3>1, <3>3, BytesAppend DEF TypeOK
    <3>5. queued_bytes_ + m.size <= MaxBytes
      BY <2>2, <3>2 DEF Overflows, TypeOK
    <3> HIDE DEF m
    <3> QED
      BY <3>3, <3>4, <3>5 DEF BytesAccounted
  <2> QED
    BY <1>2, <2>1, <2>2 DEF RunPush
<1>3. CASE RunResume
  BY <1>3, TurnAccounted DEF RunResume
<1>4. CASE CallPopFor
  BY <1>4, TurnAccounted DEF CallPopFor
<1>5. CASE (\E size \in Sizes : Push(size)) \/ Close \/ RunClose \/ Expire \/ Written \/ Leave \/ Done
           \/ UNCHANGED vars
  <2>1. UNCHANGED <<messages_, queued_bytes_>>
    BY <1>5 DEF Push, Close, RunClose, Expire, Written, Leave, Done, queue, vars
  <2> QED
    BY <2>1, <1>1
<1> QED
  BY <1>2, <1>3, <1>4, <1>5 DEF Next, RunTask

\* Accounting: whatever order pushes, closes and time-outs come in, the number
\* Push compares with kMaxQueuedResponseBytes is the sum of the sizes of the
\* messages in the queue, and never above the limit: what PopFor subtracts is
\* exactly what Push has added, so the limit neither leaks nor drifts.
THEOREM BytesExact == Spec => []BytesAccounted
<1>1. Init => BytesAccounted
  <2>1. Init => messages_ = <<>> /\ queued_bytes_ = 0
    BY DEF Init
  <2> QED
    BY <2>1, BytesEmpty DEF BytesAccounted
<1> QED
  BY <1>1, Accounting, TypeCorrect, PTL DEF Spec

-----------------------------------------------------------------------------
(* The queue implements the mailbox: messages_ is the box, closed_ its       *)
(* shutter, result the answer; what happens on the strand and on the timer   *)
(* is a stuttering step until it reaches the queue.                          *)

box == [i \in DOMAIN messages_ |-> messages_[i].id]

LEMMA BoxFacts ==
    ASSUME TypeOK
    PROVE  /\ box \in Seq(Nat)
           /\ Len(box) = Len(messages_) /\ Len(messages_) \in Nat
           /\ \A i \in 1 .. Len(messages_) : box[i] = messages_[i].id
<1>1. messages_ \in Seq(Message) /\ DOMAIN messages_ = 1 .. Len(messages_) /\ Len(messages_) \in Nat
  BY DEF TypeOK
<1>2. \A i \in 1 .. Len(messages_) : messages_[i] \in Message
  BY <1>1
<1>3. \A i \in 1 .. Len(messages_) : messages_[i].id \in Nat
  BY <1>2 DEF Message
<1> QED
  BY <1>1, <1>3 DEF box

LEMMA BoxIsEmpty ==
    ASSUME TypeOK
    PROVE  box = <<>> <=> messages_ = <<>>
BY BoxFacts DEF TypeOK

LEMMA SameSequence ==
    ASSUME NEW s \in Seq(Nat), NEW t \in Seq(Nat), Len(s) = Len(t),
           \A i \in 1 .. Len(s) : s[i] = t[i]
    PROVE  s = t
BY SMTT(20)

\* A message that enters the queue enters the box with the next number.
LEMMA EnterIsAccept ==
    ASSUME TypeOK, TypeOK', NEW m \in Message, messages_' = Append(messages_, m),
           m.id = taken + Len(messages_) + 1
    PROVE  box' = Append(box, taken + Len(box) + 1)
<1>1. /\ Len(messages_') = Len(messages_) + 1
      /\ \A i \in 1 .. Len(messages_) : messages_'[i] = messages_[i]
      /\ messages_'[Len(messages_) + 1] = m
  BY AppendFacts DEF TypeOK
<1>2. /\ box \in Seq(Nat) /\ Len(box) = Len(messages_) /\ Len(messages_) \in Nat
      /\ \A i \in 1 .. Len(messages_) : box[i] = messages_[i].id
  BY BoxFacts
<1>3. /\ box' \in Seq(Nat) /\ Len(box') = Len(messages_')
      /\ \A i \in 1 .. Len(messages_') : box'[i] = messages_'[i].id
  <2>1. /\ messages_' \in Seq(Message) /\ DOMAIN messages_' = 1 .. Len(messages_')
        /\ Len(messages_') \in Nat
    BY DEF TypeOK
  <2>2. \A i \in 1 .. Len(messages_') : messages_'[i].id \in Nat
    <3> TAKE i \in 1 .. Len(messages_')
    <3>1. messages_'[i] \in Message
      BY <2>1
    <3> QED
      BY <3>1 DEF Message
  <2> QED
    BY <2>1, <2>2 DEF box
<1> DEFINE more == Append(box, taken + Len(box) + 1)
<1>4. taken + Len(box) + 1 \in Nat
  BY <1>2 DEF TypeOK
<1>5. /\ more \in Seq(Nat) /\ Len(more) = Len(box) + 1
      /\ \A i \in 1 .. Len(box) : more[i] = box[i]
      /\ more[Len(box) + 1] = taken + Len(box) + 1
  BY <1>2, <1>4, AppendFacts
<1> HIDE DEF more
<1>6. \A i \in 1 .. Len(more) : box'[i] = more[i]
  <2> TAKE i \in 1 .. Len(more)
  <2>1. i \in 1 .. Len(messages_') /\ box'[i] = messages_'[i].id
    BY <1>1, <1>2, <1>3, <1>5
  <2>2. CASE i = Len(messages_) + 1
    BY <2>1, <2>2, <1>1, <1>2, <1>5
  <2>3. CASE i \in 1 .. Len(messages_)
    <3>1. messages_'[i] = messages_[i]
      BY <2>3, <1>1
    <3>2. box[i] = messages_[i].id /\ more[i] = box[i]
      BY <2>3, <1>2, <1>5
    <3> QED
      BY <2>1, <3>1, <3>2
  <2> QED
    BY <2>1, <2>2, <2>3, <1>1, <1>2
<1>7. Len(box') = Len(more)
  BY <1>1, <1>2, <1>3, <1>5
<1> HIDE DEF box
<1>8. box' = more
  BY <1>3, <1>5, <1>6, <1>7, SameSequence
<1> QED
  BY <1>8 DEF more

\* A message returned by PopFor is the first one in the box.
LEMMA ReturnIsTake ==
    ASSUME TypeOK, TypeOK', NoGap, TakeMessage
    PROVE  box # <<>> /\ Head(box) = taken + 1 /\ box' = Tail(box)
<1>1. /\ Len(messages_') = Len(messages_) - 1 /\ Len(messages_) \in Nat \ {0}
      /\ \A i \in 1 .. Len(messages_) - 1 : messages_'[i] = messages_[i + 1]
  BY TailFacts DEF TypeOK, TakeMessage
<1>2. /\ box \in Seq(Nat) /\ Len(box) = Len(messages_)
      /\ \A i \in 1 .. Len(messages_) : box[i] = messages_[i].id
  BY BoxFacts
<1>3. /\ box' \in Seq(Nat) /\ Len(box') = Len(messages_')
      /\ \A i \in 1 .. Len(messages_') : box'[i] = messages_'[i].id
  <2>1. /\ messages_' \in Seq(Message) /\ DOMAIN messages_' = 1 .. Len(messages_')
        /\ Len(messages_') \in Nat
    BY DEF TypeOK
  <2>2. \A i \in 1 .. Len(messages_') : messages_'[i].id \in Nat
    <3> TAKE i \in 1 .. Len(messages_')
    <3>1. messages_'[i] \in Message
      BY <2>1
    <3> QED
      BY <3>1 DEF Message
  <2> QED
    BY <2>1, <2>2 DEF box
<1>4. box # <<>> /\ box[1] = taken + 1
  <2>1. 1 \in 1 .. Len(messages_)
    BY <1>1
  <2>2. messages_[1].id = taken + 1
    BY <2>1 DEF NoGap
  <2> HIDE DEF box
  <2>3. box[1] = messages_[1].id /\ Len(box) # 0
    BY <1>1, <1>2, <2>1
  <2> QED
    BY <2>2, <2>3
<1> HIDE DEF box
<1>5. /\ Tail(box) \in Seq(Nat) /\ Len(Tail(box)) = Len(box) - 1
      /\ \A i \in 1 .. Len(box) - 1 : Tail(box)[i] = box[i + 1]
      /\ Head(box) = box[1]
  BY <1>2, <1>4, TailFacts
<1>6. \A i \in 1 .. Len(box') : box'[i] = Tail(box)[i]
  <2> TAKE i \in 1 .. Len(box')
  <2>1. i \in 1 .. Len(messages_) - 1 /\ i + 1 \in 1 .. Len(messages_)
    BY <1>1, <1>3
  <2>2. box'[i] = messages_'[i].id /\ messages_'[i] = messages_[i + 1]
    BY <2>1, <1>1, <1>3
  <2>3. box[i + 1] = messages_[i + 1].id /\ Tail(box)[i] = box[i + 1]
    BY <2>1, <1>2, <1>5
  <2> QED
    BY <2>2, <2>3
<1>7. Len(box') = Len(Tail(box))
  BY <1>1, <1>2, <1>3, <1>5
<1>8. box' = Tail(box)
  BY <1>3, <1>5, <1>6, <1>7, SameSequence
<1> QED
  BY <1>4, <1>5, <1>8

LEMMA StepRefines ==
    ASSUME TypeOK, TypeOK', IInv, [Next]_vars
    PROVE  [MailboxSpec!Next]_(MailboxSpec!vars)
<1> USE DEF MailboxSpec!Next, MailboxSpec!vars
<1>1. ASSUME UNCHANGED <<messages_, closed_, taken, result>>
      PROVE  UNCHANGED MailboxSpec!vars
  BY <1>1
<1>2. CASE RunPush
  <2>1. CASE closed_ \/ Overflows(Head(strand).msg)
    BY <1>2, <2>1 DEF RunPush, Enter, CloseSlow, queue, MailboxSpec!Shut
  <2>2. CASE ~closed_ /\ ~Overflows(Head(strand).msg)
    <3> DEFINE m == Head(strand).msg
    <3>1. m \in Message
      BY <1>2, HeadPush DEF RunPush, Enter, CloseSlow
    <3>2. m.id = taken + Len(messages_) + 1
      BY <1>2, <2>2, InOrderTailPush DEF RunPush, Enter, CloseSlow, IInv, StrandInv, TypeOK
    <3>3. messages_' = Append(messages_, m) /\ UNCHANGED <<closed_, taken, result>>
      BY <1>2, <2>2 DEF RunPush, Enter, CloseSlow
    <3>4. Len(messages_) < MaxMessages
      BY <2>2 DEF Overflows, TypeOK
    <3>5. box' = Append(box, taken + Len(box) + 1)
      BY <3>1, <3>2, <3>3, EnterIsAccept
    <3>6. Len(box) < MaxMessages
      BY <3>4, BoxFacts
    <3>7. MailboxSpec!Accept
      BY <2>2, <3>3, <3>5, <3>6 DEF MailboxSpec!Accept, box
    <3> QED
      BY <3>7
  <2> QED
    BY <2>1, <2>2
<1>3. CASE RunClose
  BY <1>3 DEF RunClose, MailboxSpec!Shut
<1>4. ASSUME PopForTurn \/ (AnswerNull /\ messages_ = <<>>), closed_' = closed_
      PROVE  MailboxSpec!Next
  <2>1. CASE TakeMessage
    <3>1. box # <<>> /\ Head(box) = taken + 1 /\ box' = Tail(box)
      BY <2>1, ReturnIsTake DEF IInv
    <3>2. taken' = taken + 1 /\ result' = "message"
      BY <2>1 DEF TakeMessage
    <3> QED
      BY <1>4, <3>1, <3>2 DEF MailboxSpec!Take, box
  <2>2. CASE AnswerNull /\ messages_ = <<>>
    BY <1>4, <2>2, BoxIsEmpty DEF AnswerNull, MailboxSpec!Refuse, box
  <2>3. CASE Suspend
    BY <1>4, <2>3 DEF Suspend, MailboxSpec!Ask
  <2> QED
    BY <1>4, <2>1, <2>2, <2>3 DEF PopForTurn
<1>5. CASE RunResume
  BY <1>5, <1>4 DEF RunResume, TimedOut
<1>6. CASE CallPopFor
  BY <1>6, <1>4 DEF CallPopFor
<1>7. CASE (\E size \in Sizes : Push(size)) \/ Close \/ Expire \/ Written \/ Leave \/ Done
           \/ UNCHANGED vars
  <2>1. UNCHANGED <<messages_, closed_, taken, result>>
    BY <1>7 DEF Push, Close, Expire, Written, Leave, Done, queue, vars
  <2> QED
    BY <2>1, <1>1
<1> QED
  BY <1>2, <1>3, <1>5, <1>6, <1>7 DEF Next, RunTask

\* Every behaviour of the queue is one of the mailbox.
THEOREM Refinement == Spec => MailboxSpec!Spec
<1>1. Init => MailboxSpec!Init
  BY DEF Init, MailboxSpec!Init
<1>2. TypeOK /\ TypeOK' /\ IInv /\ [Next]_vars => [MailboxSpec!Next]_(MailboxSpec!vars)
  BY StepRefines
<1> QED
  BY <1>1, <1>2, Invariant, PTL DEF Spec, MailboxSpec!Spec
==============================================================================
