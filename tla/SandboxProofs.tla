---------------------------- MODULE SandboxProofs ----------------------------
(***************************************************************************)
(* For any threads, hosts, allowlist and bounds the supervisor lets        *)
(* nothing out but what it did not read or what was rewritten behind its   *)
(* back, its report accounts for every refusal, and the chain detector     *)
(* reports each thread's first chain.                                      *)
(***************************************************************************)
EXTENDS Sandbox, FiniteSetTheorems, TLAPS

\* The history and a received notification have the fields they start with.
LogShape(l) ==
  l = [seen |-> l.seen, tried |-> l.tried, reached |-> l.reached, unread |-> l.unread,
       swapped |-> l.swapped, refused |-> l.refused, vanished |-> l.vanished]

CurShape(n) == n = [id |-> n.id, task |-> n.task, call |-> n.call, at |-> n.at, answer |-> n.answer]

Notice == [id : Nat \ {0}, call : Calls, fresh : BOOLEAN]

(* Threads ask only for the calls they can make, and no two calls have the *)
(* same id: one that comes later has a higher one.                         *)
AskingCalls ==
  /\ LogShape(log) /\ calls \in Nat
  /\ asking \in [Tasks -> {Nothing} \cup Notice]
  /\ \A t \in Tasks : asking[t].id <= calls
  /\ cur # Nothing => /\ CurShape(cur) /\ cur.task \in Tasks /\ cur.call \in Calls
                      /\ cur.id \in Nat \ {0} /\ cur.id <= calls
                      /\ cur.answer \in {"none", "continue", "eperm"}

(* What makes NothingSlipsOut inductive: while a call waits for the kernel *)
(* to take the answer that lets it go on, its address is listed, or was    *)
(* not read, or was rewritten after it was examined.                       *)
AnswersAreDecided ==
  cur # Nothing /\ Valid /\ cur.answer = "continue" /\ Memory \in Hosts =>
    Memory \in Allowed \/ cur.id \in log.unread \cup log.swapped

SlipInv == NothingSlipsOut /\ AnswersAreDecided

(* A notification that stands belongs to a thread that waits.              *)
LEMMA ValidWaits ==
  ASSUME AskingCalls, cur # Nothing, Valid
  PROVE  asking[cur.task] # Nothing /\ asking[cur.task] \in Notice /\ Memory \in Calls
<1>1. cur.id # 0 /\ cur.task \in Tasks /\ asking[cur.task].id = cur.id
  BY DEF AskingCalls, Valid
<1>2. asking[cur.task] # Nothing
  BY <1>1 DEF Nothing
<1>3. QED BY <1>1, <1>2 DEF AskingCalls, Memory, Notice

(* Notifications are never Nothing.                                        *)
LEMMA NoticeIsSome ==
  ASSUME NEW n, CurShape(n) \/ n \in Notice
  PROVE  n # Nothing
<1>1. DOMAIN Nothing = {"id"}
  BY DEF Nothing
<1>2. CASE CurShape(n)
  <2>1. DOMAIN n = {"id", "task", "call", "at", "answer"}
    BY <1>2 DEF CurShape
  <2>2. QED BY <1>1, <2>1
<1>3. CASE n \in Notice
  <2>1. DOMAIN n = {"id", "call", "fresh"}
    BY <1>3 DEF Notice
  <2>2. QED BY <1>1, <2>1
<1>4. QED BY <1>2, <1>3

(* What the supervisor holds after an examination.                         *)
LEMMA ExaminedAs ==
  ASSUME AskingCalls, Examine \/ ExamineUnread
  PROVE  \/ cur' = Nothing /\ ~Valid /\ log' = log
         \/ \E c \in {cur.call, Memory}, a \in {"continue", "eperm"} :
              /\ cur' = [id |-> cur.id, task |-> cur.task, call |-> c, at |-> cur.at, answer |-> a]
              /\ Valid /\ cur # Nothing
              /\ \/ Examine /\ log' = Seen /\ c = Memory
                    /\ (c \in Connects => a = decide(c)) /\ (c \notin Connects => a = "continue")
                 \/ ExamineUnread /\ log' = [log EXCEPT !.unread = @ \cup {cur.id}]
                    /\ c = cur.call /\ a = "continue"
<1>1. cur # Nothing /\ CurShape(cur)
  BY DEF Examine, ExamineUnread, Examining, AskingCalls
<1>2. CASE Examine /\ Valid
  <2>1. On(Memory) /\ log' = Seen
    BY <1>2 DEF Examine
  <2>2. CASE Memory \in Connects
    <3>1. cur' = [cur EXCEPT !.call = Memory, !.answer = decide(Memory)]
      BY <2>1, <2>2 DEF On, OnConnect
    <3>2. cur' = [id |-> cur.id, task |-> cur.task, call |-> Memory, at |-> cur.at, answer |-> decide(Memory)]
      BY <1>1, <3>1 DEF CurShape
    <3>3. decide(Memory) \in {"continue", "eperm"}
      BY DEF decide
    <3>4. QED BY <1>1, <1>2, <2>1, <2>2, <3>2, <3>3
  <2>3. CASE Memory \notin Connects
    <3>1. cur' = [cur EXCEPT !.call = Memory, !.answer = "continue"]
      BY <2>1, <2>3 DEF On, OnOpenat
    <3>2. cur' = [id |-> cur.id, task |-> cur.task, call |-> Memory, at |-> cur.at, answer |-> "continue"]
      BY <1>1, <3>1 DEF CurShape
    <3>3. QED BY <1>1, <1>2, <2>1, <2>3, <3>2
  <2>4. QED BY <2>2, <2>3
<1>3. CASE Examine /\ ~Valid
  BY <1>3 DEF Examine
<1>4. CASE ExamineUnread
  <2>1. cur' = [cur EXCEPT !.answer = "continue"]
    BY <1>4 DEF ExamineUnread, decide
  <2>2. cur' = [id |-> cur.id, task |-> cur.task, call |-> cur.call, at |-> cur.at, answer |-> "continue"]
    BY <1>1, <2>1 DEF CurShape
  <2>3. QED BY <1>1, <1>4, <2>2 DEF ExamineUnread
<1>5. QED BY <1>2, <1>3, <1>4

(* The address or the path of a call that waits is rewritten.              *)
LEMMA SwapRewrites ==
  ASSUME AskingCalls, NEW t \in Tasks, NEW c \in Calls, Swap(t, c)
  PROVE  /\ asking[t] \in Notice /\ asking' = [asking EXCEPT ![t] = [asking[t] EXCEPT !.call = c]]
         /\ [asking[t] EXCEPT !.call = c] \in Notice
         /\ [asking[t] EXCEPT !.call = c].id = asking[t].id
         /\ [asking[t] EXCEPT !.call = c].call = c
<1>1. asking[t] \in Notice
  BY DEF Swap, AskingCalls
<1>2. asking' = [asking EXCEPT ![t] = [asking[t] EXCEPT !.call = c]]
  BY DEF Swap
<1>3. QED BY <1>1, <1>2 DEF Notice

(* Threads go on asking for calls they can make.                           *)
LEMMA AskingKeeps ==
  ASSUME AskingCalls, [Next]_vars
  PROVE  AskingCalls'
<1>1. ASSUME NEW t \in Tasks, NEW c \in Calls, Call(t, c) PROVE AskingCalls'
  <2> DEFINE a == [id |-> calls + 1, call |-> c, fresh |-> TRUE]
  <2>1. a \in Notice /\ calls + 1 \in Nat /\ a.id = calls + 1
    BY DEF AskingCalls, Notice
  <2>2. asking' = [asking EXCEPT ![t] = a] /\ calls' = calls + 1 /\ cur' = cur
    BY <1>1 DEF Call
  <2>3. LogShape(log')
    BY <1>1 DEF Call, AskingCalls, LogShape
  <2> HIDE DEF a
  <2>4. \A u \in Tasks : asking[u].id \in Nat /\ asking[u].id <= calls
    BY DEF AskingCalls, Notice, Nothing
  <2>5. \A u \in Tasks : asking'[u].id <= calls'
    BY <2>1, <2>2, <2>4 DEF AskingCalls
  <2>6. cur' # Nothing => cur.id <= calls'
    BY <2>2 DEF AskingCalls
  <2>7. asking' \in [Tasks -> {Nothing} \cup Notice]
    BY <2>1, <2>2 DEF AskingCalls
  <2>8. QED BY <2>1, <2>2, <2>3, <2>5, <2>6, <2>7 DEF AskingCalls, CurShape
<1>2. ASSUME NEW t \in Tasks, NEW c \in Calls, Swap(t, c) PROVE AskingCalls'
  <2> DEFINE a == [asking[t] EXCEPT !.call = c]
  <2>1. a \in Notice /\ a.id = asking[t].id /\ asking' = [asking EXCEPT ![t] = a]
    BY <1>2, SwapRewrites
  <2>2. calls' = calls + 1 /\ cur' = cur /\ calls \in Nat
    BY <1>2 DEF Swap, AskingCalls
  <2>3. LogShape(log')
    BY <1>2 DEF Swap, AskingCalls, LogShape
  <2> HIDE DEF a
  <2>4. \A u \in Tasks : asking[u].id \in Nat /\ asking[u].id <= calls
    BY DEF AskingCalls, Notice, Nothing
  <2>5. \A u \in Tasks : asking'[u].id <= calls'
    BY <2>1, <2>2, <2>4 DEF AskingCalls
  <2>6. cur' # Nothing => cur.id <= calls'
    BY <2>2 DEF AskingCalls
  <2>7. asking' \in [Tasks -> {Nothing} \cup Notice]
    BY <2>1 DEF AskingCalls
  <2>8. QED BY <2>2, <2>3, <2>5, <2>6, <2>7 DEF AskingCalls, CurShape
<1>3. ASSUME NEW t \in Tasks, Receive(t) PROVE AskingCalls'
  <2> DEFINE a == [asking[t] EXCEPT !.fresh = FALSE]
  <2>1. asking[t] \in Notice
    BY <1>3 DEF Receive, AskingCalls
  <2>2. a \in Notice /\ a.id = asking[t].id
    BY <2>1 DEF Notice
  <2>3. asking' = [asking EXCEPT ![t] = a] /\ calls' = calls /\ log' = log
    BY <1>3 DEF Receive
  <2>4. cur' = [id |-> asking[t].id, task |-> t, call |-> asking[t].call, at |-> now', answer |-> "none"]
    BY <1>3 DEF Receive
  <2>5. /\ CurShape(cur') /\ cur'.task = t /\ cur'.call \in Calls /\ cur'.id \in Nat \ {0}
        /\ cur'.id <= calls /\ cur'.answer = "none"
    BY <2>1, <2>4 DEF CurShape, AskingCalls, Notice
  <2> HIDE DEF a
  <2>6. QED BY <2>2, <2>3, <2>5 DEF AskingCalls, LogShape
<1>4. ASSUME NEW t \in Tasks, Fork(t) \/ Exit(t) \/ Interrupt(t) PROVE AskingCalls'
  <2>1. cur' = cur /\ calls' = calls /\ LogShape(log')
    BY <1>4 DEF Fork, Exit, Interrupt, Withdrawn, AskingCalls, LogShape
  <2>2. asking' = asking \/ asking' = [asking EXCEPT ![t] = Nothing]
    BY <1>4 DEF Fork, Exit, Interrupt, Withdrawn
  <2>3. Nothing.id = 0 /\ calls \in Nat
    BY DEF Nothing, AskingCalls
  <2>4. QED BY <2>1, <2>2, <2>3 DEF AskingCalls, CurShape
<1>5. ASSUME Examine \/ ExamineUnread PROVE AskingCalls'
  <2>1. UNCHANGED <<asking, calls>>
    BY <1>5 DEF Examine, ExamineUnread, kernel
  <2>2. LogShape(log')
    BY <1>5, ExaminedAs DEF Seen, AskingCalls, LogShape
  <2>3. CASE cur' = Nothing
    BY <2>1, <2>2, <2>3 DEF AskingCalls
  <2>4. ASSUME NEW c \in {cur.call, Memory}, NEW a \in {"continue", "eperm"}, Valid, cur # Nothing,
               cur' = [id |-> cur.id, task |-> cur.task, call |-> c, at |-> cur.at, answer |-> a]
        PROVE  AskingCalls'
    <3>1. /\ CurShape(cur') /\ cur'.task = cur.task /\ cur'.call = c /\ cur'.id = cur.id /\ cur'.answer = a
      BY <2>4 DEF CurShape
    <3>2. c \in Calls
      BY <2>4, ValidWaits DEF AskingCalls
    <3>3. QED BY <2>1, <2>2, <2>4, <3>1, <3>2 DEF AskingCalls
  <2>5. QED BY <1>5, <2>3, <2>4, ExaminedAs
<1>6. CASE Answer \/ SuperviseFails \/ reap
  <2>1. calls' = calls /\ LogShape(log') /\ (cur' = cur \/ cur' = Nothing)
    BY <1>6 DEF Answer, SuperviseFails, reap, AskingCalls, LogShape
  <2>2. asking' \in [Tasks -> {Nothing} \cup Notice] /\ \A u \in Tasks : asking'[u] \in {asking[u], Nothing}
    BY <1>6 DEF Answer, SuperviseFails, reap, Closed, AskingCalls
  <2>3. Nothing.id = 0 /\ calls \in Nat
    BY DEF Nothing, AskingCalls
  <2>4. QED BY <2>1, <2>2, <2>3 DEF AskingCalls, CurShape
<1>7. CASE child_main \/ recv_fd \/ ReceiveNothing \/ report \/ finish \/ UNCHANGED vars
  <2>1. UNCHANGED <<asking, calls, cur, log>>
    BY <1>7 DEF child_main, recv_fd, ReceiveNothing, NoneToReceive, report, finish, vars, kernel
  <2>2. QED BY <2>1 DEF AskingCalls, LogShape, CurShape
<1>8. QED BY <1>1, <1>2, <1>3, <1>4, <1>5, <1>6, <1>7 DEF Next

(* A step that examines nothing and answers nothing keeps the invariant,   *)
(* as long as it leaves the memory of the call in hand alone.              *)
LEMMA OthersKeep ==
  ASSUME SlipInv, log'.reached = log.reached, log'.unread = log.unread, log'.swapped = log.swapped,
         \/ cur' = Nothing
         \/ cur' = cur /\ (cur # Nothing /\ Valid' => Valid /\ Memory' = Memory)
  PROVE  SlipInv'
BY DEF SlipInv, NothingSlipsOut, AnswersAreDecided

(* A call that waits no longer takes the notification along.               *)
LEMMA WithdrawnKeep ==
  ASSUME AskingCalls, SlipInv, log'.reached = log.reached, log'.unread = log.unread,
         log'.swapped = log.swapped, cur' = cur \/ cur' = Nothing,
         \A u \in Tasks : asking'[u] \in {asking[u], Nothing}
  PROVE  SlipInv'
<1>1. cur' = cur /\ cur # Nothing /\ Valid' => Valid /\ Memory' = Memory
  <2> SUFFICES ASSUME cur' = cur, cur # Nothing, Valid' PROVE Valid /\ Memory' = Memory
    OBVIOUS
  <2>1. asking'[cur.task].id = cur.id /\ cur.id # 0 /\ cur.task \in Tasks
    BY DEF Valid, AskingCalls
  <2>2. asking'[cur.task] = asking[cur.task]
    BY <2>1 DEF Nothing
  <2>3. QED BY <2>1, <2>2 DEF Valid, Memory
<1>2. QED BY <1>1, OthersKeep

(* A new call has a new id: the notification in hand is not about it.      *)
LEMMA CallKeeps ==
  ASSUME AskingCalls, SlipInv, NEW t \in Tasks, NEW c \in Calls, Call(t, c)
  PROVE  SlipInv'
<1>1. /\ log'.reached = log.reached /\ log'.unread = log.unread /\ log'.swapped = log.swapped
  BY DEF Call, AskingCalls, LogShape
<1>2. cur' = cur /\ asking' = [asking EXCEPT ![t] = [id |-> calls + 1, call |-> c, fresh |-> TRUE]]
  BY DEF Call
<1>3. ASSUME cur # Nothing, Valid' PROVE Valid /\ Memory' = Memory
  <2>1. cur.task \in Tasks /\ cur.id \in Nat /\ cur.id <= calls /\ calls \in Nat
    BY <1>3 DEF AskingCalls
  <2>2. asking'[cur.task].id = cur.id
    BY <1>2, <1>3 DEF Valid
  <2>3. cur.task # t
    <3> SUFFICES ASSUME cur.task = t PROVE FALSE
      OBVIOUS
    <3>1. asking'[t] = [id |-> calls + 1, call |-> c, fresh |-> TRUE]
      BY <1>2 DEF AskingCalls
    <3>2. calls + 1 = cur.id
      BY <2>2, <3>1
    <3>3. QED BY <2>1, <3>2
  <2>4. asking'[cur.task] = asking[cur.task]
    BY <1>2, <2>1, <2>3 DEF AskingCalls
  <2>5. QED BY <1>2, <2>2, <2>4 DEF Valid, Memory
<1>4. QED BY <1>1, <1>2, <1>3, OthersKeep

(* An address that is rewritten after it was examined is on record.        *)
LEMMA SwapKeeps ==
  ASSUME AskingCalls, SlipInv, NEW t \in Tasks, NEW c \in Calls, Swap(t, c)
  PROVE  SlipInv'
<1> DEFINE a == [asking[t] EXCEPT !.call = c]
<1>1. /\ asking' = [asking EXCEPT ![t] = a] /\ a.id = asking[t].id /\ cur' = cur
  BY SwapRewrites DEF Swap
<1>2. /\ log'.reached = log.reached /\ log'.unread = log.unread
      /\ log'.swapped = IF Examined /\ cur.task = t /\ Valid THEN log.swapped \cup {cur.id} ELSE log.swapped
  BY DEF Swap, AskingCalls, LogShape
<1> HIDE DEF a
<1>3. CASE Examined /\ cur.task = t /\ Valid
  BY <1>1, <1>2, <1>3 DEF SlipInv, NothingSlipsOut, AnswersAreDecided
<1>4. CASE ~(Examined /\ cur.task = t /\ Valid)
  <2>1. ASSUME cur # Nothing, cur.task # t, Valid' PROVE Valid /\ Memory' = Memory
    <3>1. asking'[cur.task] = asking[cur.task]
      BY <1>1, <2>1 DEF AskingCalls
    <3>2. QED BY <1>1, <2>1, <3>1 DEF Valid, Memory
  <2>2. CASE cur # Nothing /\ cur.task # t
    BY <1>1, <1>2, <1>4, <2>1, <2>2, OthersKeep
  <2>3. CASE cur # Nothing /\ cur.task = t /\ Valid
    <3>1. cur.answer = "none"
      BY <1>4, <2>3 DEF Examined
    <3>2. QED BY <1>1, <1>2, <1>4, <3>1 DEF SlipInv, NothingSlipsOut, AnswersAreDecided
  <2>4. CASE cur # Nothing /\ cur.task = t /\ ~Valid
    <3>1. asking'[t].id = asking[t].id
      BY <1>1 DEF AskingCalls
    <3>2. ~Valid'
      BY <1>1, <2>4, <3>1 DEF Valid
    <3>3. QED BY <1>1, <1>2, <1>4, <2>4, <3>2, OthersKeep
  <2>5. CASE cur = Nothing
    BY <1>1, <1>2, <1>4, <2>5, OthersKeep
  <2>6. QED BY <2>2, <2>3, <2>4, <2>5
<1>5. QED BY <1>3, <1>4

(* An answer is decided for what is in memory, or on record as not read.   *)
LEMMA ExamineKeeps ==
  ASSUME AskingCalls, SlipInv, Examine \/ ExamineUnread
  PROVE  SlipInv'
<1>1. asking' = asking
  BY DEF Examine, ExamineUnread, kernel
<1>2. CASE cur' = Nothing /\ log' = log
  BY <1>2, OthersKeep
<1>3. ASSUME NEW c \in {cur.call, Memory}, NEW a \in {"continue", "eperm"}, cur # Nothing, Valid,
             cur' = [id |-> cur.id, task |-> cur.task, call |-> c, at |-> cur.at, answer |-> a]
      PROVE  /\ cur'.answer = a /\ cur'.id = cur.id /\ Memory' = Memory
  <2>1. cur'.task = cur.task /\ cur'.id = cur.id /\ cur'.answer = a
    BY <1>3
  <2>2. QED BY <1>1, <2>1 DEF Memory
<1>4. ASSUME NEW c \in {cur.call, Memory}, NEW a \in {"continue", "eperm"}, cur # Nothing, Valid,
             cur' = [id |-> cur.id, task |-> cur.task, call |-> c, at |-> cur.at, answer |-> a],
             log' = Seen, c = Memory, c \in Connects => a = decide(c)
      PROVE  SlipInv'
  <2>1. log'.reached = log.reached /\ log'.unread = log.unread /\ log'.swapped = log.swapped
    BY <1>4 DEF AskingCalls, LogShape, Seen
  <2>2. a = "continue" /\ Memory \in Hosts => Memory \in Allowed
    BY <1>4, HostsAssumption DEF decide, Connects
  <2>3. QED BY <1>3, <1>4, <2>1, <2>2 DEF SlipInv, NothingSlipsOut, AnswersAreDecided
<1>5. ASSUME NEW c \in {cur.call, Memory}, NEW a \in {"continue", "eperm"}, cur # Nothing, Valid,
             cur' = [id |-> cur.id, task |-> cur.task, call |-> c, at |-> cur.at, answer |-> a],
             log' = [log EXCEPT !.unread = @ \cup {cur.id}]
      PROVE  SlipInv'
  <2>1. /\ log'.reached = log.reached /\ log'.unread = log.unread \cup {cur.id}
        /\ log'.swapped = log.swapped
    BY <1>5 DEF AskingCalls, LogShape
  <2>2. QED BY <1>3, <1>5, <2>1 DEF SlipInv, NothingSlipsOut, AnswersAreDecided
<1>6. QED BY <1>2, <1>4, <1>5, ExaminedAs

(* The kernel takes an answer: what it lets through was decided.           *)
LEMMA AnswerKeeps ==
  ASSUME AskingCalls, SlipInv, Answer
  PROVE  SlipInv'
<1>1. cur # Nothing /\ cur' = Nothing
  BY DEF Answer, Examined
<1>2. CASE Valid /\ cur.answer = "continue" /\ Memory \in Hosts
  <2> DEFINE r == [id |-> cur.id, dest |-> Memory]
  <2>1. log' = [log EXCEPT !.reached = @ \cup {r}]
    BY <1>2 DEF Answer
  <2>2. /\ log'.reached = log.reached \cup {r} /\ log'.unread = log.unread /\ log'.swapped = log.swapped
    BY <2>1 DEF AskingCalls, LogShape
  <2>3. Memory \in Allowed \/ cur.id \in log.unread \cup log.swapped
    BY <1>1, <1>2 DEF SlipInv, AnswersAreDecided
  <2>4. r.id = cur.id /\ r.dest = Memory
    OBVIOUS
  <2> HIDE DEF r
  <2>5. NothingSlipsOut'
    BY <2>2, <2>3, <2>4 DEF SlipInv, NothingSlipsOut
  <2>6. QED BY <1>1, <2>5 DEF SlipInv, AnswersAreDecided
<1>3. CASE ~(Valid /\ cur.answer = "continue" /\ Memory \in Hosts)
  <2>1. log'.reached = log.reached /\ log'.unread = log.unread /\ log'.swapped = log.swapped
    BY <1>3 DEF Answer, AskingCalls, LogShape
  <2>2. QED BY <1>1, <2>1, OthersKeep
<1>4. QED BY <1>2, <1>3

(* A fresh notification has no answer yet.                                 *)
LEMMA ReceiveKeeps ==
  ASSUME SlipInv, NEW t \in Tasks, Receive(t)
  PROVE  SlipInv'
<1>1. cur'.answer = "none" /\ log' = log
  BY DEF Receive
<1>2. QED BY <1>1 DEF SlipInv, NothingSlipsOut, AnswersAreDecided

(* Every step keeps the invariant.                                         *)
LEMMA SlipStepInv ==
  ASSUME SlipInv, AskingCalls, [Next]_vars
  PROVE  SlipInv'
<1>1. ASSUME NEW t \in Tasks, NEW c \in Calls, Call(t, c) \/ Swap(t, c) PROVE SlipInv'
  BY <1>1, CallKeeps, SwapKeeps
<1>2. ASSUME NEW t \in Tasks, Fork(t) \/ Exit(t) \/ Interrupt(t) PROVE SlipInv'
  <2>1. cur' = cur /\ log'.reached = log.reached /\ log'.unread = log.unread /\ log'.swapped = log.swapped
    BY <1>2 DEF Fork, Exit, Interrupt, Withdrawn, AskingCalls, LogShape
  <2>2. \A u \in Tasks : asking'[u] \in {asking[u], Nothing}
    BY <1>2 DEF Fork, Exit, Interrupt, Withdrawn, AskingCalls
  <2>3. QED BY <2>1, <2>2, WithdrawnKeep
<1>3. ASSUME NEW t \in Tasks, Receive(t) PROVE SlipInv'
  BY <1>3, ReceiveKeeps
<1>4. CASE Examine \/ ExamineUnread
  BY <1>4, ExamineKeeps
<1>5. CASE Answer
  BY <1>5, AnswerKeeps
<1>6. CASE SuperviseFails \/ reap
  <2>1. (cur' = cur \/ cur' = Nothing) /\ log' = log /\ \A u \in Tasks : asking'[u] = Nothing
    BY <1>6 DEF SuperviseFails, reap, Closed
  <2>2. QED BY <2>1, WithdrawnKeep
<1>7. CASE child_main \/ recv_fd \/ ReceiveNothing \/ report \/ finish \/ UNCHANGED vars
  <2>1. UNCHANGED <<asking, cur, log>>
    BY <1>7 DEF child_main, recv_fd, ReceiveNothing, NoneToReceive, report, finish, vars, kernel
  <2>2. QED BY <2>1, OthersKeep DEF Valid, Memory
<1>8. QED BY <1>1, <1>2, <1>3, <1>4, <1>5, <1>6, <1>7 DEF Next

(* It holds at the start.                                                  *)
LEMMA SlipStarts ==
  ASSUME Init
  PROVE  SlipInv /\ AskingCalls
<1>1. Nothing.id = 0
  BY DEF Nothing
<1>2. QED BY <1>1 DEF Init, Log, SlipInv, LogShape, NothingSlipsOut, AnswersAreDecided, AskingCalls

(* In every run, whatever the command does, whichever threads die and      *)
(* whichever ids are reused, a call reaches a destination that is not      *)
(* listed only if the address could not be read, or if another thread      *)
(* rewrote it between the examination and the kernel's own read            *)
(* (seccomp.rs, supervise; allowlist.rs, decide).                          *)
THEOREM SandboxHolds == Spec => []NothingSlipsOut
<1>1. Init => SlipInv /\ AskingCalls
  BY SlipStarts
<1>2. SlipInv /\ AskingCalls /\ [Next]_vars => SlipInv' /\ AskingCalls'
  BY SlipStepInv, AskingKeeps
<1>3. SlipInv => NothingSlipsOut
  BY DEF SlipInv
<1>4. QED BY <1>1, <1>2, <1>3, PTL DEF Spec

-----------------------------------------------------------------------------
(***************************************************************************)
(* The blocked egresses account for the refusals.                          *)
(***************************************************************************)
Egress == [pid : Tasks, dest : Hosts]

\* What the thread that asks, and the supervisor that holds its notification,
\* remember of an attempt.
AttemptsKnown ==
  /\ \A t \in Tasks : asking[t] # Nothing /\ asking[t].call \in Hosts =>
       [pid |-> t, dest |-> asking[t].call] \in log.tried
  /\ cur # Nothing =>
       /\ cur.answer = "eperm" => cur.call \in Hosts \ Allowed
       /\ cur.call \in Hosts => [pid |-> cur.task, dest |-> cur.call] \in log.tried

\* A refusal that is decided and not yet delivered.
Pending(x) ==
  IF cur # Nothing /\ cur.answer = "eperm" /\ x = [pid |-> cur.task, dest |-> cur.call] THEN 1 ELSE 0

RefusalsCounted ==
  \A x \in Egress : CountOf(log.refused, x) + Pending(x) <= CountOf(blocked, x)

AccountInv ==
  /\ blocked \in Seq(Egress) /\ log.refused \in Seq(Egress)
  /\ AttemptsKnown /\ ToSet(blocked) \subseteq log.tried /\ RefusalsCounted

(* Counting in a sequence that grows.                                      *)
LEMMA CountOfAppend ==
  ASSUME NEW S, NEW s \in Seq(S), NEW x, NEW y \in S
  PROVE  /\ CountOf(s, x) \in Nat
         /\ CountOf(Append(s, y), x) = CountOf(s, x) + (IF x = y THEN 1 ELSE 0)
<1> DEFINE I == {i \in DOMAIN s : s[i] = x}
           J == {i \in DOMAIN Append(s, y) : Append(s, y)[i] = x}
           n == Len(s)
<1>1. n \in Nat /\ DOMAIN s = 1..n /\ DOMAIN Append(s, y) = 1..(n + 1)
      /\ Append(s, y)[n + 1] = y /\ \A i \in 1..n : Append(s, y)[i] = s[i]
  OBVIOUS
<1>2. IsFiniteSet(I) /\ Cardinality(I) \in Nat
  <2>1. IsFiniteSet(1..n) /\ I \in SUBSET (1..n)
    BY <1>1, FS_Interval
  <2>2. IsFiniteSet(I)
    BY <2>1, FS_Subset
  <2>3. QED BY <2>2, FS_CardinalityType
<1>3. J = (IF x = y THEN I \cup {n + 1} ELSE I) /\ n + 1 \notin I
  <2> HIDE DEF n
  <2>1. \A i : i \in 1..(n + 1) <=> i \in 1..n \/ i = n + 1
    BY <1>1
  <2>2. n + 1 \notin 1..n
    BY <1>1
  <2>3. QED BY <1>1, <2>1, <2>2
<1>4. Cardinality(J) = Cardinality(I) + (IF x = y THEN 1 ELSE 0)
  <2> HIDE DEF I, J, n
  <2>1. CASE x = y
    BY <1>2, <1>3, <2>1, FS_AddElement
  <2>2. CASE x # y
    BY <1>2, <1>3, <2>2
  <2>3. QED BY <2>1, <2>2
<1>5. QED BY <1>2, <1>4 DEF CountOf

(* An element is appended to a sequence and added to its set.              *)
LEMMA ToSetAppend ==
  ASSUME NEW S, NEW s \in Seq(S), NEW y \in S
  PROVE  ToSet(Append(s, y)) = ToSet(s) \cup {y} /\ Append(s, y) \in Seq(S)
<1>1. Len(s) \in Nat /\ DOMAIN s = 1..Len(s) /\ DOMAIN Append(s, y) = 1..(Len(s) + 1)
      /\ Append(s, y)[Len(s) + 1] = y /\ \A i \in 1..Len(s) : Append(s, y)[i] = s[i]
  OBVIOUS
<1>2. \A i : i \in 1..(Len(s) + 1) <=> i \in 1..Len(s) \/ i = Len(s) + 1
  BY <1>1
<1>3. QED BY <1>1, <1>2 DEF ToSet

(* Steps that decide nothing, deliver no refusal and start no attempt.     *)
LEMMA AccountFrame ==
  ASSUME AccountInv, cur' = cur \/ cur' = Nothing, blocked' = blocked,
         log'.refused = log.refused, log'.tried = log.tried,
         \A t \in Tasks : asking'[t] # Nothing =>
           asking[t] # Nothing /\ asking'[t].call = asking[t].call
  PROVE  AccountInv'
<1>1. \A x \in Egress : Pending(x)' = Pending(x) \/ Pending(x)' = 0
  BY DEF Pending
<1>2. \A x \in Egress : CountOf(log.refused, x) \in Nat /\ CountOf(blocked, x) \in Nat
  <2>1. \A x \in Egress, y \in Egress : CountOf(log.refused, x) \in Nat /\ CountOf(blocked, x) \in Nat
    BY CountOfAppend DEF AccountInv
  <2>2. QED BY <2>1
<1>3. \A x \in Egress : Pending(x) \in {0, 1}
  BY DEF Pending
<1>4. \A x \in Egress : CountOf(log'.refused, x) + Pending(x)' <= CountOf(blocked', x)
  <2> SUFFICES ASSUME NEW x \in Egress
               PROVE  CountOf(log'.refused, x) + Pending(x)' <= CountOf(blocked', x)
    OBVIOUS
  <2>1. CountOf(log'.refused, x) = CountOf(log.refused, x) /\ CountOf(blocked', x) = CountOf(blocked, x)
    OBVIOUS
  <2>2. CountOf(log.refused, x) + Pending(x) <= CountOf(blocked, x)
    BY DEF AccountInv, RefusalsCounted
  <2>3. QED BY <1>1, <1>2, <1>3, <2>1, <2>2
<1>5. RefusalsCounted'
  BY <1>4 DEF RefusalsCounted
<1>6. AttemptsKnown'
  BY DEF AccountInv, AttemptsKnown
<1>7. QED BY <1>5, <1>6 DEF AccountInv

(* A thread's call points somewhere: by its own doing or by another's.     *)
LEMMA AccountAim ==
  ASSUME AskingCalls, AccountInv, NEW t \in Tasks, NEW c \in Calls, Call(t, c) \/ Swap(t, c)
  PROVE  AccountInv'
<1>1. /\ log'.refused = log.refused /\ log.tried \subseteq log'.tried
      /\ c \in Hosts => [pid |-> t, dest |-> c] \in log'.tried
  <2>1. log'.refused = log.refused /\ log'.tried = Aimed(t, c)
    BY DEF Call, Swap, AskingCalls, LogShape
  <2>2. QED BY <2>1 DEF Aimed
<1>2. cur' = cur /\ blocked' = blocked
  BY DEF Call, Swap, events
<1>3. \A u \in Tasks : asking'[u] # Nothing =>
        (u = t /\ asking'[u].call = c) \/ (asking[u] # Nothing /\ asking'[u] = asking[u])
  <2>1. CASE Call(t, c)
    BY <2>1 DEF Call, AskingCalls
  <2>2. CASE Swap(t, c)
    <3> DEFINE a == [asking[t] EXCEPT !.call = c]
    <3>1. asking' = [asking EXCEPT ![t] = a] /\ a.call = c
      BY <2>2, SwapRewrites
    <3> HIDE DEF a
    <3>2. QED BY <3>1 DEF AskingCalls
  <2>3. QED BY <2>1, <2>2
<1>4. AttemptsKnown'
  BY <1>1, <1>2, <1>3 DEF AccountInv, AttemptsKnown
<1>5. RefusalsCounted'
  BY <1>1, <1>2 DEF AccountInv, RefusalsCounted, Pending
<1>6. ToSet(blocked') \subseteq log'.tried
  BY <1>1, <1>2 DEF AccountInv
<1>7. QED BY <1>1, <1>2, <1>4, <1>5, <1>6 DEF AccountInv

(* The supervisor receives an attempt that is known.                       *)
LEMMA AccountReceive ==
  ASSUME AskingCalls, AccountInv, NEW t \in Tasks, Receive(t)
  PROVE  AccountInv'
<1>1. cur = Nothing /\ log' = log /\ blocked' = blocked
  BY DEF Receive, events
<1>2. /\ cur' # Nothing /\ CurShape(cur') /\ cur'.task = t /\ cur'.call = asking[t].call
      /\ cur'.answer = "none" /\ cur' # Nothing
  <2>1. cur' = [id |-> asking[t].id, task |-> t, call |-> asking[t].call, at |-> now', answer |-> "none"]
    BY DEF Receive
  <2>2. CurShape(cur') /\ cur'.task = t /\ cur'.call = asking[t].call /\ cur'.answer = "none"
    BY <2>1 DEF CurShape
  <2>3. QED BY <2>2, NoticeIsSome
<1>3. \A u \in Tasks : asking'[u] # Nothing => asking[u] # Nothing /\ asking'[u].call = asking[u].call
  <2>1. asking[t] # Nothing /\ asking[t] \in Notice
    BY DEF Receive, AskingCalls
  <2>2. asking' = [asking EXCEPT ![t] = [asking[t] EXCEPT !.fresh = FALSE]]
    BY DEF Receive
  <2>3. [asking[t] EXCEPT !.fresh = FALSE].call = asking[t].call
    BY <2>1 DEF Notice
  <2> DEFINE a == [asking[t] EXCEPT !.fresh = FALSE]
  <2> HIDE DEF a
  <2>4. \A u \in Tasks : asking'[u] = IF u = t THEN a ELSE asking[u]
    BY <2>2 DEF AskingCalls, a
  <2>5. QED BY <2>1, <2>3, <2>4 DEF a
<1>4. AttemptsKnown'
  BY <1>1, <1>2, <1>3 DEF AccountInv, AttemptsKnown, Receive
<1>5. \A x : Pending(x) = 0 /\ Pending(x)' = 0
  BY <1>1, <1>2 DEF Pending
<1>6. RefusalsCounted'
  BY <1>1, <1>5 DEF AccountInv, RefusalsCounted
<1>7. QED BY <1>1, <1>4, <1>6 DEF AccountInv

(* A connection is examined: what is refused is captured.                  *)
LEMMA AccountConnect ==
  ASSUME AskingCalls, AccountInv, cur # Nothing, cur.answer = "none", Valid, NEW c, c = Memory,
         c \in Connects, OnConnect(c), log' = Seen, asking' = asking
  PROVE  AccountInv'
<1>1. log'.refused = log.refused /\ log'.tried = log.tried
  BY DEF AskingCalls, LogShape, Seen
<1>2. CurShape(cur) /\ cur.task \in Tasks
  BY DEF AskingCalls
<1>3. cur' = [id |-> cur.id, task |-> cur.task, call |-> c, at |-> cur.at, answer |-> decide(c)]
  BY <1>2 DEF OnConnect, CurShape
<1>4. CurShape(cur') /\ cur'.task = cur.task /\ cur'.call = c /\ cur'.answer = decide(c)
  BY <1>3 DEF CurShape
<1> DEFINE x0 == [pid |-> cur.task, dest |-> c]
<1>5. c \in Hosts => x0 \in log.tried
  BY <1>2, ValidWaits DEF AccountInv, AttemptsKnown, Memory
<1>6. AttemptsKnown'
  <2>1. decide(c) = "eperm" => c \in Hosts \ Allowed
    BY DEF decide, Connects
  <2> HIDE DEF x0
  <2>2. QED BY <1>1, <1>4, <1>5, <2>1 DEF AccountInv, AttemptsKnown, x0
<1>7. \A x : Pending(x) = 0
  BY DEF Pending
<1>8. CASE c \in Hosts \ Allowed
  <2>1. blocked' = Append(blocked, x0) /\ x0 \in Egress /\ x0 \in log.tried
    BY <1>2, <1>5, <1>8 DEF OnConnect, Captured, Egress
  <2>2. ToSet(blocked') = ToSet(blocked) \cup {x0} /\ blocked' \in Seq(Egress)
    BY <2>1, ToSetAppend DEF AccountInv
  <2> HIDE DEF x0
  <2>3. ASSUME NEW x \in Egress
        PROVE  CountOf(log'.refused, x) + Pending(x)' <= CountOf(blocked', x)
    <3>1. /\ CountOf(blocked, x) \in Nat /\ CountOf(log.refused, x) \in Nat
          /\ CountOf(blocked', x) = CountOf(blocked, x) + (IF x = x0 THEN 1 ELSE 0)
      BY <2>1, CountOfAppend DEF AccountInv
    <3>2. Pending(x)' = 0 \/ (Pending(x)' = 1 /\ x = x0)
      BY <1>4 DEF Pending, x0
    <3>3. CountOf(log.refused, x) + 0 <= CountOf(blocked, x)
      BY <1>7 DEF AccountInv, RefusalsCounted
    <3>4. QED BY <1>1, <3>1, <3>2, <3>3
  <2>4. RefusalsCounted'
    BY <2>3 DEF RefusalsCounted
  <2>5. QED BY <1>1, <1>6, <2>1, <2>2, <2>4 DEF AccountInv
<1>9. CASE c \notin Hosts \ Allowed
  <2>1. blocked' = blocked /\ decide(c) = "continue"
    BY <1>9 DEF OnConnect, Captured, decide, Connects
  <2>2. \A x : Pending(x)' = 0
    BY <1>4, <2>1 DEF Pending
  <2>3. RefusalsCounted'
    BY <1>1, <1>7, <2>1, <2>2 DEF AccountInv, RefusalsCounted
  <2>4. QED BY <1>1, <1>6, <2>1, <2>3 DEF AccountInv
<1>10. QED BY <1>8, <1>9

(* An answer that lets the call go on.                                     *)
LEMMA AccountContinue ==
  ASSUME AccountInv, cur # Nothing, cur.answer = "none", NEW c,
         c \in Hosts => [pid |-> cur.task, dest |-> c] \in log.tried,
         cur' = [id |-> cur.id, task |-> cur.task, call |-> c, at |-> cur.at, answer |-> "continue"],
         log'.refused = log.refused, log'.tried = log.tried, blocked' = blocked, asking' = asking
  PROVE  AccountInv'
<1>1. cur'.task = cur.task /\ cur'.call = c /\ cur'.answer = "continue"
  OBVIOUS
<1>2. AttemptsKnown'
  BY <1>1 DEF AccountInv, AttemptsKnown
<1>3. \A x : Pending(x) = 0 /\ Pending(x)' = 0
  BY <1>1 DEF Pending
<1>4. RefusalsCounted'
  BY <1>3 DEF AccountInv, RefusalsCounted
<1>5. QED BY <1>2, <1>4 DEF AccountInv

(* A refusal is delivered: it was captured when it was decided.            *)
LEMMA AccountAnswer ==
  ASSUME AskingCalls, AccountInv, Answer
  PROVE  AccountInv'
<1>1. cur # Nothing /\ cur' = Nothing /\ cur.answer # "none" /\ blocked' = blocked
  BY DEF Answer, Examined, events
<1>2. \A u \in Tasks : asking'[u] # Nothing => asking[u] # Nothing /\ asking'[u].call = asking[u].call
  BY DEF Answer, AskingCalls
<1> DEFINE x0 == [pid |-> cur.task, dest |-> cur.call]
<1>3. CASE Valid /\ cur.answer = "eperm"
  <2>1. /\ log' = [log EXCEPT !.refused = Append(@, x0)]
        /\ cur.answer = "eperm" /\ x0 \in Egress
    BY <1>1, <1>3 DEF Answer, AccountInv, AttemptsKnown, AskingCalls, Egress
  <2>2. log'.refused = Append(log.refused, x0) /\ log'.tried = log.tried
    BY <2>1 DEF AskingCalls, LogShape
  <2>3. log'.refused \in Seq(Egress)
    BY <2>1, <2>2, ToSetAppend DEF AccountInv
  <2>4. AttemptsKnown'
    BY <1>1, <1>2, <2>2 DEF AccountInv, AttemptsKnown
  <2> HIDE DEF x0
  <2>5. ASSUME NEW x \in Egress
        PROVE  CountOf(log'.refused, x) + Pending(x)' <= CountOf(blocked', x)
    <3>1. /\ CountOf(blocked, x) \in Nat /\ CountOf(log.refused, x) \in Nat
          /\ CountOf(log'.refused, x) = CountOf(log.refused, x) + (IF x = x0 THEN 1 ELSE 0)
      <4>1. log.refused \in Seq(Egress) /\ blocked \in Seq(Egress) /\ x0 \in Egress
        BY <2>1 DEF AccountInv
      <4>2. CountOf(blocked, x) \in Nat
        BY <4>1, CountOfAppend
      <4>3. /\ CountOf(log.refused, x) \in Nat
            /\ CountOf(Append(log.refused, x0), x) = CountOf(log.refused, x) + (IF x = x0 THEN 1 ELSE 0)
        BY <4>1, CountOfAppend
      <4>4. QED BY <2>2, <4>2, <4>3
    <3>2. Pending(x) = (IF x = x0 THEN 1 ELSE 0) /\ Pending(x)' = 0
      BY <1>1, <2>1 DEF Pending, x0
    <3>3. CountOf(log.refused, x) + Pending(x) <= CountOf(blocked, x)
      BY DEF AccountInv, RefusalsCounted
    <3>4. QED BY <1>1, <3>1, <3>2, <3>3
  <2>6. RefusalsCounted'
    BY <2>5 DEF RefusalsCounted
  <2>7. QED BY <1>1, <2>2, <2>3, <2>4, <2>6 DEF AccountInv
<1>4. CASE ~(Valid /\ cur.answer = "eperm")
  <2>1. log'.refused = log.refused /\ log'.tried = log.tried
    BY <1>4 DEF Answer, AskingCalls, LogShape
  <2>2. QED BY <1>1, <1>2, <2>1, AccountFrame
<1>5. QED BY <1>3, <1>4

(* Every step keeps the account of refusals.                               *)
LEMMA AccountStep ==
  ASSUME AskingCalls, AccountInv, [Next]_vars
  PROVE  AccountInv'
<1>1. ASSUME NEW t \in Tasks, NEW c \in Calls, Call(t, c) \/ Swap(t, c) PROVE AccountInv'
  BY <1>1, AccountAim
<1>2. ASSUME NEW t \in Tasks, Fork(t) \/ Exit(t) \/ Interrupt(t) PROVE AccountInv'
  <2>1. /\ cur' = cur /\ blocked' = blocked /\ log'.refused = log.refused /\ log'.tried = log.tried
    BY <1>2 DEF Fork, Exit, Interrupt, Withdrawn, events, AskingCalls, LogShape
  <2>2. \A u \in Tasks : asking'[u] # Nothing => asking[u] # Nothing /\ asking'[u].call = asking[u].call
    BY <1>2 DEF Fork, Exit, Interrupt, Withdrawn, AskingCalls
  <2>3. QED BY <2>1, <2>2, AccountFrame
<1>3. ASSUME NEW t \in Tasks, Receive(t) PROVE AccountInv'
  BY <1>3, AccountReceive
<1>4. CASE Examine
  <2>1. cur # Nothing /\ cur.answer = "none" /\ asking' = asking
    BY <1>4 DEF Examine, Examining, kernel
  <2>2. CASE Valid /\ Memory \in Connects
    BY <1>4, <2>1, <2>2, AccountConnect DEF Examine, On
  <2>3. CASE Valid /\ Memory \notin Connects
    <3>1. log'.refused = log.refused /\ log'.tried = log.tried
      BY <1>4, <2>3 DEF Examine, Seen, AskingCalls, LogShape
    <3>2. cur' = [cur EXCEPT !.call = Memory, !.answer = "continue"] /\ blocked' = blocked
      BY <1>4, <2>3 DEF Examine, On, OnOpenat, events
    <3>3. cur' = [id |-> cur.id, task |-> cur.task, call |-> Memory, at |-> cur.at, answer |-> "continue"]
      BY <2>1, <3>2 DEF AskingCalls, CurShape
    <3>4. Memory \notin Hosts
      BY <2>3 DEF Connects
    <3>5. QED BY <2>1, <3>1, <3>2, <3>3, <3>4, AccountContinue
  <2>4. CASE ~Valid
    BY <1>4, <2>1, <2>4, AccountFrame DEF Examine, events
  <2>5. QED BY <2>2, <2>3, <2>4
<1>5. CASE ExamineUnread
  <2>1. log'.refused = log.refused /\ log'.tried = log.tried
    BY <1>5 DEF ExamineUnread, AskingCalls, LogShape
  <2>2. /\ cur' = [cur EXCEPT !.answer = "continue"] /\ blocked' = blocked /\ asking' = asking
        /\ cur # Nothing /\ cur.answer = "none"
    BY <1>5 DEF ExamineUnread, Examining, decide, events, kernel
  <2>3. cur' = [id |-> cur.id, task |-> cur.task, call |-> cur.call, at |-> cur.at, answer |-> "continue"]
    BY <2>2 DEF AskingCalls, CurShape
  <2>4. QED BY <2>1, <2>2, <2>3, AccountContinue DEF AccountInv, AttemptsKnown
<1>6. CASE Answer
  BY <1>6, AccountAnswer
<1>7. CASE SuperviseFails \/ reap
  <2>1. \A u \in Tasks : asking'[u] = Nothing
    BY <1>7 DEF SuperviseFails, reap, Closed
  <2>2. QED BY <1>7, <2>1, AccountFrame DEF SuperviseFails, reap, events
<1>8. CASE child_main \/ recv_fd \/ ReceiveNothing \/ report \/ finish \/ UNCHANGED vars
  BY <1>8, AccountFrame DEF child_main, recv_fd, ReceiveNothing, NoneToReceive, report, finish, vars, kernel, events
<1>9. QED BY <1>1, <1>2, <1>3, <1>4, <1>5, <1>6, <1>7, <1>8 DEF Next

(* The account of refusals holds of every behaviour.                       *)
LEMMA AccountInvariant == Spec => []AccountInv
<1>1. Init => AskingCalls
  BY SlipStarts
<1>2. Init => AccountInv
  <2> SUFFICES ASSUME Init PROVE AccountInv
    OBVIOUS
  <2>1. blocked = <<>> /\ log.refused = <<>> /\ cur = Nothing /\ \A t \in Tasks : asking[t] = Nothing
    BY DEF Init, Log
  <2>2. blocked \in Seq(Egress) /\ log.refused \in Seq(Egress) /\ ToSet(blocked) = {}
    BY <2>1 DEF ToSet
  <2>3. \A x : CountOf(<<>>, x) = 0 /\ Pending(x) = 0
    <3>1. \A x : {i \in DOMAIN <<>> : <<>>[i] = x} = {}
      OBVIOUS
    <3>2. QED BY <2>1, <3>1, FS_EmptySet DEF CountOf, Pending
  <2>4. QED BY <2>1, <2>2, <2>3 DEF AccountInv, AttemptsKnown, RefusalsCounted
<1>3. AskingCalls /\ AccountInv /\ [Next]_vars => AskingCalls' /\ AccountInv'
  BY AskingKeeps, AccountStep
<1>4. QED BY <1>1, <1>2, <1>3, PTL DEF Spec

(* A blocked egress names a thread one of whose calls pointed there, and   *)
(* no refusal is missing, whichever threads die, whichever ids are reused  *)
(* and whichever addresses are rewritten (seccomp.rs: supervise).          *)
THEOREM RefusalsAreReported == Spec => []BlockedAccounts
<1>1. AccountInv => BlockedAccounts
  <2> SUFFICES ASSUME AccountInv PROVE BlockedAccounts
    OBVIOUS
  <2>1. ASSUME NEW x \in ToSet(log.refused) PROVE CountOf(log.refused, x) <= CountOf(blocked, x)
    <3>1. x \in Egress
      BY DEF AccountInv, ToSet
    <3>2. CountOf(log.refused, x) \in Nat /\ CountOf(blocked, x) \in Nat
      BY <3>1, CountOfAppend DEF AccountInv
    <3>3. CountOf(log.refused, x) + Pending(x) <= CountOf(blocked, x) /\ Pending(x) \in {0, 1}
      BY <3>1 DEF AccountInv, RefusalsCounted, Pending
    <3>4. QED BY <3>2, <3>3
  <2>2. QED BY <2>1 DEF AccountInv, BlockedAccounts
<1>2. QED BY <1>1, AccountInvariant, PTL

-----------------------------------------------------------------------------
(***************************************************************************)
(* The chain detector.                                                     *)
(***************************************************************************)
SeenCall == [pid : Tasks, call : {"secret"} \cup (Hosts \ Allowed), at : Nat]

ReadsSecret(s, i, t) == s[i].pid = t /\ s[i].call = "secret"

\* Notifications are examined in the order of time.
SeenInOrder ==
  /\ log.seen \in Seq(SeenCall) /\ now \in Nat
  /\ \A i \in DOMAIN log.seen : log.seen[i].at <= now
  /\ cur # Nothing => cur.at = now

\* The detector remembers each thread's last read of a secret,
LastReads ==
  /\ secrets \in [Tasks -> Int]
  /\ \A t \in Tasks :
       /\ \A i \in DOMAIN log.seen : ReadsSecret(log.seen, i, t) =>
            secrets[t] # Never /\ log.seen[i].at <= secrets[t]
       /\ secrets[t] # Never =>
            \E i \in DOMAIN log.seen : ReadsSecret(log.seen, i, t) /\ log.seen[i].at = secrets[t]

\* and the threads that completed a chain.
FiredOnce ==
  fired = {t \in Tasks : \E i \in DOMAIN log.seen : log.seen[i].pid = t /\ Qualifies(log.seen, i)}

ChainsReported ==
  /\ chains \in Seq(Egress)
  /\ Len(chains) = Cardinality(Firsts(log.seen))
  /\ ToSet(chains) = {[pid |-> log.seen[i].pid, dest |-> log.seen[i].call] : i \in Firsts(log.seen)}

DetectorInv ==
  /\ SeenInOrder /\ detect \in BOOLEAN
  /\ detect => LastReads /\ FiredOnce /\ ChainsReported
  /\ ~detect => log.seen = <<>> /\ chains = <<>>

\* How the first completed chains of q, one call longer than s, follow from those of s.
Extended(s, e, q, n) ==
  /\ n \in Nat /\ n \notin DOMAIN s /\ DOMAIN q = DOMAIN s \cup {n}
  /\ q \in Seq(SeenCall) /\ q[n] = e /\ \A i \in DOMAIN s : q[i] = s[i]
  /\ \A i \in DOMAIN s : Qualifies(q, i) <=> Qualifies(s, i)
  /\ Qualifies(q, n) <=> /\ e.call \in Hosts \ Allowed
                         /\ \E j \in DOMAIN s : /\ s[j].pid = e.pid /\ s[j].call = "secret"
                                                /\ e.at - s[j].at <= Window
  /\ Firsts(q) = IF Qualifies(q, n) /\ \A j \in DOMAIN s : s[j].pid = e.pid => ~Qualifies(s, j)
                 THEN Firsts(s) \cup {n} ELSE Firsts(s)
  /\ IsFiniteSet(Firsts(s)) /\ Firsts(s) \subseteq DOMAIN s

(* One more call leaves what was decided before as it was.                 *)
LEMMA FirstsAppend ==
  ASSUME NEW s \in Seq(SeenCall), NEW e \in SeenCall, NEW q, q = Append(s, e),
         NEW n, n = Len(s) + 1
  PROVE  Extended(s, e, q, n)
<1>1. /\ n \in Nat /\ DOMAIN s = 1..(n - 1) /\ DOMAIN q = 1..n /\ q \in Seq(SeenCall)
      /\ q[n] = e /\ \A i \in DOMAIN s : q[i] = s[i]
  OBVIOUS
<1>2. n \notin DOMAIN s /\ DOMAIN q = DOMAIN s \cup {n}
  BY <1>1
<1>3. \A i \in DOMAIN s : 1..(i - 1) \subseteq DOMAIN s
  BY <1>1
<1>4. ASSUME NEW i \in DOMAIN s PROVE Qualifies(q, i) <=> Qualifies(s, i)
  <2>1. q[i] = s[i] /\ \A j \in 1..(i - 1) : q[j] = s[j]
    BY <1>1, <1>3
  <2>2. QED BY <2>1 DEF Qualifies
<1>5. Qualifies(q, n) <=> /\ e.call \in Hosts \ Allowed
                          /\ \E j \in DOMAIN s : /\ s[j].pid = e.pid /\ s[j].call = "secret"
                                                 /\ e.at - s[j].at <= Window
  BY <1>1 DEF Qualifies
<1>6. \A i \in DOMAIN s : i \in Firsts(q) <=> i \in Firsts(s)
  <2> SUFFICES ASSUME NEW i \in DOMAIN s PROVE i \in Firsts(q) <=> i \in Firsts(s)
    OBVIOUS
  <2>1. q[i] = s[i] /\ \A j \in 1..(i - 1) : q[j] = s[j] /\ (Qualifies(q, j) <=> Qualifies(s, j))
    BY <1>1, <1>3, <1>4
  <2>2. QED BY <1>2, <1>4, <2>1 DEF Firsts
<1>7. n \in Firsts(q) <=> Qualifies(q, n) /\ \A j \in DOMAIN s : s[j].pid = e.pid => ~Qualifies(s, j)
  BY <1>1, <1>2, <1>4 DEF Firsts
<1>8. Firsts(q) \subseteq DOMAIN q /\ Firsts(s) \subseteq DOMAIN s
  BY DEF Firsts
<1>9. IsFiniteSet(Firsts(s))
  <2>1. IsFiniteSet(1..(n - 1)) /\ Firsts(s) \in SUBSET (1..(n - 1))
    BY <1>1, <1>8, FS_Interval
  <2>2. QED BY <2>1, FS_Subset
<1>10. Firsts(q) = IF Qualifies(q, n) /\ \A j \in DOMAIN s : s[j].pid = e.pid => ~Qualifies(s, j)
                   THEN Firsts(s) \cup {n} ELSE Firsts(s)
  <2>1. n \in Firsts(q) => Firsts(q) = Firsts(s) \cup {n}
    BY <1>2, <1>6, <1>8
  <2>2. n \notin Firsts(q) => Firsts(q) = Firsts(s)
    BY <1>2, <1>6, <1>8
  <2>3. QED BY <1>7, <2>1, <2>2
<1>11. QED BY <1>1, <1>2, <1>4, <1>5, <1>8, <1>9, <1>10 DEF Extended

(* Calls were examined at times that are past.                             *)
LEMMA SeenTimes ==
  ASSUME SeenInOrder
  PROVE  \A i \in DOMAIN log.seen : log.seen[i].at \in Nat /\ log.seen[i].at <= now
<1>1. \A i \in DOMAIN log.seen : log.seen[i] \in SeenCall
  BY DEF SeenInOrder
<1>2. QED BY <1>1 DEF SeenInOrder, SeenCall

(* Steps that examine nothing.                                             *)
LEMMA DetectorFrame ==
  ASSUME DetectorInv, log'.seen = log.seen, detect' = detect, chains' = chains,
         detect => secrets' = secrets /\ fired' = fired,
         now' \in Nat, now <= now', cur' # Nothing => cur'.at = now'
  PROVE  DetectorInv'
<1>1. SeenInOrder'
  <2>1. \A i \in DOMAIN log.seen : log.seen[i].at \in Nat /\ log.seen[i].at <= now
    BY SeenTimes DEF DetectorInv
  <2>2. now \in Nat
    BY DEF DetectorInv, SeenInOrder
  <2>3. \A i \in DOMAIN log.seen : log.seen[i].at <= now'
    BY <2>1, <2>2
  <2>4. QED BY <2>3 DEF DetectorInv, SeenInOrder
<1>2. detect => LastReads' /\ FiredOnce' /\ ChainsReported'
  <2> SUFFICES ASSUME detect PROVE LastReads' /\ FiredOnce' /\ ChainsReported'
    OBVIOUS
  <2>1. LastReads'
    BY DEF DetectorInv, LastReads
  <2>2. FiredOnce'
    BY DEF DetectorInv, FiredOnce
  <2>3. ChainsReported'
    BY DEF DetectorInv, ChainsReported
  <2>4. QED BY <2>1, <2>2, <2>3
<1>3. QED BY <1>1, <1>2 DEF DetectorInv

(* A secret is read: no chain is complete by that.                         *)
LEMMA DetectorOpen ==
  ASSUME AskingCalls, DetectorInv, cur # Nothing, Memory \in Opens, OnOpenat(Memory),
         log' = Seen, detect' = detect, now' = now
  PROVE  DetectorInv'
<1>1. /\ CurShape(cur) /\ cur.task \in Tasks /\ cur.at = now /\ now \in Nat
      /\ Memory \notin Hosts
  BY HostsAssumption DEF AskingCalls, DetectorInv, SeenInOrder
<1>2. cur'.at = now'
  <2>1. cur' = [id |-> cur.id, task |-> cur.task, call |-> Memory, at |-> cur.at, answer |-> "continue"]
    BY <1>1 DEF OnOpenat, CurShape
  <2>2. QED BY <1>1, <2>1
<1>3. chains' = chains /\ fired' = fired
  BY DEF OnOpenat, events
<1>4. CASE ~(detect /\ Memory = "secret")
  <2>1. log'.seen = log.seen
    BY <1>1, <1>4 DEF Seen
  <2>2. detect => secrets' = secrets
    BY <1>4 DEF OnOpenat
  <2>3. QED BY <1>1, <1>2, <1>3, <2>1, <2>2, DetectorFrame
<1>5. CASE detect /\ Memory = "secret"
  <2> DEFINE e == [pid |-> cur.task, call |-> Memory, at |-> cur.at]
             s == log.seen
             q == log'.seen
             n == Len(s) + 1
  <2>1. e \in SeenCall /\ e.pid = cur.task /\ e.call = "secret" /\ e.at = now /\ e.call \notin Hosts
    BY <1>1, <1>5 DEF SeenCall
  <2>2. log' = [log EXCEPT !.seen = Append(@, e)]
    BY <1>5 DEF Seen
  <2>3. q = Append(s, e)
    BY <2>2 DEF AskingCalls, LogShape
  <2>4. s \in Seq(SeenCall)
    BY DEF DetectorInv, SeenInOrder
  <2>5. secrets' = [secrets EXCEPT ![cur.task] = now]
    BY <1>1, <1>5 DEF OnOpenat
  <2>6. secrets \in [Tasks -> Int]
    BY <1>5 DEF DetectorInv, LastReads
  <2> HIDE DEF e, s, q, n
  <2>7. /\ n \in Nat /\ n \notin DOMAIN s /\ DOMAIN q = DOMAIN s \cup {n} /\ q \in Seq(SeenCall)
        /\ q[n] = e /\ \A i \in DOMAIN s : q[i] = s[i]
        /\ \A i \in DOMAIN s : Qualifies(q, i) <=> Qualifies(s, i)
        /\ ~Qualifies(q, n) /\ Firsts(q) = Firsts(s) /\ Firsts(s) \subseteq DOMAIN s
    <3>1. Extended(s, e, q, n)
      BY <2>1, <2>3, <2>4, FirstsAppend DEF n
    <3>2. ~Qualifies(q, n)
      BY <2>1, <3>1 DEF Extended
    <3>3. QED BY <3>1, <3>2 DEF Extended
  <2>8. SeenInOrder'
    BY <1>1, <1>2, <2>1, <2>7 DEF DetectorInv, SeenInOrder, q, s
  <2>9. LastReads'
    <3>1. secrets' \in [Tasks -> Int]
      BY <1>1, <2>5, <2>6
    <3>2. \A i \in DOMAIN s : s[i].at \in Nat /\ s[i].at <= now
      BY SeenTimes DEF DetectorInv, s
    <3>3. ASSUME NEW t \in Tasks
          PROVE  /\ \A i \in DOMAIN q : ReadsSecret(q, i, t) =>
                      secrets'[t] # Never /\ q[i].at <= secrets'[t]
                 /\ secrets'[t] # Never =>
                      \E i \in DOMAIN q : ReadsSecret(q, i, t) /\ q[i].at = secrets'[t]
      <4>1. CASE t = cur.task
        <5>1. secrets'[t] = now /\ now # Never
          BY <1>1, <2>5, <2>6, <4>1 DEF Never
        <5>2. ReadsSecret(q, n, t) /\ q[n].at = now
          BY <2>1, <2>7, <4>1 DEF ReadsSecret
        <5>3. \A i \in DOMAIN q : q[i].at <= now
          BY <1>1, <2>1, <2>7, <3>2
        <5>4. QED BY <2>7, <5>1, <5>2, <5>3
      <4>2. CASE t # cur.task
        <5>1. secrets'[t] = secrets[t]
          BY <2>5, <2>6, <4>2
        <5>2. ~ReadsSecret(q, n, t) /\ \A i \in DOMAIN s : ReadsSecret(q, i, t) <=> ReadsSecret(s, i, t)
          BY <2>1, <2>7, <4>2 DEF ReadsSecret
        <5>3. /\ \A i \in DOMAIN s : ReadsSecret(s, i, t) => secrets[t] # Never /\ s[i].at <= secrets[t]
              /\ secrets[t] # Never => \E i \in DOMAIN s : ReadsSecret(s, i, t) /\ s[i].at = secrets[t]
          BY <1>5 DEF DetectorInv, LastReads, s
        <5>4. QED BY <2>7, <5>1, <5>2, <5>3
      <4>3. QED BY <4>1, <4>2
    <3>4. QED BY <3>1, <3>3 DEF LastReads, q
  <2>10. FiredOnce'
    <3>1. \A t \in Tasks : (\E i \in DOMAIN q : q[i].pid = t /\ Qualifies(q, i))
                           <=> (\E i \in DOMAIN s : s[i].pid = t /\ Qualifies(s, i))
      BY <2>7
    <3>2. fired = {t \in Tasks : \E i \in DOMAIN s : s[i].pid = t /\ Qualifies(s, i)}
      BY <1>5 DEF DetectorInv, FiredOnce, s
    <3>3. fired' = {t \in Tasks : \E i \in DOMAIN q : q[i].pid = t /\ Qualifies(q, i)}
      BY <1>3, <3>1, <3>2
    <3>4. QED BY <3>3 DEF FiredOnce, q
  <2>11. ChainsReported'
    <3>1. /\ chains \in Seq(Egress) /\ Len(chains) = Cardinality(Firsts(s))
          /\ ToSet(chains) = {[pid |-> s[i].pid, dest |-> s[i].call] : i \in Firsts(s)}
      BY <1>5 DEF DetectorInv, ChainsReported, s
    <3>2. {[pid |-> q[i].pid, dest |-> q[i].call] : i \in Firsts(q)}
            = {[pid |-> s[i].pid, dest |-> s[i].call] : i \in Firsts(s)}
      BY <2>7
    <3>3. QED BY <1>3, <2>7, <3>1, <3>2 DEF ChainsReported, q
  <2>12. QED BY <1>5, <2>8, <2>9, <2>10, <2>11 DEF DetectorInv
<1>6. QED BY <1>4, <1>5

(* An egress: a chain is reported exactly when it is its thread's first.   *)
LEMMA DetectorConnect ==
  ASSUME AskingCalls, DetectorInv, cur # Nothing, Memory \in Connects,
         OnConnect(Memory), log' = Seen, detect' = detect, now' = now
  PROVE  DetectorInv'
<1>1. /\ CurShape(cur) /\ cur.task \in Tasks /\ cur.at = now /\ now \in Nat
      /\ Memory \notin Opens /\ Memory # "secret"
  BY HostsAssumption DEF AskingCalls, DetectorInv, SeenInOrder, Connects, Opens, Local
<1>2. cur'.at = now'
  <2>1. cur' = [id |-> cur.id, task |-> cur.task, call |-> Memory, at |-> cur.at, answer |-> decide(Memory)]
    BY <1>1 DEF OnConnect, CurShape
  <2>2. QED BY <1>1, <2>1
<1>3. secrets' = secrets
  BY DEF OnConnect
<1>4. CASE ~(detect /\ Memory \in Hosts \ Allowed)
  <2>1. log'.seen = log.seen
    BY <1>1, <1>4 DEF Seen
  <2>2. chains' = chains /\ fired' = fired
    BY <1>4 DEF OnConnect, observe_egress
  <2>3. QED BY <1>1, <1>2, <1>3, <2>1, <2>2, DetectorFrame
<1>5. CASE detect /\ Memory \in Hosts \ Allowed
  <2> DEFINE e == [pid |-> cur.task, call |-> Memory, at |-> cur.at]
             s == log.seen
             q == log'.seen
             n == Len(s) + 1
             x == [pid |-> cur.task, dest |-> Memory]
             t == cur.task
             hit == Completes(cur.task, cur.at)
             Chain(r, i) == [pid |-> r[i].pid, dest |-> r[i].call]
  <2>1. /\ e \in SeenCall /\ e.pid = t /\ e.call = Memory /\ e.call # "secret"
        /\ e.call \in Hosts \ Allowed /\ e.at = now
        /\ x \in Egress /\ x = [pid |-> e.pid, dest |-> e.call]
    BY <1>1, <1>5 DEF SeenCall, Egress
  <2>2. log' = [log EXCEPT !.seen = Append(@, e)]
    BY <1>5 DEF Seen
  <2>3. q = Append(s, e)
    BY <2>2 DEF AskingCalls, LogShape
  <2>4. s \in Seq(SeenCall)
    BY DEF DetectorInv, SeenInOrder
  <2>5. /\ fired' = IF hit THEN fired \cup {t} ELSE fired
        /\ chains' = IF hit THEN Append(chains, x) ELSE chains
    BY <1>5 DEF OnConnect, observe_egress
  <2>6. hit <=> t \notin fired /\ secrets[t] # Never /\ now - secrets[t] <= Window
    BY <1>1 DEF Completes
  <2>7. t \in Tasks
    BY <1>1
  <2> HIDE DEF e, s, q, n, x, t, hit
  <2>8. Extended(s, e, q, n)
    BY <2>1, <2>3, <2>4, FirstsAppend DEF n
  <2>9. \A i \in DOMAIN s : s[i].at \in Nat /\ s[i].at <= now
    BY SeenTimes DEF DetectorInv, s
  <2>10. Qualifies(q, n) <=> secrets[t] # Never /\ now - secrets[t] <= Window
    <3>1. Qualifies(q, n) <=> \E j \in DOMAIN s : ReadsSecret(s, j, t) /\ now - s[j].at <= Window
      BY <2>1, <2>8 DEF Extended, ReadsSecret
    <3>2. /\ \A i \in DOMAIN s : ReadsSecret(s, i, t) => secrets[t] # Never /\ s[i].at <= secrets[t]
          /\ secrets[t] # Never => \E i \in DOMAIN s : ReadsSecret(s, i, t) /\ s[i].at = secrets[t]
          /\ secrets[t] \in Int
      BY <1>5, <2>7 DEF DetectorInv, LastReads, s
    <3>3. \A j \in DOMAIN s : ReadsSecret(s, j, t) /\ now - s[j].at <= Window => now - secrets[t] <= Window
      BY <1>1, <2>9, <3>2, TimeAssumption
    <3>4. QED BY <3>1, <3>2, <3>3
  <2>11. fired = {u \in Tasks : \E i \in DOMAIN s : s[i].pid = u /\ Qualifies(s, i)}
    BY <1>5 DEF DetectorInv, FiredOnce, s
  <2>12. t \notin fired <=> \A j \in DOMAIN s : s[j].pid = t => ~Qualifies(s, j)
    BY <2>7, <2>11
  <2>13. Firsts(q) = IF hit THEN Firsts(s) \cup {n} ELSE Firsts(s)
    <3>1. hit <=> Qualifies(q, n) /\ \A j \in DOMAIN s : s[j].pid = e.pid => ~Qualifies(s, j)
      BY <2>1, <2>6, <2>10, <2>12
    <3>2. QED BY <2>8, <3>1 DEF Extended
  <2>14. SeenInOrder'
    BY <1>1, <1>2, <2>1, <2>8 DEF DetectorInv, SeenInOrder, Extended, q, s
  <2>15. LastReads'
    <3>1. \A u : ~ReadsSecret(q, n, u) /\ \A i \in DOMAIN s : ReadsSecret(q, i, u) <=> ReadsSecret(s, i, u)
      BY <2>1, <2>8 DEF ReadsSecret, Extended
    <3>2. DOMAIN q = DOMAIN s \cup {n} /\ \A i \in DOMAIN s : q[i] = s[i]
      BY <2>8 DEF Extended
    <3>3. ASSUME NEW u \in Tasks
          PROVE  /\ \A i \in DOMAIN q : ReadsSecret(q, i, u) =>
                      secrets'[u] # Never /\ q[i].at <= secrets'[u]
                 /\ secrets'[u] # Never =>
                      \E i \in DOMAIN q : ReadsSecret(q, i, u) /\ q[i].at = secrets'[u]
      <4>1. /\ \A i \in DOMAIN s : ReadsSecret(s, i, u) => secrets[u] # Never /\ s[i].at <= secrets[u]
            /\ secrets[u] # Never => \E i \in DOMAIN s : ReadsSecret(s, i, u) /\ s[i].at = secrets[u]
        BY <1>5 DEF DetectorInv, LastReads, s
      <4>2. QED BY <1>3, <3>1, <3>2, <4>1
    <3>4. QED BY <1>3, <1>5, <3>3 DEF DetectorInv, LastReads, q
  <2>16. FiredOnce'
    <3>1. \A u \in Tasks : (\E i \in DOMAIN q : q[i].pid = u /\ Qualifies(q, i))
            <=> \/ \E i \in DOMAIN s : s[i].pid = u /\ Qualifies(s, i)
                \/ u = t /\ Qualifies(q, n)
      BY <2>1, <2>8 DEF Extended
    <3>2. \A u \in Tasks : (\E i \in DOMAIN q : q[i].pid = u /\ Qualifies(q, i)) <=> u \in fired'
      BY <2>5, <2>6, <2>10, <2>11, <3>1
    <3>3. fired' \subseteq Tasks
      BY <2>5, <2>7, <2>11
    <3>4. fired' = {u \in Tasks : \E i \in DOMAIN q : q[i].pid = u /\ Qualifies(q, i)}
      BY <3>2, <3>3
    <3>5. QED BY <3>4 DEF FiredOnce, q
  <2>17. ChainsReported'
    <3>1. /\ chains \in Seq(Egress) /\ Len(chains) = Cardinality(Firsts(s))
          /\ ToSet(chains) = {Chain(s, i) : i \in Firsts(s)}
      BY <1>5 DEF DetectorInv, ChainsReported, s
    <3>2. \A i \in Firsts(s) : Chain(q, i) = Chain(s, i)
      BY <2>8 DEF Extended
    <3>3. Chain(q, n) = x
      BY <2>1, <2>8 DEF Extended
    <3>4. IsFiniteSet(Firsts(s)) /\ n \notin Firsts(s)
      BY <2>8 DEF Extended
    <3>5. CASE hit
      <4>1. chains' = Append(chains, x) /\ Firsts(q) = Firsts(s) \cup {n}
        BY <2>5, <2>13, <3>5
      <4>2. chains' \in Seq(Egress) /\ ToSet(chains') = ToSet(chains) \cup {x}
        BY <2>1, <3>1, <4>1, ToSetAppend
      <4>3. Len(chains') = Cardinality(Firsts(q))
        <5>1. Len(chains') = Len(chains) + 1
          BY <2>1, <3>1, <4>1
        <5>2. Cardinality(Firsts(q)) = Cardinality(Firsts(s)) + 1
          BY <3>4, <4>1, FS_AddElement
        <5>3. QED BY <3>1, <5>1, <5>2
      <4>4. {Chain(q, i) : i \in Firsts(q)} = {Chain(s, i) : i \in Firsts(s)} \cup {x}
        <5> HIDE DEF Chain
        <5>1. QED BY <3>2, <3>3, <4>1
      <4>5. ToSet(chains') = {Chain(q, i) : i \in Firsts(q)}
        BY <3>1, <4>2, <4>4
      <4>6. QED BY <4>2, <4>3, <4>5 DEF ChainsReported, q
    <3>6. CASE ~hit
      <4>1. chains' = chains /\ Firsts(q) = Firsts(s)
        BY <2>5, <2>13, <3>6
      <4>2. {Chain(q, i) : i \in Firsts(q)} = {Chain(s, i) : i \in Firsts(s)}
        <5> HIDE DEF Chain
        <5>1. QED BY <3>2, <4>1
      <4>3. QED BY <3>1, <4>1, <4>2 DEF ChainsReported, q
    <3>7. QED BY <3>5, <3>6
  <2>18. QED BY <1>5, <2>14, <2>15, <2>16, <2>17 DEF DetectorInv
<1>6. QED BY <1>4, <1>5

(* Every step keeps what the detector knows.                               *)
LEMMA DetectorStep ==
  ASSUME AskingCalls, DetectorInv, [Next]_vars
  PROVE  DetectorInv'
<1>1. now \in Nat /\ (cur # Nothing => cur.at = now)
  BY DEF DetectorInv, SeenInOrder
<1>2. ASSUME log'.seen = log.seen, detect' = detect, chains' = chains, secrets' = secrets, fired' = fired,
             now' = now, cur' # Nothing => cur'.at = now
      PROVE  DetectorInv'
  <2>1. now' \in Nat /\ now <= now'
    BY <1>1, <1>2
  <2>2. QED BY <1>2, <2>1, DetectorFrame
<1>3. ASSUME NEW t \in Tasks, NEW c \in Calls, Call(t, c) \/ Swap(t, c) PROVE DetectorInv'
  <2>1. log'.seen = log.seen
    BY <1>3 DEF Call, Swap, AskingCalls, LogShape
  <2>2. QED BY <1>1, <1>2, <1>3, <2>1 DEF Call, Swap, config, detector, events
<1>4. ASSUME NEW t \in Tasks, Fork(t) \/ Exit(t) \/ Interrupt(t) PROVE DetectorInv'
  <2>1. log'.seen = log.seen
    BY <1>4 DEF Fork, Exit, Interrupt, Withdrawn, AskingCalls, LogShape
  <2>2. QED BY <1>1, <1>2, <1>4, <2>1 DEF Fork, Exit, Interrupt, Withdrawn, config, detector, events
<1>5. ASSUME NEW t \in Tasks, Receive(t) PROVE DetectorInv'
  <2>1. now' \in Nat /\ now <= now'
    BY <1>1, <1>5, TimeAssumption DEF Receive
  <2>2. cur'.at = now'
    BY <1>5 DEF Receive
  <2>3. QED BY <1>5, <2>1, <2>2, DetectorFrame DEF Receive, config, detector, events
<1>6. CASE Examine
  <2>1. cur # Nothing /\ detect' = detect /\ now' = now
    BY <1>6 DEF Examine, Examining, config
  <2>2. CASE Valid /\ Memory \in Connects
    BY <1>6, <2>1, <2>2, DetectorConnect DEF Examine, On
  <2>3. CASE Valid /\ Memory \notin Connects
    <3>1. Memory \in Opens
      BY <2>1, <2>3, ValidWaits, CallsAssumption
    <3>2. QED BY <1>6, <2>1, <2>3, <3>1, DetectorOpen DEF Examine, On
  <2>4. CASE ~Valid
    BY <1>1, <1>2, <1>6, <2>1, <2>4 DEF Examine, detector, events
  <2>5. QED BY <2>2, <2>3, <2>4
<1>7. CASE ExamineUnread
  <2>1. log'.seen = log.seen /\ cur # Nothing
    BY <1>7 DEF ExamineUnread, Examining, AskingCalls, LogShape
  <2>2. cur' = [id |-> cur.id, task |-> cur.task, call |-> cur.call, at |-> cur.at, answer |-> decide(Unread)]
    BY <1>7, <2>1 DEF ExamineUnread, AskingCalls, CurShape
  <2>3. cur'.at = now
    BY <1>1, <2>1, <2>2
  <2>4. QED BY <1>2, <1>7, <2>1, <2>3 DEF ExamineUnread, config, detector, events
<1>8. CASE Answer
  <2>1. log'.seen = log.seen
    BY <1>8 DEF Answer, AskingCalls, LogShape
  <2>2. QED BY <1>2, <1>8, <2>1 DEF Answer, config, detector, events
<1>9. CASE SuperviseFails \/ reap
  BY <1>1, <1>2, <1>9 DEF SuperviseFails, reap, config, detector, events
<1>10. CASE child_main \/ recv_fd \/ ReceiveNothing \/ report \/ finish \/ UNCHANGED vars
  BY <1>1, <1>2, <1>10 DEF child_main, recv_fd, ReceiveNothing, NoneToReceive, report, finish, vars, config, detector, events
<1>11. QED BY <1>3, <1>4, <1>5, <1>6, <1>7, <1>8, <1>9, <1>10 DEF Next

(* A chain is reported for exactly the first egress of each thread id that *)
(* completes one, whatever the command does (chain.rs: observe_secret_read,*)
(* observe_egress).                                                        *)
THEOREM FirstChainsAreReported == Spec => []ChainsAreTheFirst
<1>1. Init => AskingCalls /\ DetectorInv
  <2> SUFFICES ASSUME Init PROVE AskingCalls /\ DetectorInv
    OBVIOUS
  <2>1. AskingCalls
    BY SlipStarts
  <2>2. /\ log.seen = <<>> /\ chains = <<>> /\ fired = {} /\ now = 0 /\ cur = Nothing
        /\ secrets = [t \in Tasks |-> Never] /\ detect \in BOOLEAN
    BY SetupsAssumption DEF Init, Log
  <2>3. DOMAIN log.seen = {} /\ log.seen \in Seq(SeenCall) /\ chains \in Seq(Egress) /\ Len(chains) = 0
    BY <2>2
  <2>4. Firsts(log.seen) = {} /\ Cardinality(Firsts(log.seen)) = 0 /\ ToSet(chains) = {}
    BY <2>2, <2>3, FS_EmptySet DEF Firsts, ToSet
  <2>5. SeenInOrder
    BY <2>2, <2>3 DEF SeenInOrder
  <2>6. LastReads
    BY <2>2, <2>3 DEF LastReads, Never
  <2>7. FiredOnce
    BY <2>2, <2>3 DEF FiredOnce
  <2>8. ChainsReported
    BY <2>3, <2>4 DEF ChainsReported
  <2>9. QED BY <2>1, <2>2, <2>5, <2>6, <2>7, <2>8 DEF DetectorInv
<1>2. AskingCalls /\ DetectorInv /\ [Next]_vars => AskingCalls' /\ DetectorInv'
  BY AskingKeeps, DetectorStep
<1>3. DetectorInv => ChainsAreTheFirst
  BY DEF DetectorInv, ChainsReported, ChainsAreTheFirst
<1>4. QED BY <1>1, <1>2, <1>3, PTL DEF Spec
=============================================================================
