------------------------ MODULE TaskRegistry_proofs ------------------------
(***************************************************************************)
(* Proofs about TaskRegistry, for any number of tasks, items and stop      *)
(* requests: type correctness, that one stop request waits for a task that *)
(* is being cancelled, that "stopped" means ended, that the lists of the   *)
(* items hold what they should, and the implementation of TaskLifecycle.   *)
(***************************************************************************)
EXTENDS TaskRegistry, FiniteSetTheorems, SequenceTheorems, TLAPS

(* TypeOK, and: an attached list is that of an item, and a task that has   *)
(* been created has an item.                                               *)
Types ==
  /\ TypeOK
  /\ \A s \in Stopper : req[s].attached => req[s].item \in Item
  /\ \A s \in Stopper : req[s].pc # "idle" => req[s].cur \in Task \/ req[s].pc = "head"

(* What create_task has not yet touched is in no dictionary.               *)
UnbornIsUnknown ==
  /\ \A t \in Task : status[t] = "unborn" => t \notin tasks
  /\ \A i \in Item : \A k \in DOMAIN itemTasks[i] : status[itemTasks[i][k]] # "unborn"
  /\ \A s \in Stopper : req[s].cur \in Task => status[req[s].cur] # "unborn"

(* Clean-ups come for tasks that have ended.                               *)
CleanedHasEnded == \A t \in uncleaned : status[t] = "finished"

(* A task that is awaited has been cancelled, and taken out of `tasks`; a  *)
(* task that is being cancelled is awaited by one request.                 *)
Awaits(s, t) == req[s].pc = "await" /\ req[s].cur = t
AwaitedIsCancelled ==
  \A s \in Stopper, t \in Task : Awaits(s, t) => status[t] \in {"cancelling", "finished"}
CancelledIsPopped == \A t \in Task : status[t] = "cancelling" => t \notin tasks
RunningIsKnown == \A t \in Task : status[t] = "running" => t \in tasks
OneAwaits ==
  \A t \in Task : status[t] = "cancelling" =>
    \E s \in Stopper : Awaits(s, t) /\ \A r \in Stopper : Awaits(r, t) => r = s

IInv ==
  /\ Types
  /\ UnbornIsUnknown
  /\ CleanedHasEnded
  /\ AwaitedIsCancelled
  /\ CancelledIsPopped
  /\ RunningIsKnown
  /\ OneAwaits
  /\ StoppedMeansEnded

-----------------------------------------------------------------------------
(* A list without one of its elements: the later ones move up.             *)
LEMMA RemoveAtElements ==
  ASSUME NEW S, NEW list \in Seq(S), NEW k \in DOMAIN list
  PROVE  /\ RemoveAt(list, k) \in Seq(S)
         /\ DOMAIN RemoveAt(list, k) = 1 .. Len(list) - 1
         /\ \A j \in 1 .. Len(list) - 1 :
              RemoveAt(list, k)[j] = IF j < k THEN list[j] ELSE list[j + 1]
<1> DEFINE before == SubSeq(list, 1, k - 1)
           after == SubSeq(list, k + 1, Len(list))
<1>1. k \in 1 .. Len(list) /\ Len(list) \in Nat
  OBVIOUS
<1>2. /\ before \in Seq(S) /\ Len(before) = k - 1
      /\ \A i \in 1 .. k - 1 : before[i] = list[i]
  <2>1. /\ 1 \in 1 .. Len(list) + 1 /\ k - 1 \in 0 .. Len(list)
        /\ \A i \in 1 .. k - 1 : 1 + i - 1 = i
        /\ (1 <= k - 1 => (k - 1) - 1 + 1 = k - 1) /\ (~(1 <= k - 1) => k - 1 = 0)
    BY <1>1
  <2>2. /\ before \in Seq(S) /\ Len(before) = IF 1 <= k - 1 THEN (k - 1) - 1 + 1 ELSE 0
        /\ \A i \in 1 .. (k - 1) - 1 + 1 : before[i] = list[1 + i - 1]
    BY <2>1, SubSeqProperties
  <2> QED BY <1>1, <2>1, <2>2
<1>3. /\ after \in Seq(S) /\ Len(after) = Len(list) - k
      /\ \A i \in 1 .. Len(list) - k : after[i] = list[k + i]
  <2>1. /\ k + 1 \in 1 .. Len(list) + 1 /\ Len(list) \in 0 .. Len(list)
        /\ Len(list) - (k + 1) + 1 = Len(list) - k
        /\ \A i \in 1 .. Len(list) - k : (k + 1) + i - 1 = k + i
        /\ ~(k + 1 <= Len(list)) => Len(list) - k = 0
    BY <1>1
  <2>2. /\ after \in Seq(S)
        /\ Len(after) = IF k + 1 <= Len(list) THEN Len(list) - (k + 1) + 1 ELSE 0
        /\ \A i \in 1 .. Len(list) - (k + 1) + 1 : after[i] = list[(k + 1) + i - 1]
    BY <2>1, SubSeqProperties
  <2> QED BY <2>1, <2>2
<1>4. RemoveAt(list, k) = before \o after
  BY DEF RemoveAt
<1> HIDE DEF before, after
<1>5. /\ before \o after \in Seq(S) /\ Len(before \o after) = Len(before) + Len(after)
      /\ \A i \in 1 .. Len(before) + Len(after) :
           (before \o after)[i] = IF i <= Len(before) THEN before[i] ELSE after[i - Len(before)]
  BY <1>2, <1>3, ConcatProperties
<1>6. ASSUME NEW j \in 1 .. Len(list) - 1
      PROVE  RemoveAt(list, k)[j] = IF j < k THEN list[j] ELSE list[j + 1]
  <2>1. j \in 1 .. Len(before) + Len(after) /\ (j <= Len(before) <=> j < k)
    BY <1>1, <1>2, <1>3
  <2>2. j < k => j \in 1 .. k - 1
    BY <1>1
  <2>3. ~(j < k) => j - (k - 1) \in 1 .. Len(list) - k /\ k + (j - (k - 1)) = j + 1
    BY <1>1
  <2>4. CASE j < k
    BY <1>2, <1>4, <1>5, <2>1, <2>2, <2>4
  <2>5. CASE ~(j < k)
    <3>1. RemoveAt(list, k)[j] = after[j - (k - 1)]
      BY <1>2, <1>4, <1>5, <2>1, <2>5
    <3>2. after[j - (k - 1)] = list[k + (j - (k - 1))]
      BY <1>3, <2>3, <2>5
    <3> QED BY <2>3, <2>5, <3>1, <3>2
  <2> QED BY <2>4, <2>5
<1>7. DOMAIN (before \o after) = 1 .. Len(list) - 1
  <2>1. Len(before \o after) = Len(list) - 1
    BY <1>1, <1>2, <1>3, <1>5
  <2> QED BY <1>5, <2>1
<1> QED
  BY <1>4, <1>5, <1>6, <1>7

LEMMA RemoveAtType ==
  ASSUME NEW S, NEW list \in Seq(S), NEW k \in DOMAIN list
  PROVE  /\ RemoveAt(list, k) \in Seq(S)
         /\ \A j \in DOMAIN RemoveAt(list, k) :
              \E l \in DOMAIN list : RemoveAt(list, k)[j] = list[l]
<1>1. \A j \in 1 .. Len(list) - 1 : j \in DOMAIN list /\ j + 1 \in DOMAIN list
  OBVIOUS
<1> QED
  BY <1>1, RemoveAtElements

LEMMA ItemWithoutType ==
  ASSUME TypeOK, NEW i \in Item, NEW t
  PROVE  /\ ItemWithout(i, t) \in Seq(Task)
         /\ \A j \in DOMAIN ItemWithout(i, t) :
              \E l \in DOMAIN itemTasks[i] : ItemWithout(i, t)[j] = itemTasks[i][l]
<1> DEFINE k == CHOOSE k \in DOMAIN itemTasks[i] : itemTasks[i][k] = t
<1>1. itemTasks[i] \in Seq(Task)
  BY DEF TypeOK
<1>2. CASE \E l \in DOMAIN itemTasks[i] : itemTasks[i][l] = t
  <2>1. k \in DOMAIN itemTasks[i]
    BY <1>2
  <2>2. ItemWithout(i, t) = RemoveAt(itemTasks[i], k)
    BY <1>2 DEF ItemWithout
  <2> HIDE DEF k
  <2> QED
    BY <1>1, <2>1, <2>2, RemoveAtType
<1>3. CASE ~(\E l \in DOMAIN itemTasks[i] : itemTasks[i][l] = t)
  BY <1>1, <1>3 DEF ItemWithout
<1> QED
  BY <1>2, <1>3

(* Requests in the forms the steps give them.                              *)
LEMMA RequestNext ==
  ASSUME NEW r \in Request, NEW t \in Task
  PROVE  [r EXCEPT !.pc = "pop", !.idx = @ + 1, !.cur = t] \in Request
<1>1. r.idx + 1 \in Nat \ {0}
  BY DEF Request
<1>2. \A n \in Nat \ {0} : [r EXCEPT !.pc = "pop", !.idx = n, !.cur = t] \in Request
  BY DEF Request
<1> QED
  BY <1>1, <1>2

LEMMA RequestForms ==
  ASSUME NEW r \in Request
  PROVE  /\ [r EXCEPT !.attached = FALSE] \in Request
         /\ \A verdict \in Verdict : [r EXCEPT !.pc = "idle", !.verdict = verdict] \in Request
         /\ \A verdict \in Verdict : [r EXCEPT !.verdict = verdict] \in Request
         /\ \A pc \in {"head", "await"} : [r EXCEPT !.pc = pc] \in Request
         /\ \A t \in Task : [r EXCEPT !.pc = "pop", !.cur = t] \in Request
         /\ \A i \in Item :
              [r EXCEPT !.item = i, !.attached = TRUE] \in Request
<1>1. [r EXCEPT !.attached = FALSE] \in Request
  BY DEF Request
<1>2. ASSUME NEW verdict \in Verdict
      PROVE  /\ [r EXCEPT !.pc = "idle", !.verdict = verdict] \in Request
             /\ [r EXCEPT !.verdict = verdict] \in Request
  BY DEF Request
<1>3. \A pc \in {"head", "await"} : [r EXCEPT !.pc = pc] \in Request
  BY DEF Request
<1>4. \A t \in Task : [r EXCEPT !.pc = "pop", !.cur = t] \in Request
  BY DEF Request
<1>5. ASSUME NEW i \in Item
      PROVE  [r EXCEPT !.item = i, !.attached = TRUE] \in Request
  BY DEF Request
<1> QED
  BY <1>1, <1>2, <1>3, <1>4, <1>5

LEMMA IdleIsRequest == IdleReq \in Request
  BY DEF Request, IdleReq, Verdict

(* A step that changes request s only.                                     *)
LEMMA RequestChanged ==
  ASSUME Types, NEW s \in Stopper, NEW r \in Request, req' = [req EXCEPT ![s] = r],
         r.attached => r.item \in Item,
         r.pc # "idle" => r.cur \in Task \/ r.pc = "head"
  PROVE  /\ req' \in [Stopper -> Request]
         /\ \A x \in Stopper : req'[x].attached => req'[x].item \in Item
         /\ \A x \in Stopper : req'[x].pc # "idle" => req'[x].cur \in Task \/ req'[x].pc = "head"
  BY DEF Types, TypeOK

(* The request that has been answered.                                     *)
LEMMA AnswerForms ==
  ASSUME NEW s \in Stopper, req[s] \in Request, NEW verdict \in Verdict, Answer(s, verdict)
  PROVE  \E r \in Request : /\ req' = [req EXCEPT ![s] = r]
                            /\ r.attached = req[s].attached /\ r.item = req[s].item
                            /\ r.cur = req[s].cur /\ r.pc = "idle" /\ r.verdict = verdict
<1> DEFINE r == [req[s] EXCEPT !.pc = "idle", !.verdict = verdict]
<1>1. r \in Request
  BY RequestForms
<1>2. /\ r.attached = req[s].attached /\ r.item = req[s].item /\ r.cur = req[s].cur
      /\ r.pc = "idle" /\ r.verdict = verdict
  BY DEF Request
<1>3. req' = [req EXCEPT ![s] = r]
  BY DEF Answer
<1> HIDE DEF r
<1> QED
  BY <1>1, <1>2, <1>3

(* The request that waits, or has waited, for a task.                      *)
LEMMA AwaitForms ==
  ASSUME TypeOK, NEW s \in Stopper, NEW t,
         Awaited(s, t) \/ req' = [req EXCEPT ![s].pc = "await"]
  PROVE  \E r \in Request : /\ req' = [req EXCEPT ![s] = r]
                            /\ r.attached = req[s].attached /\ r.item = req[s].item
                            /\ r.cur = req[s].cur
                            /\ r.pc \in {"idle", "head", "await"}
<1>1. req[s] \in Request /\ {"raised", "stopped"} \subseteq Verdict
  BY DEF TypeOK, Verdict
<1>2. \/ \E pc \in {"head", "await"} : req' = [req EXCEPT ![s] = [req[s] EXCEPT !.pc = pc]]
      \/ Awaited(s, t) /\ \E verdict \in {"raised", "stopped"} : Answer(s, verdict)
  BY DEF Awaited
<1>3. CASE \E pc \in {"head", "await"} : req' = [req EXCEPT ![s] = [req[s] EXCEPT !.pc = pc]]
  <2>1. PICK pc \in {"head", "await"} : req' = [req EXCEPT ![s] = [req[s] EXCEPT !.pc = pc]]
    BY <1>3
  <2> DEFINE r == [req[s] EXCEPT !.pc = pc]
  <2>2. r \in Request
    BY <1>1, RequestForms
  <2>3. /\ r.attached = req[s].attached /\ r.item = req[s].item /\ r.cur = req[s].cur
        /\ r.pc \in {"idle", "head", "await"}
    BY <1>1 DEF Request
  <2>4. req' = [req EXCEPT ![s] = r]
    BY <2>1
  <2> HIDE DEF r
  <2> QED
    BY <2>2, <2>3, <2>4
<1>4. CASE Awaited(s, t) /\ \E verdict \in {"raised", "stopped"} : Answer(s, verdict)
  BY <1>1, <1>4, AnswerForms
<1> QED
  BY <1>2, <1>3, <1>4

(* Every step keeps the types.                                             *)
LEMMA TypeStep == Types /\ [Next]_vars => Types'
<1> SUFFICES ASSUME Types, [Next]_vars PROVE Types'
  OBVIOUS
<1> USE DEF Types, TypeOK
<1>1. ASSUME NEW t \in Task, NEW i \in Item, CreateTask(t, i) PROVE Types'
  BY <1>1 DEF CreateTask, TasksWith, Status
<1>2. ASSUME NEW t \in Task, Finish(t) PROVE Types'
  BY <1>2 DEF Finish, Ends, Status, Outcome
<1>3. ASSUME NEW t \in Task, Unwind(t) PROVE Types'
  BY <1>3 DEF Unwind, Ends, Status, Outcome
<1>4. ASSUME NEW t \in Task, CleanupTask(t) PROVE Types'
  <2>1. itemTasks' \in [Item -> Seq(Task)]
    BY <1>4, ItemWithoutType DEF CleanupTask
  <2>2. ASSUME NEW s \in Stopper
        PROVE  /\ req'[s] \in Request
               /\ req'[s].pc = req[s].pc
               /\ req'[s].cur = req[s].cur
               /\ req'[s].item = req[s].item
               /\ req'[s].attached => req[s].attached
    <3>1. req[s] \in Request
      OBVIOUS
    <3>2. req'[s] = req[s] \/ req'[s] = [req[s] EXCEPT !.attached = FALSE]
      BY <1>4 DEF CleanupTask, Detach
    <3>3. [req[s] EXCEPT !.attached = FALSE] \in Request
      BY <3>1, RequestForms
    <3> QED
      BY <3>1, <3>2, <3>3 DEF Request
  <2>3. req' \in [Stopper -> Request]
    BY <1>4, <2>2 DEF CleanupTask, Detach
  <2> QED
    BY <1>4, <2>1, <2>2, <2>3 DEF CleanupTask
<1>5. ASSUME NEW s \in Stopper, NEW t \in Task, StopTask(s, t) PROVE Types'
  <2> DEFINE r == [IdleReq EXCEPT !.pc = "pop", !.cur = t]
  <2>1. r \in Request /\ ~r.attached /\ r.cur = t
    BY IdleIsRequest, RequestForms DEF IdleReq
  <2>2. req' = [req EXCEPT ![s] = r]
    BY <1>5 DEF StopTask
  <2> HIDE DEF r
  <2> QED
    BY <1>5, <2>1, <2>2, RequestChanged DEF StopTask
<1>6. ASSUME NEW s \in Stopper, NEW i \in Item, StopItemTasks(s, i) PROVE Types'
  <2> DEFINE call == [IdleReq EXCEPT !.item = i, !.attached = TRUE]
  <2>1. call \in Request /\ call.item = i /\ call.pc = "idle"
    BY IdleIsRequest, RequestForms DEF IdleReq
  <2>2. \E r \in {[call EXCEPT !.verdict = "all stopped"], [call EXCEPT !.pc = "head"]} :
          req' = [req EXCEPT ![s] = r]
    BY <1>6 DEF StopItemTasks
  <2>3. ASSUME NEW r \in {[call EXCEPT !.verdict = "all stopped"], [call EXCEPT !.pc = "head"]}
        PROVE  r \in Request /\ r.item = i /\ r.pc \in {"idle", "head"}
    <3> HIDE DEF call
    <3>1. r \in Request
      BY <2>1, <2>3, RequestForms DEF Verdict
    <3>2. r.item = i /\ r.pc \in {"idle", "head"}
      BY <2>1, <2>3 DEF Request
    <3> QED
      BY <3>1, <3>2
  <2> HIDE DEF call
  <2>4. PICK r \in Request : req' = [req EXCEPT ![s] = r] /\ r.item = i /\ r.pc \in {"idle", "head"}
    BY <2>2, <2>3
  <2> QED
    BY <1>6, <2>4, RequestChanged DEF StopItemTasks
<1>7. ASSUME NEW s \in Stopper, NextListed(s) PROVE Types'
  <2>1. /\ UNCHANGED <<status, outcome, item, uncleaned, tasks, itemTasks>>
        /\ cpu' \in Stopper \union {NoOne}
    BY <1>7 DEF NextListed, Answer
  <2>2. CASE req[s].idx > Len(IteratedList(s))
    <3>1. req[s] \in Request /\ \E verdict \in Verdict : Answer(s, verdict)
      BY <1>7, <2>2 DEF NextListed, Verdict, Answer
    <3>2. PICK r \in Request :
          /\ req' = [req EXCEPT ![s] = r]
          /\ r.attached = req[s].attached /\ r.item = req[s].item /\ r.pc = "idle"
      BY <3>1, AnswerForms
    <3> QED
      BY <2>1, <3>2, RequestChanged
  <2>3. CASE ~(req[s].idx > Len(IteratedList(s)))
    <3>1. /\ IteratedList(s) \in Seq(Task) /\ req[s].idx \in Nat \ {0}
          /\ req[s] \in Request
      BY DEF IteratedList, Request
    <3>2. IteratedList(s)[req[s].idx] \in Task
      BY <2>3, <3>1
    <3> DEFINE r == [req[s] EXCEPT !.pc = "pop", !.idx = @ + 1, !.cur = IteratedList(s)[req[s].idx]]
    <3>3. r \in Request
      BY <3>1, <3>2, RequestNext
    <3>4. r.attached = req[s].attached /\ r.item = req[s].item /\ r.cur \in Task
      BY <3>1, <3>2 DEF Request
    <3>5. req' = [req EXCEPT ![s] = r]
      BY <1>7, <2>3 DEF NextListed
    <3> HIDE DEF r
    <3> QED
      BY <2>1, <3>3, <3>4, <3>5, RequestChanged
  <2> QED
    BY <2>2, <2>3
<1>8. ASSUME NEW s \in Stopper, PopMissing(s) PROVE Types'
  <2>1. req[s] \in Request /\ \E verdict \in Verdict : Answer(s, verdict)
    BY <1>8 DEF PopMissing, Verdict, Answer
  <2>2. PICK r \in Request :
          /\ req' = [req EXCEPT ![s] = r]
          /\ r.attached = req[s].attached /\ r.item = req[s].item /\ r.pc = "idle"
    BY <2>1, AnswerForms
  <2> QED
    BY <1>8, <2>2, RequestChanged DEF PopMissing, Answer
<1>9. ASSUME NEW s \in Stopper, PopAndCancel(s) PROVE Types'
  <2>1. req[s].cur \in Task
    BY <1>9 DEF PopAndCancel
  <2>2. PICK r \in Request : /\ req' = [req EXCEPT ![s] = r]
                             /\ r.attached = req[s].attached /\ r.item = req[s].item
                             /\ r.cur = req[s].cur
    BY <1>9, AwaitForms DEF PopAndCancel, CancelAndAwait
  <2>3. /\ status' \in [Task -> Status] /\ tasks' \subseteq Task
        /\ cpu' \in Stopper \union {NoOne}
    BY <1>9, <2>1 DEF PopAndCancel, Popped, Awaited, CancelAndAwait, Answer, Status
  <2> QED
    BY <1>9, <2>1, <2>2, <2>3, RequestChanged DEF PopAndCancel
<1>10. ASSUME NEW s \in Stopper, Resume(s) PROVE Types'
  <2>1. req[s].cur \in Task
    BY <1>10 DEF Resume
  <2>2. PICK r \in Request : /\ req' = [req EXCEPT ![s] = r]
                             /\ r.attached = req[s].attached /\ r.item = req[s].item
                             /\ r.cur = req[s].cur
    BY <1>10, AwaitForms DEF Resume
  <2>3. cpu' \in Stopper \union {NoOne}
    BY <1>10 DEF Resume, Awaited, Answer
  <2> QED
    BY <1>10, <2>1, <2>2, <2>3, RequestChanged DEF Resume
<1>11. CASE UNCHANGED vars
  BY <1>11 DEF vars
<1> QED
  BY <1>1, <1>2, <1>3, <1>4, <1>5, <1>6, <1>7, <1>8, <1>9, <1>10, <1>11 DEF Next, Stops

-----------------------------------------------------------------------------
(* Every step keeps the inductive invariant.                               *)

(* A stop request goes on, or is called or answered; it has not begun to   *)
(* wait, and what it waited for has ended.                                 *)
LEMMA RequestStep ==
  ASSUME IInv, Types', UNCHANGED <<status, uncleaned, itemTasks>>,
         NEW s \in Stopper, NEW r \in Request, req' = [req EXCEPT ![s] = r],
         \/ UNCHANGED tasks
         \/ \E t \in Task : status[t] = "finished" /\ tasks' = tasks \ {t},
         r.pc # "await",
         req[s].pc = "await" => status[req[s].cur] = "finished",
         r.cur \in Task => status[r.cur] # "unborn",
         r.pc = "idle" /\ r.verdict = "stopped" => status[r.cur] = "finished"
  PROVE  IInv'
<1>1. /\ req' [s] = r
      /\ \A x \in Stopper \ {s} : req'[x] = req[x]
      /\ \A x \in Stopper, t \in Task : Awaits(x, t)' => Awaits(x, t)
      /\ \A x \in Stopper, t \in Task :
           Awaits(x, t) /\ status[t] = "cancelling" => Awaits(x, t)'
  BY DEF IInv, Types, TypeOK, Awaits
<1>2. UnbornIsUnknown'
  BY <1>1 DEF IInv, UnbornIsUnknown
<1>3. CleanedHasEnded' /\ CancelledIsPopped' /\ RunningIsKnown'
  BY DEF IInv, CleanedHasEnded, CancelledIsPopped, RunningIsKnown
<1>4. AwaitedIsCancelled'
  BY <1>1 DEF IInv, AwaitedIsCancelled
<1>5. OneAwaits'
  BY <1>1 DEF IInv, OneAwaits
<1>6. StoppedMeansEnded'
  BY <1>1 DEF IInv, StoppedMeansEnded
<1> QED
  BY <1>2, <1>3, <1>4, <1>5, <1>6 DEF IInv

LEMMA AwaitedStep ==
  ASSUME IInv, Types', UNCHANGED <<status, uncleaned, itemTasks>>,
         NEW s \in Stopper, req[s].cur \in Task, status[req[s].cur] = "finished",
         tasks' = tasks \/ tasks' = tasks \ {req[s].cur},
         Awaited(s, req[s].cur)
  PROVE  IInv'
<1>1. TypeOK /\ req[s] \in Request
  BY DEF IInv, Types, TypeOK
<1>2. \/ \E verdict \in Verdict : Answer(s, verdict)
      \/ req' = [req EXCEPT ![s] = [req[s] EXCEPT !.pc = "head"]]
  BY DEF Awaited, Answer, Verdict
<1>3. CASE \E verdict \in Verdict : Answer(s, verdict)
  <2>1. PICK r \in Request : /\ req' = [req EXCEPT ![s] = r]
                             /\ r.cur = req[s].cur /\ r.pc = "idle"
    BY <1>1, <1>3, AnswerForms
  <2> QED
    BY <2>1, RequestStep
<1>4. CASE req' = [req EXCEPT ![s] = [req[s] EXCEPT !.pc = "head"]]
  <2> DEFINE r == [req[s] EXCEPT !.pc = "head"]
  <2>1. r \in Request
    BY <1>1, RequestForms
  <2>2. r.cur = req[s].cur /\ r.pc = "head"
    BY <1>1 DEF Request
  <2>3. req' = [req EXCEPT ![s] = r]
    BY <1>4
  <2> HIDE DEF r
  <2> QED
    BY <2>1, <2>2, <2>3, RequestStep
<1> QED
  BY <1>2, <1>3, <1>4

LEMMA InvStep == IInv /\ [Next]_vars => IInv'
<1> SUFFICES ASSUME IInv, [Next]_vars PROVE IInv'
  OBVIOUS
<1> Types /\ Types'
  BY TypeStep DEF IInv
<1>0. /\ \A s \in Stopper : req[s] \in Request
      /\ \A i \in Item : itemTasks[i] \in Seq(Task)
      /\ status \in [Task -> Status] /\ tasks \subseteq Task /\ uncleaned \subseteq Task
      /\ req \in [Stopper -> Request] /\ itemTasks \in [Item -> Seq(Task)]
  BY DEF Types, TypeOK
<1>1. ASSUME NEW t \in Task, NEW i \in Item, CreateTask(t, i) PROVE IInv'
  <2>1. \A j \in Item : \A k \in DOMAIN itemTasks'[j] :
          itemTasks'[j][k] = t \/ \E l \in DOMAIN itemTasks[j] : itemTasks'[j][k] = itemTasks[j][l]
    BY <1>0, <1>1 DEF CreateTask
  <2>2. /\ status' = [status EXCEPT ![t] = "running"] /\ status[t] = "unborn"
        /\ tasks' = tasks \union {t} /\ UNCHANGED <<uncleaned, req>>
    BY <1>1 DEF CreateTask, TasksWith
  <2>3. UnbornIsUnknown'
    BY <1>0, <2>1, <2>2 DEF IInv, UnbornIsUnknown
  <2>4. CleanedHasEnded' /\ CancelledIsPopped' /\ RunningIsKnown'
    BY <1>0, <2>2 DEF IInv, CleanedHasEnded, CancelledIsPopped, RunningIsKnown
  <2>5. AwaitedIsCancelled' /\ OneAwaits'
    BY <1>0, <2>2 DEF IInv, AwaitedIsCancelled, OneAwaits, Awaits
  <2>6. StoppedMeansEnded'
    BY <1>0, <2>2 DEF IInv, StoppedMeansEnded
  <2> QED
    BY <2>3, <2>4, <2>5, <2>6 DEF IInv
<1>2. ASSUME NEW t \in Task, NEW how, status[t] \in {"running", "cancelling"}, Ends(t, how)
      PROVE  IInv'
  <2>1. /\ status' = [status EXCEPT ![t] = "finished"]
        /\ uncleaned' = uncleaned \union {t} /\ UNCHANGED <<tasks, itemTasks, req>>
    BY <1>2 DEF Ends
  <2>2. UnbornIsUnknown'
    BY <1>0, <1>2, <2>1 DEF IInv, UnbornIsUnknown
  <2>3. CleanedHasEnded' /\ CancelledIsPopped' /\ RunningIsKnown'
    BY <1>0, <2>1 DEF IInv, CleanedHasEnded, CancelledIsPopped, RunningIsKnown
  <2>4. AwaitedIsCancelled' /\ OneAwaits'
    BY <1>0, <2>1 DEF IInv, AwaitedIsCancelled, OneAwaits, Awaits
  <2>5. StoppedMeansEnded'
    BY <1>0, <2>1 DEF IInv, StoppedMeansEnded
  <2> QED
    BY <2>2, <2>3, <2>4, <2>5 DEF IInv
<1>3. ASSUME NEW t \in Task, Finish(t) \/ Unwind(t) PROVE IInv'
  BY <1>2, <1>3 DEF Finish, Unwind
<1>4. ASSUME NEW t \in Task, CleanupTask(t) PROVE IInv'
  <2>1. \A s \in Stopper : req'[s].pc = req[s].pc /\ req'[s].cur = req[s].cur
                            /\ req'[s].verdict = req[s].verdict
    BY <1>0, <1>4 DEF CleanupTask, Detach, Request
  <2>2. \A i \in Item : \A k \in DOMAIN itemTasks'[i] :
          \E l \in DOMAIN itemTasks[i] : itemTasks'[i][k] = itemTasks[i][l]
    BY <1>0, <1>4, ItemWithoutType DEF CleanupTask, Types
  <2>3. /\ UNCHANGED status /\ status[t] = "finished"
        /\ tasks' = tasks \ {t} /\ uncleaned' = uncleaned \ {t}
    BY <1>4 DEF CleanupTask, IInv, CleanedHasEnded
  <2>4. UnbornIsUnknown'
    BY <1>0, <2>1, <2>2, <2>3 DEF IInv, UnbornIsUnknown
  <2>5. CleanedHasEnded' /\ CancelledIsPopped' /\ RunningIsKnown'
    BY <1>0, <2>3 DEF IInv, CleanedHasEnded, CancelledIsPopped, RunningIsKnown
  <2>6. AwaitedIsCancelled' /\ OneAwaits'
    <3>1. \A s \in Stopper, u \in Task : Awaits(s, u)' <=> Awaits(s, u)
      BY <2>1 DEF Awaits
    <3> QED
      BY <2>3, <3>1 DEF IInv, AwaitedIsCancelled, OneAwaits
  <2>7. StoppedMeansEnded'
    BY <1>0, <2>1, <2>3 DEF IInv, StoppedMeansEnded
  <2> QED
    BY <2>4, <2>5, <2>6, <2>7 DEF IInv
<1>5. ASSUME NEW s \in Stopper, NEW t \in Task, StopTask(s, t) PROVE IInv'
  <2> DEFINE r == [IdleReq EXCEPT !.pc = "pop", !.cur = t]
  <2>1. r \in Request /\ r.pc = "pop" /\ r.cur = t
    BY IdleIsRequest, RequestForms DEF IdleReq
  <2>2. req' = [req EXCEPT ![s] = r] /\ req[s].pc = "idle" /\ status[t] # "unborn"
    BY <1>5 DEF StopTask
  <2> HIDE DEF r
  <2> QED
    BY <1>5, <2>1, <2>2, RequestStep DEF StopTask
<1>6. ASSUME NEW s \in Stopper, NEW i \in Item, StopItemTasks(s, i) PROVE IInv'
  <2> DEFINE call == [IdleReq EXCEPT !.item = i, !.attached = TRUE]
  <2>1. call \in Request /\ call.cur = NoTask /\ call.pc = "idle" /\ call.verdict = "none"
    BY <1>0, IdleIsRequest, RequestForms DEF IdleReq
  <2>2. /\ req[s].pc = "idle"
        /\ \E r \in {[call EXCEPT !.verdict = "all stopped"], [call EXCEPT !.pc = "head"]} :
             req' = [req EXCEPT ![s] = r]
    BY <1>6 DEF StopItemTasks
  <2> HIDE DEF call
  <2>3. ASSUME NEW r \in {[call EXCEPT !.verdict = "all stopped"], [call EXCEPT !.pc = "head"]}
        PROVE  r \in Request /\ r.cur = NoTask /\ r.pc # "await" /\ r.verdict # "stopped"
    <3>1. r \in Request
      BY <2>1, <2>3, RequestForms DEF Verdict
    <3>2. r.cur = NoTask /\ r.pc # "await" /\ r.verdict # "stopped"
      BY <2>1, <2>3 DEF Request
    <3> QED
      BY <3>1, <3>2
  <2>4. PICK r \in Request : /\ req' = [req EXCEPT ![s] = r]
                             /\ r.cur = NoTask /\ r.pc # "await" /\ r.verdict # "stopped"
    BY <2>2, <2>3
  <2> QED
    BY <1>6, <2>2, <2>4, RequestStep, NullAssumption DEF StopItemTasks
<1>7. ASSUME NEW s \in Stopper, NextListed(s) PROVE IInv'
  <2>1. UNCHANGED <<status, uncleaned, tasks, itemTasks>> /\ req[s].pc = "head"
        /\ req[s] \in Request
    BY <1>0, <1>7 DEF NextListed
  <2>2. CASE req[s].idx > Len(IteratedList(s))
    <3>1. \E verdict \in Verdict : Answer(s, verdict) /\ verdict # "stopped"
      BY <1>7, <2>2 DEF NextListed, Verdict, Answer
    <3>2. PICK r \in Request : /\ req' = [req EXCEPT ![s] = r]
                               /\ r.cur = req[s].cur /\ r.pc = "idle" /\ r.verdict # "stopped"
      BY <2>1, <3>1, AnswerForms
    <3>3. r.cur \in Task => status[r.cur] # "unborn"
      BY <3>2 DEF IInv, UnbornIsUnknown
    <3> QED
      BY <2>1, <3>2, <3>3, RequestStep
  <2>3. CASE ~(req[s].idx > Len(IteratedList(s)))
    <3>1. \A k \in DOMAIN IteratedList(s) :
            IteratedList(s)[k] \in Task /\ status[IteratedList(s)[k]] # "unborn"
      BY <1>0 DEF IteratedList, Types, IInv, UnbornIsUnknown
    <3>2. req[s].idx \in DOMAIN IteratedList(s)
      BY <1>0, <2>3 DEF IteratedList, Request, Types
    <3> DEFINE r == [req[s] EXCEPT !.pc = "pop", !.idx = @ + 1, !.cur = IteratedList(s)[req[s].idx]]
    <3>3. r \in Request
      BY <2>1, <3>1, <3>2, RequestNext
    <3>4. r.pc = "pop" /\ r.cur \in Task /\ status[r.cur] # "unborn"
      BY <2>1, <3>1, <3>2 DEF Request
    <3>5. req' = [req EXCEPT ![s] = r]
      BY <1>7, <2>3 DEF NextListed
    <3> HIDE DEF r
    <3> QED
      BY <2>1, <3>3, <3>4, <3>5, RequestStep
  <2> QED
    BY <2>2, <2>3
<1>8. ASSUME NEW s \in Stopper, PopMissing(s) PROVE IInv'
  <2>1. /\ UNCHANGED <<status, uncleaned, tasks, itemTasks>> /\ req[s].pc = "pop"
        /\ req[s] \in Request
        /\ \E verdict \in Verdict : Answer(s, verdict) /\ verdict # "stopped"
    BY <1>0, <1>8 DEF PopMissing, Verdict, Answer
  <2>2. PICK r \in Request : /\ req' = [req EXCEPT ![s] = r]
                             /\ r.cur = req[s].cur /\ r.pc = "idle" /\ r.verdict # "stopped"
    BY <2>1, AnswerForms
  <2>3. r.cur \in Task => status[r.cur] # "unborn"
    BY <2>2 DEF IInv, UnbornIsUnknown
  <2> QED
    BY <2>1, <2>2, <2>3, RequestStep
<1>9. ASSUME NEW s \in Stopper, PopAndCancel(s) PROVE IInv'
  <2>1. /\ UNCHANGED <<uncleaned, itemTasks>> /\ req[s].pc = "pop"
        /\ req[s].cur \in tasks /\ req[s].cur \in Task
        /\ tasks' = tasks \ {req[s].cur}
    BY <1>0, <1>9 DEF PopAndCancel, Popped
  <2>2. CASE status[req[s].cur] = "finished"
    <3>1. Awaited(s, req[s].cur) /\ UNCHANGED status
      BY <1>9, <2>2 DEF PopAndCancel
    <3> QED
      BY <2>1, <2>2, <3>1, AwaitedStep
  <2>3. CASE status[req[s].cur] # "finished"
    <3>1. /\ status' = [status EXCEPT ![req[s].cur] = "cancelling"]
          /\ req' = [req EXCEPT ![s].pc = "await"]
      BY <1>9, <2>3 DEF PopAndCancel, CancelAndAwait
    <3>2. status[req[s].cur] = "running"
      BY <1>0, <2>1, <2>3 DEF IInv, UnbornIsUnknown, CancelledIsPopped, Status
    <3>3. /\ req'[s].pc = "await" /\ req'[s].cur = req[s].cur
          /\ \A x \in Stopper \ {s} : req'[x] = req[x]
      BY <1>0, <3>1 DEF Request
    <3>4. \A x \in Stopper : ~Awaits(x, req[s].cur)
      BY <2>1, <3>2 DEF IInv, AwaitedIsCancelled
    <3>5. \A x \in Stopper, t \in Task :
            Awaits(x, t)' <=> Awaits(x, t) \/ (x = s /\ t = req[s].cur)
      BY <2>1, <3>3 DEF Awaits
    <3>6. UnbornIsUnknown'
      BY <1>0, <2>1, <3>1, <3>2, <3>3 DEF IInv, UnbornIsUnknown
    <3>7. CleanedHasEnded' /\ CancelledIsPopped' /\ RunningIsKnown'
      BY <1>0, <2>1, <3>1, <3>2 DEF IInv, CleanedHasEnded, CancelledIsPopped, RunningIsKnown
    <3>8. AwaitedIsCancelled'
      BY <1>0, <2>1, <3>1, <3>5 DEF IInv, AwaitedIsCancelled
    <3>9. OneAwaits'
      BY <1>0, <2>1, <3>1, <3>4, <3>5 DEF IInv, OneAwaits
    <3>10. StoppedMeansEnded'
      BY <1>0, <2>1, <3>1, <3>2, <3>3 DEF IInv, StoppedMeansEnded
    <3> QED
      BY <3>6, <3>7, <3>8, <3>9, <3>10 DEF IInv
  <2> QED
    BY <2>2, <2>3
<1>10. ASSUME NEW s \in Stopper, Resume(s) PROVE IInv'
  <2>1. /\ UNCHANGED <<status, uncleaned, tasks, itemTasks>>
        /\ req[s].cur \in Task /\ status[req[s].cur] = "finished"
        /\ Awaited(s, req[s].cur)
    BY <1>10 DEF Resume, Types
  <2> QED
    BY <2>1, AwaitedStep
<1>11. CASE UNCHANGED vars
  BY <1>11 DEF vars, IInv, UnbornIsUnknown, CleanedHasEnded, AwaitedIsCancelled,
               CancelledIsPopped, RunningIsKnown, OneAwaits, StoppedMeansEnded, Awaits
<1> QED
  BY <1>1, <1>3, <1>4, <1>5, <1>6, <1>7, <1>8, <1>9, <1>10, <1>11 DEF Next, Stops

LEMMA InvCorrect == Spec => []IInv
<1>1. Init => IInv
  <2>1. Init => Types
    <3>1. IdleReq.pc = "idle" /\ IdleReq.attached = FALSE
      BY DEF IdleReq
    <3>2. Init => TypeOK
      BY IdleIsRequest DEF Init, TypeOK, Status, Outcome
    <3> QED
      BY <3>1, <3>2 DEF Init, Types
  <2>2. Init => \A s \in Stopper : req[s].pc = "idle" /\ req[s].cur = NoTask
                                   /\ req[s].verdict = "none"
    BY DEF Init, IdleReq
  <2> QED
    BY <2>1, <2>2, NullAssumption
       DEF Init, IInv, UnbornIsUnknown, CleanedHasEnded, AwaitedIsCancelled,
           CancelledIsPopped, RunningIsKnown, OneAwaits, StoppedMeansEnded, Awaits
<1> QED
  BY <1>1, InvStep, PTL DEF Spec

(* Every variable keeps its type in every behaviour, the indices and lists *)
(* of the stop requests' iterations included.                              *)
THEOREM TypeCorrect == Spec => []TypeOK
<1>1. IInv => TypeOK
  BY DEF IInv, Types
<1> QED
  BY <1>1, InvCorrect, PTL

(* However many stop requests race, a task that is being cancelled has     *)
(* exactly one of them waiting for it.                                     *)
THEOREM OneWaits == Spec => []OneStopperPerCancel
<1>1. IInv => OneStopperPerCancel
  <2> SUFFICES ASSUME IInv, NEW t \in Task, status[t] = "cancelling"
               PROVE  Cardinality({s \in Stopper : req[s].pc = "await" /\ req[s].cur = t}) = 1
    BY DEF OneStopperPerCancel
  <2>1. PICK s \in Stopper : Awaits(s, t) /\ \A r \in Stopper : Awaits(r, t) => r = s
    BY DEF IInv, OneAwaits
  <2>2. {x \in Stopper : req[x].pc = "await" /\ req[x].cur = t} = {s}
    BY <2>1 DEF Awaits
  <2> QED
    BY <2>2, FS_Singleton
<1> QED
  BY <1>1, InvCorrect, PTL

(* A request answered "stopped" names a task that has ended.               *)
THEOREM StoppedHasEnded == Spec => []StoppedMeansEnded
<1>1. IInv => StoppedMeansEnded
  BY DEF IInv
<1> QED
  BY <1>1, InvCorrect, PTL

-----------------------------------------------------------------------------
(* The lists of the items.                                                 *)

(* A task is in the list of its item from its creation to its clean-up.    *)
Due(t) == Live(t) \/ t \in uncleaned
ListedWhileDue == \A i \in Item : Listed(i) = {t \in Task : item[t] = i /\ Due(t)}

(* A list holds a task once, and the item of a task that is due is kept.   *)
ListedOnce ==
  \A i \in Item : \A j, k \in DOMAIN itemTasks[i] : itemTasks[i][j] = itemTasks[i][k] => j = k
DueHasItem == \A t \in Task : Due(t) => item[t] \in Item

Lists == ListedWhileDue /\ ListedOnce /\ DueHasItem

(* What list.remove leaves: the other elements, once if they were there    *)
(* once.                                                                   *)
LEMMA ItemWithoutElements ==
  ASSUME TypeOK, NEW i \in Item, NEW t,
         \A j, k \in DOMAIN itemTasks[i] : itemTasks[i][j] = itemTasks[i][k] => j = k
  PROVE  LET without == ItemWithout(i, t)
         IN  /\ {without[k] : k \in DOMAIN without} = Listed(i) \ {t}
             /\ \A j, k \in DOMAIN without : without[j] = without[k] => j = k
<1> DEFINE list == itemTasks[i]
<1> DEFINE p == CHOOSE k \in DOMAIN list : list[k] = t
<1> DEFINE without == ItemWithout(i, t)
<1>1. list \in Seq(Task) /\ Len(list) \in Nat /\ DOMAIN list = 1 .. Len(list)
  BY DEF TypeOK
<1>2. CASE \E k \in DOMAIN list : list[k] = t
  <2>1. p \in DOMAIN list /\ list[p] = t
    BY <1>2
  <2>2. without = RemoveAt(list, p)
    BY <1>2 DEF ItemWithout
  <2> HIDE DEF p, list, without
  <2>3. /\ DOMAIN without = 1 .. Len(list) - 1
        /\ \A j \in 1 .. Len(list) - 1 : without[j] = IF j < p THEN list[j] ELSE list[j + 1]
    BY <1>1, <2>1, <2>2, RemoveAtElements
  <2>4. \A j, k \in DOMAIN list : list[j] = list[k] => j = k
    BY DEF list
  <2>5. ASSUME NEW k \in DOMAIN without
        PROVE  without[k] \in {list[l] : l \in DOMAIN list} \ {t}
    <3>1. k \in 1 .. Len(list) - 1 /\ p \in 1 .. Len(list)
      BY <1>1, <2>1, <2>3
    <3>2. CASE k < p
      <4>1. without[k] = list[k] /\ k \in DOMAIN list /\ k # p
        BY <1>1, <2>3, <3>1, <3>2
      <4> QED
        BY <2>1, <2>4, <4>1
    <3>3. CASE ~(k < p)
      <4>1. without[k] = list[k + 1] /\ k + 1 \in DOMAIN list /\ k + 1 # p
        BY <1>1, <2>3, <3>1, <3>3
      <4> QED
        BY <2>1, <2>4, <4>1
    <3> QED
      BY <3>2, <3>3
  <2>6. ASSUME NEW l \in DOMAIN list, list[l] # t
        PROVE  \E k \in DOMAIN without : without[k] = list[l]
    <3>1. l \in 1 .. Len(list) /\ p \in 1 .. Len(list) /\ l # p
      BY <1>1, <2>1, <2>6
    <3>2. CASE l < p
      <4>1. l \in DOMAIN without /\ without[l] = list[l]
        BY <1>1, <2>3, <3>1, <3>2
      <4> QED
        BY <4>1
    <3>3. CASE ~(l < p)
      <4>1. l - 1 \in 1 .. Len(list) - 1 /\ ~(l - 1 < p) /\ (l - 1) + 1 = l
        BY <1>1, <3>1, <3>3
      <4>2. l - 1 \in DOMAIN without /\ without[l - 1] = list[l]
        BY <2>3, <4>1
      <4> QED
        BY <4>2
    <3> QED
      BY <3>2, <3>3
  <2>7. {without[k] : k \in DOMAIN without} = {list[l] : l \in DOMAIN list} \ {t}
    BY <2>5, <2>6
  <2>8. ASSUME NEW j \in DOMAIN without, NEW k \in DOMAIN without, without[j] = without[k]
        PROVE  j = k
    <3>1. /\ j \in 1 .. Len(list) - 1 /\ k \in 1 .. Len(list) - 1
          /\ p \in 1 .. Len(list) /\ Len(list) \in Nat
      BY <1>1, <2>1, <2>3
    <3> DEFINE a == IF j < p THEN j ELSE j + 1
    <3> DEFINE b == IF k < p THEN k ELSE k + 1
    <3>2. a \in DOMAIN list /\ b \in DOMAIN list
      BY <1>1, <3>1
    <3>3. without[j] = list[a] /\ without[k] = list[b]
      BY <2>3, <3>1
    <3>4. a = b
      BY <2>4, <2>8, <3>2, <3>3
    <3> QED
      BY <3>1, <3>4
  <2> QED
    BY <2>7, <2>8 DEF Listed, list, without
<1>3. CASE ~(\E k \in DOMAIN list : list[k] = t)
  <2>1. without = list
    BY <1>3 DEF ItemWithout
  <2> QED
    BY <1>3, <2>1 DEF Listed
<1> QED
  BY <1>2, <1>3

LEMMA ListsStep == IInv /\ Lists /\ [Next]_vars => Lists'
<1> SUFFICES ASSUME IInv, Lists, [Next]_vars PROVE Lists'
  OBVIOUS
<1>0. /\ status \in [Task -> Status] /\ item \in [Task -> Item \union {NoItem}]
      /\ itemTasks \in [Item -> Seq(Task)] /\ uncleaned \subseteq Task
      /\ \A s \in Stopper : req[s] \in Request
      /\ TypeOK
  BY DEF IInv, Types, TypeOK
<1>1. ASSUME NEW t \in Task, NEW i \in Item, CreateTask(t, i) PROVE Lists'
  <2>1. /\ status' = [status EXCEPT ![t] = "running"] /\ status[t] = "unborn"
        /\ item' = [item EXCEPT ![t] = i] /\ UNCHANGED uncleaned
        /\ itemTasks' = [itemTasks EXCEPT ![i] = Append(itemTasks[i], t)]
    BY <1>1 DEF CreateTask
  <2>2. t \notin uncleaned
    BY <2>1 DEF IInv, CleanedHasEnded
  <2>3. \A x \in Task : Due(x)' <=> x = t \/ Due(x)
    BY <1>0, <2>1 DEF Due, Live
  <2>4. ~Due(t)
    BY <2>1, <2>2 DEF Due, Live
  <2>5. t \notin Listed(i)
    BY <2>1 DEF IInv, UnbornIsUnknown, Listed
  <2>6. /\ DOMAIN itemTasks'[i] = 1 .. Len(itemTasks[i]) + 1
        /\ \A k \in 1 .. Len(itemTasks[i]) : itemTasks'[i][k] = itemTasks[i][k]
        /\ itemTasks'[i][Len(itemTasks[i]) + 1] = t
        /\ DOMAIN itemTasks[i] = 1 .. Len(itemTasks[i]) /\ Len(itemTasks[i]) \in Nat
    BY <1>0, <2>1
  <2>7. \A j \in Item \ {i} : itemTasks'[j] = itemTasks[j]
    BY <1>0, <2>1
  <2>8. Listed(i)' = Listed(i) \union {t}
    <3>1. \A k \in 1 .. Len(itemTasks[i]) + 1 : k \in 1 .. Len(itemTasks[i]) \/ k = Len(itemTasks[i]) + 1
      BY <2>6
    <3>2. \A k \in 1 .. Len(itemTasks[i]) : k \in 1 .. Len(itemTasks[i]) + 1
      BY <2>6
    <3>3. Len(itemTasks[i]) + 1 \in 1 .. Len(itemTasks[i]) + 1
      BY <2>6
    <3> QED
      BY <2>6, <3>1, <3>2, <3>3 DEF Listed
  <2>9. ListedWhileDue'
    <3> SUFFICES ASSUME NEW j \in Item
                 PROVE  Listed(j)' = {x \in Task : item'[x] = j /\ Due(x)'}
      BY DEF ListedWhileDue
    <3>1. Listed(j) = {x \in Task : item[x] = j /\ Due(x)}
      BY DEF Lists, ListedWhileDue
    <3>2. \A x \in Task : item'[x] = IF x = t THEN i ELSE item[x]
      BY <1>0, <2>1
    <3>3. CASE j = i
      BY <2>3, <2>8, <3>1, <3>2, <3>3, <2>4
    <3>4. CASE j # i
      <4>1. Listed(j)' = Listed(j)
        BY <2>7, <3>4 DEF Listed
      <4> QED
        BY <2>3, <2>4, <3>1, <3>2, <3>4, <4>1
    <3> QED
      BY <3>3, <3>4
  <2>10. ListedOnce'
    <3> SUFFICES ASSUME NEW l \in Item, NEW j \in DOMAIN itemTasks'[l], NEW k \in DOMAIN itemTasks'[l],
                        itemTasks'[l][j] = itemTasks'[l][k]
                 PROVE  j = k
      BY DEF ListedOnce
    <3>1. CASE l # i
      BY <2>7, <3>1 DEF Lists, ListedOnce
    <3>2. CASE l = i
      <4>1. \A a, b \in DOMAIN itemTasks[i] : itemTasks[i][a] = itemTasks[i][b] => a = b
        BY DEF Lists, ListedOnce
      <4>2. \A a \in DOMAIN itemTasks[i] : itemTasks[i][a] # t
        BY <2>5 DEF Listed
      <4>3. \A a \in DOMAIN itemTasks'[i] :
              \/ a \in DOMAIN itemTasks[i] /\ itemTasks'[i][a] = itemTasks[i][a]
              \/ a = Len(itemTasks[i]) + 1 /\ itemTasks'[i][a] = t
        BY <2>6
      <4> QED
        BY <3>2, <4>1, <4>2, <4>3
    <3> QED
      BY <3>1, <3>2
  <2>11. DueHasItem'
    BY <1>0, <2>1, <2>3 DEF Lists, DueHasItem
  <2> QED
    BY <2>9, <2>10, <2>11 DEF Lists
<1>2. ASSUME NEW t \in Task, CleanupTask(t) PROVE Lists'
  <2>0. PICK i \in Item : i = item[t]
    BY <1>2 DEF CleanupTask, Lists, DueHasItem, Due
  <2>1. /\ t \in uncleaned /\ uncleaned' = uncleaned \ {t} /\ UNCHANGED <<status, item>>
        /\ itemTasks' = [itemTasks EXCEPT ![i] = ItemWithout(i, t)]
    BY <1>2, <2>0 DEF CleanupTask
  <2>2. status[t] = "finished"
    BY <2>1 DEF IInv, CleanedHasEnded
  <2>4. \A x \in Task : Due(x)' <=> Due(x) /\ x # t
    BY <2>1, <2>2 DEF Due, Live
  <2>5. /\ itemTasks'[i] = ItemWithout(i, t)
        /\ \A j \in Item \ {i} : itemTasks'[j] = itemTasks[j]
    BY <1>0, <2>1
  <2>6. \A j, k \in DOMAIN itemTasks[i] : itemTasks[i][j] = itemTasks[i][k] => j = k
    BY DEF Lists, ListedOnce
  <2>7. /\ Listed(i)' = Listed(i) \ {t}
        /\ \A j, k \in DOMAIN itemTasks'[i] : itemTasks'[i][j] = itemTasks'[i][k] => j = k
    <3> DEFINE without == ItemWithout(i, t)
    <3>1. /\ {without[k] : k \in DOMAIN without} = Listed(i) \ {t}
          /\ \A j, k \in DOMAIN without : without[j] = without[k] => j = k
      BY <1>0, <2>6, ItemWithoutElements
    <3>2. itemTasks'[i] = without
      BY <2>5
    <3> HIDE DEF without
    <3>3. Listed(i)' = {without[k] : k \in DOMAIN without}
      BY <3>2 DEF Listed
    <3> QED
      BY <3>1, <3>2, <3>3
  <2>8. ListedWhileDue'
    <3> SUFFICES ASSUME NEW j \in Item
                 PROVE  Listed(j)' = {x \in Task : item[x] = j /\ Due(x)'}
      BY <2>1 DEF ListedWhileDue
    <3>1. Listed(j) = {x \in Task : item[x] = j /\ Due(x)}
      BY DEF Lists, ListedWhileDue
    <3>2. CASE j = i
      <4>1. Listed(j)' = Listed(j) \ {t}
        BY <2>7, <3>2
      <4> QED
        BY <2>4, <3>1, <4>1
    <3>3. CASE j # i
      <4>1. Listed(j)' = Listed(j)
        BY <2>5, <3>3 DEF Listed
      <4>2. item[t] # j
        BY <2>0, <3>3
      <4> QED
        BY <2>4, <3>1, <4>1, <4>2
    <3> QED
      BY <3>2, <3>3
  <2>9. ListedOnce'
    BY <2>5, <2>7 DEF Lists, ListedOnce
  <2>10. DueHasItem'
    BY <2>1, <2>4 DEF Lists, DueHasItem
  <2> QED
    BY <2>8, <2>9, <2>10 DEF Lists
<1>3. ASSUME UNCHANGED <<item, itemTasks>>, \A t \in Task : Due(t)' <=> Due(t)
      PROVE  Lists'
  <2>1. \A i \in Item : Listed(i)' = Listed(i)
    BY <1>3 DEF Listed
  <2>2. ListedWhileDue'
    BY <1>3, <2>1 DEF Lists, ListedWhileDue
  <2>3. ListedOnce' /\ DueHasItem'
    BY <1>3 DEF Lists, ListedOnce, DueHasItem
  <2> QED
    BY <2>2, <2>3 DEF Lists
<1>4. ASSUME NEW t \in Task, Finish(t) \/ Unwind(t) PROVE Lists'
  <2>1. /\ status[t] \in {"running", "cancelling"} /\ status' = [status EXCEPT ![t] = "finished"]
        /\ uncleaned' = uncleaned \union {t} /\ UNCHANGED <<item, itemTasks>>
    BY <1>4 DEF Finish, Unwind, Ends
  <2>2. \A x \in Task : Due(x)' <=> Due(x)
    BY <1>0, <2>1 DEF Due, Live
  <2> QED
    BY <1>3, <2>1, <2>2
<1>5. ASSUME NEW s \in Stopper, PopAndCancel(s) PROVE Lists'
  <2>1. UNCHANGED <<item, itemTasks, uncleaned>> /\ req[s].cur \in tasks /\ req[s].cur \in Task
    BY <1>0, <1>5 DEF PopAndCancel, TypeOK
  <2>2. CASE status[req[s].cur] = "finished"
    <3>1. UNCHANGED status
      BY <1>5, <2>2 DEF PopAndCancel
    <3> QED
      BY <1>3, <2>1, <3>1 DEF Due, Live
  <2>3. CASE status[req[s].cur] # "finished"
    <3>1. status' = [status EXCEPT ![req[s].cur] = "cancelling"]
      BY <1>5, <2>3 DEF PopAndCancel, CancelAndAwait
    <3>2. status[req[s].cur] = "running"
      BY <1>0, <2>1, <2>3 DEF IInv, UnbornIsUnknown, CancelledIsPopped, Status
    <3>3. \A x \in Task : Due(x)' <=> Due(x)
      BY <1>0, <2>1, <3>1, <3>2 DEF Due, Live
    <3> QED
      BY <1>3, <2>1, <3>3
  <2> QED
    BY <2>2, <2>3
<1>6. ASSUME NEW s \in Stopper,
             \/ NextListed(s) \/ PopMissing(s) \/ Resume(s)
             \/ \E t \in Task : StopTask(s, t)
             \/ \E i \in Item : StopItemTasks(s, i)
      PROVE  Lists'
  <2>1. UNCHANGED <<status, item, itemTasks, uncleaned>>
    BY <1>6 DEF NextListed, PopMissing, Resume, StopTask, StopItemTasks
  <2> QED
    BY <1>3, <2>1 DEF Due, Live
<1>7. CASE UNCHANGED vars
  BY <1>3, <1>7 DEF vars, Due, Live
<1> QED
  BY <1>1, <1>2, <1>4, <1>5, <1>6, <1>7 DEF Next, Stops

LEMMA ListsInit == Init => Lists
<1> SUFFICES ASSUME Init PROVE Lists
  OBVIOUS
<1>1. \A i \in Item : itemTasks[i] = <<>> /\ Listed(i) = {}
  BY DEF Init, Listed
<1>2. \A t \in Task : ~Due(t)
  BY DEF Init, Due, Live
<1> QED
  BY <1>1, <1>2 DEF Lists, ListedWhileDue, ListedOnce, DueHasItem

(* item_tasks lists exactly the tasks of an item that live or are yet to   *)
(* be cleaned up, once each, whatever is created, ends and is stopped      *)
(* while a list is iterated over.                                          *)
THEOREM ListsStayExact == Spec => []ItemListsExact
<1>1. IInv /\ Lists => ItemListsExact
  <2> SUFFICES ASSUME IInv, Lists, NEW i \in Item
               PROVE  /\ Listed(i) = {t \in Task : item[t] = i /\ (Live(t) \/ t \in uncleaned)}
                      /\ Len(itemTasks[i]) = Cardinality(Listed(i))
    BY DEF ItemListsExact
  <2>1. itemTasks[i] \in Seq(Task) /\ Len(itemTasks[i]) \in Nat
        /\ DOMAIN itemTasks[i] = 1 .. Len(itemTasks[i])
    BY DEF IInv, Types, TypeOK
  <2> DEFINE f == [k \in 1 .. Len(itemTasks[i]) |-> itemTasks[i][k]]
  <2>2. f \in Bijection(1 .. Len(itemTasks[i]), Listed(i))
    BY <2>1 DEF Listed, Lists, ListedOnce, Bijection, Injection, Surjection, IsInjective
  <2>3. /\ IsFiniteSet(1 .. Len(itemTasks[i]))
        /\ Cardinality(1 .. Len(itemTasks[i])) = Len(itemTasks[i])
    BY <2>1, FS_Interval
  <2>4. Cardinality(Listed(i)) = Len(itemTasks[i])
    <3> HIDE DEF f
    <3>1. ExistsBijection(1 .. Len(itemTasks[i]), Listed(i))
      BY <2>2 DEF ExistsBijection
    <3> QED
      BY <2>3, <3>1, FS_Bijection
  <2> QED
    BY <2>4 DEF Lists, ListedWhileDue, Due
<1>2. Init => Lists
  BY ListsInit
<1>3. IInv /\ Lists /\ [Next]_vars => Lists'
  BY ListsStep
<1> QED
  BY <1>1, <1>2, <1>3, InvCorrect, PTL DEF Spec

-----------------------------------------------------------------------------
(* The refinement.                                                         *)

LEMMA LifecycleStep ==
  IInv /\ [Next]_vars => [Lifecycle!Next]_(Lifecycle!vars)
<1> SUFFICES ASSUME IInv, [Next]_vars PROVE [Lifecycle!Next]_(Lifecycle!vars)
  OBVIOUS
<1> USE DEF Lifecycle!vars
<1>0. /\ status \in [Task -> Status] /\ tasks \subseteq Task
      /\ \A s \in Stopper : req[s] \in Request
  BY DEF IInv, Types, TypeOK
<1>1. ASSUME NEW t \in Task, NEW i \in Item, CreateTask(t, i) PROVE Lifecycle!Start(t)
  BY <1>1 DEF CreateTask, TasksWith, Lifecycle!Start
<1>2. ASSUME NEW t \in Task, Finish(t) \/ Unwind(t) PROVE Lifecycle!End(t)
  BY <1>2 DEF Finish, Unwind, Ends, Lifecycle!End
<1>3. ASSUME NEW t \in Task, CleanupTask(t) PROVE Lifecycle!Forget(t)
  BY <1>3 DEF CleanupTask, IInv, CleanedHasEnded, Lifecycle!Forget
<1>4. ASSUME NEW s \in Stopper, PopAndCancel(s)
      PROVE  \E t \in Task : Lifecycle!Cancel(t) \/ Lifecycle!Forget(t)
  <2>1. req[s].cur \in Task /\ req[s].cur \in tasks /\ tasks' = tasks \ {req[s].cur}
    BY <1>0, <1>4 DEF PopAndCancel, Popped
  <2>2. CASE status[req[s].cur] = "finished"
    <3>1. UNCHANGED status
      BY <1>4, <2>2 DEF PopAndCancel
    <3> QED
      BY <2>1, <2>2, <3>1 DEF Lifecycle!Forget
  <2>3. CASE status[req[s].cur] # "finished"
    <3>1. status' = [status EXCEPT ![req[s].cur] = "cancelling"]
      BY <1>4, <2>3 DEF PopAndCancel, CancelAndAwait
    <3>2. status[req[s].cur] = "running"
      BY <1>0, <2>1, <2>3 DEF IInv, UnbornIsUnknown, CancelledIsPopped, Status
    <3> QED
      BY <2>1, <3>1, <3>2 DEF Lifecycle!Cancel
  <2> QED
    BY <2>2, <2>3
<1>5. ASSUME NEW s \in Stopper,
             \/ NextListed(s) \/ PopMissing(s) \/ Resume(s)
             \/ \E t \in Task : StopTask(s, t)
             \/ \E i \in Item : StopItemTasks(s, i)
      PROVE  UNCHANGED <<status, tasks>>
  BY <1>5 DEF NextListed, PopMissing, Resume, StopTask, StopItemTasks
<1>6. CASE UNCHANGED vars
  BY <1>6 DEF vars
<1> QED
  BY <1>1, <1>2, <1>3, <1>4, <1>5, <1>6 DEF Next, Stops, Lifecycle!Next

(* The registry in memory implements TaskLifecycle, whatever stop requests *)
(* do to the tasks and lists at the same time.                             *)
THEOREM RefinesLifecycle == Spec => ImplementsLifecycle
<1>1. Init => Lifecycle!Init
  BY DEF Init, Lifecycle!Init
<1> QED
  BY <1>1, LifecycleStep, InvCorrect, PTL DEF Spec, ImplementsLifecycle, Lifecycle!Spec
=============================================================================
