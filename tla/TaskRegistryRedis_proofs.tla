---------------------- MODULE TaskRegistryRedis_proofs ----------------------
(***************************************************************************)
(* Proofs about TaskRegistryRedis, for any number of tasks, items and      *)
(* instances, any number of faults and any bound on messages in transit:   *)
(* type correctness, the four safety invariants and the implementation of  *)
(* TaskLifecycle.                                                          *)
(***************************************************************************)
EXTENDS TaskRegistryRedis, TLAPS

(* What create_task has not yet touched is untouched everywhere.           *)
UnbornIsUnknown ==
  \A t \in Task :
    IF status[t] = "unborn"
    THEN home[t] = NoInstance /\ item[t] = NoItem /\ save[t] = "none"
         /\ t \notin rTasks /\ t \notin asked.ids
    ELSE home[t] \in Instance /\ item[t] \in Item

(* Only a task that has ended is being cleaned up.                         *)
CleanedHasEnded == \A t \in Task : clean[t] # "none" => status[t] = "finished"

(* The dictionary of an instance holds tasks of that instance only.        *)
TasksAreAtHome == \A i \in Instance : \A t \in tasks[i] : home[t] = i

(* Every stop command on its way was asked for.                            *)
CommandsAreAsked ==
  /\ \A i \in Instance : \A k \in DOMAIN inbox[i] : Asked(inbox[i][k])
  /\ \A s \in Stopper : \A t \in todo[s] : Asked(t)

(* The inductive invariant.                                                *)
IInv ==
  /\ TypeOK
  /\ UnbornIsUnknown
  /\ CleanedHasEnded
  /\ TasksAreAtHome
  /\ CommandsAreAsked
  /\ LiveIsKnownAtHome
  /\ NoUnaskedCancel
  /\ ItemSetsInHash
  /\ LiveIsListed

-----------------------------------------------------------------------------
(* Every step keeps the types. *)
LEMMA TypeStep == TypeOK /\ [Next]_vars => TypeOK'
<1> SUFFICES ASSUME TypeOK, [Next]_vars PROVE TypeOK'
  OBVIOUS
<1> USE DEF TypeOK, local, shared, stops,
            TasksWith, HashWithout, ItemWithout, TasksWithout, ListItemTasks, Handled, Ending, AfterCancel
<1>1. ASSUME NEW t \in Task, NEW i \in Instance, NEW x \in Item, CreateTask(t, i, x) PROVE TypeOK'
  BY <1>1 DEF CreateTask, Status
<1>2. ASSUME NEW t \in Task, SaveTask(t) PROVE TypeOK'
  BY <1>2 DEF SaveTask
<1>3. ASSUME NEW t \in Task, Finish(t) PROVE TypeOK'
  BY <1>3 DEF Finish, Status
<1>4. ASSUME NEW t \in Task, Unwind(t) PROVE TypeOK'
  BY <1>4 DEF Unwind, Status
<1>5. ASSUME NEW t \in Task, RemoveTask(t) PROVE TypeOK'
  BY <1>5 DEF RemoveTask
<1>6. ASSUME NEW t \in Task, DeleteItemKey(t) PROVE TypeOK'
  BY <1>6 DEF DeleteItemKey
<1>7. ASSUME NEW t \in Task, PopTask(t) PROVE TypeOK'
  BY <1>7 DEF PopTask
<1>8. ASSUME NEW t \in Task, StopTask(t) PROVE TypeOK'
  <2>1. inbox' \in [Instance -> Seq(Task)]
    BY <1>8 DEF StopTask, Publish
  <2>2. asked' \in [ids : SUBSET Task, items : SUBSET Item]
    BY <1>8 DEF StopTask
  <2> QED
    BY <1>8, <2>1, <2>2 DEF StopTask
<1>9. ASSUME NEW t \in Task, SaveFails(t) PROVE TypeOK'
  BY <1>9 DEF SaveFails, Fault
<1>10. ASSUME NEW t \in Task, CleanupFails(t) PROVE TypeOK'
  BY <1>10 DEF CleanupFails, Fault
<1>11. ASSUME NEW i \in Instance, Subscribe(i) PROVE TypeOK'
  BY <1>11 DEF Subscribe
<1>12. ASSUME NEW i \in Instance, HandleCommand(i) PROVE TypeOK'
  <2>1. Head(inbox[i]) \in Task
    BY <1>12 DEF HandleCommand
  <2>2. status' \in [Task -> Status]
    BY <1>12, <2>1 DEF HandleCommand, Status
  <2> QED
    BY <1>12, <2>2 DEF HandleCommand
<1>13. ASSUME NEW i \in Instance, ListenerDies(i) PROVE TypeOK'
  BY <1>13 DEF ListenerDies, Fault
<1>14. ASSUME NEW i \in Instance, Crash(i) PROVE TypeOK'
  BY <1>14 DEF Crash, Fault, Status
<1>15. ASSUME NEW s \in Stopper, NEW i \in Instance, NEW x \in Item, StopItemTasks(s, i, x) PROVE TypeOK'
  BY <1>15 DEF StopItemTasks
<1>16. ASSUME NEW s \in Stopper, SendNext(s) PROVE TypeOK'
  BY <1>16 DEF SendNext, Publish
<1>17. CASE UNCHANGED vars
  BY <1>17 DEF vars
<1> QED
  BY <1>1, <1>2, <1>3, <1>4, <1>5, <1>6, <1>7, <1>8, <1>9, <1>10, <1>11, <1>12, <1>13, <1>14, <1>15, <1>16, <1>17 DEF Next, TaskStep, InstanceStep

(* Every variable keeps its type in every behaviour: no message, reply,    *)
(* fault or crash of backend/open_webui/tasks.py leaves a record malformed.*)
THEOREM TypeCorrect == Spec => []TypeOK
<1>1. Init => TypeOK
  BY DEF Init, TypeOK, Status
<1>2. TypeOK /\ [Next]_vars => TypeOK'
  BY TypeStep
<1> QED
  BY <1>1, <1>2, PTL DEF Spec

-----------------------------------------------------------------------------
(* Every step keeps the inductive invariant. *)
LEMMA InvStep == IInv /\ [Next]_vars => IInv'
<1> SUFFICES ASSUME IInv, [Next]_vars PROVE IInv'
  OBVIOUS
<1> TypeOK /\ TypeOK'
  BY TypeStep DEF IInv
<1> USE DEF IInv, TypeOK, local, shared, stops,
            TasksWith, HashWithout, ItemWithout, TasksWithout, ListItemTasks, Handled, Ending, AfterCancel
<1>1. ASSUME NEW t \in Task, NEW i \in Instance, NEW x \in Item, CreateTask(t, i, x) PROVE IInv'
  <2>1. UnbornIsUnknown'
    BY <1>1 DEF CreateTask, UnbornIsUnknown
  <2>2. CleanedHasEnded'
    BY <1>1 DEF CreateTask, CleanedHasEnded
  <2>3. TasksAreAtHome'
    BY <1>1, NullAssumption DEF CreateTask, TasksAreAtHome, UnbornIsUnknown
  <2>4. CommandsAreAsked'
    <3>1. \A u \in Task : Asked(u) => u # t
      BY <1>1, NullAssumption DEF CreateTask, UnbornIsUnknown, Asked
    <3>2. \A u \in Task : Asked(u) => Asked(u)'
      BY <1>1, <3>1 DEF CreateTask, Asked
    <3>3. \A j \in Instance : \A k \in DOMAIN inbox[j] : inbox[j][k] \in Task
      OBVIOUS
    <3> QED
      BY <1>1, <3>2, <3>3 DEF CreateTask, CommandsAreAsked
  <2>5. LiveIsKnownAtHome'
    BY <1>1 DEF CreateTask, LiveIsKnownAtHome, Live
  <2>6. NoUnaskedCancel'
    BY <1>1 DEF CreateTask, NoUnaskedCancel, Asked
  <2>7. ItemSetsInHash'
    BY <1>1 DEF CreateTask, ItemSetsInHash, UnbornIsUnknown
  <2>8. LiveIsListed'
    BY <1>1 DEF CreateTask, LiveIsListed, Live
  <2> QED
    BY <1>1, <2>1, <2>2, <2>3, <2>4, <2>5, <2>6, <2>7, <2>8
<1>2. ASSUME NEW t \in Task, SaveTask(t) PROVE IInv'
  <2>1. UnbornIsUnknown'
    BY <1>2 DEF SaveTask, UnbornIsUnknown
  <2>2. ItemSetsInHash'
    BY <1>2 DEF SaveTask, ItemSetsInHash
  <2>3. LiveIsListed'
    BY <1>2 DEF SaveTask, LiveIsListed, Live
  <2> QED
    BY <1>2, <2>1, <2>2, <2>3 DEF SaveTask, CleanedHasEnded, TasksAreAtHome, CommandsAreAsked, LiveIsKnownAtHome, NoUnaskedCancel, Asked, Live
<1>3. ASSUME NEW t \in Task, Finish(t) PROVE IInv'
  <2>1. UnbornIsUnknown'
    BY <1>3 DEF Finish, UnbornIsUnknown
  <2>2. CleanedHasEnded'
    BY <1>3 DEF Finish, CleanedHasEnded
  <2>3. LiveIsKnownAtHome'
    BY <1>3 DEF Finish, LiveIsKnownAtHome, Live
  <2>4. NoUnaskedCancel'
    BY <1>3 DEF Finish, NoUnaskedCancel, Asked
  <2>5. LiveIsListed'
    BY <1>3 DEF Finish, LiveIsListed, Live
  <2> QED
    BY <1>3, <2>1, <2>2, <2>3, <2>4, <2>5 DEF Finish, TasksAreAtHome, CommandsAreAsked, ItemSetsInHash, Asked
<1>4. ASSUME NEW t \in Task, Unwind(t) PROVE IInv'
  <2>1. UnbornIsUnknown'
    BY <1>4 DEF Unwind, UnbornIsUnknown
  <2>2. CleanedHasEnded'
    BY <1>4 DEF Unwind, CleanedHasEnded
  <2>3. LiveIsKnownAtHome'
    BY <1>4 DEF Unwind, LiveIsKnownAtHome, Live
  <2>4. NoUnaskedCancel'
    BY <1>4 DEF Unwind, NoUnaskedCancel, Asked
  <2>5. LiveIsListed'
    BY <1>4 DEF Unwind, LiveIsListed, Live
  <2> QED
    BY <1>4, <2>1, <2>2, <2>3, <2>4, <2>5 DEF Unwind, TasksAreAtHome, CommandsAreAsked, ItemSetsInHash, Asked
<1>5. ASSUME NEW t \in Task, RemoveTask(t) PROVE IInv'
  <2>1. UnbornIsUnknown'
    BY <1>5 DEF RemoveTask, UnbornIsUnknown
  <2>2. CleanedHasEnded'
    BY <1>5 DEF RemoveTask, CleanedHasEnded
  <2>3. ItemSetsInHash'
    BY <1>5 DEF RemoveTask, ItemSetsInHash
  <2>4. LiveIsListed'
    BY <1>5 DEF RemoveTask, LiveIsListed, CleanedHasEnded, Live
  <2> QED
    BY <1>5, <2>1, <2>2, <2>3, <2>4 DEF RemoveTask, TasksAreAtHome, CommandsAreAsked, LiveIsKnownAtHome, NoUnaskedCancel, Asked, Live
<1>6. ASSUME NEW t \in Task, DeleteItemKey(t) PROVE IInv'
  <2>1. CleanedHasEnded'
    BY <1>6 DEF DeleteItemKey, CleanedHasEnded
  <2>2. ItemSetsInHash'
    BY <1>6 DEF DeleteItemKey, ItemSetsInHash
  <2> QED
    BY <1>6, <2>1, <2>2 DEF DeleteItemKey, UnbornIsUnknown, TasksAreAtHome, CommandsAreAsked, LiveIsKnownAtHome, NoUnaskedCancel, LiveIsListed, Asked, Live
<1>7. ASSUME NEW t \in Task, PopTask(t) PROVE IInv'
  <2>1. CleanedHasEnded'
    BY <1>7 DEF PopTask, CleanedHasEnded
  <2>2. TasksAreAtHome'
    BY <1>7 DEF PopTask, TasksAreAtHome
  <2>3. LiveIsKnownAtHome'
    BY <1>7 DEF PopTask, LiveIsKnownAtHome, CleanedHasEnded, Live
  <2> QED
    BY <1>7, <2>1, <2>2, <2>3 DEF PopTask, UnbornIsUnknown, CommandsAreAsked, NoUnaskedCancel, ItemSetsInHash, LiveIsListed, Asked, Live
<1>8. ASSUME NEW t \in Task, StopTask(t) PROVE IInv'
  <2>1. UnbornIsUnknown'
    BY <1>8 DEF StopTask, Publish, UnbornIsUnknown
  <2>2. CommandsAreAsked'
    BY <1>8 DEF StopTask, Publish, CommandsAreAsked, Asked
  <2>3. NoUnaskedCancel'
    BY <1>8 DEF StopTask, Publish, NoUnaskedCancel, Asked
  <2> QED
    BY <1>8, <2>1, <2>2, <2>3 DEF StopTask, CleanedHasEnded, TasksAreAtHome, LiveIsKnownAtHome, ItemSetsInHash, LiveIsListed, Live
<1>9. ASSUME NEW t \in Task, SaveFails(t) PROVE IInv'
  <2>1. UnbornIsUnknown'
    BY <1>9 DEF SaveFails, UnbornIsUnknown
  <2>2. LiveIsListed'
    BY <1>9 DEF SaveFails, LiveIsListed, Live
  <2> QED
    BY <1>9, <2>1, <2>2 DEF SaveFails, CleanedHasEnded, TasksAreAtHome, CommandsAreAsked, LiveIsKnownAtHome, NoUnaskedCancel, ItemSetsInHash, Asked, Live
<1>10. ASSUME NEW t \in Task, CleanupFails(t) PROVE IInv'
  <2>1. CleanedHasEnded'
    BY <1>10 DEF CleanupFails, CleanedHasEnded
  <2> QED
    BY <1>10, <2>1 DEF CleanupFails, UnbornIsUnknown, TasksAreAtHome, CommandsAreAsked, LiveIsKnownAtHome, NoUnaskedCancel, ItemSetsInHash, LiveIsListed, Asked, Live
<1>11. ASSUME NEW i \in Instance, Subscribe(i) PROVE IInv'
  BY <1>11 DEF Subscribe, UnbornIsUnknown, CleanedHasEnded, TasksAreAtHome, CommandsAreAsked, LiveIsKnownAtHome, NoUnaskedCancel, ItemSetsInHash, LiveIsListed, Live, Asked
<1>12. ASSUME NEW i \in Instance, HandleCommand(i) PROVE IInv'
  <2>1. PICK t \in Task : t = Head(inbox[i])
    BY <1>12 DEF HandleCommand
  <2>2. PICK to : to \in (IF t \in tasks[i] THEN AfterCancel(status[t]) ELSE {status[t]})
                  /\ status' = [status EXCEPT ![t] = to]
    BY <1>12, <2>1 DEF HandleCommand
  <2>3. \/ to = status[t]
        \/ status[t] = "running" /\ to = "cancelling"
        \/ status[t] = "cancelling" /\ to = "interrupted"
    BY <2>2
  <2>4. \A u \in Task : /\ (status[u] = "unborn" <=> status'[u] = "unborn")
                        /\ (status[u] = "finished" <=> status'[u] = "finished")
                        /\ (Live(u)' <=> Live(u))
    BY <2>2, <2>3 DEF Live
  <2>5. Asked(t)
    BY <1>12, <2>1 DEF HandleCommand, CommandsAreAsked
  <2>6. UnbornIsUnknown'
    BY <1>12, <2>4 DEF HandleCommand, UnbornIsUnknown
  <2>7. CleanedHasEnded'
    BY <1>12, <2>4 DEF HandleCommand, CleanedHasEnded
  <2>8. CommandsAreAsked'
    BY <1>12 DEF HandleCommand, CommandsAreAsked, Asked
  <2>9. LiveIsKnownAtHome'
    BY <1>12, <2>4 DEF HandleCommand, LiveIsKnownAtHome
  <2>10. NoUnaskedCancel'
    BY <1>12, <2>2, <2>5 DEF HandleCommand, NoUnaskedCancel, Asked
  <2>11. LiveIsListed'
    BY <1>12, <2>4 DEF HandleCommand, LiveIsListed
  <2> QED
    BY <1>12, <2>6, <2>7, <2>8, <2>9, <2>10, <2>11 DEF HandleCommand, TasksAreAtHome, ItemSetsInHash
<1>13. ASSUME NEW i \in Instance, ListenerDies(i) PROVE IInv'
  <2>1. CommandsAreAsked'
    BY <1>13 DEF ListenerDies, CommandsAreAsked, Asked
  <2> QED
    BY <1>13, <2>1 DEF ListenerDies, UnbornIsUnknown, CleanedHasEnded, TasksAreAtHome, LiveIsKnownAtHome, NoUnaskedCancel, ItemSetsInHash, LiveIsListed, Live, Asked
<1>14. ASSUME NEW i \in Instance, Crash(i) PROVE IInv'
  <2>1. UnbornIsUnknown'
    BY <1>14, NullAssumption DEF Crash, UnbornIsUnknown
  <2>2. CleanedHasEnded'
    BY <1>14 DEF Crash, CleanedHasEnded
  <2>3. TasksAreAtHome'
    BY <1>14 DEF Crash, TasksAreAtHome
  <2>4. CommandsAreAsked'
    BY <1>14 DEF Crash, CommandsAreAsked, Asked
  <2>5. LiveIsKnownAtHome'
    BY <1>14 DEF Crash, LiveIsKnownAtHome, Live
  <2>6. NoUnaskedCancel'
    BY <1>14 DEF Crash, NoUnaskedCancel, Asked
  <2>7. LiveIsListed'
    BY <1>14 DEF Crash, LiveIsListed, Live
  <2> QED
    BY <1>14, <2>1, <2>2, <2>3, <2>4, <2>5, <2>6, <2>7 DEF Crash, ItemSetsInHash
<1>15. ASSUME NEW s \in Stopper, NEW i \in Instance, NEW x \in Item, StopItemTasks(s, i, x) PROVE IInv'
  <2>1. UnbornIsUnknown'
    BY <1>15 DEF StopItemTasks, UnbornIsUnknown
  <2>2. CommandsAreAsked'
    BY <1>15 DEF StopItemTasks, CommandsAreAsked, ItemSetsInHash, Asked
  <2>3. NoUnaskedCancel'
    BY <1>15 DEF StopItemTasks, NoUnaskedCancel, Asked
  <2> QED
    BY <1>15, <2>1, <2>2, <2>3 DEF StopItemTasks, CleanedHasEnded, TasksAreAtHome, LiveIsKnownAtHome, ItemSetsInHash, LiveIsListed, Live
<1>16. ASSUME NEW s \in Stopper, SendNext(s) PROVE IInv'
  <2>1. CommandsAreAsked'
    BY <1>16 DEF SendNext, Publish, CommandsAreAsked, Asked
  <2> QED
    BY <1>16, <2>1 DEF SendNext, UnbornIsUnknown, CleanedHasEnded, TasksAreAtHome, LiveIsKnownAtHome, NoUnaskedCancel, ItemSetsInHash, LiveIsListed, Live, Asked
<1>17. CASE UNCHANGED vars
  BY <1>17 DEF vars, UnbornIsUnknown, CleanedHasEnded, TasksAreAtHome, CommandsAreAsked, LiveIsKnownAtHome, NoUnaskedCancel, ItemSetsInHash, LiveIsListed, Live, Asked
<1> QED
  BY <1>1, <1>2, <1>3, <1>4, <1>5, <1>6, <1>7, <1>8, <1>9, <1>10, <1>11, <1>12, <1>13, <1>14, <1>15, <1>16, <1>17 DEF Next, TaskStep, InstanceStep

(* The inductive invariant holds in every behaviour. *)
LEMMA InvCorrect == Spec => []IInv
<1>1. Init => IInv
  BY DEF Init, IInv, TypeOK, Status, UnbornIsUnknown, CleanedHasEnded, TasksAreAtHome,
         CommandsAreAsked, LiveIsKnownAtHome, NoUnaskedCancel, ItemSetsInHash,
         LiveIsListed, Live, Ending
<1>2. IInv /\ [Next]_vars => IInv'
  BY InvStep
<1> QED
  BY <1>1, <1>2, PTL DEF Spec

-----------------------------------------------------------------------------
(* The instance that runs a task keeps it in `tasks` until it has ended.   *)
THEOREM KnownAtHome == Spec => []LiveIsKnownAtHome
<1>1. IInv => LiveIsKnownAtHome
  BY DEF IInv
<1> QED
  BY <1>1, InvCorrect, PTL

(* stop_task and stop_item_tasks cancel only what they were asked to stop. *)
THEOREM AskedOnly == Spec => []NoUnaskedCancel
<1>1. IInv => NoUnaskedCancel
  BY DEF IInv
<1> QED
  BY <1>1, InvCorrect, PTL

(* The sets of the items never disagree with the hash of all tasks.        *)
THEOREM SetsInHash == Spec => []ItemSetsInHash
<1>1. IInv => ItemSetsInHash
  BY DEF IInv
<1> QED
  BY <1>1, InvCorrect, PTL

(* A saved task is in the hash that list_tasks reads until it has ended.   *)
THEOREM SavedIsListed == Spec => []LiveIsListed
<1>1. IInv => LiveIsListed
  BY DEF IInv
<1> QED
  BY <1>1, InvCorrect, PTL

-----------------------------------------------------------------------------
(* Every step is a step of TaskLifecycle or leaves what it speaks of alone.*)
LEMMA LifecycleStep == IInv /\ IInv' /\ [Next]_vars => [Lifecycle!Next]_(Lifecycle!vars)
<1> SUFFICES ASSUME IInv, IInv', [Next]_vars
             PROVE  [Lifecycle!Next]_(Lifecycle!vars)
  OBVIOUS
<1> DEFINE stoppable == UNION {tasks[i] : i \in Instance}
<1> USE DEF IInv, TypeOK, local, shared, stops,
            TasksWith, HashWithout, ItemWithout, TasksWithout, ListItemTasks, Handled, Ending, AfterCancel
<1>1. ASSUME NEW t \in Task, NEW i \in Instance, NEW x \in Item, CreateTask(t, i, x)
      PROVE  Lifecycle!Start(t)
  <2>1. stoppable' = stoppable \union {t}
    BY <1>1 DEF CreateTask
  <2>2. Promised[t] = "unborn" /\ Promised' = [Promised EXCEPT ![t] = "running"]
    BY <1>1 DEF CreateTask, Promised
  <2> QED
    BY <1>1, <2>1, <2>2 DEF CreateTask, Lifecycle!Start
<1>2. ASSUME NEW t \in Task, Finish(t) \/ Unwind(t)
      PROVE  Lifecycle!End(t)
  <2>1. /\ Promised[t] \in {"running", "cancelling"}
        /\ Promised' = [Promised EXCEPT ![t] = "finished"]
    <3>1. status' = [status EXCEPT ![t] = "finished"] /\ (status[t] = "running" \/ Ending(t))
      BY <1>2 DEF Finish, Unwind
    <3>2. Promised[t] \in {"running", "cancelling"}
      BY <3>1 DEF Promised
    <3>3. \A u \in Task : Promised'[u] = IF u = t THEN "finished" ELSE Promised[u]
      BY <3>1 DEF Promised
    <3>4. Promised = [u \in Task |-> Promised[u]] /\ Promised' = [u \in Task |-> Promised'[u]]
      BY DEF Promised
    <3>5. [u \in Task |-> Promised'[u]] = [[u \in Task |-> Promised[u]] EXCEPT ![t] = "finished"]
      BY <3>3
    <3> QED
      BY <3>2, <3>4, <3>5
  <2> QED
    BY <1>2, <2>1 DEF Finish, Unwind, Lifecycle!End
<1>3. ASSUME NEW t \in Task, PopTask(t)
      PROVE  Lifecycle!Forget(t)
  <2>1. status[t] = "finished" /\ home[t] \in Instance
    BY <1>3 DEF PopTask, CleanedHasEnded, UnbornIsUnknown
  <2>2. \A i \in Instance : tasks'[i] = tasks[i] \ {t}
    BY <1>3, <2>1 DEF PopTask, TasksAreAtHome
  <2>3. stoppable' = stoppable \ {t}
    BY <2>2
  <2>4. Promised' = Promised /\ Promised[t] = "finished"
    BY <1>3, <2>1 DEF PopTask, Promised
  <2> QED
    BY <1>3, <2>3, <2>4 DEF PopTask, Lifecycle!Forget
<1>4. ASSUME NEW i \in Instance, HandleCommand(i)
      PROVE  [Lifecycle!Next]_(Lifecycle!vars)
  <2>1. PICK t \in Task : t = Head(inbox[i])
    BY <1>4 DEF HandleCommand
  <2>2. CASE t \in tasks[i] /\ status[t] = "running"
    <3>1. t \in stoppable
      BY <2>2
    <3>2. status' = [status EXCEPT ![t] = "cancelling"]
      BY <1>4, <2>1, <2>2 DEF HandleCommand
    <3>3. Promised' = [Promised EXCEPT ![t] = "cancelling"] /\ Promised[t] = "running"
      BY <2>2, <3>2 DEF Promised
    <3>4. Lifecycle!Cancel(t)
      BY <1>4, <3>1, <3>3 DEF HandleCommand, Lifecycle!Cancel
    <3> QED
      BY <3>4 DEF Lifecycle!Next
  <2>3. CASE ~(t \in tasks[i] /\ status[t] = "running")
    <3>1. Promised' = Promised
      <4>1. PICK to : to \in (IF t \in tasks[i] THEN AfterCancel(status[t]) ELSE {status[t]})
                      /\ status' = [status EXCEPT ![t] = to]
        BY <1>4, <2>1 DEF HandleCommand
      <4>2. to = status[t] \/ (to = "interrupted" /\ status[t] = "cancelling")
        BY <2>3, <4>1
      <4> QED
        BY <4>1, <4>2 DEF Promised
    <3> QED
      BY <1>4, <3>1 DEF HandleCommand, Lifecycle!vars
  <2> QED
    BY <2>2, <2>3
<1>5. ASSUME NEW i \in Instance, Crash(i)
      PROVE  Lifecycle!Next
  <2>1. PICK lost \in SUBSET Task : lost = {t \in Task : home[t] = i}
    OBVIOUS
  <2>2. \A t \in lost : status[t] # "unborn"
    BY <2>1, NullAssumption DEF UnbornIsUnknown
  <2>3. \A j \in Instance : tasks'[j] = tasks[j] \ lost
    BY <1>5, <2>1 DEF Crash, TasksAreAtHome
  <2>4. stoppable' = stoppable \ lost
    BY <2>3
  <2>5. /\ \A t \in lost : Promised[t] # "unborn"
        /\ Promised' = [t \in Task |-> IF t \in lost THEN "finished" ELSE Promised[t]]
    BY <1>5, <2>1, <2>2 DEF Crash, Promised
  <2>6. Lifecycle!Lose(lost)
    BY <1>5, <2>1, <2>4, <2>5 DEF Crash, Lifecycle!Lose
  <2> QED
    BY <2>6 DEF Lifecycle!Next
<1>6. ASSUME UNCHANGED <<status, tasks>>
      PROVE  UNCHANGED Lifecycle!vars
  BY <1>6 DEF Lifecycle!vars, Promised
<1>7. CASE UNCHANGED vars
  BY <1>6, <1>7 DEF vars
<1>8. ASSUME NEW t \in Task, TaskStep(t)
      PROVE  [Lifecycle!Next]_(Lifecycle!vars)
  <2>1. CASE Finish(t) \/ Unwind(t) \/ PopTask(t)
    BY <1>2, <1>3, <2>1 DEF Lifecycle!Next
  <2>2. CASE SaveTask(t) \/ RemoveTask(t) \/ DeleteItemKey(t) \/ StopTask(t)
             \/ SaveFails(t) \/ CleanupFails(t)
    BY <1>6, <2>2 DEF SaveTask, RemoveTask, DeleteItemKey, StopTask, SaveFails, CleanupFails
  <2> QED
    BY <1>8, <2>1, <2>2 DEF TaskStep
<1>9. ASSUME NEW i \in Instance, InstanceStep(i)
      PROVE  [Lifecycle!Next]_(Lifecycle!vars)
  BY <1>4, <1>5, <1>6, <1>9 DEF InstanceStep, Subscribe, ListenerDies
<1>10. ASSUME NEW s \in Stopper,
              SendNext(s) \/ \E i \in Instance, x \in Item : StopItemTasks(s, i, x)
       PROVE  UNCHANGED Lifecycle!vars
  BY <1>6, <1>10 DEF SendNext, StopItemTasks
<1>11. CASE \E t \in Task, i \in Instance, x \in Item : CreateTask(t, i, x)
  BY <1>1, <1>11 DEF Lifecycle!Next
<1> QED
  BY <1>7, <1>8, <1>9, <1>10, <1>11 DEF Next

(* Across instances, faults and crashes, tasks.py implements TaskLifecycle.*)
THEOREM RefinesLifecycle == Spec => ImplementsLifecycle
<1>1. Init => Lifecycle!Init
  BY DEF Init, Lifecycle!Init, Promised, Ending
<1>2. IInv /\ IInv' /\ [Next]_vars => [Lifecycle!Next]_(Lifecycle!vars)
  BY LifecycleStep
<1> QED
  BY <1>1, <1>2, InvCorrect, PTL DEF Spec, ImplementsLifecycle, Lifecycle!Spec
=============================================================================
