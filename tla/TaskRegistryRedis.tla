------------------------- MODULE TaskRegistryRedis -------------------------
(***************************************************************************)
(* backend/open_webui/tasks.py with Redis: several instances of the        *)
(* application each keep the dictionary `tasks` of the tasks they run,     *)
(* share a hash of all task ids and one set of task ids per item, and      *)
(* send each other stop commands over a publish/subscribe channel.         *)
(*                                                                         *)
(* Atomicity. A pipeline is a MULTI/EXEC transaction: one step. Whatever   *)
(* comes after its await is a later step, and steps of all tasks, requests *)
(* and listeners interleave between the two.                               *)
(*                                                                         *)
(* Faults, at most MaxFaults of them: a save or a clean-up whose           *)
(* connection to Redis fails, a listener whose connection breaks, and the  *)
(* crash of an instance, which starts again empty. Commands published      *)
(* while an instance is not subscribed never reach it.                     *)
(*                                                                         *)
(* The listener does not pop the task it cancels, so that every further    *)
(* command cancels it again. Before the first cancellation is delivered    *)
(* that changes nothing; in the clean-up code of the task, which awaits    *)
(* too, it interrupts that code: the task is "interrupted" (ChatStream has *)
(* what an answer loses by it). The coroutine decides which of the two it  *)
(* is, and the registry cannot tell.                                       *)
(*                                                                         *)
(* `item_tasks` is left out: with Redis it is written and never read       *)
(* (TaskRegistry models it).                                               *)
(***************************************************************************)
EXTENDS Naturals, Sequences, FiniteSets

CONSTANTS
  Task,       \* task ids (uuid4), each used at most once
  Item,       \* chat ids and document ids
  Instance,   \* processes serving the application
  Stopper,    \* concurrent calls of stop_item_tasks
  NoItem,     \* null item
  NoInstance, \* null instance
  MaxInbox,   \* bound: stop commands on their way to one instance
  MaxFaults   \* bound: faults in a behaviour

ASSUME NullAssumption == NoItem \notin Item /\ NoInstance \notin Instance
ASSUME BoundAssumption == MaxInbox \in Nat \ {0} /\ MaxFaults \in Nat

VARIABLES
  status,    \* [Task -> where the asyncio.Task is in its life]
  home,      \* [Task -> the instance that runs it]
  item,      \* [Task -> the id given to create_task]
  save,      \* [Task -> progress of create_task's redis_save_task]
  clean,     \* [Task -> progress of the done callback's cleanup_task]
  tasks,     \* [Instance -> the keys of its dictionary `tasks`]
  rTasks,    \* keys of the hash REDIS_TASKS_KEY
  rItem,     \* [Item -> the set REDIS_ITEM_TASKS_KEY:item]; an absent key is {}
  listener,  \* [Instance -> state of redis_task_command_listener]
  inbox,     \* [Instance -> stop commands sent to it and not yet handled]
  todo,      \* [Stopper -> ids a stop_item_tasks call has yet to send]
  server,    \* [Stopper -> the instance that executes the call]
  asked,     \* history: ids given to stop_task and items to stop_item_tasks
  faults     \* number of faults so far

vars == <<status, home, item, save, clean, tasks, rTasks, rItem,
          listener, inbox, todo, server, asked, faults>>

local  == <<status, home, item, save, clean, tasks>>
shared == <<rTasks, rItem>>
stops  == <<listener, inbox, todo, server, asked>>

Status == {"unborn", "running", "cancelling", "interrupted", "finished"}

(* A cancellation has been requested and the task has not ended. *)
Ending(t) == status[t] \in {"cancelling", "interrupted"}

TypeOK ==
  /\ status \in [Task -> Status]
  /\ home \in [Task -> Instance \union {NoInstance}]
  /\ item \in [Task -> Item \union {NoItem}]
  /\ save \in [Task -> {"none", "saving", "saved", "failed"}]
  /\ clean \in [Task -> {"none", "due", "deleting", "popping", "done", "failed"}]
  /\ tasks \in [Instance -> SUBSET Task]
  /\ rTasks \subseteq Task
  /\ rItem \in [Item -> SUBSET Task]
  /\ listener \in [Instance -> {"starting", "up", "dead"}]
  /\ inbox \in [Instance -> Seq(Task)]
  /\ todo \in [Stopper -> SUBSET Task]
  /\ server \in [Stopper -> Instance \union {NoInstance}]
  /\ asked \in [ids : SUBSET Task, items : SUBSET Item]
  /\ faults \in Nat

Init ==
  /\ status = [t \in Task |-> "unborn"]
  /\ home = [t \in Task |-> NoInstance]
  /\ item = [t \in Task |-> NoItem]
  /\ save = [t \in Task |-> "none"]
  /\ clean = [t \in Task |-> "none"]
  /\ tasks = [i \in Instance |-> {}]
  /\ rTasks = {}
  /\ rItem = [x \in Item |-> {}]
  /\ listener = [i \in Instance |-> "starting"]
  /\ inbox = [i \in Instance |-> <<>>]
  /\ todo = [s \in Stopper |-> {}]
  /\ server = [s \in Stopper |-> NoInstance]
  /\ asked = [ids |-> {}, items |-> {}]
  /\ faults = 0

-----------------------------------------------------------------------------
(* Starting and ending a task. *)

(* Mutant: the coroutine is scheduled and not remembered. *)
TasksWith_None(t, i) == tasks
TasksWith(t, i) == [tasks EXCEPT ![i] = @ \union {t}]

(* create_task up to the await of redis_save_task *)
CreateTask(t, i, x) ==
  /\ status[t] = "unborn"
  /\ status' = [status EXCEPT ![t] = "running"]
  /\ home' = [home EXCEPT ![t] = i]
  /\ item' = [item EXCEPT ![t] = x]
  /\ save' = [save EXCEPT ![t] = "saving"]
  /\ tasks' = TasksWith(t, i)
  /\ UNCHANGED <<clean, shared, stops, faults>>

(* Redis executes HSET and SADD: the task may have ended in the meantime. *)
SaveTask(t) ==
  /\ save[t] = "saving"
  /\ save' = [save EXCEPT ![t] = "saved"]
  /\ rTasks' = rTasks \union {t}
  /\ rItem' = [rItem EXCEPT ![item[t]] = @ \union {t}]
  /\ UNCHANGED <<status, home, item, clean, tasks, stops, faults>>

(* The coroutine ends by itself, by returning or by raising. *)
Finish(t) ==
  /\ status[t] = "running"
  /\ status' = [status EXCEPT ![t] = "finished"]
  /\ clean' = [clean EXCEPT ![t] = "due"]
  /\ UNCHANGED <<home, item, save, tasks, shared, stops, faults>>

(* A cancellation is delivered, any time after it was requested. *)
Unwind(t) ==
  /\ Ending(t)
  /\ status' = [status EXCEPT ![t] = "finished"]
  /\ clean' = [clean EXCEPT ![t] = "due"]
  /\ UNCHANGED <<home, item, save, tasks, shared, stops, faults>>

-----------------------------------------------------------------------------
(* cleanup_task *)

(* Mutant: DEL of the hash. *)
HashWithout_Nothing(t) == {}
HashWithout(t) == rTasks \ {t}

(* Mutant: SREM names another set. *)
ItemWithout_All(t) == rItem
ItemWithout(t) == [rItem EXCEPT ![item[t]] = @ \ {t}]

(* HDEL, SREM and SCARD, in one transaction: what is left decides whether  *)
(* the key of the item is to be deleted next.                              *)
RemoveTask(t) ==
  /\ clean[t] = "due"
  /\ rTasks' = HashWithout(t)
  /\ rItem' = ItemWithout(t)
  /\ clean' = [clean EXCEPT ![t] =
                 IF rItem'[item[t]] = {} THEN "deleting" ELSE "popping"]
  /\ UNCHANGED <<status, home, item, save, tasks, stops, faults>>

(* DEL of the item's key, whatever has been added to it since SCARD. *)
DeleteItemKey(t) ==
  /\ clean[t] = "deleting"
  /\ rItem' = [rItem EXCEPT ![item[t]] = {}]
  /\ clean' = [clean EXCEPT ![t] = "popping"]
  /\ UNCHANGED <<status, home, item, save, tasks, rTasks, stops, faults>>

(* Mutant: pop of every task of the instance. *)
TasksWithout_All(t) == [tasks EXCEPT ![home[t]] = {}]
TasksWithout(t) == [tasks EXCEPT ![home[t]] = @ \ {t}]

(* tasks.pop(task_id, None), after the last reply from Redis *)
PopTask(t) ==
  /\ clean[t] = "popping"
  /\ tasks' = TasksWithout(t)
  /\ clean' = [clean EXCEPT ![t] = "done"]
  /\ UNCHANGED <<status, home, item, save, shared, stops, faults>>

-----------------------------------------------------------------------------
(* Stop commands. *)

(* redis_send_command: a message for each instance that is subscribed *)
Publish(t) ==
  /\ \A i \in Instance : Len(inbox[i]) < MaxInbox
  /\ inbox' = [i \in Instance |->
                 IF listener[i] = "up" THEN Append(inbox[i], t) ELSE inbox[i]]

(* stop_task(redis, t), with an id that create_task has given out *)
StopTask(t) ==
  /\ status[t] # "unborn"
  /\ asked' = [asked EXCEPT !.ids = @ \union {t}]
  /\ Publish(t)
  /\ UNCHANGED <<local, shared, listener, todo, server, faults>>

(* Mutant: HKEYS instead of SMEMBERS. *)
ListItemTasks_All(x) == rTasks
ListItemTasks(x) == rItem[x]

(* stop_item_tasks(redis, x) at instance i: SMEMBERS, then one command for *)
(* each id in it.                                                          *)
StopItemTasks(s, i, x) ==
  /\ todo[s] = {}
  /\ asked' = [asked EXCEPT !.items = @ \union {x}]
  /\ todo' = [todo EXCEPT ![s] = ListItemTasks(x)]
  /\ server' = [server EXCEPT ![s] = i]
  /\ UNCHANGED <<local, shared, listener, inbox, faults>>

SendNext(s) ==
  /\ \E t \in todo[s] :
       /\ Publish(t)
       /\ todo' = [todo EXCEPT ![s] = @ \ {t}]
  /\ UNCHANGED <<local, shared, listener, server, asked, faults>>

(* The listener of instance i subscribes at last. *)
Subscribe(i) ==
  /\ listener[i] = "starting"
  /\ listener' = [listener EXCEPT ![i] = "up"]
  /\ UNCHANGED <<local, shared, inbox, todo, server, asked, faults>>

(* Mutant: a command for a task that is not here is left for later. *)
Handled_IfHere(i) == IF Head(inbox[i]) \in tasks[i] THEN Tail(inbox[i]) ELSE inbox[i]
Handled(i) == Tail(inbox[i])

(* What cancel() makes of a task: one that is being cancelled may be in its *)
(* clean-up code by now; one that has ended stays so.                      *)
AfterCancel(state) ==
  CASE state = "running"    -> {"cancelling"}
    [] state = "cancelling" -> {"cancelling", "interrupted"}
    [] OTHER                -> {state}

(* One message: a task that is not in `tasks` is some other instance's or  *)
(* has been cleaned up.                                                    *)
HandleCommand(i) ==
  /\ listener[i] = "up"
  /\ inbox[i] # <<>>
  /\ LET t == Head(inbox[i]) IN
       \E to \in (IF t \in tasks[i] THEN AfterCancel(status[t]) ELSE {status[t]}) :
         status' = [status EXCEPT ![t] = to]
  /\ inbox' = [inbox EXCEPT ![i] = Handled(i)]
  /\ UNCHANGED <<home, item, save, clean, tasks, shared, listener, todo, server,
                 asked, faults>>

-----------------------------------------------------------------------------
(* Faults. *)

Fault == faults < MaxFaults /\ faults' = faults + 1

(* create_task raises to its caller; the task it started goes on. *)
SaveFails(t) ==
  /\ Fault
  /\ save[t] = "saving"
  /\ save' = [save EXCEPT ![t] = "failed"]
  /\ UNCHANGED <<status, home, item, clean, tasks, shared, stops>>

(* A command or its reply is lost: cleanup_task raises and does no more. *)
CleanupFails(t) ==
  /\ Fault
  /\ clean[t] \in {"due", "deleting", "popping"}
  /\ clean' = [clean EXCEPT ![t] = "failed"]
  /\ UNCHANGED <<status, home, item, save, tasks, shared, stops>>

(* An exception of pubsub.listen() ends the listener for good. *)
ListenerDies(i) ==
  /\ Fault
  /\ listener[i] = "up"
  /\ listener' = [listener EXCEPT ![i] = "dead"]
  /\ inbox' = [inbox EXCEPT ![i] = <<>>]
  /\ UNCHANGED <<local, shared, todo, server, asked>>

(* Instance i dies with its tasks, their saves and clean-ups and the stop  *)
(* requests it was serving, and starts again. Nothing tidies up in Redis.  *)
Crash(i) ==
  LET lost == {t \in Task : home[t] = i}
      servedBy == {s \in Stopper : server[s] = i} IN
  /\ Fault
  /\ status' = [t \in Task |-> IF t \in lost THEN "finished" ELSE status[t]]
  /\ save' = [t \in Task |-> IF t \in lost /\ save[t] = "saving" THEN "failed" ELSE save[t]]
  /\ clean' = [t \in Task |-> IF t \in lost /\ clean[t] # "done" THEN "failed" ELSE clean[t]]
  /\ tasks' = [tasks EXCEPT ![i] = {}]
  /\ listener' = [listener EXCEPT ![i] = "starting"]
  /\ inbox' = [inbox EXCEPT ![i] = <<>>]
  /\ todo' = [s \in Stopper |-> IF s \in servedBy THEN {} ELSE todo[s]]
  /\ UNCHANGED <<home, item, shared, server, asked>>

-----------------------------------------------------------------------------
TaskStep(t) ==
  \/ SaveTask(t) \/ Finish(t) \/ Unwind(t)
  \/ RemoveTask(t) \/ DeleteItemKey(t) \/ PopTask(t)
  \/ StopTask(t) \/ SaveFails(t) \/ CleanupFails(t)

InstanceStep(i) == Subscribe(i) \/ HandleCommand(i) \/ ListenerDies(i) \/ Crash(i)

Next ==
  \/ \E t \in Task, i \in Instance, x \in Item : CreateTask(t, i, x)
  \/ \E t \in Task : TaskStep(t)
  \/ \E i \in Instance : InstanceStep(i)
  \/ \E s \in Stopper, i \in Instance, x \in Item : StopItemTasks(s, i, x)
  \/ \E s \in Stopper : SendNext(s)

(* Redis answers, every instance runs what is ready, and a cancelled       *)
(* coroutine ends. SendNext is disabled only by the bound on inboxes, again  *)
(* and again while they fill and drain: its fairness is strong.            *)
Fairness ==
  /\ \A t \in Task :
       /\ WF_vars(SaveTask(t)) /\ WF_vars(Unwind(t))
       /\ WF_vars(RemoveTask(t)) /\ WF_vars(DeleteItemKey(t)) /\ WF_vars(PopTask(t))
  /\ \A i \in Instance : WF_vars(Subscribe(i)) /\ WF_vars(HandleCommand(i))
  /\ \A s \in Stopper : SF_vars(SendNext(s))

Spec == Init /\ [][Next]_vars /\ Fairness
-----------------------------------------------------------------------------
(* Properties. *)

Live(t) == status[t] = "running" \/ Ending(t)

(* The instance that runs a task knows it for as long as the task has not  *)
(* ended, whatever fails, so that a stop command that arrives takes effect *)
(* and no garbage collection of an unreferenced task can occur.            *)
LiveIsKnownAtHome ==
  \A t \in Task : Live(t) => home[t] \in Instance /\ t \in tasks[home[t]]

Asked(t) == t \in asked.ids \/ item[t] \in asked.items

(* No task is cancelled, and none is interrupted in its clean-up code,     *)
(* unless its own id or its item was named in a stop request, through      *)
(* whatever instance, stale set of an item or late command that went.      *)
NoUnaskedCancel == \A t \in Task : Ending(t) => Asked(t)

(* The set of an item holds only ids that the hash of all tasks holds too, *)
(* and of that item: the two are written and cleaned in transactions, and  *)
(* no crash between or deletion of a key can leave them in disagreement.   *)
ItemSetsInHash ==
  \A x \in Item : rItem[x] \subseteq {t \in rTasks : item[t] = x}

(* Once create_task has returned the id of a task, GET /api/tasks lists it *)
(* until it ends.                                                          *)
LiveIsListed == \A t \in Task : Live(t) /\ save[t] = "saved" => t \in rTasks

Addressed(t) == \E i \in Instance : i = home[t] /\ \E k \in DOMAIN inbox[i] : inbox[i][k] = t

(* Without faults a command on its way to the instance that runs the task  *)
(* ends the task, however many other commands are before it.               *)
CommandEndsTask == \A t \in Task : Addressed(t) ~> ~Live(t)

(* Without faults a task that is cancelled after it was saved disappears   *)
(* from its instance, from the hash and from the set of its item, and      *)
(* stays so: no late write of its own brings it back.                      *)
CancelledIsDelisted ==
  \A t \in Task :
    Ending(t) /\ save[t] = "saved" ~>
      [](t \notin rTasks \union UNION {tasks[i] : i \in Instance}
                          \union UNION {rItem[x] : x \in Item})

(* The registry keeps the promise of tasks.py across instances and crashes:*)
(* a stop command finds a task where it runs until the task has ended. For *)
(* the promise an interrupted task is one that is being cancelled.         *)
Promised == [t \in Task |-> IF Ending(t) THEN "cancelling" ELSE status[t]]

Lifecycle == INSTANCE TaskLifecycle WITH
               status <- Promised,
               stoppable <- UNION {tasks[i] : i \in Instance}
ImplementsLifecycle == Lifecycle!Spec
=============================================================================
