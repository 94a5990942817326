---------------------------- MODULE TaskRegistry ----------------------------
(***************************************************************************)
(* backend/open_webui/tasks.py without Redis: the dictionaries `tasks` and *)
(* `item_tasks` of one process, the coroutines that create, stop and clean *)
(* up background tasks, and the asyncio event loop they share.             *)
(*                                                                         *)
(* Atomicity. One coroutine runs at a time and only gives way at an await  *)
(* that really suspends. A stop request that goes round its loop without   *)
(* suspending keeps `cpu`; every other action needs the loop to be free.   *)
(* An `await` of a coroutine that does no I/O (list_task_ids_by_item_id,   *)
(* cleanup_task without Redis) does not suspend.                           *)
(*                                                                         *)
(* Aliasing. list_task_ids_by_item_id returns the live list object kept in *)
(* item_tasks, so stop_item_tasks iterates over a list from which the      *)
(* clean-up of the tasks it has stopped removes elements. `attached` says  *)
(* whether the request's list is still the one in item_tasks: a list that  *)
(* becomes empty is popped, and a later create_task makes a new one.       *)
(***************************************************************************)
EXTENDS Naturals, Sequences, FiniteSets, SequencesExt

CONSTANTS
  Task,      \* task ids (uuid4), each used at most once
  Item,      \* chat ids and document ids
  Stopper,   \* concurrent calls of stop_task and stop_item_tasks
  NoTask,    \* null task
  NoItem,    \* null item
  NoOne      \* the event loop is free

ASSUME NullAssumption == NoTask \notin Task /\ NoItem \notin Item /\ NoOne \notin Stopper

VARIABLES
  status,     \* [Task -> where the asyncio.Task is in its life]
  outcome,    \* [Task -> how it ended]
  item,       \* [Task -> the id given to create_task]
  uncleaned,  \* tasks whose done callback has yet to run cleanup_task
  tasks,      \* the keys of the dictionary `tasks`
  itemTasks,  \* [Item -> list of task ids]; an absent key is <<>>
  cpu,        \* the stop request that is executing, or NoOne
  req         \* [Stopper -> the local state of a stop request]

vars == <<status, outcome, item, uncleaned, tasks, itemTasks, cpu, req>>

Status == {"unborn", "running", "cancelling", "finished"}
Outcome == {"none", "returned", "raised", "cancelled"}
Verdict == {"none", "stopped", "not found", "all stopped", "raised"}

IdleReq == [pc |-> "idle", item |-> NoItem, cur |-> NoTask, idx |-> 1,
            attached |-> FALSE, verdict |-> "none"]

Request == [pc : {"idle", "head", "pop", "await"},
            item : Item \union {NoItem},      \* NoItem: a stop_task call
            cur : Task \union {NoTask},       \* the task being stopped
            idx : Nat \ {0},                  \* next index of the iteration
            attached : BOOLEAN,
            verdict : Verdict]                \* how the last call answered

TypeOK ==
  /\ status \in [Task -> Status]
  /\ outcome \in [Task -> Outcome]
  /\ item \in [Task -> Item \union {NoItem}]
  /\ uncleaned \subseteq Task
  /\ tasks \subseteq Task
  /\ itemTasks \in [Item -> Seq(Task)]
  /\ cpu \in Stopper \union {NoOne}
  /\ req \in [Stopper -> Request]

Init ==
  /\ status = [t \in Task |-> "unborn"]
  /\ outcome = [t \in Task |-> "none"]
  /\ item = [t \in Task |-> NoItem]
  /\ uncleaned = {}
  /\ tasks = {}
  /\ itemTasks = [i \in Item |-> <<>>]
  /\ cpu = NoOne
  /\ req = [s \in Stopper |-> IdleReq]

-----------------------------------------------------------------------------
(* The life of a task. *)

(* Mutant: a task with an item is known by its item only. *)
TasksWith_ItemOnly(t) == tasks
TasksWith(t) == tasks \union {t}

(* create_task(None, coroutine, id) *)
CreateTask(t, i) ==
  /\ cpu = NoOne
  /\ status[t] = "unborn"
  /\ status' = [status EXCEPT ![t] = "running"]
  /\ item' = [item EXCEPT ![t] = i]
  /\ tasks' = TasksWith(t)
  /\ itemTasks' = [itemTasks EXCEPT ![i] = Append(@, t)]
  /\ UNCHANGED <<outcome, uncleaned, cpu, req>>

Ends(t, how) ==
  /\ cpu = NoOne
  /\ status' = [status EXCEPT ![t] = "finished"]
  /\ outcome' = [outcome EXCEPT ![t] = how]
  /\ uncleaned' = uncleaned \union {t}
  /\ UNCHANGED <<item, tasks, itemTasks, cpu, req>>

(* The coroutine ends by itself: process_chat answers its own exceptions,  *)
(* the debounced note save lets them through.                              *)
Finish(t) ==
  /\ status[t] = "running"
  /\ \E how \in {"returned", "raised"} : Ends(t, how)

(* The cancellation is delivered. The coroutine may first await its own    *)
(* handlers, so this comes any time after the request; the streaming       *)
(* handler swallows CancelledError and returns, the others re-raise it.    *)
Unwind(t) ==
  /\ status[t] = "cancelling"
  /\ \E how \in {"returned", "cancelled"} : Ends(t, how)

(* The iterators over the list of an item that has just become empty lose  *)
(* it: item_tasks.pop leaves them an empty list no one else refers to.     *)
Detach(i) ==
  [s \in Stopper |->
     IF req[s].item = i THEN [req[s] EXCEPT !.attached = FALSE] ELSE req[s]]

(* asyncio wakes the coroutines that await t before it runs the clean-up   *)
(* task that the done callback has just scheduled.                         *)
AwaitersWoken(t) == \A s \in Stopper : ~(req[s].pc = "await" /\ req[s].cur = t)

(* Mutant: the whole entry of the item is popped. *)
ItemWithout_Nothing(i, t) == <<>>
(* Mutant: a task that is no longer in `tasks` has nothing left to clean. *)
ItemWithout_IfKnown(i, t) == IF t \in tasks THEN Remove(itemTasks[i], t) ELSE itemTasks[i]
(* list.remove: the list holds a task once, see ItemListsExact. *)
ItemWithout(i, t) ==
  LET list == itemTasks[i]
  IN  IF \E k \in DOMAIN list : list[k] = t
      THEN RemoveAt(list, CHOOSE k \in DOMAIN list : list[k] = t)
      ELSE list

(* The done callback: cleanup_task(None, t, id). *)
CleanupTask(t) ==
  /\ cpu = NoOne
  /\ t \in uncleaned
  /\ AwaitersWoken(t)
  /\ uncleaned' = uncleaned \ {t}
  /\ tasks' = tasks \ {t}
  /\ itemTasks' = [itemTasks EXCEPT ![item[t]] = ItemWithout(item[t], t)]
  /\ req' = IF itemTasks'[item[t]] = <<>> THEN Detach(item[t]) ELSE req
  /\ UNCHANGED <<status, outcome, item, cpu>>

-----------------------------------------------------------------------------
(* Stop requests. *)

Answer(s, verdict) ==
  /\ req' = [req EXCEPT ![s] = [@ EXCEPT !.pc = "idle", !.verdict = verdict]]
  /\ cpu' = NoOne

(* stop_task(None, t), called with any id a client has been given. *)
StopTask(s, t) ==
  /\ cpu = NoOne
  /\ req[s].pc = "idle"
  /\ status[t] # "unborn"
  /\ req' = [req EXCEPT ![s] = [IdleReq EXCEPT !.pc = "pop", !.cur = t]]
  /\ cpu' = s
  /\ UNCHANGED <<status, outcome, item, uncleaned, tasks, itemTasks>>

(* stop_item_tasks(None, i): an item without tasks is answered at once. *)
StopItemTasks(s, i) ==
  /\ cpu = NoOne
  /\ req[s].pc = "idle"
  /\ LET call == [IdleReq EXCEPT !.item = i, !.attached = TRUE]
     IN IF itemTasks[i] = <<>>
        THEN /\ req' = [req EXCEPT ![s] = [call EXCEPT !.verdict = "all stopped"]]
             /\ UNCHANGED cpu
        ELSE /\ req' = [req EXCEPT ![s] = [call EXCEPT !.pc = "head"]]
             /\ cpu' = s
  /\ UNCHANGED <<status, outcome, item, uncleaned, tasks, itemTasks>>

IteratedList(s) == IF req[s].attached THEN itemTasks[req[s].item] ELSE <<>>

(* `for task_id in task_ids`: the next element of the live list, or its end. *)
NextListed(s) ==
  /\ cpu = s
  /\ req[s].pc = "head"
  /\ IF req[s].idx > Len(IteratedList(s))
     THEN Answer(s, "all stopped")
     ELSE /\ req' = [req EXCEPT ![s] = [req[s] EXCEPT !.pc = "pop", !.idx = @ + 1,
                                                      !.cur = IteratedList(s)[req[s].idx]]]
          /\ UNCHANGED cpu
  /\ UNCHANGED <<status, outcome, item, uncleaned, tasks, itemTasks>>

(* `await task` is over: an exception of the task goes to the caller; else *)
(* stop_task answers, and stop_item_tasks goes on to the next task.        *)
Awaited(s, t) ==
  CASE outcome[t] = "raised" -> Answer(s, "raised")
    [] outcome[t] # "raised" /\ req[s].item = NoItem -> Answer(s, "stopped")
    [] OTHER -> /\ req' = [req EXCEPT ![s].pc = "head"]
                /\ cpu' = s

(* tasks.pop(task_id, None) finds nothing; stop_item_tasks gives up too. *)
PopMissing(s) ==
  /\ cpu = s
  /\ req[s].pc = "pop"
  /\ req[s].cur \notin tasks
  /\ Answer(s, "not found")
  /\ UNCHANGED <<status, outcome, item, uncleaned, tasks, itemTasks>>

Popped(t) == tasks \ {t}  \* tasks.pop

(* task.cancel(), then suspension in `await task` *)
(* Mutant: the answer does not wait for the task. *)
CancelAndAwait_Answer(s, t) ==
  /\ status' = [status EXCEPT ![t] = "cancelling"]
  /\ Awaited(s, t)
(* Mutant: the task is awaited and not cancelled. *)
CancelAndAwait_Await(s, t) ==
  /\ req' = [req EXCEPT ![s].pc = "await"]
  /\ cpu' = NoOne
  /\ UNCHANGED status
CancelAndAwait(s, t) ==
  /\ status' = [status EXCEPT ![t] = "cancelling"]
  /\ req' = [req EXCEPT ![s].pc = "await"]
  /\ cpu' = NoOne

(* A task that has ended and is still in `tasks` is awaited at once. *)
PopAndCancel(s) ==
  LET t == req[s].cur IN
  /\ cpu = s
  /\ req[s].pc = "pop"
  /\ t \in tasks
  /\ tasks' = Popped(t)
  /\ IF status[t] = "finished"
     THEN Awaited(s, t) /\ UNCHANGED status
     ELSE CancelAndAwait(s, t)
  /\ UNCHANGED <<outcome, item, uncleaned, itemTasks>>

(* The awaited task has ended and the event loop wakes the request. *)
Resume(s) ==
  /\ cpu = NoOne
  /\ req[s].pc = "await"
  /\ status[req[s].cur] = "finished"
  /\ Awaited(s, req[s].cur)
  /\ UNCHANGED <<status, outcome, item, uncleaned, tasks, itemTasks>>

-----------------------------------------------------------------------------
Stops(s) == NextListed(s) \/ PopMissing(s) \/ PopAndCancel(s) \/ Resume(s)

Next ==
  \/ \E t \in Task : Finish(t) \/ Unwind(t) \/ CleanupTask(t)
  \/ \E t \in Task, i \in Item : CreateTask(t, i)
  \/ \E s \in Stopper : Stops(s)
  \/ \E s \in Stopper, t \in Task : StopTask(s, t)
  \/ \E s \in Stopper, i \in Item : StopItemTasks(s, i)

(* The event loop's ready queue is FIFO: a callback or a woken coroutine   *)
(* that is ready whenever the loop is free (and not only while it is: a    *)
(* request may hold `cpu` again and again) gets its turn, so its fairness  *)
(* is strong. A cancelled coroutine ends. Nothing forces a task that was   *)
(* not cancelled to end, nor a client to ask for anything.                 *)
Fairness ==
  /\ \A t \in Task : SF_vars(Unwind(t)) /\ SF_vars(CleanupTask(t))
  /\ \A s \in Stopper : SF_vars(Stops(s))

Spec == Init /\ [][Next]_vars /\ Fairness
-----------------------------------------------------------------------------
(* Properties. *)

Live(t) == status[t] \in {"running", "cancelling"}

Listed(i) == {itemTasks[i][k] : k \in DOMAIN itemTasks[i]}

(* item_tasks lists, once each, exactly the tasks of an item that have not *)
(* ended or whose clean-up is still due; an early clean-up, a stop request *)
(* or a task created meanwhile never makes the list lose or keep another.  *)
ItemListsExact ==
  \A i \in Item :
    /\ Listed(i) = {t \in Task : item[t] = i /\ (Live(t) \/ t \in uncleaned)}
    /\ Len(itemTasks[i]) = Cardinality(Listed(i))

(* stop_task pops the task before it cancels it, so however many stop      *)
(* requests race, a task being cancelled has exactly one of them waiting   *)
(* for it, and a task nobody asked to stop is never cancelled.             *)
OneStopperPerCancel ==
  \A t \in Task :
    status[t] = "cancelling" =>
      Cardinality({s \in Stopper : req[s].pc = "await" /\ req[s].cur = t}) = 1

(* A client told "Task ... successfully stopped" can rely on it: the task  *)
(* has really ended, not merely been asked to.                             *)
StoppedMeansEnded ==
  \A s \in Stopper :
    req[s].pc = "idle" /\ req[s].verdict = "stopped" =>
      status[req[s].cur] = "finished"

(* cleanup_task comes for every task that ends: neither dictionary keeps   *)
(* an entry of it for ever, even if a stop request was iterating over it.  *)
EndedIsForgotten ==
  \A t \in Task :
    status[t] = "finished" ~>
      t \notin tasks /\ \A i \in Item : t \notin Listed(i)

(* Every stop request is answered: a request does not wait for ever for a  *)
(* task another request took first, nor go round its loop for ever.        *)
StopIsAnswered ==
  \A s \in Stopper : req[s].pc # "idle" ~> req[s].pc = "idle"

(* The registry keeps the promise of tasks.py: `tasks` is the set a stop   *)
(* command finds a task in, from create_task until it is stopped or ends.  *)
Lifecycle == INSTANCE TaskLifecycle WITH stoppable <- tasks
ImplementsLifecycle == Lifecycle!Spec
=============================================================================
