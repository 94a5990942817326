---------------------------- MODULE ChatHistory ----------------------------
(***************************************************************************)
(* One chat: the tree of messages the page holds (`history` of Chat.svelte *)
(* and Messages.svelte), the copy in the chat's row, and the tasks that    *)
(* answer. The page saves by sending its whole history, the tasks by       *)
(* reading the row, changing one message and writing the row back          *)
(* (upsert_message_to_chat_by_id_and_message_id).                          *)
(*                                                                         *)
(* Atomicity. The page runs a handler up to an await, the server a         *)
(* coroutine up to an await; requests and socket events are in flight in   *)
(* between. An upsert has no await, so that it is one step.                *)
(*                                                                         *)
(* Abstraction. Messages are numbered in the order of their creation, so   *)
(* that a later prompt has a larger number. The order of children is left  *)
(* out: where the page goes down to the last child, the model goes down to *)
(* any. A text is the number of pieces it has; editing a message in place  *)
(* or rating it changes nothing but sends the history. The page learns of  *)
(* a task it can stop when the task is created.                            *)
(***************************************************************************)
EXTENDS Naturals, Sequences, FiniteSets

CONSTANTS
  MaxId,       \* bound: messages ever created
  MaxText,     \* bound: pieces of an answer that ends
  MaxAnswers,  \* models selected at once
  MaxSaves,    \* bound: histories on their way to the server
  MaxActions   \* bound: things the user does

ASSUME BoundAssumption ==
  MaxId \in Nat /\ MaxId >= 5 /\ MaxAnswers \in Nat /\ MaxText \in Nat
  /\ MaxSaves \in Nat /\ MaxActions \in Nat

VARIABLES
  page,        \* the page's history
  taskIds,     \* answers whose task the page can stop
  stopAsked,   \* stopResponse awaits the server
  completing,  \* chatCompletedHandler's pending POSTs: [id, list]
  refused,     \* answers whose POST has failed for the page
  saves,       \* histories sent to the server, oldest first: [history, sends]
  requests,    \* answers whose POST is on its way to the server
  events,      \* socket events on their way to the page, in order
  stored,      \* the history in the chat's row
  task,        \* the state of each answer's task
  text,        \* how much of its answer each task has produced
  stopping,    \* answers whose task has been asked to stop
  asked,       \* parent_id of each answer, as sent with its POST
  nextId,      \* the number of the next message
  actions,     \* how many things the user has done
  seen         \* history variable: the races that have happened

vars == <<page, taskIds, stopAsked, completing, refused, saves, requests, events,
          stored, task, text, stopping, asked, nextId, actions, seen>>
server == <<stored, task, text, stopping>>

None == 0
Ids == 1 .. MaxId

(* overtaken: a history arrives before one that was sent earlier;          *)
(* uprooted: an answer is deleted or moved while its task may write to it; *)
(* early: an answer is taken as done before its end;                       *)
(* putBack: an answer is put back that has changed since it was sent;      *)
(* elsewhere: the end of an answer comes while another branch is shown.    *)
Race == {"overtaken", "uprooted", "early", "putBack", "elsewhere", "reloaded"}

-----------------------------------------------------------------------------
(* Messages and histories. *)

Message == [role : {"user", "assistant", "none"}, parent : Ids \union {None},
            children : SUBSET Ids, done : BOOLEAN, text : 0 .. MaxText, error : BOOLEAN]

Prompt(p) ==
  [role |-> "user", parent |-> p, children |-> {}, done |-> FALSE, text |-> MaxText, error |-> FALSE]
Answer(p) ==
  [role |-> "assistant", parent |-> p, children |-> {}, done |-> FALSE, text |-> 0, error |-> FALSE]
Bare ==
  [role |-> "none", parent |-> None, children |-> {}, done |-> FALSE, text |-> 0, error |-> FALSE]

InHistory(h) == DOMAIN h.messages

(* New messages as, all like msg, below its parent; current is shown. *)
Attached(h, as, msg, current) ==
  [messages |-> [m \in InHistory(h) \union as |->
     IF m \in as THEN msg
     ELSE IF m = msg.parent THEN [h.messages[m] EXCEPT !.children = @ \union as]
     ELSE h.messages[m]],
   currentId |-> current]

(* h with message m replaced by, or created as, msg. *)
Put(h, m, msg, current) ==
  [messages |-> [x \in InHistory(h) \union {m} |-> IF x = m THEN msg ELSE h.messages[x]],
   currentId |-> current]

(* deleteMessage: m and its children go, the grandchildren move up. *)
Grandchildren(h, m) ==
  UNION {h.messages[c].children : c \in h.messages[m].children \intersect InHistory(h)}
Gone(h, m) == {m} \union h.messages[m].children
(* Mutant: the grandchildren keep their parent. *)
Removed_NotMoved(h, m, current) ==
  LET p == h.messages[m].parent
  IN  [messages |-> [x \in InHistory(h) \ Gone(h, m) |->
         IF x = p
         THEN [h.messages[x] EXCEPT !.children = (@ \ {m}) \union Grandchildren(h, m)]
         ELSE h.messages[x]],
       currentId |-> current]

Removed(h, m, current) ==
  LET p == h.messages[m].parent
  IN  [messages |-> [x \in InHistory(h) \ Gone(h, m) |->
         IF x = p
         THEN [h.messages[x] EXCEPT !.children = (@ \ {m}) \union Grandchildren(h, m)]
         ELSE IF x \in Grandchildren(h, m) THEN [h.messages[x] EXCEPT !.parent = p]
         ELSE h.messages[x]],
       currentId |-> current]

(* createMessagesList: m and its ancestors. *)
Path(h, m) ==
  LET up[n \in Ids \union {None}] ==
        IF n \in InHistory(h) THEN {n} \union up[h.messages[n].parent] ELSE {}
  IN  up[m]

Shown == Path(page, page.currentId)

(* Where a walk down from m ends. *)
LeavesUnder(h, m) ==
  {x \in InHistory(h) : h.messages[x].children = {} /\ m \in Path(h, x)}

Roots(h) == {m \in InHistory(h) : h.messages[m].parent = None}
Siblings(h, m) ==
  LET p == h.messages[m].parent
  IN  IF p = None THEN Roots(h)
      ELSE IF p \in InHistory(h) THEN h.messages[p].children \intersect InHistory(h) ELSE {}

(* chat:tasks:cancel and stopResponse: the answers displayed are done. *)
Displayed(h) ==
  LET p == h.messages[h.currentId].parent
  IN  IF h.currentId \in InHistory(h) /\ p \in InHistory(h)
      THEN h.messages[p].children \intersect InHistory(h) ELSE {}
(* Mutant: only the message shown last is done. *)
DisplayedDone_Current(h) ==
  [messages |-> [m \in InHistory(h) |->
     [h.messages[m] EXCEPT !.done = @ \/ m = h.currentId]],
   currentId |-> h.currentId]

DisplayedDone(h) ==
  [messages |-> [m \in InHistory(h) |->
     [h.messages[m] EXCEPT !.done = @ \/ m \in Displayed(h)]],
   currentId |-> h.currentId]

-----------------------------------------------------------------------------
Waiting == UNION {saves[i].sends : i \in 1 .. Len(saves)}
Working(a) == a \in Waiting \/ a \in requests \/ task[a] \in {"started", "running"}
(* Answers something may still be written to by the server. *)
Live(a) == Working(a) \/ task[a] = "background"
LiveIds == {a \in Ids : Live(a)}
WorkingIds == {a \in Ids : Working(a)}

Saved(h, sends) == Append(saves, [history |-> h, sends |-> sends])
CanSave == Len(saves) < MaxSaves

(* loadChat: a chat of two answers to a prompt, and one to a follow-up.     *)
Loaded ==
  LET answer(p) == [Answer(p) EXCEPT !.done = TRUE, !.text = MaxText]
  IN  [messages |-> [m \in 1 .. 5 |->
         IF m = 1 THEN [Prompt(None) EXCEPT !.children = {2, 3}]
         ELSE IF m = 2 THEN answer(1)
         ELSE IF m = 3 THEN [answer(1) EXCEPT !.children = {4}]
         ELSE IF m = 4 THEN [Prompt(3) EXCEPT !.children = {5}]
         ELSE answer(4)],
       currentId |-> 5]

Init ==
  /\ page = Loaded
  /\ stored = Loaded
  /\ taskIds = {} /\ stopAsked = FALSE /\ completing = {} /\ refused = {}
  /\ saves = <<>> /\ requests = {} /\ events = <<>>
  /\ task = [a \in Ids |-> "none"]
  /\ text = [a \in Ids |-> 0]
  /\ stopping = {}
  /\ asked = [a \in Ids |-> None]
  /\ nextId = 6
  /\ actions = 0
  /\ seen = {}

-----------------------------------------------------------------------------
(* What the user does on the page. *)

(* Mutant: the POSTs do not wait for the history to be saved. *)
SendMessage_NotAwaited(h, u, first, n) ==
  LET as == first .. first + n - 1
      sent == Attached(h, as, Answer(u), first + n - 1)
  IN  /\ CanSave
      /\ first + n - 1 <= MaxId
      /\ page' = sent
      /\ saves' = Saved(sent, {})
      /\ requests' = requests \union as
      /\ asked' = [a \in Ids |-> IF a \in as THEN u ELSE asked[a]]
      /\ nextId' = first + n
      /\ UNCHANGED <<taskIds, stopAsked, completing, refused, events, server, seen>>

(* Mutant: the history saved is the one of before the answers. *)
SendMessage_Before(h, u, first, n) ==
  LET as == first .. first + n - 1
  IN  /\ CanSave
      /\ first + n - 1 <= MaxId
      /\ page' = Attached(h, as, Answer(u), first + n - 1)
      /\ saves' = Saved(h, as)
      /\ asked' = [a \in Ids |-> IF a \in as THEN u ELSE asked[a]]
      /\ nextId' = first + n
      /\ UNCHANGED <<taskIds, stopAsked, completing, refused, requests, events, server, seen>>

(* sendMessage: answers of n models to prompt u of history h. Their POSTs  *)
(* follow when the history has been saved.                                 *)
SendMessage(h, u, first, n) ==
  LET as == first .. first + n - 1
      sent == Attached(h, as, Answer(u), first + n - 1)
  IN  /\ CanSave
      /\ first + n - 1 <= MaxId
      /\ page' = sent
      /\ saves' = Saved(sent, as)
      /\ asked' = [a \in Ids |-> IF a \in as THEN u ELSE asked[a]]
      /\ nextId' = first + n
      /\ UNCHANGED <<taskIds, stopAsked, completing, refused, requests, events,
                     server, seen>>

(* A new prompt below p, with its answers. *)
NewPrompt(p, n) ==
  SendMessage(Attached(page, {nextId}, Prompt(p), nextId), nextId, nextId + 1, n)

SubmitPrompt(n) ==
  LET current == page.messages[page.currentId]
  IN  /\ page.currentId \in InHistory(page)
      /\ current.done
      /\ ~(current.error /\ current.text = 0)
      /\ NewPrompt(page.currentId, n)

(* editMessage of a prompt, sent again: a sibling. *)
EditPrompt(m, n) ==
  LET p == page.messages[m].parent
  IN  /\ m \in Shown
      /\ page.messages[m].role = "user"
      /\ p = None \/ p \in InHistory(page)
      /\ NewPrompt(p, n)

Regenerate(m, n) ==
  LET u == page.messages[m].parent
  IN  /\ m \in Shown
      /\ page.messages[m].role = "assistant"
      /\ page.messages[m].done
      /\ u \in InHistory(page)
      /\ SendMessage(page, u, nextId, n)

(* What the page does to its own history, and sends it. *)
ChangePage(h) ==
  /\ CanSave
  /\ page' = h
  /\ saves' = Saved(h, {})
  /\ UNCHANGED <<taskIds, stopAsked, completing, refused, requests, events, server,
                 asked>>

(* editMessage of an answer, saved as a copy. *)
EditAnswer(m) ==
  LET msg == page.messages[m]
  IN  /\ m \in Shown
      /\ msg.role = "assistant"
      /\ msg.done
      /\ msg.parent \in InHistory(page)
      /\ nextId <= MaxId
      /\ ChangePage(Attached(page, {nextId}, [msg EXCEPT !.children = {}], nextId))
      /\ nextId' = nextId + 1
      /\ UNCHANGED seen

CanDelete(m) ==
  /\ m \in Shown
  /\ \/ /\ page.messages[m].role = "user"
        /\ page.messages[m].parent # None \/ Cardinality(Siblings(page, m)) > 1
     \/ /\ page.messages[m].role = "assistant"
        /\ page.messages[m].done
        /\ Cardinality(Siblings(page, m)) > 1

(* showMessage and updateChat send the history one after the other. *)
ChangePageTwice(h) ==
  /\ Len(saves) + 2 <= MaxSaves
  /\ page' = h
  /\ saves' = Append(Saved(h, {}), [history |-> h, sends |-> {}])
  /\ UNCHANGED <<taskIds, stopAsked, completing, refused, requests, events, server,
                 asked>>

(* Mutant: the parent is shown, not the end of its branch. *)
DeleteMessage_Parent(m) ==
  /\ CanDelete(m)
  /\ page.messages[m].parent # None
  /\ ChangePageTwice(Removed(page, m, page.messages[m].parent))
  /\ seen' = IF (Gone(page, m) \union Grandchildren(page, m)) \intersect LiveIds = {}
             THEN seen ELSE seen \union {"uprooted"}
  /\ UNCHANGED nextId

(* deleteMessage; showMessage goes down from the parent and saves too. *)
DeleteMessage(m) ==
  LET p == page.messages[m].parent
      left == Removed(page, m, page.currentId)
      below == IF p = None THEN UNION {LeavesUnder(left, r) : r \in Roots(left)}
               ELSE LeavesUnder(left, p)
  IN  /\ CanDelete(m)
      /\ \E leaf \in below : ChangePageTwice(Removed(page, m, leaf))
      /\ seen' = IF (Gone(page, m) \union Grandchildren(page, m)) \intersect LiveIds = {}
                 THEN seen ELSE seen \union {"uprooted"}
      /\ UNCHANGED nextId

(* Editing in place, rating, merging: the history is sent as it is. *)
Resave == ChangePage(page) /\ UNCHANGED <<nextId, seen>>

(* showPreviousMessage, showNextMessage, gotoMessage: another branch, which  *)
(* is sent only from among the answers of several models.                   *)
Navigate(m, s) ==
  /\ m \in Shown
  /\ s \in Siblings(page, m) \ {m}
  /\ \E leaf \in LeavesUnder(page, s) :
       \/ /\ ChangePage([messages |-> page.messages, currentId |-> leaf])
          /\ page.messages[m].role = "assistant"
       \/ /\ page' = [messages |-> page.messages, currentId |-> leaf]
          /\ UNCHANGED <<taskIds, stopAsked, completing, refused, saves, requests, events,
                         server, asked>>
  /\ UNCHANGED <<nextId, seen>>

(* stopResponse: the server is asked to stop every task the page knows. *)
Stop ==
  /\ taskIds # {}
  /\ ~stopAsked
  /\ stopAsked' = TRUE
  /\ stopping' = stopping \union {a \in taskIds : task[a] \in {"started", "running", "background"}}
  /\ UNCHANGED <<page, taskIds, completing, refused, saves, requests, events, stored, task, text,
                 asked, nextId, seen>>

(* Marking the answers displayed as done, while some may still be written. *)
MarkDisplayed(h, races) ==
  /\ page' = DisplayedDone(h)
  /\ taskIds' = {}
  /\ seen' = seen \union races
       \union (IF Displayed(h) \intersect WorkingIds = {} THEN {} ELSE {"early"})

Stopped ==
  /\ stopAsked
  /\ stopAsked' = FALSE
  /\ MarkDisplayed(page, {})
  /\ UNCHANGED <<completing, refused, saves, requests, events, server, asked, nextId, actions>>

(* The page is closed and the chat loaded again: what it awaited is gone,    *)
(* what it sent arrives later or never. loadChat takes every answer as done  *)
(* and asks which tasks run.                                                 *)
Reload ==
  /\ page' = [messages |-> [m \in InHistory(stored) |->
                 [stored.messages[m] EXCEPT !.done = @ \/ stored.messages[m].role = "assistant"]],
               currentId |-> stored.currentId]
  /\ taskIds' = {a \in Ids : task[a] \in {"started", "running", "background"}}
  /\ stopAsked' = FALSE /\ completing' = {} /\ refused' = {} /\ requests' = {}
  /\ saves' \in {<<>>, [i \in 1 .. Len(saves) |-> [saves[i] EXCEPT !.sends = {}]]}
  /\ events' = <<>>
  /\ seen' = seen \union {"reloaded"}
       \union (IF \E a \in Ids : task[a] \in {"started", "running"} THEN {"early"} ELSE {})
  /\ UNCHANGED <<server, asked, nextId>>

-----------------------------------------------------------------------------
(* What reaches the page. *)

AsSent(a) == a \in InHistory(page) /\ page.messages[a] = Answer(asked[a])

(* An answer's POST has failed: the answer is put back as it was when it was *)
(* sent, and shown.                                                         *)
Refused(a) ==
  /\ a \in refused
  /\ refused' = refused \ {a}
  /\ page' = Put(page, a, [Answer(asked[a]) EXCEPT !.done = TRUE, !.error = TRUE], a)
  /\ seen' = seen \union (IF Working(a) THEN {"early"} ELSE {})
                  \union (IF AsSent(a) THEN {} ELSE {"putBack"})
  /\ UNCHANGED <<taskIds, stopAsked, completing, saves, requests, events, server, asked, nextId,
                 actions>>

(* chatEventHandler: events of messages the page lacks are ignored. *)
Unknown(e) == e.id \notin InHistory(page) /\ UNCHANGED <<page, taskIds, completing, seen>>

Changed(m, msg) == page' = Put(page, m, msg, page.currentId)

TextEvent(e) ==
  /\ e.id \in InHistory(page)
  /\ e.type = "text"
  /\ Changed(e.id, [page.messages[e.id] EXCEPT !.text = e.text])
  /\ UNCHANGED <<taskIds, completing, seen>>

DoneEvent(e) ==
  /\ e.id \in InHistory(page)
  /\ e.type = "done"
  /\ Changed(e.id, [page.messages[e.id] EXCEPT !.text = e.text, !.done = TRUE])
  /\ completing' = completing \union {[id |-> e.id, list |-> Path(page, e.id)]}
  /\ UNCHANGED <<taskIds, seen>>

(* The end of a task that failed or was cancelled. *)
CancelEvent(e) ==
  /\ e.id \in InHistory(page)
  /\ e.type \in {"error", "cancel"}
  /\ MarkDisplayed(Put(page, e.id, [page.messages[e.id] EXCEPT !.error = @ \/ e.type = "error"],
                       page.currentId),
                   IF e.id \in Displayed(page) \/ page.messages[e.id].done
                   THEN {} ELSE {"elsewhere"})
  /\ UNCHANGED completing

HandleEvent ==
  /\ events # <<>>
  /\ LET e == Head(events)
     IN  Unknown(e) \/ TextEvent(e) \/ DoneEvent(e) \/ CancelEvent(e)
  /\ events' = Tail(events)
  /\ UNCHANGED <<stopAsked, refused, saves, requests, server, asked, nextId, actions>>

(* Mutant: the completed answer is not saved by the page. *)
Completed_NotSaved(c) ==
  /\ c \in completing
  /\ completing' = completing \ {c}
  /\ taskIds' = {}
  /\ UNCHANGED <<page, stopAsked, refused, saves, requests, events, server, asked, nextId,
                 actions, seen>>

(* The rest of chatCompletedHandler. A reply names each message of the list, *)
(* and the handler ends with an exception when one has been deleted; it goes *)
(* on without a reply.                                                       *)
Completed(c) ==
  /\ c \in completing
  /\ completing' = completing \ {c}
  /\ \/ /\ CanSave
        /\ saves' = Saved(page, {})
        /\ taskIds' = {}
     \/ /\ ~(c.list \subseteq InHistory(page))
        /\ UNCHANGED <<saves, taskIds>>
  /\ UNCHANGED <<page, stopAsked, refused, requests, events, server, asked, nextId, actions, seen>>

-----------------------------------------------------------------------------
(* What reaches the server, and the tasks. *)

(* update_chat_by_id replaces the history. The page then sends the POSTs     *)
(* that waited for it. Requests may overtake each other.                     *)
Arrive(i) ==
  /\ stored' = saves[i].history
  /\ requests' = requests \union saves[i].sends
  /\ saves' = [k \in 1 .. Len(saves) - 1 |-> IF k < i THEN saves[k] ELSE saves[k + 1]]
  /\ seen' = IF i = 1 THEN seen ELSE seen \union {"overtaken"}
  /\ UNCHANGED <<page, taskIds, stopAsked, completing, refused, events, task, text, stopping,
                 asked, nextId, actions>>

(* chat_completion: a task is created, or refused. The reply may get lost.   *)
Request(a) ==
  /\ a \in requests
  /\ requests' = requests \ {a}
  /\ \/ /\ task' = [task EXCEPT ![a] = "started"]
        /\ \/ taskIds' = taskIds \union {a} /\ UNCHANGED refused
           \/ refused' = refused \union {a} /\ UNCHANGED taskIds
     \/ /\ refused' = refused \union {a}
        /\ UNCHANGED <<task, taskIds>>
  /\ UNCHANGED <<page, stopAsked, completing, saves, events, stored, text, stopping,
                 asked, nextId, actions, seen>>

(* upsert_message_to_chat_by_id_and_message_id also makes a current. *)
Old(a) == IF a \in InHistory(stored) THEN stored.messages[a] ELSE Bare
Upsert(a, msg) == stored' = Put(stored, a, msg, a)

TaskStep(a, to) ==
  /\ task' = [task EXCEPT ![a] = to]
  /\ stopping' = IF to \in {"done", "failed", "cancelled"} THEN stopping \ {a} ELSE stopping
  /\ UNCHANGED <<page, taskIds, stopAsked, completing, refused, saves, requests, asked, nextId,
                 actions, seen>>

Emit(a, type) == events' = Append(events, [id |-> a, type |-> type, text |-> text'[a]])

(* The model's response has begun. *)
Begin(a) ==
  /\ task[a] = "started"
  /\ Upsert(a, [Old(a) EXCEPT !.parent = asked[a]])
  /\ TaskStep(a, "running")
  /\ UNCHANGED <<events, text>>

(* A delta: shown, not saved. *)
Produce(a) ==
  /\ task[a] = "running"
  /\ text[a] < MaxText
  /\ text' = [text EXCEPT ![a] = @ + 1]
  /\ Emit(a, "text")
  /\ TaskStep(a, "running")
  /\ UNCHANGED stored

(* The end of the answer: saved, then shown. Follow-ups come after. *)
Finish(a) ==
  /\ task[a] = "running"
  /\ text[a] = MaxText
  /\ Upsert(a, [Old(a) EXCEPT !.text = text[a]])
  /\ UNCHANGED text
  /\ Emit(a, "done")
  /\ TaskStep(a, "background")

(* background_tasks_handler: follow-ups are upserted, or there are none. *)
Background(a) ==
  /\ task[a] = "background"
  /\ Upsert(a, Old(a)) \/ UNCHANGED stored
  /\ TaskStep(a, "done")
  /\ UNCHANGED <<events, text>>

(* process_chat catches an exception; its two events come as one. *)
Fail(a) ==
  /\ task[a] \in {"started", "running"}
  /\ Upsert(a, [Old(a) EXCEPT !.parent = asked[a], !.error = TRUE])
  /\ UNCHANGED text
  /\ Emit(a, "error")
  /\ TaskStep(a, "failed")

(* The task is cancelled: what it has produced is saved, if it has begun   *)
(* and is not cancelled once more before that.                             *)
Cancel(a) ==
  /\ a \in stopping
  /\ task[a] \in {"started", "running", "background"}
  /\ \/ UNCHANGED stored
     \/ task[a] # "started" /\ Upsert(a, [Old(a) EXCEPT !.text = text[a]])
  /\ UNCHANGED text
  /\ Emit(a, "cancel")
  /\ TaskStep(a, "cancelled")

-----------------------------------------------------------------------------
User ==
  /\ actions < MaxActions
  /\ actions' = actions + 1
  /\ \/ \E n \in 1 .. MaxAnswers :
          \/ SubmitPrompt(n)
          \/ \E m \in InHistory(page) : EditPrompt(m, n) \/ Regenerate(m, n)
     \/ \E m \in InHistory(page) : EditAnswer(m) \/ DeleteMessage(m)
     \/ \E m, s \in InHistory(page) : Navigate(m, s)
     \/ Resave
     \/ Stop
     \/ Reload

Answering(a) ==
  Begin(a) \/ Produce(a) \/ Finish(a) \/ Background(a) \/ Fail(a) \/ Cancel(a)

System ==
  \/ Stopped
  \/ \E a \in refused : Refused(a)
  \/ HandleEvent
  \/ \E c \in completing : Completed(c)
  \/ \E i \in 1 .. Len(saves) : Arrive(i)
  \/ \E a \in requests : Request(a)
  \/ \E a \in Ids : Answering(a)

Next == User \/ System

Spec == Init /\ [][Next]_vars

-----------------------------------------------------------------------------
IsHistory(h) ==
  /\ h.currentId \in Ids \union {None}
  /\ InHistory(h) \subseteq Ids
  /\ h.messages \in [InHistory(h) -> Message]

TypeOK ==
  /\ IsHistory(page) /\ IsHistory(stored)
  /\ \A i \in 1 .. Len(saves) : IsHistory(saves[i].history) /\ saves[i].sends \subseteq Ids
  /\ events \in Seq([id : Ids, type : {"text", "done", "error", "cancel"}, text : 0 .. MaxText])
  /\ taskIds \subseteq Ids /\ stopping \subseteq Ids
  /\ requests \subseteq Ids /\ refused \subseteq Ids
  /\ task \in [Ids -> {"none", "started", "running", "background", "done", "failed", "cancelled"}]
  /\ text \in [Ids -> 0 .. MaxText]
  /\ asked \in [Ids -> Ids \union {None}]
  /\ nextId \in Nat
  /\ seen \subseteq Race

(* Every message but the roots is listed by its parent, which is of the    *)
(* other role and older, and lists only its own. The roots are prompts.    *)
Shape(h) ==
  \A m \in InHistory(h) :
    LET msg == h.messages[m]
    IN  /\ msg.role # "none"
        /\ msg.parent = None => msg.role = "user"
        /\ msg.parent # None =>
             /\ msg.parent \in InHistory(h)
             /\ msg.parent < m
             /\ h.messages[msg.parent].role # msg.role
             /\ m \in h.messages[msg.parent].children
        /\ \A c \in msg.children : c \in InHistory(h) /\ h.messages[c].parent = m

(* Every prompt has an answer, and an answer is displayed last.            *)
Answered(h) ==
  /\ h.currentId \in InHistory(h)
  /\ h.messages[h.currentId].role = "assistant"
  /\ \A m \in InHistory(h) : h.messages[m].role = "user" => h.messages[m].children # {}

Tree(h) == Shape(h) /\ Answered(h)

Intact == seen \intersect {"overtaken", "uprooted", "early", "putBack"} = {}

(* The page's history remains a tree, whatever the user does while         *)
(* answers arrive, fail and are put back.                                  *)
PageTree == Intact => Tree(page)

(* What a reload would find is a tree.                                     *)
StoredTree == Intact => Tree(stored)

(* An answer that is still to be written is on the page, in the row and in *)
(* each history that will replace the row, so that no upsert makes a       *)
(* message without a role, a parent or children.                           *)
AnswersKept ==
  Intact => \A a \in LiveIds :
    /\ a \in InHistory(page)
    /\ a \notin Waiting => a \in InHistory(stored)
    /\ \A i \in 1 .. Len(saves) :
         (\A j \in i + 1 .. Len(saves) : a \notin saves[j].sends) => a \in InHistory(saves[i].history)

(* What the page shows ends with a message that has no reply, whatever is  *)
(* deleted, branched off and answered (showMessage, Chat.svelte:313).      *)
CurrentIsLeaf ==
  Intact /\ "reloaded" \notin seen => page.messages[page.currentId].children = {}

Quiet ==
  /\ saves = <<>> /\ requests = {} /\ refused = {} /\ events = <<>> /\ completing = {}
  /\ LiveIds = {} /\ ~stopAsked

(* When all is quiet, the row has the page's tree, and all of the answers  *)
(* that have neither failed nor been stopped.                              *)
SavedAtRest ==
  Quiet /\ Intact /\ "reloaded" \notin seen =>
    /\ InHistory(stored) = InHistory(page)
    /\ \A m \in InHistory(page) :
         /\ stored.messages[m].parent = page.messages[m].parent
         /\ stored.messages[m].children = page.messages[m].children
         /\ task[m] \notin {"failed", "cancelled"} =>
              stored.messages[m].text = page.messages[m].text

(* When all is quiet no answer is left waiting for its end, unless its end *)
(* came while another branch was displayed.                                *)
Settled ==
  Quiet /\ "elsewhere" \notin seen =>
    \A m \in InHistory(page) : page.messages[m].role = "assistant" => page.messages[m].done
=============================================================================
