# Verification of the Jeonbuk-AI-Web back end

TLA+ models of the server in `backend/open_webui` (a fork of Open WebUI) and of
the part of the browser client it runs protocols with. Every definition is
translated from the source; the `map` of `PROJECT.json` names the lines.

## 1. The system

The server is one or more processes (*instances*) of a FastAPI application
with a Socket.IO server mounted in it. Each instance is one asyncio event loop
(plus a thread pool for synchronous endpoints). Instances share a SQL database
and, when it is configured, Redis. Without Redis all state that is not in the
database lives in the memory of the one process.

| Component | State | Operations | Interacts with | What is hard |
|---|---|---|---|---|
| Background tasks (`tasks.py`) | `tasks`, `item_tasks`; hash and sets in Redis | create, clean up, list, stop by id or by item, command listener | chat completion, document saves, `/api/tasks` | a task ends at any time; clean-up is a task of its own; pub/sub loses messages; crashes |
| Collaborative documents (`socket/main.py`, `YdocManager` in `socket/utils.py`, `Collaboration.ts`) | update log and users of each document; pending saves; the Yjs replica of each editor | join, state, update, leave, awareness, disconnect, debounced save | background tasks, notes | every await interleaves; clearing the log; seeding the content; offline edits |
| Usage and session pools (`socket/main.py`, `RedisLock`/`RedisDict`) | `SESSION_POOL`, `USER_POOL`, `USAGE_POOL`, the clean-up lock | connect, join, usage, heartbeat, disconnect, periodic clean-up | channels, chat events | read-modify-write shared by instances; lock that expires while held |
| Socket events (`get_event_emitter`, `get_event_call`) | messages and statuses inside a chat's JSON | emit to all sessions of a user, upsert in the database, call with an answer | chats, middleware | whole-JSON writes of two writers |
| Rate limiter (`utils/rate_limit.py`) | counters per bucket, in Redis or in memory | is_limited, remaining, fallback | sign-in | clock between two operations, fallback to per-process counters |
| Shared configuration (`config.py`) | `PersistentConfig` registry, one JSON row, one Redis key per option | read, assign, import, reset | every router | each process saves its own copy of the whole row |
| Chats (`models/chats.py`, `routers/chats.py`, `models/tags.py`, `Chat.svelte`, `Messages.svelte`) | chat JSON with its tree of messages, in the row and in the page; share id, tags, folder, archive and pin flags | send, answer, branch, edit, delete, stop, reload; create, update, message upsert, clone, share, unshare, delete | folders, tags, files, chat completion | page and tasks both write the JSON; histories that overtake each other; two-commit sharing; tag rows counted by hand |
| Folders (`models/folders.py`, `routers/folders.py`) | tree of folders per user | create, rename, move, delete with its chats, repair of orphans | chats | check-then-insert names, cycles, recursion |
| Channels and messages (`models/channels.py`, `models/messages.py`, `routers/channels.py`) | channels, members, webhooks, threads, reactions | post, edit, react, read marks, delete | socket rooms, models | events against rows, thread deletes |
| Groups and access control (`models/groups.py`, `utils/access_control.py`) | members, permissions | add and remove members, permission merge | every router | merge of permissions, unions |
| Files, knowledge, retrieval (`models/files.py`, `models/knowledge.py`, `routers/*`, `retrieval/`) | file rows, stored objects, vector collections | upload, process, attach, remove, reindex | storage providers, embedding | several stores without a transaction |
| Users, sign-in, OAuth (`models/auths.py`, `models/oauth_sessions.py`, `utils/oauth.py`, `utils/auth.py`) | accounts, sessions, tokens | sign up and in, refresh, revoke | all | first user becomes admin; token refresh races |
| Functions, tools, filters, pipelines (`functions.py`, `utils/plugin.py`, `utils/filter.py`) | cache of loaded modules, valves | load, reload, inlet and outlet filter chain | middleware | cache against the content in the database |
| Model lists (`utils/models.py`, `routers/openai.py`, `routers/ollama.py`) | `app.state.MODELS`, base model cache | refresh, merge with custom models | middleware | a cached list in each process |
| Chat completion (`utils/middleware.py`, `main.py`) | the streamed message: content blocks, tool calls | payload pipeline, stream parsing, tool loop, save and emit | tasks, events, chats | cancellation at any await, tags cut anywhere by chunks, retry limits |
| Retrieval loaders, image, audio, evaluations, prompts, notes, tags, memories | rows | CRUD and calls of external services | | mostly I/O |
| Front end (`src/`), migrations, static data | | | | UI |

## 2. The plan

The order follows what would hurt most: what several processes share and what
one process does with several coroutines comes first, single-row operations
last. A component gets one module, or two where it has two implementations
(memory and Redis); a module for TLC (`MC_*`); and a module `*_proofs`, which
`SharedConfig` and `RateLimiter` share (`SharedState_proofs`). Parameters are
constants with named assumptions, and recursion is written as recursive
functions, of how many tokens, tags or blocks have been done, so that all
modules can be proved about.

| Module | Component | Rests on |
|---|---|---|
| `TaskLifecycle` | abstract specification: what the task registry promises | |
| `TaskRegistry` | `tasks.py` in the memory of one process | implements `TaskLifecycle` |
| `TaskRegistryRedis` | `tasks.py` shared by several processes | implements `TaskLifecycle` |
| `CollabDocument` | collaborative documents: server and editors | the stop of a pending save is a suspension |
| `SharedConfig` | `PersistentConfig`, `AppConfig`, the configuration row | |
| `UsagePool` | `USAGE_POOL`, its clean-up and `RedisLock` | |
| `RateLimiter` | `utils/rate_limit.py` | |
| `ContentBlocks` | the tag parser of `utils/middleware.py`, as operators | |
| `ChatStream` | `process_chat_response`: one answer of a model | `ContentBlocks`; a task is cancelled once, or again during its clean-up, as `TaskRegistryRedis` allows |
| `ChatHistory` | one chat: the page's tree of messages, the row, the tasks that answer | an answer is what `ChatStream` emits and saves, cut to its text and its end |
| `ChatLibrary` | all chats and folders of a user: folders, tags, archive, sharing | |

What would come next, in this order: an editor of `CollabDocument` that
reconnects, several instances of it, and the contents of its debounced saves;
channels with their threads and read marks; the cache of loaded functions and
the model lists, a copy per process against the database; file rows, knowledge
rows and vector collections when one of several steps fails; the merge of group
permissions against its definition by quantifiers.

## 3. Modules and code

An action is the code between two points at which another coroutine, process
or client can act. Where those points are is stated in each module's header.

**`TaskRegistry`** (`tasks.py` without Redis). `status`, `outcome` and `item`
describe the asyncio task; `tasks` and `itemTasks` are the dictionaries;
`uncleaned` holds the tasks whose done callback has been scheduled and not run.
One coroutine runs at a time, and an `await` of a coroutine that does no I/O
does not suspend: `cpu` is the stop request that goes on without suspending.
`CreateTask` is all of `create_task`; `Finish` and `Unwind` are the two ways a
coroutine ends; `CleanupTask` is `cleanup_task`; `StopTask`, `StopItemTasks`,
`NextListed`, `PopMissing`, `PopAndCancel` and `Resume` are the pieces of the
two stop functions. `itemTasks` is a sequence because `stop_item_tasks`
iterates by index over the very list that `cleanup_task` removes elements from;
`attached` tells whether the request's list is still the one in the dictionary.

**`TaskRegistryRedis`** (`tasks.py` with Redis). The hash of all tasks
(`rTasks`), the set of each item (`rItem`), one dictionary per instance, and one
queue of stop commands per instance. A pipeline is a transaction and one action;
the `DEL` of the item's set is another. The listener does not pop the task it
cancels, so that each further command cancels it again: before the first
cancellation is delivered this changes nothing, in the task's clean-up code it
interrupts an await (`AfterCancel`, status `interrupted`; `ChatStream` says what
that costs an answer). Faults are actions of their own and share a bound: a save
or a clean-up whose connection fails, a listener that ends, an instance that
dies and restarts empty.

**`TaskLifecycle`** is what a caller of `tasks.py` relies on: from
`create_task` until a task has ended (or is being cancelled by the request that
took it) it can be found by a stop request, only a task that has ended is
forgotten, and a task that has ended does not start again. `TaskRegistry` maps
`stoppable` to `tasks`, `TaskRegistryRedis` to the union of the instances'
`tasks`; a crash is `Lose`.

**`CollabDocument`.** The server's log, users and room; a handler per message,
with a program counter for each await; per editor the two directions of its
socket, and the operations its replica has received. A Yjs document is the set
of operations received, of which those take effect whose dependencies have been
received too: this is what the protocol relies on (merging is commutative and
idempotent). Operations are numbered as they are made, and `deps` lists what
each builds on. `Redis` selects where the handlers suspend. `Disconnect` loses a
suffix of what the client has sent and all of what it has not received. An
editor that cannot insert the initial content (`SeedFails`) is not synchronised
and asks for the state, which is a handler of its own at the server
(`RequestSessions`, `RequestExists`, then the steps a join has too).

**`SharedConfig`** (its definitions have names of their own, `ConfigSpec` and so
on, as its proofs stand in one module with those of `RateLimiter`). The row of
the `config` table, the Redis keys, and for each instance `CONFIG_DATA` and the
values of its `PersistentConfig` objects. A *worker* is a thread of an instance
(`Host`): that of the event loop or one of the pool, which runs the endpoints
declared without `async`; all of them read options, and some in the pool assign
them (`files.py:197`, `images.py:98` and `:453`). An assignment is four actions:
the object (`Assign`), `CONFIG_DATA` (`Copy`), the commit (`Commit`,
`CommitFails`), Redis (`Publish`, `PublishFails`: the SET raises and the
instance lives on). A reading is two, the GET (`Read`) and the object
(`Replace`), so that it can put an old value back in the middle of an
assignment, which then stores or publishes that. `Load` is the import of
`config.py`, `Serve` the start of the lifespan, which resets the row if it is
told to.

**`UsagePool`.** `usage` is three actions (is there a row, read it, write it);
the clean-up's are those of `periodic_usage_pool_cleanup`, one for each command
it sends to Redis. Timestamps are kept as ages and deadlines as time left, so
that time needs no bound. `heard` is the history of what was handled, `late`
remembers that some clean-up slept for as long as its lock lives. Between
`acquire_lock` and the first `renew_lock` an instance is at a step of its own
(`renew`), as another may act there.

**`RateLimiter`.** `INCR`, `EXPIRE` and `MGET` are steps; Redis may raise at any
of them, before or after its effect, and the process then counts in its memory.
An event is known by when it was counted and by what its counter was then, which
is unique within a bucket; `attempts` is what `INCR` returned. `events`,
`admitted` and `refused` are the history that the properties compare with the
counters.

**`ContentBlocks`** is `tag_content_handler` and `serialize_content_blocks`. A
text is a sequence of tokens (tags, numbered pieces of text); the code finds
tags by searching all the text received so far at each delta, and cuts and
joins blocks accordingly, and so do the operators: `Received` is the text of a
delta put to the last block, `HandledUpTo` the loop over the kinds of tags,
`MessagesUpTo` the loop that tells the model of its own answer. `Parsed` is the
reference: one pass, token after token.

**`ChatStream`** is the coroutine around it. `at` is the await the task is in,
`loop` the one of three loops a stream is read in (the answer, after tools,
after code). `Receive` handles a delta whole: native reasoning, calls, tags, the
chunk's emission and, in realtime mode, the write. `Step` holds what the
coroutine does by itself: closing blocks, running tools one by one, asking
again, running code, the background tasks. `Cancel` raises in the await the task
is in: the page is told, and in a later step (`SaveCancelled`) the answer is
saved, unless the task is cancelled once more in between (`CancelAgain`).
`BreakStream` and `Refused` are the exceptions of the model's connection.
`page`, `told` and `saved` are what has left the coroutine. Four histories are
what the properties speak of: `heard`, the text of all deltas; `late`, that code
has become a block in a later delta than the one it came in, which is when the
code loses text (section 8); `owed`, how many calls the model has made, in
whatever stream, that have not been run; and `dropped`, how many of these were
lost with a later stream that broke.

**`ChatHistory`.** `page` and `stored` are the `history` objects of the page and
of the row: messages with role, parent, children, and the message displayed last
(`currentId`). The page's handlers are the actions of `User` (send, answer
again, edit and branch, delete, go to another branch, stop, reload); each ends,
as in the code, by sending the whole history (`saves`), deleting a message by
sending it twice (`ChangePageTwice`). The tasks that answer
change one message of the row (`Upsert`) and emit events that change the page.
`completing` is `chatCompletedHandler` between its request and the save that
follows. A reload replaces the page by the row and loses what is under way.
The history variable `seen` records five races that the code does not withstand
(section 8), and reloads. Four of them break the trees (`Intact` is that none of
these has happened); the fifth, an end that comes while another branch is
displayed, breaks only `Settled`, which holds through the other four.

**`ChatLibrary`.** One variable per column (`folderOf`, `archived`, `tags`,
`share`) or table (`rows` for tags, `folders`, `copies`). A handler that commits
more than once is a `job` that goes on transaction by transaction, and a crash
may fall between two; synchronous handlers run in `threads` beside it.
`DeleteFolder` collects the subtree as `get_children_folders` does, prunes it
and then deletes or releases its chats; `GetFolders` is the repair of folders
whose parent is gone, done at each listing, for all of them or as many as can be
written, and without a look at their names. `Lookup` is the search for a folder
of a name, for which the name is the pattern of an `ILIKE`: `Matched` says, of
each name, which names that pattern finds, among which it need not be itself. A
lookup that fails passes for a free name. Writes that fail are actions
(`TagFails`, `UnshareFails`, `DeleteAllFails`, `LastFails`, `EmptyFails`,
`PruneFails`): the functions of `models/` swallow the exception, and the
handlers go on. `seen` records eleven mishaps by name; each property names those
that break it.

## 4. What TLC checks

| Run | Instance | Shows |
|---|---|---|
| `task_registry` | 2 tasks of 1 item, 2 stop requests | `ItemListsExact`, `StoppedMeansEnded`; every ended task is forgotten (`EndedIsForgotten`), every request answered (`StopIsAnswered`); `TaskLifecycle` is implemented |
| `task_redis_safety` | 2 instances, 2 tasks, 2 items, 1 stop request by item, 2 commands in transit, 1 fault | `LiveIsKnownAtHome`, `NoUnaskedCancel`, `ItemSetsInHash`, `LiveIsListed`; `TaskLifecycle` is implemented |
| `task_redis_liveness` | 2 instances, 2 tasks, 1 item, requests by id, 2 commands in transit, no fault | a command that is on its way ends its task (`CommandEndsTask`); a cancelled task leaves no trace (`CancelledIsDelisted`) |
| `collab_memory` | 2 editors, 2 edits, 3 joins, 2 leaves, memory, no overlapping | `Converged`, `ClearedOnlyWhenUnused` |
| `collab_redis` | 2 editors, 2 edits, 2 joins, no leaves, Redis | `SeededOnce`, `EchoDiesDown` |
| `config_redis` | 2 instances with 2 threads and 1, 2 options, 2 values, up to the first import, failed write or crash | `InstancesAgree` |
| `usage_memory` | 1 process, 2 sessions, 2 models, timeout 2, delay 1 | `PoolIsCurrent`, `StaleLeaves` |
| `usage_redis` | 3 instances, timeout 1, lock 2, delay 1, 1 crash | `OneCleaner` |
| `rate_limit` | 2 processes, limit 1, window 4, buckets of 2, 8 seconds, 4 events | `AtMostLimitPerStore`, `RefusedOverLimit` |
| `chat_stream` | 4 deltas of text, two kinds of tags, calls with 2 indexes; chunks of 2, 2 rounds of tools, 1 of code | `ShownIsSaved`, `SavedAsReceived`, `ParsedRight`, `NothingDropped`, `RequestComplete`, `CallsAreRun`, `AnswerEnds` |
| `chat_history` | 7 messages, 2 actions of the user, 2 answers at once, 2 saves in transit, text of 1 piece | `PageTree`, `StoredTree`, `AnswersKept`, `CurrentIsLeaf`, `SavedAtRest`, `Settled` |
| `chat_library` | 2 chats, 2 folders, 2 names (one a pattern of both, one with a backslash), 1 tag, 1 thread, 1 copy per chat, 1 mishap | `ChatsFound`, `TagsHaveRows`, `LinksWork`, `SiblingsDiffer` |

Types (`TypeOK`, `ConfigTypeOK`) are proved for all modules; `chat_stream`
checks them too, as there they say that the last block is what the code takes it
to be.

*Why the bounds are enough.* Two tasks of one item is the least for which a list
is iterated while it changes. Two stop requests race for a task; a third would
find what the second finds. With two instances one runs a task and the other is
asked to stop it; with two items a set can hold what belongs in the other. In
`collab_memory` two editors and three joins let one editor leave, another join
during the leave, and the first come back. The second edit is the one that
builds on a first that may be missing. `collab_redis` has no leaves: each editor
opens the note once, which is what `SeededOnce` is about, as a note all have
left is filled again. Two options in two instances are the least for which an
instance saves an outdated copy of what the other has changed; the second thread
of one reads and assigns between the steps of the first. Three instances let one
hold the lock, one wait and one give up. In `usage_redis` the greatest delay is
one step more than the lock outlasts a sleep, so both sides of `OneCleaner`'s
condition occur. In `rate_limit` a key expires and a window slides over four
buckets.

In `chat_stream` four deltas make a section with text in it and around it, or
two calls in two pieces each, or calls in a stream that follows calls; chunks of
two leave a delta unsent; two rounds of tools reach the limit and one round of
code is enough to run it again. In `chat_history` a prompt with two answers and
two more messages of the user's fill seven ids, and two saves in transit can
overtake each other. In `chat_library` two folders make a parent and a child; a
folder moved below itself, and one taken back to the root next to another of its
name, need three folders, or two mishaps, and are left to the proofs, which hold
for any number of both.

`chat_library` has a `VIEW`, which takes states that differ only in the names of
folders that are not there for the same; no step and no property reads these.
Three runs have a `CONSTRAINT`. `FewEvents` (`chat_library`) ends behaviours
with a second mishap: each property is checked with every single mishap it does
not exclude, and combinations of two are left to the proofs. `Calm`
(`config_redis`) ends them after the first import, failure or crash, from where
on `InstancesAgree`, by its condition, says nothing. `InOrder` (`chat_history`)
ends them where one history has overtaken another. The five tree and saving
properties say nothing from there on. `Settled` does; but overtaking changes the
row alone, which the page reads only in a reload, and a reload takes every
answer as done. The other races stay in: an answer put back after it has
changed, siblings taken as done by another's end, a stop while answers run.
`Settled` is proved without any constraint.

The runs whose instance stops by its own bounds (`CollabDocument`,
`RateLimiter`, `ChatHistory`) do not check for deadlock; all others do.

## 5. Fairness

* **The event loop** runs every ready callback in the order in which it became
  ready: a handler, clean-up or listener that can go on does so eventually (weak
  fairness, or strong where another coroutine's step may disable it for a
  moment, as a stop request that holds the loop does for clean-ups).
* **Messages** on a connection that lasts arrive (weak fairness of `Receive`);
  in `TaskRegistryRedis` the same holds of commands to a listener that is
  subscribed. `SendNext` is disabled by the bound on queues only, again and
  again, so its fairness is strong.
* **A cancelled coroutine ends** (`Unwind`): the coroutines the server starts
  catch `CancelledError` only to save and re-raise or return.
* **An answer goes on** (`Step` of `ChatStream`): the coroutine runs, tools and
  code return or raise, the model answers a request, and no stream lasts for
  ever. That an answer then ends is the code's merit, which bounds the rounds.
* **`UsagePool`**: the clock goes on between usages, and a sleeping clean-up
  that is due gets its turn although usage events arrive all the time.
* Nothing is assumed of users: they need not type, leave, stop a task or send
  usage, and no fault has to happen or stop happening (the liveness runs that
  exclude faults say so).

## 6. What is proved

For every value of the constants, unless a theorem says otherwise:

* **`TaskRegistry_proofs`**: `TypeOK`; `OneWaits`, that two requests never wait
  for the same task; `StoppedHasEnded`, that a request told that tasks were
  stopped is told the truth; and that the module implements `TaskLifecycle`. The
  invariant ties each request's place in the code to the dictionaries: a task
  that runs is in them (`RunningIsKnown`), one that is being cancelled no longer
  is (`CancelledIsPopped`), so that nobody else can pop it, and exactly one
  request waits for it (`OneAwaits`). `ItemListsExact` has an invariant of its
  own: an item's list holds no task twice, every task that lives or awaits its
  clean-up is in it, and every task in it does (`ListedOnce`, `ListedWhileDue`,
  `DueHasItem`).
* **`TaskRegistryRedis_proofs`**: `TypeOK` and the safety properties of
  `task_redis_safety`, and that the module implements `TaskLifecycle`
  (`RefinesLifecycle`), with any number of tasks, items, instances, requests and
  faults. The inductive invariant `IInv` adds to the properties what they rest
  on: a task that was never created is unknown everywhere (`UnbornIsUnknown`); a
  clean-up has started only for a task that has ended (`CleanedHasEnded`); an
  instance's dictionary holds only its own tasks (`TasksAreAtHome`), without
  which a command handled by another instance could cancel; whatever is still to
  be sent or handled was asked for (`CommandsAreAsked`), without which
  `NoUnaskedCancel` is not inductive, as a command outlives the set it was read
  from. The refinement then has one lemma per kind of step.
* **`SharedState_proofs`**, of `SharedConfig`: `ConfigTypeOK`; `InstancesAgree`;
  and `StoredInEffect`, for one process without Redis: what is stored of an
  option is what is in effect, through crashes, imports and resets, as long as
  assignments follow one another and no commit fails. `InstancesAgree` is proved
  for any number of instances and of threads, `StoredInEffect` for one thread.
  For the former: what Redis does not hold nobody has assigned, so that every
  copy of it, stored or loaded, is the same (`UnsharedIsStored`); for the latter
  the objects match the copy and the copy matches the row (`ObjectsMatchCopy`,
  `CopyMatchesRow`).
* **`UsagePool_proofs`**: `TypeOK`, and `OneCleaner` for any number of instances
  and crashes and any timeouts and delays: whoever cleans holds the lock, and
  the time the lock has left is at least what the clean-up may still sleep
  (`RunnerHolds`). The condition `~late` is where the proof uses the lock's
  life. And `PoolIsCurrent` for the pool in the memory of one process that does
  not die, which is what the run checks (`Alone`): its clean-up never gives up
  (`GoesOn`), what it has read of the pool is still so when it writes
  (`InSight`), a row is as old as the last usage handled unless both are beyond
  the timeout (`Agree`), and none is older than the last sweep left it by more
  than the time since (`Aged`), which the timer bounds (`OnTime`).
* **`CollabDocument_proofs`**: `TypeOK`, and for any number of editors, joins
  and edits three properties. `Converged` is proved twice: with Redis or
  without, for as long as nobody leaves or loses its connection (`MaxLeaves =
  0`, `Convergence`); and in memory with any number of leaves, disconnections
  and re-openings (`ConvergenceInMemory`), provided that a note is opened again
  only once the messages of its socket have been handled (`~Overlap`). Both rest
  on `Sync`, which speaks of the editors that have the note open: whatever such
  an editor holds is in the log, in a message or in a handler on its way there;
  whatever is in the log an editor that has been read the log for holds, or is
  being sent it by the state it waits for, by a broadcast under way, or by a
  message in its socket. A join that reads the log before an update is appended
  is in the room by then, which is where the order of `enter_room` and
  `get_updates` matters. What leaves add is the clearing of the log. `Memory`
  says why it harms nobody: a handler that is not executing waits in one of two
  places (`Turns`), so that the users counted are still none when the log goes
  (`Emptied`); an editor that has the note open is a user, or its join has not
  been handled (`UsersOk`); and in the latter case it is not in the room,
  nothing is on its way to it, and all it holds follows its join (`Outside`,
  which needs that a closed note has been left before it is opened again,
  `LeftOk`). `SeededOnce`, again with `MaxLeaves = 0` (`Single`): an editor
  joins once, the sessions it is told of, by its join or by a request, are in
  the room, and so only the first to enter is ever told that it is alone.
  `ClearedOnlyWhenUnused`, in memory and with overlapping: a handler about to
  clear the log has the event loop and has just seen that no user is left
  (`ClearHeld`); this is what fails in Redis, where the count and the deletion
  are two commands.
* **`ChatHistory_proofs`**: `TypeOK`, `PageTree`, `StoredTree`, `AnswersKept`
  and `CurrentIsLeaf`, for any number of messages, answers, saves and actions
  (with `BoundAssumption`). The invariant `IInv` says, until a race has been
  seen: ids in use are below the next one; an answer is POSTed once; the page,
  the row and every history in flight are trees in which an answer still to be
  written is an assistant's message; each such answer is in every history that
  will replace the row. There is one lemma per kind of step, and one for each
  operator that changes a tree (adding a message, cutting a subtree, going down
  to a leaf). Two more theorems are about what is left when all is quiet.
  `Settled` (`AnswersSettle`), through all races and reloads: an answer that is
  not done is being worked on, or is about to be put back, or the event that
  ends it is on its way (`Awaited`); the only exception is an end that arrives
  while another branch is displayed. `SavedAtRest` (`RestIsSaved`), until a
  race: the last history on its way to the row, or the row if there is none, has
  the page's tree (`LastTree`), and the whole text of an answer that has ended
  is on its way to the page, or is shown and saved, or shown and about to be
  saved (`TextsSent`). The path to the displayed message is a recursive
  function; that it stays within the history (`PathInHistory`) is proved with
  the least length at which it would not.
* **`ChatLibrary_proofs`**: `TypeOK` and the four properties of `chat_library`,
  each with an inductive invariant of its own, for any number of chats, folders,
  tags and threads and any combination of mishaps a property does not exclude.
  That every folder can be reached from a root (`ChatsFound`) is kept as: no
  non-empty set of folders is closed under taking the parent, which needs no
  induction over paths. `SiblingsDiffer` is inductive as it stands, with what
  the threads that are about to insert a folder have looked up: wherever a
  folder is put, its place has been searched for its name, or one of the mishaps
  named is seen. It does not rest on the folders' being a forest.
* **`SharedState_proofs`**, of `RateLimiter`: `TypeOK`; `AtMostLimitPerStore`
  and `RefusedOverLimit`, for any processes, limit, window and bucket. The
  properties count events, the code adds counters. The invariant pairs the two:
  no two events of a bucket have the same number (`Distinct`), an event of a
  bucket that is still summed has a number up to its counter (`Numbered`), and
  to each such number there is an event (`Backed`), because a key lives on until
  its bucket is no longer summed (`Alive`). The numbers up to the counters, the
  set `Counted` whose size is `Total`, are then in bijection with the events
  counted. A check takes no time, so that what it has read of the clock is still
  true (`InHand`).
* **`ChatStream_proofs`**: all seven safety properties of `chat_stream`, for any
  kinds of tags in any order, any deltas, indexes of calls, size of chunks and
  limits of rounds. Six rest on one invariant, `IInv`. `Loops` and `Waiting` say
  where the task may be in which of the three loops, and that a batch of calls
  waits only where it is going to be run or may not be (`NoCallIsForgotten`).
  `InOrder` says what every block that is done with is (`AllFine`): a section
  holds no closing tag of its kind, calls have each index once and the results
  are theirs in their order (`CallsAreAnswered`, by induction over the blocks
  that become messages). `AllThere` says that all text is in the blocks, which
  is inductive only with what it rests on: the text of a last block that is text
  is in `content` too (`LastInContent`), because that is what a section that
  begins is cut from, and code that begins came with this delta, which is what
  `late` denies. `ShownIsHeard` and `SavedInTime` compare what has been shown
  and saved with that. The parser calls `tag_content_handler` once for each kind
  of tag, so a lemma about one call (`KindHandled`) goes with an invariant of
  the loop over the kinds (`Touched`). `ParsedOnce` is about the one thing the
  other six do not see, the order of the blocks: it compares the code, which
  searches all the text again with each delta, with a single pass. Its invariant
  is `Parsing`: the pass over the text heard so far has come to the same blocks,
  and a section has not begun or has ended (`BetweenSections`: no tag is left in
  `content` that could begin one, and before the first tag the last text is all
  of `content`) or is open (`SectionOpen`: its end is not in `content`). For
  each way a delta can meet these there is a lemma: it goes to the last block
  (`StaysInBlock`), begins a section (`SectionBegun`) or ends one
  (`SectionEnded`). Induction over the tokens is done with sets of numbers
  (`Climb`), and over a pass with the sequence of its results (`Parses`,
  `ParsesOn`), as a formula cannot be a parameter of a lemma.

The proofs use the modules' named assumptions on constants (null values are not
members of the sets they stand beside, bounds and times are natural numbers).

## 7. What is only model-checked, and what is not modelled

Liveness (`EndedIsForgotten`, `StopIsAnswered`, `CommandEndsTask`,
`CancelledIsDelisted`, `EchoDiesDown`, `StaleLeaves`, `AnswerEnds`) is checked
by TLC only: fairness and `ENABLED` are out of the reach of the proof system's
backends. Every safety property that a run checks is proved, in the case of some
under conditions that the runs which check them meet: `Converged` for editors
that do not leave, or in memory without overlapping; `SeededOnce` for notes
nobody leaves, each editor opening them once, since one that has been cleared is
seeded again; `PoolIsCurrent` and `ClearedOnlyWhenUnused` in memory.

Left out of the modelled components:

* `CollabDocument`: editors that reconnect, several instances, the contents of
  the debounced saves and the note they write, awareness, the access check of a
  join.
* `SharedConfig`: `oauth.*` options, which `PersistentConfig` can be told not to
  store. Writing `CONFIG_DATA` out and committing it is one step: with another
  thread at work on it the code may store what was assigned in the meantime, or
  raise.
* `UsagePool`: the sessions and rooms beside `USAGE_POOL`.
* `RateLimiter`: `remaining`, which is a subtraction, and commands that outlast
  a bucket.
* `ChatStream`: what comes before the model answers (`process_chat_payload`),
  sources, images, usage figures, the generation of titles and tags, chunks that
  cannot be parsed, failing database writes.
* `ChatHistory`: saves that fail; several tabs; the creation of a new chat;
  continuing an answer, and pairs of messages put in by extensions; realtime
  saving; `/chat/completed` changing a text. The order of children is abstracted
  (any child is gone down to), the page learns of a created task at once, and
  the two events of a failing answer are one.
* `ChatLibrary`: pins, titles, messages, permissions, the content of shared
  copies, several processes. Of the writes that may fail those are left out
  whose failure only leaves everything as it was: the first one of a handler,
  where the handler ends with it, and that of a thread.

Of the components without a module, those that section 2 lists have state that
several steps change and are left for later. The others are single-row
operations in one transaction, calls of external services (the Redis failover
client, embedding and vector stores, identity providers, image and audio
services), user interface, migrations or data: what can go wrong in them lies
in code this repository does not contain, or is within reach of a unit test.

## 8. Where code and documentation disagree

All of this was met while modelling. Where a model has the behaviour, the
properties name it as a condition (`seen` in `ChatHistory` and `ChatLibrary`).

Tasks and documents:

* With three tasks of an item `stop_item_tasks` skips one and says all were
  stopped (`tasks.py:175`, `:181`).
* A task that ends before its own `HSET` has been executed stays in the list of
  "currently active" tasks (`tasks.py:117`, `:124`).
* `redis_cleanup_task` deletes an item's set one round trip after it found it
  empty; a task saved in between runs unlisted under its item
  (`tasks.py:64-66`, `:133`).
* An exception of `pubsub.listen()` ends an instance's command listener for
  good, and stops sent to it are lost (`tasks.py:32`, `CHANGELOG.md:1079`).
* A document can keep its log after all users have left: an update suspended in
  the stop of a pending save is logged after the log has been cleared
  (`socket/main.py:592`, `CHANGELOG.md:877`).
* An editor that opens a note again while an update it sent before it left is
  suspended there does not get that update back: it is logged after the editor
  has read the log, and broadcast to all sessions but the sender's
  (`socket/main.py:592`, `:615`). With `Overlap` in memory TLC finds that
  `Converged` fails for this reason, which is why its theorem excludes it.
* With several instances each counts only its own sessions of a document, so
  that two editors may both insert the initial content (`socket/main.py:238`).
* Debounced saves: two updates of one client that are handled while a pending
  save is being stopped can store the older content last; an upload without data
  stops a pending save and starts none (`socket/main.py:592-625`).
* Typing before the state has arrived, when the log is empty, loses the note's
  initial content: the editor uploads what it holds instead of inserting it.

Configuration, pools, limits:

* `PersistentConfig.save` writes the process's own copy of the whole row over
  what others have stored (`config.py:221`, `CHANGELOG.md:377`); an import does
  not reach the Redis keys that reads prefer (`config.py:148`,
  `CHANGELOG.md:2314`); `RESET_CONFIG_ON_START` deletes the row after it has
  been loaded (`main.py:572`, `CHANGELOG.md:2141`).
* A crash, a failed commit or a failed SET leaves row and Redis different
  (`config.py:257`, `:261`). When the SET fails, and the instance lives on, the
  row and its object have the new value, Redis has the old one or none, and the
  other instances go on with the old one; `InstancesAgree` excludes it.
* A thread that has read an option's old value from Redis before another thread
  assigned it writes it to the object afterwards (`config.py:278`); what the
  assignment then stores or publishes is the old value. The instances agree on
  it, and the assignment is lost.
* With several instances `usage` loses a session that another instance adds at
  the same time, and once the cleaning instance is gone the others, which have
  given up, do not take over (`socket/main.py:296`, `:182`, `:226`).
* A rate limiter whose window is not a multiple of the bucket size (give or take
  a second) lets more than the limit through in a window
  (`utils/rate_limit.py:34`, `:25`).

Answers (`utils/middleware.py`, `Chat.svelte`):

* With a second section of the same kind the text before it is repeated; a tag
  opened and closed within one delta is parsed again; a stray closing tag ends
  the next section at once.
* Text is dropped, which the properties exclude by `Regular`: what follows
  `</code_interpreter>` in its delta (`middleware.py:2735`, the stream is left
  before the rest is put anywhere); what follows the end of code whose opening
  tag came while another section, native reasoning or calls were under way, and
  which becomes a block only later (`late`); and what is in a section that
  begins and ends in the very delta in which another of its kind ends, once one
  more section begins (`NothingBegins`). The last two came up as steps the proof
  of `NothingDropped` could not make, and TLC confirms both when it is given
  such deltas.
* Deltas still pending when a stream breaks or is cancelled are not sent
  (`CHANGELOG.md:748`), and when the first stream breaks nothing that was shown
  is saved. An answer without a stream that is cancelled between being shown and
  being saved is not saved.
* With Redis a second command to stop an answer, handled while the first
  cancellation is telling the page (`middleware.py:3229`), skips the save that
  follows: what was shown is lost at the next reload (`tasks.py:39-41`).
* The calls a model has made in a later stream that then breaks are dropped: the
  exception is caught (`middleware.py:3003-3005`) before they are put with those
  to be run (`:2803`), and the answer is shown as done.
* A model that says nothing about the result of its code has the code run again,
  up to five times.
* In realtime mode results of tools, reasoning and the delta that ends code are
  not saved as they come (`CHANGELOG.md:1766`).
* An answer without a stream that is empty or an error sends the page neither
  `done` nor a cancellation.

One chat (`ChatHistory`):

* Deleting a prompt while its answer runs: the answer's next upsert makes a
  message without role, parent and children and displays it.
* The end of a cancelled or failed answer, and a stop, mark the answers that are
  *displayed* as done: running siblings among them, but not an answer that fails
  while another branch is displayed (`Chat.svelte:371`). One finished answer
  sets `taskIds` to null, so that its siblings cannot be stopped any more.
* An answer whose POST fails late is put back as it was when it was sent
  (`Chat.svelte:2003`).
* A save of the page can replace text that a task has saved, and two saves that
  overtake each other lose messages; two tabs overwrite each other.
* Follow-ups that the background tasks add make an older answer the current one
  of the row.
* `chatCompletedHandler` ends with an exception if a message of its list has
  been deleted, and otherwise reverts edits made meanwhile.

Chats and folders (`ChatLibrary`):

* A folder can be dropped on its grandchild: `RecursiveFolder.svelte:626` passes
  on only whether the folder itself, not one above it, is dragged. The cycle and
  its chats are no longer shown, and deleting it ends in a `RecursionError` that
  is caught: nothing is deleted and the answer is success.
* Deleting an archived chat whose tag one other chat has removes that tag's row,
  as the count leaves archived chats out (`routers/chats.py:572`, `:589`).
  Taking all chats out of the archive restores no rows, nor does an import make
  any. A search may delete a row another request is just about to use.
* Cloning a shared chat copies its owner's `folder_id` and tags: the clone is in
  a folder its new owner does not have, and is not shown.
* A crash between deleting folders and their chats leaves chats that are not
  shown; a chat or folder moved to a folder that another page has deleted is not
  shown either. Deleting a folder with its contents leaves shared copies and the
  rows of tags.
* A crash between the deletion of a copy and the clearing of `share_id` makes
  sharing fail until the chat is unshared. Two processes that share one chat at
  once make two copies.
* Two requests that create or rename folders at once can give two the same name.
  So can the repair of folders whose parent is gone, which puts them at the root
  without a look at the names there (`routers/folders.py:71-76`), and a lookup
  that fails, as its exception passes for "no such folder"
  (`models/folders.py:177-179`).
* The lookup takes the name as the pattern of an `ILIKE`
  (`models/folders.py:169`): a name with `%` or `_` collides with names that
  differ from it, and one with a backslash need not be found by itself on
  PostgreSQL, so that two folders of that name can be created.
* Failed writes are swallowed in `models/chats.py`: of the copies when a chat is
  unshared (`:436`), whose link goes all the same (`routers/chats.py:810-811`);
  of the chats of a deleted folder (`models/chats.py:1143`, `:1158`), which stay
  in a folder that is no longer there while the answer is success
  (`routers/folders.py:300-308`).
