--------------------------- MODULE CollabDocument ---------------------------
(***************************************************************************)
(* One collaborative document: the ydoc:document handlers of               *)
(* backend/open_webui/socket/main.py, the YdocManager of socket/utils.py,  *)
(* and the editors that talk to them (SocketIOCollaborationProvider in     *)
(* RichTextInput/Collaboration.ts).                                        *)
(*                                                                         *)
(* Data. A Yjs replica is the set of operations it has received; an        *)
(* operation takes effect once those it builds on have been received, and  *)
(* is kept as pending until then. The server's log is the set of the       *)
(* operations in it: replaying the log merges them, and Doc.get_update of  *)
(* pycrdt encodes the pending ones too.                                    *)
(*                                                                         *)
(* Atomicity. Every message is handled by an asyncio task of its own,      *)
(* started in the order of arrival. `cpu` is the handler that executes. It *)
(* gives way at an await that suspends: in the memory of one process only  *)
(* stopping a pending save and emitting to a room with someone in it do;   *)
(* with Redis every operation of YdocManager does.                         *)
(*                                                                         *)
(* Of the debounced saves only this is kept: stopping one that is pending  *)
(* suspends an update. That one has been created is remembered, at its     *)
(* earliest, and whether it is still pending is left open; nothing here    *)
(* reads the note it writes.                                               *)
(***************************************************************************)
EXTENDS Naturals, Sequences, FiniteSets

CONSTANTS
  Client,       \* editors, each with the socket it was opened on
  NoHandler,    \* the event loop is free
  Redis,        \* YdocManager keeps its state in Redis
  Overlap,      \* a socket may open the note again while its messages are handled
  MaxEdits,     \* bound: operations the users make
  MaxJoins,     \* bound: times an editor is opened
  MaxLeaves     \* bound: times an editor is closed or loses its connection

ASSUME ModeAssumption == Redis \in BOOLEAN /\ Overlap \in BOOLEAN
ASSUME BoundAssumption == MaxEdits \in Nat /\ MaxJoins \in Nat /\ MaxLeaves \in Nat

VARIABLES
  log,      \* server: operations in the update log; {} when there is no log
  users,    \* server: YdocManager's users of the document
  room,     \* server: sessions in the Socket.IO room doc_<id>
  running,  \* server: handlers that have started and not ended
  cpu,      \* server: the handler that executes, or NoHandler
  saving,   \* server: there has been a debounced save; it may be pending
  mode,     \* [Client -> state of the editor]
  known,    \* [Client -> operations its replica has received]
  up,       \* [Client -> messages on their way to the server]
  inbox,    \* [Client -> messages on their way to the client]
  deps,     \* [operation -> operations it builds on], in the order they are made
  seeds,    \* operations that insert the note's initial content
  joins,    \* number of joins so far
  leaves    \* number of leaves and disconnections so far

server == <<log, users, room, running, cpu, saving>>
client == <<mode, known, deps, seeds, joins, leaves>>
vars == <<server, client, up, inbox>>

Op == Nat \ {0}

(* An "upload" is a ydoc:document:update without data to save, a "request" *)
(* is a client's ydoc:document:state.                                      *)
Kind == {"join", "request", "update", "upload", "leave", "gone"}

Handler == [kind : Kind, by : Client,
            ops : SUBSET Op,            \* the update, or the log that was read
            at : {"start", "room", "find", "read", "send", "append", "broadcast",
                  "left", "exists", "count", "clear", "forget", "keys"},
            sessions : SUBSET Client]   \* get_session_ids_from_room

ASSUME NoHandlerAssumption == NoHandler \notin Handler

Message == [kind : Kind, ops : SUBSET Op]

Answer == [kind : {"state", "update"}, ops : SUBSET Op, sessions : SUBSET Client]

TypeOK ==
  /\ log \subseteq Op /\ users \subseteq Client /\ room \subseteq Client
  /\ running \subseteq Handler
  /\ cpu \in running \union {NoHandler}
  /\ saving \in BOOLEAN
  /\ mode \in [Client -> {"out", "joined", "synced", "closed"}]
  /\ known \in [Client -> SUBSET Op]
  /\ up \in [Client -> Seq(Message)]
  /\ inbox \in [Client -> Seq(Answer)]
  /\ deps \in Seq(SUBSET Op)
  /\ seeds \subseteq Op
  /\ joins \in 0 .. MaxJoins
  /\ leaves \in 0 .. MaxLeaves

Init ==
  /\ log = {} /\ users = {} /\ room = {} /\ running = {} /\ cpu = NoHandler
  /\ saving = FALSE
  /\ mode = [c \in Client |-> "out"]
  /\ known = [c \in Client |-> {}]
  /\ up = [c \in Client |-> <<>>]
  /\ inbox = [c \in Client |-> <<>>]
  /\ deps = <<>>
  /\ seeds = {}
  /\ joins = 0
  /\ leaves = 0

(* The operations of S that have taken effect. *)
Effective(S) == {o \in S : deps[o] \subseteq S}

Doc(c) == Effective(known[c])
-----------------------------------------------------------------------------
(* The editor. *)

Send(c, kind, ops) == up' = [up EXCEPT ![c] = Append(@, [kind |-> kind, ops |-> ops])]

(* A note is opened: joinDocument, with an empty Y.Doc. *)
Open(c) ==
  /\ mode[c] = "out"
  /\ ~Overlap => up[c] = <<>> /\ inbox[c] = <<>> /\ \A h \in running : h.by # c
  /\ joins < MaxJoins
  /\ joins' = joins + 1
  /\ mode' = [mode EXCEPT ![c] = "joined"]
  /\ known' = [known EXCEPT ![c] = {}]
  /\ Send(c, "join", {})
  /\ UNCHANGED <<server, inbox, deps, seeds, leaves>>

(* An operation, built on S, is made by c. *)
NewOp == Len(deps) + 1

Make(c, S) ==
  /\ deps' = Append(deps, S)
  /\ known' = [known EXCEPT ![c] = @ \union {NewOp}]

(* The user types: the 'update' event sends the operation. Nothing keeps   *)
(* the user from typing before the server's state has come.                *)
Edit(c) ==
  /\ mode[c] \in {"joined", "synced"}
  /\ Len(deps) - Cardinality(seeds) < MaxEdits
  /\ Make(c, Doc(c))
  /\ Send(c, "update", {NewOp})
  /\ UNCHANGED <<server, inbox, mode, seeds, joins, leaves>>

(* destroy(): the page is left, the socket stays. *)
Close(c) ==
  /\ mode[c] \in {"joined", "synced"}
  /\ leaves < MaxLeaves
  /\ leaves' = leaves + 1
  /\ mode' = [mode EXCEPT ![c] = "out"]
  /\ Send(c, "leave", {})
  /\ UNCHANGED <<server, inbox, known, deps, seeds, joins>>

(* The connection breaks for good, or the tab is closed: what was not yet  *)
(* received is lost in both directions.                                    *)
Disconnect(c) ==
  /\ mode[c] # "closed"
  /\ leaves < MaxLeaves
  /\ leaves' = leaves + 1
  /\ mode' = [mode EXCEPT ![c] = "closed"]
  /\ \E k \in 0 .. Len(up[c]) :
       up' = [up EXCEPT ![c] = Append(SubSeq(@, 1, k), [kind |-> "gone", ops |-> {}])]
  /\ inbox' = [inbox EXCEPT ![c] = <<>>]
  /\ UNCHANGED <<server, known, deps, seeds, joins>>

(* 'ydoc:document:update' from another editor. It is applied without the   *)
(* origin 'server', so what newly takes effect is sent back.               *)
(* Mutant: the update is sent back whether or not it was new. *)
Echo_Always(c, ops) == Send(c, "update", ops)
Echo(c, ops) ==
  LET new == Effective(known[c] \union ops) \ Doc(c) IN
  IF new = {} THEN UNCHANGED up ELSE Send(c, "update", new)

ReceiveUpdate(c, m) ==
  /\ m.kind = "update"
  /\ known' = [known EXCEPT ![c] = @ \union m.ops]
  /\ Echo(c, m.ops)
  /\ UNCHANGED <<mode, deps, seeds>>

(* Mutant: whoever gets an empty state inserts the initial content. *)
MaySeed_Always(m) == TRUE
MaySeed(m) == Cardinality(m.sessions) = 1

(* 'ydoc:document:state': an empty state is answered with the note's       *)
(* initial content by an editor alone in the room, or with what the editor *)
(* already holds; any other state is applied with the origin 'server'.     *)
ReceiveState(c, m) ==
  /\ m.kind = "state"
  /\ mode' = [mode EXCEPT ![c] = "synced"]
  /\ CASE m.ops = {} /\ Doc(c) = {} /\ MaySeed(m) ->
            /\ Make(c, {})
            /\ seeds' = seeds \union {NewOp}
            /\ Send(c, "update", {NewOp})
       [] m.ops = {} /\ Doc(c) = {} /\ ~MaySeed(m) ->
            UNCHANGED <<up, known, deps, seeds>>
       [] m.ops = {} /\ Doc(c) # {} ->
            /\ Send(c, "upload", known[c])
            /\ UNCHANGED <<known, deps, seeds>>
       [] OTHER ->
            /\ known' = [known EXCEPT ![c] = @ \union m.ops]
            /\ UNCHANGED <<up, deps, seeds>>

(* The initial content does not fit the editor's schema: the exception is  *)
(* caught, the editor is not synchronized, and it asks for the state.      *)
SeedFails(c, m) ==
  /\ m.kind = "state" /\ m.ops = {} /\ Doc(c) = {} /\ MaySeed(m)
  /\ mode' = [mode EXCEPT ![c] = "joined"]
  /\ Send(c, "request", {})
  /\ UNCHANGED <<known, deps, seeds>>

Receive(c) ==
  /\ inbox[c] # <<>>
  /\ inbox' = [inbox EXCEPT ![c] = Tail(@)]
  /\ IF mode[c] = "out"
     THEN UNCHANGED <<up, mode, known, deps, seeds>>
     ELSE LET m == Head(inbox[c]) IN
            ReceiveUpdate(c, m) \/ ReceiveState(c, m) \/ SeedFails(c, m)
  /\ UNCHANGED <<server, joins, leaves>>
-----------------------------------------------------------------------------
(* The server. *)

Executes(h, kind, at) ==
  /\ h \in running
  /\ h.kind = kind /\ h.at = at
  /\ cpu \in {NoHandler, h}
  /\ UNCHANGED <<client, up>>

(* h goes on as next, after an await that suspends. *)
Suspends(h, next) ==
  /\ running' = (running \ {h}) \union {next}
  /\ cpu' = NoHandler

(* h goes on as next, after an operation of YdocManager: it suspends only  *)
(* with Redis.                                                             *)
Continues(h, next) ==
  /\ running' = (running \ {h}) \union {next}
  /\ cpu' = IF Redis THEN NoHandler ELSE next

Ends(h) ==
  /\ running' = running \ {h}
  /\ cpu' = NoHandler

(* Emit(m, S): message m to the sessions S. *)
EmitTo(S, m) ==
  inbox' = [c \in Client |-> IF c \in S /\ mode[c] # "closed"
                             THEN Append(inbox[c], m) ELSE inbox[c]]

(* The task for the next message of c starts. *)
Start(c) ==
  /\ cpu = NoHandler
  /\ up[c] # <<>>
  /\ LET h == [kind |-> Head(up[c]).kind, by |-> c, ops |-> Head(up[c]).ops,
               at |-> "start", sessions |-> {}]
     IN running' = running \union {h} /\ cpu' = h
  /\ up' = [up EXCEPT ![c] = Tail(@)]
  /\ UNCHANGED <<log, users, room, saving, client, inbox>>

(* ydoc_document_join: add_user, *)
JoinAddUser(h) ==
  /\ Executes(h, "join", "start")
  /\ users' = users \union {h.by}
  /\ Continues(h, [h EXCEPT !.at = "room"])
  /\ UNCHANGED <<saving, log, room, inbox>>

(* enter_room and the sessions now in the room,                            *)
JoinEnterRoom(h) ==
  /\ Executes(h, "join", "room")
  /\ room' = room \union {h.by}
  /\ Continues(h, [h EXCEPT !.at = "read", !.sessions = room'])
  /\ UNCHANGED <<saving, log, users, inbox>>

(* get_updates, merged in a Y.Doc, *)
State == log

Loads(h, at) == Executes(h, "join", at) \/ Executes(h, "request", at)

JoinReadLog(h) ==
  /\ Loads(h, "read")
  /\ Continues(h, [h EXCEPT !.at = "send", !.ops = State])
  /\ UNCHANGED <<saving, log, users, room, inbox>>

(* and the state to the session that joins. *)
JoinSendState(h) ==
  /\ Loads(h, "send")
  /\ EmitTo({h.by}, [kind |-> "state", ops |-> h.ops, sessions |-> h.sessions])
  /\ Ends(h)
  /\ UNCHANGED <<saving, log, users, room>>

(* yjs_document_state: only a session in the room is answered, *)
RequestSessions(h) ==
  /\ Executes(h, "request", "start")
  /\ IF h.by \in room THEN Continues(h, [h EXCEPT !.at = "find", !.sessions = room])
                       ELSE Ends(h)
  /\ UNCHANGED <<saving, log, users, room, inbox>>

(* and only if there is a log; then the log is read and sent as for a join. *)
RequestExists(h) ==
  /\ Executes(h, "request", "find")
  /\ IF log = {} THEN Ends(h) ELSE Continues(h, [h EXCEPT !.at = "read"])
  /\ UNCHANGED <<saving, log, users, room, inbox>>

Updates(h, at) == Executes(h, "update", at) \/ Executes(h, "upload", at)

(* yjs_document_update: stop_item_tasks waits for a save that is still     *)
(* pending to be cancelled (in Redis mode it sends a command),             *)
UpdateStopSave(h) ==
  /\ Updates(h, "start")
  /\ \/ saving /\ Suspends(h, [h EXCEPT !.at = "append"])
     \/ Continues(h, [h EXCEPT !.at = "append"])
  /\ UNCHANGED <<log, users, room, saving, inbox>>

(* append_to_updates, *)
(* Mutant: an editor alone in the room needs no log. *)
Logged_NotAlone(h) == IF room = {h.by} THEN log ELSE log \union h.ops
Logged(h) == log \union h.ops

UpdateAppend(h) ==
  /\ Updates(h, "append")
  /\ log' = Logged(h)
  /\ Continues(h, [h EXCEPT !.at = "broadcast"])
  /\ UNCHANGED <<users, room, saving, inbox>>

(* the broadcast to the others in the room and, if the update carries data, *)
(* a new debounced save.                                                   *)
UpdateBroadcast(h) ==
  /\ Updates(h, "broadcast")
  /\ EmitTo(room \ {h.by}, [kind |-> "update", ops |-> h.ops, sessions |-> {}])
  /\ saving' = (saving \/ h.kind = "update")
  /\ Ends(h)
  /\ UNCHANGED <<log, users, room>>

(* yjs_document_leave: remove_user, *)
LeaveRemoveUser(h) ==
  /\ Executes(h, "leave", "start")
  /\ users' = users \ {h.by}
  /\ Continues(h, [h EXCEPT !.at = "left"])
  /\ UNCHANGED <<saving, log, room, inbox>>

(* leave_room, and user:left to whoever is left: it suspends if anyone is, *)
LeaveRoom(h) ==
  /\ Executes(h, "leave", "left")
  /\ room' = room \ {h.by}
  /\ IF room' # {} THEN Suspends(h, [h EXCEPT !.at = "exists"])
                   ELSE Continues(h, [h EXCEPT !.at = "exists"])
  /\ UNCHANGED <<saving, log, users, inbox>>

(* document_exists, *)
LeaveExists(h) ==
  /\ Executes(h, "leave", "exists")
  /\ IF log = {} THEN Ends(h) ELSE Continues(h, [h EXCEPT !.at = "count"])
  /\ UNCHANGED <<saving, log, users, room, inbox>>

(* get_users. disconnect does this too, for each document it was told of.  *)
(* Mutant: the users are not counted again. *)
NobodyLeft_Skip(h) == TRUE
NobodyLeft(h) == users = {}

CountUsers(h) ==
  /\ Executes(h, h.kind, "count")
  /\ IF NobodyLeft(h) THEN Continues(h, [h EXCEPT !.at = "clear"])
     ELSE /\ Ends(h)
  /\ room' = IF ~NobodyLeft(h) /\ h.kind = "gone" THEN room \ {h.by} ELSE room
  /\ UNCHANGED <<saving, log, users, inbox>>

(* clear_document: the updates, *)
ClearUpdates(h) ==
  /\ Executes(h, h.kind, "clear")
  /\ log' = {}
  /\ Continues(h, [h EXCEPT !.at = "forget"])
  /\ UNCHANGED <<saving, users, room, inbox>>

(* then the users. A session that disconnects is out of the room when the  *)
(* handler of its disconnection has ended.                                 *)
ClearUsers(h) ==
  /\ Executes(h, h.kind, "forget")
  /\ users' = {}
  /\ room' = IF h.kind = "gone" THEN room \ {h.by} ELSE room
  /\ Ends(h)
  /\ UNCHANGED <<saving, log, inbox>>

(* disconnect, remove_user_from_all_documents: a document without users    *)
(* (in memory: of which the session is no user) is passed over.            *)
GoneListKeys(h) ==
  /\ Executes(h, "gone", "start")
  /\ IF (IF Redis THEN users = {} ELSE h.by \notin users)
     THEN Ends(h) /\ room' = room \ {h.by}
     ELSE Continues(h, [h EXCEPT !.at = "keys"]) /\ UNCHANGED room
  /\ UNCHANGED <<saving, log, users, inbox>>

GoneRemoveUser(h) ==
  /\ Executes(h, "gone", "keys")
  /\ users' = users \ {h.by}
  /\ Continues(h, [h EXCEPT !.at = "count"])
  /\ UNCHANGED <<saving, log, room, inbox>>

Handle(h) ==
  \/ JoinAddUser(h) \/ JoinEnterRoom(h) \/ JoinReadLog(h) \/ JoinSendState(h)
  \/ RequestSessions(h) \/ RequestExists(h)
  \/ UpdateStopSave(h) \/ UpdateAppend(h) \/ UpdateBroadcast(h)
  \/ LeaveRemoveUser(h) \/ LeaveRoom(h) \/ LeaveExists(h)
  \/ CountUsers(h) \/ ClearUpdates(h) \/ ClearUsers(h)
  \/ GoneListKeys(h) \/ GoneRemoveUser(h)
-----------------------------------------------------------------------------
User(c) == Open(c) \/ Edit(c) \/ Close(c) \/ Disconnect(c)

Next ==
  \/ \E c \in Client : User(c) \/ Receive(c) \/ Start(c)
  \/ \E h \in running : Handle(h)

(* Messages arrive and the event loop runs every handler; no user has to   *)
(* do anything.                                                            *)
Fairness ==
  /\ WF_vars(\E h \in running : Handle(h))
  /\ \A c \in Client : WF_vars(Receive(c)) /\ WF_vars(cpu = NoHandler /\ Start(c))

Spec == Init /\ [][Next]_vars /\ Fairness
-----------------------------------------------------------------------------
(* Properties. *)

(* Nothing is being handled and no message is on its way. *)
Quiescent ==
  running = {} /\ \A c \in Client : up[c] = <<>> /\ inbox[c] = <<>>

(* When all is quiet, all editors that have received the state show the    *)
(* same document: no update falls between the log that a joining session   *)
(* is sent and the broadcasts it receives, none is dropped with a log, and *)
(* an operation without what it builds on is shown to nobody.              *)
Converged ==
  Quiescent => \A c, d \in Client :
                 mode[c] = "synced" /\ mode[d] = "synced" => Doc(c) = Doc(d)

(* As long as nobody leaves, so that every editor opens the note once, its *)
(* initial content is inserted at most once, however the joins, requests   *)
(* and first updates of several editors interleave. (A note that all have  *)
(* left has no log, and is filled again by whoever opens it then.)         *)
SeededOnce == Cardinality(seeds) <= 1

(* In the memory of one process the log is cleared only while the document *)
(* has no user: whoever joined while a leave was suspended in its          *)
(* broadcast keeps the log.                                                *)
ClearedOnlyWhenUnused == [][log # {} /\ log' = {} => users = {}]_vars

(* Every editor sends back what it received from the others; this dies     *)
(* down, and all messages and handlers with it.                            *)
EchoDiesDown == <>[]Quiescent
=============================================================================
