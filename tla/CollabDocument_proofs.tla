------------------------ MODULE CollabDocument_proofs ------------------------
(***************************************************************************)
(* What CollabDocument keeps for any number of editors, edits and joins.   *)
(***************************************************************************)
EXTENDS CollabDocument, FiniteSetTheorems, TLAPS

(* The type invariant holds initially and is kept by each kind of step.    *)
LEMMA TypeInit == Init => TypeOK
<1>1. 0 \in 0 .. MaxJoins /\ 0 \in 0 .. MaxLeaves
  BY BoundAssumption
<1>2. \A S : <<>> \in Seq(S)
  OBVIOUS
<1> QED BY <1>1, <1>2 DEF Init, TypeOK

LEMMA EffectiveType ==
  ASSUME NEW S \in SUBSET Op
  PROVE  Effective(S) \in SUBSET Op
BY DEF Effective

LEMMA SendType ==
  ASSUME TypeOK, NEW c \in Client, NEW kind \in Kind,
         NEW ops \in SUBSET Op, Send(c, kind, ops)
  PROVE  up' \in [Client -> Seq(Message)]
<1>1. [kind |-> kind, ops |-> ops] \in Message
  BY DEF Message
<1>2. Append(up[c], [kind |-> kind, ops |-> ops]) \in Seq(Message)
  BY <1>1 DEF TypeOK
<1> QED BY <1>2 DEF Send, TypeOK

LEMMA MakeType ==
  ASSUME TypeOK, NEW c \in Client, NEW S \in SUBSET Op, Make(c, S)
  PROVE  /\ deps' \in Seq(SUBSET Op)
         /\ known' \in [Client -> SUBSET Op]
         /\ NewOp \in Op
<1>1. NewOp \in Op
  BY DEF TypeOK, NewOp, Op
<1> QED BY <1>1 DEF TypeOK, Make

LEMMA EmitType ==
  ASSUME TypeOK, NEW S, NEW m \in Answer, EmitTo(S, m)
  PROVE  inbox' \in [Client -> Seq(Answer)]
<1>1. \A c \in Client : Append(inbox[c], m) \in Seq(Answer)
  BY DEF TypeOK
<1> QED BY <1>1 DEF TypeOK, EmitTo

LEMMA UserType ==
  ASSUME TypeOK, NEW c \in Client, User(c)
  PROVE  TypeOK'
<1>1. CASE Open(c)
  <2>1. up' \in [Client -> Seq(Message)]
    BY <1>1, SendType DEF Open, Kind
  <2>2. joins' \in 0 .. MaxJoins
    BY <1>1, BoundAssumption DEF TypeOK, Open
  <2> QED BY <1>1, <2>1, <2>2 DEF TypeOK, Open, server
<1>2. CASE Edit(c)
  <2>1. Doc(c) \in SUBSET Op
    BY EffectiveType DEF Doc, TypeOK
  <2>2. deps' \in Seq(SUBSET Op) /\ known' \in [Client -> SUBSET Op] /\ NewOp \in Op
    BY <1>2, <2>1, MakeType DEF Edit
  <2>3. up' \in [Client -> Seq(Message)]
    BY <1>2, <2>2, SendType DEF Edit, Kind
  <2> QED BY <1>2, <2>2, <2>3 DEF TypeOK, Edit, server
<1>3. CASE Close(c)
  <2>1. up' \in [Client -> Seq(Message)]
    BY <1>3, SendType DEF Close, Kind
  <2>2. leaves' \in 0 .. MaxLeaves
    BY <1>3, BoundAssumption DEF TypeOK, Close
  <2> QED BY <1>3, <2>1, <2>2 DEF TypeOK, Close, server
<1>4. CASE Disconnect(c)
  <2>1. PICK k \in 0 .. Len(up[c]) :
          up' = [up EXCEPT ![c] = Append(SubSeq(@, 1, k), [kind |-> "gone", ops |-> {}])]
    BY <1>4 DEF Disconnect
  <2>2. SubSeq(up[c], 1, k) \in Seq(Message)
    BY DEF TypeOK
  <2>3. [kind |-> "gone", ops |-> {}] \in Message
    BY DEF Message, Kind
  <2>4. up' \in [Client -> Seq(Message)]
    BY <2>1, <2>2, <2>3 DEF TypeOK
  <2> QED BY <1>4, <2>4, BoundAssumption DEF TypeOK, Disconnect, server
<1> QED BY <1>1, <1>2, <1>3, <1>4 DEF User

LEMMA ReceiveType ==
  ASSUME TypeOK, NEW c \in Client, Receive(c)
  PROVE  TypeOK'
<1>1. inbox[c] \in Seq(Answer) /\ inbox[c] # <<>>
  BY DEF TypeOK, Receive
<1>2. inbox' \in [Client -> Seq(Answer)]
  <2>1. Tail(inbox[c]) \in Seq(Answer)
    BY <1>1
  <2> QED BY <2>1 DEF TypeOK, Receive
<1>3. Head(inbox[c]) \in Answer
  BY <1>1
<1>4. CASE mode[c] = "out"
  BY <1>2, <1>4 DEF Receive, TypeOK, server
<1>5. ASSUME NEW m \in Answer, ReceiveUpdate(c, m)
      PROVE  /\ up' \in [Client -> Seq(Message)]
             /\ known' \in [Client -> SUBSET Op] /\ deps' \in Seq(SUBSET Op)
             /\ mode' \in [Client -> {"out", "joined", "synced", "closed"}] /\ seeds' \subseteq Op
  <2>1. Effective(known[c] \union m.ops) \ Doc(c) \in SUBSET Op
    BY EffectiveType DEF TypeOK, Answer
  <2>2. up' \in [Client -> Seq(Message)]
    BY <1>5, <2>1, SendType DEF ReceiveUpdate, Echo, TypeOK, Kind
  <2> QED BY <1>5, <2>2 DEF ReceiveUpdate, TypeOK, Answer
<1>6. ASSUME NEW m \in Answer, ReceiveState(c, m)
      PROVE  /\ up' \in [Client -> Seq(Message)]
             /\ known' \in [Client -> SUBSET Op] /\ deps' \in Seq(SUBSET Op)
             /\ mode' \in [Client -> {"out", "joined", "synced", "closed"}] /\ seeds' \subseteq Op
  <2>1. CASE m.ops = {} /\ Doc(c) = {} /\ MaySeed(m)
    <3>1. Make(c, {}) /\ seeds' = seeds \union {NewOp} /\ Send(c, "update", {NewOp})
      BY <1>6, <2>1 DEF ReceiveState
    <3>2. deps' \in Seq(SUBSET Op) /\ known' \in [Client -> SUBSET Op] /\ NewOp \in Op
      BY <3>1, MakeType
    <3>3. up' \in [Client -> Seq(Message)]
      BY <3>1, <3>2, SendType DEF Kind
    <3> QED BY <1>6, <3>1, <3>2, <3>3 DEF ReceiveState, TypeOK
  <2>2. CASE m.ops = {} /\ Doc(c) = {} /\ ~MaySeed(m)
    BY <1>6, <2>2 DEF ReceiveState, TypeOK
  <2>3. CASE m.ops = {} /\ Doc(c) # {}
    <3>1. Send(c, "upload", known[c]) /\ UNCHANGED <<known, deps, seeds>>
      BY <1>6, <2>3 DEF ReceiveState
    <3>2. up' \in [Client -> Seq(Message)]
      BY <3>1, SendType DEF TypeOK, Kind
    <3> QED BY <1>6, <3>1, <3>2 DEF ReceiveState, TypeOK
  <2>4. CASE m.ops # {}
    <3>1. /\ mode' = [mode EXCEPT ![c] = "synced"] /\ UNCHANGED <<up, deps, seeds>>
          /\ known' = [known EXCEPT ![c] = @ \union m.ops]
      BY <1>6, <2>4 DEF ReceiveState
    <3> QED BY <3>1 DEF TypeOK, Answer
  <2> QED BY <2>1, <2>2, <2>3, <2>4
<1>7. ASSUME NEW m \in Answer, SeedFails(c, m)
      PROVE  /\ up' \in [Client -> Seq(Message)]
             /\ UNCHANGED <<known, deps, seeds>>
             /\ mode' \in [Client -> {"out", "joined", "synced", "closed"}]
  <2>1. up' \in [Client -> Seq(Message)]
    BY <1>7, SendType DEF SeedFails, Kind
  <2> QED BY <1>7, <2>1 DEF SeedFails, TypeOK
<1>8. CASE mode[c] # "out"
  <2>1. ReceiveUpdate(c, Head(inbox[c])) \/ ReceiveState(c, Head(inbox[c])) \/ SeedFails(c, Head(inbox[c]))
    BY <1>8 DEF Receive
  <2>2. /\ up' \in [Client -> Seq(Message)]
        /\ known' \in [Client -> SUBSET Op] /\ deps' \in Seq(SUBSET Op)
        /\ mode' \in [Client -> {"out", "joined", "synced", "closed"}] /\ seeds' \subseteq Op
    BY <1>3, <1>5, <1>6, <1>7, <2>1 DEF TypeOK
  <2> QED BY <1>2, <2>2 DEF Receive, TypeOK, server
<1> QED BY <1>4, <1>8

LEMMA StartType ==
  ASSUME TypeOK, NEW c \in Client, Start(c)
  PROVE  TypeOK'
<1>1. up[c] \in Seq(Message) /\ up[c] # <<>>
  BY DEF TypeOK, Start
<1>2. Head(up[c]) \in Message /\ Tail(up[c]) \in Seq(Message)
  BY <1>1
<1>3. up' \in [Client -> Seq(Message)]
  BY <1>2 DEF TypeOK, Start
<1>4. [kind |-> Head(up[c]).kind, by |-> c, ops |-> Head(up[c]).ops,
       at |-> "start", sessions |-> {}] \in Handler
  BY <1>2 DEF Handler, Message
<1> QED BY <1>3, <1>4 DEF Start, TypeOK, client

(* How a handler goes on or ends. *)
LEMMA GoesOnType ==
  ASSUME TypeOK, NEW h \in running, NEW next \in Handler,
         Suspends(h, next) \/ Continues(h, next)
  PROVE  running' \subseteq Handler /\ cpu' \in running' \union {NoHandler}
BY DEF Suspends, Continues, TypeOK

LEMMA EndsType ==
  ASSUME TypeOK, NEW h \in running, Ends(h)
  PROVE  running' \subseteq Handler /\ cpu' \in running' \union {NoHandler}
BY DEF Ends, TypeOK

(* A handler changes nothing of the editors.                               *)
LEMMA HandleQuiet ==
  ASSUME NEW h, Handle(h)
  PROVE  UNCHANGED <<client, up>>
BY DEF Handle, JoinAddUser, JoinEnterRoom, JoinReadLog, JoinSendState, RequestSessions,
       RequestExists, UpdateStopSave, UpdateAppend, UpdateBroadcast, LeaveRemoveUser, LeaveRoom,
       LeaveExists, CountUsers, ClearUpdates, ClearUsers, GoneListKeys, GoneRemoveUser, Loads,
       Updates, Executes

LEMMA HandleType ==
  ASSUME TypeOK, NEW h \in running, Handle(h)
  PROVE  TypeOK'
<1>0. h \in Handler
  BY DEF TypeOK
<1>1. UNCHANGED <<client, up>>
  BY HandleQuiet
<1> SUFFICES /\ log' \subseteq Op /\ users' \subseteq Client /\ room' \subseteq Client
             /\ running' \subseteq Handler /\ cpu' \in running' \union {NoHandler}
             /\ saving' \in BOOLEAN /\ inbox' \in [Client -> Seq(Answer)]
  BY <1>1 DEF TypeOK, client
<1>2. CASE JoinAddUser(h)
  BY <1>0, <1>2, GoesOnType DEF JoinAddUser, TypeOK, Handler
<1>3. CASE JoinEnterRoom(h)
  <2>1. room' \subseteq Client
    BY <1>0, <1>3 DEF JoinEnterRoom, TypeOK, Handler
  <2>2. [h EXCEPT !.at = "read", !.sessions = room'] \in Handler
    BY <1>0, <2>1 DEF Handler
  <2> QED BY <1>3, <2>1, <2>2, GoesOnType DEF JoinEnterRoom, TypeOK
<1>4. CASE JoinReadLog(h)
  <2>1. [h EXCEPT !.at = "send", !.ops = State] \in Handler
    BY <1>0 DEF Handler, State, TypeOK
  <2> QED BY <1>4, <2>1, GoesOnType DEF JoinReadLog, TypeOK
<1>5. CASE JoinSendState(h)
  <2>1. [kind |-> "state", ops |-> h.ops, sessions |-> h.sessions] \in Answer
    BY <1>0 DEF Handler, Answer
  <2> QED BY <1>5, <2>1, EmitType, EndsType DEF JoinSendState, TypeOK
<1>6. CASE UpdateStopSave(h)
  <2>1. [h EXCEPT !.at = "append"] \in Handler
    BY <1>0 DEF Handler
  <2> QED BY <1>6, <2>1, GoesOnType DEF UpdateStopSave, TypeOK
<1>7. CASE UpdateAppend(h)
  <2>1. [h EXCEPT !.at = "broadcast"] \in Handler /\ h.ops \subseteq Op
    BY <1>0 DEF Handler
  <2> QED BY <1>7, <2>1, GoesOnType DEF UpdateAppend, Logged, TypeOK
<1>8. CASE UpdateBroadcast(h)
  <2>1. [kind |-> "update", ops |-> h.ops, sessions |-> {}] \in Answer
    BY <1>0 DEF Handler, Answer
  <2> QED BY <1>8, <2>1, EmitType, EndsType DEF UpdateBroadcast, TypeOK
<1>9. CASE LeaveRemoveUser(h)
  <2>1. [h EXCEPT !.at = "left"] \in Handler
    BY <1>0 DEF Handler
  <2> QED BY <1>9, <2>1, GoesOnType DEF LeaveRemoveUser, TypeOK
<1>10. CASE LeaveRoom(h)
  <2>1. [h EXCEPT !.at = "exists"] \in Handler
    BY <1>0 DEF Handler
  <2> QED BY <1>10, <2>1, GoesOnType DEF LeaveRoom, TypeOK
<1>11. CASE LeaveExists(h)
  <2>1. [h EXCEPT !.at = "count"] \in Handler
    BY <1>0 DEF Handler
  <2> QED BY <1>11, <2>1, GoesOnType, EndsType DEF LeaveExists, TypeOK
<1>12. CASE CountUsers(h)
  <2>1. [h EXCEPT !.at = "clear"] \in Handler
    BY <1>0 DEF Handler
  <2> QED BY <1>12, <2>1, GoesOnType, EndsType DEF CountUsers, TypeOK
<1>13. CASE ClearUpdates(h)
  <2>1. [h EXCEPT !.at = "forget"] \in Handler
    BY <1>0 DEF Handler
  <2> QED BY <1>13, <2>1, GoesOnType DEF ClearUpdates, TypeOK
<1>14. CASE ClearUsers(h)
  BY <1>14, EndsType DEF ClearUsers, TypeOK
<1>15. CASE GoneListKeys(h)
  <2>1. [h EXCEPT !.at = "keys"] \in Handler
    BY <1>0 DEF Handler
  <2>2. CASE Ends(h) /\ room' = room \ {h.by}
    BY <1>15, <2>2, EndsType DEF GoneListKeys, TypeOK
  <2>3. CASE Continues(h, [h EXCEPT !.at = "keys"]) /\ UNCHANGED room
    BY <1>15, <2>1, <2>3, GoesOnType DEF GoneListKeys, TypeOK
  <2> QED BY <1>15, <2>2, <2>3 DEF GoneListKeys
<1>16. CASE GoneRemoveUser(h)
  <2>1. [h EXCEPT !.at = "count"] \in Handler
    BY <1>0 DEF Handler
  <2> QED BY <1>16, <2>1, GoesOnType DEF GoneRemoveUser, TypeOK
<1>17. CASE RequestSessions(h)
  <2>1. [h EXCEPT !.at = "find", !.sessions = room] \in Handler
    BY <1>0 DEF Handler, TypeOK
  <2> QED BY <1>17, <2>1, GoesOnType, EndsType DEF RequestSessions, TypeOK
<1>18. CASE RequestExists(h)
  <2>1. [h EXCEPT !.at = "read"] \in Handler
    BY <1>0 DEF Handler
  <2> QED BY <1>18, <2>1, GoesOnType, EndsType DEF RequestExists, TypeOK
<1> QED
  BY <1>2, <1>3, <1>4, <1>5, <1>6, <1>7, <1>8, <1>9, <1>10, <1>11, <1>12, <1>13, <1>14,
     <1>15, <1>16, <1>17, <1>18 DEF Handle

LEMMA TypeStep ==
  ASSUME TypeOK, [Next]_vars
  PROVE  TypeOK'
<1>1. CASE UNCHANGED vars
  BY <1>1 DEF TypeOK, vars, server, client
<1> QED BY <1>1, UserType, ReceiveType, StartType, HandleType DEF Next

(* The server, the editors and all messages stay well formed.              *)
THEOREM TypesHold == Spec => []TypeOK
<1> QED BY TypeInit, TypeStep, PTL DEF Spec
-----------------------------------------------------------------------------
(* As long as nobody leaves, in memory and with Redis: convergence, and    *)
(* that the initial content is inserted once.                              *)

Edits == {"update", "upload"}
Loaders == {"join", "request"}
Sent(c) == {up[c][i] : i \in DOMAIN up[c]}
Coming(c) == {inbox[c][i] : i \in DOMAIN inbox[c]}

(* The note is open in the editor. Nothing is sent to a connection that is *)
(* gone.                                                                   *)
Present(c) == mode[c] \in {"joined", "synced"}
Shut == \A c \in Client : mode[c] = "closed" => inbox[c] = <<>>

(* Only joins and updates are on their way and handled, and nobody who has *)
(* not opened the note has anything to do with it.                         *)
StepsOk ==
  \A h \in running :
    \/ h.kind = "join" /\ h.at \in {"start", "room", "read", "send"}
    \/ h.kind = "request" /\ h.at \in {"start", "find", "read", "send"}
    \/ h.kind \in Edits /\ h.at \in {"start", "append", "broadcast"}
NobodyLeaves ==
  \A c \in Client : mode[c] # "closed" /\ \A m \in Sent(c) : m.kind \in Edits \union Loaders
Unopened ==
  \A c \in Client : mode[c] = "out" =>
    up[c] = <<>> /\ inbox[c] = <<>> /\ c \notin room /\ \A h \in running : h.by # c
Stay == StepsOk /\ NobodyLeaves /\ Unopened

(* How messages get on their way and off it.                               *)
LEMMA SendSent ==
  ASSUME TypeOK, NEW c \in Client, NEW kind, NEW ops, Send(c, kind, ops)
  PROVE  /\ Sent(c)' = Sent(c) \union {[kind |-> kind, ops |-> ops]}
         /\ \A d \in Client \ {c} : up'[d] = up[d]
         /\ up'[c] = Append(up[c], [kind |-> kind, ops |-> ops])
<1> DEFINE m == [kind |-> kind, ops |-> ops]
<1>1. up[c] \in Seq(Message)
  BY DEF TypeOK
<1>2. /\ up'[c] = Append(up[c], m)
      /\ \A d \in Client \ {c} : up'[d] = up[d]
  BY DEF Send, TypeOK
<1>3. /\ DOMAIN Append(up[c], m) = DOMAIN up[c] \union {Len(up[c]) + 1}
      /\ \A i \in DOMAIN up[c] : Append(up[c], m)[i] = up[c][i]
      /\ Append(up[c], m)[Len(up[c]) + 1] = m
  BY <1>1
<1>4. Sent(c)' = {Append(up[c], m)[i] : i \in DOMAIN Append(up[c], m)}
  BY <1>2 DEF Sent
<1> QED BY <1>2, <1>3, <1>4 DEF Sent

LEMMA StartSent ==
  ASSUME TypeOK, NEW c \in Client, Start(c)
  PROVE  /\ Head(up[c]) \in Message
         /\ Sent(c) = Sent(c)' \union {Head(up[c])}
         /\ \A d \in Client \ {c} : up'[d] = up[d]
         /\ up'[c] = Tail(up[c])
<1>1. up[c] \in Seq(Message) /\ up[c] # <<>>
  BY DEF TypeOK, Start
<1>2. up'[c] = Tail(up[c]) /\ \A d \in Client \ {c} : up'[d] = up[d]
  BY DEF Start, TypeOK
<1>3. /\ Head(up[c]) \in Message /\ Head(up[c]) = up[c][1]
      /\ DOMAIN up[c] = 1 .. Len(up[c]) /\ Len(up[c]) \in Nat \ {0}
      /\ DOMAIN Tail(up[c]) = 1 .. Len(up[c]) - 1
      /\ \A i \in 1 .. Len(up[c]) - 1 : Tail(up[c])[i] = up[c][i + 1]
  BY <1>1
<1>4. Sent(c)' = {Tail(up[c])[i] : i \in DOMAIN Tail(up[c])}
  BY <1>2 DEF Sent
<1>5. Sent(c)' \subseteq Sent(c) /\ Head(up[c]) \in Sent(c)
  <2>1. ASSUME NEW i \in 1 .. Len(up[c]) - 1
        PROVE  i + 1 \in DOMAIN up[c] /\ Tail(up[c])[i] = up[c][i + 1]
    BY <1>3
  <2>2. 1 \in DOMAIN up[c]
    BY <1>3
  <2> QED BY <1>3, <1>4, <2>1, <2>2 DEF Sent
<1>6. ASSUME NEW i \in DOMAIN up[c]
      PROVE  up[c][i] \in Sent(c)' \union {Head(up[c])}
  <2>1. CASE i = 1
    BY <2>1, <1>3
  <2>2. CASE i # 1
    <3>1. i - 1 \in 1 .. Len(up[c]) - 1 /\ Tail(up[c])[i - 1] = up[c][i]
      BY <1>3, <2>2
    <3> QED BY <3>1, <1>3, <1>4
  <2> QED BY <2>1, <2>2
<1> QED BY <1>2, <1>3, <1>5, <1>6 DEF Sent

LEMMA EmitComing ==
  ASSUME TypeOK, NEW S, NEW m, EmitTo(S, m)
  PROVE  \A c \in Client : mode[c] # "closed" =>
           /\ Coming(c)' = IF c \in S THEN Coming(c) \union {m} ELSE Coming(c)
           /\ inbox'[c] = IF c \in S THEN Append(inbox[c], m) ELSE inbox[c]
<1> SUFFICES ASSUME NEW c \in Client, mode[c] # "closed"
             PROVE  /\ Coming(c)' = IF c \in S THEN Coming(c) \union {m} ELSE Coming(c)
                    /\ inbox'[c] = IF c \in S THEN Append(inbox[c], m) ELSE inbox[c]
  OBVIOUS
<1>1. inbox'[c] = IF c \in S THEN Append(inbox[c], m) ELSE inbox[c]
  BY DEF EmitTo
<1>2. inbox[c] \in Seq(Answer)
  BY DEF TypeOK
<1>3. /\ DOMAIN Append(inbox[c], m) = DOMAIN inbox[c] \union {Len(inbox[c]) + 1}
      /\ \A i \in DOMAIN inbox[c] : Append(inbox[c], m)[i] = inbox[c][i]
      /\ Append(inbox[c], m)[Len(inbox[c]) + 1] = m
  BY <1>2
<1>4. Coming(c)' = {inbox'[c][i] : i \in DOMAIN inbox'[c]}
  BY DEF Coming
<1> QED BY <1>1, <1>3, <1>4 DEF Coming

LEMMA ReceiveComing ==
  ASSUME TypeOK, NEW c \in Client, Receive(c)
  PROVE  /\ Head(inbox[c]) \in Answer
         /\ Coming(c) = Coming(c)' \union {Head(inbox[c])}
         /\ \A d \in Client \ {c} : inbox'[d] = inbox[d]
         /\ inbox'[c] = Tail(inbox[c])
<1>1. inbox[c] \in Seq(Answer) /\ inbox[c] # <<>>
  BY DEF TypeOK, Receive
<1>2. inbox'[c] = Tail(inbox[c]) /\ \A d \in Client \ {c} : inbox'[d] = inbox[d]
  BY DEF Receive, TypeOK
<1>3. /\ Head(inbox[c]) \in Answer /\ Head(inbox[c]) = inbox[c][1]
      /\ DOMAIN inbox[c] = 1 .. Len(inbox[c]) /\ Len(inbox[c]) \in Nat \ {0}
      /\ DOMAIN Tail(inbox[c]) = 1 .. Len(inbox[c]) - 1
      /\ \A i \in 1 .. Len(inbox[c]) - 1 : Tail(inbox[c])[i] = inbox[c][i + 1]
  BY <1>1
<1>4. Coming(c)' = {Tail(inbox[c])[i] : i \in DOMAIN Tail(inbox[c])}
  BY <1>2 DEF Coming
<1>5. Coming(c)' \subseteq Coming(c) /\ Head(inbox[c]) \in Coming(c)
  <2>1. ASSUME NEW i \in 1 .. Len(inbox[c]) - 1
        PROVE  i + 1 \in DOMAIN inbox[c] /\ Tail(inbox[c])[i] = inbox[c][i + 1]
    BY <1>3
  <2>2. 1 \in DOMAIN inbox[c]
    BY <1>3
  <2> QED BY <1>3, <1>4, <2>1, <2>2 DEF Coming
<1>6. ASSUME NEW i \in DOMAIN inbox[c]
      PROVE  inbox[c][i] \in Coming(c)' \union {Head(inbox[c])}
  <2>1. CASE i = 1
    BY <2>1, <1>3
  <2>2. CASE i # 1
    <3>1. i - 1 \in 1 .. Len(inbox[c]) - 1 /\ Tail(inbox[c])[i - 1] = inbox[c][i]
      BY <1>3, <2>2
    <3> QED BY <3>1, <1>3, <1>4
  <2> QED BY <2>1, <2>2
<1> QED BY <1>2, <1>3, <1>5, <1>6 DEF Coming

(* The handlers there are.                                                 *)
LEMMA StayHandlers ==
  ASSUME TypeOK, Stay, NEW h \in running, Handle(h)
  PROVE  \/ JoinAddUser(h) \/ JoinEnterRoom(h) \/ JoinReadLog(h) \/ JoinSendState(h)
         \/ RequestSessions(h) \/ RequestExists(h)
         \/ UpdateStopSave(h) \/ UpdateAppend(h) \/ UpdateBroadcast(h)
<1>1. /\ h.kind \notin {"leave", "gone"} /\ h.at \notin {"left", "exists", "count", "clear", "forget", "keys"}
  BY DEF Stay, StepsOk, Edits
<1> QED BY <1>1 DEF Handle, LeaveRemoveUser, LeaveRoom, LeaveExists, CountUsers, ClearUpdates,
                    ClearUsers, GoneListKeys, GoneRemoveUser, Executes

LEMMA StayInit == Init => Stay
BY DEF Init, Stay, StepsOk, NobodyLeaves, Unopened, Sent

LEMMA OpenStays ==
  ASSUME TypeOK, Stay, NEW c \in Client, Open(c)
  PROVE  Stay'
<1>1. Sent(c)' = Sent(c) \union {[kind |-> "join", ops |-> {}]} /\ \A d \in Client \ {c} : up'[d] = up[d]
  BY SendSent DEF Open
<1>2. mode'[c] = "joined" /\ \A d \in Client \ {c} : mode'[d] = mode[d]
  BY DEF Open, TypeOK
<1>3. \A d \in Client \ {c} : Sent(d)' = Sent(d)
  BY <1>1 DEF Sent
<1>4. UNCHANGED <<running, room, inbox>>
  BY DEF Open, server
<1>5. NobodyLeaves'
  BY <1>1, <1>2, <1>3 DEF NobodyLeaves, Stay, Loaders
<1> QED BY <1>1, <1>2, <1>4, <1>5 DEF Stay, StepsOk, Unopened

LEMMA EditStays ==
  ASSUME TypeOK, Stay, NEW c \in Client, Edit(c)
  PROVE  Stay'
<1>1. Sent(c)' = Sent(c) \union {[kind |-> "update", ops |-> {NewOp}]} /\ \A d \in Client \ {c} : up'[d] = up[d]
  BY SendSent DEF Edit
<1>2. \A d \in Client \ {c} : Sent(d)' = Sent(d)
  BY <1>1 DEF Sent
<1>3. UNCHANGED <<running, room, mode, inbox>> /\ mode[c] # "out"
  BY DEF Edit, server
<1>4. NobodyLeaves'
  BY <1>1, <1>2, <1>3 DEF NobodyLeaves, Stay, Edits
<1> QED BY <1>1, <1>3, <1>4 DEF Stay, StepsOk, Unopened

LEMMA StayShut == Stay => Shut
BY DEF Stay, NobodyLeaves, Shut

(* A message received: what it changes.                                    *)
LEMMA ReceiveEffect ==
  ASSUME TypeOK, Shut, NEW c \in Client, Receive(c)
  PROVE  \E m \in Answer :
           /\ m = Head(inbox[c])
           /\ Coming(c) = Coming(c)' \union {m}
           /\ \A d \in Client \ {c} : inbox'[d] = inbox[d] /\ known'[d] = known[d]
                                      /\ mode'[d] = mode[d] /\ up'[d] = up[d]
           /\ UNCHANGED server
           /\ mode[c] # "out" => m.ops \subseteq known'[c]
           /\ known[c] \subseteq known'[c]
           /\ \/ UNCHANGED <<up, known, seeds, mode>> /\ mode[c] = "out"
              \/ \E kind \in Edits \union {"request"}, ops \in SUBSET Op :
                   /\ Present(c) /\ mode'[c] \in {"joined", "synced"}
                   /\ UNCHANGED up \/ Send(c, kind, ops)
                   /\ ops \subseteq known'[c] /\ (kind = "request" => ops = {})
                   /\ \/ known'[c] = known[c] \union m.ops /\ UNCHANGED seeds
                      \/ /\ known'[c] = known[c] \union ops /\ Send(c, kind, ops)
                         /\ seeds' = seeds \union ops /\ ops = {NewOp}
                         /\ m.kind = "state" /\ m.ops = {} /\ MaySeed(m)
<1> DEFINE m == Head(inbox[c])
<1>1. /\ m \in Answer /\ Coming(c) = Coming(c)' \union {m}
      /\ \A d \in Client \ {c} : inbox'[d] = inbox[d]
  BY ReceiveComing
<1>2. UNCHANGED server
  BY DEF Receive
<1>3. CASE mode[c] = "out"
  BY <1>1, <1>2, <1>3 DEF Receive
<1>6. mode[c] # "out" => Present(c)
  BY DEF Shut, Receive, Present, TypeOK
<1>4. CASE mode[c] # "out" /\ ReceiveUpdate(c, m)
  <2> DEFINE new == Effective(known[c] \union m.ops) \ Doc(c)
  <2>1. known'[c] = known[c] \union m.ops /\ \A d \in Client \ {c} : known'[d] = known[d]
    BY <1>4 DEF ReceiveUpdate, TypeOK
  <2>2. UNCHANGED <<mode, seeds>> /\ mode[c] \in {"joined", "synced"}
    BY <1>4, <1>6 DEF ReceiveUpdate, Present
  <2>3. new \subseteq known'[c] /\ new \in SUBSET Op
    BY <1>1, <2>1 DEF Effective, TypeOK, Answer
  <2>4. UNCHANGED up \/ Send(c, "update", new)
    BY <1>4 DEF ReceiveUpdate, Echo
  <2>5. \A d \in Client \ {c} : up'[d] = up[d]
    BY <2>4 DEF Send, TypeOK
  <2>6. "update" \in Edits \union {"request"}
    BY DEF Edits
  <2> QED BY <1>1, <1>2, <1>6, <1>4, <2>1, <2>2, <2>3, <2>4, <2>5, <2>6
<1>5. CASE mode[c] # "out" /\ ReceiveState(c, m)
  <2>0. /\ mode'[c] = "synced" /\ (\A d \in Client \ {c} : mode'[d] = mode[d]) /\ m.kind = "state"
    BY <1>5 DEF ReceiveState, TypeOK
  <2>1. CASE m.ops = {} /\ Doc(c) = {} /\ MaySeed(m)
    <3>1. Make(c, {}) /\ seeds' = seeds \union {NewOp} /\ Send(c, "update", {NewOp})
      BY <1>5, <2>1 DEF ReceiveState
    <3>2. /\ known'[c] = known[c] \union {NewOp}
          /\ \A d \in Client \ {c} : known'[d] = known[d] /\ up'[d] = up[d]
      BY <3>1 DEF Make, Send, TypeOK
    <3>3. NewOp \in Op
      BY DEF TypeOK, NewOp, Op
    <3> QED BY <1>1, <1>2, <1>6, <1>5, <2>0, <2>1, <3>1, <3>2, <3>3 DEF Edits
  <2>2. CASE m.ops = {} /\ Doc(c) = {} /\ ~MaySeed(m)
    <3>1. UNCHANGED <<up, known, seeds>>
      BY <1>5, <2>2 DEF ReceiveState
    <3> QED BY <1>1, <1>2, <1>6, <1>5, <2>0, <2>2, <3>1 DEF Edits
  <2>3. CASE m.ops = {} /\ Doc(c) # {}
    <3>1. Send(c, "upload", known[c]) /\ UNCHANGED <<known, seeds>>
      BY <1>5, <2>3 DEF ReceiveState
    <3>2. (\A d \in Client \ {c} : up'[d] = up[d]) /\ known[c] \in SUBSET Op
      BY <3>1 DEF Send, TypeOK
    <3> QED BY <1>1, <1>2, <1>6, <1>5, <2>0, <2>3, <3>1, <3>2 DEF Edits
  <2>4. CASE m.ops # {}
    <3>1. known' = [known EXCEPT ![c] = @ \union m.ops] /\ UNCHANGED <<up, seeds>>
      BY <1>5, <2>4 DEF ReceiveState
    <3>2. known'[c] = known[c] \union m.ops /\ \A d \in Client \ {c} : known'[d] = known[d]
      BY <3>1 DEF TypeOK
    <3>3. "update" \in Edits /\ {} \in SUBSET Op /\ m.ops \subseteq known'[c]
      BY <3>2 DEF Edits
    <3>4. UNCHANGED up /\ {} \subseteq known'[c] /\ mode'[c] \in {"joined", "synced"}
      BY <3>1, <2>0
    <3> QED BY <1>1, <1>2, <1>6, <1>5, <2>0, <3>1, <3>2, <3>3, <3>4
  <2> QED BY <2>1, <2>2, <2>3, <2>4
<1>7. CASE mode[c] # "out" /\ SeedFails(c, m)
  <2>1. /\ mode'[c] = "joined" /\ (\A d \in Client \ {c} : mode'[d] = mode[d])
        /\ Send(c, "request", {}) /\ UNCHANGED <<known, seeds>> /\ m.ops = {}
    BY <1>7 DEF SeedFails, TypeOK
  <2>2. \A d \in Client \ {c} : up'[d] = up[d]
    BY <2>1 DEF Send, TypeOK
  <2>3. known'[c] = known[c] \union m.ops
    BY <2>1
  <2>4. {} \in SUBSET Op /\ {} \subseteq known'[c] /\ "request" \in Edits \union {"request"}
    OBVIOUS
  <2> QED BY <1>1, <1>2, <1>6, <1>7, <2>1, <2>2, <2>3, <2>4
<1> QED BY <1>3, <1>4, <1>5, <1>7 DEF Receive

LEMMA ReceiveStays ==
  ASSUME TypeOK, Stay, NEW c \in Client, Receive(c)
  PROVE  Stay'
<1>1. PICK m \in Answer :
        /\ \A d \in Client \ {c} : mode'[d] = mode[d] /\ up'[d] = up[d]
        /\ \A d \in Client \ {c} : inbox'[d] = inbox[d]
        /\ UNCHANGED server
        /\ \/ UNCHANGED <<up, mode>> /\ mode[c] = "out"
           \/ \E kind \in Edits \union {"request"}, ops \in SUBSET Op :
                /\ Present(c) /\ mode'[c] \in {"joined", "synced"}
                /\ UNCHANGED up \/ Send(c, kind, ops)
  BY StayShut, ReceiveEffect
<1>2. UNCHANGED <<running, room>> /\ inbox[c] # <<>>
  BY <1>1 DEF server, Receive
<1>3. \A d \in Client \ {c} : Sent(d)' = Sent(d)
  BY <1>1 DEF Sent
<1>4. \A o \in Sent(c)' : o.kind \in Edits \union Loaders
  <2>1. CASE UNCHANGED up
    BY <2>1 DEF Sent, Stay, NobodyLeaves
  <2>2. ASSUME NEW kind \in Edits \union {"request"}, NEW ops \in SUBSET Op, Send(c, kind, ops)
        PROVE  \A o \in Sent(c)' : o.kind \in Edits \union Loaders
    <3>1. Sent(c)' = Sent(c) \union {[kind |-> kind, ops |-> ops]}
      BY <2>2, SendSent
    <3> QED BY <3>1 DEF Stay, NobodyLeaves, Loaders
  <2> QED BY <1>1, <2>1, <2>2
<1>5. mode'[c] # "closed" /\ (mode'[c] = "out" => mode[c] = "out" /\ UNCHANGED up)
  BY <1>1 DEF Stay, NobodyLeaves, Present
<1>6. NobodyLeaves'
  BY <1>1, <1>3, <1>4, <1>5 DEF Stay, NobodyLeaves
<1>7. Unopened'
  BY <1>1, <1>2, <1>5 DEF Stay, Unopened
<1> QED BY <1>2, <1>6, <1>7 DEF Stay, StepsOk

LEMMA StartStays ==
  ASSUME TypeOK, Stay, NEW c \in Client, Start(c)
  PROVE  Stay'
<1>1. /\ Head(up[c]) \in Message /\ Sent(c) = Sent(c)' \union {Head(up[c])}
      /\ \A d \in Client \ {c} : up'[d] = up[d]
  BY StartSent
<1>2. \A d \in Client \ {c} : Sent(d)' = Sent(d)
  BY <1>1 DEF Sent
<1>3. PICK h : h.kind = Head(up[c]).kind /\ h.by = c /\ h.at = "start" /\ running' = running \union {h}
  BY DEF Start
<1>4. Head(up[c]).kind \in Edits \union Loaders /\ mode[c] # "out"
  BY <1>1 DEF Stay, NobodyLeaves, Unopened, Start
<1>5. UNCHANGED <<room, mode, inbox>>
  BY DEF Start, client
<1>6. StepsOk'
  BY <1>3, <1>4 DEF Stay, StepsOk, Loaders
<1>7. NobodyLeaves'
  BY <1>1, <1>2, <1>5 DEF Stay, NobodyLeaves
<1>8. Unopened'
  BY <1>1, <1>3, <1>4, <1>5 DEF Stay, Unopened
<1> QED BY <1>6, <1>7, <1>8 DEF Stay

(* A handler goes on as one of the same kind for the same editor, or ends. *)
LEMMA HandlerGoesOn ==
  ASSUME TypeOK, Stay, NEW h \in running, Handle(h)
  PROVE  /\ UNCHANGED <<mode, known, deps, seeds, up>>
         /\ h \in Handler
         /\ \/ running' = running \ {h}
            \/ \E g : running' = (running \ {h}) \union {g} /\ g.kind = h.kind /\ g.by = h.by
                      /\ \/ h.kind = "join" /\ g.at \in {"room", "read", "send"}
                         \/ h.kind = "request" /\ g.at \in {"find", "read", "send"}
                         \/ h.kind \in Edits /\ g.at \in {"append", "broadcast"} /\ g.ops = h.ops
         /\ room' = room \/ (room' = room \union {h.by} /\ h.kind = "join")
         /\ log' = log \/ (log' = log \union h.ops /\ h.kind \in Edits)
         /\ \A c \in Client : inbox'[c] = inbox[c] \/ c = h.by \/ c \in room
<1>1. h \in Handler
  BY DEF TypeOK
<1>2. UNCHANGED <<mode, known, deps, seeds, up>>
  BY HandleQuiet DEF client
<1>3. CASE JoinAddUser(h)
  <2> DEFINE g == [h EXCEPT !.at = "room"]
  <2>1. g.kind = h.kind /\ g.by = h.by /\ g.at = "room"
    BY <1>1 DEF Handler
  <2>2. running' = (running \ {h}) \union {g} /\ h.kind = "join" /\ room' = room /\ log' = log /\ inbox' = inbox
    BY <1>3 DEF JoinAddUser, Continues, Executes
  <2> QED BY <1>1, <1>2, <2>1, <2>2
<1>4. CASE JoinEnterRoom(h)
  <2> DEFINE g == [h EXCEPT !.at = "read", !.sessions = room']
  <2>1. g.kind = h.kind /\ g.by = h.by /\ g.at = "read"
    BY <1>1 DEF Handler
  <2>2. /\ running' = (running \ {h}) \union {g} /\ h.kind = "join"
        /\ room' = room \union {h.by} /\ log' = log /\ inbox' = inbox
    BY <1>4 DEF JoinEnterRoom, Continues, Executes
  <2> QED BY <1>1, <1>2, <2>1, <2>2
<1>5. CASE JoinReadLog(h)
  <2> DEFINE g == [h EXCEPT !.at = "send", !.ops = State]
  <2>1. g.kind = h.kind /\ g.by = h.by /\ g.at = "send"
    BY <1>1 DEF Handler
  <2>2. running' = (running \ {h}) \union {g} /\ h.kind \in Loaders /\ room' = room /\ log' = log /\ inbox' = inbox
    BY <1>5 DEF JoinReadLog, Continues, Loads, Executes, Loaders
  <2> QED BY <1>1, <1>2, <2>1, <2>2 DEF Loaders
<1>6. CASE JoinSendState(h)
  BY <1>1, <1>2, <1>6 DEF JoinSendState, Ends, EmitTo
<1>7. CASE UpdateStopSave(h)
  <2> DEFINE g == [h EXCEPT !.at = "append"]
  <2>1. g.kind = h.kind /\ g.by = h.by /\ g.at = "append" /\ g.ops = h.ops
    BY <1>1 DEF Handler
  <2>2. running' = (running \ {h}) \union {g} /\ h.kind \in Edits /\ room' = room /\ log' = log /\ inbox' = inbox
    BY <1>7 DEF UpdateStopSave, Continues, Suspends, Updates, Executes, Edits
  <2> QED BY <1>1, <1>2, <2>1, <2>2
<1>8. CASE UpdateAppend(h)
  <2> DEFINE g == [h EXCEPT !.at = "broadcast"]
  <2>1. g.kind = h.kind /\ g.by = h.by /\ g.at = "broadcast" /\ g.ops = h.ops
    BY <1>1 DEF Handler
  <2>2. /\ running' = (running \ {h}) \union {g} /\ h.kind \in Edits
        /\ room' = room /\ log' = log \union h.ops /\ inbox' = inbox
    BY <1>8 DEF UpdateAppend, Continues, Updates, Executes, Edits, Logged
  <2> QED BY <1>1, <1>2, <2>1, <2>2
<1>9. CASE UpdateBroadcast(h)
  BY <1>1, <1>2, <1>9 DEF UpdateBroadcast, Ends, EmitTo
<1>10. CASE RequestSessions(h)
  <2> DEFINE g == [h EXCEPT !.at = "find", !.sessions = room]
  <2>1. g.kind = h.kind /\ g.by = h.by /\ g.at = "find"
    BY <1>1 DEF Handler
  <2>2. /\ running' = running \ {h} \/ running' = (running \ {h}) \union {g}
        /\ h.kind = "request" /\ room' = room /\ log' = log /\ inbox' = inbox
    BY <1>10 DEF RequestSessions, Continues, Ends, Executes
  <2> HIDE DEF g
  <2> QED BY <1>1, <1>2, <2>1, <2>2
<1>11. CASE RequestExists(h)
  <2> DEFINE g == [h EXCEPT !.at = "read"]
  <2>1. g.kind = h.kind /\ g.by = h.by /\ g.at = "read"
    BY <1>1 DEF Handler
  <2>2. /\ running' = running \ {h} \/ running' = (running \ {h}) \union {g}
        /\ h.kind = "request" /\ room' = room /\ log' = log /\ inbox' = inbox
    BY <1>11 DEF RequestExists, Continues, Ends, Executes
  <2> HIDE DEF g
  <2> QED BY <1>1, <1>2, <2>1, <2>2
<1> QED BY <1>3, <1>4, <1>5, <1>6, <1>7, <1>8, <1>9, <1>10, <1>11, StayHandlers

LEMMA HandleStays ==
  ASSUME TypeOK, Stay, NEW h \in running, Handle(h)
  PROVE  Stay'
<1>1. UNCHANGED <<mode, up>> /\ h \in Handler
  BY HandlerGoesOn
<1>2. NobodyLeaves'
  BY <1>1 DEF Stay, NobodyLeaves, Sent
<1>3. mode[h.by] # "out"
  BY <1>1 DEF Stay, Unopened, Handler
<1>4. /\ room' = room \/ room' = room \union {h.by}
      /\ \A c \in Client : inbox'[c] = inbox[c] \/ c = h.by \/ c \in room
  BY HandlerGoesOn
<1>5. CASE running' = running \ {h}
  BY <1>1, <1>2, <1>3, <1>4, <1>5 DEF Stay, StepsOk, Unopened
<1>6. ASSUME NEW g, running' = (running \ {h}) \union {g}, g.kind = h.kind, g.by = h.by,
             \/ h.kind = "join" /\ g.at \in {"room", "read", "send"}
             \/ h.kind = "request" /\ g.at \in {"find", "read", "send"}
             \/ h.kind \in Edits /\ g.at \in {"append", "broadcast"}
      PROVE  Stay'
  <2>1. StepsOk'
    BY <1>6 DEF Stay, StepsOk
  <2>2. Unopened'
    BY <1>1, <1>3, <1>4, <1>6 DEF Stay, Unopened
  <2> QED BY <1>2, <2>1, <2>2 DEF Stay
<1> QED BY <1>5, <1>6, HandlerGoesOn

LEMMA StayStep ==
  ASSUME MaxLeaves = 0, TypeOK, Stay, [Next]_vars
  PROVE  Stay'
<1>1. CASE UNCHANGED vars
  BY <1>1 DEF vars, server, client, Stay, StepsOk, NobodyLeaves, Unopened, Sent
<1>2. \A c \in Client : ~Close(c) /\ ~Disconnect(c)
  BY DEF TypeOK, Close, Disconnect
<1> QED BY <1>1, <1>2, OpenStays, EditStays, ReceiveStays, StartStays, HandleStays DEF Next, User
-----------------------------------------------------------------------------
(* Convergence: an operation that an editor has is in the log or on its    *)
(* way there, and one that is in the log is known to every editor that has *)
(* read it, or on its way to that editor.                                  *)

JoinSent(c) == \E m \in Sent(c) : m.kind = "join"
Joining(c, steps) == \E h \in running : h.by = c /\ h.kind = "join" /\ h.at \in steps

InUp(c, o) == \E m \in Sent(c) : m.kind \in Edits /\ o \in m.ops
InHand(c, o) ==
  \E h \in running : h.by = c /\ h.kind \in Edits /\ h.at \in {"start", "append"} /\ o \in h.ops
InBox(c, o) == \E m \in Coming(c) : o \in m.ops
InJoin(c, o) == \E h \in running : h.by = c /\ h.kind \in Loaders /\ h.at = "send" /\ o \in h.ops
InCast(c, o) ==
  \E h \in running : h.by # c /\ h.kind \in Edits /\ h.at = "broadcast" /\ o \in h.ops

(* What an editor sends, it has.                                           *)
OwnOk ==
  \A c \in Client : Present(c) =>
    /\ \A m \in Sent(c) : m.kind \in Edits => m.ops \subseteq known[c]
    /\ \A h \in running : h.by = c /\ h.kind \in Edits => h.ops \subseteq known[c]

(* Whoever has the note open and whose join is past its second step is in  *)
(* the room.                                                               *)
RoomOk ==
  \A c \in Client : Present(c) => JoinSent(c) \/ Joining(c, {"start", "room"}) \/ c \in room

(* What is sent to editors is in the log.                                  *)
LoggedOk ==
  /\ \A h \in running : h.kind \in Edits /\ h.at = "broadcast" => h.ops \subseteq log
  /\ \A h \in running : h.kind \in Loaders /\ h.at = "send" => h.ops \subseteq log
  /\ \A c \in Client : Present(c) => \A m \in Coming(c) : m.ops \subseteq log

UpOk ==
  \A c \in Client : Present(c) => \A o \in known[c] : InUp(c, o) \/ InHand(c, o) \/ o \in log

HasRead(c) == Present(c) /\ ~JoinSent(c) /\ ~Joining(c, {"start", "room", "read"})
DownOk ==
  \A c \in Client : HasRead(c) =>
    \A o \in log : o \in known[c] \/ InBox(c, o) \/ InJoin(c, o) \/ InCast(c, o)

Sync == OwnOk /\ RoomOk /\ LoggedOk /\ UpOk /\ DownOk

LEMMA SyncInit == Init => Sync
BY DEF Init, Sync, OwnOk, RoomOk, LoggedOk, UpOk, DownOk, HasRead, Present, Sent, Coming

(* What is sent by an editor grows; what it comes to know it has received  *)
(* or sends; what it has received is taken out of its inbox.               *)
LEMMA EditorSyncs ==
  ASSUME TypeOK, Sync, NEW c \in Client, NEW kind \in Edits \union {"request"},
         NEW ops \in SUBSET Op, kind = "request" => ops = {},
         UNCHANGED up \/ Send(c, kind, ops), ops \subseteq known'[c],
         known[c] \subseteq known'[c],
         \A o \in known'[c] : o \in known[c] \/ o \in log \/ (o \in ops /\ Send(c, kind, ops)),
         \A d \in Client \ {c} : known'[d] = known[d],
         \A d \in Client : Present(d)' <=> Present(d),
         \A d \in Client : /\ Coming(d)' \subseteq Coming(d)
                           /\ \A m \in Coming(d) \ Coming(d)' : m.ops \subseteq known'[d],
         UNCHANGED <<log, room, running>>
  PROVE  Sync'
<1> DEFINE new == [kind |-> kind, ops |-> ops]
<1>0. new.kind = kind /\ new.ops = ops /\ kind # "join"
  BY DEF Edits
<1>1. /\ Sent(c) \subseteq Sent(c)' /\ Sent(c)' \subseteq Sent(c) \union {new}
      /\ Send(c, kind, ops) => new \in Sent(c)'
      /\ \A d \in Client \ {c} : Sent(d)' = Sent(d)
  <2>1. CASE Send(c, kind, ops)
    <3>1. Sent(c)' = Sent(c) \union {new} /\ \A d \in Client \ {c} : up'[d] = up[d]
      BY <2>1, SendSent
    <3> QED BY <3>1 DEF Sent
  <2>2. CASE UNCHANGED up /\ ~Send(c, kind, ops)
    BY <2>2 DEF Sent
  <2> QED BY <2>1, <2>2
<1>2. \A d \in Client : JoinSent(d)' <=> JoinSent(d)
  BY <1>0, <1>1 DEF JoinSent
<1>3. \A d \in Client : known[d] \subseteq known'[d]
  OBVIOUS
<1>4. OwnOk'
  <2>1. \A h \in running : h.by \in Client
    BY DEF TypeOK, Handler
  <2> QED BY <1>0, <1>1, <1>3, <2>1 DEF OwnOk, Sync
<1>5. RoomOk'
  BY <1>2 DEF RoomOk, Joining, Sync
<1>6. LoggedOk'
  BY DEF LoggedOk, Sync
<1>7. UpOk'
  <2>1. \A d \in Client : \A o : InUp(d, o) => InUp(d, o)'
    BY <1>1 DEF InUp
  <2>2. Send(c, kind, ops) => \A o \in ops : InUp(c, o)'
    BY <1>0, <1>1 DEF InUp
  <2> QED BY <2>1, <2>2 DEF UpOk, InHand, Sync
<1>8. DownOk'
  <2>1. \A d \in Client : HasRead(d)' <=> HasRead(d)
    BY <1>2 DEF HasRead, Joining
  <2>2. \A d \in Client : \A o : InBox(d, o) => InBox(d, o)' \/ o \in known'[d]
    BY DEF InBox
  <2> QED BY <1>3, <2>1, <2>2 DEF DownOk, InJoin, InCast, Sync
<1> QED BY <1>4, <1>5, <1>6, <1>7, <1>8 DEF Sync

(* An editor that nothing is on its way to or from.                        *)
Unused(c) == up[c] = <<>> /\ inbox[c] = <<>> /\ \A h \in running : h.by # c

LEMMA OpenSyncs ==
  ASSUME TypeOK, Sync, NEW c \in Client, Open(c), Unused(c)
  PROVE  Sync'
<1>1. Sent(c)' = Sent(c) \union {[kind |-> "join", ops |-> {}]} /\ \A d \in Client \ {c} : up'[d] = up[d]
  BY SendSent DEF Open
<1>2. /\ \A d \in Client \ {c} : Sent(d)' = Sent(d) /\ mode'[d] = mode[d] /\ known'[d] = known[d]
      /\ known'[c] = {}
  BY <1>1 DEF Sent, Open, TypeOK
<1>3. /\ UNCHANGED <<log, room, running>>
      /\ \A d \in Client : Coming(d)' = Coming(d)
  BY DEF Open, server, Coming
<1>4. Sent(c) = {} /\ \A h \in running : h.by # c
  BY DEF Unused, Sent
<1>11. Coming(c) = {} /\ \A d \in Client \ {c} : Present(d)' <=> Present(d)
  BY <1>2 DEF Unused, Coming, Present
<1>5. JoinSent(c)' /\ \A d \in Client \ {c} : JoinSent(d)' <=> JoinSent(d)
  <2>1. [kind |-> "join", ops |-> {}] \in Sent(c)' /\ [kind |-> "join", ops |-> {}].kind = "join"
    BY <1>1
  <2> QED BY <1>2, <2>1 DEF JoinSent
<1>6. OwnOk'
  <2>1. \A h \in running : h.by \in Client \ {c}
    BY <1>4 DEF TypeOK, Handler
  <2>2. "join" \notin Edits
    BY DEF Edits
  <2> QED BY <1>1, <1>2, <1>3, <1>4, <1>11, <2>1, <2>2 DEF OwnOk, Sync
<1>7. RoomOk'
  BY <1>2, <1>3, <1>5, <1>11 DEF RoomOk, Joining, Sync
<1>8. LoggedOk'
  BY <1>3, <1>11 DEF LoggedOk, Sync
<1>9. UpOk'
  BY <1>2, <1>3, <1>11 DEF UpOk, InUp, InHand, Sync
<1>10. DownOk'
  BY <1>2, <1>3, <1>5, <1>11 DEF DownOk, HasRead, Joining, InBox, InJoin, InCast, Sync
<1> QED BY <1>6, <1>7, <1>8, <1>9, <1>10 DEF Sync

LEMMA EditSyncs ==
  ASSUME TypeOK, Sync, NEW c \in Client, Edit(c)
  PROVE  Sync'
<1>1. NewOp \in Op
  BY DEF TypeOK, NewOp, Op
<1>2. /\ Send(c, "update", {NewOp}) /\ UNCHANGED <<log, room, running, mode>>
      /\ \A d \in Client : Present(d)' <=> Present(d)
  BY DEF Edit, server, Present
<1>3. known'[c] = known[c] \union {NewOp} /\ \A d \in Client \ {c} : known'[d] = known[d]
  BY DEF Edit, Make, TypeOK
<1>4. \A d \in Client : Coming(d)' = Coming(d)
  BY DEF Edit, Coming
<1>5. "update" \in Edits /\ {NewOp} \in SUBSET Op
  BY <1>1 DEF Edits
<1> QED BY <1>2, <1>3, <1>4, <1>5, EditorSyncs

LEMMA ReceiveSyncs ==
  ASSUME TypeOK, Shut, Sync, NEW c \in Client, Receive(c)
  PROVE  Sync'
<1>1. PICK m \in Answer :
        /\ Coming(c) = Coming(c)' \union {m}
        /\ \A d \in Client \ {c} : inbox'[d] = inbox[d] /\ known'[d] = known[d]
                                   /\ mode'[d] = mode[d] /\ up'[d] = up[d]
        /\ UNCHANGED server
        /\ mode[c] # "out" => m.ops \subseteq known'[c]
        /\ known[c] \subseteq known'[c]
        /\ \/ UNCHANGED <<up, known, seeds, mode>> /\ mode[c] = "out"
           \/ \E kind \in Edits \union {"request"}, ops \in SUBSET Op :
                /\ Present(c) /\ mode'[c] \in {"joined", "synced"}
                /\ UNCHANGED up \/ Send(c, kind, ops)
                /\ ops \subseteq known'[c] /\ (kind = "request" => ops = {})
                /\ \/ known'[c] = known[c] \union m.ops /\ UNCHANGED seeds
                   \/ known'[c] = known[c] \union ops /\ Send(c, kind, ops)
  BY ReceiveEffect
<1>2. /\ UNCHANGED <<log, room, running>>
      /\ \A d \in Client \ {c} : Coming(d)' = Coming(d)
  BY <1>1 DEF server, Coming
<1>3. CASE UNCHANGED <<up, known, seeds, mode>> /\ mode[c] = "out"
  <2>1. OwnOk' /\ RoomOk' /\ UpOk' /\ LoggedOk'
    BY <1>1, <1>2, <1>3
       DEF Sync, OwnOk, RoomOk, UpOk, LoggedOk, Present, Sent, JoinSent, Joining, InUp, InHand
  <2>2. \A d \in Client : HasRead(d)' => HasRead(d) /\ d # c
    BY <1>2, <1>3 DEF HasRead, Present, JoinSent, Joining, Sent
  <2>3. DownOk'
    BY <1>2, <1>3, <2>2 DEF Sync, DownOk, InBox, InJoin, InCast
  <2> QED BY <2>1, <2>3 DEF Sync
<1>4. ASSUME NEW kind \in Edits \union {"request"}, NEW ops \in SUBSET Op,
             kind = "request" => ops = {},
             Present(c), mode'[c] \in {"joined", "synced"},
             UNCHANGED up \/ Send(c, kind, ops), ops \subseteq known'[c],
             \/ known'[c] = known[c] \union m.ops
             \/ known'[c] = known[c] \union ops /\ Send(c, kind, ops)
      PROVE  Sync'
  <2>1. \A d \in Client : Present(d)' <=> Present(d)
    BY <1>1, <1>4 DEF Present
  <2>2. m.ops \subseteq log
    BY <1>1, <1>4 DEF Sync, LoggedOk
  <2>3. \A o \in known'[c] : o \in known[c] \/ o \in log \/ (o \in ops /\ Send(c, kind, ops))
    BY <1>4, <2>2
  <2>4. \A d \in Client : /\ Coming(d)' \subseteq Coming(d)
                          /\ \A x \in Coming(d) \ Coming(d)' : x.ops \subseteq known'[d]
    BY <1>1, <1>2, <1>4 DEF Present
  <2> QED BY <1>1, <1>2, <1>4, <2>1, <2>3, <2>4, EditorSyncs
<1> QED BY <1>1, <1>3, <1>4

LEMMA StartSyncs ==
  ASSUME TypeOK, Sync, NEW c \in Client, Start(c)
  PROVE  Sync'
<1> DEFINE m == Head(up[c])
<1> DEFINE h == [kind |-> m.kind, by |-> c, ops |-> m.ops, at |-> "start", sessions |-> {}]
<1>1. /\ Sent(c) = Sent(c)' \union {m}
      /\ \A d \in Client \ {c} : Sent(d)' = Sent(d)
  BY StartSent DEF Sent
<1>2. /\ running' = running \union {h} /\ UNCHANGED <<log, room, mode, known>>
      /\ \A d \in Client : Present(d)' <=> Present(d)
  BY DEF Start, client, Present
<1>3. \A d \in Client : Coming(d)' = Coming(d)
  BY DEF Start, Coming
<1>4. h.kind = m.kind /\ h.by = c /\ h.ops = m.ops /\ h.at = "start"
  OBVIOUS
<1> HIDE DEF m, h
<1>5. OwnOk'
  BY <1>1, <1>2, <1>4 DEF OwnOk, Sync
<1>6. \A d \in Client : JoinSent(d) => JoinSent(d)' \/ Joining(d, {"start"})'
  <2>1. ASSUME NEW d \in Client, NEW x \in Sent(d), x.kind = "join", ~JoinSent(d)'
        PROVE  Joining(d, {"start"})'
    <3>1. d = c /\ x = m
      BY <1>1, <2>1 DEF JoinSent
    <3> QED BY <1>2, <1>4, <2>1, <3>1 DEF Joining
  <2> QED BY <2>1 DEF JoinSent
<1>7. \A d \in Client : \A steps : Joining(d, steps) => Joining(d, steps)'
  BY <1>2 DEF Joining
<1>8. RoomOk'
  <2>1. \A d \in Client : Joining(d, {"start"})' => Joining(d, {"start", "room"})'
    BY DEF Joining
  <2> QED BY <1>2, <1>6, <1>7, <2>1 DEF RoomOk, Sync
<1>9. LoggedOk'
  BY <1>2, <1>3, <1>4 DEF LoggedOk, Sync
<1>10. UpOk'
  <2>1. \A d \in Client : \A o : InHand(d, o) => InHand(d, o)'
    BY <1>2 DEF InHand
  <2>2. ASSUME NEW d \in Client, NEW o, InUp(d, o)
        PROVE  InUp(d, o)' \/ InHand(d, o)'
    <3>1. PICK x \in Sent(d) : x.kind \in Edits /\ o \in x.ops
      BY <2>2 DEF InUp
    <3>2. CASE x \in Sent(d)'
      BY <3>1, <3>2 DEF InUp
    <3>3. CASE d = c /\ x = m
      BY <1>2, <1>4, <3>1, <3>3 DEF InHand
    <3> QED BY <1>1, <3>2, <3>3
  <2> QED BY <1>2, <2>1, <2>2 DEF UpOk, Sync
<1>11. DownOk'
  <2>1. \A d \in Client : Joining(d, {"start"})' => Joining(d, {"start", "room", "read"})'
    BY DEF Joining
  <2>2. \A d \in Client : HasRead(d)' => HasRead(d)
    BY <1>2, <1>6, <1>7, <2>1 DEF HasRead
  <2>3. \A d \in Client : \A o : (InJoin(d, o) => InJoin(d, o)') /\ (InCast(d, o) => InCast(d, o)')
    BY <1>2 DEF InJoin, InCast
  <2> QED BY <1>2, <1>3, <2>2, <2>3 DEF DownOk, InBox, Sync
<1> QED BY <1>5, <1>8, <1>9, <1>10, <1>11 DEF Sync

(* The handlers. What they leave alone:                                    *)
LEMMA HandleSame ==
  ASSUME NEW h, Handle(h)
  PROVE  /\ UNCHANGED <<mode, known, up>>
         /\ \A c \in Client : Present(c)' <=> Present(c)
         /\ \A c \in Client : Sent(c)' = Sent(c) /\ (JoinSent(c)' <=> JoinSent(c))
         /\ \A c \in Client : \A o : InUp(c, o)' <=> InUp(c, o)
BY HandleQuiet DEF client, Present, Sent, JoinSent, InUp

(* a join before it has read the log,                                      *)
LEMMA JoinGoesSyncs ==
  ASSUME TypeOK, Sync, NEW h \in running, JoinAddUser(h) \/ JoinEnterRoom(h)
  PROVE  Sync'
<1>0. Handle(h) /\ h \in Handler
  BY DEF Handle, TypeOK
<1>1. PICK g : /\ running' = (running \ {h}) \union {g}
               /\ g.kind = "join" /\ g.by = h.by /\ g.at \in {"room", "read"}
               /\ g.at = "read" => h.by \in room'
  <2>1. CASE JoinAddUser(h)
    <3> DEFINE g == [h EXCEPT !.at = "room"]
    <3>1. g.kind = h.kind /\ g.by = h.by /\ g.at = "room"
      BY <1>0 DEF Handler
    <3>2. running' = (running \ {h}) \union {g} /\ h.kind = "join"
      BY <2>1 DEF JoinAddUser, Continues, Executes
    <3> QED BY <3>1, <3>2
  <2>2. CASE JoinEnterRoom(h)
    <3> DEFINE g == [h EXCEPT !.at = "read", !.sessions = room']
    <3>1. g.kind = h.kind /\ g.by = h.by /\ g.at = "read"
      BY <1>0 DEF Handler
    <3>2. running' = (running \ {h}) \union {g} /\ h.kind = "join" /\ h.by \in room'
      BY <2>2 DEF JoinEnterRoom, Continues, Executes
    <3> QED BY <3>1, <3>2
  <2> QED BY <2>1, <2>2
<1>2. h.kind = "join" /\ h.at \in {"start", "room"} /\ "join" \notin Edits
  BY DEF JoinAddUser, JoinEnterRoom, Executes, Edits
<1>3. UNCHANGED <<log, inbox>> /\ room \subseteq room'
  BY DEF JoinAddUser, JoinEnterRoom
<1>4. \A c \in Client : Coming(c)' = Coming(c)
  BY <1>3 DEF Coming
<1>5. OwnOk'
  BY <1>0, <1>1, <1>2, HandleSame DEF OwnOk, Sync
<1>6. RoomOk'
  <2>1. ASSUME NEW c \in Client, Joining(c, {"start", "room"}), c \notin room'
        PROVE  Joining(c, {"start", "room"})'
    BY <1>1, <2>1 DEF Joining
  <2> QED BY <1>0, <1>3, <2>1, HandleSame DEF RoomOk, Sync
<1>7. LoggedOk'
  BY <1>0, <1>1, <1>2, <1>3, <1>4, HandleSame DEF LoggedOk, Sync
<1>8. UpOk'
  <2>1. \A c \in Client : \A o : InHand(c, o) => InHand(c, o)'
    BY <1>1, <1>2 DEF InHand
  <2> QED BY <1>0, <1>3, <2>1, HandleSame DEF UpOk, Sync
<1>9. DownOk'
  <2>1. \A c \in Client : Joining(c, {"start", "room", "read"}) => Joining(c, {"start", "room", "read"})'
    BY <1>1 DEF Joining
  <2>2. \A c \in Client : HasRead(c)' => HasRead(c)
    BY <1>0, <2>1, HandleSame DEF HasRead
  <2>3. \A c \in Client : \A o : (InJoin(c, o) => InJoin(c, o)') /\ (InCast(c, o) => InCast(c, o)')
    BY <1>1, <1>2 DEF InJoin, InCast
  <2> QED BY <1>0, <1>3, <1>4, <2>2, <2>3, HandleSame DEF DownOk, InBox, Sync
<1> QED BY <1>5, <1>6, <1>7, <1>8, <1>9 DEF Sync

(* a request before it has read it,                                        *)
LEMMA RequestGoesSyncs ==
  ASSUME TypeOK, Sync, NEW h \in running, RequestSessions(h) \/ RequestExists(h)
  PROVE  Sync'
<1>0. Handle(h) /\ h \in Handler
  BY DEF Handle, TypeOK
<1>1. \/ running' = running \ {h}
      \/ \E g : /\ running' = (running \ {h}) \union {g}
                /\ g.kind = "request" /\ g.by = h.by /\ g.at \in {"find", "read"}
  <2>1. CASE RequestSessions(h)
    <3> DEFINE g == [h EXCEPT !.at = "find", !.sessions = room]
    <3>1. g.kind = h.kind /\ g.by = h.by /\ g.at = "find"
      BY <1>0 DEF Handler
    <3>2. (running' = running \ {h} \/ running' = (running \ {h}) \union {g}) /\ h.kind = "request"
      BY <2>1 DEF RequestSessions, Continues, Ends, Executes
    <3> QED BY <3>1, <3>2
  <2>2. CASE RequestExists(h)
    <3> DEFINE g == [h EXCEPT !.at = "read"]
    <3>1. g.kind = h.kind /\ g.by = h.by /\ g.at = "read"
      BY <1>0 DEF Handler
    <3>2. (running' = running \ {h} \/ running' = (running \ {h}) \union {g}) /\ h.kind = "request"
      BY <2>2 DEF RequestExists, Continues, Ends, Executes
    <3> QED BY <3>1, <3>2
  <2> QED BY <2>1, <2>2
<1>2. h.kind = "request" /\ h.at \in {"start", "find"} /\ "request" \notin Edits /\ h.kind # "join"
  BY DEF RequestSessions, RequestExists, Executes, Edits
<1>3. UNCHANGED <<log, inbox, room>>
  BY DEF RequestSessions, RequestExists
<1>4. \A c \in Client : Coming(c)' = Coming(c)
  BY <1>3 DEF Coming
<1>5. OwnOk'
  BY <1>0, <1>1, <1>2, HandleSame DEF OwnOk, Sync
<1>6. \A c \in Client : \A steps : Joining(c, steps)' <=> Joining(c, steps)
  BY <1>1, <1>2 DEF Joining
<1>7. RoomOk'
  BY <1>0, <1>3, <1>6, HandleSame DEF RoomOk, Sync
<1>8. LoggedOk'
  BY <1>0, <1>1, <1>2, <1>3, <1>4, HandleSame DEF LoggedOk, Sync
<1>9. UpOk'
  <2>1. \A c \in Client : \A o : InHand(c, o) => InHand(c, o)'
    BY <1>1, <1>2 DEF InHand
  <2> QED BY <1>0, <1>3, <2>1, HandleSame DEF UpOk, Sync
<1>10. DownOk'
  <2>1. \A c \in Client : HasRead(c)' => HasRead(c)
    BY <1>0, <1>6, HandleSame DEF HasRead
  <2>2. \A c \in Client : \A o : (InJoin(c, o) => InJoin(c, o)') /\ (InCast(c, o) => InCast(c, o)')
    BY <1>1, <1>2 DEF InJoin, InCast
  <2> QED BY <1>0, <1>3, <1>4, <2>1, <2>2, HandleSame DEF DownOk, InBox, Sync
<1> QED BY <1>5, <1>7, <1>8, <1>9, <1>10 DEF Sync

(* a handler that reads the log,                                           *)
LEMMA ReadSyncs ==
  ASSUME TypeOK, Sync, NEW h \in running, JoinReadLog(h)
  PROVE  Sync'
<1> DEFINE g == [h EXCEPT !.at = "send", !.ops = State]
<1>0. Handle(h) /\ h \in Handler
  BY DEF Handle, TypeOK
<1>1. g.kind = h.kind /\ g.by = h.by /\ g.at = "send" /\ g.ops = log
  BY <1>0 DEF Handler, State
<1>2. running' = (running \ {h}) \union {g} /\ h.kind \in Loaders /\ h.at = "read" /\ h.kind \notin Edits
  BY DEF JoinReadLog, Continues, Loads, Executes, Edits, Loaders
<1> HIDE DEF g
<1>3. UNCHANGED <<log, inbox, room>>
  BY DEF JoinReadLog
<1>4. \A c \in Client : Coming(c)' = Coming(c)
  BY <1>3 DEF Coming
<1>5. OwnOk'
  BY <1>0, <1>1, <1>2, HandleSame DEF OwnOk, Sync
<1>6. RoomOk'
  <2>1. \A c \in Client : Joining(c, {"start", "room"}) => Joining(c, {"start", "room"})'
    BY <1>2 DEF Joining
  <2> QED BY <1>0, <1>3, <2>1, HandleSame DEF RoomOk, Sync
<1>7. LoggedOk'
  BY <1>0, <1>1, <1>2, <1>3, <1>4, HandleSame DEF LoggedOk, Sync
<1>8. UpOk'
  <2>1. \A c \in Client : \A o : InHand(c, o) => InHand(c, o)'
    BY <1>2 DEF InHand
  <2> QED BY <1>0, <1>3, <2>1, HandleSame DEF UpOk, Sync
<1>9. DownOk'
  <2>1. \A c \in Client : Joining(c, {"start", "room", "read"})
                            => Joining(c, {"start", "room", "read"})' \/ c = h.by
    BY <1>2 DEF Joining
  <2>2. \A c \in Client : HasRead(c)' => HasRead(c) \/ c = h.by
    BY <1>0, <2>1, HandleSame DEF HasRead
  <2>3. \A c \in Client : \A o : (InJoin(c, o) => InJoin(c, o)') /\ (InCast(c, o) => InCast(c, o)')
    BY <1>2 DEF InJoin, InCast
  <2>4. \A o \in log : InJoin(h.by, o)'
    BY <1>1, <1>2 DEF InJoin
  <2> QED BY <1>0, <1>3, <1>4, <2>2, <2>3, <2>4, HandleSame DEF DownOk, InBox, Sync
<1> QED BY <1>5, <1>6, <1>7, <1>8, <1>9 DEF Sync

(* a handler that sends what it has read,                                  *)
LEMMA StateSyncs ==
  ASSUME TypeOK, Sync, NEW h \in running, JoinSendState(h)
  PROVE  Sync'
<1> DEFINE m == [kind |-> "state", ops |-> h.ops, sessions |-> h.sessions]
<1>0. Handle(h) /\ h \in Handler /\ h.by \in Client
  BY DEF Handle, TypeOK, Handler
<1>1. running' = running \ {h} /\ h.kind \in Loaders /\ h.at = "send" /\ h.kind \notin Edits
  BY DEF JoinSendState, Ends, Loads, Executes, Edits, Loaders
<1>2. EmitTo({h.by}, m) /\ m.ops = h.ops
  BY DEF JoinSendState
<1> HIDE DEF m
<1>3. \A c \in Client : Present(c) =>
        Coming(c)' = IF c = h.by THEN Coming(c) \union {m} ELSE Coming(c)
  BY <1>2, EmitComing DEF Present
<1>4. UNCHANGED <<log, room>>
  BY DEF JoinSendState
<1>5. OwnOk'
  BY <1>0, <1>1, HandleSame DEF OwnOk, Sync
<1>6. RoomOk'
  <2>1. \A c \in Client : Joining(c, {"start", "room"}) => Joining(c, {"start", "room"})'
    BY <1>1 DEF Joining
  <2> QED BY <1>0, <1>4, <2>1, HandleSame DEF RoomOk, Sync
<1>7. LoggedOk'
  BY <1>0, <1>1, <1>2, <1>3, <1>4, HandleSame DEF LoggedOk, Sync
<1>8. UpOk'
  <2>1. \A c \in Client : \A o : InHand(c, o) => InHand(c, o)'
    BY <1>1 DEF InHand
  <2> QED BY <1>0, <1>4, <2>1, HandleSame DEF UpOk, Sync
<1>9. DownOk'
  <2>1. \A c \in Client : Joining(c, {"start", "room", "read"}) => Joining(c, {"start", "room", "read"})'
    BY <1>1 DEF Joining
  <2>2. \A c \in Client : HasRead(c)' => HasRead(c)
    BY <1>0, <2>1, HandleSame DEF HasRead
  <2>3. \A c \in Client : Present(c) =>
          \A o : /\ InJoin(c, o) => InJoin(c, o)' \/ InBox(c, o)'
                 /\ InCast(c, o) => InCast(c, o)'
                 /\ InBox(c, o) => InBox(c, o)'
    BY <1>1, <1>2, <1>3 DEF InJoin, InCast, InBox
  <2> QED BY <1>0, <1>4, <2>2, <2>3, HandleSame DEF DownOk, HasRead, Sync
<1> QED BY <1>5, <1>6, <1>7, <1>8, <1>9 DEF Sync

(* an update that stops a save, is logged,                                 *)
LEMMA StopSaveSyncs ==
  ASSUME TypeOK, Sync, NEW h \in running, UpdateStopSave(h)
  PROVE  Sync'
<1> DEFINE g == [h EXCEPT !.at = "append"]
<1>0. Handle(h) /\ h \in Handler
  BY DEF Handle, TypeOK
<1>1. g.kind = h.kind /\ g.by = h.by /\ g.at = "append" /\ g.ops = h.ops
  BY <1>0 DEF Handler
<1>2. running' = (running \ {h}) \union {g} /\ h.kind \in Edits /\ h.kind # "join" /\ h.at = "start"
  BY DEF UpdateStopSave, Continues, Suspends, Updates, Executes, Edits
<1> HIDE DEF g
<1>3. UNCHANGED <<log, inbox, room>>
  BY DEF UpdateStopSave
<1>4. \A c \in Client : Coming(c)' = Coming(c)
  BY <1>3 DEF Coming
<1>5. OwnOk'
  BY <1>0, <1>1, <1>2, HandleSame DEF OwnOk, Sync
<1>6. \A c \in Client : \A steps : Joining(c, steps)' <=> Joining(c, steps)
  BY <1>1, <1>2 DEF Joining
<1>7. RoomOk'
  BY <1>0, <1>3, <1>6, HandleSame DEF RoomOk, Sync
<1>8. LoggedOk'
  BY <1>0, <1>1, <1>2, <1>3, <1>4, HandleSame DEF LoggedOk, Sync
<1>9. UpOk'
  <2>1. \A c \in Client : \A o : InHand(c, o) => InHand(c, o)'
    BY <1>1, <1>2 DEF InHand
  <2> QED BY <1>0, <1>3, <2>1, HandleSame DEF UpOk, Sync
<1>10. DownOk'
  <2>1. \A c \in Client : HasRead(c)' => HasRead(c)
    BY <1>0, <1>6, HandleSame DEF HasRead
  <2>2. \A c \in Client : \A o : (InJoin(c, o) => InJoin(c, o)') /\ (InCast(c, o) => InCast(c, o)')
    BY <1>2 DEF InJoin, InCast
  <2> QED BY <1>0, <1>3, <1>4, <2>1, <2>2, HandleSame DEF DownOk, InBox, Sync
<1> QED BY <1>5, <1>7, <1>8, <1>9, <1>10 DEF Sync

LEMMA AppendSyncs ==
  ASSUME TypeOK, Sync, NEW h \in running, UpdateAppend(h)
  PROVE  Sync'
<1> DEFINE g == [h EXCEPT !.at = "broadcast"]
<1>0. Handle(h) /\ h \in Handler
  BY DEF Handle, TypeOK
<1>1. g.kind = h.kind /\ g.by = h.by /\ g.at = "broadcast" /\ g.ops = h.ops
  BY <1>0 DEF Handler
<1>2. running' = (running \ {h}) \union {g} /\ h.kind \in Edits /\ h.kind # "join" /\ h.at = "append"
  BY DEF UpdateAppend, Continues, Updates, Executes, Edits
<1> HIDE DEF g
<1>3. UNCHANGED <<inbox, room>> /\ log' = log \union h.ops
  BY DEF UpdateAppend, Logged
<1>4. \A c \in Client : Coming(c)' = Coming(c)
  BY <1>3 DEF Coming
<1>5. OwnOk'
  BY <1>0, <1>1, <1>2, HandleSame DEF OwnOk, Sync
<1>6. \A c \in Client : \A steps : Joining(c, steps)' <=> Joining(c, steps)
  BY <1>1, <1>2 DEF Joining
<1>7. RoomOk'
  BY <1>0, <1>3, <1>6, HandleSame DEF RoomOk, Sync
<1>8. LoggedOk'
  <2>1. log \subseteq log' /\ g.ops \subseteq log'
    BY <1>1, <1>3
  <2> QED BY <1>0, <1>1, <1>2, <1>4, <2>1, HandleSame DEF LoggedOk, Sync
<1>9. UpOk'
  <2>1. \A c \in Client : \A o : InHand(c, o) => InHand(c, o)' \/ o \in log'
    BY <1>2, <1>3 DEF InHand
  <2> QED BY <1>0, <1>3, <2>1, HandleSame DEF UpOk, Sync
<1>10. DownOk'
  <2>1. \A c \in Client : HasRead(c)' => HasRead(c)
    BY <1>0, <1>6, HandleSame DEF HasRead
  <2>2. \A c \in Client : \A o : (InJoin(c, o) => InJoin(c, o)') /\ (InCast(c, o) => InCast(c, o)')
    BY <1>2 DEF InJoin, InCast
  <2>3. \A c \in Client \ {h.by}, o \in h.ops : InCast(c, o)'
    BY <1>1, <1>2 DEF InCast
  <2>4. Present(h.by) => h.ops \subseteq known[h.by]
    BY <1>0, <1>2 DEF OwnOk, Sync, Handler
  <2> QED BY <1>0, <1>3, <1>4, <2>1, <2>2, <2>3, <2>4, HandleSame DEF DownOk, HasRead, InBox, Sync
<1> QED BY <1>5, <1>7, <1>8, <1>9, <1>10 DEF Sync

(* and is broadcast to the room.                                           *)
LEMMA BroadcastSyncs ==
  ASSUME TypeOK, Sync, NEW h \in running, UpdateBroadcast(h)
  PROVE  Sync'
<1> DEFINE m == [kind |-> "update", ops |-> h.ops, sessions |-> {}]
<1>0. Handle(h) /\ h \in Handler
  BY DEF Handle, TypeOK
<1>1. running' = running \ {h} /\ h.kind \in Edits /\ h.kind # "join" /\ h.at = "broadcast"
  BY DEF UpdateBroadcast, Ends, Updates, Executes, Edits
<1>2. EmitTo(room \ {h.by}, m) /\ m.ops = h.ops
  BY DEF UpdateBroadcast
<1> HIDE DEF m
<1>3. \A c \in Client : Present(c) =>
        Coming(c)' = IF c \in room \ {h.by} THEN Coming(c) \union {m} ELSE Coming(c)
  BY <1>2, EmitComing DEF Present
<1>4. UNCHANGED <<log, room>>
  BY DEF UpdateBroadcast
<1>5. OwnOk'
  BY <1>0, <1>1, HandleSame DEF OwnOk, Sync
<1>6. \A c \in Client : \A steps : Joining(c, steps)' <=> Joining(c, steps)
  BY <1>1 DEF Joining
<1>7. RoomOk'
  BY <1>0, <1>4, <1>6, HandleSame DEF RoomOk, Sync
<1>8. LoggedOk'
  <2>1. m.ops \subseteq log
    BY <1>1, <1>2 DEF LoggedOk, Sync
  <2> QED BY <1>0, <1>1, <1>3, <1>4, <2>1, HandleSame DEF LoggedOk, Sync
<1>9. UpOk'
  <2>1. \A c \in Client : \A o : InHand(c, o) => InHand(c, o)'
    BY <1>1 DEF InHand
  <2> QED BY <1>0, <1>4, <2>1, HandleSame DEF UpOk, Sync
<1>10. DownOk'
  <2>1. \A c \in Client : HasRead(c)' => HasRead(c)
    BY <1>0, <1>6, HandleSame DEF HasRead
  <2>2. \A c \in Client : HasRead(c) => c \in room
    BY DEF HasRead, RoomOk, Joining, Sync
  <2>3. \A c \in room : Present(c) => \A o : InCast(c, o) => InCast(c, o)' \/ InBox(c, o)'
    BY <1>1, <1>2, <1>3 DEF InCast, InBox, TypeOK
  <2>4. \A c \in Client : Present(c) =>
          \A o : (InJoin(c, o) => InJoin(c, o)') /\ (InBox(c, o) => InBox(c, o)')
    BY <1>1, <1>3 DEF InJoin, InBox
  <2> QED BY <1>0, <1>4, <2>1, <2>2, <2>3, <2>4, HandleSame DEF DownOk, HasRead, Sync
<1> QED BY <1>5, <1>7, <1>8, <1>9, <1>10 DEF Sync

LEMMA SyncStep ==
  ASSUME MaxLeaves = 0, TypeOK, Stay, Sync, [Next]_vars
  PROVE  Sync'
<1>1. CASE UNCHANGED vars
  BY <1>1 DEF vars, server, client, Sync, OwnOk, RoomOk, LoggedOk, UpOk, DownOk, HasRead,
              Present, JoinSent, Joining, InUp, InHand, InBox, InJoin, InCast, Sent, Coming
<1>2. \A c \in Client : ~Close(c) /\ ~Disconnect(c)
  BY DEF TypeOK, Close, Disconnect
<1>3. ASSUME NEW h \in running, Handle(h)
      PROVE  Sync'
  BY <1>3, StayHandlers, JoinGoesSyncs, RequestGoesSyncs, ReadSyncs, StateSyncs, StopSaveSyncs,
     AppendSyncs, BroadcastSyncs
<1>4. \A c \in Client : Open(c) => Unused(c)
  BY DEF Open, Stay, Unopened, Unused
<1> QED
  BY <1>1, <1>2, <1>3, <1>4, StayShut, OpenSyncs, EditSyncs, ReceiveSyncs, StartSyncs DEF Next, User

LEMMA SyncConverges ==
  ASSUME Sync
  PROVE  Converged
<1> SUFFICES ASSUME Quiescent, NEW c \in Client, NEW d \in Client,
                    mode[c] = "synced", mode[d] = "synced"
             PROVE  Doc(c) = Doc(d)
  BY DEF Converged
<1>1. \A b \in Client : Sent(b) = {} /\ Coming(b) = {} /\ running = {}
  BY DEF Quiescent, Sent, Coming
<1>2. ASSUME NEW b \in Client, mode[b] = "synced"
      PROVE  known[b] = log
  <2>1. known[b] \subseteq log
    BY <1>1, <1>2 DEF Sync, UpOk, Present, InUp, InHand
  <2>2. HasRead(b)
    BY <1>1, <1>2 DEF HasRead, Present, JoinSent, Joining
  <2>3. log \subseteq known[b]
    BY <1>1, <2>2 DEF Sync, DownOk, InBox, InJoin, InCast
  <2> QED BY <2>1, <2>3
<1> QED BY <1>2 DEF Doc

(* As long as nobody leaves the note or loses its connection, editors that *)
(* have received the state show the same document whenever all is quiet,   *)
(* for any number of them, of edits and joins, and at every await that     *)
(* suspends with Redis.                                                    *)
THEOREM Convergence ==
  ASSUME MaxLeaves = 0
  PROVE  Spec => []Converged
<1> DEFINE Inv == TypeOK /\ Stay /\ Sync
<1>1. Init => Inv
  BY TypeInit, StayInit, SyncInit
<1>2. Inv /\ [Next]_vars => Inv'
  BY TypeStep, StayStep, SyncStep
<1>3. Inv => Converged
  BY SyncConverges
<1> HIDE DEF Inv
<1> QED BY <1>1, <1>2, <1>3, PTL DEF Spec
-----------------------------------------------------------------------------
(* Convergence with editors that leave, or lose their connection and open  *)
(* the note again, in the memory of one process. When the log is cleared,  *)
(* whoever has the note open has yet to join: it is not in the room,       *)
(* nothing is on its way to it, and all it has is behind its join.         *)

(* A handler is between two awaits that suspend, or it executes.           *)
Waits(h) == (h.kind \in Edits /\ h.at = "append") \/ (h.kind = "leave" /\ h.at = "exists")
Turns == \A h \in running : h = cpu \/ Waits(h)

(* The steps that leave and disconnect share.                              *)
Stages == \A h \in running : h.at \in {"count", "clear", "forget"} => h.kind \in {"leave", "gone"}

(* The log is cleared while the document has no user.                      *)
Emptied == \A h \in running : h.at \in {"clear", "forget"} => users = {}

(* Whoever leaves has not got the note open when it is handled.            *)
Away ==
  /\ \A h \in running : h.kind \in {"leave", "gone"} => ~Present(h.by)
  /\ \A c \in Client : Present(c) => \A m \in Sent(c) : m.kind \in Edits \union Loaders

(* Opening the note again sends one join, before anything else.            *)
JoinFirst == \A c \in Client : Present(c) => \A i \in DOMAIN up[c] : up[c][i].kind = "join" => i = 1

Outside ==
  \A c \in Client : Present(c) /\ JoinSent(c) =>
    /\ c \notin room /\ Coming(c) = {} /\ \A h \in running : h.by # c
    /\ \A o \in known[c] : InUp(c, o)

UsersOk ==
  \A c \in Client : Present(c) => JoinSent(c) \/ Joining(c, {"start"}) \/ c \in users

(* A note that was closed is left.                                         *)
LeaveSent(c) == up[c] # <<>> /\ up[c][Len(up[c])].kind = "leave"
Leaving(c) == \E h \in running : h.by = c /\ h.kind = "leave" /\ h.at \in {"start", "left"}
LeftOk ==
  \A c \in Client : mode[c] = "out" =>
    \/ LeaveSent(c)
    \/ /\ up[c] = <<>> /\ (c \notin room \/ Leaving(c))
       /\ \A h \in running : h.by = c => h.kind # "join"

Memory == Shut /\ Turns /\ Stages /\ Emptied /\ Away /\ JoinFirst /\ Outside /\ UsersOk /\ LeftOk

LEMMA MemoryInit == Init => Memory
BY DEF Init, Memory, Shut, Turns, Stages, Emptied, Away, JoinFirst, Outside, UsersOk, LeftOk,
       Present, Sent

LEMMA OpenMemory ==
  ASSUME TypeOK, Memory, NEW c \in Client, Open(c), Unused(c)
  PROVE  Memory'
<1> DEFINE m == [kind |-> "join", ops |-> {}]
<1>1. /\ Sent(c)' = Sent(c) \union {m} /\ \A d \in Client \ {c} : up'[d] = up[d]
      /\ up'[c] = Append(up[c], m)
  <2>1. Send(c, "join", {})
    BY DEF Open
  <2> QED BY <2>1, SendSent
<1>2. /\ \A d \in Client \ {c} : Sent(d)' = Sent(d) /\ mode'[d] = mode[d] /\ known'[d] = known[d]
      /\ known'[c] = {} /\ mode'[c] = "joined" /\ mode[c] = "out"
  BY <1>1 DEF Sent, Open, TypeOK
<1>3. UNCHANGED <<log, users, room, running, cpu, inbox>>
  BY DEF Open, server
<1>4. Sent(c) = {} /\ Coming(c) = {} /\ (\A h \in running : h.by # c) /\ up[c] = <<>>
  BY DEF Unused, Sent, Coming
<1>5. \A d \in Client \ {c} : /\ Present(d)' <=> Present(d)
                              /\ JoinSent(d)' <=> JoinSent(d)
                              /\ LeaveSent(d)' <=> LeaveSent(d)
                              /\ Leaving(d)' <=> Leaving(d)
  BY <1>1, <1>2, <1>3 DEF Present, JoinSent, LeaveSent, Leaving
<1>6. \A h \in running : h.by \in Client \ {c}
  BY <1>4 DEF TypeOK, Handler
<1>7. m.kind = "join" /\ Sent(c)' = {m}
  BY <1>1, <1>4
<1>8. c \notin room
  BY <1>2, <1>4 DEF Memory, LeftOk, LeaveSent, Leaving
<1>9. Shut' /\ Turns' /\ Stages' /\ Emptied'
  BY <1>2, <1>3 DEF Memory, Shut, Turns, Stages, Emptied
<1>10. Away'
  BY <1>2, <1>3, <1>5, <1>6, <1>7 DEF Memory, Away, Loaders
<1>11. JoinFirst'
  <2>1. DOMAIN up'[c] = {1}
    BY <1>1, <1>4
  <2> QED BY <1>1, <1>5, <2>1 DEF Memory, JoinFirst
<1>12. Outside'
  <2>1. \A d \in Client \ {c} : \A o : InUp(d, o)' <=> InUp(d, o)
    BY <1>2 DEF InUp
  <2>2. \A d \in Client : Coming(d)' = Coming(d)
    BY <1>3 DEF Coming
  <2> QED BY <1>2, <1>3, <1>4, <1>5, <1>8, <2>1, <2>2 DEF Memory, Outside
<1>13. UsersOk'
  <2>1. JoinSent(c)'
    BY <1>7 DEF JoinSent
  <2> QED BY <1>3, <1>5, <2>1 DEF Memory, UsersOk, Joining
<1>14. LeftOk'
  BY <1>1, <1>2, <1>3, <1>5 DEF Memory, LeftOk
<1> QED BY <1>9, <1>10, <1>11, <1>12, <1>13, <1>14 DEF Memory

(* An editor that has the note open sends operations or receives a message. *)
LEMMA EditorMemory ==
  ASSUME TypeOK, Memory, NEW c \in Client, NEW kind \in Edits \union {"request"}, NEW ops,
         kind = "request" => ops = {},
         UNCHANGED up \/ Send(c, kind, ops), Present(c), Present(c)',
         JoinSent(c) => \A o \in known'[c] : o \in known[c] \/ (o \in ops /\ Send(c, kind, ops)),
         \A d \in Client \ {c} : known'[d] = known[d] /\ mode'[d] = mode[d],
         \A d \in Client : Coming(d) = {} => Coming(d)' = {},
         Shut', UNCHANGED server
  PROVE  Memory'
<1> DEFINE new == [kind |-> kind, ops |-> ops]
<1>0. new.kind = kind /\ new.ops = ops /\ kind # "join" /\ kind \in Edits \union Loaders
  BY DEF Edits, Loaders
<1>1. /\ Sent(c) \subseteq Sent(c)' /\ Sent(c)' \subseteq Sent(c) \union {new}
      /\ Send(c, kind, ops) => new \in Sent(c)'
      /\ \A d \in Client \ {c} : Sent(d)' = Sent(d) /\ up'[d] = up[d]
      /\ up'[c] = up[c] \/ up'[c] = Append(up[c], new)
  <2>1. CASE Send(c, kind, ops)
    <3>1. /\ Sent(c)' = Sent(c) \union {new} /\ \A d \in Client \ {c} : up'[d] = up[d]
          /\ up'[c] = Append(up[c], new)
      BY <2>1, SendSent
    <3> QED BY <3>1 DEF Sent
  <2>2. CASE UNCHANGED up /\ ~Send(c, kind, ops)
    BY <2>2 DEF Sent
  <2> QED BY <2>1, <2>2
<1>2. UNCHANGED <<log, users, room, running, cpu>>
  BY DEF server
<1>3. \A d \in Client : (Present(d)' <=> Present(d)) /\ (JoinSent(d)' <=> JoinSent(d))
  BY <1>0, <1>1 DEF JoinSent, Present
<1>4. Turns' /\ Stages' /\ Emptied'
  BY <1>2 DEF Memory, Turns, Stages, Emptied
<1>5. Away'
  <2>1. \A h \in running : h.by \in Client
    BY DEF TypeOK, Handler
  <2> QED BY <1>0, <1>1, <1>2, <1>3, <2>1 DEF Memory, Away
<1>6. JoinFirst'
  <2>1. ASSUME up'[c] = Append(up[c], new), NEW i \in DOMAIN up'[c], up'[c][i].kind = "join"
        PROVE  i = 1
    <3>1. up[c] \in Seq(Message)
      BY DEF TypeOK
    <3>2. i = Len(up[c]) + 1 => up'[c][i] = new
      BY <2>1, <3>1
    <3>3. i # Len(up[c]) + 1 => i \in DOMAIN up[c] /\ up'[c][i] = up[c][i]
      BY <2>1, <3>1
    <3> QED BY <1>0, <2>1, <3>2, <3>3 DEF Memory, JoinFirst
  <2> QED BY <1>1, <1>3, <2>1 DEF Memory, JoinFirst
<1>7. Outside'
  <2>1. \A d \in Client : \A o : InUp(d, o) => InUp(d, o)'
    BY <1>1 DEF InUp
  <2>2. Send(c, kind, ops) => \A o \in ops : InUp(c, o)'
    BY <1>0, <1>1 DEF InUp
  <2> QED BY <1>2, <1>3, <2>1, <2>2 DEF Memory, Outside
<1>8. UsersOk'
  BY <1>2, <1>3 DEF Memory, UsersOk, Joining
<1>9. LeftOk'
  <2>1. mode'[c] # "out"
    BY DEF Present
  <2> QED BY <1>1, <1>2, <2>1 DEF Memory, LeftOk, LeaveSent, Leaving
<1> QED BY <1>4, <1>5, <1>6, <1>7, <1>8, <1>9 DEF Memory

LEMMA EditMemory ==
  ASSUME TypeOK, Memory, NEW c \in Client, Edit(c)
  PROVE  Memory'
<1>1. /\ Send(c, "update", {NewOp}) /\ UNCHANGED <<server, mode, inbox>> /\ "update" \in Edits
      /\ mode[c] \in {"joined", "synced"}
  BY DEF Edit, Edits
<1>2. known'[c] = known[c] \union {NewOp} /\ \A d \in Client \ {c} : known'[d] = known[d]
  BY DEF Edit, Make, TypeOK
<1>3. (\A d \in Client : Coming(d)' = Coming(d)) /\ Present(c) /\ Present(c)' /\ Shut'
  BY <1>1 DEF Coming, Present, Memory, Shut
<1> QED BY <1>1, <1>2, <1>3, EditorMemory

LEMMA ReceiveMemory ==
  ASSUME TypeOK, Memory, NEW c \in Client, Receive(c)
  PROVE  Memory'
<1>1. PICK m \in Answer :
        /\ Coming(c) = Coming(c)' \union {m}
        /\ \A d \in Client \ {c} : inbox'[d] = inbox[d] /\ known'[d] = known[d]
                                   /\ mode'[d] = mode[d] /\ up'[d] = up[d]
        /\ UNCHANGED server
        /\ \/ UNCHANGED <<up, known, seeds, mode>> /\ mode[c] = "out"
           \/ \E kind \in Edits \union {"request"}, ops \in SUBSET Op :
                /\ (kind = "request" => ops = {})
                /\ Present(c) /\ mode'[c] \in {"joined", "synced"}
                /\ UNCHANGED up \/ Send(c, kind, ops)
  BY ReceiveEffect DEF Memory
<1>2. \A d \in Client : Coming(d) = {} => Coming(d)' = {}
  <2>1. \A d \in Client \ {c} : Coming(d)' = Coming(d)
    BY <1>1 DEF Coming
  <2> QED BY <1>1, <2>1
<1>3. CASE UNCHANGED <<up, known, seeds, mode>> /\ mode[c] = "out"
  <2>1. UNCHANGED <<log, users, room, running, cpu>>
    BY <1>1 DEF server
  <2>2. Shut'
    BY <1>1, <1>3 DEF Memory, Shut
  <2>3. Outside'
    BY <1>2, <1>3, <2>1 DEF Memory, Outside, Present, JoinSent, InUp, Sent
  <2> QED BY <1>3, <2>1, <2>2, <2>3
             DEF Memory, Turns, Stages, Emptied, Away, JoinFirst, UsersOk, LeftOk, LeaveSent,
                 Leaving, Present, Sent, JoinSent, Joining
<1>4. ASSUME NEW kind \in Edits \union {"request"}, NEW ops \in SUBSET Op,
             kind = "request" => ops = {},
             Present(c), mode'[c] \in {"joined", "synced"},
             UNCHANGED up \/ Send(c, kind, ops)
      PROVE  Memory'
  <2>1. ~JoinSent(c)
    BY <1>1, <1>4 DEF Memory, Outside
  <2>2. Present(c)' /\ Shut'
    BY <1>1, <1>4 DEF Present, Memory, Shut
  <2> QED BY <1>1, <1>2, <1>4, <2>1, <2>2, EditorMemory
<1> QED BY <1>1, <1>3, <1>4

(* Whoever closes the note or loses the connection has it open no more;    *)
(* nothing changes for the others.                                         *)
LEMMA LeavesMemory ==
  ASSUME TypeOK, Memory, Sync, NEW c \in Client, Close(c) \/ Disconnect(c)
  PROVE  Memory' /\ Sync'
<1>1. /\ UNCHANGED <<server, known>>
      /\ \A d \in Client \ {c} : up'[d] = up[d] /\ inbox'[d] = inbox[d] /\ mode'[d] = mode[d]
  BY DEF Close, Disconnect, Send, TypeOK
<1>2. UNCHANGED <<log, users, room, running, cpu>>
  BY <1>1 DEF server
<1>3. /\ mode'[c] = "out" => LeaveSent(c)'
      /\ mode'[c] = "closed" => inbox'[c] = <<>>
      /\ mode'[c] \in {"out", "closed"}
  <2>1. CASE Close(c)
    <3> DEFINE m == [kind |-> "leave", ops |-> {}]
    <3>1. up'[c] = Append(up[c], m) /\ mode'[c] = "out"
      BY <2>1 DEF Close, Send, TypeOK
    <3>2. up[c] \in Seq(Message) /\ m.kind = "leave"
      BY DEF TypeOK
    <3> HIDE DEF m
    <3>3. /\ Append(up[c], m) # <<>> /\ Len(Append(up[c], m)) = Len(up[c]) + 1
          /\ Append(up[c], m)[Len(up[c]) + 1] = m
      BY <3>2
    <3> QED BY <3>1, <3>2, <3>3 DEF LeaveSent
  <2>2. CASE Disconnect(c)
    BY <2>2 DEF Disconnect, TypeOK
  <2> QED BY <2>1, <2>2
<1>4. \A d \in Client : Present(d)' => d # c /\ Present(d)
  BY <1>1, <1>3 DEF Present
<1>5. \A d \in Client \ {c} :
        /\ Sent(d)' = Sent(d) /\ Coming(d)' = Coming(d) /\ (JoinSent(d)' <=> JoinSent(d))
        /\ LeaveSent(d)' <=> LeaveSent(d)
  BY <1>1 DEF Sent, Coming, JoinSent, LeaveSent
<1>6. Memory'
  <2>1. Shut' /\ Turns' /\ Stages' /\ Emptied'
    BY <1>1, <1>2, <1>3 DEF Memory, Shut, Turns, Stages, Emptied
  <2>2. Away'
    <3>1. \A h \in running : h.by \in Client
      BY DEF TypeOK, Handler
    <3> QED BY <1>2, <1>4, <1>5, <3>1 DEF Memory, Away
  <2>3. JoinFirst'
    BY <1>1, <1>4 DEF Memory, JoinFirst
  <2>4. Outside'
    BY <1>1, <1>2, <1>4, <1>5 DEF Memory, Outside, InUp
  <2>5. UsersOk'
    BY <1>2, <1>4, <1>5 DEF Memory, UsersOk, Joining
  <2>6. LeftOk'
    BY <1>1, <1>2, <1>3, <1>5 DEF Memory, LeftOk, Leaving
  <2> QED BY <2>1, <2>2, <2>3, <2>4, <2>5, <2>6 DEF Memory
<1>7. Sync'
  <2>1. OwnOk'
    BY <1>1, <1>2, <1>4, <1>5 DEF Sync, OwnOk
  <2>2. RoomOk'
    BY <1>2, <1>4, <1>5 DEF Sync, RoomOk, Joining
  <2>3. LoggedOk'
    BY <1>2, <1>4, <1>5 DEF Sync, LoggedOk
  <2>4. UpOk'
    BY <1>1, <1>2, <1>4, <1>5 DEF Sync, UpOk, InUp, InHand
  <2>5. DownOk'
    BY <1>1, <1>2, <1>4, <1>5 DEF Sync, DownOk, HasRead, Joining, InBox, InJoin, InCast
  <2> QED BY <2>1, <2>2, <2>3, <2>4, <2>5 DEF Sync
<1> QED BY <1>6, <1>7

LEMMA StartMemory ==
  ASSUME TypeOK, Memory, NEW c \in Client, Start(c)
  PROVE  Memory'
<1> DEFINE m == Head(up[c])
<1> DEFINE h == [kind |-> m.kind, by |-> c, ops |-> m.ops, at |-> "start", sessions |-> {}]
<1>0. up[c] \in Seq(Message) /\ up[c] # <<>>
  BY DEF Start, TypeOK
<1>1. /\ Sent(c) = Sent(c)' \union {m} /\ up'[c] = Tail(up[c])
      /\ \A d \in Client \ {c} : up'[d] = up[d] /\ Sent(d)' = Sent(d)
  BY StartSent DEF Sent
<1>2. /\ running' = running \union {h} /\ cpu' = h /\ cpu = NoHandler
      /\ UNCHANGED <<log, users, room, mode, known, inbox>>
  BY DEF Start, client
<1>3. h.kind = m.kind /\ h.by = c /\ h.ops = m.ops /\ h.at = "start"
  OBVIOUS
<1>4. /\ m = up[c][1] /\ DOMAIN up[c] = 1 .. Len(up[c]) /\ Len(up[c]) \in Nat \ {0}
      /\ Len(Tail(up[c])) = Len(up[c]) - 1
      /\ DOMAIN Tail(up[c]) = 1 .. Len(up[c]) - 1
      /\ \A i \in 1 .. Len(up[c]) - 1 : Tail(up[c])[i] = up[c][i + 1]
  BY <1>0
<1> HIDE DEF m, h
<1>5. \A g \in running : Waits(g)
  BY <1>2, NoHandlerAssumption DEF Memory, Turns, TypeOK
<1>6. Shut' /\ Turns' /\ Stages' /\ Emptied'
  <2>1. Shut' /\ Stages' /\ Emptied'
    BY <1>2, <1>3 DEF Memory, Shut, Stages, Emptied
  <2>2. Turns'
    BY <1>2, <1>5 DEF Turns, Waits
  <2> QED BY <2>1, <2>2
<1>7. \A d \in Client : (Present(d)' <=> Present(d)) /\ Coming(d)' = Coming(d)
  BY <1>2 DEF Present, Coming
<1>8. Away'
  <2>1. m.kind \in {"leave", "gone"} => ~Present(c)
    BY <1>1 DEF Memory, Away, Edits, Loaders
  <2>2. \A g \in running : g.by \in Client
    BY DEF TypeOK, Handler
  <2> QED BY <1>1, <1>2, <1>3, <1>7, <2>1, <2>2 DEF Memory, Away
<1>9. Present(c) => \A i \in DOMAIN up'[c] : up'[c][i].kind # "join"
  <2>1. ASSUME Present(c), NEW i \in 1 .. Len(up[c]) - 1
        PROVE  Tail(up[c])[i].kind # "join"
    <3>1. i + 1 \in DOMAIN up[c] /\ i + 1 # 1 /\ Tail(up[c])[i] = up[c][i + 1]
      BY <1>4
    <3> QED BY <2>1, <3>1 DEF Memory, JoinFirst
  <2> QED BY <1>1, <1>4, <2>1
<1>10. JoinFirst'
  BY <1>1, <1>7, <1>9 DEF Memory, JoinFirst
<1>11. /\ Present(c) => ~JoinSent(c)'
       /\ \A d \in Client \ {c} : JoinSent(d)' <=> JoinSent(d)
  BY <1>1, <1>9 DEF JoinSent, Sent
<1>12. Outside'
  <2>1. \A d \in Client \ {c} : \A o : InUp(d, o)' <=> InUp(d, o)
    BY <1>1 DEF InUp
  <2> QED BY <1>2, <1>3, <1>7, <1>11, <2>1 DEF Memory, Outside
<1>13. UsersOk'
  <2>1. JoinSent(c) => JoinSent(c)' \/ Joining(c, {"start"})'
    BY <1>1, <1>2, <1>3 DEF JoinSent, Joining
  <2>2. \A d \in Client : Joining(d, {"start"}) => Joining(d, {"start"})'
    BY <1>2 DEF Joining
  <2> QED BY <1>2, <1>7, <1>11, <2>1, <2>2 DEF Memory, UsersOk
<1>14. LeftOk'
  <2>1. ASSUME mode[c] = "out"
        PROVE  \/ LeaveSent(c)'
               \/ /\ up'[c] = <<>> /\ Leaving(c)'
                  /\ \A g \in running' : g.by = c => g.kind # "join"
    <3>1. LeaveSent(c)
      BY <1>0, <2>1 DEF Memory, LeftOk
    <3>2. CASE Len(up[c]) = 1
      <4>1. up'[c] = <<>> /\ h.kind = "leave"
        BY <1>0, <1>1, <1>3, <1>4, <3>1, <3>2 DEF LeaveSent
      <4>2. Leaving(c)' /\ \A g \in running' : g.by = c => g.kind # "join"
        BY <1>2, <1>3, <1>5, <4>1 DEF Leaving, Waits, Edits
      <4> QED BY <4>1, <4>2
    <3>3. CASE Len(up[c]) # 1
      <4>0. \A n \in Nat \ {0} : n # 1 => n - 1 \in 1 .. n - 1 /\ n - 1 # 0 /\ (n - 1) + 1 = n
        OBVIOUS
      <4>1. /\ Len(up[c]) - 1 \in 1 .. Len(up[c]) - 1 /\ Len(up[c]) - 1 # 0
            /\ (Len(up[c]) - 1) + 1 = Len(up[c])
        BY <1>4, <3>3, <4>0
      <4>2. Tail(up[c])[Len(Tail(up[c]))] = up[c][Len(up[c])] /\ Tail(up[c]) # <<>>
        BY <1>4, <4>1
      <4> QED BY <1>1, <3>1, <4>2 DEF LeaveSent
    <3> QED BY <3>2, <3>3
  <2>2. \A d \in Client \ {c} : /\ LeaveSent(d)' <=> LeaveSent(d)
                                /\ Leaving(d) => Leaving(d)'
    BY <1>1, <1>2 DEF LeaveSent, Leaving
  <2> QED BY <1>1, <1>2, <1>3, <2>1, <2>2 DEF Memory, LeftOk
<1> QED BY <1>6, <1>8, <1>10, <1>12, <1>13, <1>14 DEF Memory

(* What one step of a handler changes, *)
LEMMA HandlerEffect ==
  ASSUME TypeOK, Memory, NEW h \in running, Handle(h)
  PROVE  /\ h \in Handler /\ h.by \in Client /\ cpu \in {NoHandler, h}
         /\ UNCHANGED <<mode, known, up>>
         /\ \/ users' = users \/ users' = users \union {h.by}
            \/ users' = users \ {h.by} /\ h.kind \in {"leave", "gone"}
            \/ users' = {} /\ h.at = "forget"
         /\ h.kind = "join" /\ h.at = "start" => h.by \in users'
         /\ \/ room' = room
            \/ room' = room \union {h.by} /\ h.kind = "join"
            \/ room' = room \ {h.by} /\ h.kind \in {"leave", "gone"}
         /\ h.kind = "leave" /\ h.at = "left" => h.by \notin room'
         /\ \A c \in Client : inbox'[c] = inbox[c] \/ (mode[c] # "closed" /\ (c = h.by \/ c \in room))
         /\ \/ JoinAddUser(h) \/ JoinEnterRoom(h) \/ JoinReadLog(h) \/ JoinSendState(h)
            \/ RequestSessions(h) \/ RequestExists(h)
            \/ UpdateStopSave(h) \/ UpdateAppend(h) \/ UpdateBroadcast(h) \/ ClearUpdates(h)
            \/ h.kind \in {"leave", "gone"} /\ UNCHANGED <<log, inbox>>
<1>1. h \in Handler /\ h.by \in Client
  BY DEF TypeOK, Handler
<1>2. UNCHANGED <<mode, known, up>>
  BY HandleQuiet DEF client
<1>3. h.at \in {"count", "clear", "forget"} => h.kind \in {"leave", "gone"}
  BY DEF Memory, Stages
<1>4. CASE JoinAddUser(h) \/ JoinEnterRoom(h) \/ JoinReadLog(h)
  BY <1>1, <1>2, <1>4 DEF JoinAddUser, JoinEnterRoom, JoinReadLog, Loads, Executes
<1>5. CASE JoinSendState(h)
  BY <1>1, <1>2, <1>5 DEF JoinSendState, EmitTo, Loads, Executes
<1>6. CASE UpdateStopSave(h) \/ UpdateAppend(h)
  BY <1>1, <1>2, <1>6 DEF UpdateStopSave, UpdateAppend, Updates, Executes
<1>7. CASE UpdateBroadcast(h)
  BY <1>1, <1>2, <1>7 DEF UpdateBroadcast, EmitTo, Updates, Executes
<1>8. CASE LeaveRemoveUser(h) \/ LeaveRoom(h) \/ LeaveExists(h)
  BY <1>1, <1>2, <1>8 DEF LeaveRemoveUser, LeaveRoom, LeaveExists, Executes
<1>9. CASE CountUsers(h) \/ ClearUpdates(h) \/ ClearUsers(h)
  BY <1>1, <1>2, <1>3, <1>9 DEF CountUsers, ClearUpdates, ClearUsers, Executes
<1>10. CASE GoneListKeys(h) \/ GoneRemoveUser(h)
  BY <1>1, <1>2, <1>10 DEF GoneListKeys, GoneRemoveUser, Executes
<1>11. CASE RequestSessions(h) \/ RequestExists(h)
  BY <1>1, <1>2, <1>11 DEF RequestSessions, RequestExists, Executes
<1> QED BY <1>4, <1>5, <1>6, <1>7, <1>8, <1>9, <1>10, <1>11 DEF Handle

(* and how the handler goes on in memory: g is h after it.                 *)
GoesOnAs(h, g) ==
  /\ running' = (running \ {h}) \union {g}
  /\ g.kind = h.kind /\ g.by = h.by
  /\ cpu' = g \/ (cpu' = NoHandler /\ Waits(g))
  /\ g.at # "start"
  /\ h.kind = "leave" /\ h.at = "start" => g.at = "left"
  /\ g.at \in {"count", "clear", "forget"} => g.kind \in {"leave", "gone"}
  /\ g.at \in {"clear", "forget"} => users' = {}

LEMMA HandlerMoves ==
  ASSUME TypeOK, Memory, ~Redis, NEW h \in running, Handle(h)
  PROVE  \/ Ends(h) /\ ~(h.kind = "leave" /\ h.at = "start")
         \/ \E g : GoesOnAs(h, g)
<1>1. h \in Handler /\ (h.at \in {"count", "clear", "forget"} => h.kind \in {"leave", "gone"})
  BY DEF TypeOK, Memory, Stages
<1>2. ASSUME NEW at, NEW g, g = [h EXCEPT !.at = at]
      PROVE  g.at = at /\ g.kind = h.kind /\ g.by = h.by
  BY <1>1, <1>2 DEF Handler
<1>3. ASSUME NEW at, at # "start", at \notin {"left", "count", "clear", "forget"},
             NEW g, g.at = at, g.kind = h.kind, g.by = h.by,
             ~(h.kind = "leave" /\ h.at = "start"),
             Continues(h, g) \/ (Suspends(h, g) /\ Waits(g))
      PROVE  GoesOnAs(h, g)
  BY <1>3 DEF GoesOnAs, Continues, Suspends
<1>4. CASE JoinAddUser(h)
  <2> DEFINE g == [h EXCEPT !.at = "room"]
  <2>1. g.at = "room" /\ g.kind = h.kind /\ g.by = h.by
    BY <1>2
  <2>2. Continues(h, g) /\ h.kind = "join"
    BY <1>4 DEF JoinAddUser, Executes
  <2> HIDE DEF g
  <2> QED BY <1>3, <2>1, <2>2
<1>5. CASE JoinEnterRoom(h)
  <2> DEFINE g == [h EXCEPT !.at = "read", !.sessions = room']
  <2>1. g.at = "read" /\ g.kind = h.kind /\ g.by = h.by
    BY <1>1 DEF Handler
  <2>2. Continues(h, g) /\ h.kind = "join"
    BY <1>5 DEF JoinEnterRoom, Executes
  <2> HIDE DEF g
  <2> QED BY <1>3, <2>1, <2>2
<1>6. CASE JoinReadLog(h)
  <2> DEFINE g == [h EXCEPT !.at = "send", !.ops = State]
  <2>1. g.at = "send" /\ g.kind = h.kind /\ g.by = h.by
    BY <1>1 DEF Handler
  <2>2. Continues(h, g) /\ h.kind # "leave"
    BY <1>6 DEF JoinReadLog, Loads, Executes
  <2> HIDE DEF g
  <2> QED BY <1>3, <2>1, <2>2
<1>7. CASE UpdateStopSave(h)
  <2> DEFINE g == [h EXCEPT !.at = "append"]
  <2>1. g.at = "append" /\ g.kind = h.kind /\ g.by = h.by
    BY <1>2
  <2>2. (Continues(h, g) \/ Suspends(h, g)) /\ h.kind \in Edits /\ h.kind # "leave"
    BY <1>7 DEF UpdateStopSave, Updates, Executes, Edits
  <2> HIDE DEF g
  <2>3. Waits(g)
    BY <2>1, <2>2 DEF Waits
  <2> QED BY <1>3, <2>1, <2>2, <2>3
<1>8. CASE UpdateAppend(h)
  <2> DEFINE g == [h EXCEPT !.at = "broadcast"]
  <2>1. g.at = "broadcast" /\ g.kind = h.kind /\ g.by = h.by
    BY <1>2
  <2>2. Continues(h, g) /\ h.kind # "leave"
    BY <1>8 DEF UpdateAppend, Updates, Executes
  <2> HIDE DEF g
  <2> QED BY <1>3, <2>1, <2>2
<1>9. CASE JoinSendState(h) \/ UpdateBroadcast(h)
  BY <1>9 DEF JoinSendState, UpdateBroadcast, Loads, Updates, Executes
<1>10. CASE LeaveRemoveUser(h)
  <2> DEFINE g == [h EXCEPT !.at = "left"]
  <2>1. g.at = "left" /\ g.kind = h.kind /\ g.by = h.by
    BY <1>2
  <2>2. Continues(h, g)
    BY <1>10 DEF LeaveRemoveUser
  <2> HIDE DEF g
  <2> QED BY <2>1, <2>2 DEF GoesOnAs, Continues
<1>11. CASE LeaveRoom(h)
  <2> DEFINE g == [h EXCEPT !.at = "exists"]
  <2>1. g.at = "exists" /\ g.kind = h.kind /\ g.by = h.by
    BY <1>2
  <2>2. (Continues(h, g) \/ Suspends(h, g)) /\ h.kind = "leave" /\ h.at = "left"
    BY <1>11 DEF LeaveRoom, Executes
  <2> HIDE DEF g
  <2>3. Waits(g)
    BY <2>1, <2>2 DEF Waits
  <2> QED BY <1>3, <2>1, <2>2, <2>3
<1>12. CASE LeaveExists(h)
  <2> DEFINE g == [h EXCEPT !.at = "count"]
  <2>1. g.at = "count" /\ g.kind = h.kind /\ g.by = h.by
    BY <1>2
  <2>2. (Ends(h) \/ Continues(h, g)) /\ h.kind = "leave" /\ h.at = "exists"
    BY <1>12 DEF LeaveExists, Executes
  <2> HIDE DEF g
  <2> QED BY <2>1, <2>2 DEF GoesOnAs, Continues
<1>13. CASE CountUsers(h)
  <2> DEFINE g == [h EXCEPT !.at = "clear"]
  <2>1. g.at = "clear" /\ g.kind = h.kind /\ g.by = h.by
    BY <1>2
  <2>2. h.at = "count" /\ (Ends(h) \/ (Continues(h, g) /\ users' = {}))
    BY <1>13 DEF CountUsers, Executes, NobodyLeft
  <2> HIDE DEF g
  <2> QED BY <1>1, <2>1, <2>2 DEF GoesOnAs, Continues
<1>14. CASE ClearUpdates(h)
  <2> DEFINE g == [h EXCEPT !.at = "forget"]
  <2>1. g.at = "forget" /\ g.kind = h.kind /\ g.by = h.by
    BY <1>2
  <2>2. h.at = "clear" /\ Continues(h, g) /\ users' = {}
    BY <1>14 DEF ClearUpdates, Executes, Memory, Emptied
  <2> HIDE DEF g
  <2> QED BY <1>1, <2>1, <2>2 DEF GoesOnAs, Continues
<1>15. CASE ClearUsers(h)
  BY <1>15 DEF ClearUsers, Executes
<1>16. CASE GoneListKeys(h)
  <2> DEFINE g == [h EXCEPT !.at = "keys"]
  <2>1. g.at = "keys" /\ g.kind = h.kind /\ g.by = h.by
    BY <1>2
  <2>2. (Ends(h) \/ Continues(h, g)) /\ h.kind = "gone"
    BY <1>16 DEF GoneListKeys, Executes
  <2> HIDE DEF g
  <2> QED BY <1>3, <2>1, <2>2
<1>17. CASE GoneRemoveUser(h)
  <2> DEFINE g == [h EXCEPT !.at = "count"]
  <2>1. g.at = "count" /\ g.kind = h.kind /\ g.by = h.by
    BY <1>2
  <2>2. Continues(h, g) /\ h.kind = "gone"
    BY <1>17 DEF GoneRemoveUser, Executes
  <2> HIDE DEF g
  <2> QED BY <2>1, <2>2 DEF GoesOnAs, Continues
<1>18. CASE RequestSessions(h)
  <2> DEFINE g == [h EXCEPT !.at = "find", !.sessions = room]
  <2>1. g.at = "find" /\ g.kind = h.kind /\ g.by = h.by
    BY <1>1 DEF Handler
  <2>2. (Ends(h) \/ Continues(h, g)) /\ h.kind = "request"
    BY <1>18 DEF RequestSessions, Executes
  <2> HIDE DEF g
  <2> QED BY <1>3, <2>1, <2>2
<1>19. CASE RequestExists(h)
  <2> DEFINE g == [h EXCEPT !.at = "read"]
  <2>1. g.at = "read" /\ g.kind = h.kind /\ g.by = h.by
    BY <1>2
  <2>2. (Ends(h) \/ Continues(h, g)) /\ h.kind = "request"
    BY <1>19 DEF RequestExists, Executes
  <2> HIDE DEF g
  <2> QED BY <1>3, <2>1, <2>2
<1> QED BY <1>4, <1>5, <1>6, <1>7, <1>8, <1>9, <1>10, <1>11, <1>12, <1>13, <1>14, <1>15, <1>16,
           <1>17, <1>18, <1>19 DEF Handle

(* While a handler executes, all others wait.                              *)
LEMMA OthersWait ==
  ASSUME TypeOK, Memory, NEW h \in running, cpu \in {NoHandler, h}
  PROVE  \A f \in running \ {h} : Waits(f) /\ f.at \in {"append", "exists"}
BY NoHandlerAssumption DEF Memory, Turns, TypeOK, Waits

LEMMA HandleMemory ==
  ASSUME TypeOK, Memory, ~Redis, NEW h \in running, Handle(h)
  PROVE  Memory'
<1>1. /\ h \in Handler /\ h.by \in Client /\ cpu \in {NoHandler, h}
      /\ UNCHANGED <<mode, known, up>>
      /\ \/ users' = users \/ users' = users \union {h.by}
         \/ users' = users \ {h.by} /\ h.kind \in {"leave", "gone"}
         \/ users' = {} /\ h.at = "forget"
      /\ h.kind = "join" /\ h.at = "start" => h.by \in users'
      /\ \/ room' = room
         \/ room' = room \union {h.by} /\ h.kind = "join"
         \/ room' = room \ {h.by} /\ h.kind \in {"leave", "gone"}
      /\ h.kind = "leave" /\ h.at = "left" => h.by \notin room'
      /\ \A c \in Client : inbox'[c] = inbox[c] \/ (mode[c] # "closed" /\ (c = h.by \/ c \in room))
  BY HandlerEffect
<1>2. /\ \A c \in Client : Present(c)' <=> Present(c)
      /\ \A c \in Client : Sent(c)' = Sent(c) /\ (JoinSent(c)' <=> JoinSent(c))
      /\ \A c \in Client : \A o : InUp(c, o)' <=> InUp(c, o)
      /\ \A c \in Client : LeaveSent(c)' <=> LeaveSent(c)
  BY <1>1, HandleSame DEF LeaveSent
<1>3. \A f \in running \ {h} : Waits(f) /\ f.at \in {"append", "exists"}
  BY <1>1, OthersWait
<1>4. \/ running' = running \ {h} /\ ~(h.kind = "leave" /\ h.at = "start")
      \/ \E g : GoesOnAs(h, g)
  BY HandlerMoves DEF Ends
<1>5. \A f \in running : f.by \in Client
  BY DEF TypeOK, Handler
<1>6. ASSUME NEW f \in running', f \notin running \ {h}
      PROVE  GoesOnAs(h, f)
  <2>1. PICK g : GoesOnAs(h, g)
    BY <1>4, <1>6
  <2>2. f = g
    BY <1>6, <2>1 DEF GoesOnAs
  <2> QED BY <2>1, <2>2
<1>7. running \ {h} \subseteq running'
  BY <1>4 DEF GoesOnAs
<1>8. Shut'
  BY <1>1 DEF Memory, Shut
<1>9. Turns'
  BY <1>3, <1>6 DEF Turns, Waits, GoesOnAs
<1>10. Stages' /\ Emptied'
  BY <1>3, <1>6 DEF Stages, Emptied, GoesOnAs
<1>11. \A f \in running' : \E k \in running : k.kind = f.kind /\ k.by = f.by
  BY <1>6 DEF GoesOnAs
<1>12. Away'
  BY <1>1, <1>2, <1>5, <1>11 DEF Memory, Away
<1>13. JoinFirst'
  BY <1>1, <1>2 DEF Memory, JoinFirst
<1>14. Outside'
  <2> SUFFICES ASSUME NEW c \in Client, Present(c), JoinSent(c)
               PROVE  /\ c \notin room' /\ Coming(c)' = {} /\ \A f \in running' : f.by # c
                      /\ \A o \in known'[c] : InUp(c, o)'
    BY <1>2 DEF Outside
  <2>1. /\ c \notin room /\ Coming(c) = {} /\ \A f \in running : f.by # c
        /\ \A o \in known[c] : InUp(c, o)
    BY DEF Memory, Outside
  <2>2. inbox'[c] = inbox[c]
    BY <1>1, <2>1
  <2>3. Coming(c)' = {}
    BY <2>1, <2>2 DEF Coming
  <2> QED BY <1>1, <1>2, <1>11, <2>1, <2>3
<1>15. UsersOk'
  <2> SUFFICES ASSUME NEW c \in Client, Present(c), ~JoinSent(c)
               PROVE  Joining(c, {"start"})' \/ c \in users'
    BY <1>2 DEF UsersOk
  <2>1. CASE Joining(c, {"start"})
    <3>1. PICK f \in running : f.by = c /\ f.kind = "join" /\ f.at = "start"
      BY <2>1 DEF Joining
    <3>2. f = h
      BY <1>3, <3>1
    <3> QED BY <1>1, <3>1, <3>2
  <2>2. CASE c \in users
    <3>1. h.kind \in {"leave", "gone"} => c # h.by
      BY DEF Memory, Away
    <3>2. h.at # "forget"
      BY <2>2 DEF Memory, Emptied
    <3> QED BY <1>1, <2>2, <3>1, <3>2
  <2> QED BY <2>1, <2>2 DEF Memory, UsersOk
<1>16. LeftOk'
  <2> SUFFICES ASSUME NEW c \in Client, mode[c] = "out", ~LeaveSent(c)
               PROVE  /\ up'[c] = <<>> /\ (c \notin room' \/ Leaving(c)')
                      /\ \A f \in running' : f.by = c => f.kind # "join"
    BY <1>1, <1>2 DEF LeftOk
  <2>1. /\ up[c] = <<>> /\ (c \notin room \/ Leaving(c))
        /\ \A f \in running : f.by = c => f.kind # "join"
    BY DEF Memory, LeftOk
  <2>2. CASE c \notin room
    BY <1>1, <1>11, <2>1, <2>2
  <2>3. CASE Leaving(c)
    <3>1. PICK f \in running : f.by = c /\ f.kind = "leave" /\ f.at \in {"start", "left"}
      BY <2>3 DEF Leaving
    <3>2. f = h
      BY <1>3, <3>1
    <3>3. CASE h.at = "left"
      BY <1>1, <1>11, <2>1, <3>1, <3>2, <3>3
    <3>4. CASE h.at = "start"
      <4>1. PICK g : GoesOnAs(h, g)
        BY <1>4, <3>1, <3>2, <3>4
      <4>2. Leaving(c)'
        BY <3>1, <3>2, <3>4, <4>1 DEF Leaving, GoesOnAs
      <4> QED BY <1>1, <1>11, <2>1, <4>2
    <3> QED BY <3>1, <3>2, <3>3, <3>4
  <2> QED BY <2>1, <2>2, <2>3
<1> QED BY <1>8, <1>9, <1>10, <1>12, <1>13, <1>14, <1>15, <1>16 DEF Memory

(* A leave or a disconnection is no business of those who have the note    *)
(* open, as long as it leaves the log;                                     *)
LEMMA LeavingSyncs ==
  ASSUME TypeOK, Memory, Sync, ~Redis, NEW h \in running, Handle(h),
         h.kind \in {"leave", "gone"}, UNCHANGED <<log, inbox>>
  PROVE  Sync'
<1>1. /\ h.by \in Client /\ UNCHANGED <<mode, known, up>>
      /\ \/ room' = room
         \/ room' = room \union {h.by} /\ h.kind = "join"
         \/ room' = room \ {h.by} /\ h.kind \in {"leave", "gone"}
  BY HandlerEffect
<1>2. running' = running \ {h} \/ \E g : GoesOnAs(h, g)
  BY HandlerMoves DEF Ends
<1>3. ~Present(h.by)
  BY DEF Memory, Away
<1>4. \A c \in Client : Coming(c)' = Coming(c)
  BY DEF Coming
<1>5. h.kind \notin Edits \union Loaders
  BY DEF Edits, Loaders
<1>6. \A f \in running' : f.kind \in Edits \union Loaders => f \in running
  BY <1>2, <1>5 DEF GoesOnAs, Edits, Loaders
<1>7. \A f \in running : f.kind \in Edits \union Loaders => f \in running'
  BY <1>2, <1>5 DEF GoesOnAs
<1>8. \A c \in Client : \A steps : Joining(c, steps)' <=> Joining(c, steps)
  BY <1>6, <1>7 DEF Joining, Loaders
<1>9. OwnOk'
  BY <1>1, <1>6, HandleSame DEF OwnOk, Sync
<1>10. RoomOk'
  BY <1>1, <1>3, <1>8, HandleSame DEF RoomOk, Sync
<1>11. LoggedOk'
  BY <1>4, <1>6, HandleSame DEF LoggedOk, Sync
<1>12. UpOk'
  <2>1. \A c \in Client : \A o : InHand(c, o) => InHand(c, o)'
    BY <1>7 DEF InHand
  <2> QED BY <1>1, <2>1, HandleSame DEF UpOk, Sync
<1>13. DownOk'
  <2>1. \A c \in Client : HasRead(c)' => HasRead(c)
    BY <1>8, HandleSame DEF HasRead
  <2>2. \A c \in Client : \A o : (InJoin(c, o) => InJoin(c, o)') /\ (InCast(c, o) => InCast(c, o)')
    BY <1>7 DEF InJoin, InCast
  <2> QED BY <1>1, <1>4, <2>1, <2>2 DEF DownOk, InBox, Sync
<1> QED BY <1>9, <1>10, <1>11, <1>12, <1>13 DEF Sync

(* and when the log is cleared, all who have the note open have yet to     *)
(* join.                                                                   *)
LEMMA ClearSyncs ==
  ASSUME TypeOK, Memory, Sync, ~Redis, NEW h \in running, ClearUpdates(h)
  PROVE  Sync'
<1>0. Handle(h)
  BY DEF Handle
<1>1. /\ h.by \in Client /\ cpu \in {NoHandler, h} /\ UNCHANGED <<mode, known, up>>
      /\ \A c \in Client : Sent(c)' = Sent(c)
  BY <1>0, HandlerEffect, HandleSame
<1>2. /\ h.at = "clear" /\ users = {} /\ log' = {} /\ h.kind \in {"leave", "gone"}
      /\ UNCHANGED <<room, inbox>>
  BY DEF ClearUpdates, Executes, Memory, Emptied, Stages
<1>3. \A f \in running \ {h} : Waits(f) /\ f.at \in {"append", "exists"}
  BY <1>1, OthersWait
<1>4. ASSUME NEW c \in Client, Present(c)
      PROVE  /\ JoinSent(c) /\ Coming(c) = {} /\ (\A o \in known[c] : InUp(c, o))
             /\ \A f \in running : f.by # c
  <2>1. ~Joining(c, {"start"})
    BY <1>2, <1>3 DEF Joining
  <2>2. JoinSent(c)
    BY <1>2, <1>4, <2>1 DEF Memory, UsersOk
  <2> QED BY <1>4, <2>2 DEF Memory, Outside
<1>5. running' = running \ {h} \/ \E g : GoesOnAs(h, g)
  BY <1>0, HandlerMoves DEF Ends
<1>6. \A f \in running' : f.kind \in Edits \union Loaders => f \in running \ {h}
  BY <1>2, <1>5 DEF GoesOnAs, Edits, Loaders
<1>7. /\ \A c \in Client : (Present(c)' <=> Present(c)) /\ (JoinSent(c)' <=> JoinSent(c))
      /\ \A c \in Client : \A o : InUp(c, o)' <=> InUp(c, o)
      /\ \A c \in Client : Coming(c)' = Coming(c)
  BY <1>0, <1>2, HandleSame DEF Coming
<1>8. OwnOk'
  BY <1>1, <1>6, <1>7 DEF OwnOk, Sync
<1>9. RoomOk'
  BY <1>4, <1>7 DEF RoomOk
<1>10. LoggedOk'
  <2>1. \A f \in running' : f.kind \in Edits \union Loaders => f.at \notin {"broadcast", "send"}
    BY <1>3, <1>6
  <2> QED BY <1>4, <1>7, <2>1 DEF LoggedOk
<1>11. UpOk'
  BY <1>1, <1>4, <1>7 DEF UpOk
<1>12. DownOk'
  BY <1>2 DEF DownOk
<1> QED BY <1>8, <1>9, <1>10, <1>11, <1>12 DEF Sync

LEMMA MemoryStep ==
  ASSUME ~Redis, ~Overlap, TypeOK, Memory, Sync, [Next]_vars
  PROVE  Memory' /\ Sync'
<1>1. CASE UNCHANGED vars
  <2>1. UNCHANGED <<log, users, room, running, cpu, mode, known, up, inbox>>
    BY <1>1 DEF vars, server, client
  <2>2. /\ \A c \in Client : (Present(c)' <=> Present(c)) /\ (JoinSent(c)' <=> JoinSent(c))
        /\ \A c \in Client : Sent(c)' = Sent(c) /\ Coming(c)' = Coming(c)
        /\ \A c \in Client : \A steps : Joining(c, steps)' <=> Joining(c, steps)
        /\ \A c \in Client : (LeaveSent(c)' <=> LeaveSent(c)) /\ (Leaving(c)' <=> Leaving(c))
        /\ \A c \in Client : HasRead(c)' <=> HasRead(c)
    BY <2>1 DEF Present, Sent, Coming, JoinSent, Joining, LeaveSent, Leaving, HasRead
  <2>3. \A c \in Client : \A o : /\ InUp(c, o)' <=> InUp(c, o)
                                 /\ InHand(c, o)' <=> InHand(c, o)
                                 /\ InBox(c, o)' <=> InBox(c, o)
                                 /\ InJoin(c, o)' <=> InJoin(c, o)
                                 /\ InCast(c, o)' <=> InCast(c, o)
    BY <2>1, <2>2 DEF InUp, InHand, InBox, InJoin, InCast
  <2>4. \A h \in running : h.by \in Client
    BY DEF TypeOK, Handler
  <2>5. Sync'
    BY <2>1, <2>2, <2>3, <2>4 DEF Sync, OwnOk, RoomOk, LoggedOk, UpOk, DownOk
  <2>6. Shut' /\ Turns' /\ Stages' /\ Emptied'
    BY <2>1 DEF Memory, Shut, Turns, Stages, Emptied
  <2>7. Away' /\ JoinFirst'
    BY <2>1, <2>2, <2>4 DEF Memory, Away, JoinFirst
  <2>8. Outside' /\ UsersOk' /\ LeftOk'
    BY <2>1, <2>2, <2>3 DEF Memory, Outside, UsersOk, LeftOk
  <2> QED BY <2>5, <2>6, <2>7, <2>8 DEF Memory
<1>2. ASSUME NEW c \in Client, User(c)
      PROVE  Memory' /\ Sync'
  <2>1. CASE Open(c)
    <3>1. Unused(c)
      BY <2>1 DEF Open, Unused
    <3> QED BY <2>1, <3>1, OpenMemory, OpenSyncs
  <2>2. CASE Edit(c)
    BY <2>2, EditMemory, EditSyncs
  <2>3. CASE Close(c) \/ Disconnect(c)
    BY <2>3, LeavesMemory
  <2> QED BY <1>2, <2>1, <2>2, <2>3 DEF User
<1>3. ASSUME NEW c \in Client, Receive(c)
      PROVE  Memory' /\ Sync'
  BY <1>3, ReceiveMemory, ReceiveSyncs DEF Memory
<1>4. ASSUME NEW c \in Client, Start(c)
      PROVE  Memory' /\ Sync'
  BY <1>4, StartMemory, StartSyncs
<1>5. ASSUME NEW h \in running, Handle(h)
      PROVE  Memory' /\ Sync'
  <2>1. Memory'
    BY <1>5, HandleMemory
  <2>2. CASE JoinAddUser(h) \/ JoinEnterRoom(h) \/ JoinReadLog(h) \/ JoinSendState(h)
    BY <2>1, <2>2, JoinGoesSyncs, ReadSyncs, StateSyncs
  <2>6. CASE RequestSessions(h) \/ RequestExists(h)
    BY <2>1, <2>6, RequestGoesSyncs
  <2>3. CASE UpdateStopSave(h) \/ UpdateAppend(h) \/ UpdateBroadcast(h)
    BY <2>1, <2>3, StopSaveSyncs, AppendSyncs, BroadcastSyncs
  <2>4. CASE ClearUpdates(h)
    BY <2>1, <2>4, ClearSyncs
  <2>5. CASE h.kind \in {"leave", "gone"} /\ UNCHANGED <<log, inbox>>
    BY <1>5, <2>1, <2>5, LeavingSyncs
  <2> QED BY <1>5, <2>2, <2>3, <2>4, <2>5, <2>6, HandlerEffect
<1> QED BY <1>1, <1>2, <1>3, <1>4, <1>5 DEF Next

(* In the memory of one process editors converge also when others, or they *)
(* themselves, close the note, lose their connection and open the note     *)
(* again while their messages and those of others are handled: as long as  *)
(* a note is opened again only once the messages of its socket have been   *)
(* handled.                                                                *)
THEOREM ConvergenceInMemory ==
  ASSUME ~Redis, ~Overlap
  PROVE  Spec => []Converged
<1> DEFINE Inv == TypeOK /\ Memory /\ Sync
<1>1. Init => Inv
  BY TypeInit, MemoryInit, SyncInit
<1>2. Inv /\ [Next]_vars => Inv'
  BY TypeStep, MemoryStep
<1>3. Inv => Converged
  BY SyncConverges
<1> HIDE DEF Inv
<1> QED BY <1>1, <1>2, <1>3, PTL DEF Spec
-----------------------------------------------------------------------------
(* The initial content: an editor joins once, so only one is ever told     *)
(* that it is alone in the room, and it is told so once.                   *)

OneOf(s, S) == \A i, j \in DOMAIN s : s[i] \in S /\ s[j] \in S => i = j

Joins == {m \in Message : m.kind = "join"}

(* The states that say that there is no log.                               *)
Blanks == {m \in Answer : m.kind = "state" /\ m.ops = {}}

(* A join is one message, then one handler, then one state on its way; and *)
(* the editor is not in the room before the second step of the handler.    *)
JoinsOnce ==
  /\ \A c \in Client : OneOf(up[c], Joins) /\ OneOf(inbox[c], Blanks)
  /\ \A g, h \in running : g.kind = "join" /\ h.kind = "join" /\ g.by = h.by => g = h
  /\ \A h \in running : h.kind = "join" =>
       /\ ~JoinSent(h.by)
       /\ \A m \in Coming(h.by) : m \notin Blanks
       /\ h.at \in {"start", "room"} => h.by \notin room
  /\ \A c \in Client : JoinSent(c) => c \notin room /\ \A m \in Coming(c) : m \notin Blanks

(* The sessions an editor is told of were in the room, it among them.      *)
SnapsOk ==
  /\ IsFiniteSet(room)
  /\ \A h \in running : h.kind = "join" /\ h.at \in {"read", "send"} =>
       h.by \in h.sessions /\ h.sessions \subseteq room
  /\ \A c \in Client : \A m \in Coming(c) : m \in Blanks =>
       c \in m.sessions /\ m.sessions \subseteq room

(* c is going to be told that it is alone.                                 *)
Alone(c) ==
  \/ \E h \in running : h.by = c /\ h.kind = "join" /\ h.at \in {"read", "send"} /\ h.sessions = {c}
  \/ \E m \in Coming(c) : m \in Blanks /\ m.sessions = {c}

SeedsOk ==
  /\ \A c, d \in Client : Alone(c) /\ Alone(d) => c = d
  /\ seeds = {} \/ \E o : seeds = {o}
  /\ seeds # {} => room # {} /\ \A c \in Client : ~Alone(c)

Single == JoinsOnce /\ SnapsOk /\ SeedsOk

(* Whoever asks for the state is sent one only if there is a log.          *)
RequestsOk ==
  \A h \in running : h.kind = "request" => /\ h.at = "read" => log # {}
                                           /\ h.at = "send" => h.ops # {}

LEMMA RequestsStep ==
  ASSUME MaxLeaves = 0, TypeOK, Stay, RequestsOk, [Next]_vars
  PROVE  RequestsOk'
<1>1. CASE UNCHANGED vars
  BY <1>1 DEF vars, server, RequestsOk
<1>2. ASSUME NEW c \in Client, User(c) \/ Receive(c)
      PROVE  RequestsOk'
  BY <1>2 DEF User, Open, Edit, Close, Disconnect, Receive, server, RequestsOk
<1>3. ASSUME NEW c \in Client, Start(c)
      PROVE  RequestsOk'
  <2>1. PICK h : h.at = "start" /\ running' = running \union {h} /\ log' = log
    BY <1>3 DEF Start
  <2> QED BY <2>1 DEF RequestsOk
<1>4. ASSUME NEW h \in running, Handle(h)
      PROVE  RequestsOk'
  <2>1. h \in Handler /\ (log # {} => log' # {})
    BY <1>4, HandlerGoesOn
  <2>2. CASE running' = running \ {h}
    BY <2>1, <2>2 DEF RequestsOk
  <2>3. ASSUME NEW g, running' = (running \ {h}) \union {g},
               g.kind = "request" => (g.at = "read" => log # {}) /\ (g.at = "send" => g.ops # {})
        PROVE  RequestsOk'
    BY <2>1, <2>3 DEF RequestsOk
  <2>4. CASE h.kind # "request"
    BY <1>4, <2>2, <2>3, <2>4, HandlerGoesOn
  <2>5. CASE RequestSessions(h)
    <3> DEFINE g == [h EXCEPT !.at = "find", !.sessions = room]
    <3>1. g.at = "find"
      BY <2>1 DEF Handler
    <3>2. running' = running \ {h} \/ running' = (running \ {h}) \union {g}
      BY <2>5 DEF RequestSessions, Ends, Continues
    <3> HIDE DEF g
    <3> QED BY <2>2, <2>3, <3>1, <3>2
  <2>6. CASE RequestExists(h)
    <3> DEFINE g == [h EXCEPT !.at = "read"]
    <3>1. g.at = "read"
      BY <2>1 DEF Handler
    <3>2. running' = running \ {h} \/ (running' = (running \ {h}) \union {g} /\ log # {})
      BY <2>6 DEF RequestExists, Ends, Continues
    <3> HIDE DEF g
    <3> QED BY <2>2, <2>3, <3>1, <3>2
  <2>7. CASE JoinReadLog(h) /\ h.kind = "request"
    <3> DEFINE g == [h EXCEPT !.at = "send", !.ops = State]
    <3>1. g.at = "send" /\ g.ops = log
      BY <2>1 DEF Handler, State
    <3>2. running' = (running \ {h}) \union {g} /\ log # {}
      BY <2>7 DEF JoinReadLog, Loads, Executes, Continues, RequestsOk
    <3> HIDE DEF g
    <3> QED BY <2>3, <3>1, <3>2
  <2>8. CASE JoinSendState(h)
    BY <2>2, <2>8 DEF JoinSendState, Ends
  <2>9. h.kind = "request" => /\ ~JoinAddUser(h) /\ ~JoinEnterRoom(h) /\ ~UpdateStopSave(h)
                              /\ ~UpdateAppend(h) /\ ~UpdateBroadcast(h)
    BY DEF JoinAddUser, JoinEnterRoom, UpdateStopSave, UpdateAppend, UpdateBroadcast, Updates, Executes
  <2> QED BY <1>4, <2>4, <2>5, <2>6, <2>7, <2>8, <2>9, StayHandlers
<1> QED BY <1>1, <1>2, <1>3, <1>4 DEF Next

LEMMA OneAppend ==
  ASSUME NEW X, NEW s \in Seq(X), NEW S, NEW m, OneOf(s, S),
         m \notin S \/ \A i \in DOMAIN s : s[i] \notin S
  PROVE  OneOf(Append(s, m), S)
<1>1. /\ DOMAIN Append(s, m) = DOMAIN s \union {Len(s) + 1}
      /\ \A i \in DOMAIN s : Append(s, m)[i] = s[i]
      /\ Append(s, m)[Len(s) + 1] = m
  OBVIOUS
<1> QED BY <1>1 DEF OneOf

LEMMA OneTail ==
  ASSUME NEW X, NEW s \in Seq(X), s # <<>>, NEW S, OneOf(s, S)
  PROVE  /\ OneOf(Tail(s), S)
         /\ Head(s) \in S => \A i \in DOMAIN Tail(s) : Tail(s)[i] \notin S
<1>1. /\ Head(s) = s[1] /\ DOMAIN s = 1 .. Len(s) /\ Len(s) \in Nat \ {0}
      /\ DOMAIN Tail(s) = 1 .. Len(s) - 1
      /\ \A i \in 1 .. Len(s) - 1 : Tail(s)[i] = s[i + 1]
  OBVIOUS
<1>2. ASSUME NEW i \in DOMAIN Tail(s), NEW j \in DOMAIN Tail(s), Tail(s)[i] \in S,
             Tail(s)[j] \in S
      PROVE  i = j
  <2>1. /\ i + 1 \in DOMAIN s /\ s[i + 1] \in S
        /\ j + 1 \in DOMAIN s /\ s[j + 1] \in S
    BY <1>1, <1>2
  <2>2. i + 1 = j + 1
    BY <2>1 DEF OneOf
  <2> QED BY <1>1, <2>2
<1>3. ASSUME Head(s) \in S, NEW i \in DOMAIN Tail(s)
      PROVE  Tail(s)[i] \notin S
  <2>1. i + 1 \in DOMAIN s /\ 1 \in DOMAIN s /\ i + 1 # 1 /\ Tail(s)[i] = s[i + 1]
    BY <1>1
  <2> QED BY <1>1, <1>3, <2>1 DEF OneOf
<1> QED BY <1>2, <1>3 DEF OneOf

LEMMA SingleInit == Init => Single
<1>1. IsFiniteSet({})
  BY FS_EmptySet
<1> QED BY <1>1 DEF Init, Single, JoinsOnce, SnapsOk, SeedsOk, Alone, OneOf, Sent, Coming, JoinSent

LEMMA OpenSingle ==
  ASSUME TypeOK, Stay, Single, NEW c \in Client, Open(c)
  PROVE  Single'
<1> DEFINE m == [kind |-> "join", ops |-> {}]
<1>1. /\ Sent(c)' = Sent(c) \union {m} /\ \A d \in Client \ {c} : up'[d] = up[d]
      /\ up'[c] = Append(up[c], m)
  <2>1. Send(c, "join", {})
    BY DEF Open
  <2> QED BY <2>1, SendSent
<1>2. UNCHANGED <<room, running, inbox, seeds>>
  BY DEF Open, server
<1>3. up[c] = <<>> /\ c \notin room /\ \A h \in running : h.by # c
  BY DEF Open, Stay, Unopened
<1>4. \A d \in Client : Coming(d)' = Coming(d)
  BY <1>2 DEF Coming
<1>5. \A d \in Client \ {c} : JoinSent(d)' <=> JoinSent(d)
  BY <1>1 DEF JoinSent, Sent
<1>6. \A x \in Coming(c) : x \notin Blanks
  BY <1>3 DEF Single, SnapsOk
<1>7. OneOf(up'[c], Joins)
  <2>1. up[c] \in Seq(Message) /\ OneOf(up[c], Joins) /\ \A i \in DOMAIN up[c] : up[c][i] \notin Joins
    BY <1>3 DEF TypeOK, Single, JoinsOnce
  <2> QED BY <1>1, <2>1, OneAppend
<1>8. \A h \in running : h.by \in Client \ {c}
  BY <1>3 DEF TypeOK, Handler
<1>9. JoinsOnce'
  BY <1>1, <1>2, <1>3, <1>4, <1>5, <1>6, <1>7, <1>8 DEF Single, JoinsOnce
<1>10. SnapsOk' /\ SeedsOk'
  BY <1>2, <1>4 DEF Single, SnapsOk, SeedsOk, Alone
<1> QED BY <1>9, <1>10 DEF Single

(* An editor sends updates, or a message is taken from its inbox.          *)
LEMMA EditorSingle ==
  ASSUME TypeOK, Single, NEW c \in Client,
         UNCHANGED up \/ \E kind \in Edits \union {"request"}, ops \in SUBSET Op : Send(c, kind, ops),
         UNCHANGED inbox \/ Receive(c), UNCHANGED <<room, running>>
  PROVE  /\ JoinsOnce' /\ SnapsOk'
         /\ \A d \in Client : Alone(d)' => Alone(d)
<1>1. /\ \A d \in Client \ {c} : up'[d] = up[d]
      /\ OneOf(up'[c], Joins) /\ (JoinSent(c)' <=> JoinSent(c))
  <2>1. CASE UNCHANGED up
    BY <2>1 DEF Single, JoinsOnce, JoinSent, Sent
  <2>2. ASSUME NEW kind \in Edits \union {"request"}, NEW ops \in SUBSET Op, Send(c, kind, ops)
        PROVE  /\ \A d \in Client \ {c} : up'[d] = up[d]
               /\ OneOf(up'[c], Joins) /\ (JoinSent(c)' <=> JoinSent(c))
    <3> DEFINE m == [kind |-> kind, ops |-> ops]
    <3>1. /\ Sent(c)' = Sent(c) \union {m} /\ \A d \in Client \ {c} : up'[d] = up[d]
          /\ up'[c] = Append(up[c], m)
      BY <2>2, SendSent
    <3>2. m.kind # "join" /\ m \notin Joins
      BY DEF Edits, Joins
    <3>3. up[c] \in Seq(Message) /\ OneOf(up[c], Joins)
      BY DEF TypeOK, Single, JoinsOnce
    <3>4. OneOf(up'[c], Joins)
      BY <3>1, <3>2, <3>3, OneAppend
    <3> QED BY <3>1, <3>2, <3>4 DEF JoinSent
  <2> QED BY <2>1, <2>2
<1>2. /\ \A d \in Client \ {c} : inbox'[d] = inbox[d]
      /\ OneOf(inbox'[c], Blanks) /\ Coming(c)' \subseteq Coming(c)
  <2>1. CASE UNCHANGED inbox
    BY <2>1 DEF Single, JoinsOnce, Coming
  <2>2. CASE Receive(c)
    <3>1. inbox[c] \in Seq(Answer) /\ inbox[c] # <<>> /\ OneOf(inbox[c], Blanks)
      BY <2>2 DEF Receive, TypeOK, Single, JoinsOnce
    <3>2. OneOf(Tail(inbox[c]), Blanks)
      BY <3>1, OneTail
    <3> QED BY <2>2, <3>2, ReceiveComing
  <2> QED BY <2>1, <2>2
<1>3. \A d \in Client : /\ JoinSent(d)' <=> JoinSent(d)
                        /\ Coming(d)' \subseteq Coming(d)
  BY <1>1, <1>2 DEF JoinSent, Sent, Coming
<1>4. \A h \in running : h.by \in Client
  BY DEF TypeOK, Handler
<1>5. JoinsOnce'
  BY <1>1, <1>2, <1>3, <1>4 DEF Single, JoinsOnce
<1>6. SnapsOk'
  BY <1>3 DEF Single, SnapsOk
<1> QED BY <1>3, <1>5, <1>6 DEF Alone

LEMMA EditSingle ==
  ASSUME TypeOK, Single, NEW c \in Client, Edit(c)
  PROVE  Single'
<1>1. Send(c, "update", {NewOp}) /\ UNCHANGED <<inbox, room, running, seeds>>
  BY DEF Edit, server
<1>2. "update" \in Edits /\ {NewOp} \in SUBSET Op
  BY DEF Edits, NewOp, Op, TypeOK
<1>3. JoinsOnce' /\ SnapsOk' /\ \A d \in Client : Alone(d)' => Alone(d)
  BY <1>1, <1>2, EditorSingle
<1>4. SeedsOk'
  BY <1>1, <1>3 DEF Single, SeedsOk
<1> QED BY <1>3, <1>4 DEF Single

LEMMA ReceiveSingle ==
  ASSUME TypeOK, Stay, Single, NEW c \in Client, Receive(c)
  PROVE  Single'
<1>1. PICK m \in Answer :
        /\ m = Head(inbox[c])
        /\ Coming(c) = Coming(c)' \union {m}
        /\ UNCHANGED server
        /\ \/ UNCHANGED <<up, seeds>>
           \/ \E kind \in Edits \union {"request"}, ops \in SUBSET Op :
                /\ UNCHANGED up \/ Send(c, kind, ops)
                /\ \/ UNCHANGED seeds
                   \/ /\ seeds' = seeds \union ops /\ ops = {NewOp}
                      /\ m.kind = "state" /\ m.ops = {} /\ MaySeed(m)
  BY StayShut, ReceiveEffect
<1>2. UNCHANGED <<room, running>>
  BY <1>1 DEF server
<1>3. JoinsOnce' /\ SnapsOk' /\ \A d \in Client : Alone(d)' => Alone(d)
  BY <1>1, <1>2, EditorSingle
<1>4. CASE UNCHANGED seeds
  BY <1>2, <1>3, <1>4 DEF Single, SeedsOk
<1>5. CASE seeds' = seeds \union {NewOp} /\ m.kind = "state" /\ m.ops = {} /\ MaySeed(m)
  <2>0. m \in Blanks
    BY <1>5 DEF Blanks
  <2>1. c \in m.sessions /\ m.sessions \subseteq room /\ IsFiniteSet(room)
    BY <1>1, <2>0 DEF Single, SnapsOk
  <2>2. IsFiniteSet(m.sessions) /\ Cardinality(m.sessions) = 1
    BY <1>5, <2>1, FS_Subset DEF MaySeed
  <2>3. m.sessions = {c}
    <3>1. \E x : m.sessions = {x}
      BY <2>2, FS_Singleton
    <3> QED BY <2>1, <3>1
  <2>4. Alone(c)
    BY <1>1, <2>0, <2>3 DEF Alone
  <2>5. seeds = {} /\ \A d \in Client : Alone(d) => d = c
    BY <2>4 DEF Single, SeedsOk
  <2>6. ~Alone(c)'
    <3>1. \A h \in running : h.by = c => h.kind # "join"
      BY <1>1, <2>0 DEF Single, JoinsOnce
    <3>2. \A x \in Coming(c)' : x \notin Blanks
      <4>1. inbox[c] \in Seq(Answer) /\ inbox[c] # <<>> /\ OneOf(inbox[c], Blanks)
        BY DEF Receive, TypeOK, Single, JoinsOnce
      <4>2. \A i \in DOMAIN Tail(inbox[c]) : Tail(inbox[c])[i] \notin Blanks
        BY <1>1, <2>0, <4>1, OneTail
      <4>3. inbox'[c] = Tail(inbox[c])
        BY ReceiveComing
      <4> QED BY <4>2, <4>3 DEF Coming
    <3> QED BY <1>2, <3>1, <3>2 DEF Alone
  <2>7. \A d \in Client : ~Alone(d)'
    BY <1>3, <2>5, <2>6
  <2>8. seeds' = {NewOp} /\ room' # {}
    BY <1>2, <1>5, <2>1, <2>5
  <2> QED BY <1>3, <2>7, <2>8 DEF Single, SeedsOk
<1> QED BY <1>1, <1>4, <1>5

LEMMA StartSingle ==
  ASSUME TypeOK, Stay, Single, NEW c \in Client, Start(c)
  PROVE  Single'
<1> DEFINE m == Head(up[c])
<1> DEFINE h == [kind |-> m.kind, by |-> c, ops |-> m.ops, at |-> "start", sessions |-> {}]
<1>1. /\ Sent(c) = Sent(c)' \union {m} /\ up'[c] = Tail(up[c])
      /\ \A d \in Client \ {c} : up'[d] = up[d]
  BY StartSent
<1>2. running' = running \union {h} /\ UNCHANGED <<room, inbox, seeds>>
  BY DEF Start, client
<1>3. h.kind = m.kind /\ h.by = c /\ h.at = "start"
  OBVIOUS
<1>4. up[c] \in Seq(Message) /\ up[c] # <<>> /\ OneOf(up[c], Joins)
  BY DEF TypeOK, Start, Single, JoinsOnce
<1>5. OneOf(up'[c], Joins) /\ (m.kind = "join" => \A i \in DOMAIN up'[c] : up'[c][i].kind # "join")
  <2>1. m \in Message /\ Tail(up[c]) \in Seq(Message)
    BY <1>4
  <2>2. \A i \in DOMAIN Tail(up[c]) : Tail(up[c])[i] \in Message
    BY <2>1
  <2>3. OneOf(Tail(up[c]), Joins) /\ (m \in Joins => \A i \in DOMAIN Tail(up[c]) : Tail(up[c])[i] \notin Joins)
    BY <1>4, OneTail
  <2> QED BY <1>1, <2>1, <2>2, <2>3 DEF Joins
<1>6. m.kind = "join" => JoinSent(c) /\ ~JoinSent(c)'
  BY <1>1, <1>5 DEF JoinSent, Sent
<1> HIDE DEF m, h
<1>7. \A d \in Client : Coming(d)' = Coming(d) /\ (JoinSent(d)' => JoinSent(d))
  <2>1. \A d \in Client : Sent(d)' \subseteq Sent(d)
    <3>1. \A d \in Client \ {c} : Sent(d)' = Sent(d)
      BY <1>1 DEF Sent
    <3>2. Sent(c)' \subseteq Sent(c)
      BY <1>1
    <3> QED BY <3>1, <3>2
  <2>2. \A d \in Client : Coming(d)' = Coming(d)
    BY <1>2 DEF Coming
  <2> QED BY <2>1, <2>2 DEF JoinSent
<1>8. \A g \in running : g.by \in Client
  BY DEF TypeOK, Handler
<1>9. h.kind = "join" => /\ \A g \in running : g.by = c => g.kind # "join"
                         /\ c \notin room /\ \A x \in Coming(c) : x \notin Blanks
  BY <1>3, <1>6 DEF Single, JoinsOnce
<1>10. JoinsOnce'
  <2>1. \A d \in Client : OneOf(up'[d], Joins) /\ OneOf(inbox'[d], Blanks)
    BY <1>1, <1>2, <1>5 DEF Single, JoinsOnce
  <2>2. \A f, g \in running' : f.kind = "join" /\ g.kind = "join" /\ f.by = g.by => f = g
    BY <1>2, <1>3, <1>9 DEF Single, JoinsOnce
  <2>3. \A g \in running' : g.kind = "join" =>
          /\ ~JoinSent(g.by)'
          /\ \A x \in Coming(g.by)' : x \notin Blanks
          /\ g.at \in {"start", "room"} => g.by \notin room'
    <3>1. CASE h.kind = "join"
      BY <1>2, <1>3, <1>6, <1>7, <1>8, <1>9, <3>1 DEF Single, JoinsOnce
    <3>2. CASE h.kind # "join"
      BY <1>2, <1>7, <1>8, <3>2 DEF Single, JoinsOnce
    <3> QED BY <3>1, <3>2
  <2>4. \A d \in Client : JoinSent(d)' => d \notin room' /\ \A x \in Coming(d)' : x \notin Blanks
    BY <1>2, <1>7 DEF Single, JoinsOnce
  <2> QED BY <2>1, <2>2, <2>3, <2>4 DEF JoinsOnce
<1>11. SnapsOk'
  BY <1>2, <1>3, <1>7 DEF Single, SnapsOk
<1>12. \A d \in Client : Alone(d)' <=> Alone(d)
  BY <1>2, <1>3, <1>7 DEF Alone
<1>13. SeedsOk'
  BY <1>2, <1>12 DEF Single, SeedsOk
<1> QED BY <1>10, <1>11, <1>13 DEF Single

(* A join goes on but does not enter the room; the log is read.             *)
LEMMA JoinMovesSingle ==
  ASSUME TypeOK, Stay, Single, NEW h \in running, JoinAddUser(h) \/ JoinReadLog(h)
  PROVE  Single'
<1>0. Handle(h) /\ h \in Handler
  BY DEF Handle, TypeOK
<1>1. PICK g : /\ running' = (running \ {h}) \union {g} /\ h.kind \in Loaders
               /\ g.kind = h.kind /\ g.by = h.by /\ g.sessions = h.sessions
               /\ \/ h.at = "start" /\ g.at = "room"
                  \/ h.at = "read" /\ g.at = "send"
  <2>1. CASE JoinAddUser(h)
    <3> DEFINE g == [h EXCEPT !.at = "room"]
    <3>1. g.kind = h.kind /\ g.by = h.by /\ g.at = "room" /\ g.sessions = h.sessions
      BY <1>0 DEF Handler
    <3>2. running' = (running \ {h}) \union {g} /\ h.kind = "join" /\ h.at = "start"
      BY <2>1 DEF JoinAddUser, Continues, Executes
    <3> QED BY <3>1, <3>2 DEF Loaders
  <2>2. CASE JoinReadLog(h)
    <3> DEFINE g == [h EXCEPT !.at = "send", !.ops = State]
    <3>1. g.kind = h.kind /\ g.by = h.by /\ g.at = "send" /\ g.sessions = h.sessions
      BY <1>0 DEF Handler
    <3>2. running' = (running \ {h}) \union {g} /\ h.kind \in Loaders /\ h.at = "read"
      BY <2>2 DEF JoinReadLog, Continues, Loads, Executes, Loaders
    <3> QED BY <3>1, <3>2
  <2> QED BY <2>1, <2>2
<1>2. UNCHANGED <<room, inbox, up, seeds>>
  BY <1>0, HandleQuiet DEF JoinAddUser, JoinReadLog, client
<1>3. \A d \in Client : Coming(d)' = Coming(d)
  BY <1>2 DEF Coming
<1>4. \A f \in running : f.by \in Client
  BY DEF TypeOK, Handler
<1>5. JoinsOnce'
  BY <1>0, <1>1, <1>2, <1>3, <1>4, HandleSame DEF Single, JoinsOnce
<1>6. SnapsOk'
  BY <1>1, <1>2, <1>3 DEF Single, SnapsOk
<1>7. \A d \in Client : Alone(d)' => Alone(d)
  BY <1>1, <1>3 DEF Alone
<1>8. SeedsOk'
  BY <1>2, <1>7 DEF Single, SeedsOk
<1> QED BY <1>5, <1>6, <1>8 DEF Single

LEMMA EnterSingle ==
  ASSUME TypeOK, Stay, Single, NEW h \in running, JoinEnterRoom(h)
  PROVE  Single'
<1> DEFINE g == [h EXCEPT !.at = "read", !.sessions = room']
<1>0. Handle(h) /\ h \in Handler /\ h.by \in Client
  BY DEF Handle, TypeOK, Handler
<1>1. g.kind = h.kind /\ g.by = h.by /\ g.at = "read" /\ g.sessions = room'
  BY <1>0 DEF Handler
<1>2. /\ running' = (running \ {h}) \union {g} /\ h.kind = "join" /\ h.at = "room"
      /\ room' = room \union {h.by} /\ UNCHANGED inbox
  BY DEF JoinEnterRoom, Continues, Executes
<1> HIDE DEF g
<1>3. UNCHANGED <<up, seeds>>
  BY <1>0, HandleQuiet DEF client
<1>4. \A d \in Client : Coming(d)' = Coming(d)
  BY <1>2 DEF Coming
<1>5. \A f \in running : f.by \in Client
  BY DEF TypeOK, Handler
<1>6. h.by \notin room /\ ~JoinSent(h.by) /\ \A f \in running : f.kind = "join" /\ f.by = h.by => f = h
  BY <1>2 DEF Single, JoinsOnce
<1>7. JoinsOnce'
  <2>1. \A d \in Client : OneOf(up'[d], Joins) /\ OneOf(inbox'[d], Blanks)
    BY <1>2, <1>3 DEF Single, JoinsOnce
  <2>2. \A f, k \in running' : f.kind = "join" /\ k.kind = "join" /\ f.by = k.by => f = k
    BY <1>1, <1>2, <1>6 DEF Single, JoinsOnce
  <2>3. \A f \in running' : f.kind = "join" =>
          /\ ~JoinSent(f.by)'
          /\ \A x \in Coming(f.by)' : x \notin Blanks
          /\ f.at \in {"start", "room"} => f.by \notin room'
    BY <1>0, <1>1, <1>2, <1>4, <1>5, <1>6, HandleSame DEF Single, JoinsOnce
  <2>4. \A d \in Client : JoinSent(d)' => d \notin room' /\ \A x \in Coming(d)' : x \notin Blanks
    BY <1>0, <1>2, <1>4, <1>6, HandleSame DEF Single, JoinsOnce
  <2> QED BY <2>1, <2>2, <2>3, <2>4 DEF JoinsOnce
<1>8. SnapsOk'
  <2>1. IsFiniteSet(room')
    BY <1>2, FS_AddElement DEF Single, SnapsOk
  <2> QED BY <1>1, <1>2, <1>4, <2>1 DEF Single, SnapsOk
<1>9. \A d \in Client : Alone(d) => d \in room
  BY DEF Alone, Single, SnapsOk
<1>10. \A d \in Client : Alone(d)' => Alone(d) \/ (d = h.by /\ room = {})
  <2>1. room' = {h.by} => room = {}
    BY <1>2, <1>6
  <2> QED BY <1>1, <1>2, <1>4, <2>1 DEF Alone
<1>11. SeedsOk'
  <2>1. room' # {}
    BY <1>2
  <2> QED BY <1>3, <1>9, <1>10, <2>1 DEF Single, SeedsOk
<1> QED BY <1>7, <1>8, <1>11 DEF Single

LEMMA StateSingle ==
  ASSUME TypeOK, Stay, Single, RequestsOk, NEW h \in running, JoinSendState(h)
  PROVE  Single'
<1> DEFINE m == [kind |-> "state", ops |-> h.ops, sessions |-> h.sessions]
<1>0. Handle(h) /\ h \in Handler /\ h.by \in Client
  BY DEF Handle, TypeOK, Handler
<1>1. running' = running \ {h} /\ h.kind \in Loaders /\ h.at = "send" /\ UNCHANGED room
  BY DEF JoinSendState, Ends, Loads, Executes, Loaders
<1>2. EmitTo({h.by}, m) /\ m.sessions = h.sessions
  BY DEF JoinSendState
<1>11. m \in Blanks => h.kind = "join"
  BY <1>1 DEF Blanks, RequestsOk, Loaders
<1> HIDE DEF m
<1>3. \A d \in Client :
        /\ Coming(d)' = IF d = h.by THEN Coming(d) \union {m} ELSE Coming(d)
        /\ inbox'[d] = IF d = h.by THEN Append(inbox[d], m) ELSE inbox[d]
  BY <1>2, EmitComing DEF Stay, NobodyLeaves
<1>4. UNCHANGED <<up, seeds>>
  BY <1>0, HandleQuiet DEF client
<1>5. \A f \in running : f.by \in Client
  BY DEF TypeOK, Handler
<1>6. m \in Blanks => /\ ~JoinSent(h.by) /\ \A f \in running \ {h} : f.kind = "join" => f.by # h.by
                      /\ \A x \in Coming(h.by) : x \notin Blanks
  BY <1>1, <1>11 DEF Single, JoinsOnce
<1>7. JoinsOnce'
  <2>1. OneOf(inbox'[h.by], Blanks)
    <3>1. inbox[h.by] \in Seq(Answer) /\ OneOf(inbox[h.by], Blanks)
          /\ (m \in Blanks => \A i \in DOMAIN inbox[h.by] : inbox[h.by][i] \notin Blanks)
      BY <1>0, <1>6 DEF TypeOK, Single, JoinsOnce, Coming
    <3>2. m \notin Blanks \/ \A i \in DOMAIN inbox[h.by] : inbox[h.by][i] \notin Blanks
      BY <3>1
    <3>3. OneOf(Append(inbox[h.by], m), Blanks)
      BY <3>1, <3>2, OneAppend
    <3> QED BY <1>0, <1>3, <3>3
  <2>2. \A d \in Client : OneOf(up'[d], Joins) /\ OneOf(inbox'[d], Blanks)
    BY <1>3, <1>4, <2>1 DEF Single, JoinsOnce
  <2>3. \A f \in running' : f.kind = "join" =>
          /\ ~JoinSent(f.by)'
          /\ \A x \in Coming(f.by)' : x \notin Blanks
          /\ f.at \in {"start", "room"} => f.by \notin room'
    BY <1>0, <1>1, <1>3, <1>5, <1>6, HandleSame DEF Single, JoinsOnce
  <2>4. \A d \in Client : JoinSent(d)' => d \notin room' /\ \A x \in Coming(d)' : x \notin Blanks
    BY <1>0, <1>1, <1>3, <1>6, HandleSame DEF Single, JoinsOnce
  <2>5. \A f, k \in running' : f.kind = "join" /\ k.kind = "join" /\ f.by = k.by => f = k
    BY <1>1 DEF Single, JoinsOnce
  <2> QED BY <2>2, <2>3, <2>4, <2>5 DEF JoinsOnce
<1>8. SnapsOk'
  BY <1>1, <1>2, <1>3, <1>11 DEF Single, SnapsOk
<1>9. \A d \in Client : Alone(d)' => Alone(d)
  BY <1>1, <1>2, <1>3, <1>11 DEF Alone
<1>10. SeedsOk'
  BY <1>1, <1>4, <1>9 DEF Single, SeedsOk
<1> QED BY <1>7, <1>8, <1>10 DEF Single

(* Updates are handled, and requests up to reading the log.                *)
LEMMA UpdateSingle ==
  ASSUME TypeOK, Stay, Single, NEW h \in running,
         \/ UpdateStopSave(h) \/ UpdateAppend(h) \/ UpdateBroadcast(h)
         \/ RequestSessions(h) \/ RequestExists(h)
  PROVE  Single'
<1>0. Handle(h) /\ h.kind # "join"
  BY DEF Handle, UpdateStopSave, UpdateAppend, UpdateBroadcast, RequestSessions, RequestExists,
         Updates, Executes
<1>1. UNCHANGED <<up, seeds, room>>
  BY <1>0, HandleQuiet
     DEF client, UpdateStopSave, UpdateAppend, UpdateBroadcast, RequestSessions, RequestExists
<1>2. \A f \in running' : f.kind = "join" => f \in running
  BY <1>0, HandlerGoesOn
<1>3. \A f \in running : f.kind = "join" => f \in running'
  BY <1>0, HandlerGoesOn
<1>4. \A d \in Client : /\ \A x \in Coming(d)' : x \in Blanks => x \in Coming(d)
                        /\ OneOf(inbox'[d], Blanks)
  <2>1. CASE ~UpdateBroadcast(h)
    <3>1. inbox' = inbox
      BY <2>1 DEF UpdateStopSave, UpdateAppend, RequestSessions, RequestExists
    <3> QED BY <3>1 DEF Coming, Single, JoinsOnce
  <2>2. CASE UpdateBroadcast(h)
    <3> DEFINE m == [kind |-> "update", ops |-> h.ops, sessions |-> {}]
    <3>1. EmitTo(room \ {h.by}, m) /\ m \notin Blanks
      BY <2>2 DEF UpdateBroadcast, Blanks
    <3>2. ASSUME NEW d \in Client
          PROVE  OneOf(Append(inbox[d], m), Blanks)
      <4>1. inbox[d] \in Seq(Answer) /\ OneOf(inbox[d], Blanks)
        BY DEF TypeOK, Single, JoinsOnce
      <4> QED BY <3>1, <4>1, OneAppend
    <3> HIDE DEF m
    <3>3. \A d \in Client :
            /\ Coming(d)' = IF d \in room \ {h.by} THEN Coming(d) \union {m} ELSE Coming(d)
            /\ inbox'[d] = IF d \in room \ {h.by} THEN Append(inbox[d], m) ELSE inbox[d]
      BY <3>1, EmitComing DEF Stay, NobodyLeaves
    <3> QED BY <3>1, <3>2, <3>3 DEF Single, JoinsOnce
  <2> QED BY <2>1, <2>2
<1>5. \A f \in running : f.by \in Client
  BY DEF TypeOK, Handler
<1>6. JoinsOnce'
  BY <1>0, <1>1, <1>2, <1>4, <1>5, HandleSame DEF Single, JoinsOnce
<1>7. SnapsOk'
  BY <1>1, <1>2, <1>4 DEF Single, SnapsOk
<1>8. \A d \in Client : Alone(d)' => Alone(d)
  BY <1>2, <1>4 DEF Alone
<1>9. SeedsOk'
  BY <1>1, <1>8 DEF Single, SeedsOk
<1> QED BY <1>6, <1>7, <1>9 DEF Single

LEMMA SingleStep ==
  ASSUME MaxLeaves = 0, TypeOK, Stay, Single, RequestsOk, [Next]_vars
  PROVE  Single'
<1>1. CASE UNCHANGED vars
  BY <1>1 DEF vars, server, client, Single, JoinsOnce, SnapsOk, SeedsOk, Alone, OneOf, JoinSent,
              Sent, Coming
<1>2. \A c \in Client : ~Close(c) /\ ~Disconnect(c)
  BY DEF TypeOK, Close, Disconnect
<1>3. ASSUME NEW h \in running, Handle(h)
      PROVE  Single'
  BY <1>3, StayHandlers, JoinMovesSingle, EnterSingle, StateSingle, UpdateSingle
<1> QED BY <1>1, <1>2, <1>3, OpenSingle, EditSingle, ReceiveSingle, StartSingle DEF Next, User

(* As long as nobody leaves the note or loses its connection, its initial  *)
(* content is inserted at most once, for any number of editors that open   *)
(* it at once, type before they have received the state, and whose joins   *)
(* and updates interleave at every await that suspends with Redis.         *)
THEOREM SeedsHold ==
  ASSUME MaxLeaves = 0
  PROVE  Spec => []SeededOnce
<1> DEFINE Inv == TypeOK /\ Stay /\ Single /\ RequestsOk
<1>1. Init => Inv
  <2>1. Init => RequestsOk
    BY DEF Init, RequestsOk
  <2> QED BY <2>1, TypeInit, StayInit, SingleInit
<1>2. Inv /\ [Next]_vars => Inv'
  BY TypeStep, StayStep, SingleStep, RequestsStep
<1>3. Inv => SeededOnce
  <2> SUFFICES ASSUME Single
               PROVE  Cardinality(seeds) <= 1
    BY DEF SeededOnce
  <2>1. CASE seeds = {}
    BY <2>1, FS_EmptySet
  <2>2. CASE \E o : seeds = {o}
    <3>1. PICK o : seeds = {o}
      BY <2>2
    <3>2. Cardinality({o}) = 1
      BY FS_Singleton
    <3> QED BY <3>1, <3>2
  <2> QED BY <2>1, <2>2 DEF Single, SeedsOk
<1> HIDE DEF Inv
<1> QED BY <1>1, <1>2, <1>3, PTL DEF Spec
-----------------------------------------------------------------------------
(* The log is cleared right after the users were counted: in the memory of *)
(* one process nothing comes between.                                      *)

ClearHeld == \A h \in running : h.at = "clear" => cpu = h /\ users = {}

LEMMA StartHeld ==
  ASSUME TypeOK, ClearHeld, NEW c \in Client, Start(c)
  PROVE  ClearHeld'
<1>1. cpu = NoHandler /\ users' = users
  BY DEF Start
<1>2. \A h \in running : h.at # "clear"
  BY <1>1, NoHandlerAssumption DEF ClearHeld, TypeOK
<1>3. PICK h : h.at = "start" /\ running' = running \union {h}
  BY DEF Start
<1> QED BY <1>2, <1>3 DEF ClearHeld

LEMMA HandleHeld ==
  ASSUME TypeOK, ClearHeld, ~Redis, NEW h \in running, Handle(h)
  PROVE  ClearHeld'
<1>1. h \in Handler /\ cpu \in {NoHandler, h}
  BY DEF TypeOK, Handle, JoinAddUser, JoinEnterRoom, JoinReadLog, JoinSendState, RequestSessions,
         RequestExists, UpdateStopSave, UpdateAppend, UpdateBroadcast, LeaveRemoveUser, LeaveRoom,
         LeaveExists, CountUsers, ClearUpdates, ClearUsers, GoneListKeys, GoneRemoveUser, Loads,
         Updates, Executes
<1>2. \A g \in running \ {h} : g.at # "clear"
  BY <1>1, NoHandlerAssumption DEF ClearHeld, TypeOK
<1>3. CASE running' = running \ {h}
  BY <1>2, <1>3 DEF ClearHeld
<1>4. ASSUME NEW g, running' = (running \ {h}) \union {g}, g.at # "clear"
      PROVE  ClearHeld'
  BY <1>2, <1>4 DEF ClearHeld
<1>5. \A at, sessions, ops :
        /\ [h EXCEPT !.at = at].at = at
        /\ [h EXCEPT !.at = at, !.sessions = sessions].at = at
        /\ [h EXCEPT !.at = at, !.ops = ops].at = at
  BY <1>1 DEF Handler
<1>6. CASE JoinAddUser(h) \/ JoinEnterRoom(h) \/ JoinReadLog(h) \/ JoinSendState(h)
  <2>1. CASE JoinAddUser(h)
    <3> DEFINE g == [h EXCEPT !.at = "room"]
    <3>1. running' = (running \ {h}) \union {g} /\ g.at # "clear"
      BY <1>5, <2>1 DEF JoinAddUser, Continues
    <3> HIDE DEF g
    <3> QED BY <1>4, <3>1
  <2>2. CASE JoinEnterRoom(h)
    <3> DEFINE g == [h EXCEPT !.at = "read", !.sessions = room']
    <3>1. running' = (running \ {h}) \union {g} /\ g.at # "clear"
      BY <1>5, <2>2 DEF JoinEnterRoom, Continues
    <3> HIDE DEF g
    <3> QED BY <1>4, <3>1
  <2>3. CASE JoinReadLog(h)
    <3> DEFINE g == [h EXCEPT !.at = "send", !.ops = State]
    <3>1. running' = (running \ {h}) \union {g} /\ g.at # "clear"
      BY <1>5, <2>3 DEF JoinReadLog, Continues
    <3> HIDE DEF g
    <3> QED BY <1>4, <3>1
  <2>4. CASE JoinSendState(h)
    BY <1>3, <2>4 DEF JoinSendState, Ends
  <2> QED BY <1>6, <2>1, <2>2, <2>3, <2>4
<1>7. CASE UpdateStopSave(h) \/ UpdateAppend(h) \/ UpdateBroadcast(h)
  BY <1>3, <1>4, <1>5, <1>7
     DEF UpdateStopSave, UpdateAppend, UpdateBroadcast, Suspends, Continues, Ends
<1>8. CASE LeaveRemoveUser(h) \/ LeaveRoom(h) \/ LeaveExists(h)
  BY <1>3, <1>4, <1>5, <1>8 DEF LeaveRemoveUser, LeaveRoom, LeaveExists, Suspends, Continues, Ends
<1>9. CASE CountUsers(h)
  <2>1. CASE ~NobodyLeft(h)
    BY <1>3, <1>9, <2>1 DEF CountUsers, Ends
  <2>2. CASE NobodyLeft(h)
    <3> DEFINE g == [h EXCEPT !.at = "clear"]
    <3>1. running' = (running \ {h}) \union {g} /\ cpu' = g /\ users' = {}
      BY <1>9, <2>2 DEF CountUsers, Continues, NobodyLeft
    <3> HIDE DEF g
    <3> QED BY <1>2, <3>1 DEF ClearHeld
  <2> QED BY <2>1, <2>2
<1>10. CASE ClearUpdates(h) \/ ClearUsers(h) \/ GoneListKeys(h) \/ GoneRemoveUser(h)
  BY <1>3, <1>4, <1>5, <1>10
     DEF ClearUpdates, ClearUsers, GoneListKeys, GoneRemoveUser, Continues, Ends
<1>11. CASE RequestSessions(h) \/ RequestExists(h)
  <2>1. CASE RequestSessions(h)
    <3> DEFINE g == [h EXCEPT !.at = "find", !.sessions = room]
    <3>1. running' = running \ {h} \/ (running' = (running \ {h}) \union {g} /\ g.at # "clear")
      BY <1>5, <2>1 DEF RequestSessions, Continues, Ends
    <3> HIDE DEF g
    <3> QED BY <1>3, <1>4, <3>1
  <2>2. CASE RequestExists(h)
    <3> DEFINE g == [h EXCEPT !.at = "read"]
    <3>1. running' = running \ {h} \/ (running' = (running \ {h}) \union {g} /\ g.at # "clear")
      BY <1>5, <2>2 DEF RequestExists, Continues, Ends
    <3> HIDE DEF g
    <3> QED BY <1>3, <1>4, <3>1
  <2> QED BY <1>11, <2>1, <2>2
<1> QED BY <1>6, <1>7, <1>8, <1>9, <1>10, <1>11 DEF Handle

LEMMA HeldStep ==
  ASSUME TypeOK, ClearHeld, ~Redis, [Next]_vars
  PROVE  ClearHeld' /\ (log # {} /\ log' = {} => users = {})
<1>1. CASE UNCHANGED vars
  BY <1>1 DEF vars, server, ClearHeld
<1>2. ASSUME NEW c \in Client, User(c) \/ Receive(c)
      PROVE  ClearHeld' /\ log' = log
  BY <1>2 DEF User, Open, Edit, Close, Disconnect, Receive, server, ClearHeld
<1>3. ASSUME NEW c \in Client, Start(c)
      PROVE  log' = log
  BY <1>3 DEF Start
<1>4. ASSUME NEW h \in running, Handle(h), log # {}, log' = {}
      PROVE  users = {}
  <2>1. log' = log \/ log' = log \union h.ops \/ ClearUpdates(h)
    BY <1>4 DEF Handle, JoinAddUser, JoinEnterRoom, JoinReadLog, JoinSendState,
           RequestSessions, RequestExists, UpdateStopSave, UpdateAppend, UpdateBroadcast, LeaveRemoveUser, LeaveRoom, LeaveExists, CountUsers,
           ClearUsers, GoneListKeys, GoneRemoveUser, Logged
  <2>2. ClearUpdates(h)
    BY <1>4, <2>1
  <2> QED BY <2>2 DEF ClearUpdates, Executes, ClearHeld
<1> QED BY <1>1, <1>2, <1>3, <1>4, StartHeld, HandleHeld DEF Next

(* In the memory of one process the log is cleared only while the document *)
(* has no user, for any number of editors, and though a leave may be       *)
(* suspended in its broadcast while another editor joins.                  *)
THEOREM ClearedUnused ==
  ASSUME ~Redis
  PROVE  Spec => ClearedOnlyWhenUnused
<1> DEFINE Inv == TypeOK /\ ClearHeld
<1>1. Init => Inv
  BY TypeInit DEF Init, ClearHeld
<1>2. Inv /\ [Next]_vars => Inv'
  BY TypeStep, HeldStep
<1>3. Inv /\ [Next]_vars => [log # {} /\ log' = {} => users = {}]_vars
  BY HeldStep
<1> HIDE DEF Inv
<1> QED BY <1>1, <1>2, <1>3, PTL DEF Spec, ClearedOnlyWhenUnused

=============================================================================
