------------------------ MODULE ChatHistory_proofs ------------------------
(***************************************************************************)
(* Proofs about ChatHistory, for any number of messages, answers, user     *)
(* actions and histories in flight: type correctness; that, unless one of  *)
(* the races has happened, the page and the row hold trees and every       *)
(* answer still to be written is kept by all histories; and that, when all *)
(* is quiet, every answer has got its end and is saved as it is shown.     *)
(***************************************************************************)
EXTENDS ChatHistory, SequenceTheorems, FiniteSetTheorems, NaturalsInduction, TLAPS

Histories ==
  [messages : UNION {[D -> Message] : D \in SUBSET Ids}, currentId : Ids \union {None}]

Save == [history : Histories, sends : SUBSET Ids]

(* Histories that differ in texts and marks only. *)
SameTree(g, h) ==
  /\ InHistory(g) = InHistory(h)
  /\ \A m \in InHistory(h) :
       /\ g.messages[m].role = h.messages[m].role
       /\ g.messages[m].parent = h.messages[m].parent
       /\ g.messages[m].children = h.messages[m].children

-----------------------------------------------------------------------------
(* Histories and the operators on them. *)

LEMMA MakeHistory ==
  ASSUME NEW D \in SUBSET Ids, NEW f \in [D -> Message], NEW c \in Ids \union {None}
  PROVE  /\ [messages |-> f, currentId |-> c] \in Histories
         /\ InHistory([messages |-> f, currentId |-> c]) = D
  BY DEF Histories, InHistory

LEMMA HistoryFields ==
  ASSUME NEW h \in Histories
  PROVE  /\ InHistory(h) \in SUBSET Ids
         /\ h.messages \in [InHistory(h) -> Message]
         /\ h.currentId \in Ids \union {None}
         /\ IsHistory(h)
  BY DEF Histories, InHistory, IsHistory

LEMMA SameTreeKeeps ==
  ASSUME NEW g \in Histories, NEW h \in Histories, SameTree(g, h), Shape(h)
  PROVE  /\ Shape(g)
         /\ Answered(h) /\ g.currentId = h.currentId => Answered(g)
         /\ /\ Answered(h)
            /\ g.currentId \in InHistory(h) /\ h.messages[g.currentId].role = "assistant"
            => Answered(g)
  BY DEF SameTree, Shape, Answered

LEMMA PutType ==
  ASSUME NEW h \in Histories, NEW m \in Ids, NEW msg \in Message, NEW c \in Ids \union {None}
  PROVE  Put(h, m, msg, c) \in Histories
<1> DEFINE f == [x \in InHistory(h) \union {m} |-> IF x = m THEN msg ELSE h.messages[x]]
<1>1. InHistory(h) \in SUBSET Ids /\ h.messages \in [InHistory(h) -> Message]
  BY HistoryFields
<1>2. f \in [InHistory(h) \union {m} -> Message]
  BY <1>1
<1>3. [messages |-> f, currentId |-> c] \in Histories
  BY <1>1, <1>2, MakeHistory
<1> QED
  BY <1>3 DEF Put

LEMMA PutSame ==
  ASSUME NEW h \in Histories, NEW m \in InHistory(h), NEW msg \in Message,
         NEW c \in Ids \union {None},
         msg.role = h.messages[m].role, msg.parent = h.messages[m].parent,
         msg.children = h.messages[m].children
  PROVE  SameTree(Put(h, m, msg, c), h) /\ Put(h, m, msg, c).currentId = c
  BY DEF Put, SameTree, InHistory

(* Marking some answers as done, which a reload and the end of an answer do. *)
LEMMA MarkSame ==
  ASSUME NEW h \in Histories, NEW c \in Ids \union {None},
         NEW D \in [InHistory(h) -> BOOLEAN], NEW g,
         g = [messages |-> [m \in InHistory(h) |-> [h.messages[m] EXCEPT !.done = D[m]]],
              currentId |-> c]
  PROVE  g \in Histories /\ SameTree(g, h) /\ g.currentId = c
<1> DEFINE f == [m \in InHistory(h) |-> [h.messages[m] EXCEPT !.done = D[m]]]
<1>1. InHistory(h) \in SUBSET Ids /\ h.messages \in [InHistory(h) -> Message]
  BY HistoryFields
<1>2. f \in [InHistory(h) -> Message]
  BY <1>1 DEF Message
<1>3. g \in Histories /\ InHistory(g) = InHistory(h)
  BY ZenonT(60), <1>1, <1>2, MakeHistory
<1>4. \A m \in InHistory(h) : g.messages[m] = [h.messages[m] EXCEPT !.done = D[m]]
  OBVIOUS
<1>5. \A m \in InHistory(h) : h.messages[m] \in Message
  BY <1>1
<1> QED
  BY <1>3, <1>4, <1>5 DEF SameTree, Message

LEMMA AnyMarkSame ==
  ASSUME NEW h \in Histories
  PROVE  \A d \in [InHistory(h) -> BOOLEAN] :
           LET g == [messages |-> [m \in InHistory(h) |-> [h.messages[m] EXCEPT !.done = d[m]]],
                     currentId |-> h.currentId]
           IN  g \in Histories /\ SameTree(g, h) /\ g.currentId = h.currentId
  BY ZenonT(60), HistoryFields, MarkSame

LEMMA DisplayedSame ==
  ASSUME NEW h \in Histories
  PROVE  /\ DisplayedDone(h) \in Histories /\ SameTree(DisplayedDone(h), h)
         /\ DisplayedDone(h).currentId = h.currentId
<1> DEFINE D == [m \in InHistory(h) |-> h.messages[m].done \/ m \in Displayed(h)]
<1>1. h.currentId \in Ids \union {None} /\ \A m \in InHistory(h) : h.messages[m] \in Message
  BY HistoryFields
<1>2. D \in [InHistory(h) -> BOOLEAN]
  OBVIOUS
<1>3. DisplayedDone(h) =
        [messages |-> [m \in InHistory(h) |-> [h.messages[m] EXCEPT !.done = D[m]]],
         currentId |-> h.currentId]
  BY DEF DisplayedDone
<1> HIDE DEF D
<1> QED
  BY <1>2, <1>3, AnyMarkSame

LEMMA AllDone ==
  ASSUME NEW h \in Histories, NEW g,
         g = [messages |-> [m \in InHistory(h) |->
                [h.messages[m] EXCEPT !.done = @ \/ h.messages[m].role = "assistant"]],
              currentId |-> h.currentId]
  PROVE  g \in Histories /\ SameTree(g, h) /\ g.currentId = h.currentId
<1> DEFINE D == [m \in InHistory(h) |-> h.messages[m].done \/ h.messages[m].role = "assistant"]
<1>1. h.currentId \in Ids \union {None}
  BY HistoryFields
<1>2. D \in [InHistory(h) -> BOOLEAN]
  OBVIOUS
<1>3. g = [messages |-> [m \in InHistory(h) |-> [h.messages[m] EXCEPT !.done = D[m]]],
           currentId |-> h.currentId]
  OBVIOUS
<1> HIDE DEF D
<1> QED
  BY <1>2, <1>3, AnyMarkSame

LEMMA MarkedMessage ==
  ASSUME NEW msg \in Message, NEW t \in 0 .. MaxText, NEW b \in BOOLEAN
  PROVE  /\ [msg EXCEPT !.text = t, !.done = TRUE] \in Message
         /\ [msg EXCEPT !.error = @ \/ b] \in Message
  BY DEF Message

(* What adding and removing messages does to a history.                    *)
IsAttached(g, h, new, msg, c) ==
  /\ new \intersect InHistory(h) = {}
  /\ InHistory(g) = InHistory(h) \union new
  /\ g.currentId = c
  /\ \A m \in new : g.messages[m] = msg
  /\ \A m \in InHistory(h) :
       /\ g.messages[m].role = h.messages[m].role
       /\ g.messages[m].parent = h.messages[m].parent
       /\ m = msg.parent => g.messages[m].children = h.messages[m].children \union new
       /\ m # msg.parent => g.messages[m].children = h.messages[m].children

IsRemoved(g, h, m, c) ==
  /\ InHistory(g) = InHistory(h) \ Gone(h, m)
  /\ g.currentId = c
  /\ \A x \in InHistory(g) :
       /\ g.messages[x].role = h.messages[x].role
       /\ x \in Grandchildren(h, m) /\ x # h.messages[m].parent =>
            g.messages[x].parent = h.messages[m].parent
       /\ x \notin Grandchildren(h, m) => g.messages[x].parent = h.messages[x].parent
       /\ x = h.messages[m].parent =>
            g.messages[x].children = (h.messages[x].children \ {m}) \union Grandchildren(h, m)
       /\ x # h.messages[m].parent => g.messages[x].children = h.messages[x].children

LEMMA AttachedType ==
  ASSUME NEW h \in Histories, NEW new \in SUBSET Ids, NEW msg \in Message,
         NEW c \in Ids \union {None}
  PROVE  /\ Attached(h, new, msg, c) \in Histories
         /\ InHistory(Attached(h, new, msg, c)) = InHistory(h) \union new
<1> DEFINE f == [m \in InHistory(h) \union new |->
                   IF m \in new THEN msg
                   ELSE IF m = msg.parent THEN [h.messages[m] EXCEPT !.children = @ \union new]
                   ELSE h.messages[m]]
<1>1. InHistory(h) \in SUBSET Ids /\ h.messages \in [InHistory(h) -> Message]
  BY HistoryFields
<1>2. \A m \in InHistory(h) : [h.messages[m] EXCEPT !.children = @ \union new] \in Message
  BY <1>1 DEF Message
<1>3. f \in [InHistory(h) \union new -> Message]
  BY <1>1, <1>2
<1>4. /\ [messages |-> f, currentId |-> c] \in Histories
      /\ InHistory([messages |-> f, currentId |-> c]) = InHistory(h) \union new
  BY <1>1, <1>3, MakeHistory
<1> QED
  BY <1>4 DEF Attached

LEMMA AttachedFields ==
  ASSUME NEW h \in Histories, NEW new \in SUBSET Ids, NEW msg \in Message,
         NEW c \in Ids \union {None}, new \intersect InHistory(h) = {}
  PROVE  IsAttached(Attached(h, new, msg, c), h, new, msg, c)
<1>1. InHistory(Attached(h, new, msg, c)) = InHistory(h) \union new
  BY AttachedType
<1>2. \A m \in InHistory(h) : h.messages[m] \in Message
  BY HistoryFields
<1> QED
  BY <1>1, <1>2 DEF Attached, Message, IsAttached

LEMMA RemovedFields ==
  ASSUME NEW h \in Histories, NEW m \in InHistory(h), NEW c \in Ids \union {None},
         Grandchildren(h, m) \subseteq Ids
  PROVE  /\ Removed(h, m, c) \in Histories
         /\ IsRemoved(Removed(h, m, c), h, m, c)
<1> DEFINE p == h.messages[m].parent
           f == [x \in InHistory(h) \ Gone(h, m) |->
                   IF x = p
                   THEN [h.messages[x] EXCEPT !.children = (@ \ {m}) \union Grandchildren(h, m)]
                   ELSE IF x \in Grandchildren(h, m) THEN [h.messages[x] EXCEPT !.parent = p]
                   ELSE h.messages[x]]
<1>1. InHistory(h) \in SUBSET Ids /\ h.messages \in [InHistory(h) -> Message]
  BY HistoryFields
<1>2. p \in Ids \union {None}
  BY <1>1 DEF Message
<1>3. \A x \in InHistory(h) :
        /\ [h.messages[x] EXCEPT !.children = (@ \ {m}) \union Grandchildren(h, m)] \in Message
        /\ [h.messages[x] EXCEPT !.parent = p] \in Message
  BY <1>1, <1>2 DEF Message
<1>4. f \in [InHistory(h) \ Gone(h, m) -> Message]
  BY <1>1, <1>3
<1>5. /\ [messages |-> f, currentId |-> c] \in Histories
      /\ InHistory([messages |-> f, currentId |-> c]) = InHistory(h) \ Gone(h, m)
  BY ZenonT(60), <1>1, <1>4, MakeHistory
<1>6. \A x \in InHistory(h) : h.messages[x] \in Message
  BY <1>1
<1>7. Removed(h, m, c) = [messages |-> f, currentId |-> c]
  BY DEF Removed
<1>8. PICK g : g = [messages |-> f, currentId |-> c]
  OBVIOUS
<1>9. \A x \in InHistory(h) \ Gone(h, m) :
        /\ g.messages[x].role = h.messages[x].role
        /\ x \in Grandchildren(h, m) /\ x # p => g.messages[x].parent = p
        /\ x \notin Grandchildren(h, m) => g.messages[x].parent = h.messages[x].parent
        /\ x = p => g.messages[x].children = (h.messages[x].children \ {m}) \union Grandchildren(h, m)
        /\ x # p => g.messages[x].children = h.messages[x].children
  BY <1>6, <1>8 DEF Message
<1>10. /\ g \in Histories /\ InHistory(g) = InHistory(h) \ Gone(h, m) /\ g.currentId = c
       /\ Removed(h, m, c) = g
  BY <1>5, <1>7, <1>8
<1> HIDE DEF f
<1> QED
  BY <1>9, <1>10 DEF IsRemoved

LEMMA AttachedShape ==
  ASSUME NEW h \in Histories, Shape(h), NEW new \in SUBSET Ids, NEW msg \in Message,
         NEW c, NEW g \in Histories, IsAttached(g, h, new, msg, c),
         msg.children = {}, msg.role # "none",
         msg.parent = None => msg.role = "user",
         msg.parent # None =>
           /\ msg.parent \in InHistory(h)
           /\ h.messages[msg.parent].role # msg.role
           /\ \A a \in new : msg.parent < a
  PROVE  Shape(g)
<1>1. ASSUME NEW m \in InHistory(g)
      PROVE  /\ g.messages[m].role # "none"
             /\ g.messages[m].parent = None => g.messages[m].role = "user"
  BY DEF Shape, IsAttached
<1>2. ASSUME NEW m \in InHistory(g), g.messages[m].parent # None
      PROVE  /\ g.messages[m].parent \in InHistory(g)
             /\ g.messages[m].parent < m
             /\ g.messages[g.messages[m].parent].role # g.messages[m].role
             /\ m \in g.messages[g.messages[m].parent].children
  <2>1. CASE m \in new
    BY <1>2, <2>1 DEF IsAttached
  <2>2. CASE m \in InHistory(h)
    <3> DEFINE q == h.messages[m].parent
    <3>1. q # None /\ g.messages[m].parent = q /\ g.messages[m].role = h.messages[m].role
      BY <1>2, <2>2 DEF IsAttached
    <3>2. /\ q \in InHistory(h) /\ q < m /\ h.messages[q].role # h.messages[m].role
          /\ m \in h.messages[q].children
      BY <2>2, <3>1 DEF Shape
    <3>3. /\ q \in InHistory(g) /\ g.messages[q].role = h.messages[q].role
          /\ h.messages[q].children \subseteq g.messages[q].children
      BY <3>2 DEF IsAttached
    <3> HIDE DEF q
    <3> QED
      BY <3>1, <3>2, <3>3
  <2> QED
    BY <2>1, <2>2 DEF IsAttached
<1>3. ASSUME NEW m \in InHistory(g), NEW x \in g.messages[m].children
      PROVE  x \in InHistory(g) /\ g.messages[x].parent = m
  <2>1. CASE m \in new
    BY <1>3, <2>1 DEF IsAttached
  <2>2. CASE m \in InHistory(h)
    <3>1. CASE x \in h.messages[m].children
      <4>1. x \in InHistory(h) /\ h.messages[x].parent = m
        BY <2>2, <3>1 DEF Shape
      <4> QED
        BY <4>1 DEF IsAttached
    <3>2. CASE x \notin h.messages[m].children
      <4>1. m = msg.parent /\ x \in new
        BY <1>3, <2>2, <3>2 DEF IsAttached
      <4> QED
        BY <4>1 DEF IsAttached
    <3> QED
      BY <3>1, <3>2
  <2> QED
    BY <2>1, <2>2 DEF IsAttached
<1> QED
  BY <1>1, <1>2, <1>3 DEF Shape

LEMMA RemovedShape ==
  ASSUME NEW h \in Histories, Shape(h), NEW m \in InHistory(h), NEW c,
         NEW g \in Histories, IsRemoved(g, h, m, c)
  PROVE  Shape(g)
<1> DEFINE p == h.messages[m].parent
<1>1. /\ InHistory(h) \subseteq Nat \ {0}
      /\ \A x \in InHistory(h) : h.messages[x].role \in {"user", "assistant"}
  BY HistoryFields DEF Shape, Message, Ids
<1>2. /\ p # None => p < m /\ p \in InHistory(h) /\ h.messages[p].role # h.messages[m].role
      /\ p # None => m \in h.messages[p].children
      /\ p = None => h.messages[m].role = "user"
  BY DEF Shape
<1>3. \A x \in h.messages[m].children :
        /\ x \in InHistory(h) /\ h.messages[x].parent = m /\ x > m
        /\ h.messages[x].role # h.messages[m].role
  BY <1>1 DEF Shape, None
<1>4. \A x \in Grandchildren(h, m) :
        /\ x \in InHistory(h) /\ x > m
        /\ h.messages[x].parent \in h.messages[m].children
        /\ h.messages[x].role = h.messages[m].role
  <2> SUFFICES ASSUME NEW y \in h.messages[m].children, y \in InHistory(h),
                      NEW x \in h.messages[y].children
               PROVE  /\ x \in InHistory(h) /\ x > m
                      /\ h.messages[x].parent \in h.messages[m].children
                      /\ h.messages[x].role = h.messages[m].role
    BY DEF Grandchildren
  <2>1. /\ x \in InHistory(h) /\ h.messages[x].parent = y /\ x > y
        /\ h.messages[x].role # h.messages[y].role
    BY <1>1 DEF Shape, None
  <2> QED
    BY <1>1, <1>3, <2>1
<1>5. \A x \in InHistory(g) : x \in InHistory(h) /\ x # m /\ x \notin h.messages[m].children
  BY DEF IsRemoved, Gone
<1>6. \A x \in InHistory(h) : x # m /\ x \notin h.messages[m].children => x \in InHistory(g)
  BY DEF IsRemoved, Gone
<1>7. p \notin Grandchildren(h, m) /\ (p # None => p \in InHistory(g))
  BY <1>1, <1>2, <1>3, <1>4, <1>6 DEF None
<1>8. ASSUME NEW x \in InHistory(g)
      PROVE  /\ g.messages[x].role # "none"
             /\ g.messages[x].parent = None => g.messages[x].role = "user"
  BY <1>1, <1>2, <1>4, <1>5, <1>7, <1>8 DEF IsRemoved, Shape
<1>9. ASSUME NEW x \in InHistory(g), g.messages[x].parent # None
      PROVE  /\ g.messages[x].parent \in InHistory(g)
             /\ g.messages[x].parent < x
             /\ g.messages[g.messages[x].parent].role # g.messages[x].role
             /\ x \in g.messages[g.messages[x].parent].children
  <2>1. CASE x \in Grandchildren(h, m)
    <3>1. g.messages[x].parent = p /\ g.messages[x].role = h.messages[m].role /\ x > m
      BY <1>4, <1>7, <1>9, <2>1 DEF IsRemoved
    <3>2. p \in InHistory(g) /\ g.messages[p].role = h.messages[p].role
          /\ Grandchildren(h, m) \subseteq g.messages[p].children
      BY <1>7, <1>9, <3>1 DEF IsRemoved
    <3> QED
      BY <1>1, <1>2, <1>5, <1>9, <2>1, <3>1, <3>2
  <2>2. CASE x \notin Grandchildren(h, m)
    <3> DEFINE q == h.messages[x].parent
    <3>1. g.messages[x].parent = q /\ g.messages[x].role = h.messages[x].role /\ q # None
      BY <1>9, <2>2 DEF IsRemoved
    <3>2. /\ x \in InHistory(h) /\ q \in InHistory(h) /\ q < x
          /\ h.messages[q].role # h.messages[x].role /\ x \in h.messages[q].children
      BY <1>5, <3>1 DEF Shape
    <3>3. q \notin h.messages[m].children
      BY <2>2, <3>2 DEF Grandchildren
    <3>4. q # m
      BY <1>5, <3>2
    <3>5. q \in InHistory(g) /\ g.messages[q].role = h.messages[q].role
          /\ x \in g.messages[q].children
      BY <1>5, <1>6, <3>2, <3>3, <3>4 DEF IsRemoved
    <3> HIDE DEF q
    <3> QED
      BY <3>1, <3>2, <3>5
  <2> QED
    BY <2>1, <2>2
<1>10. ASSUME NEW x \in InHistory(g), NEW y \in g.messages[x].children
       PROVE  y \in InHistory(g) /\ g.messages[y].parent = x
  <2>1. CASE x = p /\ y \in Grandchildren(h, m)
    <3>1. y # m /\ y \notin h.messages[m].children /\ y # p
      BY <1>1, <1>3, <1>4, <1>7, <2>1
    <3>2. y \in InHistory(g)
      BY <1>4, <1>6, <2>1, <3>1
    <3> QED
      BY <2>1, <3>1, <3>2 DEF IsRemoved
  <2>2. CASE ~(x = p /\ y \in Grandchildren(h, m))
    <3>1. y \in h.messages[x].children /\ (x = p => y # m)
      BY <1>10, <2>2 DEF IsRemoved
    <3>2. y \in InHistory(h) /\ h.messages[y].parent = x /\ x # m /\ x \notin h.messages[m].children
      BY <1>5, <3>1 DEF Shape
    <3>3. y # m /\ y \notin h.messages[m].children /\ y \notin Grandchildren(h, m)
      BY <1>3, <1>4, <3>1, <3>2
    <3>4. y \in InHistory(g)
      BY <1>6, <3>2, <3>3
    <3> QED
      BY <3>2, <3>3, <3>4 DEF IsRemoved
  <2> QED
    BY <2>1, <2>2
<1> QED
  BY <1>8, <1>9, <1>10 DEF Shape

-----------------------------------------------------------------------------
(* Type correctness. *)

EndedOrNot == {"none", "started", "running", "background", "done", "failed", "cancelled"}
Event == [id : Ids, type : {"text", "done", "error", "cancel"}, text : 0 .. MaxText]

Types ==
  /\ page \in Histories /\ stored \in Histories
  /\ saves \in Seq(Save)
  /\ events \in Seq(Event)
  /\ taskIds \subseteq Ids /\ stopping \subseteq Ids
  /\ requests \subseteq Ids /\ refused \subseteq Ids
  /\ task \in [Ids -> EndedOrNot]
  /\ text \in [Ids -> 0 .. MaxText]
  /\ asked \in [Ids -> Ids \union {None}]
  /\ nextId \in Nat \ {0}
  /\ seen \subseteq Race

LEMMA SaveType ==
  ASSUME NEW ss \in Seq(Save)
  PROVE  \A i \in 1 .. Len(ss) : ss[i].history \in Histories /\ ss[i].sends \subseteq Ids
<1>1. \A i \in 1 .. Len(ss) : ss[i] \in Save
  OBVIOUS
<1> QED
  BY <1>1 DEF Save

LEMMA TypesSuffice == Types => TypeOK
<1> SUFFICES ASSUME Types
             PROVE  TypeOK
  OBVIOUS
<1>1. IsHistory(page) /\ IsHistory(stored)
  BY HistoryFields DEF Types
<1>2. \A i \in 1 .. Len(saves) : IsHistory(saves[i].history) /\ saves[i].sends \subseteq Ids
  BY SaveType, HistoryFields DEF Types
<1> QED
  BY <1>1, <1>2 DEF Types, TypeOK, EndedOrNot, Event

LEMMA NewMessages ==
  /\ None \in Ids \union {None}
  /\ \A p \in Ids \union {None} : Prompt(p) \in Message /\ Answer(p) \in Message
  /\ Bare \in Message
  BY BoundAssumption DEF Prompt, Answer, Bare, Message

LEMMA FiveTree ==
  ASSUME NEW h, InHistory(h) = 1 .. 5, h.currentId = 5,
      NEW F, F = h.messages,
      F[1].role = "user" /\ F[1].parent = 0 /\ F[1].children = {2, 3},
      F[2].role = "assistant" /\ F[2].parent = 1 /\ F[2].children = {},
      F[3].role = "assistant" /\ F[3].parent = 1 /\ F[3].children = {4},
      F[4].role = "user" /\ F[4].parent = 3 /\ F[4].children = {5},
      F[5].role = "assistant" /\ F[5].parent = 4 /\ F[5].children = {}
  PROVE  Tree(h)
<1>1. \A m \in 1 .. 5 : m = 1 \/ m = 2 \/ m = 3 \/ m = 4 \/ m = 5
  OBVIOUS
<1>2. Answered(h)
  <2>1. h.currentId \in InHistory(h) /\ F[h.currentId].role = "assistant"
    OBVIOUS
  <2>2. \A m \in 1 .. 5 : F[m].role = "user" => m = 1 \/ m = 4
    OBVIOUS
  <2>3. 2 \in F[1].children /\ 5 \in F[4].children
    OBVIOUS
  <2> QED
    BY <1>1, <2>1, <2>2, <2>3 DEF Answered
<1>3. Shape(h)
  <2> SUFFICES ASSUME NEW m \in 1 .. 5
               PROVE  LET msg == F[m]
                      IN  /\ msg.role # "none"
                          /\ msg.parent = None => msg.role = "user"
                          /\ msg.parent # None =>
                               /\ msg.parent \in InHistory(h)
                               /\ msg.parent < m
                               /\ F[msg.parent].role # msg.role
                               /\ m \in F[msg.parent].children
                          /\ \A c \in msg.children :
                               c \in InHistory(h) /\ F[c].parent = m
    BY DEF Shape
  <2>1. CASE m = 1
    BY <2>1 DEF None
  <2>2. CASE m = 2
    BY <2>2 DEF None
  <2>3. CASE m = 3
    BY <2>3 DEF None
  <2>4. CASE m = 4
    BY <2>4 DEF None
  <2>5. CASE m = 5
    BY <2>5 DEF None
  <2> QED
    BY <1>1, <2>1, <2>2, <2>3, <2>4, <2>5
<1> QED
  BY <1>2, <1>3 DEF Tree

LEMMA LoadedTree ==
  /\ Loaded \in Histories /\ InHistory(Loaded) = 1 .. 5 /\ Tree(Loaded)
  /\ Loaded.currentId = 5 /\ Loaded.messages[5].children = {}
<1> DEFINE answer(p) == [Answer(p) EXCEPT !.done = TRUE, !.text = MaxText]
           f == [m \in 1 .. 5 |->
         IF m = 1 THEN [Prompt(None) EXCEPT !.children = {2, 3}]
         ELSE IF m = 2 THEN answer(1)
         ELSE IF m = 3 THEN [answer(1) EXCEPT !.children = {4}]
         ELSE IF m = 4 THEN [Prompt(3) EXCEPT !.children = {5}]
         ELSE answer(4)]
<1>1. 1 .. 5 \in SUBSET Ids
  BY BoundAssumption DEF Ids
<1>a. /\ 1 \in Ids /\ 2 \in Ids /\ 3 \in Ids /\ 4 \in Ids /\ 5 \in Ids
      /\ MaxText \in 0 .. MaxText
  BY BoundAssumption DEF Ids
<1>b. /\ [Prompt(None) EXCEPT !.children = {2, 3}] \in Message
      /\ [Prompt(3) EXCEPT !.children = {5}] \in Message
      /\ answer(1) \in Message /\ answer(4) \in Message
      /\ [answer(1) EXCEPT !.children = {4}] \in Message
  BY <1>a, NewMessages DEF Message
<1>c. Loaded = [messages |-> f, currentId |-> 5]
  BY DEF Loaded
<1>d. /\ [Prompt(None) EXCEPT !.children = {2, 3}].role = "user"
      /\ [Prompt(None) EXCEPT !.children = {2, 3}].parent = 0
      /\ [Prompt(None) EXCEPT !.children = {2, 3}].children = {2, 3}
      /\ [Prompt(3) EXCEPT !.children = {5}].role = "user"
      /\ [Prompt(3) EXCEPT !.children = {5}].parent = 3
      /\ [Prompt(3) EXCEPT !.children = {5}].children = {5}
      /\ \A p \in {1, 4} : /\ answer(p).role = "assistant" /\ answer(p).parent = p
                          /\ answer(p).children = {}
      /\ [answer(1) EXCEPT !.children = {4}].role = "assistant"
      /\ [answer(1) EXCEPT !.children = {4}].parent = 1
      /\ [answer(1) EXCEPT !.children = {4}].children = {4}
  BY DEF Prompt, Answer, None
<1> HIDE DEF answer
<1>2. f \in [1 .. 5 -> Message]
  BY <1>b
<1>3. /\ [messages |-> f, currentId |-> 5] \in Histories
      /\ InHistory([messages |-> f, currentId |-> 5]) = 1 .. 5
  <2> HIDE DEF f
  <2>1. 5 \in Ids \union {None}
    BY <1>a
  <2> QED
    BY <1>1, <1>2, <2>1, MakeHistory
<1>4. Loaded = [messages |-> f, currentId |-> 5]
  BY <1>c
<1>5. /\ Loaded.messages[1] = [Prompt(None) EXCEPT !.children = {2, 3}]
      /\ Loaded.messages[2] = answer(1)
      /\ Loaded.messages[3] = [answer(1) EXCEPT !.children = {4}]
      /\ Loaded.messages[4] = [Prompt(3) EXCEPT !.children = {5}]
      /\ Loaded.messages[5] = answer(4)
      /\ Loaded.currentId = 5 /\ InHistory(Loaded) = 1 .. 5
  BY <1>3, <1>4
<1>6. /\ Loaded.messages[1].role = "user" /\ Loaded.messages[1].parent = 0
      /\ Loaded.messages[1].children = {2, 3}
      /\ Loaded.messages[2].role = "assistant" /\ Loaded.messages[2].parent = 1
      /\ Loaded.messages[2].children = {}
      /\ Loaded.messages[3].role = "assistant" /\ Loaded.messages[3].parent = 1
      /\ Loaded.messages[3].children = {4}
      /\ Loaded.messages[4].role = "user" /\ Loaded.messages[4].parent = 3
      /\ Loaded.messages[4].children = {5}
      /\ Loaded.messages[5].role = "assistant" /\ Loaded.messages[5].parent = 4
      /\ Loaded.messages[5].children = {}
  BY <1>5, <1>d
<1> HIDE DEF f
<1>7. PICK F : F = Loaded.messages
  OBVIOUS
<1> QED
  BY <1>3, <1>4, <1>5, <1>6, <1>7, FiveTree

LEMMA TypesInit == Init => Types
  BY LoadedTree, BoundAssumption DEF Init, Types, EndedOrNot, Race, Ids

(* A save is added last, or taken out of the queue.                        *)
LEMMA SavedType ==
  ASSUME NEW ss \in Seq(Save), NEW h \in Histories, NEW new \in SUBSET Ids, NEW tt,
         tt = Append(ss, [history |-> h, sends |-> new])
  PROVE  /\ tt \in Seq(Save) /\ Len(tt) = Len(ss) + 1
         /\ \A i \in 1 .. Len(ss) : tt[i] = ss[i]
         /\ tt[Len(tt)].history = h /\ tt[Len(tt)].sends = new
<1>1. PICK x : x = [history |-> h, sends |-> new]
  OBVIOUS
<1>2. x \in Save /\ x.history = h /\ x.sends = new
  BY <1>1 DEF Save
<1>3. tt = Append(ss, x) /\ Len(ss) \in Nat
  BY <1>1
<1>4. tt \in Seq(Save) /\ Len(tt) = Len(ss) + 1
  BY <1>2, <1>3
<1>5. \A i \in 1 .. Len(ss) : tt[i] = ss[i]
  BY <1>2, <1>3
<1>6. Append(ss, x)[Len(ss) + 1] = x /\ Len(Append(ss, x)) = Len(ss) + 1
  BY <1>2, AppendProperties
<1>7. tt[Len(tt)] = x
  BY <1>3, <1>6
<1> QED
  BY <1>2, <1>4, <1>5, <1>7

LEMMA TakenType ==
  ASSUME NEW ss \in Seq(Save), NEW i \in 1 .. Len(ss), NEW tt,
         tt = [k \in 1 .. Len(ss) - 1 |-> IF k < i THEN ss[k] ELSE ss[k + 1]]
  PROVE  /\ tt \in Seq(Save) /\ Len(tt) = Len(ss) - 1
         /\ i = 1 => \A k \in 1 .. Len(tt) : tt[k] = ss[k + 1]
<1>1. Len(ss) \in Nat /\ Len(ss) - 1 \in Nat
  OBVIOUS
<1>2. \A k \in 1 .. Len(ss) : ss[k] \in Save
  OBVIOUS
<1>3. \A k \in 1 .. Len(ss) - 1 : (IF k < i THEN ss[k] ELSE ss[k + 1]) \in Save
  BY <1>1, <1>2
<1>4. tt \in [1 .. Len(ss) - 1 -> Save]
  BY <1>3
<1>5. tt \in Seq(Save)
  BY <1>1, <1>4, SeqDef
<1>6. Len(tt) = Len(ss) - 1
  BY <1>1, <1>4, LenProperties, <1>5
<1> QED
  BY <1>5, <1>6

LEMMA UnsentType ==
  ASSUME NEW ss \in Seq(Save), NEW tt,
         tt = [i \in 1 .. Len(ss) |-> [ss[i] EXCEPT !.sends = {}]]
  PROVE  /\ tt \in Seq(Save) /\ Len(tt) = Len(ss)
         /\ \A i \in 1 .. Len(tt) : tt[i].history = ss[i].history /\ tt[i].sends = {}
<1>1. \A i \in 1 .. Len(ss) : ss[i] \in Save
  OBVIOUS
<1>2. \A i \in 1 .. Len(ss) : /\ [ss[i] EXCEPT !.sends = {}] \in Save
                              /\ [ss[i] EXCEPT !.sends = {}].history = ss[i].history
                              /\ [ss[i] EXCEPT !.sends = {}].sends = {}
  BY <1>1 DEF Save
<1>3. Len(ss) \in Nat
  OBVIOUS
<1>4. tt \in [1 .. Len(ss) -> Save]
  BY <1>2
<1>5. tt \in Seq(Save)
  BY <1>3, <1>4, SeqDef
<1>6. Len(tt) = Len(ss)
  BY <1>3, <1>4, <1>5, LenProperties
<1> QED
  BY <1>2, <1>5, <1>6

LEMMA SendTypes ==
  ASSUME Types, NEW h \in Histories, NEW u \in Ids, NEW first \in Nat \ {0},
         NEW n \in 1 .. MaxAnswers, SendMessage(h, u, first, n)
  PROVE  Types'
<1> DEFINE new == first .. first + n - 1
           sent == Attached(h, new, Answer(u), first + n - 1)
<1>1. new \in SUBSET Ids /\ first + n - 1 \in Ids /\ first + n \in Nat \ {0}
  BY BoundAssumption DEF SendMessage, Ids
<1>2. page' = sent /\ saves' = Append(saves, [history |-> sent, sends |-> new])
  BY DEF SendMessage, Saved
<1>3. asked' = [a \in Ids |-> IF a \in new THEN u ELSE asked[a]] /\ nextId' = first + n
  BY DEF SendMessage
<1>4. UNCHANGED <<taskIds, requests, refused, events, stored, task, text, stopping, seen>>
  BY DEF SendMessage, server
<1> HIDE DEF new
<1>5. sent \in Histories
  BY <1>1, NewMessages, AttachedType
<1> HIDE DEF sent
<1>6. saves' \in Seq(Save)
  BY <1>1, <1>2, <1>5, SavedType DEF Types
<1>7. asked' \in [Ids -> Ids \union {None}]
  BY <1>3 DEF Types
<1> QED
  BY <1>1, <1>2, <1>3, <1>4, <1>5, <1>6, <1>7 DEF Types

(* The page's new history is sent, once or twice.                          *)
PageChanged(h) == ChangePage(h) \/ ChangePageTwice(h)

LEMMA ChangedFields ==
  ASSUME NEW h, PageChanged(h)
  PROVE  /\ page' = h
         /\ UNCHANGED <<taskIds, stopAsked, completing, refused, requests, events, server, asked>>
  BY DEF PageChanged, ChangePage, ChangePageTwice

LEMMA ChangedSaves ==
  ASSUME Types, NEW h \in Histories, PageChanged(h)
  PROVE  /\ saves' \in Seq(Save)
         /\ \A i \in 1 .. Len(saves) : saves'[i] = saves[i]
         /\ \/ Len(saves') = Len(saves) + 1
            \/ Len(saves') = Len(saves) + 2
         /\ \A i \in Len(saves) + 1 .. Len(saves') : saves'[i].history = h /\ saves'[i].sends = {}
<1>0. saves \in Seq(Save) /\ Len(saves) \in Nat
  BY DEF Types
<1>1. PICK tt : tt = Append(saves, [history |-> h, sends |-> {}])
  OBVIOUS
<1>2. /\ tt \in Seq(Save) /\ Len(tt) = Len(saves) + 1
      /\ \A i \in 1 .. Len(saves) : tt[i] = saves[i]
      /\ tt[Len(tt)].history = h /\ tt[Len(tt)].sends = {}
  BY <1>0, <1>1, SavedType
<1>3. CASE saves' = tt
  BY <1>0, <1>2, <1>3
<1>4. CASE saves' = Append(tt, [history |-> h, sends |-> {}])
  <2>1. PICK uu : uu = saves'
    OBVIOUS
  <2>a. tt \in Seq(Save) /\ {} \in SUBSET Ids /\ uu = Append(tt, [history |-> h, sends |-> {}])
    BY <1>2, <1>4, <2>1
  <2>2. /\ uu \in Seq(Save) /\ Len(uu) = Len(tt) + 1
        /\ \A i \in 1 .. Len(tt) : uu[i] = tt[i]
        /\ uu[Len(uu)].history = h /\ uu[Len(uu)].sends = {}
    BY <2>a, SavedType
  <2>3. \A i \in 1 .. Len(saves) : uu[i] = saves[i]
    BY <1>0, <1>2, <2>2
  <2>4. Len(uu) = Len(saves) + 2
    BY <1>0, <1>2, <2>2
  <2>5. \A i \in Len(saves) + 1 .. Len(uu) : i = Len(tt) \/ i = Len(uu)
    BY <1>0, <1>2, <2>4
  <2>6. \A i \in Len(saves) + 1 .. Len(uu) : uu[i].history = h /\ uu[i].sends = {}
    BY <1>0, <1>2, <2>2, <2>5
  <2> QED
    BY <2>1, <2>2, <2>3, <2>4, <2>6
<1> QED
  BY <1>1, <1>3, <1>4 DEF PageChanged, ChangePage, ChangePageTwice, Saved

LEMMA ChangeTypes ==
  ASSUME Types, NEW h \in Histories, PageChanged(h), nextId' \in Nat \ {0}, seen' \subseteq Race
  PROVE  Types'
<1>1. page' = h
  BY ChangedFields
<1>2. UNCHANGED <<taskIds, requests, refused, events, stored, task, text, stopping, asked>>
  BY ChangedFields DEF server
<1>3. saves' \in Seq(Save)
  BY ChangedSaves
<1> QED
  BY <1>1, <1>2, <1>3 DEF Types

LEMMA TaskStepTypes ==
  ASSUME Types, NEW a \in Ids, NEW to \in EndedOrNot, TaskStep(a, to),
         stored' \in Histories, text' \in [Ids -> 0 .. MaxText], events' \in Seq(Event)
  PROVE  Types'
  BY DEF Types, TaskStep

LEMMA UpsertTypes ==
  ASSUME Types, NEW a \in Ids, NEW msg \in Message, Upsert(a, msg)
  PROVE  stored' \in Histories
  BY PutType DEF Types, Upsert

LEMMA OldType ==
  ASSUME Types, NEW a \in Ids
  PROVE  Old(a) \in Message
  BY HistoryFields, NewMessages DEF Types, Old

LEMMA EmitTypes ==
  ASSUME Types, NEW a \in Ids, NEW type \in {"text", "done", "error", "cancel"},
         text' \in [Ids -> 0 .. MaxText], Emit(a, type)
  PROVE  events' \in Seq(Event)
<1>1. PICK e : e = [id |-> a, type |-> type, text |-> text'[a]]
  OBVIOUS
<1>2. e \in Event
  BY <1>1 DEF Event
<1>3. events' = Append(events, e)
  BY <1>1 DEF Emit
<1> QED
  BY <1>2, <1>3 DEF Types

LEMMA AnsweringTypes ==
  ASSUME Types, NEW a \in Ids, Answering(a)
  PROVE  Types'
<1>1. Old(a) \in Message
  BY OldType
<1>2. text \in [Ids -> 0 .. MaxText] /\ asked[a] \in Ids \union {None} /\ stored \in Histories
      /\ events \in Seq(Event) /\ MaxText \in Nat
  BY BoundAssumption DEF Types
<1>3. CASE Begin(a)
  <2>1. [Old(a) EXCEPT !.parent = asked[a]] \in Message
    BY <1>1, <1>2 DEF Message
  <2>2. stored' \in Histories
    BY <1>3, <2>1, UpsertTypes DEF Begin
  <2> QED
    BY <1>2, <1>3, <2>2, TaskStepTypes DEF Begin, EndedOrNot
<1>4. CASE Produce(a)
  <2>1. text' \in [Ids -> 0 .. MaxText]
    BY <1>2, <1>4 DEF Produce
  <2>2. events' \in Seq(Event)
    BY <1>4, <2>1, EmitTypes DEF Produce
  <2> QED
    BY <1>2, <1>4, <2>1, <2>2, TaskStepTypes DEF Produce, EndedOrNot
<1>5. CASE Finish(a)
  <2>1. [Old(a) EXCEPT !.text = text[a]] \in Message
    BY <1>1, <1>2 DEF Message
  <2>2. stored' \in Histories
    BY <1>5, <2>1, UpsertTypes DEF Finish
  <2>3. text' \in [Ids -> 0 .. MaxText]
    BY <1>2, <1>5 DEF Finish
  <2>4. events' \in Seq(Event)
    BY <1>5, <2>3, EmitTypes DEF Finish
  <2> QED
    BY <1>5, <2>2, <2>3, <2>4, TaskStepTypes DEF Finish, EndedOrNot
<1>6. CASE Background(a)
  <2>1. stored' \in Histories
    BY <1>1, <1>2, <1>6, UpsertTypes DEF Background
  <2> QED
    BY <1>2, <1>6, <2>1, TaskStepTypes DEF Background, EndedOrNot
<1>7. CASE Fail(a)
  <2>1. [Old(a) EXCEPT !.parent = asked[a], !.error = TRUE] \in Message
    BY <1>1, <1>2 DEF Message
  <2>2. stored' \in Histories
    BY <1>7, <2>1, UpsertTypes DEF Fail
  <2>3. text' \in [Ids -> 0 .. MaxText]
    BY <1>2, <1>7 DEF Fail
  <2>4. events' \in Seq(Event)
    BY <1>7, <2>3, EmitTypes DEF Fail
  <2> QED
    BY <1>7, <2>2, <2>3, <2>4, TaskStepTypes DEF Fail, EndedOrNot
<1>8. CASE Cancel(a)
  <2>1. [Old(a) EXCEPT !.text = text[a]] \in Message
    BY <1>1, <1>2 DEF Message
  <2>2. stored' \in Histories
    BY <1>2, <1>8, <2>1, UpsertTypes DEF Cancel
  <2>3. text' \in [Ids -> 0 .. MaxText]
    BY <1>2, <1>8 DEF Cancel
  <2>4. events' \in Seq(Event)
    BY <1>8, <2>3, EmitTypes DEF Cancel
  <2> QED
    BY <1>8, <2>2, <2>3, <2>4, TaskStepTypes DEF Cancel, EndedOrNot
<1> QED
  BY <1>3, <1>4, <1>5, <1>6, <1>7, <1>8 DEF Answering

(* The page's history after a prompt is added.                             *)
LEMMA PromptType ==
  ASSUME Types, NEW p \in Ids \union {None}, nextId \in Ids
  PROVE  Attached(page, {nextId}, Prompt(p), nextId) \in Histories
  BY NewMessages, AttachedType DEF Types

LEMMA NewPromptTypes ==
  ASSUME Types, NEW p \in Ids \union {None}, NEW n \in 1 .. MaxAnswers, NewPrompt(p, n)
  PROVE  Types' /\ nextId \in Ids
<1>1. nextId \in Ids /\ nextId + 1 \in Nat \ {0}
  BY BoundAssumption DEF Types, NewPrompt, SendMessage, Ids
<1>2. Attached(page, {nextId}, Prompt(p), nextId) \in Histories
  BY <1>1, PromptType
<1> QED
  BY <1>1, <1>2, SendTypes DEF NewPrompt

LEMMA PageTypes ==
  ASSUME Types
  PROVE  /\ \A m \in InHistory(page) : /\ m \in Ids /\ page.messages[m] \in Message
                                       /\ page.messages[m].parent \in Ids \union {None}
         /\ page.currentId \in Ids \union {None}
         /\ \A m \in InHistory(page) : Grandchildren(page, m) \subseteq Ids
         /\ \A m \in InHistory(page), c \in Ids \union {None} : Removed(page, m, c) \in Histories
         /\ \A c \in Ids \union {None} : [messages |-> page.messages, currentId |-> c] \in Histories
<1>1. \A m \in InHistory(page) : m \in Ids /\ page.messages[m] \in Message
  BY HistoryFields DEF Types
<1>2. \A m \in InHistory(page) : page.messages[m].children \subseteq Ids
  BY <1>1 DEF Message
<1>3. \A m \in InHistory(page) : Grandchildren(page, m) \subseteq Ids
  BY <1>2 DEF Grandchildren
<1>4. \A m \in InHistory(page), c \in Ids \union {None} : Removed(page, m, c) \in Histories
  BY <1>3, RemovedFields DEF Types
<1>5. InHistory(page) \in SUBSET Ids /\ page.messages \in [InHistory(page) -> Message]
  BY HistoryFields DEF Types
<1> QED
  BY <1>1, <1>3, <1>4, <1>5, MakeHistory, HistoryFields DEF Types, Message

LEMMA DeleteLeaf ==
  ASSUME Types, NEW m \in InHistory(page), DeleteMessage(m)
  PROVE  \E leaf \in Ids :
           /\ PageChanged(Removed(page, m, leaf)) /\ Removed(page, m, leaf) \in Histories
           /\ leaf \in InHistory(Removed(page, m, leaf))
           /\ Removed(page, m, leaf).messages[leaf].children = {}
<1> DEFINE left == Removed(page, m, page.currentId)
<1>1. PICK leaf : /\ leaf \in InHistory(left) /\ left.messages[leaf].children = {}
                  /\ PageChanged(Removed(page, m, leaf))
  BY DEF DeleteMessage, LeavesUnder, PageChanged
<1>2. InHistory(left) \subseteq InHistory(page)
  BY DEF Removed, InHistory
<1>3. leaf \in Ids /\ Removed(page, m, leaf) \in Histories
  BY <1>1, <1>2, PageTypes
<1>4. left.messages = Removed(page, m, leaf).messages
  BY DEF Removed
<1> QED
  BY <1>1, <1>3, <1>4 DEF InHistory

LEMMA HandledTypes ==
  ASSUME Types, HandleEvent
  PROVE  Types'
<1>1. PICK e : e = Head(events) /\ (Unknown(e) \/ TextEvent(e) \/ DoneEvent(e) \/ CancelEvent(e))
  BY DEF HandleEvent
<1>2. e \in Event
  BY <1>1 DEF HandleEvent, Types
<1>3. events' \in Seq(Event)
  BY DEF HandleEvent, Types
<1>4. UNCHANGED <<stopAsked, refused, saves, requests, server, asked, nextId>>
  BY DEF HandleEvent
<1>5. page \in Histories /\ page.currentId \in Ids \union {None}
  BY PageTypes DEF Types
<1>6. \A msg \in Message : Put(page, e.id, msg, page.currentId) \in Histories
  BY <1>2, <1>5, PutType DEF Event
<1>7. page' \in Histories /\ taskIds' \subseteq Ids /\ seen' \subseteq Race
  <2>1. CASE Unknown(e)
    BY <2>1 DEF Unknown, Types
  <2>2. CASE TextEvent(e)
    <3>1. [page.messages[e.id] EXCEPT !.text = e.text] \in Message
      BY <1>2, <2>2, PageTypes DEF TextEvent, Message, Event
    <3> QED
      BY <1>6, <2>2, <3>1 DEF TextEvent, Changed, Types
  <2>3. CASE DoneEvent(e)
    <3>1. [page.messages[e.id] EXCEPT !.text = e.text, !.done = TRUE] \in Message
      BY <1>2, <2>3, PageTypes, MarkedMessage DEF DoneEvent, Event
    <3> QED
      BY <1>6, <2>3, <3>1 DEF DoneEvent, Changed, Types
  <2>4. CASE CancelEvent(e)
    <3> DEFINE msg == [page.messages[e.id] EXCEPT !.error = @ \/ e.type = "error"]
    <3>1. msg \in Message
      <4>1. page.messages[e.id] \in Message /\ 0 \in 0 .. MaxText
        BY <2>4, PageTypes, BoundAssumption DEF CancelEvent
      <4> QED
        BY <4>1, MarkedMessage
    <3>2. page' = DisplayedDone(Put(page, e.id, msg, page.currentId))
      BY <2>4 DEF CancelEvent, MarkDisplayed
    <3>3. Put(page, e.id, msg, page.currentId) \in Histories
      BY <1>6, <3>1
    <3>4. page' \in Histories
      BY <3>2, <3>3, DisplayedSame
    <3> QED
      BY <2>4, <3>4 DEF CancelEvent, MarkDisplayed, Types, Race
  <2> QED
    BY <1>1, <2>1, <2>2, <2>3, <2>4
<1> QED
  BY <1>3, <1>4, <1>7 DEF Types, server

LEMMA ReloadedPage ==
  ASSUME Types, Reload
  PROVE  page' \in Histories /\ SameTree(page', stored) /\ page'.currentId = stored.currentId
  BY AllDone DEF Types, Reload

LEMMA UserTypes ==
  ASSUME Types, User
  PROVE  Types'
<1>1. ASSUME NEW n \in 1 .. MaxAnswers, SubmitPrompt(n)
      PROVE  Types'
  BY <1>1, PageTypes, NewPromptTypes DEF SubmitPrompt
<1>2. ASSUME NEW n \in 1 .. MaxAnswers, NEW m \in InHistory(page), EditPrompt(m, n)
      PROVE  Types'
  BY <1>2, PageTypes, NewPromptTypes DEF EditPrompt
<1>3. ASSUME NEW n \in 1 .. MaxAnswers, NEW m \in InHistory(page), Regenerate(m, n)
      PROVE  Types'
  <2>1. /\ page \in Histories /\ nextId \in Nat \ {0}
        /\ page.messages[m].parent \in Ids
        /\ SendMessage(page, page.messages[m].parent, nextId, n)
    BY <1>3, PageTypes DEF Regenerate, Types
  <2> QED
    BY <2>1, SendTypes
<1>4. ASSUME NEW m \in InHistory(page), EditAnswer(m)
      PROVE  Types'
  <2>1. page.messages[m] \in Message /\ nextId \in Ids
    BY <1>4, PageTypes DEF EditAnswer, Types, Ids
  <2>2. [page.messages[m] EXCEPT !.children = {}] \in Message
    BY <2>1 DEF Message
  <2>3. Attached(page, {nextId}, [page.messages[m] EXCEPT !.children = {}], nextId) \in Histories
    BY <2>1, <2>2, AttachedType DEF Types
  <2> QED
    BY <1>4, <2>3, ChangeTypes DEF EditAnswer, Types, PageChanged
<1>5. ASSUME NEW m \in InHistory(page), DeleteMessage(m)
      PROVE  Types'
  <2>1. PICK leaf \in Ids : /\ PageChanged(Removed(page, m, leaf))
                            /\ Removed(page, m, leaf) \in Histories
    BY <1>5, DeleteLeaf
  <2>2. nextId' \in Nat \ {0} /\ seen' \subseteq Race
    BY <1>5 DEF DeleteMessage, Types, Race
  <2> QED
    BY <2>1, <2>2, ChangeTypes
<1>6. ASSUME NEW m \in InHistory(page), NEW s \in InHistory(page), Navigate(m, s)
      PROVE  Types'
  <2>1. PICK leaf \in InHistory(page) :
          LET h == [messages |-> page.messages, currentId |-> leaf]
          IN  \/ ChangePage(h)
              \/ page' = h /\ UNCHANGED <<taskIds, stopAsked, completing, refused, saves, requests,
                                          events, server, asked>>
    BY <1>6 DEF Navigate, LeavesUnder
  <2>2. [messages |-> page.messages, currentId |-> leaf] \in Histories
    BY PageTypes
  <2>3. nextId' \in Nat \ {0} /\ seen' \subseteq Race /\ UNCHANGED <<nextId, seen>>
    BY <1>6 DEF Navigate, Types
  <2>4. CASE ChangePage([messages |-> page.messages, currentId |-> leaf])
    BY <2>2, <2>3, <2>4, ChangeTypes DEF PageChanged
  <2> QED
    BY <2>1, <2>2, <2>3, <2>4 DEF Types, server
<1>7. CASE Resave
  BY <1>7, ChangeTypes DEF Resave, Types, PageChanged
<1>8. CASE Stop
  BY <1>8 DEF Stop, Types
<1>9. CASE Reload
  <2>1. page' \in Histories
    BY <1>9, ReloadedPage
  <2>2. saves' \in Seq(Save)
    <3>1. CASE saves' = <<>>
      BY <3>1
    <3>2. CASE saves' = [i \in 1 .. Len(saves) |-> [saves[i] EXCEPT !.sends = {}]]
      BY <3>2, UnsentType DEF Types
    <3> QED
      BY <1>9, <3>1, <3>2 DEF Reload
  <2>3. events' \in Seq(Event) /\ taskIds' \subseteq Ids /\ requests' = {} /\ refused' = {}
    BY <1>9 DEF Reload
  <2>4. seen' \subseteq Race
    BY <1>9 DEF Reload, Race, Types
  <2> QED
    BY <1>9, <2>1, <2>2, <2>3, <2>4 DEF Reload, Types, server
<1> QED
  BY <1>1, <1>2, <1>3, <1>4, <1>5, <1>6, <1>7, <1>8, <1>9 DEF User

LEMMA SystemTypes ==
  ASSUME Types, System
  PROVE  Types'
<1>1. CASE Stopped
  <2>1. page' \in Histories
    BY <1>1, DisplayedSame DEF Stopped, MarkDisplayed, Types
  <2> QED
    BY <1>1, <2>1 DEF Stopped, MarkDisplayed, Types, server, Race
<1>2. ASSUME NEW a \in refused, Refused(a)
      PROVE  Types'
  <2> DEFINE msg == [Answer(asked[a]) EXCEPT !.done = TRUE, !.error = TRUE]
  <2>1. a \in Ids /\ asked[a] \in Ids \union {None} /\ page \in Histories
    BY DEF Types
  <2>2. msg \in Message
    BY <2>1, NewMessages DEF Message
  <2>3. page' \in Histories
    BY <1>2, <2>1, <2>2, PutType DEF Refused
  <2>4. seen' \subseteq Race
    BY <1>2 DEF Refused, Types, Race
  <2> QED
    BY <1>2, <2>3, <2>4 DEF Refused, Types, server
<1>3. CASE HandleEvent
  BY <1>3, HandledTypes
<1>4. ASSUME NEW c \in completing, Completed(c)
      PROVE  Types'
  <2>1. saves' \in Seq(Save) /\ taskIds' \subseteq Ids
    BY <1>4, SavedType DEF Completed, Saved, Types
  <2> QED
    BY <1>4, <2>1 DEF Completed, Types, server
<1>5. ASSUME NEW i \in 1 .. Len(saves), Arrive(i)
      PROVE  Types'
  <2>1. stored' \in Histories /\ requests' \subseteq Ids
    BY <1>5, SaveType DEF Arrive, Types
  <2>2. saves' \in Seq(Save)
    BY <1>5, TakenType DEF Arrive, Types
  <2>3. seen' \subseteq Race
    BY <1>5 DEF Arrive, Types, Race
  <2> QED
    BY <1>5, <2>1, <2>2, <2>3 DEF Arrive, Types
<1>6. ASSUME NEW a \in requests, Request(a)
      PROVE  Types'
  BY <1>6 DEF Request, Types, EndedOrNot
<1>7. ASSUME NEW a \in Ids, Answering(a)
      PROVE  Types'
  BY <1>7, AnsweringTypes
<1> QED
  BY <1>1, <1>2, <1>3, <1>4, <1>5, <1>6, <1>7 DEF System

LEMMA TypesNext == Types /\ [Next]_vars => Types'
<1> SUFFICES ASSUME Types, [Next]_vars
             PROVE  Types'
  OBVIOUS
<1>1. CASE UNCHANGED vars
  BY <1>1 DEF vars, Types
<1> QED
  BY <1>1, UserTypes, SystemTypes DEF Next

(* Whatever happens, the page and the row hold histories, and each task    *)
(* produces at most the whole of its answer.                               *)
THEOREM TypeCorrect == Spec => []TypeOK
<1>1. Spec => []Types
  BY TypesInit, TypesNext, PTL DEF Spec
<1> QED
  BY <1>1, TypesSuffice, PTL

-----------------------------------------------------------------------------
(* The inductive invariant, as operators of the page's history p, the      *)
(* row's s, the saves ss, the requests req, the tasks tk, the parents ak   *)
(* of the answers and the next number n.                                   *)

SentIn(ss, a) == \E i \in 1 .. Len(ss) : a \in ss[i].sends

WorkingIn(ss, req, tk) ==
  {a \in Ids : SentIn(ss, a) \/ a \in req \/ tk[a] \in {"started", "running"}}
LiveIn(ss, req, tk) == WorkingIn(ss, req, tk) \union {a \in Ids : tk[a] = "background"}

(* h is a tree of messages created before n. Those still to be written are *)
(* answers, below the prompt they were asked for.                          *)
Suits(h, live, working, ak, n) ==
  /\ Tree(h)
  /\ \A m \in InHistory(h) :
       /\ m < n
       /\ m \in live => h.messages[m].role = "assistant"
       /\ m \in working => h.messages[m].parent = ak[m]

(* An answer's POST is sent once, after which its task may be created.     *)
Once(ss, req, tk) ==
  \A i \in 1 .. Len(ss) : \A a \in ss[i].sends :
    /\ a \notin req /\ tk[a] = "none"
    /\ \A j \in 1 .. Len(ss) : j # i => a \notin ss[j].sends

Kept(p, s, ss, live) ==
  \A a \in live :
    /\ a \in InHistory(p)
    /\ ~SentIn(ss, a) => a \in InHistory(s)
    /\ \A i \in 1 .. Len(ss) :
         (\A j \in i + 1 .. Len(ss) : a \notin ss[j].sends) => a \in InHistory(ss[i].history)

Good(p, s, ss, req, tk, ak, n) ==
  /\ \A a \in Ids : tk[a] # "none" => a < n
  /\ Once(ss, req, tk)
  /\ Suits(p, LiveIn(ss, req, tk), WorkingIn(ss, req, tk), ak, n)
  /\ Suits(s, LiveIn(ss, req, tk), WorkingIn(ss, req, tk), ak, n)
  /\ \A i \in 1 .. Len(ss) :
       Suits(ss[i].history, LiveIn(ss, req, tk), WorkingIn(ss, req, tk), ak, n)
  /\ Kept(p, s, ss, LiveIn(ss, req, tk))

LEMMA LiveIsLive ==
  /\ LiveIds = LiveIn(saves, requests, task)
  /\ WorkingIds = WorkingIn(saves, requests, task)
  /\ \A a \in Ids : a \in Waiting <=> SentIn(saves, a)
  BY DEF LiveIds, WorkingIds, Live, Working, Waiting, LiveIn, WorkingIn, SentIn

LEMMA SuitsSame ==
  ASSUME NEW h \in Histories, NEW g \in Histories, SameTree(g, h), NEW L, NEW W, NEW ak, NEW n,
         Suits(h, L, W, ak, n),
         g.currentId \in InHistory(h), h.messages[g.currentId].role = "assistant"
  PROVE  Suits(g, L, W, ak, n)
<1>1. Tree(g)
  BY SameTreeKeeps DEF Suits, Tree
<1> QED
  BY <1>1 DEF Suits, SameTree

(* Other live messages, of which the history has none.                     *)
LEMMA SuitsLess ==
  ASSUME NEW h \in Histories, NEW L, NEW W, NEW ak, NEW n \in Nat, Suits(h, L, W, ak, n),
         NEW L2, NEW W2, NEW ak2, NEW n2 \in Nat, n <= n2,
         \A m \in InHistory(h) : /\ m \in L2 => m \in L
                                 /\ m \in W2 => m \in W /\ ak2[m] = ak[m]
  PROVE  Suits(h, L2, W2, ak2, n2)
<1>1. InHistory(h) \subseteq Nat
  BY HistoryFields DEF Ids
<1> QED
  BY <1>1 DEF Suits

(* History g is sent, with the POSTs of new, or nothing is; twice, without *)
(* POSTs.                                                                  *)
SentOrNot(tt, ss, g, new) ==
  \/ tt = ss /\ new = {}
  \/ /\ Len(tt) = Len(ss) + 1 /\ \A i \in 1 .. Len(ss) : tt[i] = ss[i]
     /\ tt[Len(tt)].history = g /\ tt[Len(tt)].sends = new
  \/ /\ Len(tt) = Len(ss) + 2 /\ \A i \in 1 .. Len(ss) : tt[i] = ss[i]
     /\ \A i \in Len(ss) + 1 .. Len(tt) : tt[i].history = g /\ tt[i].sends = {}
     /\ new = {}

(* The page has a new history g, with new answers as, and may send it.     *)
LEMMA NewPageGood ==
  ASSUME NEW p \in Histories, NEW s \in Histories, NEW ss \in Seq(Save), NEW req \in SUBSET Ids,
         NEW tk \in [Ids -> EndedOrNot], NEW ak, NEW n \in Nat, Good(p, s, ss, req, tk, ak, n),
         NEW g \in Histories, NEW new \in SUBSET Ids, NEW tt \in Seq(Save), NEW ak2, NEW n2 \in Nat,
         SentOrNot(tt, ss, g, new),
         n <= n2, \A a \in new : n <= a, \A a \in Ids \ new : ak2[a] = ak[a],
         Suits(g, LiveIn(ss, req, tk) \union new, WorkingIn(ss, req, tk) \union new, ak2, n2),
         LiveIn(ss, req, tk) \union new \subseteq InHistory(g)
  PROVE  Good(g, s, tt, req, tk, ak2, n2)
<1>1. Len(ss) \in Nat /\ Len(tt) \in Nat /\ Ids \subseteq Nat
  BY DEF Ids
<1>2. /\ \A i \in 1 .. Len(ss) : ss[i].history \in Histories /\ ss[i].sends \subseteq Ids
      /\ \A i \in 1 .. Len(tt) : tt[i].history \in Histories /\ tt[i].sends \subseteq Ids
  BY SaveType
<1>a. /\ \A i \in 1 .. Len(ss) : i \in 1 .. Len(tt) /\ tt[i].sends = ss[i].sends
      /\ \A i \in 1 .. Len(tt) : \/ i \in 1 .. Len(ss) /\ tt[i].sends = ss[i].sends
                                 \/ i = Len(ss) + 1 /\ tt[i].sends = new
                                 \/ tt[i].sends = {}
      /\ new # {} => Len(ss) + 1 \in 1 .. Len(tt) /\ tt[Len(ss) + 1].sends = new
  <2>1. CASE tt = ss /\ new = {}
    <3>1. \A i \in 1 .. Len(tt) : i \in 1 .. Len(ss) /\ tt[i].sends = ss[i].sends
      BY <2>1
    <3>2. \A i \in 1 .. Len(ss) : i \in 1 .. Len(tt) /\ tt[i].sends = ss[i].sends
      BY <2>1
    <3>3. new = {}
      BY <2>1
    <3> QED
      BY <3>1, <3>2, <3>3
  <2>2. CASE Len(tt) = Len(ss) + 1 /\ ~(tt = ss /\ new = {})
    <3>1. /\ Len(tt) = Len(ss) + 1 /\ \A i \in 1 .. Len(ss) : tt[i] = ss[i]
          /\ tt[Len(ss) + 1].sends = new
      BY <1>1, <2>2 DEF SentOrNot
    <3> QED
      BY <1>1, <3>1
  <2>3. CASE Len(tt) = Len(ss) + 2 /\ ~(tt = ss /\ new = {})
    <3>1. /\ Len(tt) = Len(ss) + 2 /\ \A i \in 1 .. Len(ss) : tt[i] = ss[i]
          /\ \A i \in Len(ss) + 1 .. Len(tt) : tt[i].sends = {}
          /\ new = {}
      BY <1>1, <2>3 DEF SentOrNot
    <3>2. \A i \in 1 .. Len(ss) : i \in 1 .. Len(tt) /\ tt[i].sends = ss[i].sends
      BY <1>1, <3>1
    <3>3. \A i \in 1 .. Len(tt) : i \in 1 .. Len(ss) \/ i \in Len(ss) + 1 .. Len(tt)
      BY <1>1
    <3> QED
      BY <3>1, <3>2, <3>3
  <2> QED
    BY <2>1, <2>2, <2>3 DEF SentOrNot
<1>3. \A a \in Ids : SentIn(tt, a) <=> SentIn(ss, a) \/ a \in new
  BY <1>a DEF SentIn
<1>4. /\ LiveIn(tt, req, tk) = LiveIn(ss, req, tk) \union new
      /\ WorkingIn(tt, req, tk) = WorkingIn(ss, req, tk) \union new
  BY <1>3 DEF LiveIn, WorkingIn
<1>5. \A a \in LiveIn(ss, req, tk) : a < n
  BY DEF Good, Kept, Suits
<1>6. \A a \in new : a \notin LiveIn(ss, req, tk) /\ tk[a] = "none" /\ a \notin req /\ ~SentIn(ss, a)
  BY <1>1, <1>5 DEF Good, LiveIn, WorkingIn
<1>7. Once(tt, req, tk)
  <2> SUFFICES ASSUME NEW i \in 1 .. Len(tt), NEW a \in tt[i].sends
               PROVE  /\ a \notin req /\ tk[a] = "none"
                      /\ \A j \in 1 .. Len(tt) : j # i => a \notin tt[j].sends
    BY DEF Once
  <2>1. CASE i \in 1 .. Len(ss) /\ tt[i].sends = ss[i].sends
    <3>1. /\ a \notin req /\ tk[a] = "none" /\ a \notin new
          /\ \A j \in 1 .. Len(ss) : j # i => a \notin ss[j].sends
      BY <1>6, <2>1 DEF Good, Once, SentIn
    <3> QED
      BY <1>a, <3>1
  <2>2. CASE i = Len(ss) + 1 /\ tt[i].sends = new
    <3>1. a \notin req /\ tk[a] = "none" /\ \A j \in 1 .. Len(ss) : a \notin ss[j].sends
      BY <1>6, <2>2 DEF SentIn
    <3> QED
      BY <1>a, <2>2, <3>1
  <2>3. CASE tt[i].sends = {}
    BY <2>3
  <2> QED
    BY <1>a, <2>1, <2>2, <2>3
<1>8. ASSUME NEW h \in Histories, Suits(h, LiveIn(ss, req, tk), WorkingIn(ss, req, tk), ak, n)
      PROVE  Suits(h, LiveIn(tt, req, tk), WorkingIn(tt, req, tk), ak2, n2)
  <2>1. \A m \in InHistory(h) : m \in Ids /\ m < n
    BY <1>8, HistoryFields DEF Suits
  <2>2. \A m \in InHistory(h) : m \notin new
    BY <1>1, <2>1
  <2> QED
    BY <1>4, <1>8, <2>1, <2>2, SuitsLess
<1>9. Suits(s, LiveIn(tt, req, tk), WorkingIn(tt, req, tk), ak2, n2)
  BY <1>8 DEF Good
<1>10. ASSUME NEW i \in 1 .. Len(tt)
       PROVE  Suits(tt[i].history, LiveIn(tt, req, tk), WorkingIn(tt, req, tk), ak2, n2)
  <2>1. tt[i].history # g => i \in 1 .. Len(ss) /\ tt[i] = ss[i]
    BY <1>1 DEF SentOrNot
  <2> QED
    BY <1>2, <1>4, <1>8, <2>1 DEF Good
<1>11. Kept(g, s, tt, LiveIn(tt, req, tk))
  <2> SUFFICES ASSUME NEW a \in LiveIn(ss, req, tk) \union new
               PROVE  /\ a \in InHistory(g)
                      /\ ~SentIn(tt, a) => a \in InHistory(s)
                      /\ \A i \in 1 .. Len(tt) :
                           (\A j \in i + 1 .. Len(tt) : a \notin tt[j].sends) =>
                             a \in InHistory(tt[i].history)
    BY <1>4 DEF Kept
  <2>1. a \in InHistory(g) /\ a \in Ids
    BY DEF LiveIn, WorkingIn
  <2>2. ~SentIn(tt, a) => a \in InHistory(s)
    BY <1>3, <2>1 DEF Good, Kept
  <2>3. ASSUME NEW i \in 1 .. Len(tt), \A j \in i + 1 .. Len(tt) : a \notin tt[j].sends
        PROVE  a \in InHistory(tt[i].history)
    <3>1. CASE tt[i].history = g
      BY <2>1, <3>1
    <3>2. CASE i \in 1 .. Len(ss) /\ tt[i] = ss[i]
      <4>1. \A j \in i + 1 .. Len(ss) : j \in i + 1 .. Len(tt) /\ tt[j] = ss[j]
        BY <1>1, <3>2 DEF SentOrNot
      <4>2. a \in new => Len(tt) \in i + 1 .. Len(tt) /\ a \in tt[Len(tt)].sends
        <5> SUFFICES ASSUME a \in new
                     PROVE  Len(tt) \in i + 1 .. Len(tt) /\ a \in tt[Len(tt)].sends
          OBVIOUS
        <5>1. Len(tt) = Len(ss) + 1 /\ tt[Len(tt)].sends = new
          BY DEF SentOrNot
        <5> QED
          BY <1>1, <3>2, <5>1
      <4> QED
        BY <2>3, <3>2, <4>1, <4>2 DEF Good, Kept
    <3> QED
      BY <1>1, <3>1, <3>2 DEF SentOrNot
  <2> QED
    BY <2>1, <2>2, <2>3
<1>12. \A a \in Ids : tk[a] # "none" => a < n2
  BY <1>1 DEF Good
<1> QED
  BY <1>4, <1>7, <1>9, <1>10, <1>11, <1>12 DEF Good

(* The oldest save arrives, and its POSTs are sent.                        *)
LEMMA ArriveGood ==
  ASSUME NEW p \in Histories, NEW s \in Histories, NEW ss \in Seq(Save), NEW req \in SUBSET Ids,
         NEW tk \in [Ids -> EndedOrNot], NEW ak, NEW n \in Nat, Good(p, s, ss, req, tk, ak, n),
         Len(ss) >= 1, NEW tt \in Seq(Save),
         Len(tt) = Len(ss) - 1, \A k \in 1 .. Len(tt) : tt[k] = ss[k + 1]
  PROVE  Good(p, ss[1].history, tt, req \union ss[1].sends, tk, ak, n)
<1> DEFINE req2 == req \union ss[1].sends
<1>1. Len(ss) \in Nat /\ Len(tt) \in Nat /\ ss[1].sends \subseteq Ids
  BY SaveType
<1>a. \A k \in 1 .. Len(tt) : k + 1 \in 1 .. Len(ss) /\ k + 1 # 1 /\ tt[k] = ss[k + 1]
  BY <1>1
<1>b. ASSUME NEW k \in 1 .. Len(ss), k # 1
      PROVE  k - 1 \in 1 .. Len(tt) /\ tt[k - 1] = ss[k]
  <2>1. k - 1 \in 1 .. Len(tt) /\ (k - 1) + 1 = k
    BY <1>1, <1>b
  <2> QED
    BY <2>1
<1>2. /\ \A k \in 1 .. Len(tt) : k + 1 \in 1 .. Len(ss) /\ k + 1 # 1 /\ tt[k] = ss[k + 1]
      /\ \A k \in 1 .. Len(ss) : k # 1 => k - 1 \in 1 .. Len(tt) /\ tt[k - 1] = ss[k]
      /\ 1 \in 1 .. Len(ss)
  BY <1>1, <1>a, <1>b
<1>3. \A a \in Ids : SentIn(ss, a) <=> SentIn(tt, a) \/ a \in ss[1].sends
  BY <1>2 DEF SentIn
<1>4. /\ LiveIn(tt, req2, tk) = LiveIn(ss, req, tk)
      /\ WorkingIn(tt, req2, tk) = WorkingIn(ss, req, tk)
  BY <1>3 DEF LiveIn, WorkingIn
<1>5. Once(tt, req2, tk)
  <2> SUFFICES ASSUME NEW i \in 1 .. Len(tt), NEW a \in tt[i].sends
               PROVE  /\ a \notin req2 /\ tk[a] = "none"
                      /\ \A j \in 1 .. Len(tt) : j # i => a \notin tt[j].sends
    BY DEF Once
  <2>1. i + 1 \in 1 .. Len(ss) /\ a \in ss[i + 1].sends /\ i + 1 # 1
    BY <1>2
  <2>2. /\ a \notin req /\ tk[a] = "none"
        /\ \A j \in 1 .. Len(ss) : j # i + 1 => a \notin ss[j].sends
    BY <2>1 DEF Good, Once
  <2>3. \A j \in 1 .. Len(tt) : j # i => j + 1 # i + 1
    BY <1>1
  <2> QED
    BY <1>2, <2>1, <2>2, <2>3
<1>6. Kept(p, ss[1].history, tt, LiveIn(tt, req2, tk))
  <2> SUFFICES ASSUME NEW a \in LiveIn(ss, req, tk)
               PROVE  /\ a \in InHistory(p)
                      /\ ~SentIn(tt, a) => a \in InHistory(ss[1].history)
                      /\ \A i \in 1 .. Len(tt) :
                           (\A j \in i + 1 .. Len(tt) : a \notin tt[j].sends) =>
                             a \in InHistory(tt[i].history)
    BY <1>4 DEF Kept
  <2>1. /\ a \in InHistory(p)
        /\ \A i \in 1 .. Len(ss) : (\A j \in i + 1 .. Len(ss) : a \notin ss[j].sends) =>
                                     a \in InHistory(ss[i].history)
    BY DEF Good, Kept
  <2>2. ASSUME ~SentIn(tt, a)
        PROVE  a \in InHistory(ss[1].history)
    <3>1. \A j \in 2 .. Len(ss) : j - 1 \in 1 .. Len(tt) /\ tt[j - 1] = ss[j]
      BY <1>1, <1>2
    <3>2. \A j \in 1 + 1 .. Len(ss) : a \notin ss[j].sends
      BY <2>2, <3>1 DEF SentIn
    <3> QED
      BY <1>2, <2>1, <3>2
  <2>3. ASSUME NEW i \in 1 .. Len(tt), \A j \in i + 1 .. Len(tt) : a \notin tt[j].sends
        PROVE  a \in InHistory(tt[i].history)
    <3>1. \A j \in (i + 1) + 1 .. Len(ss) : j - 1 \in i + 1 .. Len(tt) /\ tt[j - 1] = ss[j]
      BY <1>1, <1>2
    <3>2. \A j \in (i + 1) + 1 .. Len(ss) : a \notin ss[j].sends
      BY <2>3, <3>1
    <3> QED
      BY <1>2, <2>1, <3>2
  <2> QED
    BY <2>1, <2>2, <2>3
<1> HIDE DEF req2
<1>7. Good(p, ss[1].history, tt, req2, tk, ak, n)
  BY <1>2, <1>4, <1>5, <1>6 DEF Good
<1> QED
  BY <1>7 DEF req2

(* Fewer answers are still to be written, and the histories are the same.  *)
LEMMA LessGood ==
  ASSUME NEW p \in Histories, NEW s \in Histories, NEW ss \in Seq(Save), NEW req \in SUBSET Ids,
         NEW tk \in [Ids -> EndedOrNot], NEW ak, NEW n \in Nat, Good(p, s, ss, req, tk, ak, n),
         NEW p2 \in Histories, NEW s2 \in Histories,
         NEW req2 \in SUBSET Ids, NEW tk2 \in [Ids -> EndedOrNot],
         SameTree(p2, p), p2.currentId \in InHistory(p),
         p.messages[p2.currentId].role = "assistant",
         SameTree(s2, s), s2.currentId \in InHistory(s),
         s.messages[s2.currentId].role = "assistant",
         Once(ss, req2, tk2), \A a \in Ids : tk2[a] # "none" => a < n,
         LiveIn(ss, req2, tk2) \subseteq LiveIn(ss, req, tk),
         WorkingIn(ss, req2, tk2) \subseteq WorkingIn(ss, req, tk)
  PROVE  Good(p2, s2, ss, req2, tk2, ak, n)
<1>2. /\ Suits(p2, LiveIn(ss, req, tk), WorkingIn(ss, req, tk), ak, n)
      /\ Suits(s2, LiveIn(ss, req, tk), WorkingIn(ss, req, tk), ak, n)
  BY SuitsSame DEF Good
<1>3. ASSUME NEW h \in Histories, Suits(h, LiveIn(ss, req, tk), WorkingIn(ss, req, tk), ak, n)
      PROVE  Suits(h, LiveIn(ss, req2, tk2), WorkingIn(ss, req2, tk2), ak, n)
  BY <1>3, SuitsLess
<1>4. \A i \in 1 .. Len(ss) : ss[i].history \in Histories
  BY SaveType
<1>5. Kept(p2, s2, ss, LiveIn(ss, req2, tk2))
  BY DEF Good, Kept, SameTree
<1> QED
  BY <1>2, <1>3, <1>4, <1>5 DEF Good

(* The page is closed: nothing is sent any more, and only tasks that have  *)
(* saved their answer go on.                                               *)
LEMMA ReloadGood ==
  ASSUME NEW p \in Histories, NEW s \in Histories, NEW ss \in Seq(Save), NEW req \in SUBSET Ids,
         NEW tk \in [Ids -> EndedOrNot], NEW ak, NEW n \in Nat, Good(p, s, ss, req, tk, ak, n),
         NEW g \in Histories, SameTree(g, s), g.currentId = s.currentId,
         \A a \in Ids : tk[a] \notin {"started", "running"},
         NEW tt \in Seq(Save),
         \/ tt = <<>>
         \/ /\ Len(tt) = Len(ss)
            /\ \A i \in 1 .. Len(tt) : tt[i].history = ss[i].history /\ tt[i].sends = {}
  PROVE  Good(g, s, tt, {}, tk, ak, n)
<1>1. \A i \in 1 .. Len(tt) :
        i \in 1 .. Len(ss) /\ tt[i].history = ss[i].history /\ tt[i].sends = {}
  OBVIOUS
<1>2. \A a \in Ids : ~SentIn(tt, a)
  BY <1>1 DEF SentIn
<1>3. WorkingIn(tt, {}, tk) = {} /\ LiveIn(tt, {}, tk) = {a \in Ids : tk[a] = "background"}
  BY <1>2 DEF WorkingIn, LiveIn
<1>4. /\ LiveIn(tt, {}, tk) \subseteq LiveIn(ss, req, tk)
      /\ WorkingIn(tt, {}, tk) \subseteq WorkingIn(ss, req, tk)
  BY <1>3 DEF LiveIn
<1>5. Suits(g, LiveIn(ss, req, tk), WorkingIn(ss, req, tk), ak, n)
  <2>1. /\ Suits(s, LiveIn(ss, req, tk), WorkingIn(ss, req, tk), ak, n)
        /\ s.currentId \in InHistory(s) /\ s.messages[s.currentId].role = "assistant"
    BY DEF Good, Suits, Tree, Answered
  <2> QED
    BY <2>1, SuitsSame
<1>6. ASSUME NEW h \in Histories, Suits(h, LiveIn(ss, req, tk), WorkingIn(ss, req, tk), ak, n)
      PROVE  Suits(h, LiveIn(tt, {}, tk), WorkingIn(tt, {}, tk), ak, n)
  BY <1>4, <1>6, SuitsLess
<1>7. \A i \in 1 .. Len(ss) : ss[i].history \in Histories
  BY SaveType
<1>8. Kept(g, s, tt, LiveIn(tt, {}, tk))
  <2> SUFFICES ASSUME NEW a \in Ids, tk[a] = "background"
               PROVE  /\ a \in InHistory(g) /\ a \in InHistory(s)
                      /\ \A i \in 1 .. Len(tt) : a \in InHistory(tt[i].history)
    BY <1>3 DEF Kept
  <2>1. \A i \in 1 .. Len(ss) : a \notin ss[i].sends
    BY DEF Good, Once
  <2>2. a \in LiveIn(ss, req, tk) /\ ~SentIn(ss, a)
    BY <2>1 DEF LiveIn, SentIn
  <2>3. a \in InHistory(s) /\ \A i \in 1 .. Len(ss) : a \in InHistory(ss[i].history)
    BY <2>1, <2>2 DEF Good, Kept
  <2> QED
    BY <1>1, <2>3 DEF SameTree
<1>9. Once(tt, {}, tk)
  BY <1>1 DEF Once
<1>10. \A i \in 1 .. Len(tt) : Suits(tt[i].history, LiveIn(tt, {}, tk), WorkingIn(tt, {}, tk), ak, n)
  BY <1>1, <1>6, <1>7 DEF Good
<1> QED
  BY <1>5, <1>6, <1>8, <1>9, <1>10 DEF Good

(* A task is created for an answer whose POST was sent, or none is.        *)
LEMMA RequestGood ==
  ASSUME NEW p \in Histories, NEW s \in Histories, NEW ss \in Seq(Save), NEW req \in SUBSET Ids,
         NEW tk \in [Ids -> EndedOrNot], NEW ak, NEW n \in Nat, Good(p, s, ss, req, tk, ak, n),
         NEW a \in req, NEW tk2 \in [Ids -> EndedOrNot], tk2[a] \in {tk[a], "started"},
         \A x \in Ids : x # a => tk2[x] = tk[x]
  PROVE  Good(p, s, ss, req \ {a}, tk2, ak, n)
<1>2. \A x \in Ids : x # a => tk2[x] = tk[x]
  OBVIOUS
<1>3. tk2[a] = tk[a] \/ tk2[a] = "started"
  OBVIOUS
<1>4. /\ WorkingIn(ss, req \ {a}, tk2) \subseteq WorkingIn(ss, req, tk)
      /\ LiveIn(ss, req \ {a}, tk2) \subseteq LiveIn(ss, req, tk)
  BY <1>2, <1>3 DEF WorkingIn, LiveIn
<1>5. Once(ss, req \ {a}, tk2)
  <2>1. \A i \in 1 .. Len(ss) : a \notin ss[i].sends /\ ss[i].sends \subseteq Ids
    BY SaveType DEF Good, Once
  <2> QED
    BY <1>2, <2>1 DEF Good, Once
<1>6. \A x \in Ids : tk2[x] # "none" => x < n
  <2>1. a < n
    BY DEF Good, Kept, Suits, LiveIn, WorkingIn
  <2> QED
    BY <1>2, <2>1 DEF Good
<1>7. \A h \in {p, s} : SameTree(h, h)
  BY DEF SameTree
<1>8. \A h \in {p, s} : h.currentId \in InHistory(h) /\ h.messages[h.currentId].role = "assistant"
  BY DEF Good, Suits, Tree, Answered
<1> QED
  BY <1>4, <1>5, <1>6, <1>7, <1>8, LessGood

(* The row of an answer whose task is at work has the answer.              *)
LEMMA RowHasAnswer ==
  ASSUME NEW p, NEW s, NEW ss, NEW req, NEW tk, NEW ak, NEW n, Good(p, s, ss, req, tk, ak, n),
         NEW a \in Ids, tk[a] \in {"started", "running", "background"}
  PROVE  /\ a \in InHistory(s) /\ s.messages[a].role = "assistant"
         /\ tk[a] \in {"started", "running"} => s.messages[a].parent = ak[a]
<1>1. ~SentIn(ss, a)
  BY DEF Good, Once, SentIn
<1>2. a \in LiveIn(ss, req, tk) /\ (tk[a] \in {"started", "running"} => a \in WorkingIn(ss, req, tk))
  BY DEF LiveIn, WorkingIn
<1> QED
  BY <1>1, <1>2 DEF Good, Kept, Suits

LEMMA AnsweringGood ==
  ASSUME NEW p \in Histories, NEW s \in Histories, NEW ss \in Seq(Save), NEW req \in SUBSET Ids,
         NEW tk \in [Ids -> EndedOrNot], NEW ak, NEW n \in Nat, Good(p, s, ss, req, tk, ak, n),
         NEW a \in Ids, tk[a] \in {"started", "running", "background"},
         NEW to \in EndedOrNot, to # "none",
         to \in {"started", "running"} => tk[a] \in {"started", "running"},
         NEW s2 \in Histories, SameTree(s2, s), s2.currentId \in {s.currentId, a}
  PROVE  Good(p, s2, ss, req, [tk EXCEPT ![a] = to], ak, n)
<1> DEFINE tk2 == [tk EXCEPT ![a] = to]
<1>1. tk2 \in [Ids -> EndedOrNot] /\ tk2[a] = to /\ \A x \in Ids : x # a => tk2[x] = tk[x]
  OBVIOUS
<1> HIDE DEF tk2
<1>2. /\ WorkingIn(ss, req, tk2) \subseteq WorkingIn(ss, req, tk)
      /\ LiveIn(ss, req, tk2) \subseteq LiveIn(ss, req, tk)
  BY <1>1 DEF WorkingIn, LiveIn
<1>3. Once(ss, req, tk2)
  <2>1. \A i \in 1 .. Len(ss) : a \notin ss[i].sends /\ ss[i].sends \subseteq Ids
    BY SaveType DEF Good, Once
  <2> QED
    BY <1>1, <2>1 DEF Good, Once
<1>4. \A x \in Ids : tk2[x] # "none" => x < n
  BY <1>1 DEF Good
<1>5. p.currentId \in InHistory(p) /\ p.messages[p.currentId].role = "assistant"
  BY DEF Good, Suits, Tree, Answered
<1>6. s2.currentId \in InHistory(s) /\ s.messages[s2.currentId].role = "assistant"
  <2>1. s.currentId \in InHistory(s) /\ s.messages[s.currentId].role = "assistant"
    BY DEF Good, Suits, Tree, Answered
  <2>2. a \in InHistory(s) /\ s.messages[a].role = "assistant"
    BY RowHasAnswer
  <2> QED
    BY <2>1, <2>2
<1>7. SameTree(p, p)
  BY DEF SameTree
<1>8. Good(p, s2, ss, req, tk2, ak, n)
  BY <1>1, <1>2, <1>3, <1>4, <1>5, <1>6, <1>7, LessGood
<1> QED
  BY <1>8 DEF tk2

(* Every prompt but u has an answer.                                       *)
AnsweredBut(h, u) ==
  \A m \in InHistory(h) : h.messages[m].role = "user" /\ m # u => h.messages[m].children # {}

(* Answers to prompt u, the only prompt that may have none.                *)
AnswersAdded(g, h, u, new, last) ==
  /\ Shape(h) /\ u \in InHistory(h) /\ h.messages[u].role = "user" /\ AnsweredBut(h, u)
  /\ new \subseteq Ids /\ last \in new /\ \A a \in new : u < a
  /\ IsAttached(g, h, new, Answer(u), last)

LEMMA AnsweredTree ==
  ASSUME NEW h \in Histories, NEW u, NEW new, NEW last, NEW g \in Histories,
         AnswersAdded(g, h, u, new, last)
  PROVE  /\ Tree(g) /\ g.messages[g.currentId].children = {}
         /\ \A a \in new : g.messages[a].role = "assistant" /\ g.messages[a].parent = u
<1> USE DEF AnswersAdded
<1>1. /\ Answer(u).children = {} /\ Answer(u).role = "assistant" /\ Answer(u).parent = u
      /\ Answer(u) \in Message /\ u \in Ids /\ u # None
  BY NewMessages, HistoryFields DEF Answer, Ids, None
<1>2. Shape(g)
  BY <1>1, AttachedShape
<1>3. \A a \in new : /\ g.messages[a].role = "assistant" /\ g.messages[a].parent = u
                     /\ g.messages[a].children = {}
  BY <1>1 DEF IsAttached
<1>4. g.currentId = last /\ last \in InHistory(g)
  BY DEF IsAttached
<1>5. ASSUME NEW m \in InHistory(g), g.messages[m].role = "user"
      PROVE  g.messages[m].children # {}
  <2>1. m \in InHistory(h) /\ h.messages[m].role = "user"
    BY <1>3, <1>5 DEF IsAttached
  <2>2. CASE m = u
    BY <1>1, <2>1, <2>2 DEF IsAttached
  <2>3. CASE m # u
    BY <1>1, <2>1, <2>3 DEF IsAttached, AnsweredBut
  <2> QED
    BY <2>2, <2>3
<1> QED
  BY <1>2, <1>3, <1>4, <1>5 DEF Tree, Answered

-----------------------------------------------------------------------------
(* The steps. *)

GoodNow == Good(page, stored, saves, requests, task, asked, nextId)
Leaf == "reloaded" \notin seen => page.messages[page.currentId].children = {}

IInv == Types /\ (Intact => GoodNow /\ Leaf)

LEMMA StepSame ==
  ASSUME seen \subseteq seen', Intact'
  PROVE  Intact /\ ("reloaded" \notin seen' => "reloaded" \notin seen)
  BY DEF Intact

LEMMA PageIsGood ==
  ASSUME Types, GoodNow
  PROVE  /\ Tree(page)
         /\ \A m \in InHistory(page) :
              /\ m \in Ids /\ m < nextId
              /\ m \in LiveIds => page.messages[m].role = "assistant"
              /\ m \in WorkingIds => page.messages[m].parent = asked[m]
         /\ LiveIds \subseteq InHistory(page) /\ WorkingIds \subseteq LiveIds
         /\ Suits(page, LiveIds, WorkingIds, asked, nextId)
<1>1. Suits(page, LiveIds, WorkingIds, asked, nextId) /\ Kept(page, stored, saves, LiveIds)
  BY LiveIsLive DEF GoodNow, Good
<1>2. WorkingIds \subseteq LiveIds
  BY DEF WorkingIds, LiveIds, Live
<1>3. InHistory(page) \subseteq Ids
  BY HistoryFields DEF Types
<1> QED
  BY <1>1, <1>2, <1>3 DEF Suits, Kept

(* The answers to prompt u can be added to h, from number first on.        *)
Ready(h, u, first) ==
  /\ Shape(h) /\ h.messages[u].role = "user" /\ AnsweredBut(h, u)
  /\ \A m \in InHistory(h) :
       /\ m < first
       /\ m \in LiveIds => h.messages[m].role = "assistant"
       /\ m \in WorkingIds => h.messages[m].parent = asked[m]
  /\ LiveIds \subseteq InHistory(h) /\ nextId <= first

LEMMA SendGood ==
  ASSUME Types, Types', GoodNow, NEW h \in Histories, NEW u \in InHistory(h),
         NEW first \in Ids, NEW n \in 1 .. MaxAnswers, SendMessage(h, u, first, n),
         Ready(h, u, first)
  PROVE  GoodNow' /\ Leaf'
<1> DEFINE new == first .. first + n - 1
           last == first + n - 1
<1>1. /\ new \in SUBSET Ids /\ last \in new /\ \A a \in new : first <= a /\ a < first + n
      /\ first + n \in Nat /\ nextId <= first + n /\ nextId \in Nat /\ first < first + n
  BY BoundAssumption DEF SendMessage, Ids, Types, Ready
<1>2. page' = Attached(h, new, Answer(u), last) /\ saves' = Append(saves, [history |-> page', sends |-> new])
  BY DEF SendMessage, Saved
<1>3. asked' = [a \in Ids |-> IF a \in new THEN u ELSE asked[a]] /\ nextId' = first + n
  BY DEF SendMessage
<1>4. UNCHANGED <<requests, stored, task>>
  BY DEF SendMessage, server
<1> HIDE DEF new, last
<1>5. /\ \A m \in InHistory(h) : m \in Ids /\ m \in Nat
      /\ \A a \in new : a \in Nat
      /\ u \in Nat /\ u < first /\ first \in Nat /\ Answer(u) \in Message
  BY <1>1, HistoryFields, NewMessages DEF Ids, Ready
<1>c. \A m \in InHistory(h) : m < first
  BY DEF Ready
<1>a. \A a \in new : u < a
  BY <1>1, <1>5
<1>b. \A m \in InHistory(h) : m \notin new
  BY <1>1, <1>5, <1>c
<1>6. new \intersect InHistory(h) = {} /\ \A a \in new : u < a
  BY <1>a, <1>b
<1>7. IsAttached(page', h, new, Answer(u), last)
  BY <1>1, <1>2, <1>5, <1>6, AttachedFields
<1>8. page' \in Histories /\ page \in Histories /\ stored \in Histories /\ requests \in SUBSET Ids
  BY DEF Types
<1>9. /\ Tree(page') /\ page'.messages[page'.currentId].children = {}
      /\ \A a \in new : page'.messages[a].role = "assistant" /\ page'.messages[a].parent = u
  <2>1. PICK g \in Histories : g = page'
    BY <1>8
  <2>2. IsAttached(g, h, new, Answer(u), last)
    BY <1>7, <2>1
  <2>3. /\ Tree(g) /\ g.messages[g.currentId].children = {}
        /\ \A a \in new : g.messages[a].role = "assistant" /\ g.messages[a].parent = u
    <3>1. /\ Shape(h) /\ h.messages[u].role = "user" /\ AnsweredBut(h, u)
          /\ new \in SUBSET Ids /\ last \in new
      BY <1>1 DEF Ready
    <3>2. AnswersAdded(g, h, u, new, last)
      BY <1>a, <2>2, <3>1 DEF AnswersAdded
    <3> QED
      BY <2>2, <3>2, AnsweredTree
  <2> QED
    BY <2>1, <2>3
<1>10. SentOrNot(saves', saves, page', new)
  BY <1>1, <1>2, <1>8, SavedType DEF Types, SentOrNot
<1>11. /\ LiveIds = LiveIn(saves, requests, task)
       /\ WorkingIds = WorkingIn(saves, requests, task)
  BY LiveIsLive
<1>12. InHistory(page') = InHistory(h) \union new
  BY <1>7 DEF IsAttached
<1>13. Suits(page', LiveIds \union new, WorkingIds \union new, asked', nextId')
  <2> SUFFICES ASSUME NEW m \in InHistory(page')
               PROVE  /\ m < nextId'
                      /\ m \in LiveIds \union new => page'.messages[m].role = "assistant"
                      /\ m \in WorkingIds \union new => page'.messages[m].parent = asked'[m]
    BY <1>9 DEF Suits
  <2>1. CASE m \in new
    BY <1>1, <1>3, <1>9, <2>1
  <2>2. CASE m \in InHistory(h) /\ m \notin new
    <3>1. /\ page'.messages[m].role = h.messages[m].role
          /\ page'.messages[m].parent = h.messages[m].parent
          /\ asked'[m] = asked[m]
      BY <1>3, <1>5, <1>7, <2>2 DEF IsAttached
    <3>2. m < first + n
      BY <1>1, <1>5, <2>2 DEF Ready
    <3> QED
      BY <1>3, <2>2, <3>1, <3>2 DEF Ready
  <2> QED
    BY <1>12, <2>1, <2>2
<1>14. Good(page', stored, saves', requests, task, asked', nextId')
  <2>1. \A a \in new : nextId <= a
    BY <1>1, <1>5 DEF Ready, Types, Ids
  <2>2. \A a \in Ids \ new : asked'[a] = asked[a]
    BY <1>3
  <2>3. LiveIds \union new \subseteq InHistory(page')
    BY <1>12 DEF Ready
  <2>4. nextId' \in Nat /\ nextId <= nextId'
    BY <1>1, <1>3
  <2>5. saves \in Seq(Save) /\ saves' \in Seq(Save) /\ task \in [Ids -> EndedOrNot]
    BY DEF Types
  <2>6. PICK g, tt, ak2, n2 : g = page' /\ tt = saves' /\ ak2 = asked' /\ n2 = nextId'
    OBVIOUS
  <2>7. Good(g, stored, tt, requests, task, ak2, n2)
    BY <1>1, <1>8, <1>10, <1>11, <1>13, <2>1, <2>2, <2>3, <2>4, <2>5, <2>6, NewPageGood DEF GoodNow
  <2> QED
    BY <2>6, <2>7
<1> QED
  BY <1>4, <1>9, <1>14 DEF GoodNow, Leaf

LEMMA NewPromptGood ==
  ASSUME Types, Types', GoodNow, NEW p \in InHistory(page) \union {None},
         p # None => page.messages[p].role = "assistant",
         NEW n \in 1 .. MaxAnswers, NewPrompt(p, n)
  PROVE  GoodNow' /\ Leaf'
<1> DEFINE h == Attached(page, {nextId}, Prompt(p), nextId)
<1>1. nextId \in Ids /\ nextId + 1 \in Ids /\ SendMessage(h, nextId, nextId + 1, n)
  BY BoundAssumption DEF NewPrompt, SendMessage, Types, Ids
<1>2. /\ Tree(page) /\ LiveIds \subseteq InHistory(page) /\ WorkingIds \subseteq LiveIds
      /\ \A m \in InHistory(page) :
           /\ m \in Ids /\ m \in Nat /\ m < nextId
           /\ m \in LiveIds => page.messages[m].role = "assistant"
           /\ m \in WorkingIds => page.messages[m].parent = asked[m]
  BY PageIsGood DEF Ids
<1>3. nextId \in Nat /\ None \notin InHistory(page) /\ nextId \notin InHistory(page) /\ page \in Histories
  BY <1>2 DEF Types, Ids, None
<1>4. /\ p \in Ids \union {None} /\ Prompt(p) \in Message
      /\ Prompt(p).role = "user" /\ Prompt(p).parent = p /\ Prompt(p).children = {}
  BY <1>2, NewMessages DEF Prompt
<1>5. h \in Histories /\ IsAttached(h, page, {nextId}, Prompt(p), nextId)
  BY <1>1, <1>3, <1>4, AttachedType, AttachedFields
<1> HIDE DEF h
<1>6. /\ InHistory(h) = InHistory(page) \union {nextId} /\ h.messages[nextId] = Prompt(p)
      /\ \A m \in InHistory(page) :
           /\ h.messages[m].role = page.messages[m].role
           /\ h.messages[m].parent = page.messages[m].parent
           /\ m = p => h.messages[m].children = page.messages[m].children \union {nextId}
           /\ m # p => h.messages[m].children = page.messages[m].children
  BY <1>4, <1>5 DEF IsAttached
<1>7. Shape(h)
  <2>1. /\ Shape(page) /\ Prompt(p).role # "none" /\ {nextId} \in SUBSET Ids
        /\ p # None => p \in InHistory(page) /\ page.messages[p].role # Prompt(p).role /\ p < nextId
    BY <1>1, <1>2, <1>4 DEF Tree
  <2> QED
    BY <1>3, <1>4, <1>5, <2>1, AttachedShape
<1>8. AnsweredBut(h, nextId)
  <2> SUFFICES ASSUME NEW m \in InHistory(h), h.messages[m].role = "user", m # nextId
               PROVE  h.messages[m].children # {}
    BY DEF AnsweredBut
  <2>1. m \in InHistory(page) /\ page.messages[m].role = "user"
    BY <1>6
  <2>2. page.messages[m].children # {}
    BY <1>2, <2>1 DEF Tree, Answered
  <2> QED
    BY <1>6, <2>1, <2>2
<1>9. Ready(h, nextId, nextId + 1)
  <2>1. h.messages[nextId].role = "user" /\ LiveIds \subseteq InHistory(h) /\ nextId <= nextId + 1
    BY <1>2, <1>3, <1>4, <1>6
  <2>2. ASSUME NEW m \in InHistory(h)
        PROVE  /\ m < nextId + 1
               /\ m \in LiveIds => h.messages[m].role = "assistant"
               /\ m \in WorkingIds => h.messages[m].parent = asked[m]
    <3>1. CASE m \in InHistory(page)
      BY <1>2, <1>3, <1>6, <3>1
    <3>2. CASE m = nextId
      BY <1>2, <1>3, <3>2
    <3> QED
      BY <1>6, <3>1, <3>2
  <2> QED
    BY <1>7, <1>8, <2>1, <2>2 DEF Ready
<1>10. nextId \in InHistory(h)
  BY <1>6
<1> QED
  BY <1>1, <1>5, <1>9, <1>10, SendGood

LEMMA RegenerateGood ==
  ASSUME Types, Types', GoodNow, NEW m \in InHistory(page), NEW n \in 1 .. MaxAnswers,
         Regenerate(m, n)
  PROVE  GoodNow' /\ Leaf'
<1> DEFINE u == page.messages[m].parent
<1>1. /\ page.messages[m].role = "assistant" /\ u \in InHistory(page)
      /\ SendMessage(page, u, nextId, n) /\ page \in Histories
  BY DEF Regenerate, Types
<1>2. nextId \in Ids
  BY <1>1, BoundAssumption DEF SendMessage, Types, Ids
<1>3. /\ Tree(page) /\ LiveIds \subseteq InHistory(page)
      /\ \A x \in InHistory(page) :
           /\ x < nextId
           /\ x \in LiveIds => page.messages[x].role = "assistant"
           /\ x \in WorkingIds => page.messages[x].parent = asked[x]
  BY PageIsGood
<1>4. u \in Ids
  BY <1>1, HistoryFields
<1>5. page.messages[u].role = "user"
  BY <1>1, <1>3, <1>4, PageTypes DEF Tree, Shape, Message, Ids, None
<1>6. Ready(page, u, nextId)
  BY <1>2, <1>3, <1>5 DEF Ready, AnsweredBut, Tree, Answered, Ids
<1> QED
  BY <1>1, <1>2, <1>6, SendGood

(* The page's history is replaced by g, which may be sent.                 *)
LEMMA ChangeGood ==
  ASSUME Types, Types', GoodNow, NEW g \in Histories, page' = g, SentOrNot(saves', saves, g, {}),
         UNCHANGED <<requests, stored, task, asked>>, nextId <= nextId',
         Suits(g, LiveIds, WorkingIds, asked, nextId'), LiveIds \subseteq InHistory(g)
  PROVE  GoodNow'
<1>1. PICK tt, n2 : tt = saves' /\ n2 = nextId'
  OBVIOUS
<1>2. /\ tt \in Seq(Save) /\ n2 \in Nat /\ nextId \in Nat /\ requests \in SUBSET Ids
      /\ page \in Histories /\ stored \in Histories /\ saves \in Seq(Save)
      /\ task \in [Ids -> EndedOrNot]
  BY <1>1 DEF Types
<1>3. Suits(g, LiveIn(saves, requests, task) \union {}, WorkingIn(saves, requests, task) \union {}, asked, n2)
  BY <1>1, LiveIsLive
<1>4. LiveIn(saves, requests, task) \union {} \subseteq InHistory(g)
  BY LiveIsLive
<1>5. SentOrNot(tt, saves, g, {}) /\ nextId <= n2
  BY <1>1
<1>6. Good(g, stored, tt, requests, task, asked, n2)
  BY <1>2, <1>3, <1>4, <1>5, NewPageGood DEF GoodNow
<1> QED
  BY <1>1, <1>6 DEF GoodNow

LEMMA ChangeSent ==
  ASSUME Types, NEW g \in Histories, PageChanged(g)
  PROVE  /\ page' = g /\ SentOrNot(saves', saves, g, {})
         /\ UNCHANGED <<requests, stored, task, asked>>
<1>1. page' = g /\ UNCHANGED <<requests, stored, task, asked>>
  BY ChangedFields DEF server
<1>2. Len(saves) \in Nat
  BY DEF Types
<1>3. /\ \A i \in 1 .. Len(saves) : saves'[i] = saves[i]
      /\ Len(saves') = Len(saves) + 1 \/ Len(saves') = Len(saves) + 2
      /\ \A i \in Len(saves) + 1 .. Len(saves') : saves'[i].history = g /\ saves'[i].sends = {}
  BY ChangedSaves
<1>4. SentOrNot(saves', saves, g, {})
  BY <1>2, <1>3 DEF SentOrNot
<1> QED
  BY <1>1, <1>4

(* The same tree is shown, perhaps at another leaf.                        *)
LEMMA SameTreeGood ==
  ASSUME Types, Types', GoodNow, SameTree(page', page), page'.currentId \in InHistory(page),
         page.messages[page'.currentId].role = "assistant",
         SentOrNot(saves', saves, page', {}), UNCHANGED <<requests, stored, task, asked, nextId>>
  PROVE  GoodNow'
<1>1. PICK g \in Histories : g = page'
  BY DEF Types
<1>2. page \in Histories /\ Suits(page, LiveIds, WorkingIds, asked, nextId) /\ LiveIds \subseteq InHistory(page)
  BY PageIsGood DEF Types
<1>3. Suits(g, LiveIds, WorkingIds, asked, nextId)
  BY <1>1, <1>2, SuitsSame
<1>4. LiveIds \subseteq InHistory(g)
  BY <1>1, <1>2 DEF SameTree
<1>5. nextId' = nextId /\ nextId <= nextId'
  BY DEF Types
<1> QED
  BY <1>1, <1>3, <1>4, <1>5, ChangeGood

(* An answer is shown last on the page, below which there is none.         *)
LEMMA LeafIsAnswer ==
  ASSUME Types, GoodNow, NEW leaf \in InHistory(page), page.messages[leaf].children = {}
  PROVE  page.messages[leaf].role = "assistant"
<1>1. Tree(page) /\ page.messages[leaf].role \in {"user", "assistant", "none"}
  BY PageIsGood, PageTypes DEF Message
<1> QED
  BY <1>1 DEF Tree, Shape, Answered

LEMMA EditAnswerGood ==
  ASSUME Types, Types', GoodNow, NEW m \in InHistory(page), EditAnswer(m)
  PROVE  GoodNow' /\ Leaf'
<1> DEFINE p == page.messages[m].parent
           msg == [page.messages[m] EXCEPT !.children = {}]
           g == Attached(page, {nextId}, msg, nextId)
<1>1. /\ page.messages[m].role = "assistant" /\ p \in InHistory(page) /\ nextId <= MaxId
      /\ ChangePage(g) /\ nextId' = nextId + 1
  BY DEF EditAnswer
<1>2. /\ Tree(page) /\ LiveIds \subseteq InHistory(page) /\ WorkingIds \subseteq LiveIds
      /\ \A x \in InHistory(page) :
           /\ x \in Ids /\ x \in Nat /\ x < nextId
           /\ x \in LiveIds => page.messages[x].role = "assistant"
           /\ x \in WorkingIds => page.messages[x].parent = asked[x]
  BY PageIsGood DEF Ids
<1>3. /\ nextId \in Ids /\ nextId \in Nat /\ nextId \notin InHistory(page) /\ page \in Histories
      /\ {nextId} \in SUBSET Ids /\ nextId <= nextId'
  BY SMTT(30), <1>1, <1>2, BoundAssumption DEF Types, Ids
<1>4. /\ msg \in Message /\ msg.role = "assistant" /\ msg.parent = p /\ msg.children = {}
  BY <1>1, PageTypes DEF Message
<1>5. g \in Histories /\ IsAttached(g, page, {nextId}, msg, nextId)
  <2> HIDE DEF msg
  <2> QED
    BY <1>3, <1>4, AttachedType, AttachedFields
<1> HIDE DEF g, msg
<1>6. /\ InHistory(g) = InHistory(page) \union {nextId} /\ g.messages[nextId] = msg
      /\ g.currentId = nextId
      /\ \A x \in InHistory(page) :
           /\ g.messages[x].role = page.messages[x].role
           /\ g.messages[x].parent = page.messages[x].parent
           /\ x = p => g.messages[x].children = page.messages[x].children \union {nextId}
           /\ x # p => g.messages[x].children = page.messages[x].children
  BY <1>4, <1>5 DEF IsAttached
<1>7. Shape(g)
  <2>1. Shape(page) /\ page.messages[p].role = "user" /\ p < nextId /\ p # None
    BY <1>1, <1>2, PageTypes DEF Tree, Shape, Message, Ids, None
  <2> QED
    BY <1>1, <1>3, <1>4, <1>5, <2>1, AttachedShape
<1>8. Answered(g)
  <2>1. \A x \in InHistory(page) : page.messages[x].role = "user" => page.messages[x].children # {}
    BY <1>2 DEF Tree, Answered
  <2> QED
    BY <1>4, <1>6, <2>1 DEF Answered
<1>9. Suits(g, LiveIds, WorkingIds, asked, nextId')
  <2> SUFFICES ASSUME NEW x \in InHistory(g)
               PROVE  /\ x < nextId'
                      /\ x \in LiveIds => g.messages[x].role = "assistant"
                      /\ x \in WorkingIds => g.messages[x].parent = asked[x]
    BY <1>7, <1>8 DEF Suits, Tree
  <2>1. CASE x \in InHistory(page)
    BY <1>1, <1>2, <1>3, <1>6, <2>1
  <2>2. CASE x = nextId
    BY <1>1, <1>2, <1>3, <2>2
  <2> QED
    BY <1>6, <2>1, <2>2
<1>10. LiveIds \subseteq InHistory(g) /\ g.messages[g.currentId].children = {}
  BY <1>2, <1>4, <1>6
<1>11. page' = g
  BY <1>1, <1>5, ChangeSent DEF PageChanged
<1> QED
  BY <1>1, <1>3, <1>5, <1>9, <1>10, <1>11, ChangeGood, ChangeSent DEF Leaf, PageChanged

LEMMA DeleteGood ==
  ASSUME Types, Types', GoodNow, Intact', NEW m \in InHistory(page), DeleteMessage(m)
  PROVE  GoodNow' /\ Leaf'
<1> DEFINE p == page.messages[m].parent
<1>1. PICK leaf \in Ids :
        /\ PageChanged(Removed(page, m, leaf)) /\ Removed(page, m, leaf) \in Histories
        /\ leaf \in InHistory(Removed(page, m, leaf))
        /\ Removed(page, m, leaf).messages[leaf].children = {}
  BY DeleteLeaf
<1>2. PICK g \in Histories : g = Removed(page, m, leaf)
  BY <1>1
<1>3. page \in Histories /\ IsRemoved(g, page, m, leaf)
  BY <1>2, PageTypes, RemovedFields DEF Types
<1>4. /\ Tree(page) /\ LiveIds \subseteq InHistory(page) /\ WorkingIds \subseteq LiveIds
      /\ \A x \in InHistory(page) :
           /\ x < nextId
           /\ x \in LiveIds => page.messages[x].role = "assistant"
           /\ x \in WorkingIds => page.messages[x].parent = asked[x]
  BY PageIsGood
<1>5. (Gone(page, m) \union Grandchildren(page, m)) \intersect LiveIds = {} /\ nextId' = nextId
  BY DEF DeleteMessage, Intact
<1>6. /\ InHistory(g) = InHistory(page) \ Gone(page, m) /\ g.currentId = leaf
      /\ \A x \in InHistory(g) :
           /\ g.messages[x].role = page.messages[x].role
           /\ x \notin Grandchildren(page, m) => g.messages[x].parent = page.messages[x].parent
           /\ x = p => g.messages[x].children =
                         (page.messages[x].children \ {m}) \union Grandchildren(page, m)
           /\ x # p => g.messages[x].children = page.messages[x].children
  BY <1>3 DEF IsRemoved
<1>7. Shape(g)
  BY <1>3, <1>4, RemovedShape DEF Tree
<1>8. ASSUME NEW x \in InHistory(g), g.messages[x].role = "user"
      PROVE  g.messages[x].children # {}
  <2>1. x \in InHistory(page) /\ page.messages[x].role = "user" /\ page.messages[x].children # {}
    BY <1>4, <1>6, <1>8 DEF Tree, Answered
  <2>2. CASE x # p
    BY <1>6, <1>8, <2>1, <2>2
  <2>3. CASE x = p
    <3>1. p # None /\ page.messages[m].role # "user"
      BY <1>4, <2>1, <2>3, PageTypes DEF Tree, Shape, Ids, None
    <3>2. Cardinality(Siblings(page, m)) > 1
      BY <3>1 DEF DeleteMessage, CanDelete
    <3>3. Siblings(page, m) = page.messages[p].children \intersect InHistory(page)
      BY <2>1, <2>3, <3>1 DEF Siblings
    <3>4. Siblings(page, m) # {m} /\ Siblings(page, m) # {}
      <4>1. Cardinality({m}) = 1 /\ Cardinality({}) = 0
        BY FS_Singleton, FS_EmptySet
      <4>2. Siblings(page, m) = {m} => Cardinality(Siblings(page, m)) = Cardinality({m})
        OBVIOUS
      <4>3. Siblings(page, m) = {} => Cardinality(Siblings(page, m)) = Cardinality({})
        OBVIOUS
      <4> HIDE DEF p
      <4> QED
        BY <3>2, <4>1, <4>2, <4>3
    <3>5. PICK c \in page.messages[p].children : c # m
      BY <3>3, <3>4
    <3> QED
      BY <1>6, <1>8, <2>3, <3>5
  <2> QED
    BY <2>2, <2>3
<1>9. leaf \in InHistory(g) /\ g.messages[leaf].children = {} /\ g.messages[leaf].role = "assistant"
  <2>1. leaf \in InHistory(g) /\ g.messages[leaf].children = {}
    BY <1>1, <1>2
  <2>2. g.messages[leaf].role # "user" /\ g.messages[leaf].role # "none"
    BY <1>7, <1>8, <2>1 DEF Shape
  <2>3. g.messages[leaf] \in Message
    BY <2>1, HistoryFields
  <2> QED
    BY <2>1, <2>2, <2>3 DEF Message
<1>10. Tree(g)
  BY <1>6, <1>7, <1>8, <1>9 DEF Tree, Answered
<1>11. Suits(g, LiveIds, WorkingIds, asked, nextId')
  <2> SUFFICES ASSUME NEW x \in InHistory(g)
               PROVE  /\ x < nextId'
                      /\ x \in LiveIds => g.messages[x].role = "assistant"
                      /\ x \in WorkingIds => g.messages[x].parent = asked[x]
    BY <1>10 DEF Suits
  <2>1. x \in InHistory(page)
    BY <1>6
  <2>2. x \in LiveIds => x \notin Grandchildren(page, m)
    BY <1>5
  <2> QED
    BY <1>4, <1>5, <1>6, <2>1, <2>2
<1>12. LiveIds \subseteq InHistory(g)
  BY <1>4, <1>5, <1>6
<1>13. PageChanged(g) /\ nextId <= nextId'
  BY <1>1, <1>2, <1>5 DEF Types
<1>14. page' = g /\ SentOrNot(saves', saves, g, {}) /\ UNCHANGED <<requests, stored, task, asked>>
  BY <1>13, ChangeSent
<1>15. GoodNow'
  BY <1>11, <1>12, <1>13, <1>14, ChangeGood
<1> QED
  BY <1>6, <1>9, <1>14, <1>15 DEF Leaf

LEMMA NavigateGood ==
  ASSUME Types, Types', GoodNow, NEW m \in InHistory(page), NEW s \in InHistory(page), Navigate(m, s)
  PROVE  GoodNow' /\ Leaf'
<1>1. PICK leaf \in InHistory(page) :
        /\ page.messages[leaf].children = {}
        /\ LET h == [messages |-> page.messages, currentId |-> leaf]
           IN  \/ ChangePage(h)
               \/ page' = h /\ UNCHANGED <<taskIds, stopAsked, completing, refused, saves, requests,
                                           events, server, asked>>
  BY DEF Navigate, LeavesUnder
<1>2. PICK g : g = [messages |-> page.messages, currentId |-> leaf]
  OBVIOUS
<1>3. g \in Histories /\ g.messages = page.messages /\ g.currentId = leaf
  BY <1>2, PageTypes
<1>4. SameTree(g, page)
  BY <1>3 DEF SameTree, InHistory
<1>5. page' = g /\ SentOrNot(saves', saves, g, {}) /\ UNCHANGED <<requests, stored, task, asked>>
  <2>1. CASE ChangePage(g)
    BY <1>3, <2>1, ChangeSent DEF PageChanged
  <2>2. CASE page' = g /\ UNCHANGED <<taskIds, stopAsked, completing, refused, saves, requests,
                                      events, server, asked>>
    BY <2>2 DEF SentOrNot, server
  <2> QED
    BY <1>1, <1>2, <2>1, <2>2
<1>6. page.messages[leaf].role = "assistant" /\ UNCHANGED nextId
  BY <1>1, LeafIsAnswer DEF Navigate
<1>7. GoodNow'
  BY <1>3, <1>4, <1>5, <1>6, SameTreeGood
<1> QED
  BY <1>1, <1>3, <1>5, <1>7 DEF Leaf

(* Steps that keep the tree of the page and what is shown.                 *)
LEMMA StayGood ==
  ASSUME Types, Types', GoodNow, Leaf, seen \subseteq seen', SameTree(page', page),
         page'.currentId = page.currentId, SentOrNot(saves', saves, page', {}),
         UNCHANGED <<requests, stored, task, asked, nextId>>
  PROVE  GoodNow' /\ Leaf'
<1>1. page.currentId \in InHistory(page) /\ page.messages[page.currentId].role = "assistant"
  BY PageIsGood DEF Tree, Answered
<1>2. GoodNow'
  BY <1>1, SameTreeGood
<1>3. Leaf'
  BY <1>1 DEF Leaf, SameTree
<1> QED
  BY <1>2, <1>3

LEMMA ReloadedGood ==
  ASSUME Types, Types', GoodNow, Intact', Reload
  PROVE  GoodNow' /\ Leaf'
<1>1. PICK g, tt : g = page' /\ tt = saves'
  OBVIOUS
<1>2. g \in Histories /\ SameTree(g, stored) /\ g.currentId = stored.currentId
  BY <1>1, ReloadedPage
<1>3. tt \in Seq(Save)
  BY <1>1 DEF Types
<1>4. \/ tt = <<>>
      \/ /\ Len(tt) = Len(saves)
         /\ \A i \in 1 .. Len(tt) : tt[i].history = saves[i].history /\ tt[i].sends = {}
  <2>1. CASE saves' = <<>>
    BY <1>1, <2>1
  <2>2. CASE saves' = [i \in 1 .. Len(saves) |-> [saves[i] EXCEPT !.sends = {}]]
    BY <1>1, <2>2, UnsentType DEF Types
  <2> QED
    BY <2>1, <2>2 DEF Reload
<1>5. \A a \in Ids : task[a] \notin {"started", "running"}
  BY DEF Reload, Intact
<1>6. Good(g, stored, tt, {}, task, asked, nextId)
  BY ZenonT(60), <1>2, <1>3, <1>4, <1>5, ReloadGood DEF Types, GoodNow
<1>7. /\ UNCHANGED <<stored, task, asked, nextId>> /\ requests' = {}
      /\ "reloaded" \in seen'
  BY DEF Reload, server
<1> QED
  BY <1>1, <1>6, <1>7 DEF GoodNow, Leaf

LEMMA UserGood ==
  ASSUME Types, Types', GoodNow, Leaf, Intact', User
  PROVE  GoodNow' /\ Leaf'
<1>1. ASSUME NEW n \in 1 .. MaxAnswers, SubmitPrompt(n)
      PROVE  GoodNow' /\ Leaf'
  <2>1. page.currentId \in InHistory(page) /\ page.messages[page.currentId].role = "assistant"
    BY PageIsGood DEF Tree, Answered
  <2> QED
    BY <1>1, <2>1, NewPromptGood DEF SubmitPrompt
<1>2. ASSUME NEW n \in 1 .. MaxAnswers, NEW m \in InHistory(page), EditPrompt(m, n)
      PROVE  GoodNow' /\ Leaf'
  <2> DEFINE p == page.messages[m].parent
  <2>1. /\ page.messages[m].role = "user" /\ NewPrompt(p, n)
        /\ p \in InHistory(page) \union {None}
    BY <1>2 DEF EditPrompt
  <2>2. p # None => page.messages[p].role = "assistant"
    BY <2>1, PageIsGood, PageTypes DEF Tree, Shape, Message
  <2> QED
    BY <2>1, <2>2, NewPromptGood
<1>3. ASSUME NEW n \in 1 .. MaxAnswers, NEW m \in InHistory(page), Regenerate(m, n)
      PROVE  GoodNow' /\ Leaf'
  BY <1>3, RegenerateGood
<1>4. ASSUME NEW m \in InHistory(page), EditAnswer(m)
      PROVE  GoodNow' /\ Leaf'
  BY <1>4, EditAnswerGood
<1>5. ASSUME NEW m \in InHistory(page), DeleteMessage(m)
      PROVE  GoodNow' /\ Leaf'
  BY <1>5, DeleteGood
<1>6. ASSUME NEW m \in InHistory(page), NEW s \in InHistory(page), Navigate(m, s)
      PROVE  GoodNow' /\ Leaf'
  BY <1>6, NavigateGood
<1>7. CASE Resave
  <2>1. page \in Histories /\ ChangePage(page) /\ UNCHANGED <<nextId, seen>>
    BY <1>7 DEF Resave, Types
  <2>2. page' = page /\ SentOrNot(saves', saves, page, {}) /\ UNCHANGED <<requests, stored, task, asked>>
    BY <2>1, ChangeSent DEF PageChanged
  <2>3. SameTree(page', page)
    BY <2>2 DEF SameTree
  <2> QED
    BY <2>1, <2>2, <2>3, StayGood
<1>8. CASE Stop
  BY <1>8 DEF Stop, GoodNow, Leaf
<1>9. CASE Reload
  BY <1>9, ReloadedGood
<1> QED
  BY <1>1, <1>2, <1>3, <1>4, <1>5, <1>6, <1>7, <1>8, <1>9 DEF User

(* An event changes texts and marks only.                                  *)
LEMMA HandledSame ==
  ASSUME Types, HandleEvent
  PROVE  SameTree(page', page) /\ page'.currentId = page.currentId /\ seen \subseteq seen'
<1>1. PICK e : e = Head(events) /\ (Unknown(e) \/ TextEvent(e) \/ DoneEvent(e) \/ CancelEvent(e))
  BY DEF HandleEvent
<1>2. e \in Event
  BY <1>1 DEF HandleEvent, Types
<1>3. page \in Histories /\ page.currentId \in Ids \union {None}
  BY PageTypes DEF Types
<1>4. CASE Unknown(e)
  BY <1>4 DEF Unknown, SameTree
<1>5. CASE TextEvent(e)
  <2> DEFINE msg == [page.messages[e.id] EXCEPT !.text = e.text]
  <2>1. msg \in Message /\ e.id \in InHistory(page)
    BY <1>2, <1>5, PageTypes DEF TextEvent, Message, Event
  <2>2. /\ msg.role = page.messages[e.id].role /\ msg.parent = page.messages[e.id].parent
        /\ msg.children = page.messages[e.id].children
    BY <2>1, PageTypes DEF Message
  <2>3. page' = Put(page, e.id, msg, page.currentId) /\ UNCHANGED seen
    BY <1>5 DEF TextEvent, Changed
  <2> HIDE DEF msg
  <2> QED
    BY <1>3, <2>1, <2>2, <2>3, PutSame
<1>6. CASE DoneEvent(e)
  <2> DEFINE msg == [page.messages[e.id] EXCEPT !.text = e.text, !.done = TRUE]
  <2>1. msg \in Message /\ e.id \in InHistory(page)
    BY <1>2, <1>6, PageTypes, MarkedMessage DEF DoneEvent, Event
  <2>2. /\ msg.role = page.messages[e.id].role /\ msg.parent = page.messages[e.id].parent
        /\ msg.children = page.messages[e.id].children
    BY <2>1, PageTypes DEF Message
  <2>3. page' = Put(page, e.id, msg, page.currentId) /\ UNCHANGED seen
    BY <1>6 DEF DoneEvent, Changed
  <2> HIDE DEF msg
  <2> QED
    BY <1>3, <2>1, <2>2, <2>3, PutSame
<1>7. CASE CancelEvent(e)
  <2> DEFINE msg == [page.messages[e.id] EXCEPT !.error = @ \/ e.type = "error"]
             put == Put(page, e.id, msg, page.currentId)
  <2>1. msg \in Message /\ e.id \in InHistory(page)
    <3>1. /\ page.messages[e.id] \in Message /\ 0 \in 0 .. MaxText
          /\ e.id \in InHistory(page)
      BY <1>7, PageTypes, BoundAssumption DEF CancelEvent
    <3> QED
      BY <3>1, MarkedMessage
  <2>2. /\ msg.role = page.messages[e.id].role /\ msg.parent = page.messages[e.id].parent
        /\ msg.children = page.messages[e.id].children
    BY <2>1, PageTypes DEF Message
  <2>3. page' = DisplayedDone(put) /\ seen \subseteq seen'
    BY <1>7 DEF CancelEvent, MarkDisplayed
  <2> HIDE DEF msg
  <2>4. put \in Histories /\ SameTree(put, page) /\ put.currentId = page.currentId
    BY <1>2, <1>3, <2>1, <2>2, PutSame, PutType DEF Event
  <2> HIDE DEF put
  <2>5. SameTree(page', put) /\ page'.currentId = put.currentId
    BY <2>3, <2>4, DisplayedSame
  <2> QED
    BY <2>3, <2>4, <2>5 DEF SameTree
<1> QED
  BY <1>1, <1>4, <1>5, <1>6, <1>7

LEMMA HandledGood ==
  ASSUME Types, Types', GoodNow, Leaf, HandleEvent
  PROVE  GoodNow' /\ Leaf'
<1>1. UNCHANGED <<saves, requests, stored, task, asked, nextId>>
  BY DEF HandleEvent, server
<1>2. SentOrNot(saves', saves, page', {})
  BY <1>1 DEF SentOrNot
<1> QED
  BY <1>1, <1>2, HandledSame, StayGood

(* Message m keeps its text, and its mark if it is done.                   *)
Stays(m) ==
  /\ page'.messages[m].text = page.messages[m].text
  /\ page.messages[m].done => page'.messages[m].done

(* An answer that is put back as it was when it was sent changes nothing   *)
(* but its marks.                                                          *)
LEMMA RefusedSame ==
  ASSUME Types, Intact', NEW a \in refused, Refused(a)
  PROVE  /\ SameTree(page', page) /\ page'.currentId = a
         /\ a \in InHistory(page) /\ page.messages[a].role = "assistant"
         /\ page.messages[a].children = {} /\ ~page.messages[a].done
         /\ \A m \in InHistory(page) : Stays(m)
<1> DEFINE msg == [Answer(asked[a]) EXCEPT !.done = TRUE, !.error = TRUE]
<1>1. AsSent(a) /\ page' = Put(page, a, msg, a) /\ a \in Ids
  BY DEF Refused, Intact, Types
<1>2. /\ a \in InHistory(page) /\ page.messages[a] = Answer(asked[a]) /\ page \in Histories
      /\ asked[a] \in Ids \union {None}
  BY <1>1 DEF AsSent, Types
<1>3. Answer(asked[a]) \in Message
  BY <1>2, NewMessages
<1>4. /\ msg \in Message /\ msg.role = page.messages[a].role /\ msg.parent = page.messages[a].parent
      /\ msg.children = page.messages[a].children /\ msg.text = page.messages[a].text
  BY <1>2, <1>3 DEF Message
<1>5. /\ page.messages[a].role = "assistant" /\ page.messages[a].children = {}
      /\ ~page.messages[a].done
  BY <1>2 DEF Answer
<1> HIDE DEF msg
<1>6. SameTree(page', page) /\ page'.currentId = a
  BY <1>1, <1>2, <1>4, PutSame
<1>7. /\ page'.messages[a] = msg
      /\ \A m \in InHistory(page) \ {a} : page'.messages[m] = page.messages[m]
  BY <1>1, <1>2 DEF Put
<1>8. \A m \in InHistory(page) : Stays(m)
  BY <1>4, <1>5, <1>7 DEF Stays
<1> QED
  BY <1>2, <1>5, <1>6, <1>8

LEMMA RefusedGood ==
  ASSUME Types, Types', GoodNow, Leaf, Intact', NEW a \in refused, Refused(a)
  PROVE  GoodNow' /\ Leaf'
<1>1. UNCHANGED <<saves, requests, stored, task, asked, nextId>>
  BY DEF Refused, server
<1>2. SentOrNot(saves', saves, page', {})
  BY <1>1 DEF SentOrNot
<1>3. GoodNow'
  BY <1>1, <1>2, RefusedSame, SameTreeGood
<1> QED
  BY <1>3, RefusedSame DEF Leaf, SameTree

LEMMA ArrivedGood ==
  ASSUME Types, Types', GoodNow, Leaf, Intact', NEW i \in 1 .. Len(saves), Arrive(i)
  PROVE  GoodNow' /\ Leaf'
<1>1. i = 1
  BY DEF Arrive, Intact
<1>2. PICK tt : tt = saves'
  OBVIOUS
<1>3. tt \in Seq(Save) /\ Len(tt) = Len(saves) - 1 /\ \A k \in 1 .. Len(tt) : tt[k] = saves[k + 1]
  BY <1>1, <1>2, TakenType DEF Arrive, Types
<1>4. /\ Len(saves) >= 1 /\ page \in Histories /\ stored \in Histories /\ saves \in Seq(Save)
      /\ requests \in SUBSET Ids /\ task \in [Ids -> EndedOrNot] /\ nextId \in Nat
  BY DEF Types
<1>5. Good(page, saves[1].history, tt, requests \union saves[1].sends, task, asked, nextId)
  BY <1>3, <1>4, ArriveGood DEF GoodNow
<1>6. /\ stored' = saves[1].history /\ requests' = requests \union saves[1].sends
      /\ UNCHANGED <<page, task, asked, nextId>> /\ seen \subseteq seen'
  BY <1>1 DEF Arrive
<1> QED
  BY <1>2, <1>5, <1>6 DEF GoodNow, Leaf

LEMMA RequestedGood ==
  ASSUME Types, GoodNow, Leaf, NEW a \in requests, Request(a)
  PROVE  GoodNow' /\ Leaf'
<1>1. PICK tk \in {task, [task EXCEPT ![a] = "started"]} : tk = task'
  BY DEF Request
<1>a. /\ tk \in [Ids -> EndedOrNot] /\ tk[a] \in {task[a], "started"}
      /\ \A x \in Ids : x # a => tk[x] = task[x]
  BY DEF Types, EndedOrNot
<1>2. Good(page, stored, saves, requests \ {a}, tk, asked, nextId)
  <2>1. /\ page \in Histories /\ stored \in Histories /\ saves \in Seq(Save)
        /\ requests \in SUBSET Ids /\ task \in [Ids -> EndedOrNot] /\ nextId \in Nat
    BY DEF Types
  <2> QED
    BY <1>a, <2>1, RequestGood DEF GoodNow
<1>3. requests' = requests \ {a} /\ UNCHANGED <<page, stored, saves, asked, nextId, seen>>
  BY DEF Request
<1> QED
  BY <1>1, <1>2, <1>3 DEF GoodNow, Leaf

(* The row after an answer is upserted: the same tree, its text changed.   *)
OthersSame(a) ==
  \A m \in InHistory(stored) : m # a => stored'.messages[m].text = stored.messages[m].text

LEMMA UpsertSame ==
  ASSUME Types, GoodNow, NEW a \in Ids, task[a] \in {"started", "running", "background"},
         NEW msg \in Message, Upsert(a, msg),
         msg.role = Old(a).role, msg.children = Old(a).children,
         msg.parent # Old(a).parent => task[a] \in {"started", "running"} /\ msg.parent = asked[a]
  PROVE  /\ SameTree(stored', stored) /\ stored'.currentId = a /\ OthersSame(a)
         /\ msg = Old(a) => stored'.messages[a].text = stored.messages[a].text
<1>1. /\ a \in InHistory(stored)
      /\ task[a] \in {"started", "running"} => stored.messages[a].parent = asked[a]
  BY RowHasAnswer DEF GoodNow
<1>2. Old(a) = stored.messages[a] /\ stored \in Histories
  BY <1>1 DEF Old, Types
<1>3. msg.parent = stored.messages[a].parent
  BY <1>1, <1>2
<1>4. /\ stored'.messages[a] = msg
      /\ \A m \in InHistory(stored) \ {a} : stored'.messages[m] = stored.messages[m]
  BY <1>1 DEF Upsert, Put
<1> QED
  BY <1>1, <1>2, <1>3, <1>4, PutSame DEF Upsert, OthersSame

LEMMA TaskStepGood ==
  ASSUME Types, Types', GoodNow, Leaf, NEW a \in Ids, task[a] \in {"started", "running", "background"},
         NEW to \in EndedOrNot, to # "none",
         to \in {"started", "running"} => task[a] \in {"started", "running"}, TaskStep(a, to),
         SameTree(stored', stored), stored'.currentId \in {stored.currentId, a}
  PROVE  GoodNow' /\ Leaf'
<1>1. PICK s2 \in Histories : s2 = stored'
  BY DEF Types
<1>2. /\ page \in Histories /\ stored \in Histories /\ saves \in Seq(Save)
      /\ requests \in SUBSET Ids /\ task \in [Ids -> EndedOrNot] /\ nextId \in Nat
  BY DEF Types
<1>3. Good(page, s2, saves, requests, [task EXCEPT ![a] = to], asked, nextId)
  BY <1>1, <1>2, AnsweringGood DEF GoodNow
<1>4. /\ task' = [task EXCEPT ![a] = to]
      /\ UNCHANGED <<page, saves, requests, asked, nextId, seen>>
  BY DEF TaskStep
<1> QED
  BY <1>1, <1>3, <1>4 DEF GoodNow, Leaf

(* The step of answer a's task to state to: the row keeps its tree, and    *)
(* all texts but that of an answer which is being written.                 *)
TaskStepped(a, to) ==
  /\ task[a] \in {"started", "running", "background"}
  /\ to \in EndedOrNot /\ to # "none"
  /\ to \in {"started", "running"} => task[a] \in {"started", "running"}
  /\ TaskStep(a, to)
  /\ SameTree(stored', stored) /\ stored'.currentId \in {stored.currentId, a}
  /\ \A m \in InHistory(stored) :
       m # a \/ to = "done" => stored'.messages[m].text = stored.messages[m].text

LEMMA AnsweredSame ==
  ASSUME Types, GoodNow, NEW a \in Ids, Answering(a)
  PROVE  \E to : TaskStepped(a, to)
<1>1. /\ Old(a) \in Message /\ text[a] \in 0 .. MaxText /\ asked[a] \in Ids \union {None}
  BY OldType DEF Types
<1>2. UNCHANGED stored =>
        /\ SameTree(stored', stored) /\ stored'.currentId = stored.currentId
        /\ \A m \in InHistory(stored) : stored'.messages[m].text = stored.messages[m].text
  BY DEF SameTree
<1>3. CASE Begin(a)
  <2> DEFINE msg == [Old(a) EXCEPT !.parent = asked[a]]
  <2>1. /\ msg \in Message /\ msg.role = Old(a).role /\ msg.children = Old(a).children
        /\ msg.parent = asked[a]
    BY <1>1 DEF Message
  <2>2. task[a] = "started" /\ Upsert(a, msg) /\ TaskStep(a, "running")
    BY <1>3 DEF Begin
  <2> HIDE DEF msg
  <2>3. SameTree(stored', stored) /\ stored'.currentId = a /\ OthersSame(a)
    BY <2>1, <2>2, UpsertSame
  <2> QED
    BY <2>2, <2>3 DEF TaskStepped, OthersSame, EndedOrNot
<1>4. CASE Produce(a)
  <2>1. task[a] = "running" /\ TaskStep(a, "running") /\ stored' = stored
    BY <1>4 DEF Produce
  <2> QED
    BY <1>2, <2>1 DEF TaskStepped, OthersSame, EndedOrNot
<1>5. CASE Finish(a)
  <2> DEFINE msg == [Old(a) EXCEPT !.text = text[a]]
  <2>1. /\ msg \in Message /\ msg.role = Old(a).role /\ msg.children = Old(a).children
        /\ msg.parent = Old(a).parent
    BY <1>1 DEF Message
  <2>2. task[a] = "running" /\ Upsert(a, msg) /\ TaskStep(a, "background")
    BY <1>5 DEF Finish
  <2> HIDE DEF msg
  <2>3. SameTree(stored', stored) /\ stored'.currentId = a /\ OthersSame(a)
    BY <2>1, <2>2, UpsertSame
  <2> QED
    BY <2>2, <2>3 DEF TaskStepped, OthersSame, EndedOrNot
<1>6. CASE Background(a)
  <2>1. task[a] = "background" /\ TaskStep(a, "done")
    BY <1>6 DEF Background
  <2>2. CASE Upsert(a, Old(a))
    <3>1. SameTree(stored', stored) /\ stored'.currentId = a /\ OthersSame(a)
          /\ stored'.messages[a].text = stored.messages[a].text
      BY <1>1, <2>1, <2>2, UpsertSame
    <3> QED
      BY <2>1, <3>1 DEF TaskStepped, OthersSame, EndedOrNot
  <2>3. CASE UNCHANGED stored
    BY <1>2, <2>1, <2>3 DEF TaskStepped, OthersSame, EndedOrNot
  <2> QED
    BY <1>6, <2>2, <2>3 DEF Background
<1>7. CASE Fail(a)
  <2> DEFINE msg == [Old(a) EXCEPT !.parent = asked[a], !.error = TRUE]
  <2>1. /\ msg \in Message /\ msg.role = Old(a).role /\ msg.children = Old(a).children
        /\ msg.parent = asked[a]
    BY <1>1 DEF Message
  <2>2. task[a] \in {"started", "running"} /\ Upsert(a, msg) /\ TaskStep(a, "failed")
    BY <1>7 DEF Fail
  <2> HIDE DEF msg
  <2>3. SameTree(stored', stored) /\ stored'.currentId = a /\ OthersSame(a)
    BY <2>1, <2>2, UpsertSame
  <2> QED
    BY <2>2, <2>3 DEF TaskStepped, OthersSame, EndedOrNot
<1>8. CASE Cancel(a)
  <2> DEFINE msg == [Old(a) EXCEPT !.text = text[a]]
  <2>1. /\ msg \in Message /\ msg.role = Old(a).role /\ msg.children = Old(a).children
        /\ msg.parent = Old(a).parent
    BY <1>1 DEF Message
  <2>2. /\ task[a] \in {"started", "running", "background"} /\ TaskStep(a, "cancelled")
        /\ UNCHANGED stored \/ Upsert(a, msg)
    BY <1>8 DEF Cancel
  <2> HIDE DEF msg
  <2>3. SameTree(stored', stored) /\ stored'.currentId \in {stored.currentId, a} /\ OthersSame(a)
    BY <1>2, <2>1, <2>2, UpsertSame DEF OthersSame
  <2> QED
    BY <2>2, <2>3 DEF TaskStepped, OthersSame, EndedOrNot
<1> QED
  BY <1>3, <1>4, <1>5, <1>6, <1>7, <1>8 DEF Answering

LEMMA AnsweredGood ==
  ASSUME Types, Types', GoodNow, Leaf, NEW a \in Ids, Answering(a)
  PROVE  GoodNow' /\ Leaf'
<1>1. PICK to \in EndedOrNot : TaskStepped(a, to)
  BY AnsweredSame DEF TaskStepped
<1> QED
  BY <1>1, TaskStepGood DEF TaskStepped

LEMMA SystemGood ==
  ASSUME Types, Types', GoodNow, Leaf, Intact', System
  PROVE  GoodNow' /\ Leaf'
<1>1. CASE Stopped
  <2>1. SameTree(page', page) /\ page'.currentId = page.currentId
    BY <1>1, DisplayedSame DEF Stopped, MarkDisplayed, Types
  <2>2. SentOrNot(saves', saves, page', {}) /\ seen \subseteq seen'
    BY <1>1 DEF Stopped, MarkDisplayed, SentOrNot
  <2>3. UNCHANGED <<requests, stored, task, asked, nextId>>
    BY <1>1 DEF Stopped, server
  <2> QED
    BY <2>1, <2>2, <2>3, StayGood
<1>2. ASSUME NEW c \in completing, Completed(c)
      PROVE  GoodNow' /\ Leaf'
  <2>1. SameTree(page', page) /\ page'.currentId = page.currentId /\ seen \subseteq seen'
    BY <1>2 DEF Completed, SameTree
  <2>2. SentOrNot(saves', saves, page', {})
    <3>1. CASE saves' = Saved(page, {})
      BY <2>1, <1>2, <3>1, SavedType DEF Completed, Saved, SentOrNot, Types
    <3>2. CASE UNCHANGED saves
      BY <3>2 DEF SentOrNot
    <3> QED
      BY <1>2, <3>1, <3>2 DEF Completed
  <2>3. UNCHANGED <<requests, stored, task, asked, nextId>>
    BY <1>2 DEF Completed, server
  <2> QED
    BY <2>1, <2>2, <2>3, StayGood
<1> QED
  BY <1>1, <1>2, RefusedGood, HandledGood, ArrivedGood, RequestedGood, AnsweredGood DEF System

LEMMA SeenGrows ==
  ASSUME Types, [Next]_vars
  PROVE  seen \subseteq seen'
<1>1. ASSUME User
      PROVE  seen \subseteq seen'
  BY <1>1 DEF User, SubmitPrompt, EditPrompt, NewPrompt, Regenerate, SendMessage, EditAnswer,
         DeleteMessage, Navigate, Resave, Stop, Reload
<1>2. ASSUME HandleEvent
      PROVE  seen \subseteq seen'
  BY <1>2 DEF HandleEvent, Unknown, TextEvent, DoneEvent, CancelEvent, MarkDisplayed
<1>3. ASSUME NEW a \in Ids, Answering(a)
      PROVE  seen \subseteq seen'
  BY <1>3 DEF Answering, Begin, Produce, Finish, Background, Fail, Cancel, TaskStep
<1>4. ASSUME System
      PROVE  seen \subseteq seen'
  BY <1>2, <1>3, <1>4 DEF System, Stopped, MarkDisplayed, Refused, Completed, Arrive, Request
<1> QED
  BY <1>1, <1>4 DEF Next, vars

LEMMA InitGood == Init => IInv
<1> SUFFICES ASSUME Init
             PROVE  IInv
  OBVIOUS
<1>1. Types
  BY TypesInit
<1>2. /\ page = Loaded /\ stored = Loaded /\ saves = <<>> /\ requests = {} /\ nextId = 6
      /\ \A a \in Ids : task[a] = "none"
  BY DEF Init
<1>3. \A a : ~SentIn(saves, a)
  BY <1>2 DEF SentIn
<1>4. LiveIn(saves, requests, task) = {} /\ WorkingIn(saves, requests, task) = {}
  BY <1>2, <1>3 DEF LiveIn, WorkingIn
<1>5. Suits(Loaded, {}, {}, asked, nextId)
  BY <1>2, LoadedTree DEF Suits
<1>6. Once(saves, requests, task)
  BY <1>2 DEF Once
<1>7. GoodNow
  <2>1. Kept(page, stored, saves, {})
    BY DEF Kept
  <2>2. \A i \in 1 .. Len(saves) : FALSE
    BY <1>2
  <2>3. /\ Suits(page, LiveIn(saves, requests, task), WorkingIn(saves, requests, task), asked, nextId)
        /\ Suits(stored, LiveIn(saves, requests, task), WorkingIn(saves, requests, task), asked, nextId)
    BY <1>2, <1>4, <1>5
  <2> QED
    BY <1>2, <1>4, <1>6, <2>1, <2>2, <2>3 DEF GoodNow, Good
<1>8. Leaf
  BY <1>2, LoadedTree DEF Leaf
<1> QED
  BY <1>1, <1>7, <1>8 DEF IInv

LEMMA NextGood == IInv /\ [Next]_vars => IInv'
<1> SUFFICES ASSUME IInv, [Next]_vars, Intact'
             PROVE  GoodNow' /\ Leaf'
  BY TypesNext DEF IInv
<1>1. seen \subseteq seen' /\ Types /\ Types'
  BY SeenGrows, TypesNext DEF IInv
<1>2. GoodNow /\ Leaf
  BY <1>1, StepSame DEF IInv
<1>3. CASE UNCHANGED vars
  BY <1>2, <1>3 DEF vars, GoodNow, Leaf
<1> QED
  BY <1>1, <1>2, <1>3, UserGood, SystemGood DEF Next

LEMMA Always == Spec => []IInv
  BY InitGood, NextGood, PTL DEF Spec

(* Unless a race has happened, the page holds a tree in which every prompt *)
(* has an answer, whatever the user has edited, deleted, regenerated or    *)
(* browsed and however the answers have ended.                             *)
THEOREM PageStaysTree == Spec => []PageTree
<1>1. IInv => PageTree
  BY DEF IInv, PageTree, GoodNow, Good, Suits
<1> QED
  BY <1>1, Always, PTL

(* So does the row, into which the page and the tasks write.               *)
THEOREM RowStaysTree == Spec => []StoredTree
<1>1. IInv => StoredTree
  BY DEF IInv, StoredTree, GoodNow, Good, Suits
<1> QED
  BY <1>1, Always, PTL

(* No upsert of a task ever finds its answer missing from the row, nor     *)
(* will it when the histories in flight have arrived.                      *)
THEOREM AnswersStay == Spec => []AnswersKept
<1>1. IInv => AnswersKept
  <2> SUFFICES ASSUME IInv, Intact, NEW a \in LiveIds
               PROVE  /\ a \in InHistory(page)
                      /\ a \notin Waiting => a \in InHistory(stored)
                      /\ \A i \in 1 .. Len(saves) :
                           (\A j \in i + 1 .. Len(saves) : a \notin saves[j].sends) =>
                             a \in InHistory(saves[i].history)
    BY DEF AnswersKept
  <2>1. Kept(page, stored, saves, LiveIds) /\ a \in Ids
    BY LiveIsLive DEF IInv, GoodNow, Good, LiveIds
  <2>2. a \notin Waiting => ~SentIn(saves, a)
    BY <2>1, LiveIsLive
  <2> QED
    BY <2>1, <2>2 DEF Kept
<1> QED
  BY <1>1, Always, PTL

(* What the page shows ends with a message that has no reply, until the    *)
(* page is loaded again.                                                   *)
THEOREM LeafIsShown == Spec => []CurrentIsLeaf
<1>1. IInv => CurrentIsLeaf
  BY DEF IInv, CurrentIsLeaf, Leaf
<1> QED
  BY <1>1, Always, PTL

-----------------------------------------------------------------------------
(* The texts and marks of messages, through the operators on histories.    *)

LEMMA AttachedKeeps ==
  ASSUME NEW h \in Histories, NEW new \in SUBSET Ids, NEW msg \in Message, NEW c
  PROVE  /\ \A m \in new : Attached(h, new, msg, c).messages[m] = msg
         /\ \A m \in InHistory(h) \ new :
              /\ Attached(h, new, msg, c).messages[m].role = h.messages[m].role
              /\ Attached(h, new, msg, c).messages[m].done = h.messages[m].done
              /\ Attached(h, new, msg, c).messages[m].text = h.messages[m].text
<1>1. \A m \in InHistory(h) : h.messages[m] \in Message
  BY HistoryFields
<1> QED
  BY <1>1 DEF Attached, Message

LEMMA RemovedKeeps ==
  ASSUME NEW h \in Histories, NEW x, NEW c
  PROVE  /\ InHistory(Removed(h, x, c)) \subseteq InHistory(h)
         /\ \A m \in InHistory(Removed(h, x, c)) :
              /\ Removed(h, x, c).messages[m].role = h.messages[m].role
              /\ Removed(h, x, c).messages[m].done = h.messages[m].done
              /\ Removed(h, x, c).messages[m].text = h.messages[m].text
<1>1. \A m \in InHistory(h) : h.messages[m] \in Message
  BY HistoryFields
<1>2. InHistory(Removed(h, x, c)) = InHistory(h) \ Gone(h, x)
  BY DEF Removed, InHistory
<1>3. \A m \in InHistory(h) \ Gone(h, x) :
        /\ Removed(h, x, c).messages[m].role = h.messages[m].role
        /\ Removed(h, x, c).messages[m].done = h.messages[m].done
        /\ Removed(h, x, c).messages[m].text = h.messages[m].text
  BY <1>1 DEF Removed, Message
<1> QED
  BY <1>2, <1>3

LEMMA PutKeeps ==
  ASSUME NEW h \in Histories, NEW x, NEW msg, NEW c
  PROVE  /\ InHistory(Put(h, x, msg, c)) = InHistory(h) \union {x}
         /\ Put(h, x, msg, c).messages[x] = msg
         /\ \A m \in InHistory(h) \ {x} : Put(h, x, msg, c).messages[m] = h.messages[m]
         /\ Put(h, x, msg, c).currentId = c
  BY DEF Put, InHistory

LEMMA DisplayedKeeps ==
  ASSUME NEW h \in Histories
  PROVE  /\ InHistory(DisplayedDone(h)) = InHistory(h)
         /\ \A m \in InHistory(h) :
              /\ DisplayedDone(h).messages[m].role = h.messages[m].role
              /\ DisplayedDone(h).messages[m].text = h.messages[m].text
              /\ DisplayedDone(h).messages[m].done = (h.messages[m].done \/ m \in Displayed(h))
<1>1. \A m \in InHistory(h) : h.messages[m] \in Message
  BY HistoryFields
<1>2. InHistory(DisplayedDone(h)) = InHistory(h)
  BY DEF DisplayedDone, InHistory
<1>3. \A m \in InHistory(h) :
        DisplayedDone(h).messages[m] = [h.messages[m] EXCEPT !.done = @ \/ m \in Displayed(h)]
  BY DEF DisplayedDone
<1> QED
  BY <1>1, <1>2, <1>3 DEF Message

-----------------------------------------------------------------------------
(* Every answer gets its end: an answer on the page that is not done is    *)
(* still being worked on, or it will be put back, or the event that ends   *)
(* it is on its way.                                                       *)

Waiters == {m \in InHistory(page) :
              page.messages[m].role = "assistant" /\ ~page.messages[m].done}
EndsIn(ev, m) ==
  \E i \in 1 .. Len(ev) : ev[i].id = m /\ ev[i].type \in {"done", "error", "cancel"}
Due == WorkingIds \union refused \union {m \in Ids : EndsIn(events, m)}
Awaited == "elsewhere" \notin seen => Waiters \subseteq Due

LEMMA DueGrows ==
  ASSUME Types, NEW g, NEW new, SentOrNot(saves', saves, g, new),
         UNCHANGED <<requests, refused, events, task>>
  PROVE  Due \subseteq Due' /\ \A a \in Ids \intersect new : a \in Due'
<1>1. Len(saves) \in Nat
  BY DEF Types
<1>2. \A a \in Ids : SentIn(saves, a) => SentIn(saves', a)
  BY <1>1 DEF SentOrNot, SentIn
<1>3. \A a \in new : SentIn(saves', a)
  BY <1>1 DEF SentOrNot, SentIn
<1>4. WorkingIds = WorkingIn(saves, requests, task)
      /\ WorkingIds' = WorkingIn(saves', requests', task')
  BY DEF WorkingIds, Working, Waiting, WorkingIn, SentIn
<1> QED
  BY <1>2, <1>3, <1>4 DEF Due, WorkingIn

LEMMA AwaitedStays ==
  ASSUME Awaited, seen \subseteq seen', Waiters' \subseteq Waiters \union Due', Due \subseteq Due'
  PROVE  Awaited'
  BY DEF Awaited

LEMMA SendAwaited ==
  ASSUME Types, Awaited, NEW h \in Histories, NEW u \in Ids, NEW first \in Nat \ {0},
         NEW n \in 1 .. MaxAnswers, SendMessage(h, u, first, n),
         \A m \in InHistory(h) : h.messages[m].role = "assistant" /\ ~h.messages[m].done =>
           m \in Waiters
  PROVE  Awaited'
<1> DEFINE new == first .. first + n - 1
           sent == Attached(h, new, Answer(u), first + n - 1)
<1>1. new \in SUBSET Ids /\ first + n - 1 \in Ids
  BY BoundAssumption DEF SendMessage, Ids
<1>2. page' = sent /\ saves' = Append(saves, [history |-> sent, sends |-> new])
  BY DEF SendMessage, Saved
<1>3. UNCHANGED <<requests, refused, events, task, seen>>
  BY DEF SendMessage, server
<1> HIDE DEF new
<1>4. sent \in Histories /\ InHistory(sent) = InHistory(h) \union new
  BY <1>1, NewMessages, AttachedType
<1>5. \A m \in InHistory(h) \ new :
        sent.messages[m].role = h.messages[m].role /\ sent.messages[m].done = h.messages[m].done
  BY <1>1, NewMessages, AttachedKeeps
<1> HIDE DEF sent
<1>6. SentOrNot(saves', saves, sent, new)
  BY <1>1, <1>2, <1>4, SavedType DEF SentOrNot, Types
<1>7. Due \subseteq Due' /\ new \subseteq Due'
  BY <1>1, <1>3, <1>6, DueGrows
<1>8. Waiters' \subseteq Waiters \union Due'
  BY <1>2, <1>4, <1>5, <1>7 DEF Waiters
<1> QED
  BY <1>3, <1>7, <1>8, AwaitedStays

LEMMA NewPromptAwaited ==
  ASSUME Types, Awaited, NEW p \in Ids \union {None}, NEW n \in 1 .. MaxAnswers, NewPrompt(p, n)
  PROVE  Awaited'
<1>1. nextId \in Ids /\ nextId + 1 \in Nat \ {0}
  BY SMTT(30), NewPromptTypes DEF Types
<1> DEFINE msg == Prompt(p)
           h == Attached(page, {nextId}, msg, nextId)
<1>2. h \in Histories
  BY <1>1, PromptType
<1>3. SendMessage(h, nextId, nextId + 1, n)
  BY DEF NewPrompt
<1>4. msg \in Message /\ page \in Histories /\ nextId \in Ids /\ {nextId} \in SUBSET Ids
  BY <1>1, NewMessages DEF Types
<1>5. msg.role = "user"
  BY DEF Prompt
<1> HIDE DEF msg
<1>6. InHistory(h) = InHistory(page) \union {nextId}
  BY <1>4, AttachedType
<1>7. /\ h.messages[nextId] = msg
      /\ \A m \in InHistory(page) \ {nextId} :
           /\ h.messages[m].role = page.messages[m].role
           /\ h.messages[m].done = page.messages[m].done
  <2>1. \A m \in InHistory(page) : page.messages[m] \in Message
    BY PageTypes
  <2> QED
    BY <2>1 DEF Attached, Message
<1> HIDE DEF h
<1>8. \A m \in InHistory(h) : h.messages[m].role = "assistant" /\ ~h.messages[m].done =>
        m \in Waiters
  BY <1>5, <1>6, <1>7 DEF Waiters
<1> QED
  BY <1>1, <1>2, <1>3, <1>8, SendAwaited

LEMMA ChangeAwaited ==
  ASSUME Types, Awaited, NEW h \in Histories, PageChanged(h), seen \subseteq seen',
         \A m \in InHistory(h) : h.messages[m].role = "assistant" /\ ~h.messages[m].done =>
           m \in Waiters
  PROVE  Awaited'
<1>1. SentOrNot(saves', saves, h, {}) /\ page' = h
  BY ChangeSent
<1>2. UNCHANGED <<requests, refused, events, task>>
  BY ChangedFields DEF server
<1>3. Due \subseteq Due'
  BY <1>1, <1>2, DueGrows
<1>4. Waiters' \subseteq Waiters
  BY <1>1 DEF Waiters
<1> QED
  BY <1>3, <1>4, AwaitedStays

LEMMA UserAwaited ==
  ASSUME Types, Awaited, seen \subseteq seen', User
  PROVE  Awaited'
<1>1. ASSUME NEW n \in 1 .. MaxAnswers, SubmitPrompt(n)
      PROVE  Awaited'
  BY <1>1, PageTypes, NewPromptAwaited DEF SubmitPrompt
<1>2. ASSUME NEW n \in 1 .. MaxAnswers, NEW m \in InHistory(page), EditPrompt(m, n)
      PROVE  Awaited'
  BY <1>2, PageTypes, NewPromptAwaited DEF EditPrompt
<1>3. ASSUME NEW n \in 1 .. MaxAnswers, NEW m \in InHistory(page), Regenerate(m, n)
      PROVE  Awaited'
  <2>1. /\ page.messages[m].parent \in InHistory(page)
        /\ SendMessage(page, page.messages[m].parent, nextId, n)
    BY <1>3 DEF Regenerate
  <2>2. page \in Histories /\ nextId \in Nat \ {0} /\ InHistory(page) \subseteq Ids
    BY PageTypes DEF Types
  <2> QED
    BY <2>1, <2>2, SendAwaited DEF Waiters
<1>4. ASSUME NEW m \in InHistory(page), EditAnswer(m)
      PROVE  Awaited'
  <2> DEFINE msg == [page.messages[m] EXCEPT !.children = {}]
             h == Attached(page, {nextId}, msg, nextId)
  <2>a. page.messages[m] \in Message /\ page.messages[m].done
    BY <1>4, PageTypes DEF EditAnswer
  <2>b. nextId \in Ids /\ page \in Histories
    BY <1>4, BoundAssumption DEF EditAnswer, Types, Ids
  <2>1. msg \in Message /\ msg.done /\ {nextId} \in SUBSET Ids /\ page \in Histories
    BY <2>a, <2>b DEF Message
  <2>2. ChangePage(h)
    BY <1>4 DEF EditAnswer
  <2> HIDE DEF msg
  <2>3. h \in Histories /\ InHistory(h) = InHistory(page) \union {nextId}
    BY <2>1, <2>b, AttachedType
  <2>4. /\ h.messages[nextId] = msg
        /\ \A x \in InHistory(page) \ {nextId} :
             h.messages[x].role = page.messages[x].role /\ h.messages[x].done = page.messages[x].done
    <3>1. \A x \in InHistory(page) : page.messages[x] \in Message
      BY PageTypes
    <3> QED
      BY <3>1 DEF Attached, Message
  <2> HIDE DEF h
  <2> QED
    BY <2>1, <2>2, <2>3, <2>4, ChangeAwaited DEF Waiters, PageChanged
<1>5. ASSUME NEW m \in InHistory(page), DeleteMessage(m)
      PROVE  Awaited'
  <2>1. PICK leaf \in Ids : PageChanged(Removed(page, m, leaf)) /\ Removed(page, m, leaf) \in Histories
    BY <1>5, DeleteLeaf
  <2>2. PICK h : h = Removed(page, m, leaf)
    OBVIOUS
  <2>3. /\ InHistory(h) \subseteq InHistory(page)
        /\ \A x \in InHistory(h) :
             h.messages[x].role = page.messages[x].role /\ h.messages[x].done = page.messages[x].done
    BY <2>2, RemovedKeeps DEF Types
  <2> QED
    BY <2>1, <2>2, <2>3, ChangeAwaited DEF Waiters
<1>6. ASSUME NEW m \in InHistory(page), NEW s \in InHistory(page), Navigate(m, s)
      PROVE  Awaited'
  <2>1. PICK leaf \in LeavesUnder(page, s) :
          \/ ChangePage([messages |-> page.messages, currentId |-> leaf])
          \/ /\ page' = [messages |-> page.messages, currentId |-> leaf]
             /\ UNCHANGED <<taskIds, stopAsked, completing, refused, saves, requests, events,
                            server, asked>>
    BY <1>6 DEF Navigate
  <2>2. PICK h : h = [messages |-> page.messages, currentId |-> leaf]
    OBVIOUS
  <2>3. h \in Histories /\ h.messages = page.messages /\ InHistory(h) = InHistory(page)
    BY <2>2, PageTypes DEF LeavesUnder, InHistory
  <2>4. CASE ChangePage(h)
    BY <2>3, <2>4, ChangeAwaited DEF Waiters, PageChanged
  <2>5. CASE page' = h /\ UNCHANGED <<refused, saves, requests, events, server>>
    <3>1. Waiters' = Waiters
      BY <2>3, <2>5 DEF Waiters
    <3>2. Due' = Due
      BY <2>5 DEF Due, WorkingIds, Working, Waiting, server
    <3> QED
      BY <3>1, <3>2, AwaitedStays
  <2> QED
    BY <2>1, <2>2, <2>4, <2>5
<1>7. CASE Resave
  BY <1>7, ChangeAwaited DEF Resave, Waiters, Types, PageChanged
<1>8. CASE Stop
  BY <1>8 DEF Stop, Awaited, Waiters, Due, WorkingIds, Working, Waiting
<1>9. CASE Reload
  <2>1. \A m \in InHistory(stored) : stored.messages[m] \in Message
    BY HistoryFields DEF Types
  <2>2. Waiters' = {}
    BY ZenonT(60), <1>9, <2>1 DEF Reload, Waiters, InHistory, Message
  <2> QED
    BY <2>2 DEF Awaited
<1> QED
  BY <1>1, <1>2, <1>3, <1>4, <1>5, <1>6, <1>7, <1>8, <1>9 DEF User

LEMMA DisplayedAlike ==
  ASSUME NEW g \in Histories, NEW h \in Histories, SameTree(g, h), g.currentId = h.currentId
  PROVE  Displayed(g) = Displayed(h)
<1>1. CASE h.currentId \in InHistory(h)
  BY <1>1 DEF Displayed, SameTree
<1>2. CASE h.currentId \notin InHistory(h)
  BY <1>2 DEF Displayed, SameTree
<1> QED BY <1>1, <1>2

LEMMA EndsInTail ==
  ASSUME NEW ev \in Seq(Event), ev # <<>>, NEW m, EndsIn(ev, m)
  PROVE  EndsIn(Tail(ev), m) \/ (Head(ev).id = m /\ Head(ev).type \in {"done", "error", "cancel"})
<1>1. /\ Len(ev) \in Nat \ {0} /\ Len(Tail(ev)) = Len(ev) - 1 /\ Head(ev) = ev[1]
      /\ \A k \in 1 .. Len(ev) - 1 : Tail(ev)[k] = ev[k + 1]
  BY HeadTailProperties
<1>2. PICK i \in 1 .. Len(ev) : ev[i].id = m /\ ev[i].type \in {"done", "error", "cancel"}
  BY DEF EndsIn
<1>3. CASE i = 1
  BY <1>1, <1>2, <1>3
<1>4. CASE i # 1
  <2>1. i - 1 \in 1 .. Len(Tail(ev)) /\ Tail(ev)[i - 1] = ev[i]
    BY <1>1, <1>4
  <2> QED
    BY <1>2, <2>1 DEF EndsIn
<1> QED BY <1>3, <1>4

LEMMA EndsInLonger ==
  ASSUME NEW ev \in Seq(Event), NEW e \in Event
  PROVE  /\ \A m : EndsIn(ev, m) => EndsIn(Append(ev, e), m)
         /\ e.type \in {"done", "error", "cancel"} => EndsIn(Append(ev, e), e.id)
<1>1. /\ Len(ev) \in Nat /\ Len(Append(ev, e)) = Len(ev) + 1
      /\ \A i \in 1 .. Len(ev) : Append(ev, e)[i] = ev[i]
      /\ Append(ev, e)[Len(ev) + 1] = e
  BY AppendProperties
<1> QED BY <1>1 DEF EndsIn

LEMMA HandledAwaited ==
  ASSUME Types, Types', Awaited, seen \subseteq seen', HandleEvent
  PROVE  Awaited'
<1>1. PICK e : e = Head(events) /\ (Unknown(e) \/ TextEvent(e) \/ DoneEvent(e) \/ CancelEvent(e))
  BY DEF HandleEvent
<1>2. e \in Event /\ events # <<>> /\ events' = Tail(events) /\ events \in Seq(Event)
  BY <1>1 DEF HandleEvent, Types
<1>3. UNCHANGED <<saves, requests, refused, task>>
  BY DEF HandleEvent, server
<1>4. page \in Histories /\ page.currentId \in Ids \union {None}
  BY PageTypes DEF Types
<1>5. \A m \in Due : m \in Due' \/ (m = e.id /\ e.type \in {"done", "error", "cancel"})
  <2>1. WorkingIds' = WorkingIds
    BY <1>3 DEF WorkingIds, Working, Waiting
  <2>2. \A m : EndsIn(events, m) =>
          EndsIn(events', m) \/ (e.id = m /\ e.type \in {"done", "error", "cancel"})
    BY <1>1, <1>2, EndsInTail
  <2> QED
    BY <1>3, <2>1, <2>2 DEF Due
<1>6. /\ Waiters' \subseteq Waiters
      /\ e.type \in {"done", "error", "cancel"} => e.id \notin Waiters' \/ "elsewhere" \in seen'
  <2>1. CASE Unknown(e)
    BY <2>1 DEF Unknown, Waiters
  <2>2. CASE TextEvent(e)
    <3> DEFINE msg == [page.messages[e.id] EXCEPT !.text = e.text]
    <3>1. e.id \in InHistory(page) /\ e.type = "text" /\ page.messages[e.id] \in Message
      BY <2>2, PageTypes DEF TextEvent
    <3>2. msg.role = page.messages[e.id].role /\ msg.done = page.messages[e.id].done
      BY <3>1 DEF Message
    <3>3. page' = Put(page, e.id, msg, page.currentId)
      BY <2>2 DEF TextEvent, Changed
    <3> HIDE DEF msg
    <3>4. InHistory(page') = InHistory(page) /\ page'.messages[e.id] = msg
          /\ \A m \in InHistory(page) \ {e.id} : page'.messages[m] = page.messages[m]
      BY <3>1, <3>3 DEF Put, InHistory
    <3> QED
      BY <3>1, <3>2, <3>4 DEF Waiters
  <2>3. CASE DoneEvent(e)
    <3> DEFINE msg == [page.messages[e.id] EXCEPT !.text = e.text, !.done = TRUE]
    <3>1. e.id \in InHistory(page) /\ page.messages[e.id] \in Message
      BY <2>3, PageTypes DEF DoneEvent
    <3>2. msg.done
      BY <3>1 DEF Message
    <3>3. page' = Put(page, e.id, msg, page.currentId)
      BY <2>3 DEF DoneEvent, Changed
    <3> HIDE DEF msg
    <3>4. InHistory(page') = InHistory(page) /\ page'.messages[e.id] = msg
          /\ \A m \in InHistory(page) \ {e.id} : page'.messages[m] = page.messages[m]
      BY <3>1, <3>3 DEF Put, InHistory
    <3> QED
      BY <3>1, <3>2, <3>4 DEF Waiters
  <2>4. CASE CancelEvent(e)
    <3> DEFINE msg == [page.messages[e.id] EXCEPT !.error = @ \/ e.type = "error"]
               put == Put(page, e.id, msg, page.currentId)
    <3>1. e.id \in InHistory(page) /\ page.messages[e.id] \in Message
      BY <2>4, PageTypes DEF CancelEvent
    <3>2. /\ msg.role = page.messages[e.id].role /\ msg.parent = page.messages[e.id].parent
          /\ msg.children = page.messages[e.id].children /\ msg.done = page.messages[e.id].done
      BY <3>1 DEF Message
    <3>3. msg \in Message
      <4>1. 0 \in 0 .. MaxText
        BY BoundAssumption
      <4> QED
        BY <3>1, <4>1, MarkedMessage
    <3>4. /\ page' = DisplayedDone(put)
          /\ e.id \in Displayed(page) \/ page.messages[e.id].done \/ "elsewhere" \in seen'
      BY <2>4 DEF CancelEvent, MarkDisplayed
    <3> HIDE DEF msg
    <3>5. put \in Histories /\ SameTree(put, page) /\ put.currentId = page.currentId
      BY <1>2, <1>4, <3>1, <3>2, <3>3, PutSame, PutType DEF Event
    <3>6. /\ InHistory(put) = InHistory(page) /\ put.messages[e.id] = msg
          /\ \A m \in InHistory(page) \ {e.id} : put.messages[m] = page.messages[m]
      BY <3>1 DEF Put, InHistory
    <3> HIDE DEF put
    <3>7. Displayed(put) = Displayed(page)
      BY <1>4, <3>5, DisplayedAlike
    <3>8. /\ InHistory(page') = InHistory(put)
          /\ \A m \in InHistory(put) :
               /\ page'.messages[m].role = put.messages[m].role
               /\ page'.messages[m].done = (put.messages[m].done \/ m \in Displayed(put))
      BY <3>4, <3>5, DisplayedKeeps
    <3> QED
      BY ZenonT(60), <3>1, <3>2, <3>4, <3>6, <3>7, <3>8 DEF Waiters
  <2> QED
    BY <1>1, <2>1, <2>2, <2>3, <2>4
<1> QED
  BY <1>5, <1>6 DEF Awaited

LEMMA RefusedAwaited ==
  ASSUME Types, Awaited, seen \subseteq seen', NEW a \in refused, Refused(a)
  PROVE  Awaited'
<1> DEFINE msg == [Answer(asked[a]) EXCEPT !.done = TRUE, !.error = TRUE]
<1>1. /\ page' = Put(page, a, msg, a) /\ refused' = refused \ {a} /\ page \in Histories
      /\ UNCHANGED <<saves, requests, task, events>>
  BY DEF Refused, Types, server
<1>2. msg.done
  BY DEF Answer
<1> HIDE DEF msg
<1>3. /\ InHistory(page') = InHistory(page) \union {a} /\ page'.messages[a] = msg
      /\ \A m \in InHistory(page) \ {a} : page'.messages[m] = page.messages[m]
  BY <1>1, PutKeeps
<1>4. Waiters' \subseteq Waiters \ {a}
  BY <1>2, <1>3 DEF Waiters
<1>5. Due \ {a} \subseteq Due'
  BY <1>1 DEF Due, WorkingIds, Working, Waiting
<1> QED
  BY <1>4, <1>5 DEF Awaited

LEMMA ArrivedAwaited ==
  ASSUME Types, Awaited, seen \subseteq seen', NEW i \in 1 .. Len(saves), Arrive(i)
  PROVE  Awaited'
<1>1. /\ requests' = requests \union saves[i].sends
      /\ UNCHANGED <<page, refused, events, task>>
      /\ saves' = [k \in 1 .. Len(saves) - 1 |-> IF k < i THEN saves[k] ELSE saves[k + 1]]
  BY DEF Arrive
<1>2. Len(saves') = Len(saves) - 1 /\ Len(saves) \in Nat
  BY <1>1, TakenType DEF Types
<1>3. \A a : SentIn(saves, a) => SentIn(saves', a) \/ a \in saves[i].sends
  <2> SUFFICES ASSUME NEW a, NEW j \in 1 .. Len(saves), a \in saves[j].sends, j # i
               PROVE  SentIn(saves', a)
    BY DEF SentIn
  <2>1. CASE j < i
    <3>1. j \in 1 .. Len(saves') /\ saves'[j] = saves[j]
      BY <1>1, <1>2, <2>1
    <3> QED
      BY <3>1 DEF SentIn
  <2>2. CASE j > i
    <3>1. j - 1 \in 1 .. Len(saves') /\ saves'[j - 1] = saves[j]
      BY <1>1, <1>2, <2>2
    <3> QED
      BY <3>1 DEF SentIn
  <2> QED
    BY <2>1, <2>2
<1>4. WorkingIds = WorkingIn(saves, requests, task)
      /\ WorkingIds' = WorkingIn(saves', requests', task')
  BY DEF WorkingIds, Working, Waiting, WorkingIn, SentIn
<1>5. Due \subseteq Due'
  BY <1>1, <1>3, <1>4 DEF Due, WorkingIn
<1>6. Waiters' = Waiters
  BY <1>1 DEF Waiters
<1> QED
  BY <1>5, <1>6, AwaitedStays

LEMMA RequestedAwaited ==
  ASSUME Types, Awaited, seen \subseteq seen', NEW a \in requests, Request(a)
  PROVE  Awaited'
<1>1. UNCHANGED <<page, saves, events>> /\ refused \subseteq refused' /\ requests \ {a} \subseteq requests'
  BY DEF Request
<1>2. /\ \A x \in Ids : x # a => task'[x] = task[x]
      /\ a \in refused' \/ task'[a] = "started"
  BY DEF Request, Types
<1>3. UNCHANGED task \/ task'[a] = "started"
  BY DEF Request, Types
<1>4. Due \subseteq Due'
  BY <1>1, <1>2, <1>3 DEF Due, WorkingIds, Working, Waiting
<1>5. Waiters' = Waiters
  BY <1>1 DEF Waiters
<1> QED
  BY <1>4, <1>5, AwaitedStays

(* A step of a task: it goes on, or its end is on its way.                 *)
LEMMA TaskStepAwaited ==
  ASSUME Types, Awaited, NEW a \in Ids, NEW to, TaskStep(a, to),
         \/ UNCHANGED events
         \/ \E e \in Event : events' = Append(events, e),
         \/ to \in {"started", "running"}
         \/ task[a] = "background"
         \/ EndsIn(events', a)
  PROVE  Awaited'
<1>1. UNCHANGED <<page, saves, requests, refused, seen>> /\ task' = [task EXCEPT ![a] = to]
  BY DEF TaskStep
<1>2. task'[a] = to /\ \A x \in Ids : x # a => task'[x] = task[x]
  BY <1>1 DEF Types
<1>3. \A m : EndsIn(events, m) => EndsIn(events', m)
  BY EndsInLonger DEF Types
<1>4. Waiting' = Waiting
  BY <1>1 DEF Waiting
<1>5. Due \subseteq Due'
  BY <1>1, <1>2, <1>3, <1>4 DEF Due, WorkingIds, Working
<1>6. Waiters' = Waiters
  BY <1>1 DEF Waiters
<1> QED
  BY <1>1, <1>5, <1>6, AwaitedStays

LEMMA Emitted ==
  ASSUME Types', NEW a \in Ids, NEW type \in {"text", "done", "error", "cancel"}, Emit(a, type)
  PROVE  \E e \in Event : e.id = a /\ e.type = type /\ e.text = text'[a] /\ events' = Append(events, e)
<1>1. PICK e : e = [id |-> a, type |-> type, text |-> text'[a]]
  OBVIOUS
<1>2. text'[a] \in 0 .. MaxText
  BY DEF Types
<1>3. e \in Event /\ e.id = a /\ e.type = type /\ e.text = text'[a]
  BY <1>1, <1>2 DEF Event
<1>4. events' = Append(events, e)
  BY <1>1 DEF Emit
<1> QED
  BY <1>3, <1>4

LEMMA AnsweredAwaited ==
  ASSUME Types, Types', Awaited, NEW a \in Ids, Answering(a)
  PROVE  Awaited'
<1>1. CASE Begin(a)
  BY <1>1, TaskStepAwaited DEF Begin
<1>2. CASE Produce(a)
  <2>1. TaskStep(a, "running") /\ \E e \in Event : events' = Append(events, e)
    BY <1>2, Emitted DEF Produce
  <2> QED
    BY <2>1, TaskStepAwaited
<1>3. CASE Background(a)
  BY <1>3, TaskStepAwaited DEF Background
<1>4. ASSUME NEW type \in {"done", "error", "cancel"}, Emit(a, type),
             NEW to, TaskStep(a, to)
      PROVE  Awaited'
  <2>1. PICK e \in Event : e.id = a /\ e.type = type /\ events' = Append(events, e)
    BY <1>4, Emitted
  <2>2. EndsIn(events', a)
    BY <2>1, EndsInLonger DEF Types
  <2> QED
    BY <1>4, <2>1, <2>2, TaskStepAwaited
<1> QED
  BY <1>1, <1>2, <1>3, <1>4 DEF Answering, Finish, Fail, Cancel

LEMMA SystemAwaited ==
  ASSUME Types, Types', Awaited, seen \subseteq seen', System
  PROVE  Awaited'
<1>1. CASE Stopped
  <2>1. page' = DisplayedDone(page) /\ page \in Histories
    BY <1>1 DEF Stopped, MarkDisplayed, Types
  <2>2. Waiters' \subseteq Waiters
    BY <2>1, DisplayedKeeps DEF Waiters
  <2>3. Due' = Due
    BY <1>1 DEF Stopped, Due, WorkingIds, Working, Waiting, server
  <2> QED
    BY <2>2, <2>3, AwaitedStays
<1>2. ASSUME NEW c \in completing, Completed(c)
      PROVE  Awaited'
  <2>1. UNCHANGED <<page, requests, refused, events, task>>
    BY <1>2 DEF Completed, server
  <2>2. \E g : SentOrNot(saves', saves, g, {})
    <3>1. CASE saves' = Saved(page, {})
      <4>1. page \in Histories /\ saves \in Seq(Save) /\ {} \in SUBSET Ids
        BY DEF Types
      <4>2. PICK tt : tt = Append(saves, [history |-> page, sends |-> {}])
        OBVIOUS
      <4>3. /\ Len(tt) = Len(saves) + 1 /\ \A i \in 1 .. Len(saves) : tt[i] = saves[i]
            /\ tt[Len(tt)].history = page /\ tt[Len(tt)].sends = {}
        BY <4>1, <4>2, SavedType
      <4>4. SentOrNot(tt, saves, page, {})
        BY <4>3 DEF SentOrNot
      <4> QED
        BY <3>1, <4>2, <4>4 DEF Saved
    <3>2. CASE UNCHANGED saves
      BY <3>2 DEF SentOrNot
    <3> QED
      BY <1>2, <3>1, <3>2 DEF Completed
  <2>3. Due \subseteq Due'
    BY <2>1, <2>2, DueGrows
  <2>4. Waiters' = Waiters
    BY <2>1 DEF Waiters
  <2> QED
    BY <2>3, <2>4, AwaitedStays
<1> QED
  BY <1>1, <1>2, RefusedAwaited, HandledAwaited, ArrivedAwaited, RequestedAwaited,
     AnsweredAwaited DEF System

LEMMA AwaitedInit == Init => Awaited
<1> SUFFICES ASSUME Init
             PROVE  Waiters = {}
  BY DEF Awaited
<1>1. page = Loaded
  BY DEF Init
<1> QED
  BY <1>1 DEF Waiters, Loaded, InHistory, Answer, Prompt

(* When all is quiet no answer is left waiting for its end, for any number *)
(* of prompts, answers and models, whatever races there have been but that *)
(* the end came while another branch was displayed.                        *)
THEOREM AnswersSettle == Spec => []Settled
<1> DEFINE Inv == Types /\ Awaited
<1>1. Init => Inv
  BY TypesInit, AwaitedInit
<1>2. Inv /\ [Next]_vars => Inv'
  <2> SUFFICES ASSUME Inv, [Next]_vars
               PROVE  Inv'
    OBVIOUS
  <2>1. Types' /\ seen \subseteq seen'
    BY TypesNext, SeenGrows
  <2>2. CASE UNCHANGED vars
    BY <2>1, <2>2 DEF vars, Awaited, Waiters, Due, WorkingIds, Working, Waiting
  <2> QED
    BY <2>1, <2>2, UserAwaited, SystemAwaited DEF Next
<1>3. Inv => Settled
  <2> SUFFICES ASSUME Inv, Quiet, "elsewhere" \notin seen, NEW m \in Waiters
               PROVE  FALSE
    BY DEF Settled, Waiters
  <2>1. m \in Due
    BY DEF Awaited
  <2>2. m \notin WorkingIds
    BY DEF Quiet, WorkingIds, LiveIds, Live
  <2>3. events = <<>> /\ refused = {}
    BY DEF Quiet
  <2> QED
    BY <2>1, <2>2, <2>3 DEF Due, EndsIn
<1> HIDE DEF Inv
<1> QED
  BY <1>1, <1>2, <1>3, PTL DEF Spec

-----------------------------------------------------------------------------
(* The ancestors of a message, which Path computes recursively.            *)

LEMMA Least ==
  ASSUME NEW T, T \subseteq Nat, T # {}
  PROVE  \E x \in T : \A y \in T : ~(y < x)
<1> DEFINE R == OpToRel(<, Nat)
<1>1. \E x \in T : \A y \in T : <<y, x>> \notin R
  BY NatLessThanWellFounded, WFMin
<1> QED
  BY <1>1 DEF OpToRel

(* The equation that defines Path, as a function of f, has a solution: to  *)
(* each message the least set with it that is closed under parents.        *)
OneUp(h, f) ==
  [n \in Ids \union {None} |->
     IF n \in InHistory(h) THEN {n} \union f[h.messages[n].parent] ELSE {}]

Upward(h, X) ==
  X \subseteq InHistory(h) /\ \A n \in X : h.messages[n].parent \in InHistory(h) => h.messages[n].parent \in X

LEMMA PathSolved ==
  ASSUME NEW h \in Histories
  PROVE  \E f : f = OneUp(h, f)
<1> DEFINE Above(n) == {x \in InHistory(h) :
                          \A X \in SUBSET InHistory(h) : Upward(h, X) /\ n \in X => x \in X}
           f == [n \in Ids \union {None} |-> IF n \in InHistory(h) THEN Above(n) ELSE {}]
<1>1. \A n \in InHistory(h) : n \in Ids /\ h.messages[n].parent \in Ids \union {None}
  BY HistoryFields DEF Message
<1>2. ASSUME NEW n \in InHistory(h)
      PROVE  f[n] = {n} \union f[h.messages[n].parent]
  <2> DEFINE p == h.messages[n].parent
  <2>1. f[n] = Above(n) /\ f[p] = IF p \in InHistory(h) THEN Above(p) ELSE {}
    BY <1>1
  <2>2. n \in Above(n)
    OBVIOUS
  <2>3. f[p] \subseteq Above(n)
    BY <2>1 DEF Upward
  <2>4. Above(n) \subseteq {n} \union f[p]
    <3> DEFINE X == {n} \union f[p]
    <3>a. f[p] \subseteq InHistory(h) /\ (p \in InHistory(h) => p \in f[p])
      <4>1. CASE p \in InHistory(h)
        <5>1. f[p] = Above(p)
          BY <2>1, <4>1
        <5> HIDE DEF f
        <5> QED
          BY <5>1
      <4>2. CASE p \notin InHistory(h)
        <5>1. f[p] = {}
          BY <2>1, <4>2
        <5> HIDE DEF f
        <5> QED
          BY <4>2, <5>1
      <4> QED
        BY <4>1, <4>2
    <3>1. X \subseteq InHistory(h) /\ (p \in InHistory(h) => p \in X)
      <4> HIDE DEF f
      <4> QED
        BY <3>a
    <3>3. ASSUME NEW y \in f[p], h.messages[y].parent \in InHistory(h)
          PROVE  h.messages[y].parent \in f[p]
      BY <2>1, <3>3 DEF Upward
    <3>4. Upward(h, X)
      <4> HIDE DEF f
      <4> QED
        BY <3>1, <3>3 DEF Upward
    <3> QED
      BY <3>1, <3>4
  <2> HIDE DEF f, Above
  <2> QED
    BY <2>1, <2>2, <2>3, <2>4
<1>3. \A n \in Ids \union {None} : n \notin InHistory(h) => f[n] = {}
  OBVIOUS
<1>4. f = [n \in Ids \union {None} |-> f[n]]
  OBVIOUS
<1> HIDE DEF f
<1>5. f = OneUp(h, f)
  BY <1>2, <1>3, <1>4 DEF OneUp
<1> QED
  BY <1>5

LEMMA PathInHistory ==
  ASSUME NEW h \in Histories, Shape(h), NEW m \in InHistory(h)
  PROVE  Path(h, m) \subseteq InHistory(h)
<1> DEFINE f == CHOOSE g : g = OneUp(h, g)
           T == {n \in InHistory(h) : ~(f[n] \subseteq InHistory(h))}
<1>1. f = OneUp(h, f)
  BY PathSolved
<1>2. Path(h, m) = f[m]
  BY DEF Path, OneUp
<1> HIDE DEF f
<1>3. InHistory(h) \subseteq Ids /\ Ids \subseteq Nat /\ None \notin Ids
  BY HistoryFields DEF Ids, None
<1>4. ASSUME T # {}
      PROVE  FALSE
  <2>1. PICK n \in T : \A y \in T : ~(y < n)
    BY <1>3, <1>4, Least
  <2> DEFINE p == h.messages[n].parent
  <2>2. n \in InHistory(h) /\ p \in Ids \union {None}
    BY HistoryFields DEF Message
  <2>3. f[n] = {n} \union f[p]
    BY <1>1, <1>3, <2>2 DEF OneUp
  <2>4. p \in InHistory(h) => f[p] \subseteq InHistory(h)
    BY <2>1, <2>2, <1>3 DEF Shape
  <2>5. p \notin InHistory(h) => f[p] = {}
    BY <1>1, <2>2 DEF OneUp
  <2> QED
    BY <2>2, <2>3, <2>4, <2>5
<1> QED
  BY <1>2, <1>4

-----------------------------------------------------------------------------
(* What the page shows gets saved: the last history on its way has the     *)
(* page's tree; and when an answer has ended, its whole text is on its way *)
(* to the page, or it is shown, and saved or about to be.                  *)

Last == IF saves = <<>> THEN stored ELSE saves[Len(saves)].history

Carries(e, m) == e.id = m /\ e.type \in {"text", "done"}
Completes(e, m) == e.id = m /\ e.type = "done" /\ e.text = MaxText

NoneComes(ev, m) == \A i \in 1 .. Len(ev) : ~Carries(ev[i], m)
FullComes(ev, m) ==
  \E i \in 1 .. Len(ev) :
    Completes(ev[i], m) /\ \A j \in 1 .. Len(ev) : j > i => ~Carries(ev[j], m)

WillSave(m) == \E c \in completing : c.id = m /\ c.list \subseteq InHistory(page)

FullShown(m) ==
  /\ NoneComes(events, m)
  /\ page.messages[m].text = MaxText /\ page.messages[m].done
  /\ Last.messages[m].text = MaxText \/ WillSave(m)

Ended(m) == task[m] \in {"background", "done"}

LastTree ==
  /\ InHistory(Last) = InHistory(page)
  /\ \A m \in InHistory(page) :
       /\ Last.messages[m].parent = page.messages[m].parent
       /\ Last.messages[m].children = page.messages[m].children

TextsSent ==
  \A m \in InHistory(page) :
    /\ task[m] = "none" => Last.messages[m].text = page.messages[m].text
    /\ Ended(m) => FullComes(events, m) \/ FullShown(m)

EventsOfTasks == \A i \in 1 .. Len(events) : task[events[i].id] # "none"

Sent == Intact /\ "reloaded" \notin seen => LastTree /\ TextsSent

LEMMA ComesTail ==
  ASSUME NEW ev \in Seq(Event), ev # <<>>, NEW m
  PROVE  /\ NoneComes(ev, m) => NoneComes(Tail(ev), m) /\ ~Carries(Head(ev), m)
         /\ FullComes(ev, m) => \/ FullComes(Tail(ev), m)
                                \/ Completes(Head(ev), m) /\ NoneComes(Tail(ev), m)
<1>1. /\ Len(ev) \in Nat \ {0} /\ Len(Tail(ev)) = Len(ev) - 1 /\ Head(ev) = ev[1]
      /\ \A k \in 1 .. Len(ev) - 1 : Tail(ev)[k] = ev[k + 1]
  BY HeadTailProperties
<1>2. ASSUME NoneComes(ev, m)
      PROVE  NoneComes(Tail(ev), m) /\ ~Carries(Head(ev), m)
  BY <1>1, <1>2 DEF NoneComes
<1>3. ASSUME NEW i \in 1 .. Len(ev), Completes(ev[i], m),
             \A j \in 1 .. Len(ev) : j > i => ~Carries(ev[j], m)
      PROVE  FullComes(Tail(ev), m) \/ (Completes(Head(ev), m) /\ NoneComes(Tail(ev), m))
  <2>1. CASE i = 1
    BY <1>1, <1>3, <2>1 DEF NoneComes
  <2>2. CASE i # 1
    <3>1. i - 1 \in 1 .. Len(Tail(ev)) /\ Tail(ev)[i - 1] = ev[i]
      BY <1>1, <2>2
    <3>2. \A j \in 1 .. Len(Tail(ev)) : j > i - 1 => ~Carries(Tail(ev)[j], m)
      BY <1>1, <1>3
    <3> QED
      BY <1>3, <3>1, <3>2 DEF FullComes
  <2> QED
    BY <2>1, <2>2
<1> QED
  BY <1>2, <1>3 DEF FullComes

LEMMA ComesLonger ==
  ASSUME NEW ev \in Seq(Event), NEW e \in Event
  PROVE  /\ \A m : e.id # m => /\ NoneComes(ev, m) => NoneComes(Append(ev, e), m)
                               /\ FullComes(ev, m) => FullComes(Append(ev, e), m)
         /\ Completes(e, e.id) => FullComes(Append(ev, e), e.id)
<1>1. /\ Len(ev) \in Nat /\ Len(Append(ev, e)) = Len(ev) + 1
      /\ \A i \in 1 .. Len(ev) : Append(ev, e)[i] = ev[i]
      /\ Append(ev, e)[Len(ev) + 1] = e
  BY AppendProperties
<1>2. ASSUME NEW m, e.id # m
      PROVE  /\ NoneComes(ev, m) => NoneComes(Append(ev, e), m)
             /\ FullComes(ev, m) => FullComes(Append(ev, e), m)
  <2>1. ~Carries(e, m)
    BY <1>2 DEF Carries
  <2>2. \A j \in 1 .. Len(ev) + 1 : j \in 1 .. Len(ev) \/ j = Len(ev) + 1
    BY <1>1
  <2> QED
    BY <1>1, <2>1, <2>2 DEF NoneComes, FullComes
<1>3. ASSUME Completes(e, e.id)
      PROVE  FullComes(Append(ev, e), e.id)
  BY <1>1, <1>3 DEF FullComes
<1> QED
  BY <1>2, <1>3

LEMMA LastSaved ==
  ASSUME Types, NEW h \in Histories, NEW new \in SUBSET Ids,
         saves' = Append(saves, [history |-> h, sends |-> new])
  PROVE  Last' = h
<1>0. saves \in Seq(Save)
  BY DEF Types
<1>a. PICK tt : tt = saves'
  OBVIOUS
<1>b. /\ tt \in Seq(Save) /\ Len(tt) = Len(saves) + 1
      /\ tt[Len(tt)].history = h
  BY <1>0, <1>a, SavedType
<1>1. /\ saves' \in Seq(Save) /\ Len(saves') = Len(saves) + 1 /\ Len(saves) \in Nat
      /\ saves'[Len(saves')].history = h
  BY <1>0, <1>a, <1>b
<1>2. saves' # <<>>
  BY <1>1
<1> QED
  BY <1>1, <1>2 DEF Last

(* The page's history is sent. Messages that are new to it have no task.   *)
LEMMA SentAnew ==
  ASSUME TextsSent, Last' = page', UNCHANGED <<task, events>>,
         \A m \in InHistory(page') :
           \/ task[m] = "none"
           \/ /\ m \in InHistory(page) /\ page'.messages[m].text = page.messages[m].text
              /\ page'.messages[m].done = page.messages[m].done
  PROVE  LastTree' /\ TextsSent'
<1>1. LastTree'
  BY DEF LastTree
<1>2. ASSUME NEW m \in InHistory(page'), Ended(m)'
      PROVE  FullComes(events, m)' \/ FullShown(m)'
  <2>1. /\ m \in InHistory(page) /\ page'.messages[m].text = page.messages[m].text
        /\ page'.messages[m].done = page.messages[m].done /\ Ended(m)
    BY <1>2 DEF Ended
  <2>2. CASE FullComes(events, m)
    BY <2>2
  <2>3. CASE FullShown(m)
    BY <2>1, <2>3 DEF FullShown
  <2> QED
    BY <2>1, <2>2, <2>3 DEF TextsSent
<1> QED
  BY <1>1, <1>2 DEF TextsSent

(* Nothing is sent, and the page shows what it did, perhaps with more      *)
(* answers marked as done.                                                 *)
LEMMA SentStill ==
  ASSUME LastTree, TextsSent, Last' = Last, UNCHANGED task,
         SameTree(page', page),
         \A m \in InHistory(page) :
           /\ task[m] = "none" => page'.messages[m].text = page.messages[m].text
           /\ Ended(m) /\ (FullComes(events, m) \/ FullShown(m)) =>
                FullComes(events, m)' \/ FullShown(m)'
  PROVE  LastTree' /\ TextsSent'
<1>1. InHistory(page') = InHistory(page) /\ \A m : Ended(m)' = Ended(m)
  BY DEF SameTree, Ended
<1>2. LastTree'
  BY DEF LastTree, SameTree
<1> QED
  BY <1>1, <1>2 DEF TextsSent

LEMMA ShownStill ==
  ASSUME Last' = Last, UNCHANGED <<events, completing>>, InHistory(page') = InHistory(page),
         NEW m \in InHistory(page), page'.messages[m].text = page.messages[m].text,
         page.messages[m].done => page'.messages[m].done
  PROVE  FullComes(events, m) \/ FullShown(m) => FullComes(events, m)' \/ FullShown(m)'
  BY DEF FullShown, WillSave

LEMMA LastSame ==
  ASSUME UNCHANGED <<saves, stored>>
  PROVE  Last' = Last
  BY DEF Last

(* The numbers of new messages have no task.                               *)
LEMMA NoTask ==
  ASSUME Types, GoodNow, NEW m \in Ids, m >= nextId
  PROVE  task[m] = "none"
  BY DEF GoodNow, Good, Types, Ids

LEMMA SendSent ==
  ASSUME Types, GoodNow, LastTree, TextsSent, NEW h \in Histories, NEW u \in Ids,
         NEW first \in Nat \ {0}, first >= nextId, NEW n \in 1 .. MaxAnswers,
         SendMessage(h, u, first, n),
         \A m \in InHistory(h) :
           \/ task[m] = "none"
           \/ /\ m \in InHistory(page) /\ h.messages[m].text = page.messages[m].text
              /\ h.messages[m].done = page.messages[m].done
  PROVE  LastTree' /\ TextsSent'
<1> DEFINE new == first .. first + n - 1
           sent == Attached(h, new, Answer(u), first + n - 1)
<1>1. new \in SUBSET Ids /\ first + n - 1 \in Ids
  BY BoundAssumption DEF SendMessage, Ids
<1>2. page' = sent /\ saves' = Append(saves, [history |-> sent, sends |-> new])
  BY DEF SendMessage, Saved
<1>3. UNCHANGED <<task, events>>
  BY DEF SendMessage, server
<1>4. \A m \in new : task[m] = "none"
  <2> SUFFICES ASSUME NEW m \in new
               PROVE  task[m] = "none"
    OBVIOUS
  <2>1. m \in Ids /\ m >= nextId
    BY <1>1 DEF Types
  <2> QED
    BY <2>1, NoTask
<1> HIDE DEF new
<1>5. sent \in Histories /\ InHistory(sent) = InHistory(h) \union new
  BY <1>1, NewMessages, AttachedType
<1>6. \A m \in InHistory(h) \ new :
        sent.messages[m].text = h.messages[m].text /\ sent.messages[m].done = h.messages[m].done
  BY <1>1, NewMessages, AttachedKeeps
<1> HIDE DEF sent
<1>7. Last' = page'
  BY <1>1, <1>2, <1>5, LastSaved
<1>8. \A m \in InHistory(page') :
        \/ task[m] = "none"
        \/ /\ m \in InHistory(page) /\ page'.messages[m].text = page.messages[m].text
           /\ page'.messages[m].done = page.messages[m].done
  BY <1>2, <1>4, <1>5, <1>6
<1> QED
  BY <1>3, <1>7, <1>8, SentAnew

LEMMA NewPromptSent ==
  ASSUME Types, GoodNow, LastTree, TextsSent, NEW p \in Ids \union {None},
         NEW n \in 1 .. MaxAnswers, NewPrompt(p, n)
  PROVE  LastTree' /\ TextsSent'
<1>0. nextId \in Ids
  BY NewPromptTypes
<1>1. nextId \in Ids /\ nextId + 1 \in Nat \ {0} /\ nextId + 1 >= nextId
  BY <1>0 DEF Ids
<1> DEFINE msg == Prompt(p)
           h == Attached(page, {nextId}, msg, nextId)
<1>2. h \in Histories
  BY <1>1, PromptType
<1>3. SendMessage(h, nextId, nextId + 1, n)
  BY DEF NewPrompt
<1>4. msg \in Message /\ page \in Histories /\ nextId \in Ids
  BY <1>1, NewMessages DEF Types
<1> HIDE DEF msg
<1>5. InHistory(h) = InHistory(page) \union {nextId}
  BY <1>4, AttachedType
<1>6. \A m \in InHistory(page) \ {nextId} :
        /\ h.messages[m].text = page.messages[m].text
        /\ h.messages[m].done = page.messages[m].done
  <2>1. \A m \in InHistory(page) : page.messages[m] \in Message
    BY PageTypes
  <2> QED
    BY <2>1 DEF Attached, Message
<1>7. task[nextId] = "none"
  BY <1>1, NoTask DEF Types
<1> HIDE DEF h
<1>8. \A m \in InHistory(h) :
        \/ task[m] = "none"
        \/ /\ m \in InHistory(page) /\ h.messages[m].text = page.messages[m].text
           /\ h.messages[m].done = page.messages[m].done
  BY <1>5, <1>6, <1>7
<1> QED
  BY <1>1, <1>2, <1>3, <1>8, SendSent

LEMMA ChangedSent ==
  ASSUME Types, LastTree, TextsSent, NEW h \in Histories, PageChanged(h),
         \A m \in InHistory(h) :
           \/ task[m] = "none"
           \/ /\ m \in InHistory(page) /\ h.messages[m].text = page.messages[m].text
              /\ h.messages[m].done = page.messages[m].done
  PROVE  LastTree' /\ TextsSent'
<1>1. page' = h /\ UNCHANGED <<task, events>>
  BY ChangedFields DEF server
<1>2. /\ saves' \in Seq(Save) /\ Len(saves) \in Nat
      /\ Len(saves') = Len(saves) + 1 \/ Len(saves') = Len(saves) + 2
      /\ \A i \in Len(saves) + 1 .. Len(saves') : saves'[i].history = h
  BY ChangedSaves DEF Types
<1>3. saves'[Len(saves')].history = h /\ saves' # <<>>
  BY <1>2
<1>4. Last' = h
  BY <1>3 DEF Last
<1> QED
  BY <1>1, <1>4, SentAnew

LEMMA UserSent ==
  ASSUME Types, GoodNow, LastTree, TextsSent, "reloaded" \notin seen', User
  PROVE  LastTree' /\ TextsSent'
<1>1. ASSUME NEW n \in 1 .. MaxAnswers, SubmitPrompt(n)
      PROVE  LastTree' /\ TextsSent'
  BY <1>1, PageTypes, NewPromptSent DEF SubmitPrompt
<1>2. ASSUME NEW n \in 1 .. MaxAnswers, NEW m \in InHistory(page), EditPrompt(m, n)
      PROVE  LastTree' /\ TextsSent'
  BY <1>2, PageTypes, NewPromptSent DEF EditPrompt
<1>3. ASSUME NEW n \in 1 .. MaxAnswers, NEW m \in InHistory(page), Regenerate(m, n)
      PROVE  LastTree' /\ TextsSent'
  <2>1. /\ page.messages[m].parent \in InHistory(page)
        /\ SendMessage(page, page.messages[m].parent, nextId, n)
    BY <1>3 DEF Regenerate
  <2>2. page \in Histories /\ nextId \in Nat \ {0} /\ nextId >= nextId /\ InHistory(page) \subseteq Ids
    BY PageTypes DEF Types
  <2> QED
    BY <2>1, <2>2, SendSent
<1>4. ASSUME NEW m \in InHistory(page), EditAnswer(m)
      PROVE  LastTree' /\ TextsSent'
  <2> DEFINE msg == [page.messages[m] EXCEPT !.children = {}]
             h == Attached(page, {nextId}, msg, nextId)
  <2>a. page.messages[m] \in Message
    BY <1>4, PageTypes DEF EditAnswer
  <2>b. nextId \in Ids /\ page \in Histories
    BY <1>4, BoundAssumption DEF EditAnswer, Types, Ids
  <2>1. msg \in Message /\ {nextId} \in SUBSET Ids
    BY <2>a, <2>b DEF Message
  <2>2. ChangePage(h)
    BY <1>4 DEF EditAnswer
  <2> HIDE DEF msg
  <2>3. h \in Histories /\ InHistory(h) = InHistory(page) \union {nextId}
    BY <2>1, <2>b, AttachedType
  <2>4. \A x \in InHistory(page) \ {nextId} :
          h.messages[x].text = page.messages[x].text /\ h.messages[x].done = page.messages[x].done
    <3>1. \A x \in InHistory(page) : page.messages[x] \in Message
      BY PageTypes
    <3> QED
      BY <3>1 DEF Attached, Message
  <2>5. task[nextId] = "none"
    BY <2>b, NoTask DEF Types
  <2> HIDE DEF h
  <2> QED
    BY <2>2, <2>3, <2>4, <2>5, ChangedSent DEF PageChanged
<1>5. ASSUME NEW m \in InHistory(page), DeleteMessage(m)
      PROVE  LastTree' /\ TextsSent'
  <2>1. PICK leaf \in Ids : PageChanged(Removed(page, m, leaf)) /\ Removed(page, m, leaf) \in Histories
    BY <1>5, DeleteLeaf
  <2>2. PICK h : h = Removed(page, m, leaf)
    OBVIOUS
  <2>3. /\ InHistory(h) \subseteq InHistory(page)
        /\ \A x \in InHistory(h) :
             h.messages[x].text = page.messages[x].text /\ h.messages[x].done = page.messages[x].done
    BY <2>2, RemovedKeeps DEF Types
  <2> QED
    BY <2>1, <2>2, <2>3, ChangedSent
<1>6. ASSUME NEW m \in InHistory(page), NEW s \in InHistory(page), Navigate(m, s)
      PROVE  LastTree' /\ TextsSent'
  <2>1. PICK leaf \in LeavesUnder(page, s) :
          \/ ChangePage([messages |-> page.messages, currentId |-> leaf])
          \/ /\ page' = [messages |-> page.messages, currentId |-> leaf]
             /\ UNCHANGED <<taskIds, stopAsked, completing, refused, saves, requests, events,
                            server, asked>>
    BY <1>6 DEF Navigate
  <2>2. PICK h : h = [messages |-> page.messages, currentId |-> leaf]
    OBVIOUS
  <2>3. h \in Histories /\ h.messages = page.messages /\ InHistory(h) = InHistory(page)
    BY <2>2, PageTypes DEF LeavesUnder, InHistory
  <2>4. CASE ChangePage(h)
    BY <2>3, <2>4, ChangedSent DEF PageChanged
  <2>5. CASE page' = h /\ UNCHANGED <<completing, saves, events, server>>
    <3>1. Last' = Last /\ UNCHANGED <<task, completing, events>>
      BY <2>5, LastSame DEF server
    <3>2. SameTree(page', page) /\ page'.messages = page.messages /\ InHistory(page') = InHistory(page)
      BY <2>3, <2>5 DEF SameTree
    <3> QED
      BY <3>1, <3>2, SentStill, ShownStill
  <2> QED
    BY <2>1, <2>2, <2>4, <2>5
<1>7. CASE Resave
  BY <1>7, ChangedSent DEF Resave, Types, PageChanged
<1>8. CASE Stop
  <2>1. Last' = Last /\ UNCHANGED <<page, task, completing, events>>
    BY <1>8, LastSame DEF Stop
  <2>2. SameTree(page', page)
    BY <2>1 DEF SameTree
  <2> QED
    BY <2>1, <2>2, SentStill, ShownStill
<1>9. CASE Reload
  BY <1>9 DEF Reload
<1> QED
  BY <1>1, <1>2, <1>3, <1>4, <1>5, <1>6, <1>7, <1>8, <1>9 DEF User

(* What an event does to the texts and marks.                              *)
Marks(e) ==
  /\ completing \subseteq completing'
  /\ \A m \in InHistory(page) : m # e.id \/ e.type \notin {"text", "done"} => Stays(m)
  /\ e.id \in InHistory(page) /\ e.type = "done" =>
       /\ page'.messages[e.id].text = e.text /\ page'.messages[e.id].done
       /\ [id |-> e.id, list |-> Path(page, e.id)] \in completing'

LEMMA HandledMarks ==
  ASSUME Types, HandleEvent
  PROVE  \E e : e = Head(events) /\ Marks(e)
<1>1. PICK e : e = Head(events) /\ (Unknown(e) \/ TextEvent(e) \/ DoneEvent(e) \/ CancelEvent(e))
  BY DEF HandleEvent
<1> SUFFICES Marks(e)
  BY <1>1
<1>2. e \in Event /\ page \in Histories /\ page.currentId \in Ids \union {None}
  BY <1>1, PageTypes DEF HandleEvent, Types
<1>3. CASE Unknown(e)
  <2>1. e.id \notin InHistory(page) /\ UNCHANGED <<page, completing>>
    BY <1>3 DEF Unknown
  <2> QED
    BY <2>1 DEF Marks, Stays
<1>4. CASE TextEvent(e)
  <2> DEFINE msg == [page.messages[e.id] EXCEPT !.text = e.text]
  <2>1. e.id \in InHistory(page) /\ e.type = "text" /\ UNCHANGED completing
    BY <1>4 DEF TextEvent
  <2>2. page' = Put(page, e.id, msg, page.currentId)
    BY <1>4 DEF TextEvent, Changed
  <2> HIDE DEF msg
  <2>3. \A m \in InHistory(page) \ {e.id} : page'.messages[m] = page.messages[m]
    BY <2>2 DEF Put
  <2>4. \A m \in InHistory(page) \ {e.id} : Stays(m)
    BY <2>3 DEF Stays
  <2> QED
    BY <2>1, <2>4 DEF Marks
<1>5. CASE DoneEvent(e)
  <2> DEFINE msg == [page.messages[e.id] EXCEPT !.text = e.text, !.done = TRUE]
  <2>1. /\ e.id \in InHistory(page) /\ page.messages[e.id] \in Message /\ e.type = "done"
        /\ completing' = completing \union {[id |-> e.id, list |-> Path(page, e.id)]}
    BY <1>5, PageTypes DEF DoneEvent
  <2>2. msg.text = e.text /\ msg.done
    BY <2>1 DEF Message
  <2>3. page' = Put(page, e.id, msg, page.currentId)
    BY <1>5 DEF DoneEvent, Changed
  <2> HIDE DEF msg
  <2>4. /\ page'.messages[e.id] = msg
        /\ \A m \in InHistory(page) \ {e.id} : page'.messages[m] = page.messages[m]
    BY <2>1, <2>3 DEF Put
  <2>5. \A m \in InHistory(page) \ {e.id} : Stays(m)
    BY <2>4 DEF Stays
  <2> QED
    BY <2>1, <2>2, <2>4, <2>5 DEF Marks
<1>6. CASE CancelEvent(e)
  <2> DEFINE msg == [page.messages[e.id] EXCEPT !.error = @ \/ e.type = "error"]
             put == Put(page, e.id, msg, page.currentId)
  <2>1. e.id \in InHistory(page) /\ page.messages[e.id] \in Message /\ UNCHANGED completing
    BY <1>6, PageTypes DEF CancelEvent
  <2>2. /\ msg.text = page.messages[e.id].text /\ msg.done = page.messages[e.id].done
    BY <2>1 DEF Message
  <2>3. msg \in Message
    <3>1. 0 \in 0 .. MaxText
      BY BoundAssumption
    <3> QED
      BY <2>1, <3>1, MarkedMessage
  <2>4. page' = DisplayedDone(put) /\ e.type \in {"error", "cancel"}
    BY <1>6 DEF CancelEvent, MarkDisplayed
  <2> HIDE DEF msg
  <2>5. put \in Histories
    BY <1>2, <2>3, PutType DEF Event
  <2>6. /\ InHistory(put) = InHistory(page) /\ put.messages[e.id] = msg
        /\ \A m \in InHistory(page) \ {e.id} : put.messages[m] = page.messages[m]
    BY <2>1 DEF Put, InHistory
  <2> HIDE DEF put
  <2>7. /\ InHistory(page') = InHistory(put)
        /\ \A m \in InHistory(put) :
             /\ page'.messages[m].text = put.messages[m].text
             /\ page'.messages[m].done = (put.messages[m].done \/ m \in Displayed(put))
    BY <2>4, <2>5, DisplayedKeeps
  <2>8. ASSUME NEW m \in InHistory(page)
        PROVE  Stays(m)
    <3>1. put.messages[m].text = page.messages[m].text /\ put.messages[m].done = page.messages[m].done
      BY <2>2, <2>6
    <3>2. /\ page'.messages[m].text = put.messages[m].text
          /\ page'.messages[m].done = (put.messages[m].done \/ m \in Displayed(put))
      BY <2>6, <2>7
    <3> QED
      BY <3>1, <3>2 DEF Stays
  <2> QED
    BY <2>1, <2>4, <2>8 DEF Marks
<1> QED
  BY <1>1, <1>3, <1>4, <1>5, <1>6

LEMMA HandledSent ==
  ASSUME Types, GoodNow, LastTree, TextsSent, EventsOfTasks, HandleEvent
  PROVE  LastTree' /\ TextsSent'
<1>1. PICK e : e = Head(events) /\ Marks(e)
  BY HandledMarks
<1>2. /\ events \in Seq(Event) /\ events # <<>> /\ events' = Tail(events)
      /\ UNCHANGED <<saves, stored, task>>
  BY DEF HandleEvent, Types, server
<1>3. SameTree(page', page) /\ Last' = Last
  BY <1>2, HandledSame, LastSame
<1>4. task[e.id] # "none"
  <2>1. 1 \in 1 .. Len(events) /\ e = events[1]
    BY <1>1, <1>2
  <2> QED
    BY <2>1 DEF EventsOfTasks
<1>5. InHistory(page') = InHistory(page)
  BY <1>3 DEF SameTree
<1>6. ASSUME NEW m \in InHistory(page), FullComes(events, m)
      PROVE  FullComes(events, m)' \/ FullShown(m)'
  <2>1. CASE FullComes(Tail(events), m)
    BY <1>2, <2>1
  <2>2. CASE Completes(e, m) /\ NoneComes(Tail(events), m)
    <3>1. /\ page'.messages[m].text = MaxText /\ page'.messages[m].done
          /\ [id |-> m, list |-> Path(page, m)] \in completing'
      BY <1>1, <2>2 DEF Marks, Completes
    <3>2. Path(page, m) \subseteq InHistory(page)
      BY PageIsGood, PathInHistory DEF Types, Tree
    <3>3. WillSave(m)'
      BY <1>5, <3>1, <3>2 DEF WillSave
    <3> QED
      BY <1>2, <2>2, <3>1, <3>3 DEF FullShown
  <2> QED
    BY <1>1, <1>2, <1>6, <2>1, <2>2, ComesTail
<1>7. ASSUME NEW m \in InHistory(page), FullShown(m)
      PROVE  FullShown(m)'
  <2>1. NoneComes(Tail(events), m) /\ ~Carries(e, m)
    BY <1>1, <1>2, <1>7, ComesTail DEF FullShown
  <2>2. page'.messages[m].text = MaxText /\ page'.messages[m].done
    BY <1>1, <1>7, <2>1 DEF Marks, Stays, FullShown, Carries
  <2>3. WillSave(m) => WillSave(m)'
    BY <1>1, <1>5 DEF WillSave, Marks
  <2> QED
    BY <1>2, <1>3, <1>7, <2>1, <2>2, <2>3 DEF FullShown
<1>8. \A m \in InHistory(page) :
        task[m] = "none" => page'.messages[m].text = page.messages[m].text
  BY <1>1, <1>4 DEF Marks, Stays
<1> QED
  BY <1>2, <1>3, <1>6, <1>7, <1>8, SentStill

LEMMA CompletedSent ==
  ASSUME Types, LastTree, TextsSent, NEW c \in completing, Completed(c)
  PROVE  LastTree' /\ TextsSent'
<1>1. UNCHANGED <<page, task, events, stored>> /\ completing' = completing \ {c}
  BY DEF Completed, server
<1>2. CASE saves' = Saved(page, {})
  <2>1. Last' = page'
    BY <1>1, <1>2, LastSaved DEF Saved, Types
  <2> QED
    BY <1>1, <2>1, SentAnew
<1>3. CASE UNCHANGED saves /\ ~(c.list \subseteq InHistory(page))
  <2>1. SameTree(page', page) /\ Last' = Last
    BY <1>1, <1>3, LastSame DEF SameTree
  <2>2. \A m : WillSave(m) => WillSave(m)'
    BY <1>1, <1>3 DEF WillSave
  <2>3. \A m : FullShown(m) => FullShown(m)'
    BY <1>1, <2>1, <2>2 DEF FullShown
  <2> QED
    BY <1>1, <2>1, <2>3, SentStill
<1> QED
  BY <1>2, <1>3 DEF Completed

LEMMA ArrivedSent ==
  ASSUME Types, LastTree, TextsSent, Intact', NEW i \in 1 .. Len(saves), Arrive(i)
  PROVE  LastTree' /\ TextsSent'
<1>1. i = 1
  BY DEF Arrive, Intact
<1>2. PICK tt : tt = saves'
  OBVIOUS
<1>3. tt \in Seq(Save) /\ Len(tt) = Len(saves) - 1 /\ \A k \in 1 .. Len(tt) : tt[k] = saves[k + 1]
  BY <1>1, <1>2, TakenType DEF Arrive, Types
<1>4. stored' = saves[1].history /\ UNCHANGED <<page, task, events, completing>>
  BY <1>1 DEF Arrive
<1>5. Last' = Last
  <2>1. Len(saves) \in Nat \ {0} /\ saves # <<>>
    BY DEF Types
  <2>2. CASE Len(saves) = 1
    <3>1. tt = <<>>
      BY <1>3, <2>2
    <3> QED
      BY <1>2, <1>4, <2>1, <2>2, <3>1 DEF Last
  <2>3. CASE Len(saves) # 1
    <3>1. tt # <<>> /\ tt[Len(tt)] = saves[Len(saves)]
      BY <1>3, <2>1, <2>3
    <3> QED
      BY <1>2, <2>1, <3>1 DEF Last
  <2> QED
    BY <2>2, <2>3
<1>6. SameTree(page', page)
  BY <1>4 DEF SameTree
<1> QED
  BY <1>4, <1>5, <1>6, SentStill, ShownStill

LEMMA RequestedSent ==
  ASSUME Types, LastTree, TextsSent, NEW a \in requests, Request(a)
  PROVE  LastTree' /\ TextsSent'
<1>1. UNCHANGED <<page, saves, stored, events, completing>>
  BY DEF Request
<1>2. Last' = Last
  BY <1>1, LastSame
<1>3. \A m \in Ids : task'[m] = task[m] \/ task'[m] = "started"
  BY DEF Request, Types
<1>4. InHistory(page) \subseteq Ids
  BY PageTypes
<1>5. LastTree'
  BY <1>1, <1>2 DEF LastTree
<1>6. \A m \in InHistory(page) : /\ task'[m] = "none" => task[m] = "none"
                                 /\ Ended(m)' => Ended(m)
  BY <1>3, <1>4 DEF Ended
<1>7. \A m : FullShown(m) => FullShown(m)'
  BY <1>1, <1>2 DEF FullShown, WillSave
<1> QED
  BY <1>1, <1>2, <1>5, <1>6, <1>7 DEF TextsSent

LEMMA RefusedSent ==
  ASSUME Types, LastTree, TextsSent, Intact', NEW a \in refused, Refused(a)
  PROVE  LastTree' /\ TextsSent'
<1>1. UNCHANGED <<task, events, completing>> /\ Last' = Last
  BY LastSame DEF Refused, server
<1>2. SameTree(page', page) /\ InHistory(page') = InHistory(page)
  BY RefusedSame DEF SameTree
<1>3. \A m \in InHistory(page) : Stays(m)
  BY RefusedSame
<1> QED
  BY <1>1, <1>2, <1>3, SentStill, ShownStill DEF Stays

(* The events a task sends: at its end, its whole text.                    *)
LEMMA AnsweringEvents ==
  ASSUME Types, Types', NEW a \in Ids, Answering(a), NEW to, TaskStep(a, to)
  PROVE  /\ \/ UNCHANGED events
            \/ \E e \in Event : e.id = a /\ events' = Append(events, e)
         /\ to = "background" => FullComes(events', a)
         /\ to = "done" => UNCHANGED events /\ task[a] = "background"
<1>1. task' = [task EXCEPT ![a] = to] /\ task'[a] = to
  BY DEF TaskStep, Types
<1>2. CASE Finish(a)
  <2>1. /\ task'[a] = "background" /\ Emit(a, "done") /\ text'[a] = MaxText
    BY <1>2 DEF Finish, TaskStep, Types
  <2>2. PICK e \in Event : e.id = a /\ e.type = "done" /\ e.text = MaxText /\ events' = Append(events, e)
    BY <2>1, Emitted
  <2>3. Completes(e, e.id)
    BY <2>2 DEF Completes
  <2> QED
    BY <1>1, <2>1, <2>2, <2>3, ComesLonger DEF Types
<1>3. CASE Background(a)
  BY <1>1, <1>3 DEF Background, TaskStep, Types
<1>4. CASE Begin(a)
  BY <1>1, <1>4 DEF Begin, TaskStep, Types
<1>5. ASSUME NEW type \in {"text", "error", "cancel"}, Emit(a, type), task'[a] \notin {"background", "done"}
      PROVE  /\ \E e \in Event : e.id = a /\ events' = Append(events, e)
             /\ to \notin {"background", "done"}
  BY <1>1, <1>5, Emitted
<1>6. CASE Produce(a)
  BY <1>5, <1>6 DEF Produce, TaskStep, Types
<1>7. CASE Fail(a)
  BY <1>5, <1>7 DEF Fail, TaskStep, Types
<1>8. CASE Cancel(a)
  BY <1>5, <1>8 DEF Cancel, TaskStep, Types
<1> QED
  BY <1>2, <1>3, <1>4, <1>6, <1>7, <1>8 DEF Answering

LEMMA AnsweredSent ==
  ASSUME Types, Types', GoodNow, LastTree, TextsSent, NEW a \in Ids, Answering(a)
  PROVE  LastTree' /\ TextsSent'
<1>1. PICK to : TaskStepped(a, to)
  BY AnsweredSame
<1>2. /\ to # "none" /\ SameTree(stored', stored)
      /\ \A m \in InHistory(stored) :
           m # a \/ to = "done" => stored'.messages[m].text = stored.messages[m].text
      /\ UNCHANGED <<page, saves, completing>> /\ task' = [task EXCEPT ![a] = to]
      /\ TaskStep(a, to)
  BY <1>1 DEF TaskStepped, TaskStep
<1>3. task'[a] = to /\ \A m \in Ids : m # a => task'[m] = task[m]
  BY <1>2 DEF Types
<1>4. InHistory(page) \subseteq Ids
  BY PageTypes
<1>5. /\ InHistory(Last') = InHistory(Last)
      /\ \A m \in InHistory(Last) :
           /\ Last'.messages[m].parent = Last.messages[m].parent
           /\ Last'.messages[m].children = Last.messages[m].children
           /\ m # a \/ to = "done" => Last'.messages[m].text = Last.messages[m].text
  <2>1. CASE saves = <<>>
    <3>1. Last = stored /\ Last' = stored'
      BY <1>2, <2>1 DEF Last
    <3> QED
      BY <1>2, <3>1 DEF SameTree
  <2>2. CASE saves # <<>>
    BY <1>2, <2>2 DEF Last
  <2> QED
    BY <2>1, <2>2
<1>6. LastTree'
  BY <1>2, <1>5 DEF LastTree
<1>7. \A m \in InHistory(page) : m # a \/ to = "done" => Last'.messages[m].text = Last.messages[m].text
  BY <1>5 DEF LastTree
<1>8. ASSUME NEW m \in InHistory(page), m # a, FullComes(events, m) \/ FullShown(m)
      PROVE  FullComes(events, m)' \/ FullShown(m)'
  <2>1. /\ NoneComes(events, m) => NoneComes(events', m)
        /\ FullComes(events, m) => FullComes(events', m)
    <3>1. CASE UNCHANGED events
      BY <3>1
    <3>2. ASSUME NEW e \in Event, e.id = a, events' = Append(events, e)
          PROVE  /\ NoneComes(events, m) => NoneComes(events', m)
                 /\ FullComes(events, m) => FullComes(events', m)
      BY <1>8, <3>2, ComesLonger DEF Types
    <3> QED
      BY <1>2, <3>1, <3>2, AnsweringEvents
  <2> QED
    BY <1>2, <1>7, <1>8, <2>1 DEF FullShown, WillSave
<1>9. ASSUME a \in InHistory(page), Ended(a)'
      PROVE  FullComes(events, a)' \/ FullShown(a)'
  <2>1. CASE to = "background"
    BY <1>2, <2>1, AnsweringEvents
  <2>2. CASE to = "done"
    <3>1. UNCHANGED events /\ Ended(a)
      BY <1>2, <2>2, AnsweringEvents DEF Ended
    <3>2. FullComes(events, a) \/ FullShown(a)
      BY <1>9, <3>1 DEF TextsSent
    <3> QED
      BY <1>2, <1>7, <1>9, <2>2, <3>1, <3>2 DEF FullShown, WillSave
  <2> QED
    BY <1>3, <1>9, <2>1, <2>2 DEF Ended
<1>10. ASSUME NEW m \in InHistory(page)
       PROVE  /\ task'[m] = "none" => Last'.messages[m].text = page.messages[m].text
              /\ Ended(m)' => FullComes(events, m)' \/ FullShown(m)'
  <2>1. CASE m = a
    BY <1>2, <1>3, <1>9, <2>1
  <2>2. CASE m # a
    <3>1. task'[m] = task[m] /\ (Ended(m)' => Ended(m))
      BY <1>3, <1>4, <2>2 DEF Ended
    <3> QED
      BY <1>7, <1>8, <2>2, <3>1 DEF TextsSent
  <2> QED
    BY <2>1, <2>2
<1> QED
  BY <1>2, <1>6, <1>10 DEF TextsSent

LEMMA SystemSent ==
  ASSUME Types, Types', GoodNow, LastTree, TextsSent, EventsOfTasks, Intact', System
  PROVE  LastTree' /\ TextsSent'
<1>1. CASE Stopped
  <2>1. page' = DisplayedDone(page) /\ page \in Histories
    BY <1>1 DEF Stopped, MarkDisplayed, Types
  <2>2. UNCHANGED <<task, events, completing>> /\ Last' = Last
    BY <1>1, LastSame DEF Stopped, server
  <2>3. SameTree(page', page) /\ InHistory(page') = InHistory(page)
    BY <2>1, DisplayedSame DEF SameTree
  <2>4. \A m \in InHistory(page) : /\ page'.messages[m].text = page.messages[m].text
                                   /\ page.messages[m].done => page'.messages[m].done
    BY <2>1, DisplayedKeeps
  <2> QED
    BY <2>2, <2>3, <2>4, SentStill, ShownStill
<1> QED
  BY <1>1, CompletedSent, RefusedSent, HandledSent, ArrivedSent, RequestedSent,
     AnsweredSent DEF System

LEMMA EventIds ==
  ASSUME Types
  PROVE  \A i \in 1 .. Len(events) : events[i].id \in Ids
<1>1. \A i \in 1 .. Len(events) : events[i] \in Event
  BY DEF Types
<1> QED
  BY <1>1 DEF Event

LEMMA EventsOfTasksStep ==
  ASSUME Types, Types', EventsOfTasks, [Next]_vars
  PROVE  EventsOfTasks'
<1>1. ASSUME UNCHANGED <<events, task>>
      PROVE  EventsOfTasks'
  BY <1>1 DEF EventsOfTasks
<1>2. ASSUME NEW a \in Ids, NEW to, to # "none", task' = [task EXCEPT ![a] = to],
             \/ UNCHANGED events
             \/ \E e \in Event : e.id = a /\ events' = Append(events, e)
      PROVE  EventsOfTasks'
  <2>1. task'[a] = to /\ \A m \in Ids : m # a => task'[m] = task[m]
    BY <1>2 DEF Types
  <2>2. CASE UNCHANGED events
    <3>1. \A i \in 1 .. Len(events) : events[i].id \in Ids
      BY EventIds
    <3> QED
      BY <1>2, <2>1, <2>2, <3>1 DEF EventsOfTasks
  <2>3. ASSUME NEW e \in Event, e.id = a, events' = Append(events, e)
        PROVE  EventsOfTasks'
    <3>1. \A i \in 1 .. Len(events) : events[i].id \in Ids
      BY EventIds
    <3>2. /\ Len(events) \in Nat /\ Len(events') = Len(events) + 1
          /\ \A i \in 1 .. Len(events) : events'[i] = events[i]
          /\ events'[Len(events) + 1] = e
      BY <2>3, AppendProperties DEF Types
    <3>3. \A i \in 1 .. Len(events') : i \in 1 .. Len(events) \/ i = Len(events) + 1
      BY <3>2
    <3> QED
      BY <1>2, <2>1, <2>3, <3>1, <3>2, <3>3 DEF EventsOfTasks
  <2> QED
    BY <1>2, <2>2, <2>3
<1>3. CASE User
  <2>1. events' = <<>> \/ UNCHANGED <<events, task>>
    BY <1>3 DEF User, SubmitPrompt, EditPrompt, NewPrompt, Regenerate, SendMessage, EditAnswer,
           DeleteMessage, Navigate, Resave, ChangePage, ChangePageTwice, Stop, Reload, server
  <2> QED
    BY <1>1, <2>1 DEF EventsOfTasks
<1>4. CASE HandleEvent
  <2>1. /\ Len(events) \in Nat \ {0} /\ Len(events') = Len(events) - 1 /\ UNCHANGED task
        /\ \A k \in 1 .. Len(events) - 1 : events'[k] = events[k + 1]
    BY <1>4, HeadTailProperties DEF HandleEvent, Types, server
  <2> QED
    BY <2>1 DEF EventsOfTasks
<1>5. ASSUME NEW a \in requests, Request(a)
      PROVE  EventsOfTasks'
  <2>1. a \in Ids /\ UNCHANGED events
    BY <1>5 DEF Request, Types
  <2>2. task' = [task EXCEPT ![a] = "started"] \/ UNCHANGED task
    BY <1>5 DEF Request
  <2> QED
    BY <1>1, <1>2, <2>1, <2>2
<1>6. ASSUME NEW a \in Ids, Answering(a)
      PROVE  EventsOfTasks'
  <2>1. PICK to : to # "none" /\ TaskStep(a, to)
    BY <1>6 DEF Answering, Begin, Produce, Finish, Background, Fail, Cancel
  <2>2. task' = [task EXCEPT ![a] = to]
    BY <2>1 DEF TaskStep
  <2> QED
    BY <1>2, <1>6, <2>1, <2>2, AnsweringEvents
<1>7. ASSUME System
      PROVE  EventsOfTasks'
  BY <1>1, <1>4, <1>5, <1>6, <1>7
     DEF System, Stopped, MarkDisplayed, Refused, Completed, Arrive, server
<1> QED
  BY <1>1, <1>3, <1>7 DEF Next, vars

LEMMA SentInit == Init => EventsOfTasks /\ Sent
<1> SUFFICES ASSUME Init
             PROVE  EventsOfTasks /\ Sent
  OBVIOUS
<1>1. /\ page = Loaded /\ Last = Loaded /\ \A m \in Ids : task[m] = "none"
      /\ Len(events) = 0
  BY DEF Init, Last
<1>2. InHistory(page) \subseteq Ids
  BY TypesInit, PageTypes
<1>3. LastTree
  BY <1>1 DEF LastTree
<1>4. TextsSent
  BY <1>1, <1>2 DEF TextsSent, Ended
<1> QED
  BY <1>1, <1>3, <1>4 DEF EventsOfTasks, Sent

(* When all is quiet, what a reload would find is what the page shows: the *)
(* same tree, and the whole text of every answer that has neither failed   *)
(* nor been stopped, though the row is written by the page, which sends    *)
(* histories it took before the answers were complete, and by the tasks.   *)
THEOREM RestIsSaved == Spec => []SavedAtRest
<1> DEFINE Inv == IInv /\ EventsOfTasks /\ Sent
<1>1. Init => Inv
  BY InitGood, SentInit
<1>2. Inv /\ [Next]_vars => Inv'
  <2> SUFFICES ASSUME Inv, [Next]_vars
               PROVE  Inv'
    OBVIOUS
  <2>1. IInv' /\ EventsOfTasks' /\ Types /\ Types' /\ seen \subseteq seen'
    BY NextGood, EventsOfTasksStep, TypesNext, SeenGrows DEF IInv
  <2>2. ASSUME Intact', "reloaded" \notin seen'
        PROVE  LastTree' /\ TextsSent'
    <3>1. GoodNow /\ LastTree /\ TextsSent
      BY <2>1, <2>2, StepSame DEF IInv, Sent
    <3>2. CASE UNCHANGED vars
      BY <3>1, <3>2 DEF vars, LastTree, TextsSent, Last, Ended, FullShown, WillSave
    <3> QED
      BY <2>1, <2>2, <3>1, <3>2, UserSent, SystemSent DEF Next
  <2> QED
    BY <2>1, <2>2 DEF Sent
<1>3. Inv => SavedAtRest
  <2> SUFFICES ASSUME Inv, Quiet, Intact, "reloaded" \notin seen
               PROVE  /\ InHistory(stored) = InHistory(page)
                      /\ \A m \in InHistory(page) :
                           /\ stored.messages[m].parent = page.messages[m].parent
                           /\ stored.messages[m].children = page.messages[m].children
                           /\ task[m] \notin {"failed", "cancelled"} =>
                                stored.messages[m].text = page.messages[m].text
    BY DEF SavedAtRest
  <2>1. Last = stored /\ Len(events) = 0 /\ completing = {} /\ LiveIds = {}
    BY DEF Quiet, Last
  <2>2. LastTree /\ TextsSent
    BY DEF Sent
  <2>3. ASSUME NEW m \in InHistory(page), task[m] \notin {"failed", "cancelled"}
        PROVE  stored.messages[m].text = page.messages[m].text
    <3>1. m \in Ids
      BY PageTypes DEF IInv
    <3>2. task[m] \in {"none", "done"}
      BY <2>1, <2>3, <3>1 DEF LiveIds, Live, Working, IInv, Types, EndedOrNot
    <3>3. CASE task[m] = "done"
      BY <2>1, <2>2, <3>3 DEF TextsSent, Ended, FullComes, FullShown, WillSave
    <3> QED
      BY <2>1, <2>2, <3>2, <3>3 DEF TextsSent
  <2> QED
    BY <2>1, <2>2, <2>3 DEF LastTree
<1> HIDE DEF Inv
<1> QED
  BY <1>1, <1>2, <1>3, PTL DEF Spec

=============================================================================
