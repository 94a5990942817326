-------------------------- MODULE ChatLibrary_proofs --------------------------
(***************************************************************************)
(* What ChatLibrary keeps, for any number of chats, folders, tags, threads *)
(* and shares. There is an invariant of its own for each of the            *)
(* properties; none needs another.                                         *)
(***************************************************************************)
EXTENDS ChatLibrary, TLAPS

(* A link on its way: a chat between the two transactions of a handler.    *)
LinkOk(c) ==
  /\ job.at = "link" /\ job.chat = c =>
       share[c] = 0 /\ copied[c] # 0 /\ copies[c] = {copied[c]}
  /\ job.at = "unlink" /\ job.chat = c => copies[c] = {}
  /\ job.at = "uncopy" /\ job.chat = c => share[c] = 0
  /\ job.at = "wipe" /\ c \in chats => copies[c] = {}
  /\ \/ job.at \in {"link", "unlink", "uncopy"} /\ job.chat = c
     \/ job.at = "wipe" /\ c \in chats
     \/ copies[c] = (IF share[c] = 0 THEN {} ELSE {share[c]})

LinksInv == Never({"crash", "unsaved", "contents"}) => \A c \in Chat : LinkOk(c)

(* A tag has its row, is about to get it back, or loses it together with   *)
(* its last chat,                                                          *)
HasRow(c, t) ==
  \/ t \in rows
  \/ job.at = "restore" /\ t \in job.tags
  \/ job.at = "release" /\ c = job.chat

(* what is left of a handler gives a tag its row before its chat,          *)
TagJobOk ==
  /\ job.at = "tags" => job.put \subseteq rows /\ (job.put # {} => job.drop = {})
  /\ job.at = "release" =>
       /\ job.tags \subseteq tags[job.chat]
       /\ job.tags # {} => job.chat \in chats \ archived

(* and no chat gets a tag while a thread deletes its row.                  *)
PurgeOk ==
  /\ \A k \in Thread : threads[k].at = "purge" => With(threads[k].tag) = {}
  /\ Purging => /\ job.at = "tags" => job.add = {} /\ job.put = {}
                /\ job.at = "restore" => job.tags = {}

TagsInv ==
  Never({"crash", "unsaved", "raced", "untagged", "archived"})
    => /\ \A c \in chats \ archived : \A t \in tags[c] : HasRow(c, t)
       /\ TagJobOk
       /\ PurgeOk

(* The parent of a folder is a folder,                                     *)
ParentsKnown == \A f \in folders : parent[f] \in folders \union {NoFolder}
ParentsInv == Never({"astray"}) => ParentsKnown

(* and no set of folders is closed under it.                               *)
WellFounded == \A S \in SUBSET folders : S # {} => \E g \in S : parent[g] \notin S
TreeInv == Never({"astray", "looped"}) => WellFounded

(* While a folder is inserted, its name stays free, if a lookup finds it.  *)
NamesDiffer == \A f, g \in folders : f # g /\ parent[f] = parent[g] /\ name[f] = name[g]
                                     => name[f] \notin Matched[name[f]]
InsertOk ==
  /\ \A k, l \in Thread : threads[k].at = "insert" /\ threads[l].at = "insert" => k = l
  /\ \A k \in Thread : threads[k].at = "insert"
       => \A f \in Siblings(NoFolder) :
            name[f] = threads[k].name => name[f] \notin Matched[name[f]]

NamesInv == Never({"raced", "blind", "collided"}) => NamesDiffer /\ InsertOk

(* A chat is in a folder, or in one whose chats are still to be seen to.   *)
Gone == IF job.at \in {"prune", "empty"} THEN job.gone ELSE {}
FoundInv ==
  Never({"crash", "failed", "astray", "looped"})
    => \A c \in chats : folderOf[c] \in folders \union {NoFolder} \union Gone

(* The type invariant holds initially and is kept by each kind of step.    *)
LEMMA TypeInit == Init => TypeOK
BY MaxSharesAssumption DEF Init, TypeOK, Job, ThreadJob, Idle

LEMMA FinishedType ==
  ASSUME NEW j \in TagJob
  PROVE  Finished(j) \in Job
BY DEF Finished, Job

LEMMA InsertType ==
  ASSUME TypeOK, NEW c \in Chat, NEW f \in Folder \union {NoFolder}, NEW ts \in SUBSET Tag,
         Insert(c, f, ts)
  PROVE  TypeOK'
BY DEF TypeOK, Insert, Note, Event, links, tree

LEMMA RemoveType ==
  ASSUME TypeOK, NEW S \in SUBSET Chat, Remove(S)
  PROVE  /\ chats' \subseteq Chat /\ archived' \subseteq chats' /\ chats' \subseteq chats
         /\ folderOf' \in [Chat -> Folder \union {NoFolder}]
         /\ tags' \in [Chat -> SUBSET Tag]
         /\ share' \in [Chat -> 0 .. MaxShares]
BY MaxSharesAssumption DEF TypeOK, Remove

(* A job that lets a failed write pass.                                    *)
LEMMA SkipType ==
  ASSUME TypeOK
  PROVE  /\ \A t : job.at \in {"release", "restore"} =>
              [job EXCEPT !.tags = @ \ {t}] \in Job /\ [job EXCEPT !.tags = @ \ {t}].at = job.at
         /\ job.at = "tags" =>
              /\ job \in TagJob
              /\ \A t : /\ [job EXCEPT !.drop = @ \ {t}] \in TagJob
                        /\ [job EXCEPT !.add = @ \ {t}] \in TagJob
              /\ [job EXCEPT !.put = {}] \in TagJob
         /\ \A f : job.at = "empty" =>
              [job EXCEPT !.gone = @ \ {f}] \in Job /\ [job EXCEPT !.gone = @ \ {f}].at = "empty"
<1>1. ASSUME job.at = "release"
      PROVE  job \in [at : {"release"}, chat : Chat, tags : SUBSET Tag]
  BY <1>1 DEF TypeOK, Job, TagJob, Idle
<1>2. ASSUME job.at = "restore"
      PROVE  job \in [at : {"restore"}, tags : SUBSET Tag]
  BY <1>2 DEF TypeOK, Job, TagJob, Idle
<1>3. ASSUME job.at = "tags"
      PROVE  job \in TagJob
  BY <1>3 DEF TypeOK, Job, Idle
<1>4. ASSUME job.at = "empty"
      PROVE  job \in [at : {"empty"}, gone : SUBSET Folder, contents : BOOLEAN]
  BY <1>4 DEF TypeOK, Job, TagJob, Idle
<1>5. ASSUME NEW t, job.at \in {"release", "restore"}
      PROVE  [job EXCEPT !.tags = @ \ {t}] \in Job /\ [job EXCEPT !.tags = @ \ {t}].at = job.at
  <2>1. CASE job.at = "release"
    BY <1>1, <2>1 DEF Job
  <2>2. CASE job.at = "restore"
    BY <1>2, <2>2 DEF Job
  <2> QED BY <1>5, <2>1, <2>2
<1>6. ASSUME NEW t, job.at = "tags"
      PROVE  /\ [job EXCEPT !.drop = @ \ {t}] \in TagJob
             /\ [job EXCEPT !.add = @ \ {t}] \in TagJob
             /\ [job EXCEPT !.put = {}] \in TagJob
  BY <1>3, <1>6 DEF TagJob
<1>7. ASSUME NEW f, job.at = "empty"
      PROVE  [job EXCEPT !.gone = @ \ {f}] \in Job /\ [job EXCEPT !.gone = @ \ {f}].at = "empty"
  BY <1>4, <1>7 DEF Job
<1> QED BY <1>3, <1>5, <1>6, <1>7

LEMMA ChatRequestType ==
  ASSUME TypeOK, NEW c \in Chat, ChatRequest(c)
  PROVE  TypeOK'
<1>1. ASSUME NEW f \in Folder \union {NoFolder}, CreateNewChat(c, f)
      PROVE  TypeOK'
  BY <1>1, InsertType DEF CreateNewChat
<1>2. ASSUME NEW f \in Folder \union {NoFolder}, MoveChat(c, f)
      PROVE  TypeOK'
  BY <1>2 DEF TypeOK, MoveChat, Note, Event, links, tree
<1>3. ASSUME NEW f \in Folder \union {NoFolder}, NEW ts \in SUBSET Tag, ImportChat(c, f, ts)
      PROVE  TypeOK'
  BY <1>3, InsertType DEF ImportChat
<1>4. ASSUME NEW d \in Chat, CloneChat(c, d)
      PROVE  TypeOK'
  <2>1. folderOf[d] \in Folder \union {NoFolder} /\ tags[d] \in SUBSET Tag
    BY DEF TypeOK
  <2> QED BY <1>4, <2>1, InsertType DEF CloneChat
<1>5. ASSUME NEW t \in Tag, AddTag(c, t)
      PROVE  TypeOK'
  <2>1. job' \in Job
    BY <1>5, FinishedType DEF AddTag, TagWork, TagJob
  <2> QED BY <1>5, <2>1 DEF TypeOK, AddTag, Note, Event, shelf, links, tree
<1>6. ASSUME NEW ts \in SUBSET Tag, DeleteTags(c, ts)
      PROVE  TypeOK'
  <2>1. job' \in Job
    BY <1>6, FinishedType DEF DeleteTags, TagWork, TagJob
  <2> QED BY <1>6, <2>1 DEF TypeOK, DeleteTags, links, tree
<1>7. ASSUME NEW ts \in SUBSET Tag, ReplaceTags(c, ts)
      PROVE  TypeOK'
  <2>1. job' \in Job
    BY <1>7, FinishedType DEF ReplaceTags, TagWork, TagJob, TypeOK
  <2> QED BY <1>7, <2>1 DEF TypeOK, ReplaceTags, Note, Event, links, tree
<1>8. ASSUME Archive(c)
      PROVE  TypeOK'
  <2>1. job' \in Job
    BY <1>8, FinishedType DEF Archive, TagWork, TagJob, TypeOK
  <2> QED BY <1>8, <2>1 DEF TypeOK, Archive, links, tree
<1>9. ASSUME Unarchive(c)
      PROVE  TypeOK'
  BY <1>9 DEF TypeOK, Unarchive, Job, Note, Event, links, tree
<1>10. ASSUME Share(c)
       PROVE  TypeOK'
  BY <1>10, MaxSharesAssumption DEF TypeOK, Share, Job, shelf, links, tree
<1>11. ASSUME Unshare(c)
       PROVE  TypeOK'
  BY <1>11, MaxSharesAssumption DEF TypeOK, Unshare, Job, shelf, links, tree
<1>12. ASSUME DeleteChat(c)
       PROVE  TypeOK'
  BY <1>12 DEF TypeOK, DeleteChat, Job, Note, Event, shelf, links, tree
<1>13. ASSUME UnshareFails(c)
       PROVE  TypeOK'
  BY <1>13 DEF TypeOK, UnshareFails, Job, Event, shelf, links, tree
<1> QED
  <2>1. \A ts \in {{t} : t \in Tag} \union {tags[c]} : ts \in SUBSET Tag
    BY DEF TypeOK
  <2> QED
    BY <1>1, <1>2, <1>3, <1>4, <1>5, <1>6, <1>7, <1>8, <1>9, <1>10, <1>11, <1>12, <1>13, <2>1
    DEF ChatRequest

LEMMA FolderRequestType ==
  ASSUME TypeOK, NEW f \in Folder, FolderRequest(f)
  PROVE  TypeOK'
<1>1. ASSUME NEW n \in Name, RenameFolder(f, n)
      PROVE  TypeOK'
  BY <1>1 DEF TypeOK, RenameFolder, Note, Event, shelf, links
<1>2. ASSUME NEW p \in Folder \union {NoFolder}, MoveFolder(f, p)
      PROVE  TypeOK'
  BY <1>2 DEF TypeOK, MoveFolder, Note, Event, shelf, links
<1>3. ASSUME NEW contents \in BOOLEAN, DeleteFolder(f, contents)
      PROVE  TypeOK'
  BY <1>3 DEF TypeOK, DeleteFolder, Job, shelf, links, tree
<1> QED BY <1>1, <1>2, <1>3 DEF FolderRequest

LEMMA JobStepType ==
  ASSUME TypeOK, JobStep
  PROVE  TypeOK'
<1>1. ASSUME NEW t \in Tag, ReleaseTag(t)
      PROVE  TypeOK'
  BY <1>1 DEF TypeOK, ReleaseTag, Job, TagJob, Idle, shelf, links, tree
<1>2. ASSUME NEW t \in Tag, DropTag(t)
      PROVE  TypeOK'
  <2>1. job \in TagJob
    BY <1>2 DEF TypeOK, DropTag, Job, Idle
  <2>2. job' \in Job
    BY <1>2, <2>1, FinishedType DEF DropTag, TagJob
  <2> QED BY <1>2, <2>2 DEF TypeOK, DropTag, shelf, links, tree
<1>3. ASSUME NEW t \in Tag, InsertTag(t)
      PROVE  TypeOK'
  BY <1>3 DEF TypeOK, InsertTag, Job, TagJob, Idle, shelf, links, tree
<1>4. ASSUME NEW t \in Tag, RestoreTag(t)
      PROVE  TypeOK'
  BY <1>4 DEF TypeOK, RestoreTag, Job, TagJob, Idle, shelf, links, tree
<1>5. ASSUME DeleteRow
      PROVE  TypeOK'
  <2>1. job.chat \in Chat
    BY <1>5 DEF TypeOK, DeleteRow, Job, TagJob, Idle
  <2> QED BY <1>5, <2>1, RemoveType DEF TypeOK, DeleteRow, Job, tree
<1>6. ASSUME DeleteCopies
      PROVE  TypeOK'
  BY <1>6 DEF TypeOK, DeleteCopies, CopiesOfDeleted, Job, shelf, tree
<1>7. ASSUME DeleteAllRows
      PROVE  TypeOK'
  BY <1>7, RemoveType DEF TypeOK, DeleteAllRows, Job, tree
<1>8. ASSUME PutTag
      PROVE  TypeOK'
  <2>1. job \in TagJob
    BY <1>8 DEF TypeOK, PutTag, Job, Idle
  <2>2. job' \in Job
    BY <1>8, <2>1, FinishedType DEF PutTag, TagJob
  <2> QED BY <1>8, <2>1, <2>2 DEF TypeOK, PutTag, TagJob, links, tree
<1>9. ASSUME Restored
      PROVE  TypeOK'
  BY <1>9 DEF TypeOK, Restored, Job, shelf, links, tree
<1>10. ASSUME Link
       PROVE  TypeOK'
  <2>1. job.chat \in Chat
    BY <1>10 DEF TypeOK, Link, Job, TagJob, Idle
  <2> QED BY <1>10, <2>1 DEF TypeOK, Link, Job, shelf, tree
<1>11. ASSUME Unlink
       PROVE  TypeOK'
  <2>1. 0 \in 0 .. MaxShares
    BY MaxSharesAssumption
  <2>2. share' \in [Chat -> 0 .. MaxShares]
    BY <1>11, <2>1 DEF TypeOK, Unlink
  <2> QED BY <1>11, <2>2 DEF TypeOK, Unlink, Job, shelf, tree
<1>12. ASSUME PruneFails
       PROVE  TypeOK'
  BY <1>12 DEF TypeOK, PruneFails, Job, Event, shelf, links, tree
<1>13. ASSUME NEW f \in Folder, PruneFolder(f)
       PROVE  TypeOK'
  <2>1. job \in [at : {"prune"}, root : Folder, gone : SUBSET Folder, contents : BOOLEAN]
    BY <1>13 DEF TypeOK, PruneFolder, Job, TagJob, Idle
  <2>2. job' \in Job
    BY <1>13, <2>1 DEF PruneFolder, Job
  <2> QED BY <1>13, <2>2 DEF TypeOK, PruneFolder, shelf, links
<1>14. ASSUME NEW f \in Folder, EmptyFolder(f)
       PROVE  TypeOK'
  <2>1. job \in [at : {"empty"}, gone : SUBSET Folder, contents : BOOLEAN]
    BY <1>14 DEF TypeOK, EmptyFolder, Job, TagJob, Idle
  <2>2. job' \in Job
    BY <1>14, <2>1 DEF EmptyFolder, Job
  <2>3. CASE job.contents
    <3>1. ChatsIn(f) \in SUBSET Chat
      BY DEF ChatsIn, TypeOK
    <3> QED BY <1>14, <2>2, <2>3, <3>1, RemoveType DEF TypeOK, EmptyFolder, Note, Event, tree
  <2>4. CASE ~job.contents
    BY <1>14, <2>2, <2>4 DEF TypeOK, EmptyFolder, tree
  <2> QED BY <2>3, <2>4
<1>15. ASSUME job' \in Job, seen' \subseteq Event, UNCHANGED <<shelf, links, rows, tree, born, threads>>
       PROVE  TypeOK'
  BY <1>15 DEF TypeOK, shelf, links, tree
<1>16. CASE TagFails
  <2>1. seen' \subseteq Event /\ UNCHANGED <<shelf, links, rows, tree, born, threads>>
    BY <1>16 DEF TagFails, TypeOK, Event
  <2>2. CASE job' = Idle
    BY <1>15, <2>1, <2>2 DEF Job
  <2>3. CASE job.at \in {"release", "restore"} /\ job' # Idle
    BY <1>15, <1>16, <2>1, <2>3, SkipType DEF TagFails
  <2>4. CASE job.at = "tags" /\ job' # Idle
    <3>1. PICK j \in TagJob : job' = Finished(j)
      BY <1>16, <2>4, SkipType DEF TagFails
    <3> QED BY <1>15, <2>1, <3>1, FinishedType
  <2> QED BY <1>16, <2>2, <2>3, <2>4 DEF TagFails
<1>17. CASE LastFails
  <2>1. seen' \subseteq Event /\ UNCHANGED <<shelf, links, rows, tree, born, threads>>
    BY <1>17 DEF LastFails, TypeOK, Event
  <2> QED BY <1>15, <1>17, <2>1 DEF LastFails, Job
<1>18. ASSUME NEW f \in Folder, EmptyFails(f)
       PROVE  TypeOK'
  <2>1. seen' \subseteq Event /\ UNCHANGED <<shelf, links, rows, tree, born, threads>>
    BY <1>18 DEF EmptyFails, TypeOK, Event
  <2>2. job' \in Job
    BY <1>18, SkipType DEF EmptyFails, Job
  <2> QED BY <1>15, <2>1, <2>2
<1> QED
  BY <1>1, <1>2, <1>3, <1>4, <1>5, <1>6, <1>7, <1>8, <1>9, <1>10, <1>11, <1>12, <1>13, <1>14,
     <1>16, <1>17, <1>18
  DEF JobStep

LEMMA ThreadStepType ==
  ASSUME TypeOK, NEW k \in Thread, ThreadStep(k)
  PROVE  TypeOK'
<1>1. ASSUME NEW n \in Name, CreateFolder(k, n)
      PROVE  TypeOK'
  BY <1>1 DEF TypeOK, CreateFolder, ThreadJob, Note, Event, shelf, links, tree
<1>2. ASSUME NEW f \in Folder, InsertFolder(k, f)
      PROVE  TypeOK'
  <2>1. threads[k].name \in Name
    BY <1>2 DEF TypeOK, InsertFolder, ThreadJob, Idle
  <2> QED BY <1>2, <2>1 DEF TypeOK, InsertFolder, ThreadJob, shelf, links
<1>3. ASSUME NEW t \in Tag, Search(k, t)
      PROVE  TypeOK'
  BY <1>3 DEF TypeOK, Search, ThreadJob, Note, Event, shelf, links, tree
<1>4. ASSUME PurgeTag(k)
      PROVE  TypeOK'
  BY <1>4 DEF TypeOK, PurgeTag, ThreadJob, shelf, links, tree
<1> QED BY <1>1, <1>2, <1>3, <1>4 DEF ThreadStep

LEMMA TypeStep ==
  ASSUME TypeOK, [Next]_vars
  PROVE  TypeOK'
<1>1. ASSUME NEW t \in Tag, ListByTag(t)
      PROVE  TypeOK'
  BY <1>1 DEF TypeOK, ListByTag, shelf, links, tree
<1>2. CASE ArchiveAll
  BY <1>2 DEF TypeOK, ArchiveAll, links, tree
<1>3. CASE UnarchiveAll
  BY <1>3 DEF TypeOK, UnarchiveAll, Note, Event, links, tree
<1>4. CASE DeleteAll
  BY <1>4 DEF TypeOK, DeleteAll, Job, shelf, tree
<1>5. CASE GetFolders
  BY <1>5 DEF TypeOK, GetFolders, Note, Event, shelf, links
<1>6. CASE Crash
  BY <1>6 DEF TypeOK, Crash, Job, ThreadJob, Event, shelf, links, tree
<1>7. CASE UNCHANGED vars
  BY <1>7 DEF TypeOK, vars, shelf, links, tree
<1>8. CASE DeleteAllFails
  BY <1>8 DEF TypeOK, DeleteAllFails, Job, Event, shelf, links, tree
<1> QED
  BY <1>1, <1>2, <1>3, <1>4, <1>5, <1>6, <1>7, <1>8,
     ChatRequestType, FolderRequestType, JobStepType, ThreadStepType DEF Next

(* What has gone wrong stays on record.                                    *)
LEMMA SeenGrows ==
  ASSUME [Next]_vars
  PROVE  seen \subseteq seen'
<1>1. ASSUME NEW c \in Chat, ChatRequest(c)
      PROVE  seen \subseteq seen'
  BY <1>1 DEF ChatRequest, CreateNewChat, CloneChat, ImportChat, Insert, MoveChat, AddTag,
              DeleteTags, ReplaceTags, Archive, Unarchive, Share, Unshare, UnshareFails, DeleteChat
<1>2. ASSUME NEW f \in Folder, FolderRequest(f)
      PROVE  seen \subseteq seen'
  BY <1>2 DEF FolderRequest, RenameFolder, MoveFolder, DeleteFolder
<1>3. CASE JobStep
  <2>1. ASSUME NEW f \in Folder, EmptyFolder(f)
        PROVE  seen \subseteq seen'
    BY <2>1 DEF EmptyFolder
  <2> QED
    BY <1>3, <2>1 DEF JobStep, ReleaseTag, DropTag, InsertTag, RestoreTag, DeleteRow, DeleteCopies,
                      DeleteAllRows, PutTag, Restored, Link, Unlink, TagFails, LastFails,
                      PruneFails, PruneFolder, EmptyFails
<1>4. ASSUME NEW k \in Thread, ThreadStep(k)
      PROVE  seen \subseteq seen'
  BY <1>4 DEF ThreadStep, CreateFolder, InsertFolder, Search, PurgeTag
<1> QED
  BY <1>1, <1>2, <1>3, <1>4
  DEF Next, ListByTag, ArchiveAll, UnarchiveAll, DeleteAll, DeleteAllFails, GetFolders, Crash, vars

LEMMA NeverBefore ==
  ASSUME seen \subseteq seen', NEW E, Never(E)'
  PROVE  Never(E)
BY DEF Never

THEOREM TypesHold == Spec => []TypeOK
<1> QED BY TypeInit, TypeStep, PTL DEF Spec

(* A request is taken when no handler runs.                                *)
LEMMA ChatRequestIdle ==
  ASSUME NEW c \in Chat, ChatRequest(c)
  PROVE  job = Idle
BY DEF ChatRequest, CreateNewChat, CloneChat, ImportChat, Insert, MoveChat, AddTag,
       DeleteTags, ReplaceTags, Archive, Unarchive, Share, Unshare, UnshareFails, DeleteChat

LEMMA FolderRequestIdle ==
  ASSUME NEW f \in Folder, FolderRequest(f)
  PROVE  /\ UNCHANGED <<shelf, links, rows, folders, threads>> /\ job = Idle
         /\ job' = Idle \/ (job'.at = "prune" /\ job'.gone = {})
<1>1. ASSUME NEW n \in Name, RenameFolder(f, n)
      PROVE  UNCHANGED <<shelf, links, rows, folders, threads, job>> /\ job = Idle
  BY <1>1 DEF RenameFolder
<1>2. ASSUME NEW p \in Folder \union {NoFolder}, MoveFolder(f, p)
      PROVE  UNCHANGED <<shelf, links, rows, folders, threads, job>> /\ job = Idle
  BY <1>2 DEF MoveFolder
<1>3. ASSUME NEW contents \in BOOLEAN, DeleteFolder(f, contents)
      PROVE  /\ UNCHANGED <<shelf, links, rows, folders, threads>> /\ job = Idle
             /\ job'.at = "prune" /\ job'.gone = {}
  BY <1>3 DEF DeleteFolder, tree
<1> QED BY <1>1, <1>2, <1>3 DEF FolderRequest
-----------------------------------------------------------------------------
(* Links. Most steps have nothing to do with them.                         *)
Linking == {"link", "unlink", "uncopy", "wipe"}

LEMMA LinksFrame ==
  ASSUME LinksInv, seen \subseteq seen', UNCHANGED links,
         job.at \notin Linking, job'.at \notin Linking
  PROVE  LinksInv'
BY NeverBefore DEF LinksInv, LinkOk, Linking, links, Never

LEMMA LinksChatRequest ==
  ASSUME TypeOK, LinksInv, seen \subseteq seen', NEW c \in Chat, ChatRequest(c)
  PROVE  LinksInv'
<1>1. job = Idle /\ job.at \notin Linking
  BY ChatRequestIdle DEF Idle, Linking
<1>2. CASE Share(c)
  <2> SUFFICES ASSUME Never({"crash", "unsaved", "contents"})', NEW d \in Chat
               PROVE  LinkOk(d)'
    BY DEF LinksInv
  <2>1. LinkOk(d)
    BY NeverBefore DEF LinksInv
  <2>2. copied[c] + 1 # 0 /\ job' = [at |-> "link", chat |-> c]
    BY <1>2 DEF TypeOK, Share
  <2>3. CASE d = c
    BY <1>1, <1>2, <2>1, <2>2, <2>3 DEF LinkOk, Share, Linking, TypeOK
  <2>4. CASE d # c
    BY <1>1, <1>2, <2>1, <2>2, <2>4 DEF LinkOk, Share, Linking, TypeOK
  <2> QED BY <2>3, <2>4
<1>3. CASE Unshare(c)
  <2> SUFFICES ASSUME Never({"crash", "unsaved", "contents"})', NEW d \in Chat
               PROVE  LinkOk(d)'
    BY DEF LinksInv
  <2>1. LinkOk(d)
    BY NeverBefore DEF LinksInv
  <2>2. job' = [at |-> "unlink", chat |-> c]
    BY <1>3 DEF Unshare
  <2>3. CASE d = c
    BY <1>3, <2>2, <2>3 DEF LinkOk, Unshare, TypeOK
  <2>4. CASE d # c
    BY <1>1, <1>3, <2>1, <2>2, <2>4 DEF LinkOk, Unshare, Linking, TypeOK
  <2> QED BY <2>3, <2>4
<1>5. CASE UnshareFails(c)
  BY <1>5 DEF UnshareFails, LinksInv, Never
<1>4. CASE ~Share(c) /\ ~Unshare(c) /\ ~UnshareFails(c)
  <2>1. UNCHANGED links /\ job'.at \in {"idle", "tags", "restore", "release"}
    BY <1>4 DEF ChatRequest, CreateNewChat, CloneChat, ImportChat, Insert, MoveChat, AddTag,
         DeleteTags, ReplaceTags, Archive, Unarchive, DeleteChat, Idle, TagWork, Finished
  <2> QED BY <1>1, <2>1, LinksFrame DEF Linking
<1> QED BY <1>2, <1>3, <1>4, <1>5

LEMMA LinksJobStep ==
  ASSUME TypeOK, LinksInv, seen \subseteq seen', JobStep
  PROVE  LinksInv'
<1> SUFFICES ASSUME Never({"crash", "unsaved", "contents"})', NEW d \in Chat
             PROVE  LinkOk(d)'
  BY DEF LinksInv
<1>1. LinkOk(d)
  BY NeverBefore DEF LinksInv
<1>2. ASSUME NEW t \in Tag, ReleaseTag(t) \/ DropTag(t) \/ InsertTag(t) \/ RestoreTag(t)
      PROVE  LinkOk(d)'
  <2>1. UNCHANGED links /\ job.at \notin Linking /\ job'.at \notin Linking
    <3>1. CASE ReleaseTag(t)
      BY <3>1 DEF ReleaseTag, Linking, TypeOK, Job, TagJob, Idle
    <3>2. CASE DropTag(t)
      BY <3>2 DEF DropTag, Linking, TypeOK, Job, TagJob, Idle, Finished
    <3>3. CASE InsertTag(t)
      BY <3>3 DEF InsertTag, Linking, TypeOK, Job, TagJob, Idle
    <3>4. CASE RestoreTag(t)
      BY <3>4 DEF RestoreTag, Linking, TypeOK, Job, TagJob, Idle
    <3> QED BY <1>2, <3>1, <3>2, <3>3, <3>4
  <2> QED BY <1>1, <2>1 DEF LinkOk, Linking, links
<1>3. CASE DeleteRow
  BY <1>1, <1>3 DEF LinkOk, DeleteRow, Remove
<1>4. CASE DeleteCopies
  BY <1>1, <1>4 DEF LinkOk, DeleteCopies, CopiesOfDeleted, Idle, TypeOK
<1>5. CASE DeleteAllRows
  BY <1>1, <1>5 DEF LinkOk, DeleteAllRows, Remove, Idle, TypeOK
<1>6. CASE PutTag
  <2>1. UNCHANGED links /\ job.at \notin Linking /\ job'.at \notin Linking
    BY <1>6 DEF PutTag, Linking, TypeOK, Job, TagJob, Idle, Finished
  <2> QED BY <1>1, <2>1 DEF LinkOk, Linking, links
<1>7. CASE Restored
  BY <1>1, <1>7 DEF LinkOk, Restored, Idle, links
<1>8. CASE Link
  BY <1>1, <1>8 DEF LinkOk, Link, Idle, TypeOK
<1>9. CASE Unlink
  BY <1>1, <1>9 DEF LinkOk, Unlink, Idle, TypeOK
<1>10. CASE PruneFails
  BY <1>1, <1>10 DEF LinkOk, PruneFails, Idle, links
<1>11. ASSUME NEW f \in Folder, PruneFolder(f)
       PROVE  LinkOk(d)'
  <2>1. job'.at \in {"prune", "empty"}
    BY <1>11 DEF PruneFolder, TypeOK, Job, TagJob, Idle
  <2> QED BY <1>1, <1>11, <2>1 DEF LinkOk, PruneFolder, links
<1>12. ASSUME NEW f \in Folder, EmptyFolder(f)
       PROVE  LinkOk(d)'
  <2>1. job'.at \in {"empty", "idle"}
    BY <1>12 DEF EmptyFolder, TypeOK, Job, TagJob, Idle
  <2>2. copies[d] = (IF share[d] = 0 THEN {} ELSE {share[d]})
    BY <1>1, <1>12 DEF LinkOk, EmptyFolder
  <2>3. share'[d] = share[d] \/ (share'[d] = 0 /\ copies[d] = {})
    <3>1. CASE job.contents
      BY <1>12, <3>1 DEF EmptyFolder, Note, Never, Remove
    <3>2. CASE ~job.contents
      BY <1>12, <3>2 DEF EmptyFolder
    <3> QED BY <3>1, <3>2
  <2>4. copies' = copies
    BY <1>12 DEF EmptyFolder
  <2> QED BY <2>1, <2>2, <2>3, <2>4 DEF LinkOk
<1>13. CASE TagFails \/ LastFails
  BY <1>13 DEF TagFails, LastFails, Never
<1>14. ASSUME NEW f \in Folder, EmptyFails(f)
       PROVE  LinkOk(d)'
  <2>1. job'.at \in {"empty", "idle"}
    BY <1>14, SkipType DEF EmptyFails, Idle
  <2> QED BY <1>1, <1>14, <2>1 DEF LinkOk, EmptyFails, links
<1> QED
  BY <1>2, <1>3, <1>4, <1>5, <1>6, <1>7, <1>8, <1>9, <1>10, <1>11, <1>12, <1>13, <1>14 DEF JobStep

LEMMA LinksStep ==
  ASSUME TypeOK, LinksInv, [Next]_vars
  PROVE  LinksInv'
<1>0. seen \subseteq seen'
  BY SeenGrows
<1>1. ASSUME NEW f \in Folder, FolderRequest(f)
      PROVE  LinksInv'
  <2>1. UNCHANGED links /\ job = Idle /\ job'.at \in {"idle", "prune"}
    BY <1>1, FolderRequestIdle DEF Idle
  <2> QED BY <1>0, <2>1, LinksFrame DEF Linking, Idle
<1>2. ASSUME NEW k \in Thread, ThreadStep(k)
      PROVE  LinksInv'
  <2>1. UNCHANGED <<links, job, chats>>
    BY <1>2 DEF ThreadStep, CreateFolder, InsertFolder, Search, PurgeTag, shelf
  <2> QED BY <1>0, <2>1, NeverBefore DEF LinksInv, LinkOk, links
<1>3. CASE (\E t \in Tag : ListByTag(t)) \/ ArchiveAll \/ UnarchiveAll \/ GetFolders
  <2>1. UNCHANGED links /\ job = Idle /\ job' = Idle
    BY <1>3 DEF ListByTag, ArchiveAll, UnarchiveAll, GetFolders
  <2> QED BY <1>0, <2>1, LinksFrame DEF Linking, Idle
<1>4. CASE DeleteAll
  <2> SUFFICES ASSUME Never({"crash", "unsaved", "contents"})', NEW d \in Chat
               PROVE  LinkOk(d)'
    BY DEF LinksInv
  <2>1. LinkOk(d)
    BY <1>0, NeverBefore DEF LinksInv
  <2> QED BY <1>4, <2>1 DEF LinkOk, DeleteAll, Idle, shelf
<1>5. CASE Crash
  BY <1>5 DEF Crash, LinksInv, Never
<1>6. CASE UNCHANGED vars
  BY <1>6 DEF vars, LinksInv, LinkOk, Never, links, shelf
<1>7. CASE DeleteAllFails
  BY <1>7 DEF DeleteAllFails, LinksInv, Never
<1> QED
  BY <1>0, <1>1, <1>2, <1>3, <1>4, <1>5, <1>6, <1>7, LinksChatRequest, LinksJobStep DEF Next

(* Whatever the order of sharing, unsharing and deleting, when no handler  *)
(* runs a chat has the copy its link leads to and no other, as long as no  *)
(* write fails and no crash and no folder's deletion comes between.        *)
THEOREM LinksHold == Spec => []LinksWork
<1> Idle.at = "idle"
  BY DEF Idle
<1>1. Init => LinksInv
  BY DEF Init, LinksInv, LinkOk
<1>2. LinksInv => LinksWork
  BY DEF LinksInv, LinkOk, LinksWork
<1> QED BY <1>1, <1>2, LinksStep, TypesHold, PTL DEF Spec
-----------------------------------------------------------------------------
(* Tags. A step that takes chats or tags away, and leaves the rows.        *)
Counting == {"restore", "release"}

LEMMA TagsFrame ==
  ASSUME TagsInv, seen \subseteq seen', UNCHANGED <<rows, threads>>,
         chats' \ archived' \subseteq chats \ archived,
         \A c \in chats' \ archived' : tags'[c] \subseteq tags[c],
         job.at \notin Counting, job'.at \notin Counting,
         job'.at = "tags" => job'.add = {} /\ job'.put = {}
  PROVE  TagsInv'
<1> SUFFICES ASSUME Never({"crash", "unsaved", "raced", "untagged", "archived"})'
             PROVE  (\A c \in chats \ archived : \A t \in tags[c] : HasRow(c, t))'
                    /\ TagJobOk' /\ PurgeOk'
  BY DEF TagsInv
<1>1. (\A c \in chats \ archived : \A t \in tags[c] : HasRow(c, t)) /\ PurgeOk
  BY NeverBefore DEF TagsInv
<1>2. (\A c \in chats \ archived : \A t \in tags[c] : HasRow(c, t))'
  BY <1>1 DEF HasRow, Counting
<1>3. TagJobOk'
  BY DEF TagJobOk, Counting
<1>4. PurgeOk'
  BY <1>1 DEF PurgeOk, Purging, With, Counting
<1> QED BY <1>2, <1>3, <1>4

(* The goal and what is known, for a step that the frame does not cover.   *)
TagsGood ==
  /\ \A c \in chats \ archived : \A t \in tags[c] : HasRow(c, t)
  /\ TagJobOk
  /\ PurgeOk

LEMMA TagsInsert ==
  ASSUME TypeOK, TagsGood, Never({"raced", "untagged"})',
         NEW c \in Chat, NEW f, NEW ts \in SUBSET Tag, Insert(c, f, ts)
  PROVE  TagsGood'
<1>1. c \notin chats /\ c \notin archived /\ chats' = chats \union {c}
  BY DEF TypeOK, Insert
<1>2. tags'[c] = ts /\ (\A d \in chats : tags'[d] = tags[d])
  BY <1>1 DEF TypeOK, Insert
<1>3. ts \subseteq rows /\ (Purging => ts = {})
  BY DEF Insert, Note, Never
<1>4. UNCHANGED <<archived, rows, job, threads>> /\ job = Idle
  BY DEF Insert
<1>5. (\A d \in chats \ archived : \A t \in tags[d] : HasRow(d, t))'
  BY <1>1, <1>2, <1>3, <1>4 DEF TagsGood, HasRow
<1>6. TagJobOk'
  BY <1>4 DEF TagJobOk, Idle
<1>7. PurgeOk'
  BY <1>1, <1>2, <1>3, <1>4 DEF TagsGood, PurgeOk, Purging, With, Idle
<1> QED BY <1>5, <1>6, <1>7 DEF TagsGood

LEMMA TagsChatRequest ==
  ASSUME TypeOK, TagsInv, seen \subseteq seen', NEW c \in Chat, ChatRequest(c)
  PROVE  TagsInv'
<1>0. job = Idle /\ job.at = "idle"
  BY ChatRequestIdle DEF Idle
<1>1. TagsInv' <=> (Never({"crash", "unsaved", "raced", "untagged", "archived"})' => TagsGood')
  BY DEF TagsInv, TagsGood
<1>2. Never({"crash", "unsaved", "raced", "untagged", "archived"})' => TagsGood
  BY NeverBefore DEF TagsInv, TagsGood
<1>3. ASSUME NEW f, NEW ts \in SUBSET Tag, Insert(c, f, ts)
      PROVE  TagsInv'
  BY <1>1, <1>2, <1>3, TagsInsert DEF Never
<1>4. ASSUME NEW f \in Folder \union {NoFolder}, MoveChat(c, f)
      PROVE  TagsInv'
  BY <1>0, <1>4, TagsFrame DEF MoveChat, Counting
<1>5. ASSUME NEW t \in Tag, AddTag(c, t)
      PROVE  TagsInv'
  <2> SUFFICES ASSUME Never({"crash", "unsaved", "raced", "untagged", "archived"})'
               PROVE  TagsGood'
    BY <1>1
  <2>1. job' = [at |-> "tags", chat |-> c, drop |-> {}, add |-> {t}, put |-> {}]
    BY <1>5 DEF AddTag, TagWork, Finished
  <2>2. ~Purging
    BY <1>5 DEF AddTag, Note, Never
  <2>3. UNCHANGED <<chats, archived, tags, rows, threads>>
    BY <1>5 DEF AddTag, shelf
  <2> QED
    BY <1>0, <1>2, <2>1, <2>2, <2>3 DEF TagsGood, HasRow, TagJobOk, PurgeOk, Purging, With
<1>6. ASSUME NEW ts \in SUBSET Tag, DeleteTags(c, ts)
      PROVE  TagsInv'
  <2>1. /\ job'.at \notin Counting
        /\ job'.at = "tags" => job'.add = {} /\ job'.put = {}
    BY <1>6 DEF DeleteTags, TagWork, Finished, Idle, Counting
  <2>2. \A d \in chats' \ archived' : tags'[d] \subseteq tags[d]
    BY <1>6 DEF DeleteTags, TypeOK
  <2> QED BY <1>0, <1>6, <2>1, <2>2, TagsFrame DEF DeleteTags, Counting
<1>7. ASSUME NEW ts \in SUBSET Tag, ReplaceTags(c, ts)
      PROVE  TagsInv'
  <2> SUFFICES ASSUME Never({"crash", "unsaved", "raced", "untagged", "archived"})'
               PROVE  TagsGood'
    BY <1>1
  <2>1. job'.at \in {"idle", "tags"} /\ (job'.at = "tags" => job'.put = {})
    BY <1>7 DEF ReplaceTags, TagWork, Finished, Idle
  <2>2. ~Purging
    BY <1>7 DEF ReplaceTags, Note, Never
  <2>3. UNCHANGED <<chats, archived, rows, threads>>
    BY <1>7 DEF ReplaceTags
  <2>4. \A d \in chats : tags'[d] \subseteq tags[d]
    BY <1>7 DEF ReplaceTags, TypeOK
  <2> QED
    BY <1>0, <1>2, <2>1, <2>2, <2>3, <2>4
    DEF TagsGood, HasRow, TagJobOk, PurgeOk, Purging, With
<1>8. ASSUME Archive(c)
      PROVE  TagsInv'
  <2>1. /\ job'.at \notin Counting
        /\ job'.at = "tags" => job'.add = {} /\ job'.put = {}
    BY <1>8 DEF Archive, TagWork, Finished, Idle, Counting
  <2> QED BY <1>0, <1>8, <2>1, TagsFrame DEF Archive, Counting
<1>9. ASSUME Unarchive(c)
      PROVE  TagsInv'
  <2> SUFFICES ASSUME Never({"crash", "unsaved", "raced", "untagged", "archived"})'
               PROVE  TagsGood'
    BY <1>1
  <2>1. job' = [at |-> "restore", tags |-> tags[c]]
    BY <1>9 DEF Unarchive
  <2>2. Purging => tags[c] = {}
    BY <1>9 DEF Unarchive, Note, Never
  <2>3. UNCHANGED <<chats, tags, rows, threads>> /\ archived' = archived \ {c}
    BY <1>9 DEF Unarchive
  <2>4. (\A d \in chats \ archived : \A t \in tags[d] : HasRow(d, t))'
    BY <1>0, <1>2, <2>1, <2>3 DEF TagsGood, HasRow
  <2>5. PurgeOk'
    BY <1>0, <1>2, <2>1, <2>2, <2>3 DEF TagsGood, PurgeOk, Purging, With
  <2> QED BY <2>1, <2>4, <2>5 DEF TagsGood, TagJobOk
<1>10. CASE Share(c) \/ Unshare(c)
  <2>1. UNCHANGED <<shelf, rows, threads>> /\ job'.at \in {"link", "unlink"}
    BY <1>10 DEF Share, Unshare
  <2> QED BY <1>0, <2>1, TagsFrame DEF Counting, shelf
<1>11. ASSUME DeleteChat(c)
       PROVE  TagsInv'
  <2> SUFFICES ASSUME Never({"crash", "unsaved", "raced", "untagged", "archived"})'
               PROVE  TagsGood'
    BY <1>1
  <2>1. job' = [at |-> "release", chat |-> c, tags |-> tags[c]] /\ c \in chats
    BY <1>11 DEF DeleteChat
  <2>2. c \notin archived \/ tags[c] = {}
    BY <1>11 DEF DeleteChat, Note, Never
  <2>3. UNCHANGED <<chats, archived, tags, rows, threads>>
    BY <1>11 DEF DeleteChat, shelf
  <2>4. (\A d \in chats \ archived : \A t \in tags[d] : HasRow(d, t))'
    BY <1>0, <1>2, <2>3 DEF TagsGood, HasRow
  <2>5. TagJobOk'
    BY <2>1, <2>2, <2>3 DEF TagJobOk
  <2>6. PurgeOk'
    BY <1>2, <2>1, <2>3 DEF TagsGood, PurgeOk, Purging, With
  <2> QED BY <2>4, <2>5, <2>6 DEF TagsGood
<1>12. CASE UnshareFails(c)
  BY <1>12 DEF UnshareFails, TagsInv, Never
<1> QED
  <2>1. tags[c] \in SUBSET Tag /\ (\A d \in Chat : tags[d] \in SUBSET Tag)
    BY DEF TypeOK
  <2>2. \A ts \in {{t} : t \in Tag} \union {tags[c]} : ts \in SUBSET Tag
    BY <2>1
  <2>3. ASSUME NEW f, CreateNewChat(c, f)
        PROVE  TagsInv'
    BY <1>3, <2>3 DEF CreateNewChat
  <2>4. ASSUME NEW d \in Chat, CloneChat(c, d)
        PROVE  TagsInv'
    BY <1>3, <2>1, <2>4 DEF CloneChat
  <2>5. ASSUME NEW f, NEW ts \in SUBSET Tag, ImportChat(c, f, ts)
        PROVE  TagsInv'
    BY <1>3, <2>5 DEF ImportChat
  <2> QED
    BY <1>4, <1>5, <1>6, <1>7, <1>8, <1>9, <1>10, <1>11, <1>12, <2>2, <2>3, <2>4, <2>5
    DEF ChatRequest

(* The steps of the handlers that see to the rows of tags.                 *)
LEMMA TagsCount ==
  ASSUME TypeOK, TagsGood, NEW t \in Tag,
         ReleaseTag(t) \/ DropTag(t) \/ InsertTag(t) \/ RestoreTag(t) \/ PutTag \/ Restored
         \/ DeleteRow
  PROVE  TagsGood'
<1>1. CASE ReleaseTag(t)
  <2>1. /\ job.at = "release" /\ t \in job.tags
        /\ job' = [job EXCEPT !.tags = @ \ {t}]
        /\ UNCHANGED <<chats, archived, tags, threads>>
    BY <1>1 DEF ReleaseTag, shelf
  <2>2. /\ job'.at = "release" /\ job'.chat = job.chat /\ job'.tags = job.tags \ {t}
    BY <2>1 DEF TypeOK, Job, TagJob, Idle
  <2>3. job.chat \in With(t)
    BY <2>1 DEF TagsGood, TagJobOk, With
  <2>4. ASSUME NEW d \in chats \ archived, NEW u \in tags[d], d # job.chat
        PROVE  u \in rows'
    <3>1. u \in rows
      BY <2>1, <2>4 DEF TagsGood, HasRow
    <3>2. CASE u = t
      <4>1. ~IsLast(t)
        BY <2>3, <2>4, <3>2 DEF IsLast, With
      <4> QED BY <1>1, <3>1, <4>1 DEF ReleaseTag
    <3>3. CASE u # t
      BY <1>1, <3>1, <3>3 DEF ReleaseTag
    <3> QED BY <3>2, <3>3
  <2>5. (\A d \in chats \ archived : \A u \in tags[d] : HasRow(d, u))'
    BY <2>1, <2>2, <2>4 DEF HasRow
  <2>6. TagJobOk'
    BY <2>1, <2>2 DEF TagsGood, TagJobOk
  <2>7. PurgeOk'
    BY <2>1, <2>2 DEF TagsGood, PurgeOk, Purging, With
  <2> QED BY <2>5, <2>6, <2>7 DEF TagsGood
<1>2. CASE DropTag(t)
  <2>1. /\ job \in TagJob /\ t \in job.drop
        /\ UNCHANGED <<chats, archived, tags, threads>>
    BY <1>2 DEF DropTag, shelf, TypeOK, Job, Idle
  <2>2. \/ job' = Idle
        \/ job'.at = "tags" /\ job'.add = job.add /\ job'.put = job.put
    BY <1>2, <2>1 DEF DropTag, Finished, TagJob
  <2>3. \A d \in chats \ archived : \A u \in tags[d] : u \in rows'
    BY <1>2, <2>1 DEF DropTag, Unused, With, TagsGood, HasRow, TagJob
  <2>4. job.put = {}
    BY <2>1 DEF TagsGood, TagJobOk, TagJob
  <2>5. TagJobOk'
    BY <2>2, <2>4 DEF TagJobOk, Idle
  <2>6. PurgeOk'
    BY <2>1, <2>2 DEF TagsGood, PurgeOk, Purging, With, TagJob, Idle
  <2> QED BY <2>1, <2>3, <2>5, <2>6 DEF TagsGood, HasRow
<1>3. CASE InsertTag(t)
  <2>1. /\ job \in TagJob /\ job.drop = {} /\ t \in job.add
        /\ job' = [job EXCEPT !.add = @ \ {t}, !.put = {t}]
        /\ UNCHANGED <<chats, archived, tags, threads>>
        /\ rows' = rows \union {t}
    BY <1>3 DEF InsertTag, shelf, TypeOK, Job, Idle
  <2>2. job'.at = "tags" /\ job'.put = {t} /\ job'.drop = {}
    BY <2>1 DEF TagJob
  <2>3. ~Purging
    BY <2>1 DEF TagsGood, PurgeOk, TagJob
  <2>4. PurgeOk'
    BY <2>1, <2>3 DEF PurgeOk, Purging
  <2> QED BY <2>1, <2>2, <2>4 DEF TagsGood, HasRow, TagJobOk, TagJob
<1>4. CASE RestoreTag(t)
  <2>1. /\ job.at = "restore" /\ t \in job.tags
        /\ job' = [job EXCEPT !.tags = @ \ {t}]
        /\ UNCHANGED <<chats, archived, tags, threads>>
        /\ rows' = rows \union {t}
    BY <1>4 DEF RestoreTag, shelf
  <2>2. /\ job'.at = "restore" /\ job'.tags = job.tags \ {t}
    BY <2>1 DEF TypeOK, Job, TagJob, Idle
  <2>3. ~Purging
    BY <2>1 DEF TagsGood, PurgeOk
  <2>4. PurgeOk'
    BY <2>1, <2>3 DEF PurgeOk, Purging
  <2> QED BY <2>1, <2>2, <2>4 DEF TagsGood, HasRow, TagJobOk
<1>5. CASE PutTag
  <2>1. /\ job \in TagJob /\ job.put # {}
        /\ UNCHANGED <<chats, archived, rows, threads>>
    BY <1>5 DEF PutTag, TypeOK, Job, Idle
  <2>2. job'.at \in {"idle", "tags"} /\ (job'.at = "tags" => job'.put = {})
    BY <1>5, <2>1 DEF PutTag, Finished, TagJob, Idle
  <2>3. ~Purging
    BY <2>1 DEF TagsGood, PurgeOk, TagJob
  <2>4. PurgeOk'
    BY <2>1, <2>3 DEF PurgeOk, Purging
  <2>5. job.put \subseteq rows
    BY <2>1 DEF TagsGood, TagJobOk, TagJob
  <2>6. \A d \in chats \ archived : \A u \in tags'[d] : u \in tags[d] \/ u \in job.put
    BY <1>5 DEF PutTag, TypeOK
  <2>7. \A d \in chats \ archived : \A u \in tags'[d] : u \in rows
    BY <2>1, <2>5, <2>6 DEF TagsGood, HasRow, TagJob
  <2> QED BY <2>1, <2>2, <2>4, <2>7 DEF TagsGood, HasRow, TagJobOk
<1>6. CASE Restored
  <2>1. /\ job.at = "restore" /\ job.tags = {} /\ job' = Idle
        /\ UNCHANGED <<chats, archived, tags, rows, threads>>
    BY <1>6 DEF Restored, shelf
  <2> QED BY <2>1 DEF TagsGood, HasRow, TagJobOk, PurgeOk, Purging, With, Idle
<1>7. CASE DeleteRow
  <2>1. /\ job.at = "release" /\ job' = [at |-> "uncopy", chat |-> job.chat]
        /\ chats' = chats \ {job.chat} /\ archived' = archived \ {job.chat}
        /\ UNCHANGED <<rows, threads>>
        /\ \A d \in chats' : tags'[d] = tags[d]
    BY <1>7 DEF DeleteRow, Remove, TypeOK
  <2>2. (\A d \in chats \ archived : \A u \in tags[d] : HasRow(d, u))'
    BY <2>1 DEF TagsGood, HasRow
  <2> QED BY <2>1, <2>2 DEF TagsGood, TagJobOk, PurgeOk, Purging, With
<1> QED BY <1>1, <1>2, <1>3, <1>4, <1>5, <1>6, <1>7

LEMMA TagsJobStep ==
  ASSUME TypeOK, TagsInv, seen \subseteq seen', JobStep
  PROVE  TagsInv'
<1>1. TagsInv' <=> (Never({"crash", "unsaved", "raced", "untagged", "archived"})' => TagsGood')
  BY DEF TagsInv, TagsGood
<1>2. Never({"crash", "unsaved", "raced", "untagged", "archived"})' => TagsGood
  BY NeverBefore DEF TagsInv, TagsGood
<1>3. ASSUME NEW t \in Tag,
             ReleaseTag(t) \/ DropTag(t) \/ InsertTag(t) \/ RestoreTag(t)
      PROVE  TagsInv'
  BY <1>1, <1>2, <1>3, TagsCount
<1>4. CASE PutTag \/ Restored \/ DeleteRow
  <2>1. CASE Tag # {}
    <3> PICK t : t \in Tag
      BY <2>1
    <3> QED BY <1>1, <1>2, <1>4, TagsCount
  <2>2. CASE Tag = {}
    <3>1. TypeOK'
      BY JobStepType
    <3>2. (\A d \in chats \ archived : \A u \in tags[d] : HasRow(d, u))'
      BY <2>2, <3>1 DEF TypeOK
    <3>3. Purging' = FALSE /\ (\A k \in Thread : threads'[k].at # "purge")
      BY <2>2, <3>1 DEF TypeOK, ThreadJob, Purging, Idle
    <3>4. job'.at \in {"idle", "tags", "uncopy"} /\ (job'.at = "tags" => job'.put = {})
      BY <1>4 DEF PutTag, Restored, DeleteRow, Finished, Idle, TypeOK, Job, TagJob
    <3> QED BY <1>1, <3>2, <3>3, <3>4 DEF TagsGood, TagJobOk, PurgeOk
  <2> QED BY <2>1, <2>2
<1>5. CASE DeleteCopies \/ Link \/ Unlink \/ PruneFails
  <2>1. UNCHANGED <<shelf, rows, threads>> /\ job' = Idle /\ job.at \notin Counting
    BY <1>5 DEF DeleteCopies, Link, Unlink, PruneFails, Counting
  <2> QED BY <2>1, TagsFrame DEF Counting, Idle, shelf
<1>6. CASE DeleteAllRows
  <2>1. /\ UNCHANGED <<rows, threads>> /\ chats' = {} /\ job' = Idle
        /\ job.at \notin Counting
    BY <1>6 DEF DeleteAllRows, Remove, Counting
  <2> QED BY <2>1, TagsFrame DEF Counting, Idle
<1>7. ASSUME NEW f \in Folder, PruneFolder(f)
      PROVE  TagsInv'
  <2>1. job'.at \in {"prune", "empty"} /\ job.at \notin Counting
    BY <1>7 DEF PruneFolder, TypeOK, Job, TagJob, Idle, Counting
  <2> QED BY <1>7, <2>1, TagsFrame DEF PruneFolder, Counting, shelf
<1>8. ASSUME NEW f \in Folder, EmptyFolder(f)
      PROVE  TagsInv'
  <2>1. job'.at \in {"empty", "idle"} /\ job.at \notin Counting
    BY <1>8 DEF EmptyFolder, TypeOK, Job, TagJob, Idle, Counting
  <2>2. /\ chats' \ archived' \subseteq chats \ archived
        /\ \A d \in chats' \ archived' : tags'[d] \subseteq tags[d]
    <3>1. CASE job.contents
      BY <1>8, <3>1 DEF EmptyFolder, Remove, TypeOK
    <3>2. CASE ~job.contents
      BY <1>8, <3>2 DEF EmptyFolder
    <3> QED BY <3>1, <3>2
  <2> QED BY <1>8, <2>1, <2>2, TagsFrame DEF EmptyFolder, Counting
<1>9. CASE TagFails \/ LastFails
  BY <1>9 DEF TagFails, LastFails, TagsInv, Never
<1>10. ASSUME NEW f \in Folder, EmptyFails(f)
       PROVE  TagsInv'
  <2>1. job'.at \in {"empty", "idle"} /\ job.at \notin Counting
    BY <1>10, SkipType DEF EmptyFails, Idle, Counting
  <2> QED BY <1>10, <2>1, TagsFrame DEF EmptyFails, Counting, shelf
<1> QED BY <1>3, <1>4, <1>5, <1>6, <1>7, <1>8, <1>9, <1>10 DEF JobStep

LEMMA TagsThreadStep ==
  ASSUME TypeOK, TagsInv, seen \subseteq seen', NEW k \in Thread, ThreadStep(k)
  PROVE  TagsInv'
<1> SUFFICES ASSUME Never({"crash", "unsaved", "raced", "untagged", "archived"})'
             PROVE  TagsGood'
  BY DEF TagsInv, TagsGood
<1>1. TagsGood
  BY NeverBefore DEF TagsInv, TagsGood
<1>2. ASSUME NEW j \in ThreadJob, j.at \in {"idle", "insert"},
             threads' = [threads EXCEPT ![k] = j],
             UNCHANGED <<chats, archived, tags, rows, job>>
      PROVE  TagsGood'
  <2>1. \A l \in Thread : threads'[l] = threads[l] \/ threads'[l].at # "purge"
    BY <1>2 DEF TypeOK
  <2>2. Purging' => Purging
    BY <2>1 DEF Purging
  <2>3. (\A d \in chats \ archived : \A u \in tags[d] : HasRow(d, u))' /\ TagJobOk'
    BY <1>1, <1>2 DEF TagsGood, HasRow, TagJobOk
  <2>4. PurgeOk'
    BY <1>1, <1>2, <2>1, <2>2 DEF TagsGood, PurgeOk, With
  <2> QED BY <2>3, <2>4 DEF TagsGood
<1>3. ASSUME NEW n \in Name, CreateFolder(k, n)
      PROVE  TagsGood'
  BY <1>2, <1>3 DEF CreateFolder, ThreadJob, shelf
<1>4. ASSUME NEW f \in Folder, InsertFolder(k, f)
      PROVE  TagsGood'
  BY <1>2, <1>4 DEF InsertFolder, ThreadJob, Idle, shelf
<1>5. ASSUME NEW t \in Tag, Search(k, t)
      PROVE  TagsGood'
  <2>1. /\ job = Idle /\ With(t) = {}
        /\ threads' = [threads EXCEPT ![k] = [at |-> "purge", tag |-> t]]
        /\ UNCHANGED <<chats, archived, tags, rows, job>>
    BY <1>5 DEF Search, Note, Never, shelf
  <2>2. (\A d \in chats \ archived : \A u \in tags[d] : HasRow(d, u))' /\ TagJobOk'
    BY <1>1, <2>1 DEF TagsGood, HasRow, TagJobOk
  <2>3. \A l \in Thread : threads'[l] = threads[l] \/ threads'[l].tag = t
    BY <2>1 DEF TypeOK
  <2>4. PurgeOk'
    BY <1>1, <2>1, <2>3 DEF TagsGood, PurgeOk, With, Idle
  <2> QED BY <2>2, <2>4 DEF TagsGood
<1>6. ASSUME PurgeTag(k)
      PROVE  TagsGood'
  <2>1. /\ threads[k].at = "purge"
        /\ rows' = rows \ {threads[k].tag}
        /\ threads' = [threads EXCEPT ![k] = Idle]
        /\ UNCHANGED <<chats, archived, tags, job>>
    BY <1>6 DEF PurgeTag, shelf
  <2>2. With(threads[k].tag) = {} /\ Purging
    BY <1>1, <2>1 DEF TagsGood, PurgeOk, Purging
  <2>3. (\A d \in chats \ archived : \A u \in tags[d] : HasRow(d, u))'
    BY <1>1, <2>1, <2>2 DEF TagsGood, HasRow, With
  <2>4. TagJobOk'
    BY <1>1, <2>1, <2>2 DEF TagsGood, TagJobOk, PurgeOk
  <2>5. \A l \in Thread : threads'[l] = threads[l] \/ threads'[l].at = "idle"
    BY <2>1 DEF TypeOK, Idle
  <2>6. PurgeOk'
    BY <1>1, <2>1, <2>2, <2>5 DEF TagsGood, PurgeOk, With
  <2> QED BY <2>3, <2>4, <2>6 DEF TagsGood
<1> QED BY <1>3, <1>4, <1>5, <1>6 DEF ThreadStep

LEMMA TagsStep ==
  ASSUME TypeOK, TagsInv, [Next]_vars
  PROVE  TagsInv'
<1>0. seen \subseteq seen'
  BY SeenGrows
<1>1. ASSUME NEW f \in Folder, FolderRequest(f)
      PROVE  TagsInv'
  <2>1. /\ UNCHANGED <<shelf, rows, threads>> /\ job = Idle
        /\ job'.at \in {"idle", "prune"}
    BY <1>1, FolderRequestIdle DEF Idle
  <2> QED BY <1>0, <2>1, TagsFrame DEF Counting, Idle, shelf
<1>2. ASSUME NEW t \in Tag, ListByTag(t)
      PROVE  TagsInv'
  <2>1. /\ UNCHANGED <<chats, archived, tags, job, threads>> /\ rows' = rows \ {t}
        /\ job = Idle /\ (\A c \in chats : t \notin tags[c])
    BY <1>2 DEF ListByTag, shelf
  <2> QED BY <1>0, <2>1, NeverBefore
          DEF TagsInv, HasRow, TagJobOk, PurgeOk, Purging, With, Idle
<1>3. CASE ArchiveAll \/ GetFolders \/ DeleteAll
  <2>1. /\ UNCHANGED <<chats, tags, rows, threads>> /\ job = Idle
        /\ archived \subseteq archived' /\ job'.at \in {"idle", "wipe"}
    <3>1. CASE ArchiveAll
      BY <3>1 DEF ArchiveAll, TypeOK, Idle
    <3>2. CASE GetFolders
      BY <3>2 DEF GetFolders, shelf, Idle
    <3>3. CASE DeleteAll
      BY <3>3 DEF DeleteAll, shelf
    <3> QED BY <1>3, <3>1, <3>2, <3>3
  <2> QED BY <1>0, <2>1, TagsFrame DEF Counting, Idle
<1>4. CASE UnarchiveAll
  <2> SUFFICES ASSUME Never({"crash", "unsaved", "raced", "untagged", "archived"})'
               PROVE  TagsGood'
    BY DEF TagsInv, TagsGood
  <2>1. TagsGood
    BY <1>0, NeverBefore DEF TagsInv, TagsGood
  <2>2. /\ UNCHANGED <<chats, tags, rows, job, threads>> /\ job = Idle /\ archived' = {}
        /\ ~Purging /\ (\A c \in archived : tags[c] \subseteq rows)
    BY <1>4 DEF UnarchiveAll, Note, Never
  <2>3. (\A d \in chats \ archived : \A u \in tags[d] : HasRow(d, u))' /\ TagJobOk'
    BY <2>1, <2>2 DEF TagsGood, HasRow, TagJobOk, Idle
  <2>4. PurgeOk'
    BY <2>2 DEF PurgeOk, Purging
  <2> QED BY <2>3, <2>4 DEF TagsGood
<1>5. CASE Crash
  BY <1>5 DEF Crash, TagsInv, Never
<1>6. CASE UNCHANGED vars
  BY <1>6, NeverBefore
  DEF vars, shelf, TagsInv, HasRow, TagJobOk, PurgeOk, Purging, With, Never
<1>7. CASE DeleteAllFails
  BY <1>7 DEF DeleteAllFails, TagsInv, Never
<1> QED
  BY <1>0, <1>1, <1>2, <1>3, <1>4, <1>5, <1>6, <1>7, TagsChatRequest, TagsJobStep, TagsThreadStep
  DEF Next

(* A tag keeps its row as long as a chat outside the archive has it, as no *)
(* search, no crash and no failed write interferes.                        *)
THEOREM TagsHold == Spec => []TagsHaveRows
<1> Idle.at = "idle"
  BY DEF Idle
<1>1. Init => TagsInv
  BY DEF Init, TagsInv, TagJobOk, PurgeOk, Purging
<1>2. TagsInv => TagsHaveRows
  BY DEF TagsInv, HasRow, TagsHaveRows
<1> QED BY <1>1, <1>2, TagsStep, TypesHold, PTL DEF Spec
-----------------------------------------------------------------------------
(* Folders. The six ways in which their rows change.                       *)
LEMMA TreeChanges ==
  ASSUME TypeOK, [Next]_vars
  PROVE  \/ UNCHANGED tree
         \/ \E k \in Thread, f \in Folder : InsertFolder(k, f)
         \/ \E f \in Folder, n \in Name : RenameFolder(f, n)
         \/ \E f \in Folder, p \in Folder \union {NoFolder} : MoveFolder(f, p)
         \/ GetFolders
         \/ \E f \in Folder : PruneFolder(f)
<1>1. ASSUME NEW c \in Chat, ChatRequest(c)
      PROVE  UNCHANGED tree
  BY <1>1 DEF ChatRequest, CreateNewChat, CloneChat, ImportChat, Insert, MoveChat, AddTag,
              DeleteTags, ReplaceTags, Archive, Unarchive, Share, Unshare, UnshareFails, DeleteChat
<1>2. ASSUME NEW f \in Folder, NEW contents \in BOOLEAN, DeleteFolder(f, contents)
      PROVE  UNCHANGED tree
  BY <1>2 DEF DeleteFolder
<1>3. ASSUME JobStep, ~\E f \in Folder : PruneFolder(f)
      PROVE  UNCHANGED tree
  BY <1>3 DEF JobStep, ReleaseTag, DropTag, InsertTag, RestoreTag, DeleteRow, DeleteCopies,
              DeleteAllRows, PutTag, Restored, Link, Unlink, TagFails, LastFails, PruneFails,
              EmptyFolder, EmptyFails
<1>4. ASSUME NEW k \in Thread, ThreadStep(k), ~\E f \in Folder : InsertFolder(k, f)
      PROVE  UNCHANGED tree
  BY <1>4 DEF ThreadStep, CreateFolder, Search, PurgeTag
<1>5. (\E t \in Tag : ListByTag(t)) \/ ArchiveAll \/ UnarchiveAll \/ DeleteAll
      \/ DeleteAllFails \/ Crash \/ UNCHANGED vars => UNCHANGED tree
  BY DEF ListByTag, ArchiveAll, UnarchiveAll, DeleteAll, DeleteAllFails, Crash, vars
<1> QED BY <1>1, <1>2, <1>3, <1>4, <1>5 DEF Next, FolderRequest

LEMMA ParentsStep ==
  ASSUME TypeOK, ParentsInv, [Next]_vars
  PROVE  ParentsInv'
<1> SUFFICES ASSUME Never({"astray"})'
             PROVE  ParentsKnown'
  BY DEF ParentsInv
<1>0. ParentsKnown
  BY SeenGrows, NeverBefore DEF ParentsInv
<1>1. CASE UNCHANGED tree
  BY <1>0, <1>1 DEF tree, ParentsKnown
<1>2. ASSUME NEW k \in Thread, NEW f \in Folder, InsertFolder(k, f)
      PROVE  ParentsKnown'
  BY <1>0, <1>2 DEF InsertFolder, ParentsKnown, TypeOK
<1>3. ASSUME NEW f \in Folder, NEW n \in Name, RenameFolder(f, n)
      PROVE  ParentsKnown'
  BY <1>0, <1>3 DEF RenameFolder, ParentsKnown
<1>4. ASSUME NEW f \in Folder, NEW p \in Folder \union {NoFolder}, MoveFolder(f, p)
      PROVE  ParentsKnown'
  BY <1>0, <1>4 DEF MoveFolder, ParentsKnown, Note, Never, Known, TypeOK
<1>5. CASE GetFolders
  BY <1>0, <1>5 DEF GetFolders, Stray, ParentsKnown, Known, TypeOK
<1>6. ASSUME NEW f \in Folder, PruneFolder(f)
      PROVE  ParentsKnown'
  <2>1. folders' = folders \ {f} /\ Siblings(f) = {} /\ f \in folders
    BY <1>6 DEF PruneFolder, Subtree
  <2>2. \A g \in folders' : parent'[g] = parent[g] /\ parent[g] # f
    BY <1>6, <2>1 DEF PruneFolder, TypeOK, Siblings
  <2> QED BY <1>0, <2>1, <2>2 DEF ParentsKnown
<1> QED BY <1>1, <1>2, <1>3, <1>4, <1>5, <1>6, TreeChanges

(* A folder that is not moved below itself leaves a set to which it        *)
(* belongs, and which holds all that is below it but not its new parent.   *)
LEMMA NotBelow ==
  ASSUME NEW f \in folders, NEW p \in folders, p \notin Subtree(f)
  PROVE  \E D \in SUBSET folders : f \in D /\ IsDownward(D) /\ p \notin D
BY DEF Subtree

LEMMA TreeStep ==
  ASSUME TypeOK, ParentsInv, TreeInv, [Next]_vars
  PROVE  TreeInv'
<1> SUFFICES ASSUME Never({"astray", "looped"})'
             PROVE  WellFounded'
  BY DEF TreeInv
<1>0. WellFounded /\ ParentsKnown
  <2>1. Never({"astray", "looped"})
    BY SeenGrows, NeverBefore
  <2> QED BY <2>1 DEF TreeInv, ParentsInv, Never
<1>1. CASE UNCHANGED tree
  BY <1>0, <1>1 DEF tree, WellFounded
<1>2. ASSUME NEW k \in Thread, NEW f \in Folder, InsertFolder(k, f)
      PROVE  WellFounded'
  <2> SUFFICES ASSUME NEW S \in SUBSET folders', S # {}
               PROVE  \E g \in S : parent'[g] \notin S
    BY DEF WellFounded
  <2>1. folders' = folders \union {f} /\ parent'[f] = NoFolder
        /\ (\A g \in folders : parent'[g] = parent[g])
    BY <1>2 DEF InsertFolder, TypeOK
  <2>2. CASE f \in S
    BY <1>2, <2>1, <2>2, NoFolderAssumption DEF InsertFolder, TypeOK
  <2>3. CASE f \notin S
    BY <1>0, <2>1, <2>3 DEF WellFounded
  <2> QED BY <2>2, <2>3
<1>3. ASSUME NEW f \in Folder, NEW n \in Name, RenameFolder(f, n)
      PROVE  WellFounded'
  BY <1>0, <1>3 DEF RenameFolder, WellFounded
<1>4. ASSUME NEW f \in Folder, NEW p \in Folder \union {NoFolder}, MoveFolder(f, p)
      PROVE  WellFounded'
  <2> SUFFICES ASSUME NEW S \in SUBSET folders', S # {}
               PROVE  \E g \in S : parent'[g] \notin S
    BY DEF WellFounded
  <2>1. /\ f \in folders /\ folders' = folders /\ parent'[f] = p
        /\ \A g \in folders : g # f => parent'[g] = parent[g]
    BY <1>4 DEF MoveFolder, TypeOK
  <2>2. CASE p \notin S
    <3>1. PICK g \in S : parent[g] \notin S
      BY <1>0, <2>1 DEF WellFounded
    <3> QED BY <2>1, <2>2, <3>1
  <2>3. CASE f \notin S
    BY <1>0, <2>1, <2>3 DEF WellFounded
  <2>4. CASE p \in S /\ f \in S
    <3>1. p \in folders /\ p \notin Subtree(f)
      BY <1>4, <2>1, <2>4 DEF MoveFolder, Note, Never
    <3>2. PICK D \in SUBSET folders : f \in D /\ IsDownward(D) /\ p \notin D
      BY <2>1, <3>1, NotBelow
    <3>3. PICK g \in S \ D : parent[g] \notin S \ D
      BY <1>0, <2>1, <2>4, <3>2 DEF WellFounded
    <3>4. parent[g] \notin S
      BY <2>1, <3>2, <3>3 DEF IsDownward
    <3> QED BY <2>1, <3>2, <3>3, <3>4
  <2> QED BY <2>2, <2>3, <2>4
<1>5. CASE GetFolders
  <2>1. folders' = folders /\ (\A f \in folders : parent'[f] = parent[f])
    BY <1>0, <1>5 DEF GetFolders, Stray, ParentsKnown, Known, TypeOK
  <2> QED BY <1>0, <2>1 DEF WellFounded
<1>6. ASSUME NEW f \in Folder, PruneFolder(f)
      PROVE  WellFounded'
  <2>1. folders' = folders \ {f} /\ (\A g \in folders' : parent'[g] = parent[g])
    BY <1>6 DEF PruneFolder, TypeOK
  <2> QED BY <1>0, <2>1 DEF WellFounded
<1> QED BY <1>1, <1>2, <1>3, <1>4, <1>5, <1>6, TreeChanges

(* In such a forest the sidebar shows every folder.                        *)
LEMMA AllShown ==
  ASSUME ParentsKnown, WellFounded
  PROVE  Shown = folders
<1> SUFFICES ASSUME NEW f \in folders, NEW S \in SUBSET folders,
                    Siblings(NoFolder) \subseteq S, IsDownward(S), f \notin S
             PROVE  FALSE
  BY DEF Shown
<1>1. PICK g \in folders \ S : parent[g] \notin folders \ S
  BY DEF WellFounded
<1>2. CASE parent[g] = NoFolder
  BY <1>1, <1>2 DEF Siblings
<1>3. CASE parent[g] \in S
  BY <1>1, <1>3 DEF IsDownward
<1> QED BY <1>1, <1>2, <1>3 DEF ParentsKnown
-----------------------------------------------------------------------------
(* Names.                                                                  *)
LEMMA NamesStep ==
  ASSUME TypeOK, NamesInv, [Next]_vars
  PROVE  NamesInv'
<1> SUFFICES ASSUME Never({"raced", "blind", "collided"})'
             PROVE  NamesDiffer' /\ InsertOk'
  BY DEF NamesInv
<1>0. NamesDiffer /\ InsertOk
  BY SeenGrows, NeverBefore DEF NamesInv
<1>1. ASSUME NEW k \in Thread, NEW n \in Name, CreateFolder(k, n)
      PROVE  NamesDiffer' /\ InsertOk'
  <2>1. /\ threads' = [threads EXCEPT ![k] = [at |-> "insert", name |-> n]]
        /\ UNCHANGED tree /\ ~Inserting
    BY <1>1 DEF CreateFolder, Note, Never
  <2>2. NoFolder \in Lookup(NoFolder, n)
    BY <1>1 DEF CreateFolder, Note, Never
  <2>3. \A f \in Siblings(NoFolder) : name[f] = n => n \notin Matched[n]
    BY <2>2, NoFolderAssumption DEF Lookup, Named, Siblings, TypeOK
  <2>4. \A l \in Thread : IF l = k THEN threads'[l] = [at |-> "insert", name |-> n]
                                   ELSE threads'[l].at # "insert"
    BY <2>1 DEF TypeOK, Inserting
  <2> QED BY <1>0, <2>1, <2>3, <2>4 DEF NamesDiffer, InsertOk, tree, Siblings
<1>2. ASSUME NEW k \in Thread, NEW f \in Folder, InsertFolder(k, f)
      PROVE  NamesDiffer' /\ InsertOk'
  <2>1. /\ threads[k].at = "insert" /\ f \notin folders
        /\ folders' = folders \union {f}
        /\ \A g \in folders : parent'[g] = parent[g] /\ name'[g] = name[g]
        /\ parent'[f] = NoFolder /\ name'[f] = threads[k].name
    BY <1>2 DEF InsertFolder, TypeOK
  <2>2. \A l \in Thread : threads'[l].at # "insert"
    BY <1>0, <1>2, <2>1 DEF InsertFolder, TypeOK, InsertOk, Idle
  <2>3. \A g \in folders : parent[g] = NoFolder /\ name[g] = threads[k].name
          => name[g] \notin Matched[name[g]]
    BY <1>0, <2>1 DEF InsertOk, Siblings
  <2>4. NamesDiffer'
    BY <1>0, <2>1, <2>3 DEF NamesDiffer
  <2> QED BY <2>2, <2>4 DEF InsertOk
<1>3. ASSUME NEW f \in Folder, NEW n \in Name, RenameFolder(f, n)
      PROVE  NamesDiffer' /\ InsertOk'
  <2>1. /\ ~Inserting /\ threads' = threads
        /\ folders' = folders /\ parent' = parent /\ name'[f] = n
        /\ \A g \in folders : g # f => name'[g] = name[g]
    BY <1>3 DEF RenameFolder, Note, Never, TypeOK
  <2>2. \A g \in folders : parent[g] = parent[f] => name[g] # n
    BY <1>3 DEF RenameFolder, Named, Siblings
  <2> QED BY <1>0, <2>1, <2>2 DEF NamesDiffer, InsertOk, Inserting
<1>4. ASSUME NEW f \in Folder, NEW p \in Folder \union {NoFolder}, MoveFolder(f, p)
      PROVE  NamesDiffer' /\ InsertOk'
  <2>1. /\ ~Inserting /\ threads' = threads
        /\ folders' = folders /\ name' = name /\ parent'[f] = p
        /\ \A g \in folders : g # f => parent'[g] = parent[g]
    BY <1>4 DEF MoveFolder, Note, Never, TypeOK
  <2>2. NoFolder \in Lookup(p, name[f])
    BY <1>4 DEF MoveFolder, Note, Never
  <2>3. \A g \in folders : parent[g] = p /\ name[g] = name[f] => name[g] \notin Matched[name[g]]
    BY <2>2, NoFolderAssumption DEF Lookup, Named, Siblings, TypeOK
  <2> QED BY <1>0, <2>1, <2>3 DEF NamesDiffer, InsertOk, Inserting
<1>5. CASE GetFolders
  <2>1. PICK S \in SUBSET Stray :
          /\ parent' = [f \in Folder |-> IF f \in S THEN NoFolder ELSE parent[f]]
          /\ \A f \in S, g \in S \union Siblings(NoFolder) : f # g => name[f] # name[g]
          /\ S = {} \/ ~Inserting
    BY <1>5 DEF GetFolders, Note, Never
  <2>2. /\ threads' = threads /\ folders' = folders /\ name' = name
        /\ folders \subseteq Folder /\ S \subseteq folders
    BY <1>5 DEF GetFolders, Stray, TypeOK
  <2>3. \A f \in folders : parent'[f] = IF f \in S THEN NoFolder ELSE parent[f]
    BY <2>1, <2>2
  <2>4. NamesDiffer'
    BY <1>0, <2>1, <2>2, <2>3 DEF NamesDiffer, Siblings
  <2>5. InsertOk'
    <3>1. CASE S = {}
      BY <1>0, <2>2, <2>3, <3>1 DEF InsertOk, Siblings
    <3>2. CASE ~Inserting
      BY <2>2, <3>2 DEF InsertOk, Inserting
    <3> QED BY <2>1, <3>1, <3>2
  <2> QED BY <2>4, <2>5
<1>6. ASSUME NEW f \in Folder, PruneFolder(f)
      PROVE  NamesDiffer' /\ InsertOk'
  <2>1. /\ threads' = threads /\ folders' = folders \ {f} /\ name' = name
        /\ \A g \in folders' : parent'[g] = parent[g]
    BY <1>6 DEF PruneFolder, TypeOK
  <2> QED BY <1>0, <2>1 DEF NamesDiffer, InsertOk, Siblings
<1>7. ASSUME UNCHANGED tree,
             \A l \in Thread : threads'[l] = threads[l] \/ threads'[l].at # "insert"
      PROVE  NamesDiffer' /\ InsertOk'
  BY <1>0, <1>7 DEF NamesDiffer, InsertOk, Siblings, tree
<1>8. ASSUME UNCHANGED tree,
             ~\E k \in Thread, n \in Name : CreateFolder(k, n)
      PROVE  \A l \in Thread : threads'[l] = threads[l] \/ threads'[l].at # "insert"
  <2>1. ASSUME NEW c \in Chat, ChatRequest(c)
        PROVE  threads' = threads
    BY <2>1 DEF ChatRequest, CreateNewChat, CloneChat, ImportChat, Insert, MoveChat, AddTag,
                DeleteTags, ReplaceTags, Archive, Unarchive, Share, Unshare, UnshareFails, DeleteChat
  <2>2. ASSUME NEW f \in Folder, FolderRequest(f)
        PROVE  threads' = threads
    BY <2>2 DEF FolderRequest, RenameFolder, MoveFolder, DeleteFolder
  <2>3. CASE JobStep
    BY <2>3 DEF JobStep, ReleaseTag, DropTag, InsertTag, RestoreTag, DeleteRow, DeleteCopies,
                DeleteAllRows, PutTag, Restored, Link, Unlink, TagFails, LastFails, PruneFails,
                PruneFolder, EmptyFolder, EmptyFails
  <2>4. ASSUME NEW k \in Thread, NEW f \in Folder, InsertFolder(k, f)
        PROVE  \A l \in Thread : threads'[l] = threads[l] \/ threads'[l].at # "insert"
    BY <2>4 DEF InsertFolder, TypeOK, Idle
  <2>5. ASSUME NEW k \in Thread, NEW t \in Tag, Search(k, t)
        PROVE  \A l \in Thread : threads'[l] = threads[l] \/ threads'[l].at # "insert"
    BY <2>5 DEF Search, TypeOK
  <2>6. ASSUME NEW k \in Thread, PurgeTag(k)
        PROVE  \A l \in Thread : threads'[l] = threads[l] \/ threads'[l].at # "insert"
    BY <2>6 DEF PurgeTag, TypeOK, Idle
  <2>7. CASE Crash
    BY <2>7 DEF Crash, Idle
  <2>8. (\E t \in Tag : ListByTag(t)) \/ ArchiveAll \/ UnarchiveAll \/ DeleteAll
        \/ DeleteAllFails \/ GetFolders \/ UNCHANGED vars => threads' = threads
    BY DEF ListByTag, ArchiveAll, UnarchiveAll, DeleteAll, DeleteAllFails, GetFolders, vars
  <2> QED BY <1>8, <2>1, <2>2, <2>3, <2>4, <2>5, <2>6, <2>7, <2>8 DEF Next, ThreadStep
<1> QED BY <1>1, <1>2, <1>3, <1>4, <1>5, <1>6, <1>7, <1>8, TreeChanges

(* Creating, renaming, moving, repairing and deleting folders, in any      *)
(* order and broken off anywhere, leaves the names in one place different, *)
(* unless lookups race or fail, the repair brings together two folders of  *)
(* one name, or LIKE does not find the name.                               *)
THEOREM NamesHold == Spec => []SiblingsDiffer
<1>1. Init => NamesInv
  BY DEF Init, NamesInv, NamesDiffer, InsertOk, Idle
<1>2. NamesInv => SiblingsDiffer
  BY DEF NamesInv, NamesDiffer, SiblingsDiffer
<1> QED BY <1>1, <1>2, NamesStep, TypesHold, PTL DEF Spec
-----------------------------------------------------------------------------
(* Chats and folders together.                                             *)
LEMMA FoundChatRequest ==
  ASSUME TypeOK, FoundInv, seen \subseteq seen', NEW c \in Chat, ChatRequest(c)
  PROVE  FoundInv'
<1> SUFFICES ASSUME Never({"crash", "failed", "astray", "looped"})', NEW d \in chats'
             PROVE  folderOf'[d] \in folders' \union {NoFolder}
  BY DEF FoundInv
<1>0. job = Idle /\ Gone = {}
  BY ChatRequestIdle DEF Gone, Idle
<1>1. \A e \in chats : folderOf[e] \in folders \union {NoFolder}
  BY <1>0, NeverBefore DEF FoundInv
<1>2. ASSUME NEW f, NEW ts, Insert(c, f, ts)
      PROVE  folderOf'[d] \in folders' \union {NoFolder}
  <2>1. /\ folders' = folders /\ chats' = chats \union {c} /\ c \notin chats
        /\ folderOf' = [folderOf EXCEPT ![c] = f]
    BY <1>2 DEF Insert, TypeOK, tree
  <2>2. f \in folders \union {NoFolder}
    BY <1>2 DEF Insert, Known, Note, Never
  <2> QED BY <1>1, <2>1, <2>2 DEF TypeOK
<1>3. ASSUME NEW f \in Folder \union {NoFolder}, MoveChat(c, f)
      PROVE  folderOf'[d] \in folders' \union {NoFolder}
  BY <1>1, <1>3 DEF MoveChat, TypeOK, Known, Note, Never, tree
<1>4. CASE Archive(c) \/ Unarchive(c)
  BY <1>1, <1>4 DEF Archive, Unarchive, TypeOK, tree
<1>5. ASSUME NEW ts, DeleteTags(c, ts) \/ ReplaceTags(c, ts)
      PROVE  folderOf'[d] \in folders' \union {NoFolder}
  BY <1>1, <1>5 DEF DeleteTags, ReplaceTags, tree
<1>6. ASSUME NEW t \in Tag, AddTag(c, t)
      PROVE  folderOf'[d] \in folders' \union {NoFolder}
  BY <1>1, <1>6 DEF AddTag, shelf, tree
<1>7. CASE Share(c) \/ Unshare(c) \/ UnshareFails(c) \/ DeleteChat(c)
  BY <1>1, <1>7 DEF Share, Unshare, UnshareFails, DeleteChat, shelf, tree
<1> QED
  BY <1>2, <1>3, <1>4, <1>5, <1>6, <1>7 DEF ChatRequest, CreateNewChat, CloneChat, ImportChat

LEMMA FoundJobStep ==
  ASSUME TypeOK, FoundInv, seen \subseteq seen', JobStep
  PROVE  FoundInv'
<1> SUFFICES ASSUME Never({"crash", "failed", "astray", "looped"})', NEW d \in chats'
             PROVE  folderOf'[d] \in folders' \union {NoFolder} \union Gone'
  BY DEF FoundInv
<1>1. \A e \in chats : folderOf[e] \in folders \union {NoFolder} \union Gone
  BY NeverBefore DEF FoundInv
<1>2. ASSUME NEW t \in Tag, ReleaseTag(t) \/ DropTag(t) \/ InsertTag(t) \/ RestoreTag(t)
      PROVE  folderOf'[d] \in folders' \union {NoFolder} \union Gone'
  BY <1>1, <1>2 DEF ReleaseTag, DropTag, InsertTag, RestoreTag, Gone, shelf, tree
<1>3. CASE DeleteCopies \/ Link \/ Unlink \/ Restored
  BY <1>1, <1>3 DEF DeleteCopies, Link, Unlink, Restored, Gone, shelf, tree
<1>4. CASE PutTag
  BY <1>1, <1>4 DEF PutTag, Gone, tree
<1>5. CASE DeleteRow \/ DeleteAllRows
  BY <1>1, <1>5 DEF DeleteRow, DeleteAllRows, Remove, TypeOK, Gone, tree
<1>6. CASE PruneFails
  BY <1>6 DEF PruneFails, Never
<1>7. ASSUME NEW f \in Folder, PruneFolder(f)
      PROVE  folderOf'[d] \in folders' \union {NoFolder} \union Gone'
  <2>1. job \in [at : {"prune"}, root : Folder, gone : SUBSET Folder, contents : BOOLEAN]
    BY <1>7 DEF TypeOK, PruneFolder, Job, TagJob, Idle
  <2>2. Gone' = Gone \union {f}
    BY <1>7, <2>1 DEF PruneFolder, Gone
  <2> QED BY <1>1, <1>7, <2>2 DEF PruneFolder, shelf
<1>8. ASSUME NEW f \in Folder, EmptyFolder(f)
      PROVE  folderOf'[d] \in folders' \union {NoFolder} \union Gone'
  <2>1. job \in [at : {"empty"}, gone : SUBSET Folder, contents : BOOLEAN]
    BY <1>8 DEF TypeOK, EmptyFolder, Job, TagJob, Idle
  <2>2. Gone' = Gone \ {f} /\ folders' = folders
    BY <1>8, <2>1 DEF EmptyFolder, Gone, Idle, tree
  <2>3. CASE job.contents
    <3>1. d \in chats /\ folderOf[d] # f /\ folderOf'[d] = folderOf[d]
      BY <1>8, <2>3 DEF EmptyFolder, Remove, ChatsIn, TypeOK
    <3> QED BY <1>1, <2>2, <3>1
  <2>4. CASE ~job.contents
    <3>1. d \in chats /\ (folderOf'[d] = NoFolder \/ (folderOf[d] # f /\ folderOf'[d] = folderOf[d]))
      BY <1>8, <2>4 DEF EmptyFolder, ChatsIn, TypeOK
    <3> QED BY <1>1, <2>2, <3>1
  <2> QED BY <2>3, <2>4
<1>9. ASSUME NEW f \in Folder, EmptyFails(f)
      PROVE  folderOf'[d] \in folders' \union {NoFolder} \union Gone'
  BY <1>9 DEF EmptyFails, Never
<1>10. CASE TagFails \/ LastFails
  <2>1. /\ UNCHANGED <<shelf, tree>> /\ job.at \notin {"prune", "empty"}
        /\ job'.at \notin {"prune", "empty"}
    <3>1. CASE TagFails
      <4>1. CASE job' = Idle
        BY <3>1, <4>1 DEF TagFails, Idle
      <4>2. CASE job.at \in {"release", "restore"} /\ job' # Idle
        <5>1. PICK x : job' = [job EXCEPT !.tags = @ \ {x}]
          BY <3>1, <4>2 DEF TagFails
        <5>2. job'.at = job.at
          BY <4>2, <5>1, SkipType
        <5> QED BY <3>1, <4>2, <5>2 DEF TagFails
      <4>3. CASE job.at = "tags" /\ job' # Idle
        <5>1. PICK j \in TagJob : job' = Finished(j)
          BY <3>1, <4>3, SkipType DEF TagFails
        <5>2. job'.at = "tags"
          BY <4>3, <5>1 DEF Finished, TagJob
        <5> QED BY <3>1, <4>3, <5>2 DEF TagFails
      <4> QED BY <3>1, <4>1, <4>2, <4>3 DEF TagFails
    <3>2. CASE LastFails
      BY <3>2 DEF LastFails, Idle
    <3> QED BY <1>10, <3>1, <3>2
  <2> QED BY <1>1, <2>1 DEF Gone, shelf, tree
<1> QED BY <1>2, <1>3, <1>4, <1>5, <1>6, <1>7, <1>8, <1>9, <1>10 DEF JobStep

LEMMA FoundStep ==
  ASSUME TypeOK, ParentsInv, FoundInv, [Next]_vars
  PROVE  FoundInv'
<1>0. seen \subseteq seen'
  BY SeenGrows
<1>1. ASSUME NEW f \in Folder, FolderRequest(f)
      PROVE  FoundInv'
  <2>1. /\ UNCHANGED <<chats, folderOf, folders>> /\ job = Idle
        /\ job' = Idle \/ (job'.at = "prune" /\ job'.gone = {})
    BY <1>1, FolderRequestIdle DEF shelf
  <2>2. Gone = {} /\ Gone' = {}
    BY <2>1 DEF Gone, Idle
  <2> QED BY <1>0, <2>1, <2>2, NeverBefore DEF FoundInv
<1>2. ASSUME NEW k \in Thread, ThreadStep(k)
      PROVE  FoundInv'
  <2>1. UNCHANGED <<chats, folderOf, job>> /\ folders \subseteq folders'
    BY <1>2 DEF ThreadStep, CreateFolder, InsertFolder, Search, PurgeTag, shelf, tree
  <2> QED BY <1>0, <2>1, NeverBefore DEF FoundInv, Gone
<1>3. CASE (\E t \in Tag : ListByTag(t)) \/ ArchiveAll \/ UnarchiveAll \/ GetFolders \/ DeleteAll
           \/ DeleteAllFails
  <2>1. /\ UNCHANGED <<chats, folderOf, folders>> /\ job = Idle
        /\ job' = Idle \/ job' = [at |-> "wipe"]
    BY <1>3 DEF ListByTag, ArchiveAll, UnarchiveAll, GetFolders, DeleteAll, DeleteAllFails,
                shelf, tree
  <2>2. Gone = {} /\ Gone' = {}
    BY <2>1 DEF Gone, Idle
  <2> QED BY <1>0, <2>1, <2>2, NeverBefore DEF FoundInv
<1>4. CASE Crash
  BY <1>4 DEF Crash, FoundInv, Never
<1>5. CASE UNCHANGED vars
  BY <1>5 DEF vars, FoundInv, Gone, Never, shelf, tree
<1> QED
  BY <1>0, <1>1, <1>2, <1>3, <1>4, <1>5, FoundChatRequest, FoundJobStep DEF Next

(* No chat is lost between the folders: the tree and the place of every    *)
(* chat in it, also while a folder and what is below it is deleted.        *)
THEOREM ChatsHold == Spec => []ChatsFound
<1>1. Init => ParentsInv /\ TreeInv /\ FoundInv
  BY DEF Init, ParentsInv, ParentsKnown, TreeInv, WellFounded, FoundInv
<1>2. ParentsInv /\ TreeInv /\ FoundInv => ChatsFound
  <2> SUFFICES ASSUME ParentsInv, TreeInv, FoundInv,
                      Never({"crash", "failed", "astray", "looped"}),
                      job.at \notin {"prune", "empty"}, NEW c \in chats \ archived
               PROVE  folderOf[c] \in Shown \union {NoFolder}
    BY DEF ChatsFound
  <2>1. ParentsKnown /\ WellFounded
    BY DEF ParentsInv, TreeInv, Never
  <2>2. folderOf[c] \in folders \union {NoFolder}
    BY DEF FoundInv, Gone
  <2> QED BY <2>1, <2>2, AllShown
<1> QED BY <1>1, <1>2, ParentsStep, TreeStep, FoundStep, TypesHold, PTL DEF Spec
=============================================================================
