----------------------------- MODULE ChatLibrary -----------------------------
(***************************************************************************)
(* The chats of one user beside their messages: the folders they are in,   *)
(* their tags, the archive and the shared copies (models/chats.py,         *)
(* models/folders.py, models/tags.py and their routers), served by one     *)
(* process.                                                                *)
(*                                                                         *)
(* Atomicity. Nearly all handlers are coroutines without an await: they    *)
(* run one at a time (`job`), a transaction after the other, and the       *)
(* process can die between two. Creating a folder and searching are plain  *)
(* functions: they run in threads, and their transactions fall between any *)
(* two of a handler. Handlers that write once are one action. A write may  *)
(* fail; many functions swallow the exception, and their callers go on.    *)
(*                                                                         *)
(* Left out: pins, titles and messages; permissions; the content of shared *)
(* copies; what is read only. A row is given an id that never comes back.  *)
(***************************************************************************)
EXTENDS Naturals

CONSTANTS
  Chat, Folder, Tag, Name,   \* ids of chats, folders and tags; folder names
  Matched,                   \* names that a name matches when LIKE takes it as a pattern
  NoFolder,                  \* folder_id or parent_id is None
  Thread,                    \* threads for handlers that are no coroutines
  MaxShares                  \* bound: copies of a chat

ASSUME NoFolderAssumption == NoFolder \notin Folder
ASSUME MatchedAssumption == Matched \in [Name -> SUBSET Name]
ASSUME MaxSharesAssumption == MaxShares \in Nat

VARIABLES
  chats,     \* rows of the user's chats
  folderOf,  \* Chat.folder_id
  archived,  \* chats with Chat.archived
  tags,      \* Chat.meta["tags"]
  share,     \* Chat.share_id: which of the chat's copies, or 0
  copies,    \* rows of user shared-<chat>
  copied,    \* number of copies a chat has had
  rows,      \* rows of the user's tags
  folders,   \* rows of the user's folders
  parent, name,
  born,      \* ids of chats and folders so far
  job,       \* what is left of the coroutine that runs, or Idle
  threads,   \* the same for each thread
  seen       \* history: what has gone wrong (see the properties)

shelf == <<chats, folderOf, archived, tags>>
links == <<share, copies, copied>>
tree == <<folders, parent, name>>
vars == <<shelf, links, rows, tree, born, job, threads, seen>>

Idle == [at |-> "idle"]
TagJob == [at : {"tags"}, chat : Chat,
           drop : SUBSET Tag,   \* tags whose rows may have to go
           add : SUBSET Tag,    \* tags to add to the chat
           put : SUBSET Tag]    \* the one of them that has its row
Job == {Idle} \union TagJob
       \union [at : {"restore"}, tags : SUBSET Tag]
       \union [at : {"release"}, chat : Chat, tags : SUBSET Tag]
       \union [at : {"uncopy", "link", "unlink"}, chat : Chat]
       \union [at : {"wipe"}]
       \union [at : {"prune"}, root : Folder, gone : SUBSET Folder, contents : BOOLEAN]
       \union [at : {"empty"}, gone : SUBSET Folder, contents : BOOLEAN]

ThreadJob == {Idle} \union [at : {"insert"}, name : Name] \union [at : {"purge"}, tag : Tag]

Event == {"crash", "failed", "unsaved", "astray", "looped", "raced", "blind", "collided",
          "untagged", "archived", "contents"}

TypeOK ==
  /\ chats \subseteq Chat /\ archived \subseteq chats
  /\ folderOf \in [Chat -> Folder \union {NoFolder}]
  /\ tags \in [Chat -> SUBSET Tag]
  /\ share \in [Chat -> 0 .. MaxShares]
  /\ copied \in [Chat -> 0 .. MaxShares]
  /\ copies \in [Chat -> SUBSET (1 .. MaxShares)]
  /\ rows \subseteq Tag
  /\ folders \subseteq Folder
  /\ parent \in [Folder -> Folder \union {NoFolder}]
  /\ name \in [Folder -> Name]
  /\ chats \union folders \subseteq born
  /\ job \in Job
  /\ threads \in [Thread -> ThreadJob]
  /\ seen \subseteq Event

Init ==
  /\ chats = {} /\ archived = {}
  /\ folderOf = [c \in Chat |-> NoFolder]
  /\ tags = [c \in Chat |-> {}]
  /\ share = [c \in Chat |-> 0] /\ copied = [c \in Chat |-> 0]
  /\ copies = [c \in Chat |-> {}]
  /\ rows = {}
  /\ folders = {}
  /\ parent = [f \in Folder |-> NoFolder]
  /\ name \in [Folder -> Name]
  /\ born = {}
  /\ job = Idle
  /\ threads = [k \in Thread |-> Idle]
  /\ seen = {}

Note(e, happens) == IF happens THEN {e} ELSE {}

Purging == \E k \in Thread : threads[k].at = "purge"
Inserting == \E k \in Thread : threads[k].at = "insert"
-----------------------------------------------------------------------------
(* Chats. *)

Known(f) == f \in folders \union {NoFolder}

(* insert_new_chat, import_chats: chat c, in folder f and with tags ts.    *)
Insert(c, f, ts) ==
  /\ job = Idle
  /\ c \in Chat \ born
  /\ chats' = chats \union {c} /\ born' = born \union {c}
  /\ folderOf' = [folderOf EXCEPT ![c] = f]
  /\ tags' = [tags EXCEPT ![c] = ts]
  /\ seen' = seen \union Note("astray", ~Known(f))
                  \union Note("untagged", ~(ts \subseteq rows))
                  \union Note("raced", Purging /\ ts # {})
  /\ UNCHANGED <<archived, links, rows, tree, job, threads>>

(* A new chat is put in the folder the page has selected. *)
CreateNewChat(c, f) == Insert(c, f, {})

CloneChat(c, d) == d \in chats /\ Insert(c, folderOf[d], tags[d])

(* A file is imported, or a chat somebody shared is cloned, with whatever  *)
(* folder and tags it had.                                                 *)
ImportChat(c, f, ts) == Insert(c, f, ts)

(* update_chat_folder_id_by_id. The folder may have been deleted in        *)
(* another page.                                                           *)
MoveChat(c, f) ==
  /\ job = Idle /\ c \in chats
  /\ folderOf' = [folderOf EXCEPT ![c] = f]
  /\ seen' = seen \union Note("astray", ~Known(f))
  /\ UNCHANGED <<chats, archived, tags, links, rows, tree, born, job, threads>>

(* The rows of S are deleted. *)
Remove(S) ==
  /\ chats' = chats \ S
  /\ archived' = archived \ S
  /\ folderOf' = [c \in Chat |-> IF c \in S THEN NoFolder ELSE folderOf[c]]
  /\ tags' = [c \in Chat |-> IF c \in S THEN {} ELSE tags[c]]
  /\ share' = [c \in Chat |-> IF c \in S THEN 0 ELSE share[c]]

(* count_chats_by_tag_name_and_user_id leaves out archived chats.          *)
With(t) == {c \in chats \ archived : t \in tags[c]}

(* delete_chat_by_id: the row of a tag of which this is the last chat,     *)
DeleteChat(c) ==
  /\ job = Idle /\ c \in chats
  /\ job' = [at |-> "release", chat |-> c, tags |-> tags[c]]
  /\ seen' = seen \union Note("archived", c \in archived /\ tags[c] # {})
  /\ UNCHANGED <<shelf, links, rows, tree, born, threads>>

IsLast(t) == \E c \in Chat : With(t) = {c}

ReleaseTag(t) ==
  /\ job.at = "release" /\ t \in job.tags
  /\ rows' = IF IsLast(t) THEN rows \ {t} ELSE rows
  /\ job' = [job EXCEPT !.tags = @ \ {t}]
  /\ UNCHANGED <<shelf, links, tree, born, threads, seen>>

(* the chat,                                                               *)
DeleteRow ==
  /\ job.at = "release" /\ job.tags = {}
  /\ Remove({job.chat})
  /\ job' = [at |-> "uncopy", chat |-> job.chat]
  /\ UNCHANGED <<copies, copied, rows, tree, born, threads, seen>>

(* and its shared copies.                                                  *)
(* Mutant: the copies stay. *)
CopiesOfDeleted_Kept(c) == copies[c]
CopiesOfDeleted(c) == {}

DeleteCopies ==
  /\ job.at = "uncopy"
  /\ copies' = [copies EXCEPT ![job.chat] = CopiesOfDeleted(job.chat)]
  /\ job' = Idle
  /\ UNCHANGED <<shelf, share, copied, rows, tree, born, threads, seen>>

(* delete_all_user_chats: the copies of all chats, then the chats.         *)
DeleteAll ==
  /\ job = Idle
  /\ copies' = [c \in Chat |-> IF c \in chats THEN {} ELSE copies[c]]
  /\ job' = [at |-> "wipe"]
  /\ UNCHANGED <<shelf, share, copied, rows, tree, born, threads, seen>>

DeleteAllRows ==
  /\ job.at = "wipe"
  /\ Remove(chats)
  /\ job' = Idle
  /\ UNCHANGED <<copies, copied, rows, tree, born, threads, seen>>

(* Deleting the copies fails, and the chats are deleted all the same.      *)
DeleteAllFails ==
  /\ job = Idle
  /\ job' = [at |-> "wipe"]
  /\ seen' = seen \union {"unsaved"}
  /\ UNCHANGED <<shelf, links, rows, tree, born, threads>>
-----------------------------------------------------------------------------
(* Tags. *)

Finished(j) == IF j.drop = {} /\ j.add = {} /\ j.put = {} THEN Idle ELSE j

TagWork(c, drop, add) ==
  job' = Finished([at |-> "tags", chat |-> c, drop |-> drop, add |-> add, put |-> {}])

(* add_tag_by_id_and_tag_name. *)
AddTag(c, t) ==
  /\ job = Idle /\ c \in chats /\ t \notin tags[c]
  /\ TagWork(c, {}, {t})
  /\ seen' = seen \union Note("raced", Purging)
  /\ UNCHANGED <<shelf, links, rows, tree, born, threads>>

(* delete_tag_by_id_and_tag_name, delete_all_tags_by_id. *)
DeleteTags(c, ts) ==
  /\ job = Idle /\ c \in chats
  /\ tags' = [tags EXCEPT ![c] = @ \ ts]
  /\ TagWork(c, ts, {})
  /\ UNCHANGED <<chats, folderOf, archived, links, rows, tree, born, threads, seen>>

(* update_chat_tags_by_id: a model has chosen the chat's tags.             *)
ReplaceTags(c, ts) ==
  /\ job = Idle /\ c \in chats
  /\ tags' = [tags EXCEPT ![c] = {}]
  /\ TagWork(c, tags[c], ts)
  /\ seen' = seen \union Note("raced", Purging)
  /\ UNCHANGED <<chats, folderOf, archived, links, rows, tree, born, threads>>

(* The row of a tag goes when no chat has the tag,                         *)
(* Mutant: the chats are not counted. *)
Unused_Any(t) == TRUE
Unused(t) == With(t) = {}

DropTag(t) ==
  /\ job.at = "tags" /\ t \in job.drop
  /\ rows' = IF Unused(t) THEN rows \ {t} ELSE rows
  /\ job' = Finished([job EXCEPT !.drop = @ \ {t}])
  /\ UNCHANGED <<shelf, links, tree, born, threads, seen>>

(* and a tag gets its row before the chat gets the tag                     *)
(* (add_chat_tag_by_id_and_user_id_and_tag_name).                          *)
InsertTag(t) ==
  /\ job.at = "tags" /\ job.drop = {} /\ job.put = {} /\ t \in job.add
  /\ rows' = rows \union {t}
  /\ job' = [job EXCEPT !.add = @ \ {t}, !.put = {t}]
  /\ UNCHANGED <<shelf, links, tree, born, threads, seen>>

PutTag ==
  /\ job.at = "tags" /\ job.put # {}
  /\ tags' = [tags EXCEPT ![job.chat] = @ \union job.put]
  /\ job' = Finished([job EXCEPT !.put = {}])
  /\ UNCHANGED <<chats, folderOf, archived, links, rows, tree, born, threads, seen>>

(* archive_chat_by_id: the chat leaves its folder, and its tags lose or    *)
(* get back their rows.                                                    *)
Archive(c) ==
  /\ job = Idle /\ c \in chats \ archived
  /\ archived' = archived \union {c}
  /\ folderOf' = [folderOf EXCEPT ![c] = NoFolder]
  /\ TagWork(c, tags[c], {})
  /\ UNCHANGED <<chats, tags, links, rows, tree, born, threads, seen>>

Unarchive(c) ==
  /\ job = Idle /\ c \in archived
  /\ archived' = archived \ {c}
  /\ folderOf' = [folderOf EXCEPT ![c] = NoFolder]
  /\ job' = [at |-> "restore", tags |-> tags[c]]
  /\ seen' = seen \union Note("raced", Purging /\ tags[c] # {})
  /\ UNCHANGED <<chats, tags, links, rows, tree, born, threads>>

RestoreTag(t) ==
  /\ job.at = "restore" /\ t \in job.tags
  /\ rows' = rows \union {t}
  /\ job' = [job EXCEPT !.tags = @ \ {t}]
  /\ UNCHANGED <<shelf, links, tree, born, threads, seen>>

Restored ==
  /\ job.at = "restore" /\ job.tags = {}
  /\ job' = Idle
  /\ UNCHANGED <<shelf, links, rows, tree, born, threads, seen>>

(* A write fails and the next tag is seen to, or counting fails, which     *)
(* ends the handler, as does deleting the chat.                            *)
TagFails ==
  /\ \/ /\ job.at \in {"release", "restore"}
        /\ \E t \in job.tags : job' = [job EXCEPT !.tags = @ \ {t}]
     \/ job.at = "release" /\ job' = Idle
     \/ /\ job.at = "tags"
        /\ \/ \E t \in job.drop : job' = Finished([job EXCEPT !.drop = @ \ {t}])
           \/ job.drop # {} /\ job' = Idle
           \/ /\ job.drop = {} /\ job.put = {}
              /\ \E t \in job.add : job' = Finished([job EXCEPT !.add = @ \ {t}])
           \/ job.put # {} /\ job' = Finished([job EXCEPT !.put = {}])
  /\ seen' = seen \union {"unsaved"}
  /\ UNCHANGED <<shelf, links, rows, tree, born, threads>>

(* archive_all_chats and unarchive_all_chats leave folders and tags as     *)
(* they are.                                                               *)
ArchiveAll ==
  /\ job = Idle
  /\ archived' = chats
  /\ UNCHANGED <<chats, folderOf, tags, links, rows, tree, born, job, threads, seen>>

UnarchiveAll ==
  /\ job = Idle
  /\ archived' = {}
  /\ seen' = seen
       \union Note("untagged", \E c \in archived : ~(tags[c] \subseteq rows))
       \union Note("raced", Purging)
  /\ UNCHANGED <<chats, folderOf, tags, links, rows, tree, born, job, threads>>

(* get_user_chat_list_by_tag_name: of no chat at all.                      *)
ListByTag(t) ==
  /\ job = Idle
  /\ \A c \in chats : t \notin tags[c]
  /\ rows' = rows \ {t}
  /\ UNCHANGED <<shelf, links, tree, born, job, threads, seen>>

(* search_user_chats finds no chat with the tag, and deletes its row.      *)
Search(k, t) ==
  /\ threads[k] = Idle
  /\ t \in rows /\ With(t) = {}
  /\ threads' = [threads EXCEPT ![k] = [at |-> "purge", tag |-> t]]
  /\ seen' = seen \union Note("raced", job # Idle)
  /\ UNCHANGED <<shelf, links, rows, tree, born, job>>

PurgeTag(k) ==
  /\ threads[k].at = "purge"
  /\ rows' = rows \ {threads[k].tag}
  /\ threads' = [threads EXCEPT ![k] = Idle]
  /\ UNCHANGED <<shelf, links, tree, born, job, seen>>
-----------------------------------------------------------------------------
(* Shared copies. *)

(* share_chat_by_id of a chat without a link: the copy, then the link. The *)
(* copy of a chat with one is brought up to date.                          *)
Share(c) ==
  /\ job = Idle /\ c \in chats
  /\ share[c] = 0 /\ copied[c] < MaxShares
  /\ copied' = [copied EXCEPT ![c] = @ + 1]
  /\ copies' = [copies EXCEPT ![c] = @ \union {copied[c] + 1}]
  /\ job' = [at |-> "link", chat |-> c]
  /\ UNCHANGED <<shelf, share, rows, tree, born, threads, seen>>

Link ==
  /\ job.at = "link"
  /\ share' = [share EXCEPT ![job.chat] = copied[job.chat]]
  /\ job' = Idle
  /\ UNCHANGED <<shelf, copies, copied, rows, tree, born, threads, seen>>

(* delete_shared_chat_by_id: all copies, then the link.                    *)
Unshare(c) ==
  /\ job = Idle /\ c \in chats /\ share[c] # 0
  /\ copies' = [copies EXCEPT ![c] = {}]
  /\ job' = [at |-> "unlink", chat |-> c]
  /\ UNCHANGED <<shelf, share, copied, rows, tree, born, threads, seen>>

Unlink ==
  /\ job.at = "unlink"
  /\ share' = [share EXCEPT ![job.chat] = 0]
  /\ job' = Idle
  /\ UNCHANGED <<shelf, copies, copied, rows, tree, born, threads, seen>>

(* Deleting the copies fails, and the link goes all the same.              *)
UnshareFails(c) ==
  /\ job = Idle /\ c \in chats /\ share[c] # 0
  /\ job' = [at |-> "unlink", chat |-> c]
  /\ seen' = seen \union {"unsaved"}
  /\ UNCHANGED <<shelf, links, rows, tree, born, threads>>

(* The last write of a handler fails. *)
LastFails ==
  /\ job.at \in {"uncopy", "wipe", "link", "unlink"}
  /\ job' = Idle
  /\ seen' = seen \union {"unsaved"}
  /\ UNCHANGED <<shelf, links, rows, tree, born, threads>>
-----------------------------------------------------------------------------
(* Folders. *)

(* S holds the subfolders of its members. *)
IsDownward(S) == \A f \in folders : parent[f] \in S => f \in S

(* f and all folders below it. *)
Subtree(f) == {g \in folders : \A S \in SUBSET folders : f \in S /\ IsDownward(S) => g \in S}

Siblings(p) == {f \in folders : parent[f] = p}

Named(p, N) == {g \in Siblings(p) : name[g] \in N}

(* get_folder_by_parent_id_and_user_id_and_name: what it may return. The   *)
(* name is the pattern of an ILIKE, and the first row found is taken.      *)
(* Mutant: nothing is found. *)
Lookup_Never(p, n) == {NoFolder}
Lookup(p, n) == IF Named(p, Matched[n]) = {} THEN {NoFolder} ELSE Named(p, Matched[n])

(* create_folder, in a thread: the name is looked up at the root (should   *)
(* that fail it passes for free),                                          *)
CreateFolder(k, n) ==
  /\ threads[k] = Idle
  /\ \E failed \in BOOLEAN :
       /\ failed \/ NoFolder \in Lookup(NoFolder, n)
       /\ seen' = seen \union Note("blind", failed) \union Note("raced", Inserting)
  /\ threads' = [threads EXCEPT ![k] = [at |-> "insert", name |-> n]]
  /\ UNCHANGED <<shelf, links, rows, tree, born, job>>

(* and the folder is inserted.                                             *)
InsertFolder(k, f) ==
  /\ threads[k].at = "insert" /\ f \in Folder \ born
  /\ folders' = folders \union {f} /\ born' = born \union {f}
  /\ parent' = [parent EXCEPT ![f] = NoFolder]
  /\ name' = [name EXCEPT ![f] = threads[k].name]
  /\ threads' = [threads EXCEPT ![k] = Idle]
  /\ UNCHANGED <<shelf, links, rows, job, seen>>

(* update_folder_name_by_id; the update looks for the very name once more. *)
RenameFolder(f, n) ==
  /\ job = Idle /\ f \in folders /\ n # name[f]
  /\ \E failed \in BOOLEAN :
       /\ failed \/ Lookup(parent[f], n) \intersect {f, NoFolder} # {}
       /\ seen' = seen \union Note("blind", failed) \union Note("raced", Inserting)
  /\ Named(parent[f], {n}) = {}
  /\ name' = [name EXCEPT ![f] = n]
  /\ UNCHANGED <<shelf, links, rows, folders, parent, born, job, threads>>

(* update_folder_parent_id_by_id. A page lets a folder be dropped anywhere *)
(* but on itself and on its own subfolders (RecursiveFolder.svelte): on    *)
(* one further down it can, and on one that another page has deleted.      *)
MoveFolder(f, p) ==
  /\ job = Idle /\ f \in folders
  /\ p # f /\ p # parent[f]
  /\ p \in folders => parent[p] # f
  /\ \E failed \in BOOLEAN :
       /\ failed \/ NoFolder \in Lookup(p, name[f])
       /\ seen' = seen \union Note("blind", failed)
                       \union Note("astray", ~Known(p))
                       \union Note("looped", p \in Subtree(f))
                       \union Note("raced", Inserting)
  /\ parent' = [parent EXCEPT ![f] = p]
  /\ UNCHANGED <<shelf, links, rows, folders, name, born, job, threads>>

Stray == {f \in folders : ~Known(parent[f])}

(* get_folders: the folders whose parent does not exist, or the first of   *)
(* them when a write fails, are moved to the root, whatever their names.   *)
GetFolders ==
  /\ job = Idle
  /\ \E S \in SUBSET Stray :
       /\ parent' = [f \in Folder |-> IF f \in S THEN NoFolder ELSE parent[f]]
       /\ seen' = seen
            \union Note("collided", \E f \in S : \E g \in (S \union Siblings(NoFolder)) \ {f} :
                                       name[f] = name[g])
            \union Note("raced", S # {} /\ Inserting)
  /\ UNCHANGED <<shelf, links, rows, folders, name, born, job, threads>>

(* delete_folder_by_id: folders without subfolders first,                  *)
DeleteFolder(f, contents) ==
  /\ job = Idle /\ f \in folders
  /\ job' = [at |-> "prune", root |-> f, gone |-> {}, contents |-> contents]
  /\ UNCHANGED <<shelf, links, rows, tree, born, threads, seen>>

PruneFolder(f) ==
  /\ job.at = "prune"
  /\ f \in Subtree(job.root) /\ Siblings(f) = {}
  /\ folders' = folders \ {f}
  /\ parent' = [parent EXCEPT ![f] = NoFolder]
  /\ job' = IF f = job.root
            THEN [at |-> "empty", gone |-> job.gone \union {f}, contents |-> job.contents]
            ELSE [job EXCEPT !.gone = @ \union {f}]
  /\ UNCHANGED <<shelf, links, rows, name, born, threads, seen>>

(* (an exception, which folders that contain each other raise for sure,    *)
(* ends it: no chat is touched, and the answer is as if all had gone well) *)
PruneFails ==
  /\ job.at = "prune"
  /\ job' = Idle
  /\ seen' = seen \union {"failed"}
  /\ UNCHANGED <<shelf, links, rows, tree, born, threads>>

(* then the chats in them are deleted, or moved to the root.               *)
(* Mutant: archived chats are passed over. *)
ChatsIn_Listed(f) == {c \in chats \ archived : folderOf[c] = f}
ChatsIn(f) == {c \in chats : folderOf[c] = f}

EmptyFolder(f) ==
  /\ job.at = "empty" /\ f \in job.gone
  /\ IF job.contents
     THEN /\ Remove(ChatsIn(f))
          /\ seen' = seen \union Note("contents", \E c \in ChatsIn(f) : copies[c] # {})
     ELSE /\ folderOf' = [c \in Chat |-> IF c \in ChatsIn(f) THEN NoFolder ELSE folderOf[c]]
          /\ UNCHANGED <<chats, archived, tags, share, seen>>
  /\ job' = IF job.gone = {f} THEN Idle ELSE [job EXCEPT !.gone = @ \ {f}]
  /\ UNCHANGED <<copies, copied, rows, tree, born, threads>>

(* That fails, and nobody asks whether it went well.                       *)
EmptyFails(f) ==
  /\ job.at = "empty" /\ f \in job.gone
  /\ job' = IF job.gone = {f} THEN Idle ELSE [job EXCEPT !.gone = @ \ {f}]
  /\ seen' = seen \union {"failed"}
  /\ UNCHANGED <<shelf, links, rows, tree, born, threads>>
-----------------------------------------------------------------------------
(* The process dies, and is started again. *)
Crash ==
  /\ job # Idle
  /\ job' = Idle
  /\ threads' = [k \in Thread |-> Idle]
  /\ seen' = seen \union {"crash"}
  /\ UNCHANGED <<shelf, links, rows, tree, born>>

ChatRequest(c) ==
  \/ \E f \in Folder \union {NoFolder} : CreateNewChat(c, f) \/ MoveChat(c, f)
  \/ \E f \in Folder \union {NoFolder}, ts \in SUBSET Tag : ImportChat(c, f, ts)
  \/ \E d \in Chat : CloneChat(c, d)
  \/ \E t \in Tag : AddTag(c, t)
  \/ \E ts \in {{t} : t \in Tag} \union {tags[c]} : DeleteTags(c, ts)
  \/ \E ts \in SUBSET Tag : ReplaceTags(c, ts)
  \/ Archive(c) \/ Unarchive(c) \/ DeleteChat(c)
  \/ Share(c) \/ Unshare(c) \/ UnshareFails(c)

FolderRequest(f) ==
  \/ \E n \in Name : RenameFolder(f, n)
  \/ \E p \in Folder \union {NoFolder} : MoveFolder(f, p)
  \/ \E contents \in BOOLEAN : DeleteFolder(f, contents)

JobStep ==
  \/ \E t \in Tag : ReleaseTag(t) \/ DropTag(t) \/ InsertTag(t) \/ RestoreTag(t)
  \/ DeleteRow \/ DeleteCopies \/ DeleteAllRows \/ PutTag \/ Restored
  \/ Link \/ Unlink
  \/ TagFails \/ LastFails \/ PruneFails
  \/ \E f \in Folder : PruneFolder(f) \/ EmptyFolder(f) \/ EmptyFails(f)

ThreadStep(k) ==
  \/ \E n \in Name : CreateFolder(k, n)
  \/ \E f \in Folder : InsertFolder(k, f)
  \/ \E t \in Tag : Search(k, t)
  \/ PurgeTag(k)

Next ==
  \/ \E c \in Chat : ChatRequest(c)
  \/ \E f \in Folder : FolderRequest(f)
  \/ \E t \in Tag : ListByTag(t)
  \/ ArchiveAll \/ UnarchiveAll \/ DeleteAll \/ DeleteAllFails \/ GetFolders
  \/ JobStep
  \/ \E k \in Thread : ThreadStep(k)
  \/ Crash

Spec == Init /\ [][Next]_vars
-----------------------------------------------------------------------------
(* Properties. *)

Never(E) == seen \cap E = {}

(* The folders the sidebar shows: the roots and what is below them.        *)
Shown == {f \in folders : \A S \in SUBSET folders :
                            Siblings(NoFolder) \subseteq S /\ IsDownward(S) => f \in S}

(* Every chat can be found: it is in the archive, in the main list, or in  *)
(* a folder that the sidebar shows; also after folders have been moved and *)
(* deleted with chats in them that were archived meanwhile. Not so when    *)
(* deleting a folder failed half-way or its chats could not be seen to     *)
(* (the answer is the same as ever), or when something was put in a folder *)
(* that is not there or below itself.                                      *)
ChatsFound ==
  Never({"crash", "failed", "astray", "looped"}) /\ job.at \notin {"prune", "empty"}
    => \A c \in chats \ archived : folderOf[c] \in Shown \union {NoFolder}

(* Every tag of a chat that is not archived has a row, so that it is shown *)
(* and can be searched for: each way of taking a tag from a chat counts    *)
(* the others that have it. Not so when a search or a crash comes between, *)
(* when a write fails, when chats come with tags from elsewhere or all at  *)
(* once out of the archive, or when an archived chat is deleted.           *)
TagsHaveRows ==
  Never({"crash", "unsaved", "raced", "untagged", "archived"}) /\ job = Idle
    => \A c \in chats \ archived : tags[c] \subseteq rows

(* A chat with a link has one copy, the one the link leads to, and a chat  *)
(* that is gone or was never shared has none. A crash can come between     *)
(* copy and link; when a write fails the link may go and the copies stay,  *)
(* or the other way round; deleting a folder with its contents leaves      *)
(* copies.                                                                 *)
LinksWork ==
  Never({"crash", "unsaved", "contents"}) /\ job = Idle
    => \A c \in Chat : copies[c] = (IF share[c] = 0 THEN {} ELSE {share[c]})

(* Folders in one place, be it that of a folder that is not there, have    *)
(* different names, however they are created, renamed, moved and taken     *)
(* back to the root, and also when deleting one was broken off. Not so     *)
(* when two requests look a name up at once, when a lookup fails, which    *)
(* passes for a free name, when a folder is taken back to the root where   *)
(* another has its name, for nobody looks, and for a name that LIKE does   *)
(* not find by itself (one with a backslash).                              *)
SiblingsDiffer ==
  Never({"raced", "blind", "collided"})
    => \A f, g \in folders : f # g /\ parent[f] = parent[g] /\ name[f] = name[g]
                              => name[f] \notin Matched[name[f]]
=============================================================================
