---------------------------- MODULE ObjectCreate ----------------------------
(***************************************************************************)
(* Writing objects (lib/object_create.c): `got import' walks a directory   *)
(* (lib/repository.c), `got commit' replaces a file in the tree of a       *)
(* branch (lib/worktree.c), `got tag' makes a tag.  An object is written   *)
(* to a temporary file and renamed to its place, under a lock file of its  *)
(* own; the directory which it goes to is created when it is missing.      *)
(* Several commands may run at once, write the same objects, and be        *)
(* killed, which leaves a lock file behind.                                *)
(*                                                                         *)
(* The id of an object is its content, so objects are records here.  A     *)
(* directory is a function from names to files, directories and the rest.  *)
(* A file is read in one step; module RefStore looks inside SetRef.        *)
(***************************************************************************)
EXTENDS Integers, Sequences, SequencesExt, Functions

CONSTANTS
  Writer,              \* the processes
  Dirs,                \* what may be imported
  Ignored,             \* the names which -I patterns match
  Edits,               \* a path, <<directory names, file name>>, and contents to commit
  RefNames,
  MaxWrites, MaxKills  \* bounds on the commands run and killed

ASSUME EditPaths == \A edit \in Edits : edit[1] \in Seq(STRING)

File(c) == [type |-> "file", content |-> c]
Dir(entries) == [type |-> "dir", entries |-> entries]

Blob(c) == [type |-> "blob", content |-> c]
TreeObj(te) == [type |-> "tree", entries |-> te]
Commit(tree, parent) == [type |-> "commit", tree |-> tree, parent |-> parent]
TagObj(name, o) == [type |-> "tag", name |-> name, object |-> o]
NoObj == [type |-> "none"]

WriterNeeds(o) ==
  CASE o.type = "tree" -> Range(o.entries)
    [] o.type = "commit" -> {o.tree} \cup (IF o.parent = NoObj THEN {} ELSE {o.parent})
    [] o.type = "tag" -> {o.object}
    [] OTHER -> {}

Fanout(o) == o.type      \* the directory below objects/ which o goes to

VARIABLES
  files,    \* the objects under their final names
  fanouts,  \* the directories below objects/
  locks,    \* the objects whose lock file exists
  heads,    \* the references
  w,        \* the processes, see NotWriting
  writes, kills

createVars == <<files, fanouts, locks, heads, w, writes, kills>>

(* pc; the stack of write_tree; the object being created; the reference to write at
   the end and its value when the command began (NoObj: none). *)
NotWriting == [pc |-> "idle", stack |-> <<>>, obj |-> NoObj, ref |-> "none", base |-> NoObj]

(* One call of write_tree: its name in the parent, the directory entries to read and
   the tree entries so far; cur is the entry at hand. *)
Frame(name, dir, te) == [name |-> name, dir |-> dir, left |-> DOMAIN dir, te |-> te, cur |-> "none"]
NoEntries == [n \in {} |-> 0]

At(p, pc) == w[p].pc = pc
Does(p, r) == w' = [w EXCEPT ![p] = r]
Top(p) == Last(w[p].stack)
WithTop(p, frame) == Front(w[p].stack) \o <<frame>>
Fail(p) == Does(p, NotWriting)
With(fun, n, v) == [x \in DOMAIN fun \cup {n} |-> IF x = n THEN v ELSE fun[x]]
InsertTreeEntry(frame, n, o) == [frame EXCEPT !.te = With(@, n, o)]

--------------------------------------------------------------------------
(* cmd_import, got_repo_import: the branch must not exist. *)
Import(p, dir, n) ==
  /\ At(p, "idle") /\ writes < MaxWrites /\ n \notin DOMAIN heads
  /\ Does(p, [NotWriting EXCEPT !.pc = "walk", !.stack = <<Frame("/", dir, NoEntries)>>,
                               !.ref = n])
  /\ writes' = writes + 1
  /\ UNCHANGED <<files, fanouts, locks, heads, kills>>

(* The trees along a path, opened one after the other: each is in the repository, and
   all are trees (got_object_open_as_tree). *)
OpenTrees(tree, path) ==
  {trees \in [1..Len(path) + 1 -> files] :
     /\ trees[1] = tree
     /\ \A i \in DOMAIN trees : trees[i].type = "tree"
     /\ \A i \in 1..Len(path) : /\ path[i] \in DOMAIN trees[i].entries
                               /\ trees[i + 1] = trees[i].entries[path[i]]}
(* The calls of write_tree down to the changed file, each with the entries of the base. *)
CommitFrames(trees, path, file) ==
  [i \in DOMAIN trees |->
     [Frame(IF i = 1 THEN "/" ELSE path[i - 1], NoEntries, trees[i].entries)
        EXCEPT !.cur = IF i = Len(trees) THEN file ELSE @]]
(* commit_worktree: the blobs first, then write_tree with the entries of the base
   commit's trees beside the changed one. *)
CommitWorktree(p, edit, n) ==
  /\ At(p, "idle") /\ writes < MaxWrites
  /\ n \in DOMAIN heads /\ heads[n].type = "commit"
  /\ \E trees \in OpenTrees(heads[n].tree, edit[1]) :
       Does(p, [pc |-> "open", obj |-> Blob(edit[3]), ref |-> n, base |-> heads[n],
                stack |-> CommitFrames(trees, edit[1], edit[2])])
  /\ writes' = writes + 1
  /\ UNCHANGED <<files, fanouts, locks, heads, kills>>

(* add_tag: the tag must not exist. *)
AddTag(p, n, m) ==
  /\ At(p, "idle") /\ writes < MaxWrites /\ n \notin DOMAIN heads /\ m \in DOMAIN heads
  /\ heads[m].type = "commit"
  /\ Does(p, [NotWriting EXCEPT !.pc = "open", !.obj = TagObj(n, heads[m]), !.ref = n])
  /\ writes' = writes + 1
  /\ UNCHANGED <<files, fanouts, locks, heads, kills>>

(* The loop of write_tree over the directory: what is ignored or neither a file nor a
   directory is skipped, import_file creates a blob, import_subdir goes down. *)
ReadDirent(p, n) ==
  LET frame == [Top(p) EXCEPT !.left = @ \ {n}, !.cur = n]
      entry == Top(p).dir[n]
  IN /\ At(p, "walk") /\ n \in Top(p).left
     /\ \/ /\ n \in Ignored \/ entry.type \notin {"dir", "file"}
           /\ Does(p, [w[p] EXCEPT !.stack = WithTop(p, frame)])
        \/ /\ n \notin Ignored /\ entry.type = "file"
           /\ Does(p, [w[p] EXCEPT !.stack = WithTop(p, frame), !.pc = "open",
                                  !.obj = Blob(entry.content)])
        \/ /\ n \notin Ignored /\ entry.type = "dir"
           /\ Does(p, [w[p] EXCEPT !.stack =
                        WithTop(p, frame) \o <<Frame(n, entry.entries, NoEntries)>>])
     /\ UNCHANGED <<files, fanouts, locks, heads, writes, kills>>

(* Its end: a directory without entries is left out, and cannot be imported alone. *)
WriteTree(p) ==
  /\ At(p, "walk") /\ Top(p).left = {}
  /\ IF Top(p).te # NoEntries
     THEN Does(p, [w[p] EXCEPT !.pc = "open", !.obj = TreeObj(Top(p).te)])
     ELSE IF Len(w[p].stack) = 1 THEN Fail(p)
     ELSE Does(p, [w[p] EXCEPT !.stack = Front(@)])
  /\ UNCHANGED <<files, fanouts, locks, heads, writes, kills>>

--------------------------------------------------------------------------
(* create_object_file: the temporary file, in the directory of the object; mkdir
   fails when another process was faster. *)
OpenTemp(p) ==
  /\ At(p, "open")
  /\ Does(p, [w[p] EXCEPT !.pc = IF Fanout(w[p].obj) \in fanouts THEN "lock" ELSE "mkdir"])
  /\ UNCHANGED <<files, fanouts, locks, heads, writes, kills>>

Mkdir(p) ==
  /\ At(p, "mkdir")
  /\ fanouts' = fanouts \cup {Fanout(w[p].obj)}
  /\ IF Fanout(w[p].obj) \in fanouts THEN Fail(p) ELSE Does(p, [w[p] EXCEPT !.pc = "open"])
  /\ UNCHANGED <<files, locks, heads, writes, kills>>

(* got_lockfile_lock tries for a while and then gives up. *)
LockObject(p) ==
  /\ At(p, "lock") /\ w[p].obj \notin locks
  /\ locks' = locks \cup {w[p].obj}
  /\ Does(p, [w[p] EXCEPT !.pc = "rename"])
  /\ UNCHANGED <<files, fanouts, heads, writes, kills>>

LockTimeoutIsDone(p) ==
  /\ At(p, "lock") /\ w[p].obj \in locks
  /\ Does(p, [w[p] EXCEPT !.pc = "created"])
  /\ UNCHANGED <<files, fanouts, locks, heads, writes, kills>>
LockTimeout(p) ==
  /\ At(p, "lock") /\ w[p].obj \in locks
  /\ Fail(p)
  /\ UNCHANGED <<files, fanouts, locks, heads, writes, kills>>

RenameObject(p) ==
  /\ At(p, "rename")
  /\ files' = files \cup {w[p].obj}
  /\ Does(p, [w[p] EXCEPT !.pc = "unlock"])
  /\ UNCHANGED <<fanouts, locks, heads, writes, kills>>

UnlockObject(p) ==
  /\ At(p, "unlock")
  /\ locks' = locks \ {w[p].obj}
  /\ Does(p, [w[p] EXCEPT !.pc = "created"])
  /\ UNCHANGED <<files, fanouts, heads, writes, kills>>

(* What is done with the new id: import_file and import_subdir put it into the tree
   above, got_repo_import and commit_worktree go on to the commit. *)
BlobCreated(p) ==
  /\ At(p, "created") /\ w[p].obj.type = "blob"
  /\ Does(p, [w[p] EXCEPT !.pc = "walk",
               !.stack = WithTop(p, InsertTreeEntry(Top(p), Top(p).cur, w[p].obj))])
  /\ UNCHANGED <<files, fanouts, locks, heads, writes, kills>>

TreeCreated(p) ==
  /\ At(p, "created") /\ w[p].obj.type = "tree"
  /\ IF Len(w[p].stack) > 1
     THEN LET above == Front(w[p].stack)
          IN Does(p, [w[p] EXCEPT !.pc = "walk", !.stack =
                       Front(above) \o <<InsertTreeEntry(Last(above), Top(p).name, w[p].obj)>>])
     ELSE Does(p, [w[p] EXCEPT !.pc = "open", !.obj = Commit(w[p].obj, w[p].base)])
  /\ UNCHANGED <<files, fanouts, locks, heads, writes, kills>>

(* got_ref_write.  A commit first looks whether its branch is still where it was. *)
SetRef(p) ==
  /\ At(p, "created") /\ w[p].obj.type \in {"commit", "tag"}
  /\ heads' = IF w[p].base # NoObj /\ heads[w[p].ref] # w[p].base THEN heads
              ELSE With(heads, w[p].ref, w[p].obj)
  /\ Does(p, NotWriting)
  /\ UNCHANGED <<files, fanouts, locks, writes, kills>>

Kill(p) ==
  /\ ~At(p, "idle") /\ kills < MaxKills
  /\ Does(p, NotWriting)
  /\ kills' = kills + 1
  /\ UNCHANGED <<files, fanouts, locks, heads, writes>>

CreateObjectFile(p) ==
  OpenTemp(p) \/ Mkdir(p) \/ LockObject(p) \/ LockTimeout(p) \/ RenameObject(p) \/ UnlockObject(p)

CreateStart(n) ==
  /\ files = {} /\ fanouts = {} /\ locks = {} /\ heads = NoEntries
  /\ w = [p \in Writer |-> NotWriting] /\ writes = n /\ kills = 0
CreateInit == CreateStart(0)
CreateIdle == CreateStart(MaxWrites)

CreateNext == \E p \in Writer :
  \/ \E n \in RefNames : \/ \E dir \in Dirs : Import(p, dir, n)
                         \/ \E edit \in Edits : CommitWorktree(p, edit, n)
                         \/ \E m \in RefNames : AddTag(p, n, m)
  \/ w[p].stack # <<>> /\ \E n \in Top(p).left : ReadDirent(p, n)
  \/ WriteTree(p) \/ CreateObjectFile(p) \/ BlobCreated(p) \/ TreeCreated(p)
  \/ SetRef(p) \/ Kill(p)
CreateSpec == CreateInit /\ [][CreateNext]_createVars

(* An object which import, commit or tag has put in its place has everything it needs
   beside it, and the references name such objects, whatever was running at the same
   time or was killed, and whatever lock file is left (write_tree and its callers,
   create_object_file). *)
WrittenObjects == INSTANCE ObjectStore WITH Needs <- WriterNeeds, objs <- files, refs <- heads
WritersImplementStore == WrittenObjects!StoreSpec
=============================================================================
