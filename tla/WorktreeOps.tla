---------------------------- MODULE WorktreeOps ----------------------------
(***************************************************************************)
(* The commands that record and undo local changes (add, remove, revert,   *)
(* stage, unstage, commit, cherrypick, backout) and update, in one work    *)
(* tree, while other people commit to the same branch: lib/worktree.c as   *)
(* got/got.c calls it.                                                     *)
(*                                                                         *)
(* A command holds the work tree's exclusive lock, so that commands do not *)
(* interleave, and an index that was changed in memory is written back as  *)
(* a whole.  They are single steps here, except `got commit', which waits  *)
(* for the user's editor and then moves the branch, the base commit and    *)
(* the index one after the other.  A command that fails without changing   *)
(* anything is no step at all.  WorktreeUpdate has update in detail.       *)
(***************************************************************************)
EXTENDS FileStatus, Naturals, Sequences

CONSTANTS
    PathSeq,     \* the paths, in the order of tree walks
    InitTree,    \* the tree of the first commit
    Side,        \* [from |-> tree, to |-> tree]: a commit of another branch
    Others,      \* what others commit: pairs of a path and a file (or None)
    MaxOthers,   \* bound on the number of others' commits
    MaxCommits,  \* bound on the length of hist
    Commands,    \* the commands the user gives
    RemoveFlags, \* options the user gives to `got remove', of "f" and "k"
    UserActs,    \* what the user does to files
    EditVals,    \* the values the user writes
    EditPoints,  \* where in a commit the user may edit files
    MaxEdits,    \* bound on the number of user actions
    MaxCrashes   \* bound on the number of kills

Paths == {PathSeq[i] : i \in DOMAIN PathSeq}
TreeType == [Paths -> File \cup {None}]

ASSUME OpsConstants ==
    /\ InitTree \in TreeType
    /\ Side.from \in TreeType /\ Side.to \in TreeType
    /\ Others \subseteq Paths \X (File \cup {None})
    /\ MaxCommits \in Nat \ {0} /\ MaxOthers \in Nat
    /\ Commits = 1..MaxCommits
    /\ Commands \subseteq {"add", "remove", "revert", "stage", "unstage",
                           "commit", "cherrypick", "backout", "update"}
    /\ RemoveFlags \subseteq {"f", "k"}
    /\ UserActs \subseteq {"edit", "chmod", "remove", "create"}
    /\ EditVals \subseteq Vals
    /\ EditPoints \subseteq {"editor", "base", "index"}
    /\ MaxEdits \in Nat /\ MaxCrashes \in Nat

VARIABLES
    disk,    \* files in the work tree
    fi,      \* the file index
    base,    \* .got/base-commit
    hist,    \* all commits, hist[c] = [tree, parent]; the first has parent 0
    head,    \* the commit the branch points to
    pc,      \* "idle", or how far `got commit' has come
    cts,     \* its commitable paths, a function to records
    tip,     \* the head it was started with
    new,     \* the commit it has created
    mine,    \* history: the value the user gave a region, or None
    others, edits, crashes

vars == <<disk, fi, base, hist, head, pc, cts, tip, new, mine, others, edits,
          crashes>>
commitVars == <<pc, cts, tip, new>>
bounds == <<others, edits, crashes>>

NoCts == [p \in {} |-> None]

\* A complete checkout of a branch with one commit.
Init ==
    /\ hist = <<[tree |-> InitTree, parent |-> 0]>>
    /\ head = 1 /\ base = 1
    /\ disk = InitTree
    /\ fi = [p \in Paths |->
                IF disk[p] = None THEN None
                ELSE EntryUpdate(EmptyEntry, disk[p], disk[p].c, 1, TRUE)]
    /\ pc = "idle" /\ cts = NoCts /\ tip = None /\ new = None
    /\ mine = [p \in Paths |-> [r \in Regions |-> None]]
    /\ others = 0 /\ edits = 0 /\ crashes = 0

-----------------------------------------------------------------------------
(* Building blocks *)

Tree(c) == hist[c].tree
Forget == [r \in Regions |-> None]

\* The status the callbacks of worktree_status get for a path.
WalkStatus(p) ==
    IF fi[p] # None THEN GetFileStatus(fi[p], disk[p])
    ELSE IF disk[p] # None THEN "?" ELSE "nonexistent"

\* The commits a branch that points to c consists of.
Line(h, c) ==
    LET line[k \in 0..Len(h)] ==
            IF k = 0 THEN {} ELSE {k} \cup line[h[k].parent]
    IN  line[c]

\* A command on one path leaves file f and entry ie behind.
SetPath(p, f, ie) ==
    /\ pc = "idle"
    /\ disk' = [disk EXCEPT ![p] = f]
    /\ fi' = [fi EXCEPT ![p] = ie]
    /\ UNCHANGED <<base, hist, head, commitVars, bounds>>

-----------------------------------------------------------------------------
(* add, remove, revert *)

\* schedule_addition: only unversioned files; re-adding is a no-op.
Add(p) ==
    /\ WalkStatus(p) = "?"
    /\ SetPath(p, disk[p], EntryUpdate(EmptyEntry, disk[p], None, None, TRUE))
    /\ UNCHANGED mine

\* schedule_for_deletion.  A modified file needs -f, other local changes are
\* refused, and so are staged ones; -k keeps the file on disk.
Remove(p, flags) ==
    /\ fi[p] # None /\ fi[p].stage = "-"
    /\ \/ WalkStatus(p) \in {NoChange, "!"}
       \/ WalkStatus(p) = "M" /\ "f" \in flags
    /\ SetPath(p, IF "k" \in flags THEN disk[p] ELSE None,
               [fi[p] EXCEPT !.nofile = TRUE])
    /\ mine' = IF flags = {"f"} THEN [mine EXCEPT ![p] = Forget] ELSE mine

\* revert_file.  The content comes from the staged blob or the entry's blob,
\* the mode from the base commit's tree, and a deleted file or one with a mode
\* change gets a new entry.
RevertOutcome(ie, f, te) ==
    LET st == GetFileStatus(ie, f)
        blob == ComparedBlob(ie)
        f2 == [x |-> te # None /\ te.x, c |-> blob]
    IN  CASE st = NoChange \/ (st = "D" /\ ie.stage # "-") -> Done(f, ie)
          [] st = "A" -> Done(f, None)
          [] st \in {"D", "M", "m", "C", "!"} /\ ~(st = "D" /\ ie.stage # "-") ->
                IF (te = None /\ ie.stage # "A") \/ blob = None THEN Fail(f, ie)
                ELSE Done(f2, IF st \in {"D", "m"}
                              THEN EntryUpdate(Touched(ie), f2, blob, base, TRUE)
                              ELSE Touched(ie))

Revert(p) ==
    /\ fi[p] # None
    /\ LET o == RevertOutcome(fi[p], disk[p], Tree(base)[p]) IN
        /\ ~o.err
        /\ SetPath(p, o.f, o.ie)
        /\ mine' = IF o.f # disk[p] THEN [mine EXCEPT ![p] = Forget] ELSE mine

-----------------------------------------------------------------------------
(* stage, unstage *)

\* check_out_of_date: local changes must be based on the head's version.
OutOfDate(p, st, stage, blob, commit) ==
    IF st # "A" /\ stage # "A"
    THEN commit # head /\ (Tree(head)[p] = None \/ Tree(head)[p].c # blob)
    ELSE Tree(head)[p] # None

\* check_stage_ok and stage_path.
Stage(p) ==
    /\ fi[p] # None
    /\ LET ie == fi[p]  st == WalkStatus(p) IN
        /\ st \in {"A", "M", "D"}
        /\ ~OutOfDate(p, st, ie.stage, ie.blob, ie.commit)
        /\ ~(st = "D" /\ ie.stage = "D")
        /\ SetPath(p, disk[p],
                IF st = "D" THEN [ie EXCEPT !.stage = "D"]
                ELSE [ie EXCEPT !.sblob = disk[p].c,
                                !.stage = IF st = "A" \/ @ = "A" THEN "A" ELSE "M"])
        /\ mine' = IF st = "D" THEN [mine EXCEPT ![p] = Forget] ELSE mine

\* unstage_path: the staged version is merged into the file, which takes the
\* recorded mode; without a file this fails.
Unstage(p) ==
    /\ fi[p] # None /\ fi[p].stage # "-"
    /\ LET ie == fi[p]
           clear == [ie EXCEPT !.stage = "-", !.sblob = None]
       IN IF ie.stage = "D" THEN SetPath(p, disk[p], clear)
          ELSE /\ disk[p] # None
               /\ SetPath(p, [x |-> ie.x,
                              c |-> MergeFile(IF ie.stage = "A" THEN None ELSE ie.blob,
                                              disk[p].c, ie.sblob)],
                          Touched(clear))
    /\ UNCHANGED mine

-----------------------------------------------------------------------------
(* commit *)

HaveStaged == \E p \in Paths : fi[p] # None /\ fi[p].stage # "-"

\* collect_commitables: what of the paths S goes into a commit.
CommitablePaths(S) ==
    {p \in S : /\ fi[p] # None
               /\ IF HaveStaged THEN fi[p].stage # "-"
                  ELSE WalkStatus(p) \in {"M", "m", "A", "D"}}

\* The mode is taken from the index for staged files, from the file otherwise.
CommitableOf(p) ==
    LET ie == fi[p]  st == WalkStatus(p) IN
    [st |-> st, stage |-> ie.stage, blob |-> ie.blob, commit |-> ie.commit,
     x |-> IF ie.stage \in {"A", "M"} THEN ie.x
           ELSE IF st = "D" \/ ie.stage = "D" THEN FALSE ELSE disk[p].x,
     c |-> IF ie.stage \in {"A", "M"} THEN ie.sblob ELSE None]

\* got_worktree_commit up to the log message.  It is refused in the presence
\* of conflicts, for a path that is not staged while others are, without
\* changes, and when a path is out of date.  For a staged file that is missing
\* on disk, status_old does not pass the staged blob on, and a commit of the
\* whole work tree does not survive that.
CommitCollect(S) ==
    /\ pc = "idle"
    /\ HaveStaged \/ \A p \in S : WalkStatus(p) # "C"
    /\ CommitablePaths(S) # {}
    /\ \A p \in CommitablePaths(S) :
        /\ ~OutOfDate(p, WalkStatus(p), fi[p].stage, fi[p].blob, fi[p].commit)
        /\ S = Paths /\ fi[p].stage \in {"A", "M"} => disk[p] # None
    /\ cts' = [p \in CommitablePaths(S) |-> CommitableOf(p)]
    /\ tip' = head /\ pc' = "editor"
    /\ UNCHANGED <<disk, fi, base, hist, head, new, mine, bounds>>

CommitAbort ==
    /\ pc' = "idle" /\ cts' = NoCts /\ tip' = None /\ new' = None
    /\ UNCHANGED <<disk, fi, base, hist, head, mine>>

IsAdded(ct) == ct.st = "A" \/ ct.stage = "A"

\* got_object_blob_create: files that are not staged are read now.
WithBlob(p) ==
    LET ct == cts[p] IN
    IF ct.stage \in {"A", "M"} \/ ct.st \notin {"A", "M", "m"} THEN ct
    ELSE [ct EXCEPT !.c = disk[p].c]

\* Mutant: staged changes are overlooked.
MatchesUnstaged(ct, te) == ct.st \in {"M", "m", "D"} /\ ct.blob = te.c

\* match_deleted_or_modified_ct: besides the path, the blob has to match.
MatchesEntry(ct, te) ==
    /\ IF ct.stage = "-" THEN ct.st \in {"M", "m", "D"}
                         ELSE ct.stage \in {"M", "D"}
    /\ ct.blob = te.c

\* write_tree: the head's tree with the commitable changes.
WriteTree(ctf) ==
    [p \in Paths |->
        LET te == Tree(head)[p] IN
        IF p \in DOMAIN ctf /\ IsAdded(ctf[p])
        THEN [x |-> ctf[p].x, c |-> ctf[p].c]
        ELSE IF te # None /\ p \in DOMAIN ctf /\ MatchesEntry(ctf[p], te)
             THEN IF ctf[p].st \in {"M", "m"} \/ ctf[p].stage = "M"
                  THEN [x |-> ctf[p].x, c |-> ctf[p].c]
                  ELSE None
             ELSE te]

\* commit_worktree up to got_ref_write.  RefStore is about the lock and the
\* comparison of the branch with its state at the start.
CommitWrite ==
    /\ pc = "editor" /\ head = tip /\ Len(hist) < MaxCommits
    /\ \A p \in DOMAIN cts : cts[p].stage = "-" /\ cts[p].st # "D" => disk[p] # None
    /\ LET ctf == [p \in DOMAIN cts |-> WithBlob(p)]
           tree == WriteTree(ctf)
       IN /\ hist' = Append(hist, [tree |-> tree, parent |-> base])
          /\ cts' = ctf
          /\ mine' = [p \in Paths |->
                [r \in Regions |->
                    IF p \in DOMAIN ctf /\ tree[p] # None
                       /\ mine[p][r] \in tree[p].c[r]
                    THEN None ELSE mine[p][r]]]
    /\ new' = Len(hist) + 1 /\ head' = Len(hist) + 1
    /\ pc' = "base"
    /\ UNCHANGED <<disk, fi, base, tip, bounds>>

\* GOT_ERR_COMMIT_HEAD_CHANGED, an empty log message, or a file that has
\* disappeared.
CommitFail ==
    /\ pc = "editor"
    /\ CommitAbort
    /\ UNCHANGED bounds

\* got_worktree_set_base_commit_id
CommitSetBase ==
    /\ pc = "base"
    /\ base' = new /\ pc' = "index"
    /\ UNCHANGED <<disk, fi, hist, head, cts, tip, new, mine, bounds>>

\* Mutants: the entry keeps its blob; a staged file gets time stamps, too.
EntryKeepsBlob(p) ==
    LET ct == cts[p] IN
    IF ct.st = "D" \/ ct.stage = "D" THEN None
    ELSE EntryUpdate([fi[p] EXCEPT !.stage = "-"], disk[p], fi[p].blob, new, FALSE)
EntryStamped(p) ==
    LET ct == cts[p] IN
    IF ct.st = "D" \/ ct.stage = "D" THEN None
    ELSE EntryUpdate([fi[p] EXCEPT !.stage = "-"], disk[p], ct.c, new, TRUE)

\* The entry of a committed path.  If the file of a staged path is missing,
\* got_fileindex_entry_update fails after the entry was unstaged.
EntryAfterCommit(p) ==
    LET ct == cts[p]
        ie == [fi[p] EXCEPT !.stage = "-", !.sblob = None]
    IN  IF ct.st = "D" \/ ct.stage = "D" THEN None
        ELSE IF EntryUpdateFails(ie, disk[p]) THEN ie
        ELSE EntryUpdate(ie, disk[p], ct.c, new, ct.stage = "-")

\* update_fileindex_after_commit and sync_fileindex: an error for one path
\* does not keep the others from being updated.
CommitIndex ==
    /\ pc = "index"
    /\ fi' = [p \in Paths |-> IF p \in DOMAIN cts THEN EntryAfterCommit(p) ELSE fi[p]]
    /\ pc' = "idle" /\ cts' = NoCts /\ tip' = None /\ new' = None
    /\ UNCHANGED <<disk, base, hist, head, mine, bounds>>

\* The process is killed.
Crash ==
    /\ pc # "idle" /\ crashes < MaxCrashes
    /\ crashes' = crashes + 1
    /\ CommitAbort
    /\ UNCHANGED <<others, edits>>

-----------------------------------------------------------------------------
(* cherrypick, backout *)

\* check_merge_ok, for every entry.
MergeOk ==
    \A p \in Paths : fi[p] # None => fi[p].commit = base /\ WalkStatus(p) # "C"

\* merge_file_cb: merge the change from t1 to t2 into the path.
MergeFileCb(ie, f, t1, t2) ==
    LET st == IF ie = None THEN "none" ELSE GetFileStatus(ie, f)
        merge(orig) == Done([f EXCEPT !.c = MergeFile(orig, f.c, t2.c)], Touched(ie))
        f2 == IF f = None THEN t2 ELSE f
    IN  CASE t1 = t2 -> Done(f, ie)
          [] t1 # t2 /\ t1 # None /\ t2 # None ->
                IF st \in {NoChange, "M", "C", "A"} THEN merge(t1.c) ELSE Done(f, ie)
          [] t1 # t2 /\ t2 = None ->
                CASE st \in {NoChange, "D", "!"} ->
                        Done(IF st = NoChange THEN None ELSE f, [ie EXCEPT !.nofile = TRUE])
                  [] st = "A" -> IF f.c = t1.c THEN Done(None, None) ELSE Done(f, ie)
                  [] OTHER -> Done(f, ie)
          [] t1 # t2 /\ t1 = None ->
                IF ie = None
                THEN Done(f2, EntryUpdate(EmptyEntry, f2, None, None, TRUE))
                ELSE IF st \in {NoChange, "M", "C", "A"} THEN merge(None) ELSE Done(f, ie)

\* got_worktree_merge_files
MergeFiles(from, to) ==
    /\ pc = "idle" /\ MergeOk
    /\ LET o == [p \in Paths |-> MergeFileCb(fi[p], disk[p], from[p], to[p])]
       IN /\ disk' = [p \in Paths |-> o[p].f]
          /\ fi' = [p \in Paths |-> o[p].ie]
    /\ UNCHANGED <<base, hist, head, commitVars, mine, bounds>>

\* cmd_cherrypick: a commit that is not on the branch.
Cherrypick == MergeFiles(Side.from, Side.to)

\* cmd_backout: a commit on the branch, other than its first.
Backout(c) ==
    /\ c \in Line(hist, head) /\ hist[c].parent # 0
    /\ MergeFiles(Tree(c), Tree(hist[c].parent))

-----------------------------------------------------------------------------
(* update, in one step *)

UpdateOutcomes(p) ==
    LET te == Tree(head)[p] IN
    CASE te # None -> {UpdateBlob(fi[p], disk[p], te, head)}
      [] te = None /\ fi[p] # None -> DeleteBlob(fi[p], disk[p])
      [] OTHER -> {Done(disk[p], None)}

\* cmd_update of the paths S to the head of the branch.  The walk stops at the
\* first error; if there is none, all entries of S get the new base commit.
Update(S) ==
    /\ pc = "idle" /\ base' = head
    /\ IF S # Paths /\ \E p \in S : Tree(head)[p] = None
       THEN UNCHANGED <<disk, fi>>
       ELSE \E o \in [Paths -> UNION {UpdateOutcomes(p) : p \in Paths}] :
            /\ \A p \in Paths :
                o[p] \in IF p \in S THEN UpdateOutcomes(p) ELSE {Done(disk[p], fi[p])}
            /\ LET reached == {PathSeq[i] : i \in {j \in DOMAIN PathSeq :
                                   \A k \in 1..(j - 1) : ~o[PathSeq[k]].err}}
                   ok == reached = Paths /\ \A p \in Paths : ~o[p].err
               IN /\ disk' = [p \in Paths |-> IF p \in reached THEN o[p].f ELSE disk[p]]
                  /\ fi' = [p \in Paths |->
                        IF p \notin reached THEN fi[p]
                        ELSE IF ok /\ p \in S THEN BumpBaseCommitId(o[p].ie, head)
                        ELSE o[p].ie]
    /\ UNCHANGED <<hist, head, commitVars, mine, bounds>>

-----------------------------------------------------------------------------
(* The user, and other people *)

UserChange(p, f) ==
    /\ pc = "idle" \/ pc \in EditPoints
    /\ edits < MaxEdits /\ edits' = edits + 1
    /\ disk' = [disk EXCEPT ![p] = f]
    /\ fi' = [fi EXCEPT ![p] = Touched(@)]
    /\ UNCHANGED <<base, hist, head, commitVars, others, crashes>>

\* Write one region of a file; this also resolves a conflict there.
UserEdit(p, r, v) ==
    /\ "edit" \in UserActs /\ disk[p] # None /\ disk[p].c[r] # {v}
    /\ UserChange(p, [disk[p] EXCEPT !.c[r] = {v}])
    /\ mine' = [mine EXCEPT ![p][r] = v]

UserChmod(p) ==
    /\ "chmod" \in UserActs /\ disk[p] # None
    /\ UserChange(p, [disk[p] EXCEPT !.x = ~@])
    /\ UNCHANGED mine

UserRemove(p) ==
    /\ "remove" \in UserActs /\ disk[p] # None
    /\ UserChange(p, None)
    /\ mine' = [mine EXCEPT ![p] = Forget]

UserCreate(p, v) ==
    /\ "create" \in UserActs /\ disk[p] = None
    /\ UserChange(p, [x |-> FALSE, c |-> [r \in Regions |-> {v}]])
    /\ mine' = [mine EXCEPT ![p] = [r \in Regions |-> v]]

\* Somebody else moves the branch.
OthersCommit(p, f) ==
    /\ others < MaxOthers /\ Len(hist) < MaxCommits
    /\ Tree(head)[p] # f
    /\ hist' = Append(hist, [tree |-> [Tree(head) EXCEPT ![p] = f], parent |-> head])
    /\ head' = Len(hist) + 1
    /\ others' = others + 1
    /\ UNCHANGED <<disk, fi, base, commitVars, mine, edits, crashes>>

Command ==
    \/ \E p \in Paths :
        \/ "add" \in Commands /\ Add(p)
        \/ "remove" \in Commands /\ \E flags \in SUBSET RemoveFlags : Remove(p, flags)
        \/ "revert" \in Commands /\ Revert(p)
        \/ "stage" \in Commands /\ Stage(p)
        \/ "unstage" \in Commands /\ Unstage(p)
    \/ \E S \in {Paths} \cup {{p} : p \in Paths} :
        \/ "commit" \in Commands /\ CommitCollect(S)
        \/ "update" \in Commands /\ Update(S)
    \/ CommitWrite \/ CommitFail \/ CommitSetBase \/ CommitIndex \/ Crash
    \/ "cherrypick" \in Commands /\ Cherrypick
    \/ "backout" \in Commands /\ \E c \in DOMAIN hist : Backout(c)

User ==
    \E p \in Paths :
        \/ \E r \in Regions, v \in EditVals : UserEdit(p, r, v)
        \/ UserChmod(p) \/ UserRemove(p)
        \/ \E v \in EditVals : UserCreate(p, v)

Next == Command \/ User \/ \E ch \in Others : OthersCommit(ch[1], ch[2])

Spec == Init /\ [][Next]_vars

-----------------------------------------------------------------------------
(* Correctness *)

\* What the user wrote stays in the file, on its own or between conflict
\* markers, or in the staged version, until it is committed, or the user
\* discards it with `got revert', `got remove -f', an editor, or by staging
\* the deletion of the file.
LocalChangesSurvive ==
    \A p \in Paths, r \in Regions :
        mine[p][r] # None =>
            \/ disk[p] # None /\ mine[p][r] \in disk[p].c[r]
            \/ fi[p] # None /\ fi[p].sblob # None /\ mine[p][r] \in fi[p].sblob[r]

\* "Otherwise, a future status walk would treat them as unmodified files
\* again" (update_blob): a file that passes for unmodified holds the blob of
\* its entry, the staged one if there is one.
FreshMeansUnmodified ==
    \A p \in Paths :
        pc = "idle" /\ fi[p] # None /\ disk[p] # None
            /\ GetFileStatus(fi[p], disk[p]) = NoChange
        => disk[p].c = ComparedBlob(fi[p])

\* got.1, commit: "commit all changes in the work tree", "Otherwise, commit
\* changes at or within the specified paths".  The new commit is the commit
\* that was the head, with exactly the changes that were collected.
CommitRecordsChanges ==
    pc \in {"base", "index"} =>
        \A p \in Paths :
            LET te == Tree(new)[p] IN
            IF p \notin DOMAIN cts THEN te = Tree(tip)[p]
            ELSE IF cts[p].c = None THEN te = None
            ELSE te # None /\ te.c = cts[p].c

\* git-repository.5: "Commit objects are chained together to form lines of
\* version control history", and commit_worktree is to "check if a concurrent
\* commit to our branch has occurred".  A branch only moves to a commit that
\* has the previous one in its line of history.
HistoryOnlyGrows == [][(head \in Line(hist', head'))]_vars

\* got-worktree.5: an entry has "the blob object which corresponds to the
\* contents of this file in the repository" and "the commit object the file
\* was checked out from"; they belong together.
IndexMatchesCommit ==
    \A p \in Paths :
        fi[p] # None /\ fi[p].hasCommit /\ fi[p].blob # None =>
            /\ Tree(fi[p].commit)[p] # None
            /\ fi[p].blob = Tree(fi[p].commit)[p].c
=============================================================================
