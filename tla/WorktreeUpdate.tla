--------------------------- MODULE WorktreeUpdate ---------------------------
(***************************************************************************)
(* `got update': cmd_update (got/got.c) and got_worktree_checkout_files    *)
(* (lib/worktree.c), which bring the files of a work tree to a commit.     *)
(*                                                                         *)
(* The work tree's exclusive lock admits one got process; the user goes on *)
(* editing files while it runs.  The process reads the file index, walks   *)
(* index and tree path by path, and writes the index back at the end, also *)
(* after an error or when the user interrupts it.  If it is killed, what   *)
(* it did to files stays and the index in memory is lost.                  *)
(***************************************************************************)
EXTENDS FileStatus, Naturals, Sequences

CONSTANTS
    PathSeq,    \* the paths, in the order of the walk
    Tree,       \* Tree[c][p]: the entry of path p in commit c's tree, or None
    InitCommit, \* the commit that was checked out
    Targets,    \* commits that may be updated to
    Backwards,  \* whether `got update -c' may go back to an older commit
    UserActs,   \* what the user does to files
    EditVals,   \* values the user writes into a region ...
    EditRegions,\* ... and the regions the user writes to
    MaxEdits,   \* bound on the number of user actions
    Crashes,    \* points where the process may be killed
    MaxCrashes  \* bound on their number

Paths == {PathSeq[i] : i \in DOMAIN PathSeq}

ASSUME UpdateConstants ==
    /\ PathSeq \in Seq(Paths) /\ None \notin Paths
    /\ Tree \in [Commits -> [Paths -> File \cup {None}]]
    /\ Commits \subseteq Nat     \* a line of commits, oldest first
    /\ InitCommit \in Commits /\ Targets \subseteq Commits
    /\ Backwards \in BOOLEAN
    /\ UserActs \subseteq {"edit", "chmod", "remove", "create", "obstruct"}
    /\ EditVals \subseteq Vals /\ None \notin EditVals /\ EditRegions \subseteq Regions
    /\ Crashes \subseteq {"between", "install"}
    /\ MaxEdits \in Nat /\ MaxCrashes \in Nat

VARIABLES
    disk,    \* files in the work tree
    fi,      \* the file index on disk
    mi,      \* the file index in the memory of the process
    base,    \* .got/base-commit
    pc,      \* "idle", "open", "walk", "sync"
    sel,     \* the paths that are updated, in the order of the walk
    todo,    \* the paths the walk has left
    inst,    \* the path whose new file is being written, or None
    failed,  \* the process has met an error, or was interrupted
    mine,    \* history: the value the user gave a region, or None
    moved,   \* history: paths the user has removed, created or replaced
    skipped, \* history: paths update has passed over, for a conflict or a directory
    done,    \* history: the whole work tree was updated to base
    edits, crashes

vars == <<disk, fi, mi, base, pc, sel, todo, inst, failed, mine, moved, skipped,
          done, edits, crashes>>
user == <<mine, moved, edits, crashes>>
history == <<user, skipped>>

\* A complete checkout of InitCommit.
Init ==
    /\ disk = Tree[InitCommit]
    /\ fi = [p \in Paths |->
                IF disk[p] = None THEN None
                ELSE EntryUpdate(EmptyEntry, disk[p], disk[p].c, InitCommit, TRUE)]
    /\ mi = [p \in Paths |-> None]
    /\ base = InitCommit
    /\ pc = "idle" /\ sel = <<>> /\ todo = <<>> /\ inst = None
    /\ failed = FALSE /\ done = TRUE
    /\ mine = [p \in Paths |-> [r \in Regions |-> None]]
    /\ moved = {} /\ skipped = {} /\ edits = 0 /\ crashes = 0

-----------------------------------------------------------------------------
(* The process *)

\* The paths the user has given, or all.
Selected == {sel[i] : i \in DOMAIN sel}

\* cmd_update: got_worktree_set_base_commit_id comes before anything else.
\* The commit is the head of the branch, or one on a line of history with the
\* base commit (check_linear_ancestry); s is PathSeq without path arguments.
UpdateSetBase(c, s) ==
    /\ pc = "idle" /\ c \in Targets
    /\ c >= base \/ Backwards
    /\ base' = c
    /\ sel' = s /\ pc' = "open" /\ failed' = FALSE /\ done' = FALSE
    /\ UNCHANGED <<disk, fi, mi, todo, inst, history>>

\* got_worktree_checkout_files: a path argument has to exist in the tree
\* (find_tree_entry_for_checkout); then the file index is read.
UpdateOpen ==
    /\ pc = "open"
    /\ IF sel = PathSeq \/ \A p \in Selected : Tree[base][p] # None
       THEN mi' = fi /\ pc' = "walk" /\ todo' = sel
       ELSE /\ pc' = "idle" /\ UNCHANGED <<mi, todo>>
    /\ UNCHANGED <<disk, fi, base, sel, inst, failed, done, history>>

\* diff_old_new, diff_new, diff_old, by the presence of the path in the index
\* and in the tree.
Outcomes(p) ==
    LET ie == mi[p]  te == Tree[base][p] IN
    CASE te # None -> {UpdateBlob(ie, disk[p], te, base)}
      [] te = None /\ ie # None -> DeleteBlob(ie, disk[p])
      [] OTHER -> {Done(disk[p], None)}

\* A step of the walk ends with o.  Writing the file makes the time stamps in
\* the index on disk old.
Apply(p, o) ==
    /\ disk' = [disk EXCEPT ![p] = o.f]
    /\ mi' = [mi EXCEPT ![p] = o.ie]
    /\ fi' = IF o.f = disk[p] THEN fi ELSE [fi EXCEPT ![p] = Touched(@)]
    /\ IF o.err THEN pc' = "sync" /\ failed' = TRUE /\ todo' = <<>>
       ELSE todo' = Tail(todo) /\ UNCHANGED <<pc, failed>>

Installing(p) ==
    /\ Tree[base][p] # None /\ InstallsNewFile(mi[p], disk[p])
    /\ mi[p] # None => mi[p].stage = "-"

\* What update_blob passes over: a directory, or a file with conflicts.
Skips(p) == Tree[base][p] # None /\ UpdateStatus(mi[p], disk[p]) \in {"~", "C"}

UpdatePath ==
    /\ pc = "walk" /\ todo # <<>> /\ inst = None
    /\ ~Installing(Head(todo))
    /\ \E o \in Outcomes(Head(todo)) : Apply(Head(todo), o)
    /\ skipped' = skipped \cup {p \in {Head(todo)} : Skips(p)}
    /\ UNCHANGED <<base, sel, inst, done, user>>

\* install_blob creates a new file under its own name and writes to it.
InstallBegin ==
    /\ pc = "walk" /\ todo # <<>> /\ inst = None
    /\ LET p == Head(todo) IN
        /\ Installing(p)
        /\ inst' = p
        /\ disk' = [disk EXCEPT ![p] = [x |-> Tree[base][p].x, c |-> Truncated]]
        /\ fi' = [fi EXCEPT ![p] = Touched(@)]
        /\ mi' = [mi EXCEPT ![p] = Touched(@)]
    /\ UNCHANGED <<base, pc, sel, todo, failed, done, history>>

InstallEnd ==
    /\ pc = "walk" /\ inst # None
    /\ Apply(inst, InstallBlob(mi[inst], None, Tree[base][inst], base))
    /\ inst' = None
    /\ UNCHANGED <<base, sel, done, history>>

\* check_cancelled: the user interrupts the walk.
Cancel ==
    /\ pc = "walk" /\ todo # <<>> /\ inst = None
    /\ pc' = "sync" /\ failed' = TRUE /\ todo' = <<>>
    /\ UNCHANGED <<disk, fi, mi, base, sel, inst, done, history>>

\* Mutant of BumpBase: entries outside the updated part are bumped as well.
BumpBaseEverywhere ==
    /\ pc = "walk" /\ todo = <<>>
    /\ mi' = [p \in Paths |-> BumpBaseCommitId(mi[p], base)]
    /\ pc' = "sync"
    /\ UNCHANGED <<disk, fi, base, sel, todo, inst, failed, done, history>>

\* After a complete walk all entries of the updated part get the base commit.
BumpBase ==
    /\ pc = "walk" /\ todo = <<>>
    /\ mi' = [p \in Paths |-> IF p \in Selected THEN BumpBaseCommitId(mi[p], base)
                                           ELSE mi[p]]
    /\ pc' = "sync"
    /\ UNCHANGED <<disk, fi, base, sel, todo, inst, failed, done, history>>

\* sync_fileindex: a new index file is renamed over the old one.
SyncFileindex ==
    /\ pc = "sync"
    /\ fi' = mi /\ pc' = "idle"
    /\ mi' = [p \in Paths |-> None]
    /\ done' = (~failed /\ sel = PathSeq)
    /\ UNCHANGED <<disk, base, sel, todo, inst, failed, history>>

\* The process is killed, between two paths or while it writes a file.
Crash ==
    /\ pc # "idle" /\ crashes < MaxCrashes
    /\ (IF inst = None THEN "between" ELSE "install") \in Crashes
    /\ crashes' = crashes + 1
    /\ pc' = "idle" /\ inst' = None /\ todo' = <<>> /\ failed' = FALSE
    /\ mi' = [p \in Paths |-> None]
    /\ UNCHANGED <<disk, fi, base, sel, done, mine, moved, skipped, edits>>

-----------------------------------------------------------------------------
(* The user.  A change made while a path is being written is not modelled.  *)

UserChange(p, f) ==
    /\ edits < MaxEdits /\ inst # p
    /\ edits' = edits + 1
    /\ disk' = [disk EXCEPT ![p] = f]
    /\ fi' = [fi EXCEPT ![p] = Touched(@)]
    /\ mi' = [mi EXCEPT ![p] = Touched(@)]
    /\ UNCHANGED <<base, pc, sel, todo, inst, failed, done, skipped, crashes>>

\* Write one region of a file; this also resolves a conflict there.
UserEdit(p, r, v) ==
    /\ "edit" \in UserActs /\ disk[p] \notin {None, Dir}
    /\ disk[p].c[r] # {v}
    /\ UserChange(p, [disk[p] EXCEPT !.c[r] = {v}])
    /\ mine' = [mine EXCEPT ![p][r] = v]
    /\ UNCHANGED moved

UserChmod(p) ==
    /\ "chmod" \in UserActs /\ disk[p] \notin {None, Dir}
    /\ UserChange(p, [disk[p] EXCEPT !.x = ~@])
    /\ UNCHANGED <<mine, moved>>

UserRemove(p) ==
    /\ "remove" \in UserActs /\ disk[p] # None
    /\ UserChange(p, None)
    /\ mine' = [mine EXCEPT ![p] = [r \in Regions |-> None]]
    /\ moved' = moved \cup {p}

\* Create a file where there is none, versioned or not.
UserCreate(p, v) ==
    /\ "create" \in UserActs /\ disk[p] = None
    /\ UserChange(p, [x |-> FALSE, c |-> [r \in Regions |-> {v}]])
    /\ mine' = [mine EXCEPT ![p] = [r \in Regions |-> v]]
    /\ moved' = moved \cup {p}

UserObstruct(p) ==
    /\ "obstruct" \in UserActs /\ disk[p] # Dir
    /\ UserChange(p, Dir)
    /\ mine' = [mine EXCEPT ![p] = [r \in Regions |-> None]]
    /\ moved' = moved \cup {p}

Process ==
    \/ \E c \in Targets : \/ UpdateSetBase(c, PathSeq)
                          \/ \E p \in Paths : UpdateSetBase(c, <<p>>)
    \/ UpdateOpen \/ UpdatePath \/ InstallBegin \/ InstallEnd \/ Cancel
    \/ BumpBase \/ SyncFileindex \/ Crash

User ==
    \E p \in Paths :
        \/ \E r \in EditRegions, v \in EditVals : UserEdit(p, r, v)
        \/ UserChmod(p) \/ UserRemove(p) \/ UserObstruct(p)
        \/ \E v \in EditVals : UserCreate(p, v)

Next == Process \/ User

Spec == Init /\ [][Next]_vars

-----------------------------------------------------------------------------
(* Correctness *)

\* got.1, update: "Preserve any local changes in the work tree".  What the user
\* wrote is still in the file, on its own or between conflict markers, until
\* the user removes or overwrites it.
LocalChangesSurvive ==
    \A p \in Paths, r \in Regions :
        mine[p][r] # None =>
            /\ disk[p] \notin {None, Dir}
            /\ mine[p][r] \in disk[p].c[r]

\* update_blob: "Do not update timestamps of files with local changes.
\* Otherwise, a future status walk would treat them as unmodified files again".
\* A file whose index entry has its time stamps holds the entry's blob.
FreshMeansUnmodified ==
    \A p \in Paths :
        /\ pc = "idle" /\ fi[p] # None /\ disk[p] \notin {None, Dir}
        /\ GetFileStatus(fi[p], disk[p]) = NoChange
        => disk[p].c = ComparedBlob(fi[p])

\* got.1, update: "Change existing files in the work tree as necessary to match
\* file contents of this commit", "merge them with the incoming changes".
\* After a complete update, whatever updates were interrupted or killed before
\* it, files are there as in the commit, with its text in every region the
\* user has not written.  Excepted is a file that an update has once passed
\* over: got.1 promises that it "will be updated when got update is run again
\* after merge conflicts have been resolved", but bump_base_commit_id has
\* recorded the new commit for it, and it passes for up to date.
IncomingChangesArrive ==
    done => \A p \in Paths \ (moved \cup skipped) :
        IF Tree[base][p] = None
        THEN (\A r \in Regions : mine[p][r] = None) => disk[p] = None
        ELSE /\ disk[p] \notin {None, Dir}
             /\ \A r \in Regions :
                    mine[p][r] = None => disk[p].c[r] = Tree[base][p].c[r]

\* got-worktree.5: the commit id of an entry "is used to detect past incomplete
\* update operations": an entry recorded for a commit has that commit's blob,
\* unless update has passed over the file (bump_base_commit_id again).
IndexMatchesCommit ==
    \A p \in Paths \ skipped :
        fi[p] # None /\ fi[p].hasCommit /\ fi[p].blob # None =>
            /\ Tree[fi[p].commit][p] # None
            /\ fi[p].blob = Tree[fi[p].commit][p].c
=============================================================================
