# Verification of Game of Trees

TLA+ models of Game of Trees (got): its reference store, work trees and
commands, the library below them (objects, packs, fetch, history, blame, the
walks of the file index) and the tog browser; the TLC runs that check them; and
TLAPS proofs about references, commands, fetch, the object store, the work tree,
rebase and histedit, and tog. Paths below are relative to `src/`.

## 1. Inventory

got keeps two kinds of persistent state: a Git repository (objects, loose and
packed references) that any number of processes share, and work trees, each with
files, a *file index* and small meta data files under `.got/`. A command is one
process. It may be killed at any time, other commands run beside it, and the
user edits files while it runs.

| Component | State | Operations | What is hard | What makes it correct |
|---|---|---|---|---|
| Lock files (`lib/lockfile.c`) | `F.lock` exists or not | lock with 5 attempts, unlock | time-out racing the holder, lock left by a kill | exclusion; nobody waits for ever |
| References (`lib/reference.c`) | loose file, line of packed-refs | open (locked or not), write, delete, unlock | two places, two locks, buffered writes | no commit is lost; loose wins over packed; deletion removes both |
| File status and merge (`lib/worktree.c`) | none (per path: file, index entry) | `get_file_status`, `merge_file`, `install_blob`, `update_blob`, `delete_blob` | recorded time stamps decide whether content is looked at | local changes survive; "unmodified" means unmodified |
| File index (`lib/fileindex.c`) | entry per path: blob, commit, stage, flags, time stamps | entry update, write by rename | stale entries | blob and commit belong together |
| Update, checkout (`got/got.c`, `lib/worktree.c`) | base-commit, files, index | set base, walk, bump, sync | kills, interrupts, edits in between, re-runs | incoming changes arrive; nothing local is lost |
| add, rm, revert, stage, unstage | index, files | one handler each | long sequences of legal commands | as above |
| commit | branch, base-commit, index | collect, editor, blobs and tree, branch, base, index | branch moves, files change while the editor is open, kills | commits what was collected; history only grows |
| cherrypick, backout | files, index | `check_merge_ok`, `merge_file_cb` | staged and added files | local changes survive |
| Work tree lock, meta data, integrate | `.got/lock`, base-commit, head-ref, branches | open, `lock_worktree`, set base, switch head, integrate | `O_EXLOCK` is 0 on Linux; two branches locked at once | cached meta data is current; index updates and commits are not lost |
| Rebase, histedit | references under `refs/got/`, script, temporary branch | prepare, step, continue, abort, complete | kill between any two references | resumable, abortable |
| Index walk, status, ignore patterns (`lib/fileindex.c`, `lib/worktree.c`) | index in memory, position in it | walk of index and tree or directory, callbacks | entries added and removed during the walk; an order of paths of its own | each path is met once; the count in the header is right |
| Fetch, clone (`got.c`, `lib/fetch.c`, got-fetch-pack) | repository's references and packs | negotiate, download, index, rename, write and delete references | kills, pushes and local commits meanwhile | references are readable; local ones are kept |
| got-index-pack | array of objects, index so far | passes over whole objects and deltas | several passes, counters | index lists every object, or none is written |
| Object reader, caches, helpers (`lib/repository.c`, `lib/object.c`, `lib/object_cache.c`, `lib/privsep.c`, `libexec/got-read-*`) | caches with reference counts, pack slots, sockets | open, close, search, request, reply | eviction of what is in use, new packs, dying helpers | what is read is what was asked for, and stays alive |
| Object writer (`lib/object_create.c`) | loose files, lock files | import, commit, tag | same object written twice, kills, missing directories | children before parents |
| Commit graph, blame | traversed and open commits, line maps | iterate, common ancestor, blame | merges, arbitrary times, skipped packed runs | equal to a reference definition |
| tog | views, commit queue, selection, search, threads | keys, view loop, log and blame thread | signals, views closed over each other, window sizes | what is highlighted is acted on; the keyboard comes back |
| diff, diff3 | none | pure | | abstracted |
| gotweb, configuration, byte streams, `compat/` | none of interest | | | not modelled |

Components interact through shared files only (references, objects, `.got/`);
inside a process, `got.c` calls `worktree.c`, which calls the file index, the
reference store and the object store. Every hazard found while reading is in
`PROJECT.json` with its line.

## 2. Modules

**`RefStore`** models one reference and the processes that use it. `loose`,
`packed` and `lk` are the loose file, the line of packed-refs and the two lock
files; `buf` says whose stdio buffer still holds the line of a loose file that
was already renamed into place (`got_ref_write` closes the stream after the
rename). The other variables are per process: program counter, the reference it
opened, the lock it holds, the id it expects and the id it writes. One action is
one system call (or a read and rename nobody can come between). `Crash` removes
a process and leaves its lock file behind. `NSubdirs` is the length of the
search list of `got_ref_open`; a locked open of a name tries each of them. `scene`,
chosen from `Scenes` at the start, is where the reference is stored and which
operations each process runs.

**`FileStatus`** holds what worktree.c computes for one path, as operators over
a file and an index entry. A file's content is a function from *regions* to sets
of values: one value is plain text, several are a conflict between markers. This
is as much of diff3 as the properties can tell apart: a region changed on one
side takes that side, changed on both to different values becomes a conflict.
Time stamps are reduced to `fresh`, whether the recorded ones match the file's;
every write by anybody clears it and `sync_timestamps` or an entry update with
`update_timestamps` sets it. `DeleteBlob` has two outcomes where the code reads
a `struct stat` that was not filled in.

**`WorktreeUpdate`** is `got update` in detail: `UpdateSetBase`, `UpdateOpen`,
one step per path (`UpdatePath`, or `InstallBegin`/`InstallEnd` for a new file,
which is written in place), `BumpBase`, `SyncFileindex`, `Cancel` and `Crash`,
with the user editing, removing, creating and obstructing files between any two
steps. `fi` is the index on disk, `mi` the one in memory.

**`WorktreeOps`** has the commands that record and undo changes in one work
tree, with other committers to the branch. A command holds the work tree's lock,
so all but commit are one step. `got commit` is `CommitCollect` (up to the log
message), `CommitWrite` (blobs, tree, commit, and moving the branch; RefStore
has the locking), `CommitSetBase`, `CommitIndex`, with user edits, other
commits and kills between them.

**`Replay`**, **`Rebase`**, **`Histedit`** and **`Rewrite`** model the two
commands that rewrite history. `store` is everything on disk: the branches, the
references under `refs/got/worktree` that make an operation resumable
(`r_newbase`, `r_branch`, `r_tmp`, `r_commit` for rebase, `h_branch`, `h_base`,
`h_tmp`, `h_commit` for histedit), the histedit script, head-ref, base-commit,
files and index. `proc` is the running command. It decides on its writes in one
step and puts them into `proc.plan`; `Write` performs one, so that `Kill` can
leave any prefix behind. `Replay` has what both commands share (merging one
commit, `rebase_commit`, complete, abort, `store_commit_id`) and the
user and other committers between commands; `Rebase` and `Histedit` have one
action per stage of `cmd_rebase` and `cmd_histedit`; `Rewrite` composes them and
states the properties. A commit is the sequence of all commits up to it and a
tree is the set of hunks it contains, each belonging to one change and one file:
enough to see which change ended up in which commit. Commits change the content
of existing files; adding and deleting files in a merge is in WorktreeOps.
`CollectFails` and `ScriptRejected` are errors after the work tree was switched.
A failing editor for a log message and an interrupt in a merge leave the same
states as `Kill`.

**`Commands`** has the commands of `got(1)` as sequences of the steps in which
they touch what they share: the open lock, `.got/lock`, head-ref, base-commit,
the file index and the branches with their lock files. `Programs` is the table
of commands. Not in it are rebase and histedit, of which `Rewrite` runs one at a
time, and init, clone and fetch, which open no work tree or only read its meta
data. Each step is an action; `Fail` and `Kill` may end a command before
any of them (`FailAndSync` is the error path that still writes the index).
`loose` and `lines` say where a branch is stored. A locked open of a branch that
has no loose file gives that file's lock back (`NoLooseRef`), waits for
packed-refs.lock (`LockPacked`) and returns the line it finds there, stale or not;
two such branches share that one lock. `OtherCommit`, the commit from another work
tree, has its locked section in one step; RefStore has its parts.
`exlock` chooses between a system with `O_EXLOCK` and Linux. The index is the
set of commits its entries are at and whether anything is scheduled. In the
other work tree modules one command runs at a time; this module is why that is
enough.

**`ObjectStore`** is the abstract specification of a repository for its readers:
a set of objects that always has everything its members refer to, and
references to members. **`Fetch`** (clone and fetch: advertised references,
negotiation, download and index, two renames, then references one by one, with
failures, kills, pushes, local commits and tags between the steps) and
**`ObjectCreate`** (import, commit and tag: the recursion over directories, one
object after the other under its own lock file) are shown to implement it:
`FetchImplementsStore` and `WritersImplementStore` are `ObjectStore!StoreSpec`
with the commits and references, or the object files and references, of the
detailed module in place of `objs` and `refs`. In Fetch, looking for a reference
and creating the missing one are two steps, because the look gives its lock back;
the branches and references to ask for may be named (`-b`, `-R`); and `-d` deletes a
reference and its tracking reference one after the other.

**`IndexPack`** is got-index-pack: objects of a pack stored whole, as offset
delta or as ref delta, in any order of ids; passes and counters as in the code.
**`Objects`** is the reading side: lookup in cache, pack indexes and loose files,
pack slots, the helper processes with the messages between them and the program,
and the reference counts of what is handed out. **`CommitGraph`** is the
traversal of history in `commit_graph.c`, including the run of packed commits
that got-read-pack skips, and **`Blame`** attributes lines on top of it. Both are
checked against definitions that do not depend on the algorithm (`Reachable`,
`PathHistory`, `Origin`). **`FileindexWalk`** has the walks of index and tree, and of
index and directory, with the callbacks that change the index, on paths whose
characters are compared as in `got_path_cmp`; and the ignore patterns.
**`Library`** puts these side by side.

**`TogLog`** is the log view and its thread: the main thread holds `tog_mutex`
except in its waits, so each of its turns is one step; the log thread takes the
mutex to append a commit, to look at the needed count and to wait. **`TogViews`**
is the tree of views and the keys that open, close and focus them; **`TogList`**
the cursor, scrolling and search in the diff, blame, tree and reference views,
and the blame thread. **`Tog`** composes them.

`mine`, `moved`, `skipped` and `done` are history variables: what the user wrote, which
files were replaced by hand, which an update has passed over for their conflicts or
for a directory in their place, whether the last update completed; in Replay,
`home`, `dropped`, `folded` and `seen`: where the work tree was, what the user
threw away, what was folded, and which exceptional events have happened.
In the tog modules and CommitGraph, `seen`, `oddities` and `again` name events
after which a property makes no claim; section 6 says what happens then. `MC*`
modules give the constants of the runs. Modules
named `*Proofs` have the proofs about the module of that name; `RepositoryProofs`
those about ObjectStore, Fetch and ObjectCreate (section 4).
A definition that is not used anywhere and stands before one of nearly the same
name is a plausible bug in that one; PROJECT.json lists them, and the property
that fails when it takes the place of the original.

## 3. Runs

| Run | Expect | Shows |
|---|---|---|
| `ref_store` | pass | two processes, all seven operations, kills, on a reference that is not packed, and three that delete one which is loose and packed: `LockExclusion`, `CommitReplacesCheckedHead`, `LooseChangesUnderLock`, `DeleteDeletesBoth`, and `OperationsReturn` under fairness |
| `ref_packed_commit` | violation | a commit is lost when the branch is only packed |
| `ref_write_flush` | violation | readers see an empty loose file and fall back to packed-refs |
| `upd_user` | pass | updates in both directions, interrupts, a kill anywhere, three edits, chmod, rm, new and obstructed files: `LocalChangesSurvive`, `FreshMeansUnmodified` |
| `upd_crash` | pass | three kills between files, edits that merge or conflict, files removed or replaced by directories: `IncomingChangesArrive`, `IndexMatchesCommit`, of the paths not passed over |
| `ops_alone` | pass | all commands of the module, one user: `CommitRecordsChanges`, `IndexMatchesCommit` |
| `ops_history` | violation | a commit after somebody else's takes that one out of the branch's history: `HistoryOnlyGrows` |
| `ops_shared` | pass | with another committer and a kill: `LocalChangesSurvive`, `FreshMeansUnmodified` |
| `rewrite` | pass | one rebase or histedit over four histories, conflicts, `-c`, `-a`, one error or kill anywhere, user commits, reverts and dropped changes, one commit by others: `HeadRefExists`, `ConflictCanBeAborted`, `ReplayedAsIs`, `NothingLeftBehind`, `AbortReturnsHome`, `RebaseKeepsChanges`, and `RebaseEnds` under fairness |
| `tog` | pass | up to three keys in a log of 0, 1 or 4 commits while the thread loads it, four in the other views, up to six views: `SelectedCommitIsHighlighted`, `FocusIsUnique`, `PointersAreLive`, `SelectionExists`, `SearchTerminates`, and `MainReturns` under fairness |
| `commands` | pass | any two commands of `Programs` in one work tree, on both kinds of system, beside another work tree, one branch packed: `CachedMetaIsCurrent`, `IndexUpdatesNotLost`, and `IntegrateKeepsHistory` for branches without a line in packed-refs |
| `library` | pass | `FetchImplementsStore`, `LocalRefsKept`, `IndexIsComplete`, `HeldObjectsAreLive`, `ReadsReturnTheObject`, `WritersImplementStore`, `HistoryIsTraversed`, `BlameNamesTheOrigin`, `EachPathReportedOnce`, each in the states of its module |

*Bounds.* Locks need two processes for a race and a third so that a waiter can
be overtaken while another holds the second lock. `Attempts = 2` is enough for a
retry and a time-out. Update needs two paths, so that there is a reached and an
unreached one when the walk stops, and three commits, so that a stale entry can
be overtaken twice. `upd_user` compares states by `LocalView`, without history variables
that no action and neither of its properties reads. Two regions tell a clean merge from a conflict; one suffices
in WorktreeOps, where merging itself is not in question. WorktreeOps has a file
that exists and one that does not, and histories of three commits. Rewrite has
two files and four histories: branches that diverge with and without an overlap,
a branch that is behind and only needs forwarding, and one that consists of the
root commit. Two commits to replay are the least for which one can be confused
with the next, and any merge with an older version may or may not conflict.

Commands needs two commands that overlap and three branches (the work tree's, the
integrated one, a new one); it starts in a work tree with or without scheduled
changes, or before there is one. Fetch has two runs, so that the
second meets what a killed first one left, three commits (one of the server, one
local, their parent) and one reference of each kind. A pack of three objects has
all delta chains that need more than one pass. Objects has three packs for two
slots and caches of one object, so that every second read evicts. Two writers,
of which one is killed, are the least that can meet at one object. Histories of
five commits have nested merges and a merge of a merge; the contents are those
in which a path changes back, ceases to exist or is merged from either side.
FileindexWalk has three names that sort before, at and after the separator, each
as file, directory or submodule, on either side. The tog instances are small
screens: a log of 4 commits in 2 or 3 rows scrolls, has a partial last page, and
may be complete or not at each key.

*Fairness.* `FairSpec` asks only that the operating system runs a process that
has started an operation (`WF` of its steps). Kills are never fair. Rewrite's
`Fairness` asks that a running command goes on and, for `RebaseEnds`, that the
user edits files with conflict markers and then gives `rebase -c`; the property
is a statement about what such a user achieves, and says nothing after an error
or a kill. Tog asks that both threads run when they can, strongly because they
compete for a mutex that the system grants eventually (`LogFairness`,
`ListFairness`); keys are never fair. Nothing else is assumed; no other run checks
liveness.

*Why some runs leave inputs out.* A passing run excludes the inputs that lead
into behaviour a violation run or section 6 describes: `ref_store` writes no reference
that has a packed line; `upd_user` has no file that first appears in a later commit;
`upd_crash` has no chmod; `ops_shared` has no revert, no `rm -k` and no new
file made by hand, the ways to get an unversioned file where a commit adds one;
`ops_alone` has no other committer, no kill and no mixed-commit work tree.
`rewrite` has one start, so no rebase started inside a rebase. `tog` has no
failing log thread (`MayFail`). `library` names no path twice or inside another
one in `PathArgs`. The properties of rewrite, tog and library name the events
after which they make no claim, and section 6 says what happens then.

*Deadlock.* `rewrite`, `tog`, `commands` and `library` may stop: when the
user gives no further command, or when what was started has ended.

## 4. Proofs

`RefStoreProofs` proves, for any set of processes, ids, operations, numbers of
attempts and search paths, with kills allowed, under `RefConstants` only:

* `TypeCorrect`: `Spec => []TypeOK`, inductive as it stands.
* `LocksExclude`: `Spec => []LockExclusion`. Inductive is `LockInv`: besides the
  exclusion it says at which program counters a process holds which lock. This
  is what is needed at the unlocks: a process that unlinks `F.lock` must be its
  creator, and one that times out must hold nothing.
* `CommitsNotLost`: `Spec /\ scene.packed = None => []CommitReplacesCheckedHead`, for a
  reference without a line in packed-refs at the start. The invariant `LooseInv` adds: packed-refs
  stays without a line, a process at the check or the rename of a commit holds
  the lock of the loose file, and that file still has the id it read. The
  assumption cannot be dropped, as `ref_packed_commit` shows.
* `LooseFileGuarded`: under the same assumption the loose file is only replaced
  or unlinked by the holder of its lock.
* `DeleteTakesBoth`: `Spec => []DeleteDeletesBoth`, a claim about scenes in which all
  processes read or delete. `DeleteInv` says that nobody
  writes, and that what a process has deleted stays deleted, from the first
  unlink to the end of the second half.

`CommandsProofs` is about any number of commands in one work tree beside any number
of committers, with failures and kills at every step, under `CommandsAssumption`
(names of processes and branches differ from the marks for "no one"). A command is a
sequence of steps, so the argument has two parts. First, a static one over the table
`Programs`: in every command of it each step that uses something comes after the
step that provides it (`After`) and nothing that undoes it comes between (`IsPlan`);
`ProgramsAreFresh` shows this by going through the table. Second, the invariant
`CommandsInv`: the rest of each running command still has this property relative to
what the process has at the moment (`Relies`), locks exclude (`Alone`), branches name
commits of a history that is closed (`HistoryOK`, `RefsOK`).

* `CommandsMetaCurrent`: `Spec => []CachedMetaIsCurrent`.
* `CommandsKeepIndexUpdates`: `Spec => IndexUpdatesNotLost`, also where `O_EXLOCK`
  is 0: between `ReadIndex` and `Sync` of one command no other can get past
  `LockEx`.
* `IntegrateFastForwards`: `Spec => IntegrateKeepsHistory`, because the branch is
  locked from `LockHead` over the comparison to the write. The property is about work
  tree branches without a line in packed-refs, wherever the integrated branch is
  stored; for the others it is false (section 6).

`RepositoryProofs` starts with `StoreStaysReadable`, `StoreSpec => []RefsReadable`,
for every `Needs`: the two rules of the store (a set of objects grows only to
complete ones; references are set only to present objects) are all that readers
need. `RefsReadable` is inductive as it stands. That the code keeps the rules:

* `FetchRefinesStore`: `FetchSpec => FetchImplementsStore`. From
  `AncIsClosed` and `ServerIsClosed` (the ancestors of a commit are closed, and a
  server has the history of what it has) and `FetchConstants` (kinds of references
  are disjoint). `FetchInv` follows the pack: from the negotiation on, the
  repository's objects together with the pack are closed and have all that the
  references to be written need; once the index is renamed into place, without the
  pack. The second theorem, `FetchKeepsLocalRefs`, `FetchSpec => LocalRefsKept`,
  needs one more part, that the branch `delete_missing_refs` remembers from an
  earlier iteration is one the server has. The property excepts the one reference that
  fetch has looked for and not found: made before fetch creates it, it is overwritten
  (section 6).
* `WritersRefineStore`: `CreateSpec => WritersImplementStore`,
  for every directory tree, edit and number of writers. `CreateInv` says of every
  writer that the entries on its stack of directories and all that the object at hand
  needs are files. `EditPaths` only says that a path is a sequence of names.

`ObjectsProofs` is about the reading side, for every repository, cache size, number
of packs and slots, and any helper killed at any time. `ObjectsInv` has two parts.
`MemOK` counts: an instance is in the cache of its own kind only, and its count is at
least the program's references plus one if it is cached, so an eviction or a close
never takes the last count from a holder. `CallInv` follows the conversation over a
socket pair: the helper that is waited for has the request (`Pending`), or the answer
to it is in parts received, in parts on its way and in parts lost only to a kill
(`Answered`), or it answered with an error because the object is of another type
(`Refused`); every other helper has neither request nor answer. The assumptions are
that objects have one of the four types, that packs are not named like types, and
that caches hold something.

* `ObjectsStayLive`: `ObjectsSpec => []HeldObjectsAreLive`.
* `ObjectsReadRight`: `ObjectsSpec => []ReadsReturnTheObject`.

`WorktreeUpdateProofs` is about `got update` for any set of paths, regions and commits,
any number of edits, interrupts and kills, and updates forwards and backwards. It
starts with what the operators of FileStatus do to one path (`StatusIs`,
`EntryUpdateOK`, `MergeKeeps`, `MergeBlobOK`, `UpdateBlobOK`, `DeleteBlobOK`). Two
hypotheses say where the code keeps its promise; both are conditions on the constants
which `UpdUser.cfg` satisfies. `NoFileAppears`: no commit that is updated to has a
file where an earlier base commit has none; otherwise update adopts an unversioned or
truncated file (section 6). `EditsAreNew`: what the user writes is in no commit; text
equal to a commit's is no local change, and goes when that commit's does.

* `UpdateTrustsTimestamps`: under `NoFileAppears`, `Spec => []FreshMeansUnmodified`.
  The property is not inductive: the index on disk and the one in memory have to be
  right at once, at every program counter. `UpdateInv` says of both that an entry's
  blob is one of the path's, that recorded time stamps mean that the file has the
  blob's text and the recorded mode, and that a path without an entry is in no base
  commit; `Writing`, that a file is being written only during a walk.
* `UpdatePreservesChanges`: under both, `Spec => []LocalChangesSurvive`. `MineInv`
  adds that nothing of the user's is where a file is being written. A file that is
  replaced or removed passed for unmodified, so by `UpdateInv` it was a commit's and
  had nothing of the user's; a merge drops only what the ancestor has (`MergeKeeps`).

The third result needs neither hypothesis. Update passes over a directory in a file's
place and over a file with conflict markers, and bumps its entry all the same (section
6); `skipped` has the paths to which this has happened, and the property is about the
others. `UpdateBlobIs` says what `update_blob` does to a file it does not pass over: it
is up to date, or it is written, adopted, merged, or left with its mode, and recorded
for the commit; `OutcomesFormed`, that an entry stays well-formed in any case.

* `UpdateIndexMatches`: `Spec => []IndexMatchesCommit`, with updates in both directions,
  of any paths, and kills at any point. `MatchInv` says of the index on disk and of the
  one in memory that a blob is the one of the entry's commit, and of a walk that each
  selected path either has the base commit's blob, or is still to come, or was passed
  over. That is what makes it right to bump the other entries at the end.

`WorktreeOpsProofs` is about all the commands of WorktreeOps for any set of paths,
regions and commits and any number of commands, edits, kills and commits by others.
Lemmas say what each command makes of one path (`UpdateBlobOK`, `RevertOK`, `StageOK`,
`UnstageOK`, `MergeFileCbOK`, `CollectedOK`, `AfterCommitOK`); one lemma per action
takes them to the work tree; `StepKeeps` collects these. Five invariants build on each
other:

* `OpsInv`, without hypotheses: index entries and collected changes are well-formed
  (`EntryFormed`, `CtFormed`) between the steps of a commit, too: what was collected
  keeps matching its entry while the user edits and others commit.
* `StampInv`: recorded time stamps mean that the file has the text it is compared with
  and the recorded mode, and until the index is written the files have the text the
  blobs were made from. From it `OpsTrustTimestamps`, `[]FreshMeansUnmodified`.
* `RecordInv`: what was collected is based on the commit the tree is made from. From
  it `CommitHasChanges`, `[]CommitRecordsChanges`, with kills, edits at any point and
  others' commits.
* `MineInv`: the user's text is in the file or, once a merge has deleted the file, in
  the staged blob. From it `OpsKeepChanges`, `[]LocalChangesSurvive`.
* `AloneInv`: the blob of an entry is in the entry's commit and in the head, and the
  base commit is the head except between two steps of a commit. From it
  `AloneIndexMatches`, `[]IndexMatchesCommit`, and with that
  `AloneCommitHasChanges`, `[]CommitRecordsChanges` without a further hypothesis.

The hypotheses say where the code keeps its promise. `NoFileInTheWay` (the first and
the third theorem): no unversioned or removed file is where the head has one, or
update records it as unmodified (`worktree.c:2037` and `2010`, section 6). `EditPoints`
(the same two): the user edits while the editor for the log message is open, but not
between the creation of a blob and the update of the index, which would hide the edit
(`5378`). `NewText`: what the user writes is in no commit. `IndexMatchesCommit` (the
second and the third): without it `check_out_of_date` lets a change through that
`match_deleted_or_modified_ct` does not find (`4614`, `5397`). When that holds is the
last theorem's matter: `Alone` has one committer, no kills, files deleted with
`got remove` only, and no executable bit; `OpsAlone.cfg` is such an instance. Each part
of `Alone` is needed: TLC finds a counterexample to `IndexMatchesCommit` within ten
steps when `ops_alone` gets another committer, a kill, `rm` or `chmod` in turn, all but
the second with a `got revert` that pairs the base commit with a blob it does not have
(`4614`); after a kill it is update that bumps a conflicted file (`2435`).

`TogProofs` is about tog as a whole; each part runs beside the other two. For the
views, any number of them on any screen, `ViewsInv` is the invariant of two theorems: a view and
its child know each other and children have no children (`FamilyOK`), the list of the
view loop has the open views without a parent, each once (`ListOK`), only the current
view has the focus, and a view that points into another one is its child or a
top-level view that has the keys, itself or through its child (`UsesOK`). The second
case is a view opened from a child, which the loop puts at the end of the list: what
it points into is closed only by keys of other views, and the keys leave such a view
only when it is closed. That rests on the table of what opens from where, `MayOpen`:
nothing is opened from a diff, only a diff from a blame, so no view opened further
down replaces the one that is pointed into (`TopUser`, `UseTypes`).

* `TogFocusUnique`: `Spec => []FocusIsUnique`.
* `TogPointersLive`: `Spec => []PointersAreLive`. `CloseTop`, `CloseChild` and `AddTop`
  say what closing and opening do to the tree; `QuitTop` and `QuitChild`, that closing
  the current view leaves no pointer into it.

For the diff, blame, tree and reference views `ListInv` says, for every text and pattern,
every window of more than four lines and every list that is not empty
(`TogListConstants`; section 6 on empty files), that what is on the screen is what was drawn from the first line or
entry, that the selection fits it, and that a search which is on its way
has a line to start from and, if it matched before and nothing was replaced since, a
match ahead of it. The loops of the search are a recursive function of the steps that
are left; that they find the match is an argument on the first line, counted from the
start and around the end, that matches (`GoesAround`).

* `TogSelectionExists`: `Spec => []SelectionExists`.
* `TogSearchTerminates`: `Spec => []SearchTerminates`.

For the log view, `LogInv` has a case for each way the screen may be: full, still
filling because commits are being waited for, short because the history is, or empty
because the view was reloaded. Keys that scroll past what is loaded take a view from
full to filling; the log thread appends behind what is shown, so only the main thread
takes it back, when it has drawn.

* `TogHighlightsSelection`: `Spec => []SelectedCommitIsHighlighted`.

`RewriteProofs` is about rebase and histedit for every history, set of files and log
messages, every script, any number of operations, kills and other committers. A
command is a plan, a sequence of writes of which a kill leaves any prefix behind. So
the invariants say of a plan what its prefixes do: `WillBe(plan, st, k, V)`, key k has
a value of V when the plan is done; `Guarded(plan, st, t, k, V)`, after every write of
it at which the work tree is on branch t. Three invariants, each for the behaviours the property speaks of:

* `SteadyInv`, as long as no rebase was started within a rebase: the store has its
  type; whenever the work tree is on a temporary branch, that branch exists and the
  references that tell where to go back to name `home` (`RefsGuarded`: they are there
  before head-ref is switched and deleted after it is switched back), and a plan that
  aborts ends at `home`. From it `RewriteHeadExists`, `Spec => []HeadRefExists`, with kills between
  any two writes, and `RewriteAbortReturns`, `Spec => AbortReturnsHome`.
* `ResumeInv`, without kills, errors and restarts: while a command runs, the commit
  reference names the commit at hand (`RecordOK`), and what a rebase has left to do is
  the branch from the commit after it on (`Rebasing`), which stays a prefix of the
  branch whatever others add to it. From it `RewriteCanBeAborted`,
  `Spec => []ConflictCanBeAborted`.
* `TidyInv`, without kills, restarts and a fold that nothing takes up: the files
  differ from the index only by what was merged for the commit at hand, or for a fold
  that a later entry of the script will commit (`TidyScript`); the plans that complete
  or abort end with the index and files of one commit. From it
  `RewriteLeavesNothing`, `Spec => []NothingLeftBehind`.

The exceptions are the ones the properties make, and section 6 shows that each is
needed. `ReplayConstants` says what histories are made of; `user` and `other` are the
messages of commits that the user and others make.

Only model-checked:

* liveness (`OperationsReturn`, `RebaseEnds`, `MainReturns`), which is out of the
  prover's reach;
* what recursive definitions compute for every input, which needs an induction that
  the provers cannot do: `IndexIsComplete`, `HistoryIsTraversed`,
  `BlameNamesTheOrigin`, `EachPathReportedOnce`;
* `IncomingChangesArrive`: once kills leave entries behind their files, it holds only
  while history goes forward, files keep their modes and no text comes back, too narrow
  a case to be worth a theorem;
* `ReplayedAsIs` and `RebaseKeepsChanges`: both compare the trees along two lines of
  history, commit by commit, which is an induction over the commits replayed so far.

## 5. Disagreements the runs show

1. **Lost commit on a packed branch** (`reference.c:478`). A locked
   `got_ref_open` gives the loose lock back when there is no loose file and then
   waits for packed-refs.lock. Meanwhile the holder of that lock creates the
   loose file; the waiter reads the stale packed line and overwrites it.
2. **Empty loose file** (`reference.c:1153`): rename before flush.
3. **Forked history** (`worktree.c:5502`). A commit takes its tree from the branch's
   head and its parent from base-commit, and `check_out_of_date` looks at the committed
   paths only. With another committer (or after a kill between moving the branch and
   writing base-commit) the new commit's line of history lacks the commits in between,
   in spite of the check announced at `5514`, "Check if a concurrent commit to our
   branch has occurred"; `git-repository.5:40` says that commits "are chained together to
   form lines of version control history".

## 6. Also seen while modelling

**Integrate on a packed branch** (`worktree.c:7042`). Both branches are opened as in
the first item of section 5. The commit that another work tree makes between the two
locks is not on the line that integrate reads; it compares ancestry with the old commit
and overwrites the new one, although `got.1:1687` says that "the branch must have been
rebased onto the work tree's current branch". (`IntegrateKeepsHistory`, once it is
stated of every branch and `PackedTips = {1}` has the work tree's branch packed.)

**Fetch creates a branch that exists** (`got.c:2366`). The look for the branch ends
with `GOT_ERR_NOT_REF` and no lock; `create_ref` writes without looking again. What
the user makes of the branch in between is lost, against the comment at `got.c:2365`,
"Also create a local branch if none exists yet". References written for `update_ref`
(`got.c:2321`), tags among them, have the same window. (`LocalRefsKept` without
`Missing`.)

**Conflicted file never updated** (`worktree.c:2434`). Update skips a file with
conflicts, but `bump_base_commit_id` records the new commit for it. When the conflicts
are resolved the file passes for up to date, against `got.1:541`, "Such files will be
updated when got update is run again after merge conflicts have been resolved."
(`IncomingChangesArrive` and `IndexMatchesCommit` in `upd_crash`, once they do not
except `skipped`.)

Behaviour the models have but no run of its own is about: two processes creating
one branch, the second replaces the first's (`got.c:5598`); a local chmod makes
update record a blob it did not install (`worktree.c:2003`); a kill while a new file is written leaves a truncated file that is
then adopted (`1479`); `rm -k` and an incoming change (`2010`); an edit between
the creation of a blob and the index update is hidden (`5378`); a staged file
deleted by a backout (`3035`); committing a staged file that is missing on disk
(`3258`); a staged file removed while it is being committed keeps the entry's old
blob (`5349`; `IndexMatchesCommit`, once files may be removed during a commit).

**Unversioned file adopted** (`worktree.c:2037`). Where a file arrives in the
place of an unversioned one, `create_fileindex_entry` records the time stamps of
the file that `install_blob` left alone; it passes for unmodified and the next
update overwrites it, against `got.1:536`, "Preserve any local changes in the work
tree". (`LocalChangesSurvive`, once `upd_user` gets `StableTree`.)

**Change missing from a commit** (`worktree.c:4614` with `5397` and `5084`). In a
mixed-commit work tree `got revert` pairs the base commit with the entry's old
blob; `check_out_of_date` then lets the next change through,
`match_deleted_or_modified_ct` finds no such blob, and the commit lacks the
change while the index records it (`got.1:1220`, "commit all changes in the work
tree"). (`CommitRecordsChanges`, once `ops_alone` gets another committer.)

Rebase and histedit, each seen as a counterexample when the exception for it is
taken out of the property named:

* A rebase that fails in `collect_commits` (interrupted, or a change outside the
  path prefix, `got.c:7796`) or a histedit whose script given with `-F` is
  rejected (`got.c:9003`) has switched the work tree to the temporary branch but
  has no commit reference yet. `-c` and `-a` both refuse (`worktree.c:5957`),
  against `got.1:1493`, "Abort an interrupted rebase operation";
  `regress/cmdline/rebase.sh:659` ends in this state. (`ConflictCanBeAborted`)
* `got rebase branch` during a rebase is accepted (`got.c:7731`); aborting the
  second one "switches back" to the temporary branch and deletes it.
  (`AbortReturnsHome`, `HeadRefExists`)
* `histedit -c` without a local change, as after `got commit`, which
  `got.1:1616` allows, leaves the commit reference in place (`got.c:9043`); the
  next conflict is then resumed at the wrong entry and its change committed
  under another commit's log message. (`ReplayedAsIs`)
* The changes of a fold stay uncommitted if the fold had a conflict and was
  continued, or if only drops follow it: `histedit_check_script` refuses a fold
  only in the last line. (`NothingLeftBehind`)
* A kill between `store_commit_id` and the merge makes `-c` elide the commit; a
  kill between moving the temporary branch and the index makes it commit once
  more. Commits made to the branch while a rebase command runs are overwritten
  when it completes (`worktree.c:5847`, "TODO Lock original branch's ref while
  rebasing?").

Commands, with and without `O_EXLOCK`: `got_worktree_set_base_commit_id` and
`switch_head_ref` run before `lock_worktree`, so on Linux two commands may
interleave there (`got_lib_worktree.h:28` asks for an exclusive lock);
`got_worktree_integrate_prepare` leaves the lock file of the first branch behind
when it cannot lock the second, and if both branches are only packed it cannot, for
their lock is the same packed-refs.lock; a killed `got_worktree_init` leaves a work tree
that cannot be opened or made again; import, tag and branch check for an
existing reference and write later (`got.c:847`); `histedit_prepare`'s error path
takes `LOCK_EX` where it means to go back to `LOCK_SH` (`worktree.c:6813`);
`got ref -d` deletes the work tree's own branch.

Index walk, found by TLC when the exception is taken out: updating one file whose
predecessor in the index is gone from the tree deletes that entry instead, and
files of the same name in subdirectories are updated too
(`fileindex.c:847`); arguments that overlap (`got update dir dir/file`, kept as
given at `got.c:2997`) add or remove an entry twice, the count in the header is
wrong, and the index can no longer be read (`fileindex.c:249`, `907`, `686`).
With a .cvsignore and a .gitignore in one directory the second is ignored
(`read_ignores`; `got.1:689` names both).

Fetch: `-d` without `-a` deletes tracking references of branches that were just not
asked for; `-d` in a mirror may follow a null pointer (`got.c:1965`); an error of
the progress callback is overwritten (`fetch.c:765`). got-index-pack:
`nvalid += nresolved` (`899`) counts again what earlier passes resolved, so that
packs which need more than one pass over their deltas may be refused. Helpers exit after any error
and the program keeps the dead one. Object writer: two writers creating the same
directory, the slower one fails (`path.c:305`); a kill leaves a lock that makes
later writers of that object time out. Commit graph: the shortcut for merges adds
a parent without looking at `node_ids`, so `got log path` may print a commit twice,
and parents may precede children when times are not monotonic.

tog: the main thread waits for ever if its wait begins after the log thread's last
signal and before `log_complete` (`tog.c:2086`), or if the log thread fails; Page
Down in a blame view after a search or a resize may select past the last line
(`4641`); `n` after what is displayed was replaced loops for ever when nothing
matches; reloading the log view leaves `matched_entry` pointing into the freed
queue; `n` before any `/` uses a regex that was never compiled; Enter on a
reference to something other than a commit follows a null pointer (`6105`). For an
empty file `run_blame` returns before it has filled in the thread's arguments
(`4246`); the thread is started all the same (`4447`) and follows a null pointer
(`4107`). `TogListConstants` therefore has no list of length 0; in windows of four
lines or less the tree view may have no row left for entries. A log view that grows (a split closed, the terminal
enlarged) near the end of the history may show fewer commits than its selected row:
`SelectedCommitIsHighlighted` excepts the event `grown`. `ShowLog`
draws after every key; the redraw after a `wgetch` that times out is left out.

## 7. Not modelled

Symbolic links; hunks chosen with `-p`; formats on disk and parsers of bytes;
removal of empty directories; the diff and diff3 algorithms (merging a region and
the diff of sorted lines stand for them); symbolic references; configuration
files; gotweb; drawing in tog; and the rest of the components `PROJECT.json` lists as
`not_modelled`, with the reasons there. In WorktreeUpdate and WorktreeOps the user
acts between the steps of a command, not between the system calls of one path,
and paths are flat; ObjectCreate has nested trees. Objects, once created, are
immutable and named by their content, so a blob is its content.

## 8. Plan

What the models are ready for, in this order:

1. `RefStore` shown to implement an atomic reference where packed-refs has no
   line; symbolic references; FileStatus with symbolic links.
